--------------------------- MODULE VersionedRecord ----------------------------
(***************************************************************************)
(* What the versioned records of the operations console promise: reviews   *)
(* of a run, decisions on a policy candidate, versions of a document, of a *)
(* report or of the operations policy.  A record is a log.  An entry is    *)
(* appended by somebody who states the version it is based on, and is      *)
(* accepted only if that version is the latest; entries are never changed  *)
(* or removed.                                                             *)
(***************************************************************************)
EXTENDS Naturals, Sequences

CONSTANT Records
VARIABLE log        \* log[d]: the version each entry of record d is based on

Init == log = [d \in Records |-> <<>>]

Extend(d, base) == base = Len(log[d]) /\ log' = [log EXCEPT ![d] = Append(@, base)]

Next == \E d \in Records : \E base \in {Len(log[d])} : Extend(d, base)

Spec == Init /\ [][Next]_log
=============================================================================
