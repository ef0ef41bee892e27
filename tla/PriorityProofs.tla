--------------------------- MODULE PriorityProofs ----------------------------
(***************************************************************************)
(* Proofs about PriorityEvaluations, for every set of readers, posters and *)
(* substations, every number of windows and evaluations and whatever the   *)
(* loader, the replay and the posted evaluations do meanwhile; and about   *)
(* PriorityScoring, for every answer of the models.                        *)
(***************************************************************************)
EXTENDS PriorityEvaluations, PriorityScoring, FiniteSetTheorems, SequenceTheorems,
        WellFoundedInduction, TLAPS

USE EvaluationAssumption

(***************************************************************************)
(* Facts about finite sets of numbers and about sequences.                 *)
(***************************************************************************)

LEMMA LessIsWellFounded == IsWellFoundedOn({ss \in Nat \X Nat : ss[1] < ss[2]}, Nat)
  <1>1. OpToRel(<, Nat) = {ss \in Nat \X Nat : ss[1] < ss[2]}
    BY DEF OpToRel
  <1> QED
    BY <1>1, NatLessThanWellFounded

(* A set of numbers that is not empty has a smallest one.                  *)
LEMMA Smallest ==
  ASSUME NEW T, T \subseteq Nat, T # {}
  PROVE  \E x \in T : \A y \in T : x <= y
  <1> DEFINE R == {ss \in Nat \X Nat : ss[1] < ss[2]}
  <1>1. IsWellFoundedOn(R, Nat)
    BY LessIsWellFounded
  <1>2. \A x, y \in Nat : x < y => <<x, y>> \in R
    OBVIOUS
  <1> HIDE DEF R
  <1>3. PICK x \in T : \A y \in T : ~(<<y, x>> \in R)
    BY <1>1, WFMin
  <1>4. ASSUME NEW y \in T PROVE x <= y
    <2>1. x \in Nat /\ y \in Nat
      OBVIOUS
    <2>2. ~(y < x)
      BY <1>2, <1>3, <2>1
    <2> QED
      BY <2>1, <2>2
  <1> QED
    BY <1>4

(* Max of a bounded set of numbers is the largest of them.                 *)
LEMMA Largest ==
  ASSUME NEW n \in Nat, NEW T, T \subseteq 0..n, T # {}
  PROVE  Max(T) \in T /\ \A y \in T : y <= Max(T)
  <1> DEFINE U == {k \in Nat : \A y \in T : y <= k}
  <1>1. U \subseteq Nat /\ U # {}
    <2>1. n \in U
      OBVIOUS
    <2> QED
      BY <2>1
  <1>2. PICK m \in U : \A k \in U : m <= k
    BY <1>1, Smallest
  <1>3. m \in T
    <2>1. SUFFICES ASSUME m \notin T PROVE FALSE
      OBVIOUS
    <2>2. \A y \in T : y < m /\ y \in Nat
      BY <2>1
    <2>3. PICK z \in T : TRUE
      OBVIOUS
    <2>4. m > 0
      BY <2>2, <2>3
    <2>5. m - 1 \in U
      BY <2>2, <2>4
    <2> QED
      BY <2>5, <1>2
  <1>4. \E x \in T : \A y \in T : x >= y
    BY <1>3
  <1> QED
    BY <1>4 DEF Max

(* A function on the positions of a sequence is a sequence as long.        *)
LEMMA Reworked ==
  ASSUME NEW S, NEW T, NEW es \in Seq(S), NEW fs \in [DOMAIN es -> T]
  PROVE  fs \in Seq(T) /\ Len(fs) = Len(es) /\ DOMAIN fs = DOMAIN es
  <1>1. DOMAIN es = 1..Len(es) /\ Len(es) \in Nat
    OBVIOUS
  <1>2. fs \in Seq(T)
    BY <1>1, IsASeq
  <1> QED
    BY <1>1, <1>2

(***************************************************************************)
(* The inductive invariant.                                                *)
(***************************************************************************)

(* A window with features has been loaded, and the row of its substation   *)
(* was inserted before it.                                                 *)
LoadedInOrder ==
  /\ \A s \in Expected, t \in Ends :
       /\ window[s][t].version > 0 => window[s][t].loaded
       /\ window[s][t].loaded => s \in registered
  /\ loader # NoRow => loader.s \in registered
  /\ loader.at = "windowed" => window[loader.s][loader.end].loaded

(* The scored candidate of s covers version v of its window that ends at t. *)
CoversVersion(seen, s, t, v) ==
  \/ seen[s].end > t
  \/ seen[s].end = t /\ seen[s].version >= v

(* Candidates that cover every window of the loader up to a time.          *)
CoversLoader(seen, asOf) ==
  \A s \in Expected, t \in Ends :
    t <= asOf /\ window[s][t].version > 0 /\ ~window[s][t].synthetic =>
      CoversVersion(seen, s, t, window[s][t].version)

(* What is not marked as changed covers what the loader has stored by now. *)
EvaluationsCurrent ==
  \A i \in DOMAIN evaluations : evaluations[i].status = "completed" /\ ~evaluations[i].changed =>
    CoversLoader(evaluations[i].seen, evaluations[i].asOf)

ScoredIsCurrent(r) ==
  request[r].step = "scoring" /\ ~request[r].changed =>
    CoversLoader(request[r].seen, request[r].asOf)

(* What a request knew was stored is stored still, and ended by its time.  *)
KnownIsStored(r) ==
  \A s \in Expected, t \in Ends :
    /\ request[r].known[s][t] <= window[s][t].version
    /\ request[r].known[s][t] > 0 => t <= request[r].asOf

CoversKnown(r, seen) ==
  \A s \in Expected, t \in Ends :
    request[r].known[s][t] > 0 /\ ~window[s][t].synthetic =>
      CoversVersion(seen, s, t, request[r].known[s][t])

(* What a request scores, or is answered with, covers what it knew.        *)
ScoredIsKnown(r) ==
  /\ request[r].step = "scoring" => CoversKnown(r, request[r].seen)
  /\ request[r].step \in {"answered", "lost"} => request[r].committed \in DOMAIN evaluations
  /\ request[r].step = "answered" =>
       /\ evaluations[request[r].committed].asOf >= request[r].asOf
       /\ CoversKnown(r, evaluations[request[r].committed].seen)

RequestSound(r) == ScoredIsCurrent(r) /\ KnownIsStored(r) /\ ScoredIsKnown(r)

RequestsSound == \A r \in Readers \cup Posters : RequestSound(r)

(* Only completed evaluations are active, and no commit goes without its   *)
(* acknowledgement uncounted.                                              *)
ActiveIsCompleted ==
  \A i \in DOMAIN evaluations : evaluations[i].active => evaluations[i].status = "completed"

LossesCounted == failures = 0 => \A r \in Readers \cup Posters : request[r].step # "lost"

OneActiveOfDefault ==
  \A i, j \in DOMAIN evaluations :
    /\ evaluations[i].active /\ evaluations[i].stream = "default"
    /\ evaluations[j].active /\ evaluations[j].stream = "default"
    => i = j

NewestIsActive ==
  failures = 0 /\ Completed # {} =>
    \E i \in Active : \A j \in Completed : evaluations[j].asOf <= evaluations[i].asOf

EvaluationInv ==
  /\ EvaluationTypeOK
  /\ LoadedInOrder /\ EvaluationsCurrent /\ RequestsSound
  /\ ActiveIsCompleted /\ LossesCounted /\ OneActiveOfDefault /\ NewestIsActive

(***************************************************************************)
(* The times of windows.                                                   *)
(***************************************************************************)

LEMMA LatestTime ==
  ASSUME EvaluationTypeOK
  PROVE  /\ LatestSourceTime \in 0..LastEnd
         /\ \A s \in Expected, t \in Ends : window[s][t].loaded => t <= LatestSourceTime
  <1> DEFINE T == {0} \cup UNION {Loaded(s) : s \in Expected}
  <1>1. T \subseteq 0..LastEnd /\ T # {}
    BY DEF Loaded, Ends
  <1>2. \A s \in Expected, t \in Ends : window[s][t].loaded => t \in T
    BY DEF Loaded
  <1>3. Max(T) \in T /\ \A y \in T : y <= Max(T)
    BY <1>1, Largest
  <1>4. LatestSourceTime = Max(T)
    BY DEF LatestSourceTime
  <1> QED
    BY <1>1, <1>2, <1>3, <1>4

(* The candidate of a substation is its latest window by then: it covers   *)
(* every window with features that ends no later.                          *)
LEMMA CandidateCovers ==
  ASSUME EvaluationTypeOK, LoadedInOrder, NEW s \in Expected, NEW asOf \in Nat
  PROVE  /\ Candidate(s, asOf) \in Candidates
         /\ \A t \in Ends : t <= asOf /\ window[s][t].version > 0 =>
              \/ Candidate(s, asOf).end > t
              \/ /\ Candidate(s, asOf).end = t
                 /\ Candidate(s, asOf).version = window[s][t].version
  <1> DEFINE T == {0} \cup {u \in Loaded(s) : u <= asOf}
             m == Max(T)
             c == [end |-> m, version |-> window[s][m].version, synthetic |-> window[s][m].synthetic]
  <1>1. T \subseteq 0..LastEnd /\ T # {}
    BY DEF Loaded, Ends
  <1>2. m \in T /\ \A y \in T : y <= m
    BY <1>1, Largest
  <1>3. Candidate(s, asOf) = IF m = 0 \/ s \notin registered THEN NoCandidate ELSE c
    BY DEF Candidate
  <1> HIDE DEF m
  <1>4. m \in 0..LastEnd /\ (m # 0 => m \in Ends /\ window[s][m].loaded)
    BY <1>1, <1>2 DEF Loaded, Ends
  <1>5. Candidate(s, asOf) \in Candidates
    BY <1>3, <1>4 DEF NoCandidate, Candidates, EvaluationTypeOK
  <1>6. ASSUME NEW t \in Ends, t <= asOf, window[s][t].version > 0
        PROVE  \/ Candidate(s, asOf).end > t
               \/ /\ Candidate(s, asOf).end = t
                  /\ Candidate(s, asOf).version = window[s][t].version
    <2>1. t \in T /\ s \in registered
      BY <1>6 DEF LoadedInOrder, Loaded
    <2>2. t <= m /\ t > 0 /\ t \in Int /\ m \in Int
      BY <1>2, <1>4, <2>1 DEF Ends
    <2>3. Candidate(s, asOf) = c
      BY <1>3, <2>1, <2>2
    <2>4. c.end = m /\ c.version = window[s][m].version
      OBVIOUS
    <2> QED
      BY <2>2, <2>3, <2>4
  <1> QED
    BY <1>5, <1>6

(***************************************************************************)
(* Type correctness.                                                       *)
(***************************************************************************)

LEMMA IdleType == Idle \in Requests
  <1>1. NoCandidate \in Candidates
    BY DEF NoCandidate, Candidates
  <1> QED
    BY <1>1 DEF Idle, Requests

(* Requests, and evaluations, that differ in their marks at most.          *)
SameRequest(q, p) ==
  /\ q.step = p.step /\ q.asOf = p.asOf /\ q.stale = p.stale
  /\ q.committed = p.committed /\ q.seen = p.seen /\ q.known = p.known

SameEvaluation(e, d) ==
  /\ e.stream = d.stream /\ e.asOf = d.asOf /\ e.stale = d.stale
  /\ e.status = d.status /\ e.seen = d.seen

LEMMA MarkedRequest ==
  ASSUME NEW q \in Requests, NEW b \in BOOLEAN
  PROVE  /\ [q EXCEPT !.changed = b] \in Requests
         /\ [q EXCEPT !.changed = b].changed = b
         /\ SameRequest([q EXCEPT !.changed = b], q)
  BY DEF Requests, SameRequest

LEMMA MarkedChanged ==
  ASSUME NEW e \in EvaluationRows
  PROVE  /\ [e EXCEPT !.changed = TRUE] \in EvaluationRows
         /\ [e EXCEPT !.changed = TRUE].changed
         /\ [e EXCEPT !.changed = TRUE].active = e.active
         /\ SameEvaluation([e EXCEPT !.changed = TRUE], e)
  BY DEF EvaluationRows, SameEvaluation

LEMMA MarkedActive ==
  ASSUME NEW e \in EvaluationRows, NEW b \in BOOLEAN
  PROVE  /\ [e EXCEPT !.active = b] \in EvaluationRows
         /\ [e EXCEPT !.active = b].active = b
         /\ [e EXCEPT !.active = b].changed = e.changed
         /\ SameEvaluation([e EXCEPT !.active = b], e)
  BY DEF EvaluationRows, SameEvaluation

LEMMA OvertakenFacts ==
  ASSUME EvaluationTypeOK
  PROVE  /\ Overtaken \in [Readers \cup Posters -> Requests]
         /\ \A r \in Readers \cup Posters :
              /\ Overtaken[r].changed = (request[r].step \in {"locking", "scoring"})
              /\ SameRequest(Overtaken[r], request[r])
  <1>1. DOMAIN request = Readers \cup Posters
    BY DEF EvaluationTypeOK
  <1>2. ASSUME NEW r \in Readers \cup Posters
        PROVE  /\ Overtaken[r] \in Requests
               /\ Overtaken[r].changed = (request[r].step \in {"locking", "scoring"})
               /\ SameRequest(Overtaken[r], request[r])
    <2> DEFINE b == request[r].step \in {"locking", "scoring"}
    <2>1. b \in BOOLEAN /\ request[r] \in Requests
      BY DEF EvaluationTypeOK
    <2>2. Overtaken[r] = [request[r] EXCEPT !.changed = b]
      BY <1>1, Zenon DEF Overtaken
    <2> HIDE DEF b
    <2>3. Overtaken[r] \in Requests /\ Overtaken[r].changed = b /\ SameRequest(Overtaken[r], request[r])
      BY <2>1, <2>2, MarkedRequest
    <2> QED
      BY <2>3 DEF b
  <1>3. Overtaken = [r \in Readers \cup Posters |-> Overtaken[r]]
    BY <1>1, Zenon DEF Overtaken
  <1>4. Overtaken \in [Readers \cup Posters -> Requests]
    BY <1>2, <1>3, Zenon
  <1> QED
    BY <1>2, <1>4

LEMMA OutdatedFacts ==
  ASSUME EvaluationTypeOK
  PROVE  /\ Outdated(evaluations) \in Seq(EvaluationRows)
         /\ Len(Outdated(evaluations)) = Len(evaluations)
         /\ DOMAIN Outdated(evaluations) = DOMAIN evaluations
         /\ \A i \in DOMAIN evaluations :
              /\ Outdated(evaluations)[i].changed
              /\ Outdated(evaluations)[i].active = evaluations[i].active
              /\ SameEvaluation(Outdated(evaluations)[i], evaluations[i])
  <1>1. /\ evaluations \in Seq(EvaluationRows)
        /\ \A i \in DOMAIN evaluations : evaluations[i] \in EvaluationRows
    BY DEF EvaluationTypeOK
  <1>2. ASSUME NEW i \in DOMAIN evaluations
        PROVE  /\ Outdated(evaluations)[i] \in EvaluationRows
               /\ Outdated(evaluations)[i].changed
               /\ Outdated(evaluations)[i].active = evaluations[i].active
               /\ SameEvaluation(Outdated(evaluations)[i], evaluations[i])
    <2>1. Outdated(evaluations)[i] = [evaluations[i] EXCEPT !.changed = TRUE]
      BY Zenon DEF Outdated
    <2> QED
      BY <1>1, <2>1, MarkedChanged, Zenon
  <1>3. Outdated(evaluations) \in [DOMAIN evaluations -> EvaluationRows]
    BY <1>2, Zenon DEF Outdated
  <1> QED
    BY <1>1, <1>2, <1>3, Reworked

(* The evaluations after an evaluation was added, which may have cleared   *)
(* marks of those before it.                                               *)
LEMMA Added ==
  ASSUME NEW es \in Seq(EvaluationRows), NEW ev \in EvaluationRows
  PROVE  /\ Append(es, ev) \in Seq(EvaluationRows)
         /\ Len(Append(es, ev)) = Len(es) + 1
         /\ DOMAIN Append(es, ev) = DOMAIN es \cup {Len(es) + 1}
         /\ \A i \in DOMAIN es : Append(es, ev)[i] = es[i]
         /\ Append(es, ev)[Len(es) + 1] = ev
         /\ DOMAIN es = 1..Len(es) /\ Len(es) \in Nat
  <1>1. DOMAIN es = 1..Len(es) /\ Len(es) \in Nat
    OBVIOUS
  <1>2. DOMAIN Append(es, ev) = 1..(Len(es) + 1)
    BY AppendProperties
  <1> QED
    BY <1>1, <1>2, AppendProperties

(* What a replay leaves of the earlier evaluations.                        *)
Superseded ==
  [i \in DOMAIN evaluations |->
     [Outdated(evaluations)[i] EXCEPT !.active = @ /\ evaluations[i].stream # "replay"]]

LEMMA SupersededFacts ==
  ASSUME EvaluationTypeOK
  PROVE  /\ Superseded \in Seq(EvaluationRows)
         /\ Len(Superseded) = Len(evaluations)
         /\ DOMAIN Superseded = DOMAIN evaluations
         /\ \A i \in DOMAIN evaluations :
              /\ Superseded[i].changed
              /\ Superseded[i].active = (evaluations[i].active /\ evaluations[i].stream # "replay")
              /\ SameEvaluation(Superseded[i], evaluations[i])
  <1>1. /\ evaluations \in Seq(EvaluationRows)
        /\ \A i \in DOMAIN evaluations : evaluations[i] \in EvaluationRows
    BY DEF EvaluationTypeOK
  <1>2. ASSUME NEW i \in DOMAIN evaluations
        PROVE  /\ Superseded[i] \in EvaluationRows
               /\ Superseded[i].changed
               /\ Superseded[i].active = (evaluations[i].active /\ evaluations[i].stream # "replay")
               /\ SameEvaluation(Superseded[i], evaluations[i])
    <2> DEFINE e == [evaluations[i] EXCEPT !.changed = TRUE]
               b == e.active /\ evaluations[i].stream # "replay"
    <2>1. Outdated(evaluations)[i] = e
      BY Zenon DEF Outdated
    <2>2. Superseded[i] = [e EXCEPT !.active = b]
      BY <2>1, Zenon DEF Superseded
    <2>3. /\ e \in EvaluationRows /\ e.changed /\ e.active = evaluations[i].active
          /\ SameEvaluation(e, evaluations[i])
      BY <1>1, MarkedChanged, Zenon
    <2>4. b \in BOOLEAN
      OBVIOUS
    <2>5. b = (evaluations[i].active /\ evaluations[i].stream # "replay")
      BY <2>3
    <2> DEFINE d == [e EXCEPT !.active = b]
    <2> HIDE DEF b, e
    <2>6. d \in EvaluationRows /\ d.active = b /\ d.changed = e.changed /\ SameEvaluation(d, e)
      BY <2>3, <2>4, MarkedActive
    <2>7. Superseded[i] = d
      BY <2>2
    <2> HIDE DEF d
    <2> QED
      BY <2>3, <2>5, <2>6, <2>7 DEF SameEvaluation
  <1>3. Superseded \in [DOMAIN evaluations -> EvaluationRows]
    BY <1>2, Zenon DEF Superseded
  <1> QED
    BY <1>1, <1>2, <1>3, Reworked

(* What a commit leaves of them.                                           *)
Cleared(active) ==
  [i \in DOMAIN evaluations |-> [evaluations[i] EXCEPT !.active = @ /\ ~active]]

LEMMA ClearedFacts ==
  ASSUME EvaluationTypeOK, NEW active \in BOOLEAN
  PROVE  /\ Cleared(active) \in Seq(EvaluationRows)
         /\ Len(Cleared(active)) = Len(evaluations)
         /\ DOMAIN Cleared(active) = DOMAIN evaluations
         /\ \A i \in DOMAIN evaluations :
              /\ Cleared(active)[i].changed = evaluations[i].changed
              /\ Cleared(active)[i].active = (evaluations[i].active /\ ~active)
              /\ SameEvaluation(Cleared(active)[i], evaluations[i])
  <1>1. /\ evaluations \in Seq(EvaluationRows)
        /\ \A i \in DOMAIN evaluations : evaluations[i] \in EvaluationRows
    BY DEF EvaluationTypeOK
  <1>2. ASSUME NEW i \in DOMAIN evaluations
        PROVE  /\ Cleared(active)[i] \in EvaluationRows
               /\ Cleared(active)[i].changed = evaluations[i].changed
               /\ Cleared(active)[i].active = (evaluations[i].active /\ ~active)
               /\ SameEvaluation(Cleared(active)[i], evaluations[i])
    <2> DEFINE b == evaluations[i].active /\ ~active
    <2>1. Cleared(active)[i] = [evaluations[i] EXCEPT !.active = b]
      BY Zenon DEF Cleared
    <2>2. b \in BOOLEAN
      OBVIOUS
    <2> DEFINE d == [evaluations[i] EXCEPT !.active = b]
    <2> HIDE DEF b
    <2>3. /\ d \in EvaluationRows /\ d.active = b /\ d.changed = evaluations[i].changed
          /\ SameEvaluation(d, evaluations[i])
      BY <1>1, <2>2, MarkedActive
    <2>4. Cleared(active)[i] = d
      BY <2>1
    <2> HIDE DEF d
    <2> QED
      BY <2>3, <2>4 DEF b
  <1>3. Cleared(active) \in [DOMAIN evaluations -> EvaluationRows]
    BY <1>2, Zenon DEF Cleared
  <1> QED
    BY <1>1, <1>2, <1>3, Reworked

(* What is left of an evaluation that is marked as failed.                 *)
Undone(k) == [evaluations EXCEPT ![k].status = "failed", ![k].active = FALSE]

LEMMA UndoneFacts ==
  ASSUME EvaluationTypeOK, NEW k \in DOMAIN evaluations
  PROVE  /\ Undone(k) \in Seq(EvaluationRows)
         /\ Len(Undone(k)) = Len(evaluations)
         /\ DOMAIN Undone(k) = DOMAIN evaluations
         /\ \A i \in DOMAIN evaluations \ {k} : Undone(k)[i] = evaluations[i]
         /\ Undone(k)[k].status = "failed" /\ Undone(k)[k].active = FALSE
         /\ Undone(k)[k].asOf = evaluations[k].asOf
         /\ Undone(k)[k].seen = evaluations[k].seen
         /\ Undone(k)[k].stream = evaluations[k].stream
  <1>1. /\ evaluations \in Seq(EvaluationRows)
        /\ \A i \in DOMAIN evaluations : evaluations[i] \in EvaluationRows
    BY DEF EvaluationTypeOK
  <1> DEFINE e == [evaluations[k] EXCEPT !.status = "failed", !.active = FALSE]
  <1>2. e \in EvaluationRows
    BY <1>1 DEF EvaluationRows
  <1>3. Undone(k) = [evaluations EXCEPT ![k] = e]
    BY DEF Undone
  <1>4. /\ e.status = "failed" /\ e.active = FALSE /\ e.asOf = evaluations[k].asOf
        /\ e.seen = evaluations[k].seen /\ e.stream = evaluations[k].stream
    BY <1>1 DEF EvaluationRows
  <1> HIDE DEF e
  <1>5. Undone(k) \in [DOMAIN evaluations -> EvaluationRows]
    BY <1>1, <1>2, <1>3
  <1>6. Undone(k)[k] = e /\ \A i \in DOMAIN evaluations \ {k} : Undone(k)[i] = evaluations[i]
    BY <1>3
  <1> QED
    BY <1>1, <1>4, <1>5, <1>6, Reworked

(* The evaluation a request stores.                                        *)
LEMMA NewEvaluationFacts ==
  ASSUME EvaluationTypeOK, NEW r \in Readers \cup Posters, NEW active \in BOOLEAN
  PROVE  /\ NewEvaluation(r, active) \in EvaluationRows
         /\ NewEvaluation(r, active).stream = "default"
         /\ NewEvaluation(r, active).status = "completed"
         /\ NewEvaluation(r, active).asOf = request[r].asOf
         /\ NewEvaluation(r, active).active = active
         /\ NewEvaluation(r, active).changed = request[r].changed
         /\ NewEvaluation(r, active).seen = request[r].seen
  BY DEF EvaluationTypeOK, NewEvaluation, ChangedSince, Requests, EvaluationRows

FailedEvaluation(r) ==
  [NewEvaluation(r, FALSE) EXCEPT !.status = "failed", !.seen = Idle.seen]

LEMMA FailedEvaluationFacts ==
  ASSUME EvaluationTypeOK, NEW r \in Readers \cup Posters
  PROVE  /\ FailedEvaluation(r) \in EvaluationRows
         /\ FailedEvaluation(r).status = "failed" /\ FailedEvaluation(r).active = FALSE
  <1>1. NewEvaluation(r, FALSE) \in EvaluationRows /\ NewEvaluation(r, FALSE).active = FALSE
    BY NewEvaluationFacts
  <1>2. Idle.seen \in [Expected -> Candidates]
    BY IdleType DEF Requests
  <1> HIDE DEF NewEvaluation, Idle
  <1> QED
    BY <1>1, <1>2 DEF FailedEvaluation, EvaluationRows

(* The evaluation of the stream of a replay.                               *)
ReplayEvaluation(t) ==
  [stream |-> "replay", asOf |-> t, stale |-> "replay", status |-> "completed",
   active |-> TRUE, changed |-> FALSE,
   seen |-> [s \in Expected |-> [end |-> t, version |-> 1, synthetic |-> TRUE]]]

LEMMA ReplayEvaluationType ==
  ASSUME NEW t \in Ends
  PROVE  ReplayEvaluation(t) \in EvaluationRows
  BY DEF ReplayEvaluation, EvaluationRows, Candidates, Ends

(***************************************************************************)
(* What each action does to the evaluations and the requests.              *)
(***************************************************************************)

LEMMA ReplayEffect ==
  ASSUME EvaluationTypeOK, NEW t \in Replayed, Replay(t)
  PROVE  /\ t \in Ends
         /\ evaluations' = Append(Superseded, ReplayEvaluation(t))
         /\ request' = Overtaken
         /\ \A s \in Expected, u \in Ends :
              window'[s][u] = IF u = t THEN [loaded |-> TRUE, version |-> 1, synthetic |-> TRUE]
                              ELSE window[s][u]
         /\ \A s \in Expected : ~window[s][t].loaded
  <1>1. t \in Ends
    OBVIOUS
  <1>2. evaluations' = Append(Superseded, ReplayEvaluation(t))
    BY Zenon DEF Replay, Superseded, ReplayEvaluation
  <1>3. \A s \in Expected, u \in Ends :
          window'[s][u] = IF u = t THEN [loaded |-> TRUE, version |-> 1, synthetic |-> TRUE]
                          ELSE window[s][u]
    BY DEF Replay, EvaluationTypeOK
  <1> QED
    BY <1>1, <1>2, <1>3 DEF Replay

LEMMA CommitEffect ==
  ASSUME EvaluationTypeOK, NEW r \in Readers \cup Posters, NEW lost \in BOOLEAN, Commit(r, lost)
  PROVE  /\ MakesActive(request[r].asOf) \in BOOLEAN
         /\ evaluations' = Append(Cleared(MakesActive(request[r].asOf)),
                                  NewEvaluation(r, MakesActive(request[r].asOf)))
         /\ Len(evaluations') = Len(evaluations) + 1
         /\ Len(evaluations) < MaxEvaluationRuns
         /\ request' = [request EXCEPT ![r] = [@ EXCEPT !.step = IF lost THEN "lost" ELSE "answered",
                                                        !.committed = Len(evaluations) + 1]]
  <1>1. MakesActive(request[r].asOf) \in BOOLEAN
    BY DEF MakesActive
  <1>2. evaluations' = Append(Cleared(MakesActive(request[r].asOf)),
                              NewEvaluation(r, MakesActive(request[r].asOf)))
    BY Zenon DEF Commit, Cleared
  <1>3. Len(evaluations') = Len(evaluations) + 1
    BY <1>1, <1>2, ClearedFacts, NewEvaluationFacts, Added
  <1>4. request' = [request EXCEPT ![r] = [@ EXCEPT !.step = IF lost THEN "lost" ELSE "answered",
                                                    !.committed = Len(evaluations')]]
    BY Zenon DEF Commit
  <1> QED
    BY <1>1, <1>2, <1>3, <1>4 DEF Commit

LEMMA RecordEffect ==
  ASSUME EvaluationTypeOK, NEW r \in Readers \cup Posters, ScoredIsKnown(r), RecordFailed(r)
  PROVE  /\ \/ /\ request[r].step = "lost" /\ request[r].committed \in DOMAIN evaluations
               /\ evaluations' = Undone(request[r].committed)
               /\ UNCHANGED failures
            \/ /\ failures < MaxFailures /\ failures' = failures + 1
               /\ Len(evaluations) < MaxEvaluationRuns
               /\ evaluations' = Append(evaluations, FailedEvaluation(r))
         /\ request' = [request EXCEPT ![r] = Idle]
  BY Zenon DEF RecordFailed, ScoredIsKnown, Undone, FailedEvaluation

(***************************************************************************)
(* Steps that change neither the data nor the evaluations.                 *)
(***************************************************************************)

LEMMA RequestStep ==
  ASSUME EvaluationInv, UNCHANGED <<data, evaluations>>,
         failures' \in failures..MaxFailures,
         NEW r \in Readers \cup Posters, NEW q \in Requests,
         request' = [request EXCEPT ![r] = q],
         RequestSound(r)', q.step # "lost"
  PROVE  EvaluationInv'
  <1> USE DEF EvaluationInv, data
  <1>1. /\ request' \in [Readers \cup Posters -> Requests] /\ request'[r] = q
        /\ \A p \in Readers \cup Posters : p # r => request'[p] = request[p]
    BY DEF EvaluationTypeOK
  <1>2. EvaluationTypeOK'
    BY <1>1 DEF EvaluationTypeOK
  <1>3. LoadedInOrder'
    BY DEF LoadedInOrder
  <1>4. EvaluationsCurrent'
    BY DEF EvaluationsCurrent, CoversLoader
  <1>5. RequestsSound'
    <2>1. SUFFICES ASSUME NEW p \in Readers \cup Posters, p # r PROVE RequestSound(p)'
      BY DEF RequestsSound
    <2>2. RequestSound(p) /\ request'[p] = request[p]
      BY <1>1, <2>1 DEF RequestsSound
    <2> QED
      BY <2>2 DEF RequestSound, ScoredIsCurrent, KnownIsStored, ScoredIsKnown, CoversLoader,
                  CoversKnown
  <1>6. ActiveIsCompleted' /\ OneActiveOfDefault'
    BY DEF ActiveIsCompleted, OneActiveOfDefault
  <1>7. failures' = 0 => failures = 0
    BY DEF EvaluationTypeOK
  <1>8. LossesCounted'
    BY <1>1, <1>7 DEF LossesCounted
  <1>9. NewestIsActive'
    BY <1>7 DEF NewestIsActive, Completed, Active
  <1> QED
    BY <1>2, <1>3, <1>4, <1>5, <1>6, <1>8, <1>9

LEMMA IdleStep ==
  ASSUME EvaluationTypeOK', NEW r \in Readers \cup Posters, request'[r].known = Idle.known,
         request'[r].step \in {"idle", "create", "locking"}
  PROVE  RequestSound(r)'
  <1>1. ScoredIsCurrent(r)'
    BY DEF ScoredIsCurrent
  <1>2. ScoredIsKnown(r)'
    BY DEF ScoredIsKnown
  <1>3. KnownIsStored(r)'
    BY DEF KnownIsStored, Idle, EvaluationTypeOK
  <1> QED
    BY <1>1, <1>2, <1>3 DEF RequestSound

LEMMA AskStep ==
  ASSUME EvaluationInv, NEW r \in Readers, Ask(r)
  PROVE  EvaluationInv'
  <1> DEFINE known == [s \in Expected |-> [t \in Ends |-> window[s][t].version]]
             q == [Idle EXCEPT !.step = "asked", !.asOf = LatestSourceTime, !.known = known]
  <1> USE DEF EvaluationInv
  <1>1. known \in [Expected -> [Ends -> Nat]]
    BY DEF EvaluationTypeOK
  <1>2. q \in Requests /\ q.step = "asked" /\ q.asOf = LatestSourceTime /\ q.known = known
    <2>1. LatestSourceTime \in Nat
      BY LatestTime
    <2> HIDE DEF known
    <2> QED
      BY <1>1, <2>1, IdleType DEF Requests
  <1>3. request' = [request EXCEPT ![r] = q] /\ UNCHANGED <<data, evaluations, failures>>
    BY DEF Ask
  <1>4. \A s \in Expected, t \in Ends :
          /\ known[s][t] = window[s][t].version
          /\ known[s][t] > 0 => t <= LatestSourceTime
    BY LatestTime DEF LoadedInOrder
  <1> HIDE DEF q, known
  <1>5. request'[r] = q
    BY <1>3 DEF EvaluationTypeOK
  <1>6. KnownIsStored(r)'
    <2>1. window' = window
      BY <1>3 DEF data
    <2>2. \A s \in Expected, t \in Ends : window[s][t].version \in Nat
      BY DEF EvaluationTypeOK
    <2>3. \A s \in Expected, t \in Ends :
            /\ request'[r].known[s][t] <= window'[s][t].version
            /\ request'[r].known[s][t] > 0 => t <= request'[r].asOf
      BY <1>2, <1>4, <1>5, <2>1, <2>2
    <2> QED
      BY <2>3 DEF KnownIsStored
  <1>7. RequestSound(r)'
    BY <1>2, <1>5, <1>6 DEF RequestSound, ScoredIsCurrent, ScoredIsKnown
  <1>8. failures' \in failures..MaxFailures
    BY <1>3 DEF EvaluationTypeOK
  <1> QED
    BY <1>2, <1>3, <1>7, <1>8, RequestStep

(* A reader is answered with a completed evaluation that is not marked as  *)
(* changed and is no older than the data it asked about.                   *)
LEMMA AnsweredCovers ==
  ASSUME EvaluationInv, NEW r \in Readers, NEW i \in Completed,
         Covers(evaluations[i], request[r].asOf)
  PROVE  CoversKnown(r, evaluations[i].seen)
  <1> USE DEF EvaluationInv
  <1>1. /\ i \in DOMAIN evaluations /\ evaluations[i].asOf >= request[r].asOf
        /\ CoversLoader(evaluations[i].seen, evaluations[i].asOf)
    BY DEF Completed, Covers, EvaluationsCurrent
  <1>2. evaluations[i] \in EvaluationRows /\ request[r] \in Requests
    BY <1>1 DEF EvaluationTypeOK
  <1>3. KnownIsStored(r)
    BY DEF RequestsSound, RequestSound
  <1>4. SUFFICES ASSUME NEW s \in Expected, NEW t \in Ends,
                        request[r].known[s][t] > 0, ~window[s][t].synthetic
                 PROVE  CoversVersion(evaluations[i].seen, s, t, request[r].known[s][t])
    BY DEF CoversKnown
  <1>5. /\ window[s][t].version \in Nat /\ request[r].known[s][t] \in Nat /\ t \in Nat
        /\ evaluations[i].seen[s].version \in Nat /\ evaluations[i].asOf \in Nat
        /\ request[r].asOf \in Nat
    <2>1. window[s][t].version \in Nat /\ t \in Nat
      BY DEF EvaluationTypeOK, Ends
    <2>2. request[r].known[s][t] \in Nat /\ request[r].asOf \in Nat
      BY <1>2 DEF Requests
    <2>3. evaluations[i].seen[s] \in Candidates /\ evaluations[i].asOf \in Nat
      BY <1>2 DEF EvaluationRows
    <2> QED
      BY <2>1, <2>2, <2>3 DEF Candidates
  <1>6. request[r].known[s][t] <= window[s][t].version /\ t <= request[r].asOf
    BY <1>3, <1>4 DEF KnownIsStored
  <1>7. CoversVersion(evaluations[i].seen, s, t, window[s][t].version)
    BY <1>1, <1>4, <1>5, <1>6 DEF CoversLoader
  <1> QED
    BY <1>5, <1>6, <1>7 DEF CoversVersion

LEMMA CompareStep ==
  ASSUME EvaluationInv, NEW r \in Readers, Compare(r)
  PROVE  EvaluationInv'
  <1> USE DEF EvaluationInv
  <1>1. UNCHANGED <<data, evaluations, failures>> /\ request[r] \in Requests
    BY DEF Compare, EvaluationTypeOK
  <1>2. failures' \in failures..MaxFailures
    BY <1>1 DEF EvaluationTypeOK
  <1>3. RequestSound(r)
    BY DEF RequestsSound
  <1>4. CASE \E i \in LatestEvaluations :
               /\ Covers(evaluations[i], request[r].asOf)
               /\ request' = [request EXCEPT ![r] = [@ EXCEPT !.step = "answered", !.committed = i]]
    <2>1. PICK i \in Completed :
            /\ Covers(evaluations[i], request[r].asOf)
            /\ request' = [request EXCEPT ![r] = [@ EXCEPT !.step = "answered", !.committed = i]]
      BY <1>4 DEF LatestEvaluations
    <2> DEFINE q == [request[r] EXCEPT !.step = "answered", !.committed = i]
    <2>2. i \in DOMAIN evaluations /\ i \in 0..MaxEvaluationRuns
      BY DEF Completed, EvaluationTypeOK
    <2>3. /\ q \in Requests /\ q.step = "answered" /\ q.committed = i
          /\ q.asOf = request[r].asOf /\ q.known = request[r].known
      BY <1>1, <2>2 DEF Requests
    <2>4. request' = [request EXCEPT ![r] = q]
      BY <2>1
    <2> HIDE DEF q
    <2>5. request'[r] = q
      BY <2>4 DEF EvaluationTypeOK
    <2>6. CoversKnown(r, evaluations[i].seen) /\ evaluations[i].asOf >= request[r].asOf
      BY <2>1, AnsweredCovers DEF Covers
    <2>7. ScoredIsKnown(r)'
      BY <1>1, <2>2, <2>3, <2>5, <2>6 DEF ScoredIsKnown, CoversKnown, data
    <2>8. RequestSound(r)'
      BY <1>1, <1>3, <2>3, <2>5, <2>7 DEF RequestSound, ScoredIsCurrent, KnownIsStored, data
    <2> QED
      BY <1>1, <1>2, <2>3, <2>4, <2>8, RequestStep
  <1>5. CASE request' = [request EXCEPT ![r] = [@ EXCEPT !.step = "create"]]
    <2> DEFINE q == [request[r] EXCEPT !.step = "create"]
    <2>1. /\ q \in Requests /\ q.step = "create"
          /\ q.asOf = request[r].asOf /\ q.known = request[r].known
      BY <1>1 DEF Requests
    <2>2. request' = [request EXCEPT ![r] = q]
      BY <1>5
    <2> HIDE DEF q
    <2>3. request'[r] = q
      BY <2>2 DEF EvaluationTypeOK
    <2>4. RequestSound(r)'
      BY <1>1, <1>3, <2>1, <2>3 DEF RequestSound, ScoredIsCurrent, KnownIsStored, ScoredIsKnown, data
    <2> QED
      BY <1>1, <1>2, <2>1, <2>2, <2>4, RequestStep
  <1> QED
    BY <1>4, <1>5 DEF Compare

LEMMA PostStep ==
  ASSUME EvaluationInv, NEW r \in Posters, NEW body \in Bodies, Post(r, body)
  PROVE  EvaluationInv'
  <1> USE DEF EvaluationInv
  <1> DEFINE asOf == IF body.asOf = 0 THEN LatestSourceTime ELSE body.asOf
             q == [Idle EXCEPT !.step = "create", !.stale = body.stale, !.asOf = asOf]
  <1>1. asOf \in Nat /\ body.stale \in {"default", "other"}
    BY LatestTime
  <1>2. q \in Requests /\ q.step = "create" /\ q.known = Idle.known
    BY <1>1, IdleType DEF Requests
  <1>3. request' = [request EXCEPT ![r] = q] /\ UNCHANGED <<data, evaluations, failures>>
    BY DEF Post
  <1> HIDE DEF q
  <1>4. request'[r] = q /\ EvaluationTypeOK' /\ failures' \in failures..MaxFailures
    BY <1>2, <1>3 DEF EvaluationTypeOK, data
  <1>5. RequestSound(r)'
    BY <1>2, <1>4, IdleStep
  <1> QED
    BY <1>2, <1>3, <1>4, <1>5, RequestStep

LEMMA BeginStep ==
  ASSUME EvaluationInv, NEW r \in Readers \cup Posters, Begin(r)
  PROVE  EvaluationInv'
  <1> USE DEF EvaluationInv
  <1> DEFINE q == [request[r] EXCEPT !.step = "locking"]
  <1>1. /\ q \in Requests /\ q.step = "locking"
        /\ q.asOf = request[r].asOf /\ q.known = request[r].known
    BY ZenonT(30) DEF EvaluationTypeOK, Requests
  <1>2. request' = [request EXCEPT ![r] = q] /\ UNCHANGED <<data, evaluations, failures>>
    BY DEF Begin
  <1> HIDE DEF q
  <1>3. request'[r] = q /\ failures' \in failures..MaxFailures
    BY <1>2 DEF EvaluationTypeOK
  <1>4. RequestSound(r)'
    BY <1>1, <1>2, <1>3
       DEF RequestsSound, RequestSound, ScoredIsCurrent, KnownIsStored, ScoredIsKnown, data
  <1> QED
    BY <1>1, <1>2, <1>3, <1>4, RequestStep

(* The candidates read under the lock cover whatever has been committed.   *)
LEMMA ScoreStep ==
  ASSUME EvaluationInv, NEW r \in Readers \cup Posters, Score(r)
  PROVE  EvaluationInv'
  <1> USE DEF EvaluationInv
  <1> DEFINE seen == [s \in Expected |-> Candidate(s, request[r].asOf)]
             q == [request[r] EXCEPT !.step = "scoring", !.seen = seen]
  <1>1. request[r] \in Requests /\ request[r].asOf \in Nat
    BY DEF EvaluationTypeOK, Requests
  <1>2. /\ seen \in [Expected -> Candidates]
        /\ \A s \in Expected, t \in Ends : t <= request[r].asOf /\ window[s][t].version > 0 =>
             \/ seen[s].end > t
             \/ seen[s].end = t /\ seen[s].version = window[s][t].version
    BY <1>1, CandidateCovers
  <1> HIDE DEF seen
  <1>3. /\ q \in Requests /\ q.step = "scoring" /\ q.seen = seen
        /\ q.asOf = request[r].asOf /\ q.known = request[r].known
    BY <1>1, <1>2 DEF Requests
  <1>4. request' = [request EXCEPT ![r] = q] /\ UNCHANGED <<data, evaluations, failures>>
    BY DEF Score, seen
  <1> HIDE DEF q
  <1>5. request'[r] = q /\ failures' \in failures..MaxFailures /\ window' = window
    BY <1>4 DEF EvaluationTypeOK, data
  <1>6. \A s \in Expected, t \in Ends :
          /\ window[s][t].version \in Nat /\ seen[s].version \in Nat /\ t \in Nat
          /\ request[r].known[s][t] \in Nat
    BY <1>1, <1>2, SMTT(30) DEF EvaluationTypeOK, Candidates, Requests, Ends
  <1>7. ScoredIsCurrent(r)'
    BY <1>2, <1>3, <1>5, <1>6 DEF ScoredIsCurrent, CoversLoader, CoversVersion
  <1>8. KnownIsStored(r) /\ KnownIsStored(r)'
    BY <1>3, <1>5 DEF RequestsSound, RequestSound, KnownIsStored
  <1>9. CoversKnown(r, request[r].seen)'
    <2>1. SUFFICES ASSUME NEW s \in Expected, NEW t \in Ends, request[r].known[s][t] > 0
                   PROVE  CoversVersion(seen, s, t, request[r].known[s][t])
      BY <1>3, <1>5 DEF CoversKnown, CoversVersion
    <2>2. request[r].known[s][t] <= window[s][t].version /\ t <= request[r].asOf
      BY <1>8, <2>1 DEF KnownIsStored
    <2> QED
      BY <1>2, <1>6, <2>1, <2>2 DEF CoversVersion
  <1>10. RequestSound(r)'
    BY <1>3, <1>5, <1>7, <1>8, <1>9 DEF RequestSound, ScoredIsKnown
  <1> QED
    BY <1>3, <1>4, <1>5, <1>10, RequestStep

LEMMA LeaveStep ==
  ASSUME EvaluationInv, NEW r \in Readers \cup Posters, Leave(r)
  PROVE  EvaluationInv'
  <1> USE DEF EvaluationInv
  <1>1. /\ request' = [request EXCEPT ![r] = Idle] /\ UNCHANGED <<data, evaluations>>
        /\ failures' \in failures..MaxFailures
    BY DEF Leave, EvaluationTypeOK
  <1>2. Idle \in Requests /\ Idle.step = "idle"
    BY IdleType DEF Idle
  <1> HIDE DEF Idle
  <1>3. request'[r] = Idle /\ EvaluationTypeOK'
    BY <1>1, <1>2 DEF EvaluationTypeOK, data
  <1>4. RequestSound(r)'
    BY <1>2, <1>3, IdleStep
  <1> QED
    BY <1>1, <1>2, <1>4, RequestStep

(***************************************************************************)
(* Steps that change the data or the evaluations.                          *)
(***************************************************************************)

(* A request stays sound while data is stored and evaluations are added    *)
(* or marked: what it knew, scored or found is not touched.                *)
LEMMA StaysSound ==
  ASSUME EvaluationTypeOK, NEW r \in Readers \cup Posters, RequestSound(r),
         SameRequest(request'[r], request[r]),
         \A s \in Expected, t \in Ends :
           /\ window'[s][t].version \in Nat /\ window'[s][t].version >= window[s][t].version
           /\ window[s][t].synthetic => window'[s][t].synthetic,
         DOMAIN evaluations \subseteq DOMAIN evaluations',
         \A i \in DOMAIN evaluations : /\ evaluations'[i].asOf = evaluations[i].asOf
                                       /\ evaluations'[i].seen = evaluations[i].seen,
         ScoredIsCurrent(r)'
  PROVE  RequestSound(r)'
  <1>1. /\ request'[r].step = request[r].step /\ request'[r].asOf = request[r].asOf
        /\ request'[r].committed = request[r].committed /\ request'[r].seen = request[r].seen
        /\ request'[r].known = request[r].known
    BY DEF SameRequest
  <1>2. KnownIsStored(r)'
    <2>1. \A s \in Expected, t \in Ends :
            window[s][t].version \in Nat /\ request[r].known[s][t] \in Nat
      BY DEF EvaluationTypeOK, Requests
    <2> QED
      BY <1>1, <2>1 DEF RequestSound, KnownIsStored
  <1>3. ScoredIsKnown(r)'
    <2>1. ASSUME NEW seen, CoversKnown(r, seen)
          PROVE  \A s \in Expected, t \in Ends :
                   request'[r].known[s][t] > 0 /\ ~window'[s][t].synthetic =>
                     CoversVersion(seen, s, t, request'[r].known[s][t])
      BY <1>1, <2>1 DEF CoversKnown
    <2>2. ScoredIsKnown(r)
      BY DEF RequestSound
    <2>3. request[r].step = "scoring" => CoversKnown(r, request[r].seen)'
      BY <1>1, <2>1, <2>2 DEF ScoredIsKnown, CoversKnown
    <2>4. request[r].step = "answered" =>
            /\ evaluations'[request[r].committed].asOf >= request[r].asOf
            /\ CoversKnown(r, evaluations[request[r].committed].seen)'
      BY <1>1, <2>1, <2>2 DEF ScoredIsKnown, CoversKnown
    <2> QED
      BY <1>1, <2>2, <2>3, <2>4 DEF ScoredIsKnown
  <1> QED
    BY <1>2, <1>3 DEF RequestSound

LEMMA RowStep ==
  ASSUME EvaluationInv, UNCHANGED <<changes, evaluations, request, failures>>,
         registered' \subseteq Expected, registered \subseteq registered',
         loader' \in [at : {"registered", "windowed"}, s : Expected, end : Ends] \cup {NoRow},
         loader' # NoRow => loader'.s \in registered',
         loader'.at = "windowed" => window'[loader'.s][loader'.end].loaded,
         window' \in [Expected -> [Ends -> [loaded : BOOLEAN, version : Nat, synthetic : BOOLEAN]]],
         \A s \in Expected, t \in Ends :
           /\ window'[s][t].version = window[s][t].version
           /\ window'[s][t].synthetic = window[s][t].synthetic
           /\ window[s][t].loaded => window'[s][t].loaded
           /\ window'[s][t].loaded => s \in registered'
  PROVE  EvaluationInv'
  <1> USE DEF EvaluationInv
  <1>1. EvaluationTypeOK'
    BY DEF EvaluationTypeOK
  <1>2. LoadedInOrder'
    BY DEF LoadedInOrder
  <1>3. EvaluationsCurrent'
    BY ZenonT(30) DEF EvaluationsCurrent, CoversLoader
  <1>4. ASSUME NEW r \in Readers \cup Posters PROVE RequestSound(r)'
    <2>1. RequestSound(r)
      BY DEF RequestsSound
    <2>2. ScoredIsCurrent(r)'
      BY <2>1 DEF RequestSound, ScoredIsCurrent, CoversLoader
    <2>3. \A s \in Expected, t \in Ends : window[s][t].version \in Nat
      BY DEF EvaluationTypeOK
    <2> QED
      BY <2>1, <2>2, <2>3, StaysSound DEF SameRequest
  <1>5. /\ ActiveIsCompleted' /\ LossesCounted' /\ OneActiveOfDefault' /\ NewestIsActive'
    BY DEF ActiveIsCompleted, LossesCounted, OneActiveOfDefault, NewestIsActive, Completed, Active
  <1> QED
    BY <1>1, <1>2, <1>3, <1>4, <1>5 DEF RequestsSound

LEMMA RegisterStep ==
  ASSUME EvaluationInv, NEW s \in Expected, NEW t \in Ends, Register(s, t)
  PROVE  EvaluationInv'
  <1>1. /\ registered' = registered \cup {s} /\ UNCHANGED <<window, changes, evaluations, request, failures>>
        /\ loader' = [at |-> "registered", s |-> s, end |-> t]
    BY DEF Register
  <1> QED
    BY <1>1, RowStep DEF EvaluationInv, EvaluationTypeOK, LoadedInOrder

WindowRows == [loaded : BOOLEAN, version : Nat, synthetic : BOOLEAN]

LEMMA OneWindow ==
  ASSUME window \in [Expected -> [Ends -> WindowRows]],
         NEW s \in Expected, NEW t \in Ends, NEW w \in WindowRows,
         window' = [window EXCEPT ![s][t] = w]
  PROVE  /\ window' \in [Expected -> [Ends -> WindowRows]]
         /\ window'[s][t] = w
         /\ \A u \in Expected, v \in Ends : u # s \/ v # t => window'[u][v] = window[u][v]
  <1> DEFINE f == [window[s] EXCEPT ![t] = w]
  <1>1. f \in [Ends -> WindowRows] /\ f[t] = w /\ \A v \in Ends : v # t => f[v] = window[s][v]
    OBVIOUS
  <1>2. window' = [window EXCEPT ![s] = f]
    BY SMTT(30)
  <1> HIDE DEF f
  <1> QED
    BY <1>1, <1>2

LEMMA LoadWindowStep ==
  ASSUME EvaluationInv, LoadWindow
  PROVE  EvaluationInv'
  <1> USE DEF EvaluationInv
  <1>1. loader \in [at : {"registered", "windowed"}, s : Expected, end : Ends]
    BY DEF LoadWindow, EvaluationTypeOK, NoRow
  <1>2. loader.s \in registered
    <2>1. loader # NoRow
      BY DEF LoadWindow, NoRow
    <2> QED
      BY <2>1 DEF LoadedInOrder
  <1>3. /\ window' = [window EXCEPT ![loader.s][loader.end].loaded = TRUE]
        /\ loader' = [loader EXCEPT !.at = "windowed"]
        /\ UNCHANGED <<registered, changes, evaluations, request, failures>>
    BY DEF LoadWindow
  <1> DEFINE w == [window[loader.s][loader.end] EXCEPT !.loaded = TRUE]
  <1>4. /\ window' = [window EXCEPT ![loader.s][loader.end] = w]
        /\ window \in [Expected -> [Ends -> WindowRows]]
    BY <1>3 DEF EvaluationTypeOK, WindowRows
  <1>5. /\ window' \in [Expected -> [Ends -> WindowRows]]
        /\ window'[loader.s][loader.end].loaded
        /\ \A s \in Expected, t \in Ends :
             /\ window'[s][t].version = window[s][t].version
             /\ window'[s][t].synthetic = window[s][t].synthetic
             /\ window[s][t].loaded => window'[s][t].loaded
             /\ window'[s][t].loaded /\ s # loader.s => window[s][t].loaded
    <2>1. \A v \in WindowRows :
            /\ [v EXCEPT !.loaded = TRUE] \in WindowRows /\ [v EXCEPT !.loaded = TRUE].loaded
            /\ [v EXCEPT !.loaded = TRUE].version = v.version
            /\ [v EXCEPT !.loaded = TRUE].synthetic = v.synthetic
      BY DEF WindowRows
    <2>2. loader.s \in Expected /\ loader.end \in Ends
      BY <1>1
    <2>3. window[loader.s][loader.end] \in WindowRows
      BY <1>4, <2>2
    <2>4. /\ w \in WindowRows /\ w.loaded
          /\ w.version = window[loader.s][loader.end].version
          /\ w.synthetic = window[loader.s][loader.end].synthetic
      BY <2>1, <2>3
    <2> HIDE DEF w
    <2> QED
      BY <1>4, <2>2, <2>4, OneWindow, SMTT(30)
  <1>6. /\ loader' \in [at : {"registered", "windowed"}, s : Expected, end : Ends]
        /\ loader'.s = loader.s /\ loader'.end = loader.end
    BY <1>1, <1>3
  <1>7. \A s \in Expected, t \in Ends :
          /\ window'[s][t].version = window[s][t].version
          /\ window'[s][t].synthetic = window[s][t].synthetic
          /\ window[s][t].loaded => window'[s][t].loaded
          /\ window'[s][t].loaded => s \in registered'
    BY <1>2, <1>3, <1>5 DEF LoadedInOrder
  <1>8. window'[loader'.s][loader'.end].loaded /\ loader'.s \in registered'
    BY <1>2, <1>3, <1>5, <1>6
  <1>9. registered' \subseteq Expected /\ registered \subseteq registered'
    BY <1>3 DEF EvaluationTypeOK
  <1> HIDE DEF w
  <1> QED
    BY <1>3, <1>5, <1>6, <1>7, <1>8, <1>9, RowStep DEF WindowRows

LEMMA LeaveRowStep ==
  ASSUME EvaluationInv, LeaveRow
  PROVE  EvaluationInv'
  <1>1. loader' = NoRow /\ UNCHANGED <<registered, window, changes, evaluations, request, failures>>
    BY DEF LeaveRow
  <1> QED
    BY <1>1, RowStep DEF EvaluationInv, EvaluationTypeOK, LoadedInOrder, NoRow

LEMMA LoadFeaturesStep ==
  ASSUME EvaluationInv, LoadFeatures
  PROVE  EvaluationInv'
  <1> USE DEF EvaluationInv
  <1>1. /\ loader \in [at : {"registered", "windowed"}, s : Expected, end : Ends]
        /\ loader.s \in Expected /\ loader.end \in Ends
    BY DEF LoadFeatures, EvaluationTypeOK, NoRow
  <1>2. window[loader.s][loader.end].loaded
    BY DEF LoadFeatures, LoadedInOrder
  <1>3. /\ window' = [window EXCEPT ![loader.s][loader.end].version = @ + 1]
        /\ evaluations' = Outdated(evaluations) /\ request' = Overtaken /\ loader' = NoRow
        /\ changes < MaxChanges /\ changes' = changes + 1 /\ UNCHANGED <<registered, failures>>
    BY DEF LoadFeatures
  <1> DEFINE w == [window[loader.s][loader.end] EXCEPT !.version = @ + 1]
  <1>4. /\ window' = [window EXCEPT ![loader.s][loader.end] = w]
        /\ window \in [Expected -> [Ends -> WindowRows]]
    BY <1>3 DEF EvaluationTypeOK, WindowRows
  <1>5. /\ window' \in [Expected -> [Ends -> WindowRows]]
        /\ \A s \in Expected, t \in Ends :
             /\ window'[s][t].version \in Nat
             /\ window'[s][t].version >= window[s][t].version
             /\ window'[s][t].synthetic = window[s][t].synthetic
             /\ window'[s][t].loaded <=> window[s][t].loaded
             /\ window'[s][t].version > 0 => window[s][t].loaded
    <2>1. \A v \in WindowRows :
            /\ [v EXCEPT !.version = @ + 1] \in WindowRows
            /\ [v EXCEPT !.version = @ + 1].version = v.version + 1
            /\ [v EXCEPT !.version = @ + 1].loaded = v.loaded
            /\ [v EXCEPT !.version = @ + 1].synthetic = v.synthetic
      BY DEF WindowRows
    <2>2. window[loader.s][loader.end] \in WindowRows
      BY <1>1, <1>4
    <2>3. /\ w \in WindowRows /\ w.version = window[loader.s][loader.end].version + 1
          /\ w.loaded = window[loader.s][loader.end].loaded
          /\ w.synthetic = window[loader.s][loader.end].synthetic
      BY <2>1, <2>2
    <2>4. \A s \in Expected, t \in Ends : window[s][t].version \in Nat
      BY <1>4 DEF WindowRows
    <2> HIDE DEF w
    <2>5. /\ window' \in [Expected -> [Ends -> WindowRows]]
          /\ window'[loader.s][loader.end] = w
          /\ \A u \in Expected, v \in Ends :
               u # loader.s \/ v # loader.end => window'[u][v] = window[u][v]
      BY <1>1, <1>4, <2>3, OneWindow
    <2>6. \A s \in Expected, t \in Ends : window[s][t].version > 0 => window[s][t].loaded
      BY DEF LoadedInOrder
    <2>7. ASSUME NEW s \in Expected, NEW t \in Ends
          PROVE  /\ window'[s][t].version \in Nat
                 /\ window'[s][t].version >= window[s][t].version
                 /\ window'[s][t].synthetic = window[s][t].synthetic
                 /\ window'[s][t].loaded <=> window[s][t].loaded
                 /\ window'[s][t].version > 0 => window[s][t].loaded
      <3>1. CASE s = loader.s /\ t = loader.end
        <4>1. window'[s][t] = w /\ window[s][t] = window[loader.s][loader.end]
          BY <2>5, <3>1
        <4>2. window[s][t].loaded /\ window'[s][t].loaded
          BY <1>2, <2>3, <4>1, Zenon
        <4>3. window'[s][t].synthetic = window[s][t].synthetic
          BY <2>3, <4>1, Zenon
        <4>4. window'[s][t].version = window[s][t].version + 1
          BY <2>3, <4>1, Zenon
        <4> HIDE DEF EvaluationInv
        <4> QED
          BY <2>4, <4>2, <4>3, <4>4
      <3>2. CASE s # loader.s \/ t # loader.end
        <4>1. window'[s][t] = window[s][t]
          BY <2>5, <3>2
        <4> HIDE DEF EvaluationInv
        <4> QED
          BY <2>4, <2>6, <4>1
      <3> QED
        BY <3>1, <3>2
    <2> QED
      BY <2>5, <2>7
  <1> HIDE DEF w
  <1>6. EvaluationTypeOK'
    <2>1. EvaluationTypeOK
      OBVIOUS
    <2>2. request' \in [Readers \cup Posters -> Requests]
      BY <1>3, <2>1, OvertakenFacts
    <2>3. evaluations' \in Seq(EvaluationRows) /\ Len(evaluations') = Len(evaluations)
      BY <1>3, <2>1, OutdatedFacts
    <2>4. /\ registered' \subseteq Expected /\ loader' = NoRow
          /\ changes' \in 0..MaxChanges /\ failures' \in 0..MaxFailures
          /\ Len(evaluations) <= MaxEvaluationRuns
      BY <1>3, <2>1 DEF EvaluationTypeOK
    <2> HIDE DEF EvaluationInv
    <2> QED
      BY <1>5, <2>2, <2>3, <2>4 DEF EvaluationTypeOK, WindowRows
  <1>7. LoadedInOrder'
    <2>1. loader' = NoRow /\ loader'.at # "windowed" /\ registered' = registered
      BY <1>3 DEF NoRow
    <2> QED
      BY <1>5, <2>1 DEF LoadedInOrder
  <1>8. /\ DOMAIN evaluations' = DOMAIN evaluations
        /\ \A i \in DOMAIN evaluations :
             /\ evaluations'[i].changed /\ evaluations'[i].active = evaluations[i].active
             /\ SameEvaluation(evaluations'[i], evaluations[i])
    BY <1>3, OutdatedFacts
  <1>9. \A r \in Readers \cup Posters :
          /\ request'[r].changed = (request[r].step \in {"locking", "scoring"})
          /\ SameRequest(request'[r], request[r])
    BY <1>3, OvertakenFacts
  <1>10. EvaluationsCurrent'
    BY <1>8 DEF EvaluationsCurrent
  <1>11. ASSUME NEW r \in Readers \cup Posters PROVE RequestSound(r)'
    <2>1. ScoredIsCurrent(r)'
      BY <1>9 DEF ScoredIsCurrent, SameRequest
    <2>2. RequestSound(r)
      BY DEF RequestsSound
    <2> QED
      BY <1>5, <1>8, <1>9, <2>1, <2>2, StaysSound DEF SameEvaluation
  <1>12. ActiveIsCompleted' /\ OneActiveOfDefault'
    BY <1>8 DEF ActiveIsCompleted, OneActiveOfDefault, SameEvaluation
  <1>13. LossesCounted'
    BY <1>3, <1>9 DEF LossesCounted, SameRequest
  <1>14. NewestIsActive'
    <2>1. Completed' = Completed /\ Active' = Active
      BY <1>8 DEF Completed, Active, SameEvaluation
    <2>2. \A i \in DOMAIN evaluations : evaluations'[i].asOf = evaluations[i].asOf
      BY <1>8 DEF SameEvaluation
    <2> QED
      BY <1>3, <2>1, <2>2 DEF NewestIsActive, Completed, Active
  <1> QED
    BY <1>6, <1>7, <1>10, <1>11, <1>12, <1>13, <1>14 DEF RequestsSound

LEMMA RecordStep ==
  ASSUME EvaluationInv, NEW r \in Readers \cup Posters, RecordFailed(r)
  PROVE  EvaluationInv'
  <1> USE DEF EvaluationInv
  <1>1. ScoredIsKnown(r)
    BY DEF RequestsSound, RequestSound
  <1>2. request' = [request EXCEPT ![r] = Idle] /\ UNCHANGED data
    BY <1>1, RecordEffect DEF RecordFailed
  <1>3. /\ Idle.step = "idle" /\ Idle \in Requests
        /\ request' \in [Readers \cup Posters -> Requests] /\ request'[r] = Idle
        /\ \A p \in Readers \cup Posters : p # r => request'[p] = request[p]
    <2>1. Idle.step = "idle"
      BY DEF Idle
    <2> HIDE DEF Idle
    <2> QED
      BY <1>2, <2>1, IdleType DEF EvaluationTypeOK
  <1> HIDE DEF Idle
  <1>4. LoadedInOrder'
    BY <1>2 DEF LoadedInOrder, data
  <1>5. ASSUME EvaluationTypeOK', DOMAIN evaluations \subseteq DOMAIN evaluations',
               \A i \in DOMAIN evaluations : /\ evaluations'[i].asOf = evaluations[i].asOf
                                             /\ evaluations'[i].seen = evaluations[i].seen
        PROVE  RequestsSound'
    <2>1. RequestSound(r)'
      BY <1>3, <1>5, IdleStep
    <2>2. ASSUME NEW p \in Readers \cup Posters, p # r PROVE RequestSound(p)'
      <3>1. RequestSound(p)
        BY DEF RequestsSound
      <3>2. ScoredIsCurrent(p)'
        BY <1>2, <1>3, <2>2, <3>1 DEF RequestSound, ScoredIsCurrent, CoversLoader, data
      <3>3. \A s \in Expected, t \in Ends : window[s][t].version \in Nat /\ window' = window
        BY <1>2 DEF EvaluationTypeOK, data
      <3> QED
        BY <1>3, <1>5, <2>2, <3>1, <3>2, <3>3, StaysSound DEF SameRequest
    <2> QED
      BY <2>1, <2>2 DEF RequestsSound
  <1>6. CASE /\ request[r].step = "lost" /\ request[r].committed \in DOMAIN evaluations
             /\ evaluations' = Undone(request[r].committed) /\ UNCHANGED failures
    <2> DEFINE k == request[r].committed
    <2>1. /\ Undone(k) \in Seq(EvaluationRows) /\ Len(Undone(k)) = Len(evaluations)
          /\ DOMAIN evaluations' = DOMAIN evaluations
          /\ \A i \in DOMAIN evaluations \ {k} : evaluations'[i] = evaluations[i]
          /\ evaluations'[k].status = "failed" /\ evaluations'[k].active = FALSE
          /\ evaluations'[k].asOf = evaluations[k].asOf /\ evaluations'[k].seen = evaluations[k].seen
          /\ evaluations'[k].stream = evaluations[k].stream
      BY <1>6, UndoneFacts
    <2>2. EvaluationTypeOK'
      BY <1>2, <1>3, <1>6, <2>1 DEF EvaluationTypeOK, data
    <2>3. EvaluationsCurrent'
      BY <1>2, <2>1 DEF EvaluationsCurrent, CoversLoader, data
    <2>4. RequestsSound'
      BY <1>5, <2>1, <2>2
    <2>5. ActiveIsCompleted' /\ OneActiveOfDefault'
      BY <2>1 DEF ActiveIsCompleted, OneActiveOfDefault
    <2>6. failures # 0 /\ failures' = failures
      BY <1>6 DEF LossesCounted
    <2> QED
      BY <1>4, <2>2, <2>3, <2>4, <2>5, <2>6 DEF LossesCounted, NewestIsActive
  <1>7. CASE /\ failures < MaxFailures /\ failures' = failures + 1
             /\ Len(evaluations) < MaxEvaluationRuns
             /\ evaluations' = Append(evaluations, FailedEvaluation(r))
    <2>1. /\ FailedEvaluation(r) \in EvaluationRows
          /\ FailedEvaluation(r).status = "failed" /\ FailedEvaluation(r).active = FALSE
      BY FailedEvaluationFacts
    <2>2. /\ evaluations' \in Seq(EvaluationRows) /\ Len(evaluations') = Len(evaluations) + 1
          /\ DOMAIN evaluations' = DOMAIN evaluations \cup {Len(evaluations) + 1}
          /\ \A i \in DOMAIN evaluations : evaluations'[i] = evaluations[i]
          /\ evaluations'[Len(evaluations) + 1] = FailedEvaluation(r)
      <3>1. evaluations \in Seq(EvaluationRows)
        BY DEF EvaluationTypeOK
      <3> HIDE DEF EvaluationInv
      <3> QED
        BY <1>7, <2>1, <3>1, Added
    <2>3. EvaluationTypeOK'
      BY <1>2, <1>3, <1>7, <2>2 DEF EvaluationTypeOK, data
    <2>4. EvaluationsCurrent'
      BY <1>2, <2>1, <2>2 DEF EvaluationsCurrent, CoversLoader, data
    <2>5. RequestsSound'
      BY <1>5, <2>2, <2>3
    <2>6. ActiveIsCompleted' /\ OneActiveOfDefault'
      BY <2>1, <2>2 DEF ActiveIsCompleted, OneActiveOfDefault
    <2>7. failures' # 0
      BY <1>7 DEF EvaluationTypeOK
    <2> QED
      BY <1>4, <2>3, <2>4, <2>5, <2>6, <2>7 DEF LossesCounted, NewestIsActive
  <1> QED
    BY <1>1, <1>6, <1>7, RecordEffect

LEMMA RowTypes ==
  ASSUME EvaluationTypeOK
  PROVE  \A j \in DOMAIN evaluations :
           evaluations[j] \in EvaluationRows /\ evaluations[j].asOf \in Nat
  <1>1. \A j \in DOMAIN evaluations : evaluations[j] \in EvaluationRows
    BY DEF EvaluationTypeOK
  <1> QED
    BY <1>1 DEF EvaluationRows

(* The latest of the active evaluations, where one is the newest.          *)
LEMMA NewestActive ==
  ASSUME EvaluationTypeOK, ActiveIsCompleted,
         NEW i \in Active, \A j \in Completed : evaluations[j].asOf <= evaluations[i].asOf
  PROVE  Max({evaluations[j].asOf : j \in Active}) = evaluations[i].asOf
  <1> DEFINE T == {evaluations[j].asOf : j \in Active}
  <1>1. \A j \in DOMAIN evaluations : evaluations[j].asOf \in Nat
    BY RowTypes
  <1>2. \A j \in Active : j \in DOMAIN evaluations /\ j \in Completed
    BY DEF Active, Completed, ActiveIsCompleted
  <1>3. evaluations[i].asOf \in T
    OBVIOUS
  <1>4. T \subseteq 0..evaluations[i].asOf /\ evaluations[i].asOf \in Nat
    BY <1>1, <1>2
  <1> DEFINE a == evaluations[i].asOf
             m == Max(T)
  <1> HIDE DEF T, a
  <1>5. m \in T /\ \A y \in T : y <= m
    BY <1>3, <1>4, Largest, ZenonT(30) DEF a
  <1>6. a \in T /\ T \subseteq 0..a /\ a \in Nat
    BY <1>3, <1>4 DEF a
  <1> HIDE DEF m
  <1>7. m = a
    BY <1>5, <1>6
  <1> QED
    BY <1>7 DEF T, a, m

LEMMA CommitStep ==
  ASSUME EvaluationInv, NEW r \in Readers \cup Posters, NEW lost \in BOOLEAN, Commit(r, lost)
  PROVE  EvaluationInv'
  <1> USE DEF EvaluationInv
  <1> DEFINE active == MakesActive(request[r].asOf)
             n == Len(evaluations) + 1
             step == IF lost THEN "lost" ELSE "answered"
             q == [request[r] EXCEPT !.step = step, !.committed = n]
  <1>1. /\ active \in BOOLEAN /\ Len(evaluations) < MaxEvaluationRuns
        /\ evaluations' = Append(Cleared(active), NewEvaluation(r, active))
        /\ request' = [request EXCEPT ![r] = q] /\ UNCHANGED data
        /\ IF lost THEN failures < MaxFailures /\ failures' = failures + 1 ELSE UNCHANGED failures
        /\ request[r].step = "scoring"
    BY CommitEffect DEF Commit
  <1>2. /\ request[r] \in Requests /\ request[r].asOf \in Nat
        /\ Len(evaluations) \in Nat /\ n \in 1..MaxEvaluationRuns
    BY <1>1 DEF EvaluationTypeOK, Requests
  <1>3. RequestSound(r)
    BY DEF RequestsSound
  <1> HIDE DEF active, n
  <1>4. /\ q \in Requests /\ q.step = step /\ q.committed = n
        /\ q.asOf = request[r].asOf /\ q.known = request[r].known
        /\ step \in {"lost", "answered"} /\ (step = "lost" => lost)
    <2>1. step \in {"lost", "answered"} /\ (step = "lost" => lost)
      OBVIOUS
    <2>2. n \in 0..MaxEvaluationRuns
      BY <1>2
    <2> HIDE DEF step, EvaluationInv
    <2>3. step \in {"lost", "answered"} /\ request[r] \in Requests
      BY <1>2, <2>1
    <2>4. /\ q \in Requests /\ q.step = step /\ q.committed = n
          /\ q.asOf = request[r].asOf /\ q.known = request[r].known
      BY <2>2, <2>3 DEF Requests
    <2> HIDE DEF q
    <2> QED
      BY <2>1, <2>4
  <1> HIDE DEF q, step
  <1>5. /\ request' \in [Readers \cup Posters -> Requests] /\ request'[r] = q
        /\ \A p \in Readers \cup Posters : p # r => request'[p] = request[p]
    BY <1>1, <1>4 DEF EvaluationTypeOK
  <1> DEFINE new == NewEvaluation(r, active)
  <1>6. /\ new \in EvaluationRows /\ new.stream = "default" /\ new.status = "completed"
        /\ new.asOf = request[r].asOf /\ new.active = active
        /\ new.changed = request[r].changed /\ new.seen = request[r].seen
    BY <1>1, NewEvaluationFacts
  <1> HIDE DEF new
  <1>7. /\ Cleared(active) \in Seq(EvaluationRows) /\ Len(Cleared(active)) = Len(evaluations)
        /\ DOMAIN Cleared(active) = DOMAIN evaluations
        /\ \A i \in DOMAIN evaluations :
             /\ Cleared(active)[i].changed = evaluations[i].changed
             /\ Cleared(active)[i].active = (evaluations[i].active /\ ~active)
             /\ SameEvaluation(Cleared(active)[i], evaluations[i])
    BY <1>1, ClearedFacts
  <1>8. /\ evaluations' \in Seq(EvaluationRows) /\ Len(evaluations') = n
        /\ DOMAIN evaluations' = DOMAIN evaluations \cup {n} /\ evaluations'[n] = new
        /\ \A i \in DOMAIN evaluations : evaluations'[i] = Cleared(active)[i]
        /\ n \notin DOMAIN evaluations
    <2>1. evaluations' = Append(Cleared(active), new)
      BY <1>1 DEF new
    <2> HIDE DEF EvaluationInv
    <2> QED
      BY <1>6, <1>7, <2>1, Added DEF n
  <1>9. \A i \in DOMAIN evaluations :
          /\ evaluations'[i].changed = evaluations[i].changed
          /\ evaluations'[i].active = (evaluations[i].active /\ ~active)
          /\ SameEvaluation(evaluations'[i], evaluations[i])
    BY <1>7, <1>8
  <1>10. EvaluationTypeOK'
    BY <1>1, <1>2, <1>5, <1>8 DEF EvaluationTypeOK, data
  <1>11. LoadedInOrder'
    BY <1>1 DEF LoadedInOrder, data
  <1>12. EvaluationsCurrent'
    <2>1. request[r].changed \/ CoversLoader(request[r].seen, request[r].asOf)
      BY <1>1, <1>3 DEF RequestSound, ScoredIsCurrent
    <2>2. window' = window
      BY <1>1 DEF data
    <2> QED
      BY <1>6, <1>8, <1>9, <2>1, <2>2 DEF EvaluationsCurrent, CoversLoader, SameEvaluation
  <1>13. ASSUME NEW p \in Readers \cup Posters, p # r PROVE RequestSound(p)'
    <2>1. RequestSound(p) /\ request'[p] = request[p] /\ window' = window
      BY <1>1, <1>5, <1>13 DEF RequestsSound, data
    <2>2. ScoredIsCurrent(p)'
      BY <2>1 DEF RequestSound, ScoredIsCurrent, CoversLoader
    <2>3. \A s \in Expected, t \in Ends : window[s][t].version \in Nat
      BY DEF EvaluationTypeOK
    <2> QED
      BY <1>8, <1>9, <2>1, <2>2, <2>3, StaysSound DEF SameRequest, SameEvaluation
  <1>14. RequestSound(r)'
    <2>1. ScoredIsCurrent(r)'
      BY <1>4, <1>5 DEF ScoredIsCurrent
    <2>2. KnownIsStored(r)'
      BY <1>1, <1>3, <1>4, <1>5 DEF RequestSound, KnownIsStored, data
    <2>3. CoversKnown(r, request[r].seen) /\ window' = window
      BY <1>1, <1>3 DEF RequestSound, ScoredIsKnown, data
    <2>4. ScoredIsKnown(r)'
      BY <1>2, <1>4, <1>5, <1>6, <1>8, <2>3 DEF ScoredIsKnown, CoversKnown
    <2> QED
      BY <2>1, <2>2, <2>4 DEF RequestSound
  <1>15. ActiveIsCompleted'
    <2>1. ASSUME NEW i \in DOMAIN evaluations', evaluations'[i].active
          PROVE  evaluations'[i].status = "completed"
      <3>1. CASE i = n
        BY <1>6, <1>8, <3>1, Zenon
      <3>2. CASE i \in DOMAIN evaluations
        BY <1>9, <2>1, <3>2, Zenon DEF ActiveIsCompleted, SameEvaluation
      <3> QED
        BY <1>8, <3>1, <3>2, Zenon
    <2> QED
      BY <2>1, Zenon DEF ActiveIsCompleted
  <1>16. LossesCounted'
    BY <1>1, <1>4, <1>5 DEF LossesCounted, EvaluationTypeOK
  <1>17. OneActiveOfDefault'
    <2>1. CASE active
      <3>1. \A i \in DOMAIN evaluations' : evaluations'[i].active => i = n
        BY <1>8, <1>9, <2>1
      <3> QED
        BY <3>1 DEF OneActiveOfDefault
    <2>2. CASE ~active
      <3>1. \A i \in DOMAIN evaluations' : evaluations'[i].active =>
              /\ i \in DOMAIN evaluations /\ evaluations[i].active
              /\ evaluations[i].stream = evaluations'[i].stream
        BY <1>6, <1>8, <1>9, <2>2 DEF SameEvaluation
      <3> QED
        BY <3>1 DEF OneActiveOfDefault
    <2> QED
      BY <2>1, <2>2
  <1>18. NewestIsActive'
    <2>1. SUFFICES ASSUME failures' = 0
                   PROVE  \E i \in Active' : \A j \in Completed' :
                            evaluations'[j].asOf <= evaluations'[i].asOf
      BY DEF NewestIsActive
    <2>2. failures = 0
      BY <1>1, <2>1 DEF EvaluationTypeOK
    <2>3. /\ \A j \in Completed' : j = n \/ j \in Completed
          /\ \A j \in Completed : /\ j \in DOMAIN evaluations
                                  /\ evaluations'[j].asOf = evaluations[j].asOf
          /\ evaluations'[n].asOf = request[r].asOf
          /\ \A j \in Active : ~active => j \in Active'
          /\ active => n \in Active'
      BY <1>6, <1>8, <1>9 DEF Completed, Active, SameEvaluation
    <2>4. \A j \in DOMAIN evaluations : evaluations[j].asOf \in Nat
      BY RowTypes
    <2>5. CASE Completed = {}
      <3>1. Active = {}
        BY <2>5 DEF Active, Completed, ActiveIsCompleted
      <3>2. active
        BY <3>1 DEF active, MakesActive
      <3> QED
        BY <1>2, <2>3, <2>5, <3>2
    <2>6. CASE Completed # {}
      <3>1. PICK i \in Active : \A j \in Completed : evaluations[j].asOf <= evaluations[i].asOf
        BY <2>2, <2>6 DEF NewestIsActive
      <3>2. /\ Max({evaluations[j].asOf : j \in Active}) = evaluations[i].asOf
            /\ i \in Completed
        BY <3>1, NewestActive DEF Active, Completed, ActiveIsCompleted
      <3>3. active <=> request[r].asOf >= evaluations[i].asOf
        BY <3>1, <3>2 DEF active, MakesActive
      <3>4. /\ evaluations[i].asOf \in Nat
            /\ \A j \in Completed : evaluations'[j].asOf \in Nat
        BY <2>3, <2>4, <3>2
      <3>5. CASE active
        <4>1. \A j \in Completed' : evaluations'[j].asOf <= evaluations'[n].asOf
          BY <1>2, <2>3, <3>1, <3>3, <3>4, <3>5
        <4> QED
          BY <2>3, <3>5, <4>1
      <3>6. CASE ~active
        <4>1. \A j \in Completed' : evaluations'[j].asOf <= evaluations'[i].asOf
          BY <1>2, <2>3, <3>1, <3>2, <3>3, <3>4, <3>6
        <4> QED
          BY <2>3, <3>1, <3>6, <4>1
      <3> QED
        BY <3>5, <3>6
    <2> QED
      BY <2>5, <2>6
  <1> QED
    BY <1>10, <1>11, <1>12, <1>13, <1>14, <1>15, <1>16, <1>17, <1>18 DEF RequestsSound

LEMMA ReplayStep ==
  ASSUME EvaluationInv, NEW t \in Replayed, Replay(t)
  PROVE  EvaluationInv'
  <1> USE DEF EvaluationInv
  <1> DEFINE new == ReplayEvaluation(t)
             n == Len(evaluations) + 1
  <1>1. /\ t \in Ends /\ evaluations' = Append(Superseded, new) /\ request' = Overtaken
        /\ \A s \in Expected, u \in Ends :
              window'[s][u] = IF u = t THEN [loaded |-> TRUE, version |-> 1, synthetic |-> TRUE]
                              ELSE window[s][u]
        /\ \A s \in Expected : ~window[s][t].loaded
    BY ReplayEffect
  <1>2. /\ Len(evaluations) < MaxEvaluationRuns /\ UNCHANGED <<loader, changes, failures>>
        /\ registered' = Expected
        /\ window' = [s \in Expected |->
             [window[s] EXCEPT ![t] = [loaded |-> TRUE, version |-> 1, synthetic |-> TRUE]]]
        /\ \A i \in DOMAIN evaluations : evaluations[i].stream = "replay" => evaluations[i].asOf < t
    BY DEF Replay
  <1>3. /\ new \in EvaluationRows /\ new.stream = "replay" /\ new.asOf = t /\ new.active
        /\ new.status = "completed"
        /\ \A s \in Expected : new.seen[s].end = t /\ new.seen[s].version = 1
    BY <1>1, ReplayEvaluationType DEF ReplayEvaluation
  <1> HIDE DEF new
  <1>4. /\ Superseded \in Seq(EvaluationRows) /\ Len(Superseded) = Len(evaluations)
        /\ DOMAIN Superseded = DOMAIN evaluations
        /\ \A i \in DOMAIN evaluations :
             /\ Superseded[i].changed
             /\ Superseded[i].active = (evaluations[i].active /\ evaluations[i].stream # "replay")
             /\ SameEvaluation(Superseded[i], evaluations[i])
    BY SupersededFacts
  <1>5. /\ evaluations' \in Seq(EvaluationRows) /\ Len(evaluations') = n
        /\ DOMAIN evaluations' = DOMAIN evaluations \cup {n} /\ evaluations'[n] = new
        /\ \A i \in DOMAIN evaluations : evaluations'[i] = Superseded[i]
        /\ n \notin DOMAIN evaluations
    <2> HIDE DEF EvaluationInv
    <2> QED
      BY <1>1, <1>3, <1>4, Added
  <1> HIDE DEF n
  <1>6. \A i \in DOMAIN evaluations :
          /\ evaluations'[i].changed
          /\ evaluations'[i].active = (evaluations[i].active /\ evaluations[i].stream # "replay")
          /\ SameEvaluation(evaluations'[i], evaluations[i])
    BY <1>4, <1>5
  <1>7. \A r \in Readers \cup Posters :
          /\ request'[r].changed = (request[r].step \in {"locking", "scoring"})
          /\ SameRequest(request'[r], request[r])
    BY <1>1, OvertakenFacts
  <1>8. EvaluationTypeOK'
    <2>1. request' \in [Readers \cup Posters -> Requests]
      BY <1>1, OvertakenFacts
    <2>2. window' \in [Expected -> [Ends -> [loaded : BOOLEAN, version : Nat, synthetic : BOOLEAN]]]
      BY <1>1, <1>2 DEF EvaluationTypeOK
    <2>3. Len(evaluations') <= MaxEvaluationRuns
      BY <1>2, <1>5 DEF n, EvaluationTypeOK
    <2> QED
      BY <1>2, <1>5, <2>1, <2>2, <2>3 DEF EvaluationTypeOK
  <1>9. \A s \in Expected, u \in Ends :
          /\ window[s][u].version \in Nat
          /\ window[s][u].version > 0 => window[s][u].loaded
    BY DEF EvaluationTypeOK, LoadedInOrder
  <1>10. \A s \in Expected, u \in Ends :
           /\ window'[s][u].version \in Nat /\ window'[s][u].version >= window[s][u].version
           /\ window[s][u].synthetic => window'[s][u].synthetic
           /\ window[s][u].loaded => window'[s][u].loaded
           /\ window'[s][u].version > 0 => window'[s][u].loaded
           /\ u = t => window'[s][u].synthetic
    BY <1>1, <1>9
  <1>11. LoadedInOrder'
    <2>1. ASSUME loader.at = "windowed" PROVE window'[loader.s][loader.end].loaded
      <3>1. loader.s \in Expected /\ loader.end \in Ends
        BY <2>1 DEF EvaluationTypeOK, NoRow
      <3>2. window[loader.s][loader.end].loaded
        BY <2>1 DEF LoadedInOrder
      <3> QED
        BY <1>10, <3>1, <3>2
    <2>2. loader # NoRow => loader.s \in Expected
      BY DEF EvaluationTypeOK
    <2> QED
      BY <1>2, <1>10, <2>1, <2>2 DEF LoadedInOrder
  <1>12. EvaluationsCurrent'
    <2>1. CoversLoader(new.seen, new.asOf)'
      <3>1. \A u \in Ends : u \in Int
        BY DEF Ends
      <3> QED
        BY <1>1, <1>3, <1>10, <3>1 DEF CoversLoader, CoversVersion
    <2> QED
      BY <1>5, <1>6, <2>1 DEF EvaluationsCurrent, CoversLoader
  <1>13. ASSUME NEW r \in Readers \cup Posters PROVE RequestSound(r)'
    <2>1. ScoredIsCurrent(r)'
      BY <1>7 DEF ScoredIsCurrent, SameRequest
    <2>2. RequestSound(r)
      BY DEF RequestsSound
    <2> QED
      BY <1>5, <1>6, <1>7, <1>10, <2>1, <2>2, StaysSound DEF SameEvaluation
  <1>14. ActiveIsCompleted' /\ OneActiveOfDefault'
    <2>1. \A i \in DOMAIN evaluations' : evaluations'[i].active =>
            \/ i = n
            \/ /\ i \in DOMAIN evaluations /\ evaluations[i].active
               /\ evaluations'[i].stream = evaluations[i].stream
               /\ evaluations'[i].status = evaluations[i].status
      BY <1>5, <1>6 DEF SameEvaluation
    <2>2. evaluations'[n].status = "completed" /\ evaluations'[n].stream # "default"
      BY <1>3, <1>5
    <2>3. ActiveIsCompleted'
      BY <2>1, <2>2 DEF ActiveIsCompleted
    <2>4. OneActiveOfDefault'
      BY <2>1, <2>2 DEF OneActiveOfDefault
    <2> QED
      BY <2>3, <2>4
  <1>15. LossesCounted'
    BY <1>2, <1>7 DEF LossesCounted, SameRequest
  <1>16. NewestIsActive'
    <2>1. /\ \A j \in Completed' : j = n \/ j \in Completed
          /\ \A j \in Completed : /\ j \in DOMAIN evaluations
                                  /\ evaluations'[j].asOf = evaluations[j].asOf
          /\ evaluations'[n].asOf = t /\ n \in Active'
          /\ \A j \in Active : evaluations[j].stream # "replay" => j \in Active'
          /\ \A j \in Active : j \in Completed
      BY <1>3, <1>5, <1>6 DEF Completed, Active, SameEvaluation, ActiveIsCompleted
    <2>2. \A j \in DOMAIN evaluations : evaluations[j].asOf \in Nat
      BY RowTypes
    <2>3. t \in Nat
      BY <1>1 DEF Ends
    <2>4. CASE Completed = {}
      BY <2>1, <2>3, <2>4 DEF NewestIsActive
    <2>5. CASE Completed # {} /\ failures = 0
      <3>1. PICK i \in Active : \A j \in Completed : evaluations[j].asOf <= evaluations[i].asOf
        BY <2>5 DEF NewestIsActive
      <3>2. CASE evaluations[i].asOf <= t
        <4>1. \A j \in Completed' : evaluations'[j].asOf <= evaluations'[n].asOf
          BY <2>1, <2>2, <2>3, <3>1, <3>2
        <4> QED
          BY <2>1, <4>1 DEF NewestIsActive
      <3>3. CASE ~(evaluations[i].asOf <= t)
        <4>1. evaluations[i].stream # "replay"
          BY <1>2, <2>1, <2>2, <2>3, <3>3
        <4>2. \A j \in Completed' : evaluations'[j].asOf <= evaluations'[i].asOf
          BY <2>1, <2>2, <2>3, <3>1, <3>3
        <4> QED
          BY <2>1, <4>1, <4>2 DEF NewestIsActive
      <3> QED
        BY <3>2, <3>3
    <2> QED
      BY <1>2, <2>4, <2>5 DEF NewestIsActive
  <1> QED
    BY <1>8, <1>11, <1>12, <1>13, <1>14, <1>15, <1>16 DEF RequestsSound

LEMMA EvaluationStart == EvaluationInit => EvaluationInv
  <1> SUFFICES ASSUME EvaluationInit PROVE EvaluationInv
    OBVIOUS
  <1> USE DEF EvaluationInit
  <1>1. \A r \in Readers \cup Posters : request[r] = Idle
    OBVIOUS
  <1>2. Idle.step = "idle" /\ \A s \in Expected, t \in Ends : Idle.known[s][t] = 0
    BY DEF Idle
  <1>3. EvaluationTypeOK
    <2>1. request \in [Readers \cup Posters -> Requests]
      BY IdleType
    <2>2. window \in [Expected -> [Ends -> [loaded : BOOLEAN, version : Nat, synthetic : BOOLEAN]]]
      BY DEF NoWindow
    <2>3. evaluations \in Seq(EvaluationRows) /\ Len(evaluations) = 0
      OBVIOUS
    <2> QED
      BY <2>1, <2>2, <2>3 DEF EvaluationTypeOK
  <1>4. LoadedInOrder
    BY DEF LoadedInOrder, NoWindow, NoRow
  <1>5. DOMAIN evaluations = {}
    OBVIOUS
  <1>6. RequestsSound
    <2>1. \A s \in Expected, t \in Ends : window[s][t].version = 0
      BY DEF NoWindow
    <2> QED
      BY <1>1, <1>2, <2>1
         DEF RequestsSound, RequestSound, ScoredIsCurrent, KnownIsStored, ScoredIsKnown
  <1>7. LossesCounted
    BY <1>1, <1>2 DEF LossesCounted
  <1> QED
    BY <1>3, <1>4, <1>5, <1>6, <1>7
       DEF EvaluationInv, EvaluationsCurrent, ActiveIsCompleted, OneActiveOfDefault,
           NewestIsActive, Completed

LEMMA EvaluationStutter ==
  ASSUME EvaluationInv, UNCHANGED evaluationVars
  PROVE  EvaluationInv'
  <1>1. /\ UNCHANGED <<registered, window, loader, changes, evaluations, request, failures>>
    BY DEF evaluationVars, data
  <1>2. EvaluationTypeOK' /\ LoadedInOrder' /\ LossesCounted'
    BY <1>1 DEF EvaluationInv, EvaluationTypeOK, LoadedInOrder, LossesCounted
  <1>3. EvaluationsCurrent' /\ RequestsSound'
    BY <1>1 DEF EvaluationInv, EvaluationsCurrent, RequestsSound, RequestSound, ScoredIsCurrent,
                KnownIsStored, ScoredIsKnown, CoversLoader, CoversKnown
  <1>4. ActiveIsCompleted' /\ OneActiveOfDefault' /\ NewestIsActive'
    BY <1>1 DEF EvaluationInv, ActiveIsCompleted, OneActiveOfDefault, NewestIsActive,
                Completed, Active
  <1> QED
    BY <1>2, <1>3, <1>4 DEF EvaluationInv

LEMMA EvaluationStep ==
  ASSUME EvaluationInv, [EvaluationNext]_evaluationVars
  PROVE  EvaluationInv'
  <1>1. CASE \E line \in Rows : Register(line[1], line[2])
    <2>1. PICK line \in Rows : Register(line[1], line[2])
      BY <1>1
    <2>2. line[1] \in Expected /\ line[2] \in Ends
      OBVIOUS
    <2> QED
      BY <2>1, <2>2, RegisterStep
  <1>2. CASE LoadWindow
    BY <1>2, LoadWindowStep
  <1>3. CASE LoadFeatures
    BY <1>3, LoadFeaturesStep
  <1>4. CASE LeaveRow
    BY <1>4, LeaveRowStep
  <1>5. ASSUME NEW t \in Replayed, Replay(t) PROVE EvaluationInv'
    BY <1>5, ReplayStep
  <1>6. ASSUME NEW r \in Readers \cup Posters, Ensure(r) PROVE EvaluationInv'
    BY <1>6, AskStep, CompareStep DEF Ensure
  <1>7. ASSUME NEW r \in Readers \cup Posters, Create(r) PROVE EvaluationInv'
    <2>1. ASSUME r \in Posters, NEW body \in Bodies, Post(r, body) PROVE EvaluationInv'
      BY <2>1, PostStep
    <2>2. CASE Begin(r)
      BY <2>2, BeginStep
    <2>3. CASE Score(r)
      BY <2>3, ScoreStep
    <2>4. ASSUME NEW lost \in BOOLEAN, Commit(r, lost) PROVE EvaluationInv'
      BY <2>4, CommitStep
    <2>5. CASE RecordFailed(r)
      BY <2>5, RecordStep
    <2>6. CASE Leave(r)
      BY <2>6, LeaveStep
    <2> QED
      BY <1>7, <2>1, <2>2, <2>3, <2>4, <2>5, <2>6 DEF Create
  <1>8. CASE UNCHANGED evaluationVars
    BY <1>8, EvaluationStutter
  <1> QED
    BY <1>1, <1>2, <1>3, <1>4, <1>5, <1>6, <1>7, <1>8 DEF EvaluationNext, Load

(***************************************************************************)
(* What is proved of the evaluations.                                      *)
(***************************************************************************)

(* The inductive invariant holds: the marks of changed data, what requests *)
(* knew, scored and were answered with, and the active evaluations agree.  *)
THEOREM EvaluationInvariance == EvaluationSpec => []EvaluationInv
  <1>1. EvaluationInv /\ [EvaluationNext]_evaluationVars => EvaluationInv'
    BY EvaluationStep
  <1> QED
    BY <1>1, EvaluationStart, PTL DEF EvaluationSpec

(* The rows of windows, evaluations and requests have their types.         *)
THEOREM EvaluationTypes == EvaluationSpec => []EvaluationTypeOK
  <1>1. EvaluationInv => EvaluationTypeOK
    BY DEF EvaluationInv
  <1> QED
    BY <1>1, EvaluationInvariance, PTL

(* A reader is answered with an evaluation that covers what the loader had *)
(* committed when the reader asked (ensure_latest_priority_evaluation),    *)
(* for every number of readers, posters, substations and windows.          *)
THEOREM AnswersCoverTheData == EvaluationSpec => []AnswerCoversWhatWasLoaded
  <1>1. EvaluationInv => AnswerCoversWhatWasLoaded
    <2> SUFFICES ASSUME EvaluationInv, NEW r \in Readers, request[r].step = "answered"
                 PROVE  LET e == evaluations[request[r].committed]
                        IN  /\ e.asOf >= request[r].asOf
                            /\ \A s \in Expected : \A t \in Ends :
                                 request[r].known[s][t] > 0 /\ ~window[s][t].synthetic =>
                                   \/ e.seen[s].end > t
                                   \/ e.seen[s].end = t /\ e.seen[s].version >= request[r].known[s][t]
      <3>1. EvaluationInv => DOMAIN window = Expected /\ \A s \in Expected : DOMAIN window[s] = Ends
        BY DEF EvaluationInv, EvaluationTypeOK
      <3> QED
        BY <3>1 DEF AnswerCoversWhatWasLoaded
    <2>1. ScoredIsKnown(r)
      BY DEF EvaluationInv, RequestsSound, RequestSound
    <2> QED
      BY <2>1 DEF ScoredIsKnown, CoversKnown, CoversVersion
  <1> QED
    BY <1>1, EvaluationInvariance, PTL

(* At most one evaluation of the default stream is active; while nothing   *)
(* failed, one that no completed evaluation is newer than.                 *)
THEOREM NewestEvaluationIsActive == EvaluationSpec => []ActiveIsNewest
  <1>1. EvaluationInv => ActiveIsNewest
    <2> SUFFICES ASSUME EvaluationInv PROVE ActiveIsNewest
      OBVIOUS
    <2> DEFINE D == {i \in Active : evaluations[i].stream = "default"}
    <2>1. Cardinality(D) <= 1
      <3>1. CASE D = {}
        <4>1. Cardinality(D) = 0
          BY <3>1, FS_EmptySet
        <4> QED
          BY <4>1
      <3>2. CASE D # {}
        <4>1. PICK i \in D : TRUE
          BY <3>2
        <4>2. D = {i}
          BY <4>1 DEF EvaluationInv, OneActiveOfDefault, Active
        <4> HIDE DEF D
        <4>3. Cardinality(D) = 1
          BY <4>2, FS_Singleton
        <4> QED
          BY <4>3
      <3> QED
        BY <3>1, <3>2
    <2>2. NewestIsActive
      BY DEF EvaluationInv
    <2> HIDE DEF D
    <2>3. ActiveIsNewest <=> Cardinality(D) <= 1 /\ NewestIsActive
      BY DEF ActiveIsNewest, NewestIsActive, D
    <2> QED
      BY <2>1, <2>2, <2>3
  <1> QED
    BY <1>1, EvaluationInvariance, PTL

-----------------------------------------------------------------------------
(* PriorityScoring.                                                        *)
(*                                                                         *)
(* The largest and the smallest of a few.  (A range between two literals   *)
(* is enumerated by the prover, so bounds are stated as inequalities.)     *)
LEMMA Largest2 ==
  ASSUME NEW x \in Int, NEW y \in Int
  PROVE  Max({x, y}) = IF x >= y THEN x ELSE y
  <1>1. \E m \in {x, y} : \A n \in {x, y} : m >= n
    BY SMT
  <1>2. Max({x, y}) \in {x, y} /\ \A n \in {x, y} : Max({x, y}) >= n
    BY <1>1, SMT DEF Max
  <1>3. QED
    BY <1>2, SMT

LEMMA Smallest2 ==
  ASSUME NEW x \in Int, NEW y \in Int
  PROVE  Min({x, y}) = IF x <= y THEN x ELSE y
  <1>1. \E m \in {x, y} : \A n \in {x, y} : m <= n
    BY SMT
  <1>2. Min({x, y}) \in {x, y} /\ \A n \in {x, y} : Min({x, y}) <= n
    BY <1>1, SMT DEF Min
  <1>3. QED
    BY <1>2, SMT

LEMMA Largest3 ==
  ASSUME NEW x \in Int, NEW y \in Int, NEW z \in Int
  PROVE  Max({x, y, z}) \in {x, y, z}
  <1>1. \E m \in {x, y, z} : \A n \in {x, y, z} : m >= n
    BY SMT
  <1>2. QED
    BY <1>1, SMT DEF Max

(* The bands, one by one.                                                  *)
LEMMA RiskFacts ==
  /\ RiskBands.medium = 220000 /\ RiskBands.high = 780000 /\ RiskBands.urgent = 920000
  /\ RiskBands.slopes[1] = <<45, 11>> /\ RiskBands.slopes[2] = <<9, 56>>
  /\ RiskBands.slopes[3] = <<2, 35>> /\ RiskBands.slopes[4] = <<1, 40>>
  BY SMT DEF RiskBands
LEMMA PreEventFacts ==
  /\ PreEventBands.medium = 500000 /\ PreEventBands.high = 990000
  /\ PreEventBands.urgent = 998000
  /\ PreEventBands.slopes[1] = <<9, 5>> /\ PreEventBands.slopes[2] = <<9, 49>>
  /\ PreEventBands.slopes[3] = <<1, 1>> /\ PreEventBands.slopes[4] = <<1, 1>>
  BY SMT DEF PreEventBands
LEMMA AlongNothing ==
  ASSUME NEW n \in Int, NEW d \in Int, NEW x \in Int, d > 0
  PROVE  Along(0, <<n, d>>, x).floor = (n * x) \div d
  BY SMT DEF Along
LEMMA AlongFloor ==
  ASSUME NEW b, NEW n, NEW d, NEW x
  PROVE  Along(b, <<n, d>>, x).floor = b + (n * x) \div d
  BY SMT DEF Along

(* A banded score is high, and urgent, exactly where the probability is:   *)
(* what a band leaves below the whole ten-thousandth never lifts a score   *)
(* into the next band, whatever its slope (_band_evidence_score).          *)
Grades(score, v, b) ==
  /\ score \in Int
  /\ score >= 990000 <=> v >= b.high
  /\ score >= 998000 <=> v >= b.urgent
(* The band of a value.                                                    *)
LEMMA BandOf ==
  ASSUME NEW v \in Int, NEW b, b.medium \in Int, b.high \in Int, b.urgent \in Int,
         b.medium <= b.high, b.high <= b.urgent
  PROVE  /\ v >= b.urgent => BandScore(v, b) = Along(998000, b.slopes[4], v - b.urgent)
         /\ v >= b.high /\ v < b.urgent =>
              BandScore(v, b) = Along(990000, b.slopes[3], v - b.high)
         /\ v >= b.medium /\ v < b.high =>
              BandScore(v, b) = Along(900000, b.slopes[2], v - b.medium)
         /\ v < b.medium => BandScore(v, b) = Along(0, b.slopes[1], v)
  <1>1. CASE v >= b.urgent
    BY <1>1, SMT DEF BandScore
  <1>2. CASE v >= b.high /\ v < b.urgent
    BY <1>2, SMT DEF BandScore
  <1>3. CASE v >= b.medium /\ v < b.high
    BY <1>3, SMT DEF BandScore
  <1>4. CASE v < b.medium
    BY <1>4, SMT DEF BandScore
  <1>5. QED
    BY <1>1, <1>2, <1>3, <1>4, SMT

LEMMA RiskGrades ==
  ASSUME NEW v \in Int, 0 <= v, v <= 1000000
  PROVE  Grades(BandScore(v, RiskBands).floor, v, RiskBands)
  <1>1. CASE v >= 920000
    <2>1. BandScore(v, RiskBands) = Along(998000, <<1, 40>>, v - 920000)
      BY <1>1, RiskFacts, BandOf, SMT
    <2>2. BandScore(v, RiskBands).floor = 998000 + (1 * (v - 920000)) \div 40
      BY <2>1, AlongFloor, SMT
    <2>3. QED
      BY <1>1, <2>2, RiskFacts, SMT DEF Grades
  <1>2. CASE v >= 780000 /\ v < 920000
    <2>1. BandScore(v, RiskBands) = Along(990000, <<2, 35>>, v - 780000)
      BY <1>2, RiskFacts, BandOf, SMT
    <2>2. BandScore(v, RiskBands).floor = 990000 + (2 * (v - 780000)) \div 35
      BY <2>1, AlongFloor, SMT
    <2>3. QED
      BY <1>2, <2>2, RiskFacts, SMT DEF Grades
  <1>3. CASE v >= 220000 /\ v < 780000
    <2>1. BandScore(v, RiskBands) = Along(900000, <<9, 56>>, v - 220000)
      BY <1>3, RiskFacts, BandOf, SMT
    <2>2. BandScore(v, RiskBands).floor = 900000 + (9 * (v - 220000)) \div 56
      BY <2>1, AlongFloor, SMT
    <2>3. QED
      BY <1>3, <2>2, RiskFacts, SMT DEF Grades
  <1>4. CASE v < 220000
    <2>1. BandScore(v, RiskBands) = Along(0, <<45, 11>>, v)
      BY <1>4, RiskFacts, BandOf, SMT
    <2>2. BandScore(v, RiskBands).floor = (45 * v) \div 11
      BY <2>1, AlongNothing, SMT
    <2>3. QED
      BY <1>4, <2>2, RiskFacts, SMT DEF Grades
  <1>5. QED
    BY <1>1, <1>2, <1>3, <1>4, SMT

LEMMA PreEventGrades ==
  ASSUME NEW v \in Int, 0 <= v, v <= 1000000
  PROVE  Grades(BandScore(v, PreEventBands).floor, v, PreEventBands)
  <1>1. CASE v >= 998000
    <2>1. BandScore(v, PreEventBands) = Along(998000, <<1, 1>>, v - 998000)
      BY <1>1, PreEventFacts, BandOf, SMT
    <2>2. BandScore(v, PreEventBands).floor = 998000 + (1 * (v - 998000)) \div 1
      BY <2>1, AlongFloor, SMT
    <2>3. QED
      BY <1>1, <2>2, PreEventFacts, SMT DEF Grades
  <1>2. CASE v >= 990000 /\ v < 998000
    <2>1. BandScore(v, PreEventBands) = Along(990000, <<1, 1>>, v - 990000)
      BY <1>2, PreEventFacts, BandOf, SMT
    <2>2. BandScore(v, PreEventBands).floor = 990000 + (1 * (v - 990000)) \div 1
      BY <2>1, AlongFloor, SMT
    <2>3. QED
      BY <1>2, <2>2, PreEventFacts, SMT DEF Grades
  <1>3. CASE v >= 500000 /\ v < 990000
    <2>1. BandScore(v, PreEventBands) = Along(900000, <<9, 49>>, v - 500000)
      BY <1>3, PreEventFacts, BandOf, SMT
    <2>2. BandScore(v, PreEventBands).floor = 900000 + (9 * (v - 500000)) \div 49
      BY <2>1, AlongFloor, SMT
    <2>3. QED
      BY <1>3, <2>2, PreEventFacts, SMT DEF Grades
  <1>4. CASE v < 500000
    <2>1. BandScore(v, PreEventBands) = Along(0, <<9, 5>>, v)
      BY <1>4, PreEventFacts, BandOf, SMT
    <2>2. BandScore(v, PreEventBands).floor = (9 * v) \div 5
      BY <2>1, AlongNothing, SMT
    <2>3. QED
      BY <1>4, <2>2, PreEventFacts, SMT DEF Grades
  <1>5. QED
    BY <1>1, <1>2, <1>3, <1>4, SMT

(* The probabilities a score is made of, and the score of the risk.        *)
LEMMA OneIs == One = 1000000
  BY SMT DEF One

LEMMA ProbabilityIs ==
  ASSUME NEW x \in Probability
  PROVE  x \in Int /\ 0 <= x /\ x <= 1000000
  <1>1. One \in Int => x \in Int /\ 0 <= x /\ x <= One
    BY SMT DEF Probability
  <1>2. QED
    BY <1>1, OneIs, SMT

LEMMA RiskIs ==
  ASSUME NEW a \in AnswerType
  PROVE  RiskScore(a) \in Int /\ 0 <= RiskScore(a) /\ RiskScore(a) <= 1000000
  <1>1. /\ a.risk \in Int /\ 0 <= a.risk /\ a.risk <= 1000000
        /\ a.roll4 \in Int /\ 0 <= a.roll4 /\ a.roll4 <= 1000000
        /\ a.roll8 \in Int /\ 0 <= a.roll8 /\ a.roll8 <= 1000000
    <2>1. a.risk \in Probability /\ a.roll4 \in Probability /\ a.roll8 \in Probability
      BY SMT DEF AnswerType, Evidence
    <2>2. QED
      BY <2>1, ProbabilityIs, SMT
  <1>2. PICK x \in Int : x = (9 * a.roll4) \div 10 /\ 0 <= x /\ x <= 1000000
    BY <1>1, SMT
  <1>3. PICK y \in Int : y = 105 * (a.roll8 \div 100) /\ 0 <= y
    BY <1>1, SMT
  <1>4. PICK z \in Int : z = Min({One, y}) /\ 0 <= z /\ z <= 1000000
    BY <1>3, OneIs, Smallest2, SMT
  <1>5. RiskScore(a) = Max({a.risk, x, z})
    BY <1>2, <1>3, <1>4, SMT DEF RiskScore
  <1>6. RiskScore(a) \in {a.risk, x, z}
    BY <1>1, <1>5, Largest3, SMT
  <1>7. QED
    BY <1>1, <1>2, <1>4, <1>6, SMT

LEMMA PreEventIs ==
  ASSUME NEW a \in AnswerType
  PROVE  PreEvent(a) \in Int /\ 0 <= PreEvent(a) /\ PreEvent(a) <= 1000000
  <1>1. a.preEvent \in Probability
    BY SMT DEF AnswerType, Evidence
  <1>2. QED
    BY <1>1, ProbabilityIs, SMT DEF PreEvent

(* The level of a score.                                                   *)
LEMMA LevelOf ==
  ASSUME NEW f \in Int, NEW t, t.medium \in Int, t.high \in Int, t.urgent \in Int,
         t.medium <= t.high, t.high <= t.urgent
  PROVE  /\ PolicyLevel(f, t) = "urgent" <=> f >= t.urgent
         /\ PolicyLevel(f, t) \in {"high", "urgent"} <=> f >= t.high
  BY SMT DEF PolicyLevel

(* The gate in terms of the two probabilities.                             *)
Passes(a, risk, pre) == RiskScore(a) >= risk \/ PreEvent(a) >= pre
LEMMA GateOf ==
  ASSUME NEW a \in AnswerType
  PROVE  /\ Level(a) = "urgent" <=> Passes(a, 920000, 998000)
         /\ Level(a) \in {"high", "urgent"} <=> Passes(a, 780000, 990000)
  <1> DEFINE r == BandScore(RiskScore(a), RiskBands).floor
             p == BandScore(PreEvent(a), PreEventBands).floor
  <1>1. /\ r \in Int /\ (r >= 990000 <=> RiskScore(a) >= 780000)
        /\ (r >= 998000 <=> RiskScore(a) >= 920000)
    BY RiskIs, RiskGrades, RiskFacts, SMT DEF Grades
  <1>2. /\ p \in Int /\ (p >= 990000 <=> PreEvent(a) >= 990000)
        /\ (p >= 998000 <=> PreEvent(a) >= 998000)
    BY PreEventIs, PreEventGrades, PreEventFacts, SMT DEF Grades
  <1>3. HybridScore(a).floor = Max({r, p})
    BY SMT DEF HybridScore
  <1> HIDE DEF r, p
  <1>4. PICK f \in Int : /\ f = HybridScore(a).floor
                         /\ f >= 990000 <=> Passes(a, 780000, 990000)
                         /\ f >= 998000 <=> Passes(a, 920000, 998000)
    BY <1>1, <1>2, <1>3, Largest2, SMT DEF Passes
  <1>5. /\ GateThresholds.medium = 900000 /\ GateThresholds.high = 990000
        /\ GateThresholds.urgent = 998000
    BY SMT DEF GateThresholds
  <1>6. /\ PolicyLevel(f, GateThresholds) = "urgent" <=> f >= 998000
        /\ PolicyLevel(f, GateThresholds) \in {"high", "urgent"} <=> f >= 990000
    BY <1>5, LevelOf, SMT
  <1>7. QED
    BY <1>4, <1>6, SMT DEF Level

(* What a band adds, rounded.                                              *)
LEMMA AlongRounded ==
  ASSUME NEW b \in Int, NEW n \in Int, NEW d \in Int, d > 0, NEW x \in Int, NEW m, m = n * x
  PROVE  Along(b, <<n, d>>, x).rounded = b + Rounded(m, d)
  BY SMT DEF Along
(* The rounded score of each probability, band by band.                    *)
RoundedRisk(v) ==
  IF v >= 920000 THEN 998000 + (2 * (v - 920000) + 40) \div 80
  ELSE IF v >= 780000 THEN 990000 + (4 * (v - 780000) + 35) \div 70
  ELSE IF v >= 220000 THEN 900000 + (18 * (v - 220000) + 56) \div 112
  ELSE (90 * v + 11) \div 22
RoundedPreEvent(v) ==
  IF v >= 998000 THEN v
  ELSE IF v >= 990000 THEN v
  ELSE IF v >= 500000 THEN 900000 + (18 * (v - 500000) + 49) \div 98
  ELSE (18 * v + 5) \div 10
LEMMA RiskRounds ==
  ASSUME NEW v \in Int
  PROVE  BandScore(v, RiskBands).rounded = RoundedRisk(v)
  <1>1. CASE v >= 920000
    <2>1. BandScore(v, RiskBands) = Along(998000, <<1, 40>>, v - 920000)
      BY <1>1, RiskFacts, BandOf, SMT
    <2>2. BandScore(v, RiskBands).rounded = 998000 + Rounded(1 * (v - 920000), 40)
      BY <2>1, AlongRounded, SMT
    <2>3. QED
      BY <1>1, <2>2, SMT DEF Rounded, RoundedRisk
  <1>2. CASE v >= 780000 /\ v < 920000
    <2>1. BandScore(v, RiskBands) = Along(990000, <<2, 35>>, v - 780000)
      BY <1>2, RiskFacts, BandOf, SMT
    <2>2. PICK x \in Int : x = v - 780000
      OBVIOUS
    <2>3. BandScore(v, RiskBands).rounded = 990000 + Rounded(2 * x, 35)
      BY <2>1, <2>2, SMT DEF Along
    <2>4. QED
      BY <1>2, <2>2, <2>3, SMT DEF Rounded, RoundedRisk
  <1>3. CASE v >= 220000 /\ v < 780000
    <2>1. BandScore(v, RiskBands) = Along(900000, <<9, 56>>, v - 220000)
      BY <1>3, RiskFacts, BandOf, SMT
    <2>2. PICK x \in Int : x = v - 220000
      OBVIOUS
    <2>3. BandScore(v, RiskBands).rounded = 900000 + Rounded(9 * x, 56)
      BY <2>1, <2>2, SMT DEF Along
    <2>4. QED
      BY <1>3, <2>2, <2>3, SMT DEF Rounded, RoundedRisk
  <1>4. CASE v < 220000
    <2>1. BandScore(v, RiskBands) = Along(0, <<45, 11>>, v)
      BY <1>4, RiskFacts, BandOf, SMT
    <2>2. BandScore(v, RiskBands).rounded = 0 + Rounded(45 * v, 11)
      BY <2>1, AlongRounded, SMT
    <2>3. QED
      BY <1>4, <2>2, SMT DEF Rounded, RoundedRisk
  <1>5. QED
    BY <1>1, <1>2, <1>3, <1>4, SMT
LEMMA PreEventRounds ==
  ASSUME NEW v \in Int
  PROVE  BandScore(v, PreEventBands).rounded = RoundedPreEvent(v)
  <1>1. CASE v >= 998000
    <2>1. BandScore(v, PreEventBands) = Along(998000, <<1, 1>>, v - 998000)
      BY <1>1, PreEventFacts, BandOf, SMT
    <2>2. BandScore(v, PreEventBands).rounded = 998000 + Rounded(1 * (v - 998000), 1)
      BY <2>1, AlongRounded, SMT
    <2>3. QED
      BY <1>1, <2>2, SMT DEF Rounded, RoundedPreEvent
  <1>2. CASE v >= 990000 /\ v < 998000
    <2>1. BandScore(v, PreEventBands) = Along(990000, <<1, 1>>, v - 990000)
      BY <1>2, PreEventFacts, BandOf, SMT
    <2>2. BandScore(v, PreEventBands).rounded = 990000 + Rounded(1 * (v - 990000), 1)
      BY <2>1, AlongRounded, SMT
    <2>3. QED
      BY <1>2, <2>2, SMT DEF Rounded, RoundedPreEvent
  <1>3. CASE v >= 500000 /\ v < 990000
    <2>1. BandScore(v, PreEventBands) = Along(900000, <<9, 49>>, v - 500000)
      BY <1>3, PreEventFacts, BandOf, SMT
    <2>2. PICK x \in Int : x = v - 500000
      OBVIOUS
    <2>3. BandScore(v, PreEventBands).rounded = 900000 + Rounded(9 * x, 49)
      BY <2>1, <2>2, SMT DEF Along
    <2>4. QED
      BY <1>3, <2>2, <2>3, SMT DEF Rounded, RoundedPreEvent
  <1>4. CASE v < 500000
    <2>1. BandScore(v, PreEventBands) = Along(0, <<9, 5>>, v)
      BY <1>4, PreEventFacts, BandOf, SMT
    <2>2. BandScore(v, PreEventBands).rounded = 0 + Rounded(9 * v, 5)
      BY <2>1, AlongRounded, SMT
    <2>3. QED
      BY <1>4, <2>2, SMT DEF Rounded, RoundedPreEvent
  <1>5. QED
    BY <1>1, <1>2, <1>3, <1>4, SMT
(* No step down within a band or between two.                              *)
LEMMA RoundedGrows ==
  ASSUME NEW x \in Int, NEW y \in Int, y <= x
  PROVE  /\ RoundedRisk(y) <= RoundedRisk(x) /\ RoundedRisk(x) \in Int
         /\ RoundedPreEvent(y) <= RoundedPreEvent(x) /\ RoundedPreEvent(x) \in Int
  <1>1. RoundedRisk(y) <= RoundedRisk(x)
    BY SMT DEF RoundedRisk
  <1>2. RoundedPreEvent(y) <= RoundedPreEvent(x)
    BY SMT DEF RoundedPreEvent
  <1>3. RoundedRisk(x) \in Int /\ RoundedPreEvent(x) \in Int
    BY SMT DEF RoundedRisk, RoundedPreEvent
  <1>4. QED
    BY <1>1, <1>2, <1>3, SMT
(* The stored score follows the two probabilities.                         *)
LEMMA HybridGrows ==
  ASSUME NEW a \in AnswerType, NEW b \in AnswerType,
         RiskScore(a) >= RiskScore(b), PreEvent(a) >= PreEvent(b)
  PROVE  /\ HybridScore(a).rounded >= HybridScore(b).rounded
         /\ HybridScore(a).rounded \in Int
  <1>1. PICK x \in Int, y \in Int : /\ x = RiskScore(a) /\ y = RiskScore(b) /\ y <= x
    BY RiskIs, SMT
  <1>2. PICK u \in Int, w \in Int : /\ u = PreEvent(a) /\ w = PreEvent(b) /\ w <= u
    BY PreEventIs, SMT
  <1>3. /\ BandScore(RiskScore(a), RiskBands).rounded = RoundedRisk(x)
        /\ BandScore(RiskScore(b), RiskBands).rounded = RoundedRisk(y)
    BY <1>1, RiskRounds, SMT
  <1>4. /\ BandScore(PreEvent(a), PreEventBands).rounded = RoundedPreEvent(u)
        /\ BandScore(PreEvent(b), PreEventBands).rounded = RoundedPreEvent(w)
    BY <1>2, PreEventRounds, SMT
  <1>5. /\ RoundedRisk(y) <= RoundedRisk(x) /\ RoundedRisk(x) \in Int /\ RoundedRisk(y) \in Int
        /\ RoundedPreEvent(w) <= RoundedPreEvent(u)
        /\ RoundedPreEvent(u) \in Int /\ RoundedPreEvent(w) \in Int
    BY <1>1, <1>2, RoundedGrows, SMT
  <1>6. /\ HybridScore(a).rounded = Max({RoundedRisk(x), RoundedPreEvent(u)})
        /\ HybridScore(b).rounded = Max({RoundedRisk(y), RoundedPreEvent(w)})
    BY <1>3, <1>4, SMT DEF HybridScore
  <1>7. QED
    BY <1>5, <1>6, Largest2, SMT

(* The earlier policy, summand by summand.                                 *)
LEMMA ClampIs ==
  ASSUME NEW x \in Int, NEW h \in Int, 0 <= h
  PROVE  Clamp(x, h) = IF x <= 0 THEN 0 ELSE IF x <= h THEN x ELSE h
  BY Largest2, Smallest2, SMT DEF Clamp
LEMMA RiskPointsGrow ==
  ASSUME NEW a \in AnswerType, NEW b \in AnswerType,
         RiskScore(a) >= RiskScore(b), a.override = b.override
  PROVE  /\ RiskPoints[RiskLevel(a)] \in Int /\ RiskPoints[RiskLevel(b)] \in Int
         /\ RiskPoints[RiskLevel(a)] >= RiskPoints[RiskLevel(b)]
         /\ RiskLevel(b) \in {"high", "critical"} => RiskLevel(a) \in {"high", "critical"}
  <1>1. PICK x \in Int, y \in Int : /\ x = RiskScore(a) /\ y = RiskScore(b) /\ y <= x
    BY RiskIs, SMT
  <1>2. PICK h \in {370000, 920000} : /\ RiskThresholds(a).high = h /\ RiskThresholds(b).high = h
    BY SMT DEF RiskThresholds
  <1>3. /\ RiskThresholds(a).medium = 220000 /\ RiskThresholds(b).medium = 220000
        /\ RiskThresholds(a).critical = 920000 /\ RiskThresholds(b).critical = 920000
    BY SMT DEF RiskThresholds
  <1>4. RiskLevel(a) = IF x >= 920000 THEN "critical" ELSE IF x >= h THEN "high"
                       ELSE IF x >= 220000 THEN "medium" ELSE "low"
    BY <1>1, <1>2, <1>3, SMT DEF RiskLevel
  <1>5. RiskLevel(b) = IF y >= 920000 THEN "critical" ELSE IF y >= h THEN "high"
                       ELSE IF y >= 220000 THEN "medium" ELSE "low"
    BY <1>1, <1>2, <1>3, SMT DEF RiskLevel
  <1>6. /\ RiskPoints["critical"] = 380000 /\ RiskPoints["high"] = 280000
        /\ RiskPoints["medium"] = 150000 /\ RiskPoints["low"] = 40000
    BY SMT DEF RiskPoints
  <1>7. QED
    BY <1>1, <1>2, <1>4, <1>5, <1>6, SMT

(* Three classes of confidence, and the points of a bucket in each.        *)
LEMMA BucketIs ==
  ASSUME NEW a
  PROVE  Bucket(a) \in {"0-24h", "1-3d", "3-7d"}
  BY SMT DEF Bucket
LEMMA BucketPointsIs ==
  /\ BucketPoints("0-24h") = 180000 /\ BucketPoints("1-3d") = 100000
  /\ BucketPoints("3-7d") = 40000
  BY SMT DEF BucketPoints
LEMMA ConfidenceIs ==
  ASSUME NEW a \in AnswerType
  PROVE  Confidence(a) \in Int
  <1>1. PICK n \in Int, m \in Int : n = a.near /\ m = a.mid
    <2>1. a.near \in Probability /\ a.mid \in Probability
      BY SMT DEF AnswerType, Evidence
    <2>2. QED
      BY <2>1, ProbabilityIs, SMT
  <1>2. PICK x \in Int : x = One - a.near - a.mid
    BY <1>1, OneIs, SMT
  <1>3. Confidence(a) = Max({n, m, x})
    BY <1>1, <1>2, SMT DEF Confidence
  <1>4. QED
    BY <1>3, Largest3, SMT
LEMMA LeadtimePointsGrow ==
  ASSUME NEW a \in AnswerType, NEW b \in AnswerType,
         Urgency(a) >= Urgency(b), BucketPoints(Bucket(a)) >= BucketPoints(Bucket(b)),
         Bucket(a) = Bucket(b) => Confidence(a) >= Confidence(b)
  PROVE  /\ LeadtimePoints(a) \in Int /\ LeadtimePoints(b) \in Int
         /\ LeadtimePoints(a) >= LeadtimePoints(b)
  <1>1. /\ a.near \in Int /\ a.mid \in Int /\ b.near \in Int /\ b.mid \in Int
    <2>1. a.near \in Probability /\ a.mid \in Probability /\ b.near \in Probability
          /\ b.mid \in Probability
      BY SMT DEF AnswerType, Evidence
    <2>2. QED
      BY <2>1, ProbabilityIs, SMT
  <1>2. Urgency(a) \in Int /\ Urgency(b) \in Int
    BY <1>1, SMT DEF Urgency
  <1>3. PICK u \in Int, w \in Int : u = (3 * Urgency(a)) \div 100 /\ w = (3 * Urgency(b)) \div 100
                                    /\ w <= u
    BY <1>2, SMT
  <1>4. Confidence(a) \in Int /\ Confidence(b) \in Int
    BY ConfidenceIs
  <1>5. /\ Multiplier(a) \in {6, 8, 10} /\ Multiplier(b) \in {6, 8, 10}
        /\ Bucket(a) = Bucket(b) => Multiplier(a) >= Multiplier(b)
    BY <1>4, SMT DEF Multiplier
  <1> DEFINE points(k, m) == (BucketPoints(k) * 3 * m) \div 40
  <1>6. /\ points("0-24h", 6) = 81000 /\ points("0-24h", 8) = 108000
        /\ points("0-24h", 10) = 135000 /\ points("1-3d", 6) = 45000
        /\ points("1-3d", 8) = 60000 /\ points("1-3d", 10) = 75000
        /\ points("3-7d", 6) = 18000 /\ points("3-7d", 8) = 24000
        /\ points("3-7d", 10) = 30000
    BY BucketPointsIs, SMT
  <1>7. /\ LeadtimePoints(a) = points(Bucket(a), Multiplier(a)) + u
        /\ LeadtimePoints(b) = points(Bucket(b), Multiplier(b)) + w
    BY <1>3, SMT DEF LeadtimePoints
  <1> HIDE DEF points
  <1>8. /\ points(Bucket(a), Multiplier(a)) \in Int /\ points(Bucket(b), Multiplier(b)) \in Int
        /\ points(Bucket(a), Multiplier(a)) >= points(Bucket(b), Multiplier(b))
    BY <1>5, <1>6, BucketIs, BucketPointsIs, SMT
  <1>9. QED
    BY <1>3, <1>7, <1>8, SMT

LEMMA ConsensusIs ==
  ASSUME NEW a
  PROVE  Consensus(a) \in 0..2
  <1>1. IsFiniteSet({"iforest"}) /\ Cardinality({"iforest"}) = 1
    BY FS_Singleton, Zenon
  <1>2. PICK S : S = {"iforest"} \cup {"mahalanobis"}
    OBVIOUS
  <1>3. IsFiniteSet(S) /\ Cardinality(S) \in Nat /\ Cardinality(S) <= 2
    BY <1>1, <1>2, FS_AddElement, FS_CardinalityType, SMTT(30)
  <1> DEFINE d == {r \in {"iforest", "mahalanobis"} : a.detected[r]}
  <1>4. d \in SUBSET S /\ Consensus(a) = Cardinality(d)
    BY <1>2 DEF Consensus
  <1> HIDE DEF d
  <1>5. IsFiniteSet(d) /\ Cardinality(d) <= Cardinality(S)
    BY <1>3, <1>4, FS_Subset
  <1>6. Cardinality(d) \in Nat
    BY <1>5, FS_CardinalityType
  <1>7. QED
    BY <1>3, <1>4, <1>5, <1>6, SMT
LEMMA AnswerFields ==
  ASSUME NEW a \in AnswerType
  PROVE  /\ a.criticality \in Nat /\ a.ensemble \in Nat /\ a.context \in Nat
         /\ a.windows \in Nat /\ a.highs48h \in Nat /\ a.persistence \in Nat
         /\ a.highs \in [{"24h", "3d", "7d"} -> Nat]
         /\ a.sinceTask \in Nat \cup {-1} /\ a.sinceEvent \in Nat \cup {-1}
         /\ a.repeated \in {"none", "watch", "high"}
         /\ a.confirmed \in SUBSET {"short", "main", "persistent", "operational"}
  BY SMT DEF AnswerType, Evidence
LEMMA AnomalyPointsGrow ==
  ASSUME NEW a \in AnswerType, NEW b \in AnswerType, a.ensemble >= b.ensemble,
         Consensus(a) >= Consensus(b), Criticality(a) >= Criticality(b)
  PROVE  /\ AnomalyPoints(a) \in Int /\ AnomalyPoints(b) \in Int
         /\ AnomalyPoints(a) >= AnomalyPoints(b)
  <1> DEFINE said(x) == CASE Consensus(x) = 2 -> 30000 [] Consensus(x) = 1 -> 10000 [] OTHER -> 0
  <1>1. said(a) \in Int /\ said(b) \in Int /\ said(a) >= said(b)
    BY ConsensusIs, SMT
  <1>2. PICK x \in Int, y \in Int :
          /\ x = (a.ensemble - 800000) \div 10 /\ y = (b.ensemble - 800000) \div 10 /\ y <= x
    BY AnswerFields, SMT
  <1>3. PICK u \in Int, w \in Int : u = 6000 * Criticality(a) /\ w = 6000 * Criticality(b) /\ w <= u
    BY AnswerFields, SMT DEF Criticality
  <1>4. /\ AnomalyPoints(a) = Clamp(x, 80000) + said(a) + Clamp(u, 30000)
        /\ AnomalyPoints(b) = Clamp(y, 80000) + said(b) + Clamp(w, 30000)
    BY <1>2, <1>3, SMT DEF AnomalyPoints
  <1> HIDE DEF said
  <1>5. QED
    BY <1>1, <1>2, <1>3, <1>4, ClampIs, SMT
LEMMA WindowPointsGrow ==
  ASSUME NEW a \in AnswerType, NEW b \in AnswerType, a.context >= b.context,
         a.windows >= b.windows, b.confirmed \subseteq a.confirmed
  PROVE  /\ WindowPoints(a) \in Int /\ WindowPoints(b) \in Int
         /\ WindowPoints(a) >= WindowPoints(b)
  <1> DEFINE confirmed(x) == (IF "short" \in x.confirmed THEN 15000 ELSE 0)
                             + (IF "main" \in x.confirmed THEN 30000 ELSE 0)
                             + (IF "persistent" \in x.confirmed THEN 25000 ELSE 0)
                             + (IF "operational" \in x.confirmed THEN 10000 ELSE 0)
  <1>1. confirmed(a) \in Int /\ confirmed(b) \in Int /\ confirmed(a) >= confirmed(b)
    BY SMT
  <1>2. PICK x \in Int, y \in Int : x = 4500 * a.context /\ y = 4500 * b.context /\ y <= x
    BY AnswerFields, SMT
  <1>3. PICK u \in Int, w \in Int : u = 8000 * a.windows /\ w = 8000 * b.windows /\ w <= u
    BY AnswerFields, SMT
  <1>4. /\ Clamp(x, 45000) \in Int /\ Clamp(y, 45000) \in Int /\ Clamp(y, 45000) <= Clamp(x, 45000)
        /\ Clamp(u, 30000) \in Int /\ Clamp(w, 30000) \in Int /\ Clamp(w, 30000) <= Clamp(u, 30000)
    BY <1>2, <1>3, ClampIs, SMT
  <1>5. /\ WindowPoints(a) = Clamp(Clamp(x, 45000) + Clamp(u, 30000) + confirmed(a), 120000)
        /\ WindowPoints(b) = Clamp(Clamp(y, 45000) + Clamp(w, 30000) + confirmed(b), 120000)
    BY <1>1, <1>2, <1>3, <1>4, SMT DEF WindowPoints
  <1> HIDE DEF confirmed
  <1>6. QED
    BY <1>1, <1>4, <1>5, ClampIs, SMT
LEMMA EpisodePointsGrow ==
  ASSUME NEW a \in AnswerType, NEW b \in AnswerType, a.highs48h >= b.highs48h,
         a.repeated = b.repeated, RiskScore(a) >= RiskScore(b), a.risk = b.risk
  PROVE  /\ EpisodePoints(a) \in Int /\ EpisodePoints(b) \in Int
         /\ EpisodePoints(a) >= EpisodePoints(b)
  <1>1. PICK r \in Int : /\ r = CASE a.repeated = "high" -> 50000 [] a.repeated = "watch" -> 20000
                                [] OTHER -> 0
    BY SMT
  <1>2. PICK x \in Int, y \in Int : x = 15000 * a.highs48h /\ y = 15000 * b.highs48h /\ y <= x
    BY AnswerFields, SMT
  <1>3. PICK u \in Int, w \in Int :
          /\ u = 8 * ((RiskScore(a) - a.risk) \div 100)
          /\ w = 8 * ((RiskScore(b) - b.risk) \div 100) /\ w <= u
    <2>1. a.risk \in Probability
      BY SMT DEF AnswerType, Evidence
    <2>2. PICK p \in Int, x1 \in Int, y1 \in Int :
            p = a.risk /\ x1 = RiskScore(a) /\ y1 = RiskScore(b) /\ y1 <= x1
      BY <2>1, ProbabilityIs, RiskIs, SMT
    <2>3. 8 * ((x1 - p) \div 100) \in Int /\ 8 * ((y1 - p) \div 100) \in Int
          /\ 8 * ((y1 - p) \div 100) <= 8 * ((x1 - p) \div 100)
      <3>1. PICK e \in Int, f \in Int : e = x1 - p /\ f = y1 - p /\ f <= e
        BY <2>2, SMT
      <3>2. PICK g \in Int, k \in Int : g = e \div 100 /\ k = f \div 100 /\ k <= g
        BY <3>1, SMT
      <3>3. QED
        BY <3>1, <3>2, SMT
    <2>4. QED
      BY <2>2, <2>3, SMT
  <1>4. /\ Clamp(x, 45000) \in Int /\ Clamp(y, 45000) \in Int /\ Clamp(y, 45000) <= Clamp(x, 45000)
        /\ Clamp(u, 30000) \in Int /\ Clamp(w, 30000) \in Int /\ Clamp(w, 30000) <= Clamp(u, 30000)
    BY <1>2, <1>3, ClampIs, SMT
  <1>5. /\ EpisodePoints(a) = Clamp(Clamp(x, 45000) + r + Clamp(u, 30000), 100000)
        /\ EpisodePoints(b) = Clamp(Clamp(y, 45000) + r + Clamp(w, 30000), 100000)
    BY <1>1, <1>2, <1>3, SMT DEF EpisodePoints
  <1> DEFINE p == Clamp(x, 45000) + r + Clamp(u, 30000)
             q == Clamp(y, 45000) + r + Clamp(w, 30000)
  <1>6. p \in Int /\ q \in Int /\ q <= p
    BY <1>4, SMT
  <1>7. EpisodePoints(a) = Clamp(p, 100000) /\ EpisodePoints(b) = Clamp(q, 100000)
    BY <1>5
  <1> HIDE DEF p, q
  <1>8. QED
    BY <1>6, <1>7, ClampIs, SMT
LEMMA HorizonPointsGrow ==
  ASSUME NEW a \in AnswerType, NEW b \in AnswerType, a.persistence >= b.persistence,
         \A h \in DOMAIN a.highs : a.highs[h] >= b.highs[h]
  PROVE  /\ HorizonPoints(a) \in Int /\ HorizonPoints(b) \in Int
         /\ HorizonPoints(a) >= HorizonPoints(b)
  <1> DEFINE Hs == {"24h", "3d", "7d"}
             met(x) == {h \in Hs : x.highs[h] >= (CASE h = "24h" -> 2 [] h = "3d" -> 4
                                                     [] h = "7d" -> 8)}
  <1>1. IsFiniteSet(Hs)
    <2>1. IsFiniteSet({"24h"})
      BY FS_Singleton, Zenon
    <2>2. IsFiniteSet({"24h"} \cup {"3d"})
      BY <2>1, FS_AddElement, Zenon
    <2>3. IsFiniteSet(({"24h"} \cup {"3d"}) \cup {"7d"})
      BY <2>2, FS_AddElement, Zenon
    <2>4. Hs = ({"24h"} \cup {"3d"}) \cup {"7d"}
      BY SMT
    <2>5. QED
      BY <2>3, <2>4, SMT
  <1>2. met(a) \in SUBSET Hs /\ met(b) \in SUBSET met(a)
    BY AnswerFields, SMT
  <1>3. HorizonPoints(a) = Clamp(Clamp(10000 * a.persistence, 120000)
                                 + 20000 * Cardinality(met(a)), 180000)
    BY SMT DEF HorizonPoints
  <1>4. HorizonPoints(b) = Clamp(Clamp(10000 * b.persistence, 120000)
                                 + 20000 * Cardinality(met(b)), 180000)
    BY SMT DEF HorizonPoints
  <1> HIDE DEF met, Hs
  <1>5. /\ Cardinality(met(a)) \in Int /\ Cardinality(met(b)) \in Int
        /\ Cardinality(met(b)) <= Cardinality(met(a))
    BY <1>1, <1>2, FS_Subset, FS_CardinalityType, SMT
  <1>6. PICK x \in Int, y \in Int :
          x = 10000 * a.persistence /\ y = 10000 * b.persistence /\ y <= x
    BY AnswerFields, SMT
  <1>7. /\ Clamp(x, 120000) \in Int /\ Clamp(y, 120000) \in Int
        /\ Clamp(y, 120000) <= Clamp(x, 120000)
    BY <1>6, ClampIs, SMT
  <1>8. QED
    BY <1>3, <1>4, <1>5, <1>6, <1>7, ClampIs, SMT
LEMMA HistoryPointsIs ==
  ASSUME NEW b \in AnswerType
  PROVE  HistoryPoints(b) \in Int /\ HistoryPoints(b) <= 0
  BY AnswerFields, SMT DEF HistoryPoints, Lately
LEMMA UrgencyBonusGrows ==
  ASSUME NEW a \in AnswerType, NEW b \in AnswerType,
         RiskLevel(b) \in {"high", "critical"} => RiskLevel(a) \in {"high", "critical"},
         BucketPoints(Bucket(a)) >= BucketPoints(Bucket(b)),
         Consensus(a) >= Consensus(b), Criticality(a) >= Criticality(b)
  PROVE  /\ UrgencyBonus(a) \in Int /\ UrgencyBonus(b) \in Int
         /\ UrgencyBonus(a) >= UrgencyBonus(b)
  <1>1. /\ Bucket(b) = "0-24h" => Bucket(a) = "0-24h"
        /\ Bucket(b) = "1-3d" => Bucket(a) \in {"0-24h", "1-3d"}
    BY BucketIs, BucketPointsIs, SMT
  <1>2. Consensus(a) \in 0..2 /\ Consensus(b) \in 0..2
    BY ConsensusIs
  <1>3. /\ Criticality(a) \in Int /\ Criticality(b) \in Int
        /\ Criticality(a) >= 5 => Consensus(a) = 2
    BY AnswerFields, SMT DEF Criticality, Label
  <1> DEFINE risky(x) == RiskLevel(x) \in {"high", "critical"}
             now(x) == risky(x) /\ Bucket(x) = "0-24h" /\ Consensus(x) = 2
             soon(x) == risky(x) /\ Bucket(x) = "1-3d" /\ Criticality(x) >= 5
  <1>4. /\ now(b) => now(a)
        /\ soon(b) => now(a) \/ soon(a)
    <2>1. Consensus(b) = 2 => Consensus(a) = 2
      BY <1>2, SMT
    <2>2. Criticality(b) >= 5 => Criticality(a) >= 5 /\ Consensus(a) = 2
      BY <1>3, SMT
    <2>3. risky(b) => risky(a)
      OBVIOUS
    <2> HIDE DEF risky
    <2>4. QED
      BY <1>1, <2>1, <2>2, <2>3, SMT
  <1>5. /\ UrgencyBonus(a) = IF now(a) THEN 80000 ELSE IF soon(a) THEN 50000 ELSE 0
        /\ UrgencyBonus(b) = IF now(b) THEN 80000 ELSE IF soon(b) THEN 50000 ELSE 0
    BY SMT DEF UrgencyBonus
  <1> HIDE DEF now, soon
  <1>6. QED
    BY <1>4, <1>5, SMT

(* What the earlier policy adds up, and that more evidence never takes     *)
(* points away when nothing happened lately.                               *)
LEMMA CurrentBestGrows ==
  ASSUME NEW a \in AnswerType, NEW b \in AnswerType, AtLeast(a, b), HistoryPoints(a) = 0
  PROVE  CurrentBest(a) >= CurrentBest(b)
  <1>1. /\ RiskScore(a) >= RiskScore(b) /\ a.risk = b.risk
        /\ Urgency(a) >= Urgency(b) /\ a.ensemble >= b.ensemble
        /\ BucketPoints(Bucket(a)) >= BucketPoints(Bucket(b))
        /\ Bucket(a) = Bucket(b) => Confidence(a) >= Confidence(b)
        /\ Consensus(a) >= Consensus(b) /\ Criticality(a) >= Criticality(b)
        /\ a.override = b.override /\ a.context >= b.context /\ a.windows >= b.windows
        /\ b.confirmed \subseteq a.confirmed /\ a.highs48h >= b.highs48h
        /\ a.repeated = b.repeated /\ a.persistence >= b.persistence
        /\ \A h \in DOMAIN a.highs : a.highs[h] >= b.highs[h]
    BY Zenon DEF AtLeast
  <1>2. /\ RiskPoints[RiskLevel(a)] \in Int /\ RiskPoints[RiskLevel(b)] \in Int
        /\ RiskPoints[RiskLevel(a)] >= RiskPoints[RiskLevel(b)]
        /\ UrgencyBonus(a) \in Int /\ UrgencyBonus(b) \in Int
        /\ UrgencyBonus(a) >= UrgencyBonus(b)
    BY <1>1, RiskPointsGrow, UrgencyBonusGrows
  <1>3. PICK x \in Int, y \in Int :
          /\ x = 18 * (RiskScore(a) \div 100) /\ y = 18 * (RiskScore(b) \div 100) /\ y <= x
    <2>1. PICK u \in Int, w \in Int : u = RiskScore(a) /\ w = RiskScore(b) /\ w <= u
      BY <1>1, RiskIs, SMT
    <2>2. PICK g \in Int, k \in Int : g = u \div 100 /\ k = w \div 100 /\ k <= g
      BY <2>1, SMT
    <2>3. QED
      BY <2>1, <2>2, SMT
  <1>4. /\ Clamp(x, 180000) \in Int /\ Clamp(y, 180000) \in Int
        /\ Clamp(x, 180000) >= Clamp(y, 180000)
    BY <1>3, ClampIs, SMT
  <1>5. /\ LeadtimePoints(a) \in Int /\ LeadtimePoints(b) \in Int
        /\ LeadtimePoints(a) >= LeadtimePoints(b)
    BY <1>1, LeadtimePointsGrow
  <1>6. /\ AnomalyPoints(a) \in Int /\ AnomalyPoints(b) \in Int
        /\ AnomalyPoints(a) >= AnomalyPoints(b)
    BY <1>1, AnomalyPointsGrow
  <1>7. /\ WindowPoints(a) \in Int /\ WindowPoints(b) \in Int
        /\ WindowPoints(a) >= WindowPoints(b)
    BY <1>1, WindowPointsGrow
  <1>8. /\ EpisodePoints(a) \in Int /\ EpisodePoints(b) \in Int
        /\ EpisodePoints(a) >= EpisodePoints(b)
    BY <1>1, EpisodePointsGrow
  <1>9. /\ HorizonPoints(a) \in Int /\ HorizonPoints(b) \in Int
        /\ HorizonPoints(a) >= HorizonPoints(b)
    BY <1>1, HorizonPointsGrow
  <1>10. HistoryPoints(a) \in Int /\ HistoryPoints(b) \in Int
         /\ HistoryPoints(a) >= HistoryPoints(b)
    BY HistoryPointsIs, SMT
  <1> DEFINE sum(c, z) == RiskPoints[RiskLevel(c)] + Clamp(z, 180000) + LeadtimePoints(c)
                          + AnomalyPoints(c) + WindowPoints(c) + EpisodePoints(c)
                          + HorizonPoints(c) + HistoryPoints(c) + UrgencyBonus(c)
  <1>11. sum(a, x) \in Int /\ sum(b, y) \in Int /\ sum(b, y) <= sum(a, x)
    BY <1>2, <1>4, <1>5, <1>6, <1>7, <1>8, <1>9, <1>10, SMT
  <1>12. CurrentBest(a) = Clamp(sum(a, x), One) /\ CurrentBest(b) = Clamp(sum(b, y), One)
    BY <1>3, SMT DEF CurrentBest
  <1> HIDE DEF sum
  <1>13. QED
    BY <1>11, <1>12, OneIs, ClampIs, SMT
(* Who is ranked before s.                                                 *)
Above(s) == {t \in Substations : Included(t) /\ Before(t, s)}
Sortable(s) == /\ row[s].score \in Int /\ row[s].risk \in Int
               /\ row[s].urgency \in Int /\ row[s].anomaly \in Int
LEMMA SortKeyIs ==
  ASSUME NEW s
  PROVE  /\ SortKey(s)[1] = -row[s].score /\ SortKey(s)[2] = -row[s].risk
         /\ SortKey(s)[3] = -row[s].urgency /\ SortKey(s)[4] = -row[s].anomaly
         /\ SortKey(s)[5] = s
  BY SMT DEF SortKey
(* The order, key by key.                                                  *)
LEMMA BeforeIs ==
  ASSUME NEW s, NEW t
  PROVE  LET u == SortKey(s)
             v == SortKey(t)
         IN  Before(s, t) <=>
               \/ u[1] < v[1]
               \/ u[1] = v[1] /\ u[2] < v[2]
               \/ u[1] = v[1] /\ u[2] = v[2] /\ u[3] < v[3]
               \/ u[1] = v[1] /\ u[2] = v[2] /\ u[3] = v[3] /\ u[4] < v[4]
               \/ u[1] = v[1] /\ u[2] = v[2] /\ u[3] = v[3] /\ u[4] = v[4] /\ u[5] < v[5]
  <1> DEFINE u == SortKey(s)
             v == SortKey(t)
  <1>1. Before(s, t) <=> \E i \in 1..5 : u[i] < v[i] /\ \A j \in 1..(i - 1) : u[j] = v[j]
    BY SMT DEF Before
  <1> HIDE DEF u, v
  <1>2. \A i \in 1..5 : i = 1 \/ i = 2 \/ i = 3 \/ i = 4 \/ i = 5
    BY SMT
  <1>3. /\ 1..(1 - 1) = {} /\ 1..(2 - 1) = {1} /\ 1..(3 - 1) = {1, 2}
        /\ 1..(4 - 1) = {1, 2, 3} /\ 1..(5 - 1) = {1, 2, 3, 4}
    BY SMT
  <1>4. /\ 1 \in 1..5 /\ 2 \in 1..5 /\ 3 \in 1..5 /\ 4 \in 1..5 /\ 5 \in 1..5
    BY SMT
  <1>5. QED
    BY <1>1, <1>2, <1>3, <1>4, SMT DEF u, v
(* A strict total order of those whose keys are numbers.                   *)
LEMMA OrderIs ==
  ASSUME NEW s \in Int, NEW t \in Int, Sortable(s), Sortable(t)
  PROVE  Before(s, t) <=>
           \/ row[s].score > row[t].score
           \/ row[s].score = row[t].score /\ row[s].risk > row[t].risk
           \/ /\ row[s].score = row[t].score /\ row[s].risk = row[t].risk
              /\ row[s].urgency > row[t].urgency
           \/ /\ row[s].score = row[t].score /\ row[s].risk = row[t].risk
              /\ row[s].urgency = row[t].urgency /\ row[s].anomaly > row[t].anomaly
           \/ /\ row[s].score = row[t].score /\ row[s].risk = row[t].risk
              /\ row[s].urgency = row[t].urgency /\ row[s].anomaly = row[t].anomaly /\ s < t
  BY BeforeIs, SortKeyIs, SMT DEF Sortable
LEMMA OrderTotal ==
  ASSUME NEW s \in Int, NEW t \in Int, Sortable(s), Sortable(t)
  PROVE  ~Before(s, s) /\ (s # t => Before(s, t) \/ Before(t, s))
  BY OrderIs, SMT DEF Sortable
LEMMA OrderTransitive ==
  ASSUME NEW s \in Int, NEW t \in Int, NEW w \in Int, Sortable(s), Sortable(t), Sortable(w),
         Before(s, t), Before(t, w)
  PROVE  Before(s, w)
  <1>1. PICK a1 \in Int, a2 \in Int, a3 \in Int, a4 \in Int :
          a1 = row[s].score /\ a2 = row[s].risk /\ a3 = row[s].urgency /\ a4 = row[s].anomaly
    BY Zenon DEF Sortable
  <1>2. PICK b1 \in Int, b2 \in Int, b3 \in Int, b4 \in Int :
          b1 = row[t].score /\ b2 = row[t].risk /\ b3 = row[t].urgency /\ b4 = row[t].anomaly
    BY Zenon DEF Sortable
  <1>3. PICK c1 \in Int, c2 \in Int, c3 \in Int, c4 \in Int :
          c1 = row[w].score /\ c2 = row[w].risk /\ c3 = row[w].urgency /\ c4 = row[w].anomaly
    BY Zenon DEF Sortable
  <1> DEFINE less(x1, x2, x3, x4, x5, y1, y2, y3, y4, y5) ==
               \/ x1 > y1
               \/ x1 = y1 /\ x2 > y2
               \/ x1 = y1 /\ x2 = y2 /\ x3 > y3
               \/ x1 = y1 /\ x2 = y2 /\ x3 = y3 /\ x4 > y4
               \/ x1 = y1 /\ x2 = y2 /\ x3 = y3 /\ x4 = y4 /\ x5 < y5
  <1>4. Before(s, t) <=> less(a1, a2, a3, a4, s, b1, b2, b3, b4, t)
    BY <1>1, <1>2, OrderIs, SMT
  <1>5. Before(t, w) <=> less(b1, b2, b3, b4, t, c1, c2, c3, c4, w)
    BY <1>2, <1>3, OrderIs, SMT
  <1>6. Before(s, w) <=> less(a1, a2, a3, a4, s, c1, c2, c3, c4, w)
    BY <1>1, <1>3, OrderIs, SMT
  <1>7. less(a1, a2, a3, a4, s, b1, b2, b3, b4, t) /\ less(b1, b2, b3, b4, t, c1, c2, c3, c4, w)
          => less(a1, a2, a3, a4, s, c1, c2, c3, c4, w)
    BY SMT
  <1>8. QED
    BY <1>4, <1>5, <1>6, <1>7
(* Ranks count the candidates above: fewer for whoever comes first.        *)
Counted == {t \in Substations : Included(t)}
Sorted == \A s \in Counted : Sortable(s)
LEMMA NatsAreInts == \A n \in Nat : n \in Int
  OBVIOUS
LEMMA AboveFinite ==
  ASSUME NEW s \in Counted, Sorted
  PROVE  /\ IsFiniteSet(Counted) /\ Cardinality(Counted) \in Nat
         /\ IsFiniteSet(Above(s)) /\ Cardinality(Above(s)) \in Nat
         /\ Cardinality(Above(s)) < Cardinality(Counted)
  <1>1. Counted \in SUBSET Substations
    BY SMT DEF Counted
  <1>2. IsFiniteSet(Counted)
    BY <1>1, ScoringAssumption, FS_Subset
  <1>3. Counted \subseteq Int
    BY <1>1, ScoringAssumption, NatsAreInts
  <1>4. s \notin Above(s)
    BY <1>3, OrderTotal, SMT DEF Above, Sorted
  <1>5. Above(s) \in SUBSET Counted
    BY SMT DEF Above, Counted
  <1>6. /\ IsFiniteSet(Above(s)) /\ Cardinality(Above(s)) <= Cardinality(Counted)
        /\ Cardinality(Above(s)) # Cardinality(Counted)
    BY <1>2, <1>4, <1>5, FS_Subset
  <1>7. Cardinality(Above(s)) \in Nat /\ Cardinality(Counted) \in Nat
    BY <1>2, <1>6, FS_CardinalityType
  <1>8. QED
    BY <1>2, <1>6, <1>7, SMT
LEMMA AboveGrows ==
  ASSUME NEW s \in Counted, NEW t \in Counted, Sorted, Before(s, t)
  PROVE  Cardinality(Above(s)) < Cardinality(Above(t))
  <1>1. s \in Int /\ t \in Int /\ s \in Substations
    BY ScoringAssumption, SMT DEF Counted
  <1>2. Above(s) \in SUBSET Above(t)
    <2>1. ASSUME NEW w \in Above(s) PROVE w \in Above(t)
      <3>1. w \in Substations /\ Included(w) /\ Before(w, s) /\ w \in Counted /\ w \in Int
        BY ScoringAssumption, SMT DEF Above, Counted
      <3>2. Before(w, t)
        BY <1>1, <3>1, OrderTransitive DEF Sorted
      <3>3. QED
        BY <3>1, <3>2 DEF Above
    <2>2. QED
      BY <2>1
  <1>3. s \in Above(t) /\ s \notin Above(s)
    BY <1>1, OrderTotal, SMT DEF Above, Counted, Sorted
  <1>4. /\ IsFiniteSet(Above(t)) /\ Cardinality(Above(t)) \in Nat
        /\ Cardinality(Above(s)) \in Nat
    BY AboveFinite
  <1>5. /\ Cardinality(Above(s)) <= Cardinality(Above(t))
        /\ Cardinality(Above(s)) # Cardinality(Above(t))
    BY <1>2, <1>3, <1>4, FS_Subset
  <1>6. QED
    BY <1>4, <1>5, SMT
(* The ranks of the included are 1, 2, 3 ...                               *)
LEMMA RanksAreDense ==
  ASSUME Sorted, \A s \in Counted : row[s].rank = 1 + Cardinality(Above(s))
  PROVE  {row[s].rank : s \in Counted} = 1..Cardinality(Counted)
  <1>1. CASE Counted = {}
    <2>1. Cardinality(Counted) = 0
      BY <1>1, FS_EmptySet, Zenon
    <2>2. QED
      BY <1>1, <2>1, SMT
  <1>2. CASE Counted # {}
    <2>1. PICK n \in Nat : n = Cardinality(Counted) /\ IsFiniteSet(Counted)
      BY <1>2, AboveFinite
    <2> DEFINE f == [s \in Counted |-> row[s].rank]
               T == 1..n
    <2>2. \A s \in Counted : f[s] = row[s].rank /\ f[s] \in T
      BY <2>1, AboveFinite, SMT
    <2>3. \A s, t \in Counted : f[s] = f[t] => s = t
      <3>1. SUFFICES ASSUME NEW s \in Counted, NEW t \in Counted, s # t
                     PROVE  f[s] # f[t]
        OBVIOUS
      <3>2. Before(s, t) \/ Before(t, s)
        <4>1. s \in Int /\ t \in Int
          BY ScoringAssumption, NatsAreInts DEF Counted
        <4>2. Sortable(s) /\ Sortable(t)
          BY DEF Sorted
        <4>3. QED
          BY <3>1, <4>1, <4>2, OrderTotal
      <3>3. /\ Cardinality(Above(s)) \in Nat /\ Cardinality(Above(t)) \in Nat
            /\ Cardinality(Above(s)) # Cardinality(Above(t))
        BY <3>2, AboveGrows, AboveFinite, SMT
      <3>4. QED
        BY <2>2, <3>3, SMT
    <2>4. f \in Injection(Counted, T)
      BY <2>2, <2>3, SMT DEF Injection, IsInjective
    <2>5. IsFiniteSet(T) /\ Cardinality(T) = n
      BY <2>1, FS_Interval, SMT
    <2>6. f \in Surjection(Counted, T)
      BY <2>1, <2>4, <2>5, FS_Injection
    <2> HIDE DEF f
    <2>7. \A k \in T : \E s \in Counted : f[s] = k
      BY <2>6, Zenon DEF Surjection
    <2>8. QED
      BY <2>1, <2>2, <2>7
  <1>3. QED
    BY <1>1, <1>2
LEMMA UrgencyIs ==
  ASSUME NEW a \in AnswerType
  PROVE  Urgency(a) \in Int
  <1>1. a.near \in Probability /\ a.mid \in Probability
    BY SMT DEF AnswerType, Evidence
  <1>2. a.near \in Int /\ a.mid \in Int
    BY <1>1, ProbabilityIs
  <1>3. QED
    BY <1>2, SMT DEF Urgency

(* The fields of a result, and what they are after inference and ranking.  *)
Fields == {"score", "level", "risk", "riskLevel", "urgency", "anomaly", "label", "freshness",
           "rank", "currentBest", "agreement", "state"}
LEMMA ResultIs ==
  ASSUME NEW a
  PROVE  /\ Result(a).freshness = Freshness(a) /\ Result(a).riskLevel = RiskLevel(a)
         /\ Result(a).currentBest = CurrentBest(a) /\ DOMAIN Result(a) = Fields
  BY SMT DEF Result, Unscored, Fields
LEMMA ModelResultIs ==
  ASSUME NEW a
  PROVE  /\ ModelResult(a).freshness = Freshness(a) /\ ModelResult(a).riskLevel = RiskLevel(a)
         /\ ModelResult(a).level = Level(a) /\ ModelResult(a).label \in {"true", "false"}
         /\ ModelResult(a).score = HybridScore(a).rounded /\ ModelResult(a).risk = RiskScore(a)
         /\ ModelResult(a).urgency = Urgency(a) /\ ModelResult(a).anomaly = a.ensemble
         /\ ModelResult(a).currentBest = CurrentBest(a) /\ DOMAIN ModelResult(a) = Fields
  BY ResultIs, SMT DEF ModelResult, Fields
LEMMA RankedIs ==
  ASSUME NEW r, DOMAIN r = Fields, NEW x
  PROVE  LET n == [r EXCEPT !.rank = x] IN
         /\ n.freshness = r.freshness /\ n.riskLevel = r.riskLevel
         /\ n.level = r.level /\ n.label = r.label /\ DOMAIN n = Fields
         /\ n.score = r.score /\ n.risk = r.risk /\ n.urgency = r.urgency
         /\ n.anomaly = r.anomaly /\ n.currentBest = r.currentBest /\ n.rank = x
  BY SMT DEF Fields

(* The inductive invariant: from inference on a row has the freshness of   *)
(* its answer, the points of the earlier policy and, unless it is missing, *)
(* the level and the keys; from the ranking on the rank counts those       *)
(* before it; and it is consumed as it stands.                             *)
ScoredAs(r, a) ==
  /\ DOMAIN r = Fields /\ r.freshness = Freshness(a) /\ r.currentBest = CurrentBest(a)
  /\ Freshness(a) # "missing" =>
       /\ r.level = Level(a) /\ r.label \in {"true", "false"}
       /\ r.score = HybridScore(a).rounded /\ r.risk = RiskScore(a)
       /\ r.urgency = Urgency(a) /\ r.anomaly = a.ensemble
RankedAs(s) == Included(s) => row[s].rank = 1 + Cardinality(Above(s))
ScoringInv ==
  /\ answer \in [Substations -> Answers]
  /\ stage \in {"asked", "scored", "ranked", "consumed"}
  /\ stage # "asked" => \A s \in Substations : ScoredAs(row[s], answer[s])
  /\ stage \in {"ranked", "consumed"} => \A s \in Substations : RankedAs(s)
  /\ stage = "consumed" => \A s \in Substations : taken[s] = Taken(s)
LEMMA RowKept ==
  ASSUME row' = row, NEW s \in Substations
  PROVE  Taken(s)' = Taken(s) /\ RankedAs(s)' = RankedAs(s)
  <1>1. Taken(s)' = Taken(s)
    BY SMT DEF Taken, Severity, IsPreventive
  <1>2. \A t \in Substations : Included(t)' = Included(t) /\ Before(t, s)' = Before(t, s)
    BY Zenon DEF Included, Before, SortKey
  <1>3. Above(s)' = Above(s)
    BY <1>2 DEF Above
  <1>4. RankedAs(s)' = RankedAs(s)
    BY <1>3 DEF RankedAs, Included
  <1>5. QED
    BY <1>1, <1>4

(* The inductive invariant holds in every state (infer_batch,              *)
(* assign_priority_ranks, _consume_result).                                *)
THEOREM ScoringInvariance == ScoringSpec => []ScoringInv
  <1>1. ScoringInit => ScoringInv
    BY SMT DEF ScoringInit, ScoringInv
  <1>2. ScoringInv /\ [ScoringNext]_scoringVars => ScoringInv'
    <2>1. SUFFICES ASSUME ScoringInv, [ScoringNext]_scoringVars PROVE ScoringInv'
      OBVIOUS
    <2>2. CASE Infer
      <3>1. ASSUME NEW s \in Substations PROVE ScoredAs(row'[s], answer[s])
        <4>1. row'[s] = IF Freshness(answer[s]) = "missing" THEN Result(answer[s])
                        ELSE ModelResult(answer[s])
          BY <2>2, SMT DEF Infer
        <4>2. PICK a : a = answer[s]
          OBVIOUS
        <4>3. CASE Freshness(a) = "missing"
          BY <4>1, <4>2, <4>3, ResultIs, SMT DEF ScoredAs
        <4>4. CASE Freshness(a) # "missing"
          <5>1. row'[s] = ModelResult(a)
            BY <4>1, <4>2, <4>4, SMT
          <5>2. QED
            BY <4>2, <5>1, ModelResultIs, Zenon DEF ScoredAs
        <4>5. QED
          BY <4>3, <4>4
      <3>2. stage' = "scored" /\ answer' = answer
        BY <2>2, SMT DEF Infer
      <3>3. QED
        BY <2>1, <3>1, <3>2, SMT DEF ScoringInv
    <2>3. CASE Rank
      <3> DEFINE x(s) == IF Included(s) THEN 1 + Cardinality({t \in Substations :
                                                               Included(t) /\ Before(t, s)})
                         ELSE 0
      <3>1. \A s \in Substations : row'[s] = [row[s] EXCEPT !.rank = x(s)]
        BY <2>3, SMT DEF Rank
      <3>2. \A s \in Substations : Included(s) => x(s) = 1 + Cardinality(Above(s))
        BY Zenon DEF Above
      <3>3. stage = "scored" /\ stage' = "ranked" /\ answer' = answer
        BY <2>3, SMT DEF Rank
      <3> HIDE DEF x
      <3>4. ASSUME NEW s \in Substations
            PROVE  /\ ScoredAs(row'[s], answer[s]) /\ row'[s].rank = x(s)
                   /\ row'[s].freshness = row[s].freshness /\ row'[s].score = row[s].score
                   /\ row'[s].risk = row[s].risk /\ row'[s].urgency = row[s].urgency
                   /\ row'[s].anomaly = row[s].anomaly
        <4>1. ScoredAs(row[s], answer[s])
          BY <2>1, <3>3, SMT DEF ScoringInv
        <4>2. DOMAIN row[s] = Fields
          BY <4>1 DEF ScoredAs
        <4>3. PICK r : r = row[s] /\ DOMAIN r = Fields /\ row'[s] = [r EXCEPT !.rank = x(s)]
          BY <3>1, <4>2
        <4>4. /\ DOMAIN row'[s] = Fields /\ row'[s].freshness = r.freshness
              /\ row'[s].level = r.level /\ row'[s].label = r.label
              /\ row'[s].score = r.score /\ row'[s].risk = r.risk
              /\ row'[s].urgency = r.urgency /\ row'[s].anomaly = r.anomaly
              /\ row'[s].currentBest = r.currentBest /\ row'[s].rank = x(s)
          BY <4>3, RankedIs, SMT
        <4>5. QED
          BY <4>1, <4>3, <4>4, Zenon DEF ScoredAs
      <3>5. \A s \in Substations : Included(s)' = Included(s) /\ SortKey(s)' = SortKey(s)
        BY <3>4, SMT DEF Included, SortKey
      <3>6. \A s, t \in Substations : Before(s, t)' = Before(s, t)
        BY <3>5 DEF Before
      <3>7. \A s \in Substations : Above(s)' = Above(s)
        BY <3>5, <3>6 DEF Above
      <3>8. \A s \in Substations : RankedAs(s)'
        BY <3>2, <3>4, <3>5, <3>7 DEF RankedAs
      <3>9. QED
        BY <2>1, <3>3, <3>4, <3>8, SMT DEF ScoringInv
    <2>4. CASE Consume
      <3>1. /\ stage = "ranked" /\ stage' = "consumed" /\ UNCHANGED <<answer, row>>
            /\ \A s \in Substations : taken'[s] = Taken(s)
        BY <2>4, SMT DEF Consume
      <3>2. \A s \in Substations : Taken(s)' = Taken(s) /\ RankedAs(s)' = RankedAs(s)
        BY <3>1, RowKept
      <3>3. QED
        BY <2>1, <3>1, <3>2, SMT DEF ScoringInv
    <2>5. CASE UNCHANGED scoringVars
      <3>1. UNCHANGED <<answer, stage, row, taken>>
        BY <2>5, SMT DEF scoringVars
      <3>2. \A s \in Substations : Taken(s)' = Taken(s) /\ RankedAs(s)' = RankedAs(s)
        BY <3>1, RowKept
      <3>3. QED
        BY <2>1, <3>1, <3>2, SMT DEF ScoringInv
    <2>6. QED
      BY <2>1, <2>2, <2>3, <2>4, <2>5, SMT DEF ScoringNext
  <1>3. QED
    BY <1>1, <1>2, PTL DEF ScoringSpec

(* For every answer the models can give, to the millionth: a substation is *)
(* an alert exactly if its window is fresh and the gate is passed, urgent  *)
(* exactly by the higher thresholds, and no alert is lost or weakened when *)
(* the evaluation is consumed (_score_hybrid, _consume_result).            *)
THEOREM GateSafety == ScoringSpec => []AlertsFollowTheGate
  <1>1. ASSUME ScoringInv PROVE AlertsFollowTheGate
    <2>1. SUFFICES ASSUME stage = "consumed", NEW s \in Substations
                   PROVE  LET a == answer[s]
                              fresh == a.windowed /\ Usable(a) /\ a.age <= StaleAfter
                          IN  /\ s \in Alerts <=> fresh /\ Passes(a, 780000, 990000)
                              /\ fresh => (row[s].level = "urgent" <=> Passes(a, 920000, 998000))
                              /\ s \in Alerts =>
                                   \/ taken[s].kind = "normal" /\ taken[s].preventive
                                   \/ /\ taken[s].kind = "anomaly"
                                      /\ Passes(a, 920000, 998000) =>
                                           taken[s].severity = "critical"
      BY SMT DEF AlertsFollowTheGate, Passes
    <2>2. PICK a : a = answer[s] /\ a \in AnswerType /\ a.age \in Nat
      <3>1. answer[s] \in AnswerType
        BY <1>1, ScoringAssumption, SMT DEF ScoringInv
      <3>2. answer[s].age \in Nat
        BY <3>1, SMT DEF AnswerType, Evidence
      <3>3. QED
        BY <3>1, <3>2, SMT
    <2>3. ScoredAs(row[s], a) /\ taken[s] = Taken(s)
      BY <1>1, <2>1, <2>2, SMT DEF ScoringInv
    <2>4. Freshness(a) = "fresh" <=> a.windowed /\ Usable(a) /\ a.age <= StaleAfter
      BY <2>2, ScoringAssumption, SMT DEF Freshness
    <2>5. /\ Level(a) = "urgent" <=> Passes(a, 920000, 998000)
          /\ Level(a) \in {"high", "urgent"} <=> Passes(a, 780000, 990000)
      BY <2>2, GateOf, SMT
    <2>6. Freshness(a) = "fresh" => row[s].level = Level(a) /\ row[s].label \in {"true", "false"}
      BY <2>3, SMT DEF ScoredAs
    <2>7. s \in Alerts <=> Freshness(a) = "fresh" /\ Level(a) \in {"high", "urgent"}
      BY <2>3, <2>6, SMT DEF Alerts, Included, ScoredAs
    <2>8. s \in Alerts =>
            \/ taken[s].kind = "normal" /\ taken[s].preventive
            \/ /\ taken[s].kind = "anomaly"
               /\ Level(a) = "urgent" => taken[s].severity = "critical"
      <3>1. SUFFICES ASSUME s \in Alerts
                     PROVE  \/ taken[s].kind = "normal" /\ taken[s].preventive
                            \/ /\ taken[s].kind = "anomaly"
                               /\ Level(a) = "urgent" => taken[s].severity = "critical"
        OBVIOUS
      <3>2. /\ row[s].freshness = "fresh" /\ row[s].label \in {"true", "false"}
            /\ row[s].level = Level(a) /\ Level(a) \in {"high", "urgent"}
        BY <2>3, <2>6, <2>7, <3>1, SMT DEF ScoredAs
      <3>3. CASE row[s].label = "false"
        <4>1. taken[s] = [kind |-> "normal", severity |-> "none", preventive |-> IsPreventive(s)]
          BY <2>3, <3>2, <3>3, SMT DEF Taken
        <4>2. IsPreventive(s)
          BY <3>2, SMT DEF IsPreventive
        <4>3. taken[s].kind = "normal" /\ taken[s].preventive = IsPreventive(s)
          BY <4>1, SMT
        <4>4. QED
          BY <4>2, <4>3, Zenon
      <3>4. CASE row[s].label = "true"
        <4>1. taken[s] = [kind |-> "anomaly", severity |-> Severity(s), preventive |-> FALSE]
          BY <2>3, <3>2, <3>4, SMT DEF Taken
        <4>2. QED
          BY <3>2, <4>1, SMT DEF Severity
      <3>5. QED
        BY <3>2, <3>3, <3>4, SMT
    <2>9. QED
      BY <2>2, <2>4, <2>5, <2>6, <2>7, <2>8, SMT
  <1>2. QED
    BY <1>1, ScoringInvariance, PTL

(* The included are ranked 1, 2, 3 ... without a gap or a tie; evidence    *)
(* that is at least as strong in every respect never ranks lower, unless   *)
(* all four keys are equal, and never has fewer points in the earlier      *)
(* policy - for every answer the models can give, to the millionth         *)
(* (priority_sort_key, _band_evidence_score, _score_current_best).         *)
THEOREM RankSafety == ScoringSpec => []RankedByEvidence
  <1>1. ASSUME ScoringInv PROVE RankedByEvidence
    <2>1. SUFFICES ASSUME stage = "ranked" PROVE RankedByEvidence
      BY DEF RankedByEvidence
    <2>2. ASSUME NEW s \in Substations
          PROVE  /\ answer[s] \in AnswerType /\ ScoredAs(row[s], answer[s])
                 /\ RankedAs(s) /\ row[s].currentBest = CurrentBest(answer[s])
      <3>1. answer[s] \in AnswerType
        BY <1>1, ScoringAssumption, SMT DEF ScoringInv
      <3>2. ScoredAs(row[s], answer[s]) /\ RankedAs(s)
        BY <1>1, <2>1, SMT DEF ScoringInv
      <3>3. QED
        BY <3>1, <3>2 DEF ScoredAs
    <2>3. ASSUME NEW s \in Counted
          PROVE  /\ row[s].score = HybridScore(answer[s]).rounded
                 /\ row[s].risk = RiskScore(answer[s]) /\ row[s].urgency = Urgency(answer[s])
                 /\ row[s].anomaly = answer[s].ensemble /\ s \in Substations /\ Included(s)
      <3>1. s \in Substations /\ Included(s)
        BY SMT DEF Counted
      <3>2. Freshness(answer[s]) = "fresh"
        BY <2>2, <3>1, SMT DEF Included, ScoredAs
      <3>3. QED
        BY <2>2, <3>1, <3>2, SMT DEF ScoredAs
    <2>4. ASSUME NEW s \in Counted PROVE Sortable(s)
      <3>1. answer[s] \in AnswerType
        BY <2>2, <2>3
      <3>2. HybridScore(answer[s]).rounded \in Int
        <4>1. /\ RiskScore(answer[s]) >= RiskScore(answer[s])
              /\ PreEvent(answer[s]) >= PreEvent(answer[s])
          BY <3>1, RiskIs, PreEventIs, SMT
        <4>2. QED
          BY <3>1, <4>1, HybridGrows
      <3>3. RiskScore(answer[s]) \in Int /\ Urgency(answer[s]) \in Int
            /\ answer[s].ensemble \in Int
        BY <3>1, RiskIs, UrgencyIs, AnswerFields, SMT
      <3>4. QED
        BY <2>3, <3>2, <3>3, SMT DEF Sortable
    <2>5. {row[s].rank : s \in Counted} = 1..Cardinality(Counted)
      <3>1. Sorted
        BY <2>4 DEF Sorted
      <3>2. \A s \in Counted : row[s].rank = 1 + Cardinality(Above(s))
        BY <2>2, <2>3 DEF RankedAs
      <3>3. QED
        BY <3>1, <3>2, RanksAreDense
    <2>6. ASSUME NEW s \in Substations, NEW t \in Substations, s # t,
                 AtLeast(answer[s], answer[t]), Included(s), Included(t)
          PROVE  \/ row[s].rank < row[t].rank
                 \/ /\ row[s].score = row[t].score /\ row[s].risk = row[t].risk
                    /\ row[s].urgency = row[t].urgency /\ row[s].anomaly = row[t].anomaly
      <3>1. s \in Counted /\ t \in Counted /\ s \in Int /\ t \in Int
        BY <2>6, ScoringAssumption, SMT DEF Counted
      <3>2. /\ RiskScore(answer[s]) >= RiskScore(answer[t])
            /\ PreEvent(answer[s]) >= PreEvent(answer[t])
            /\ Urgency(answer[s]) >= Urgency(answer[t])
            /\ answer[s].ensemble >= answer[t].ensemble
        BY <2>6, Zenon DEF AtLeast
      <3>3. HybridScore(answer[s]).rounded >= HybridScore(answer[t]).rounded
        BY <2>2, <3>2, HybridGrows
      <3>4. /\ row[s].score >= row[t].score /\ row[s].risk >= row[t].risk
            /\ row[s].urgency >= row[t].urgency /\ row[s].anomaly >= row[t].anomaly
        BY <2>3, <3>1, <3>2, <3>3
      <3>5. Sortable(s) /\ Sortable(t)
        BY <2>4, <3>1
      <3>6. SUFFICES ASSUME ~(/\ row[s].score = row[t].score /\ row[s].risk = row[t].risk
                              /\ row[s].urgency = row[t].urgency
                              /\ row[s].anomaly = row[t].anomaly)
                     PROVE  row[s].rank < row[t].rank
        OBVIOUS
      <3>7. Before(s, t)
        BY <3>1, <3>4, <3>5, <3>6, OrderIs, SMT DEF Sortable
      <3>8. Cardinality(Above(s)) < Cardinality(Above(t))
        BY <2>4, <3>1, <3>7, AboveGrows DEF Sorted
      <3>9. Cardinality(Above(s)) \in Nat /\ Cardinality(Above(t)) \in Nat
        BY <2>4, <3>1, AboveFinite DEF Sorted
      <3>10. QED
        BY <2>2, <2>6, <3>8, <3>9, SMT DEF RankedAs
    <2>7. ASSUME NEW s \in Substations, NEW t \in Substations,
                 AtLeast(answer[s], answer[t]), HistoryPoints(answer[s]) = 0
          PROVE  row[s].currentBest >= row[t].currentBest
      BY <2>2, <2>7, CurrentBestGrows
    <2>8. QED
      BY <2>1, <2>5, <2>6, <2>7, Zenon DEF RankedByEvidence, Counted
  <1>2. QED
    BY <1>1, ScoringInvariance, PTL
=============================================================================
