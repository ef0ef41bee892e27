---------------------------- MODULE OperationsPolicy --------------------------
(***************************************************************************)
(* The operations policy: one row of values with a version, and the shifts *)
(* in a table of their own.  A reader takes two statements, each with a    *)
(* snapshot of its own (READ COMMITTED), so an update may commit between   *)
(* them.  The form is then sent back with the version that was read.       *)
(***************************************************************************)
EXTENDS Naturals, Sequences

CONSTANTS
  Administrators,  \* administrators with a policy form open
  MaxPolicies      \* bound: versions of the policy

ASSUME PoliciesAssumption == MaxPolicies \in Nat \ {0}

VARIABLES
  updates,  \* for each accepted update what its form showed: [values, shifts]
  form      \* form[c]: an administrator's form

policyVars == <<updates, form>>

(* The version of the values and of the shifts is the number of updates;   *)
(* an update replaces both in one transaction.                             *)
PolicyVersion == 1 + Len(updates)

Closed == [step |-> "idle"]
PolicyInit == updates = <<>> /\ form = [c \in Administrators |-> Closed]

FormAt(c, step) == form[c].step = step
(* Seeded fault: the shifts are read before the version.                   *)
ShiftsFirst == [step |-> "half", shifts |-> PolicyVersion]
(* _get_policy reads the values and their version ...                      *)
ValuesFirst == [step |-> "half", values |-> PolicyVersion]

ReadHalf(c) ==
  /\ FormAt(c, "idle")
  /\ form' = [form EXCEPT ![c] = ValuesFirst]
  /\ UNCHANGED updates

(* ... and then the other half.                                            *)
ReadRest(c) ==
  /\ FormAt(c, "half")
  /\ form' = [form EXCEPT ![c] =
       [step |-> "form",
        values |-> IF "values" \in DOMAIN @ THEN @.values ELSE PolicyVersion,
        shifts |-> IF "shifts" \in DOMAIN @ THEN @.shifts ELSE PolicyVersion]]
  /\ UNCHANGED updates

ExpectedVersion(c) == form[c].values = PolicyVersion

(* update_policy: a stale version is a conflict; the shifts are replaced   *)
(* behind the lock of the policy's row.                                    *)
UpdatePolicy(c) ==
  /\ FormAt(c, "form") /\ PolicyVersion < MaxPolicies
  /\ updates' = IF ExpectedVersion(c)
                THEN Append(updates, [values |-> form[c].values, shifts |-> form[c].shifts])
                ELSE updates
  /\ form' = [form EXCEPT ![c] = Closed]

(* The policy as a log: the version each update is based on.               *)
PolicyLog == [i \in DOMAIN updates |-> updates[i].values - 1]

PolicyNext == \E c \in Administrators : ReadHalf(c) \/ ReadRest(c) \/ UpdatePolicy(c)

PolicySpec == PolicyInit /\ [][PolicyNext]_policyVars
-----------------------------------------------------------------------------
PolicyTypeOK ==
  /\ PolicyVersion <= MaxPolicies
  /\ \A c \in Administrators : form[c].step \in {"idle", "half", "form"}

(* An update that is accepted was made on a form that showed the values    *)
(* and the shifts it replaces: no other administrator's update of either   *)
(* is lost, although the form may have been read across one.               *)
NoUpdateIsLost ==
  \A i \in DOMAIN updates : updates[i] = [values |-> i, shifts |-> i]
=============================================================================
