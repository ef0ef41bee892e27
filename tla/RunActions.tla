------------------------------ MODULE RunActions ------------------------------
(***************************************************************************)
(* The daily report of a completed run (_create_daily_report_artifact).  A *)
(* request looks for the artifact, claims the action in agent_run_actions, *)
(* generates the report with the model, stores it and completes the        *)
(* action.  A request that may not claim waits for the artifact of the one *)
(* that did.  A claim can be taken over if it has failed or has not been   *)
(* touched for ten minutes, whatever became of it.                         *)
(***************************************************************************)
EXTENDS Integers, FiniteSets

CONSTANTS
  Askers,         \* requests for the report that may be served at once
  MaxGenerations, \* bound: reports generated
  MaxStale        \* bound: claims that grow older than ten minutes

ASSUME ActionsAssumption ==
  IsFiniteSet(Askers) /\ MaxGenerations \in Nat /\ MaxStale \in Nat

VARIABLES
  action,     \* agent_run_actions of the run: its status, "none" without a row
  touched,    \* its updated_at: "fresh", or "aged" (over ten minutes)
  stored,     \* the row (run_id, 'daily_report.json') exists
  generated,  \* history: reports stored
  stale,      \* history: claims that have grown old
  asker       \* asker[c]: where the request is

actionVars == <<action, touched, stored, generated, stale, asker>>

ActionInit ==
  /\ action = "none" /\ touched = "fresh" /\ stored = FALSE
  /\ generated = 0 /\ stale = 0
  /\ asker = [c \in Askers |-> "idle"]

Moves(c, from, to) == asker[c] = from /\ asker' = [asker EXCEPT ![c] = to]
-----------------------------------------------------------------------------
(* A stored report is reused.                                              *)
LookForReport(c) ==
  /\ ~stored
  /\ Moves(c, "idle", "claim")
  /\ UNCHANGED <<action, touched, stored, generated, stale>>

(* Seeded fault: a completed action can be claimed.                        *)
ClaimableWhenDone == action \in {"none", "failed", "completed"} \/ touched = "aged"
Claimable == action \in {"none", "failed"} \/ touched = "aged"

(* claim_agent_run_action                                                  *)
ClaimAction(c) ==
  /\ Claimable
  /\ Moves(c, "claim", "generate")
  /\ action' = "running" /\ touched' = "fresh"
  /\ UNCHANGED <<stored, generated, stale>>

WaitForReport(c) ==
  /\ ~Claimable
  /\ Moves(c, "claim", "wait")
  /\ UNCHANGED <<action, touched, stored, generated, stale>>

(* The artifact appears, or the five seconds are over.                     *)
EndWait(c) ==
  /\ Moves(c, "wait", "idle")
  /\ UNCHANGED <<action, touched, stored, generated, stale>>

(* insert_agent_run_artifact replaces the artifact of the same name.       *)
StoreArtifact(c) ==
  /\ generated < MaxGenerations
  /\ Moves(c, "generate", "complete")
  /\ stored' = TRUE /\ generated' = generated + 1
  /\ UNCHANGED <<action, touched, stale>>

(* complete_agent_run_action and fail_agent_run_action do not look at the  *)
(* status, nor at whose claim it is.                                       *)
CompleteAction(c) ==
  /\ Moves(c, "complete", "idle")
  /\ action' = "completed" /\ touched' = "fresh"
  /\ UNCHANGED <<stored, generated, stale>>

FailAction(c) ==
  /\ Moves(c, "generate", "idle")
  /\ action' = "failed" /\ touched' = "fresh"
  /\ UNCHANGED <<stored, generated, stale>>

(* A crash, a cancelled request or an error the code does not catch.       *)
RequestVanishes(c) ==
  /\ asker[c] # "idle"
  /\ Moves(c, asker[c], "idle")
  /\ UNCHANGED <<action, touched, stored, generated, stale>>

TenMinutes ==
  /\ action # "none" /\ touched = "fresh" /\ stale < MaxStale
  /\ touched' = "aged" /\ stale' = stale + 1
  /\ UNCHANGED <<action, stored, generated, asker>>

ActionNext ==
  \/ TenMinutes
  \/ \E c \in Askers :
       \/ LookForReport(c) \/ ClaimAction(c) \/ WaitForReport(c) \/ EndWait(c)
       \/ StoreArtifact(c) \/ CompleteAction(c) \/ FailAction(c) \/ RequestVanishes(c)

ActionSpec == ActionInit /\ [][ActionNext]_actionVars
-----------------------------------------------------------------------------
ActionTypeOK ==
  /\ action \in {"none", "running", "completed", "failed"}
  /\ touched \in {"fresh", "aged"} /\ stored \in BOOLEAN
  /\ generated \in 0..MaxGenerations /\ stale \in 0..MaxStale
  /\ asker \in [Askers -> {"idle", "claim", "generate", "complete", "wait"}]

(* Each generation of the report beyond the first costs a claim that grew  *)
(* old: a request that looked before the report was there and claims after *)
(* it was done, a crash and a failure do not pay the model twice.          *)
GeneratedOncePerClaim == generated <= 1 + stale
=============================================================================
