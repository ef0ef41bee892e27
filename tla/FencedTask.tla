----------------------------- MODULE FencedTask -----------------------------
(***************************************************************************)
(* What the task table promises to whoever executes an agent run: work on  *)
(* a task is handed out under numbered grants, at most MaxAttempts of      *)
(* them; a newer grant supersedes an older one; only the holder of the     *)
(* current grant can give it back or finish the task; finishing happens at *)
(* most once, charges the token budget in the same step, and is final.     *)
(*                                                                         *)
(* AgentRuns.tla is shown to implement this specification.                 *)
(***************************************************************************)
EXTENDS Integers

CONSTANTS Tasks,        \* the tasks, one per agent run
          MaxAttempts   \* grants a task can be given in its life

VARIABLES
  grants,    \* grants[t]: how many grants task t has been given
  holder,    \* holder[t]: the current grant of t, 0 when nobody holds one
  finished,  \* the tasks that have been completed
  charged    \* the tasks whose budget has been settled

vars == <<grants, holder, finished, charged>>

Init ==
  /\ finished \in SUBSET Tasks
  /\ charged = finished
  /\ grants = [t \in Tasks |-> IF t \in finished THEN 1 ELSE 0]
  /\ holder = [t \in Tasks |-> 0]

(* A worker takes the task, superseding whoever held it before.            *)
Grant(t) ==
  /\ t \notin finished
  /\ grants[t] < MaxAttempts
  /\ grants' = [grants EXCEPT ![t] = @ + 1]
  /\ holder' = [holder EXCEPT ![t] = grants[t] + 1]
  /\ UNCHANGED <<finished, charged>>

(* The holder gives the task back unfinished.                              *)
GiveBack(t) ==
  /\ holder[t] # 0
  /\ holder' = [holder EXCEPT ![t] = 0]
  /\ UNCHANGED <<grants, finished, charged>>

(* The holder finishes the task: one step with its budget.                 *)
Finish(t) ==
  /\ holder[t] # 0
  /\ t \notin finished
  /\ holder' = [holder EXCEPT ![t] = 0]
  /\ finished' = finished \cup {t}
  /\ charged' = charged \cup {t}
  /\ UNCHANGED grants

Next == \E t \in Tasks : Grant(t) \/ GiveBack(t) \/ Finish(t)

Spec == Init /\ [][Next]_vars
=============================================================================
