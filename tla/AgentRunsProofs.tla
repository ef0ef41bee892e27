-------------------------- MODULE AgentRunsProofs ---------------------------
(***************************************************************************)
(* Proofs about AgentRuns, for every number of servers, runs, attempts and *)
(* faults.                                                                 *)
(***************************************************************************)
EXTENDS AgentRuns, TLAPS

USE CountAssumption, AttemptAssumption, TermAssumption

(* What updating one coroutine of one server does to the others.           *)
LEMMA NestedUpdate ==
  ASSUME NEW S, NEW R, NEW V, NEW f \in [S -> [R -> V]], NEW s \in S, NEW r \in R, NEW x,
         NEW t \in S, NEW q \in R
  PROVE  [f EXCEPT ![s][r] = x][t][q] = IF t = s /\ q = r THEN x ELSE f[t][q]
  OBVIOUS

(* Every step the graph can be entered at lies inside the runner's try.    *)
LEMMA FirstStepType ==
  ASSUME TypeOK, NEW s \in Servers, NEW r \in Runs
  PROVE  FirstStep(s, r) \in Holding
  BY DEF TypeOK, FirstStep, Holding, InGraph

(* A child's row is well formed if its parent is above the depth limit.    *)
LEMMA ChildOfType ==
  ASSUME TypeOK, NEW p \in Runs \cup {NoRun}, NEW r \in Runs, NEW a \in Alerts \cup {NoAlert},
         NEW key \in {"v1", "v2"}, p # NoRun => lineage[p].depth < DepthLimit
  PROVE  ChildOf(p, r, a, key) \in Lineages
  <1>1. CASE p = NoRun
    BY <1>1 DEF ChildOf, Lineages, NoRun, Runs, DepthLimit
  <1>2. CASE p # NoRun
    <2>1. /\ lineage[p].root \in 0..MaxRuns
          /\ lineage[p].depth + 1 \in 0..DepthLimit
          /\ p \in 0..MaxRuns
      <3>1. p \in Runs /\ lineage[p] \in Lineages
        BY <1>2 DEF TypeOK
      <3>2. lineage[p].root \in 0..MaxRuns /\ lineage[p].depth \in 0..DepthLimit
        BY <3>1 DEF Lineages
      <3> QED
        BY <1>2, <3>1, <3>2 DEF Runs, DepthLimit
    <2> QED
      BY <1>2, <2>1 DEF ChildOf, Lineages
  <1> QED
    BY <1>1, <1>2

(* TypeOK is inductive.                                                    *)
LEMMA TypeInit == Init => TypeOK
  <1> SUFFICES ASSUME Init PROVE TypeOK
    OBVIOUS
  <1>1. lineage \in [Runs -> Lineages]
    <2>1. PICK l \in [1..Legacy -> LegacyRows] :
             lineage = [r \in Runs |-> IF r \in 1..Legacy THEN l[r] ELSE NoLineage]
      BY DEF Init
    <2>2. NoLineage \in Lineages
      BY DEF NoLineage, Lineages, NoRun, DepthLimit
    <2>3. LegacyRows \subseteq Lineages
      <3>1. 0..Legacy \subseteq 0..MaxRuns /\ 1..Legacy \subseteq 0..MaxRuns
        OBVIOUS
      <3> QED
        BY <3>1 DEF LegacyRows, Lineages
    <2> QED
      BY <2>1, <2>2, <2>3
  <1> QED
    BY <1>1 DEF Init, TypeOK, Runs, Statuses, Active, Steps, Graphs

LEMMA TypeStep == TypeOK /\ [Next]_vars => TypeOK'
  <1> SUFFICES ASSUME TypeOK, [Next]_vars PROVE TypeOK'
    OBVIOUS
  <1> USE DEF runVars, taskVars, coVars, hostVars, Statuses, Active, Graphs
  <1>1. ASSUME NEW s \in Servers, NEW a \in Alerts, NEW force \in BOOLEAN, ReuseRun(s, a, force)
        PROVE  TypeOK'
    BY <1>1 DEF TypeOK, ReuseRun, ExpiredStatus, ExpiredAge, Reusable, OfAlert
  <1>2. ASSUME NEW s \in Servers, NEW a \in Alerts, NEW force \in BOOLEAN, ReserveRun(s, a, force)
        PROVE  TypeOK'
    <2>1. PICK r \in Runs, p \in {NoRun} \cup Reusable(a) :
             /\ p # NoRun => lineage[p].depth < DepthLimit
             /\ lineage' = [lineage EXCEPT ![r] = ChildOf(p, r, a, "v1")]
             /\ status' = [ExpiredStatus(OfAlert(a)) EXCEPT ![r] = "queued"]
             /\ age' = ExpiredAge(OfAlert(a))
             /\ requested' = [requested EXCEPT ![s] = @ \cup {<<r, "plain">>}]
      <3>1. \A n \in Reusable(a) : lineage[n].depth \in 0..DepthLimit
        BY DEF TypeOK, Reusable, OfAlert, Lineages
      <3> QED
        <4>1. PICK r \in Runs, p \in {NoRun} \cup Reusable(a) :
                 /\ IF Reusable(a) = {} THEN p = NoRun
                    ELSE \E n \in Reusable(a) : p = ParentFor(n)
                 /\ lineage' = [lineage EXCEPT ![r] = ChildOf(p, r, a, "v1")]
                 /\ status' = [ExpiredStatus(OfAlert(a)) EXCEPT ![r] = "queued"]
                 /\ age' = ExpiredAge(OfAlert(a))
                 /\ requested' = [requested EXCEPT ![s] = @ \cup {<<r, "plain">>}]
          BY <1>2 DEF ReserveRun
        <4>2. p # NoRun => lineage[p].depth < DepthLimit
          BY <3>1, <4>1 DEF ParentFor, DepthLimit
        <4> QED
          BY <4>1, <4>2
    <2>2. ChildOf(p, r, a, "v1") \in Lineages
      BY <2>1, ChildOfType DEF Reusable, OfAlert
    <2>3. /\ ExpiredStatus(OfAlert(a)) \in [Runs -> Statuses]
          /\ age' \in [Runs -> 0..StaleAfter]
      BY <2>1 DEF TypeOK, ExpiredStatus, ExpiredAge
    <2>4. requested' \in [Servers -> SUBSET (Runs \X Graphs)]
      <3>1. <<r, "plain">> \in Runs \X Graphs
        OBVIOUS
      <3> QED
        BY <2>1, <3>1 DEF TypeOK
    <2>5. lineage' \in [Runs -> Lineages] /\ status' \in [Runs -> Statuses]
      BY <2>1, <2>2, <2>3 DEF TypeOK
    <2> QED
      BY <1>2, <2>3, <2>4, <2>5 DEF TypeOK, ReserveRun
  <1>3. ASSUME NEW s \in Servers, NEW r \in Runs, ReviewRun(s, r)
        PROVE  TypeOK'
    BY <1>3 DEF TypeOK, ReviewRun, Reviewed
  <1>4. ASSUME NEW s \in Servers, NEW p \in Runs, CreateTargetedChild(s, p)
        PROVE  TypeOK'
    <2>1. PICK r \in Runs :
             /\ lineage' = [lineage EXCEPT ![r] = ChildOf(p, r, lineage[p].alert, "v2")]
             /\ status' = [status EXCEPT ![r] = "queued"]
             /\ task' = [task EXCEPT ![r] = "queued"]
             /\ requested' = [requested EXCEPT ![s] = @ \cup {<<r, "v2">>}]
      BY <1>4 DEF CreateTargetedChild
    <2>2. ChildOf(p, r, lineage[p].alert, "v2") \in Lineages
      <3>1. lineage[p].alert \in Alerts \cup {NoAlert} /\ lineage[p].depth < DepthLimit
        BY <1>4 DEF TypeOK, Lineages, CreateTargetedChild
      <3> QED
        BY <3>1, ChildOfType
    <2>3. requested' \in [Servers -> SUBSET (Runs \X Graphs)]
      <3>1. <<r, "v2">> \in Runs \X Graphs
        OBVIOUS
      <3> QED
        BY <2>1, <3>1 DEF TypeOK
    <2>4. /\ lineage' \in [Runs -> Lineages]
          /\ status' \in [Runs -> Statuses]
          /\ task' \in [Runs -> {"none", "queued", "running", "completed", "failed"}]
      BY <2>1, <2>2 DEF TypeOK
    <2>5. age' \in [Runs -> 0..StaleAfter] /\ reviews' \in 0..MaxReviews
      BY <1>4 DEF TypeOK, CreateTargetedChild, Reviewed
    <2> QED
      BY <1>4, <2>3, <2>4, <2>5 DEF TypeOK, CreateTargetedChild
  <1>5. ASSUME NEW s \in Servers, NEW r \in Runs, NEW g \in Graphs, Schedule(s, r, g)
        PROVE  TypeOK'
    <2>1. requested' \in [Servers -> SUBSET (Runs \X Graphs)]
      BY <1>5 DEF TypeOK, Schedule
    <2>2. pc' \in [Servers -> [Runs -> Steps]] /\ graph' \in [Servers -> [Runs -> Graphs]]
      <3>1. CASE pc[s][r] = "idle"
        <4>1. /\ pc' = [pc EXCEPT ![s][r] = "waiting"]
              /\ graph' = [graph EXCEPT ![s][r] = g]
          BY <1>5, <3>1 DEF Schedule
        <4>2. pc' \in [Servers -> [Runs -> Steps]]
          BY <4>1 DEF TypeOK, Steps
        <4>3. graph' \in [Servers -> [Runs -> Graphs]]
          BY <4>1 DEF TypeOK
        <4> QED
          BY <4>2, <4>3
      <3>2. CASE pc[s][r] # "idle"
        BY <1>5, <3>2 DEF TypeOK, Schedule
      <3> QED
        BY <3>1, <3>2
    <2> QED
      BY <1>5, <2>1, <2>2 DEF TypeOK, Schedule
  <1>6. ASSUME NEW s \in Servers, NEW r \in Runs, CancelRun(s, r)
        PROVE  TypeOK'
    BY <1>6 DEF TypeOK, CancelRun
  <1>7. ASSUME NEW s \in Servers, NEW r \in Runs, CancelCoroutine(s, r)
        PROVE  TypeOK'
    BY <1>7 DEF TypeOK, CancelCoroutine, Stop, Steps
  <1>8. ASSUME NEW s \in Servers, NEW r \in Runs, ReadRun(s, r)
        PROVE  TypeOK'
    BY <1>8 DEF TypeOK, ReadRun, ExpiredStatus, ExpiredAge
  <1>9. ASSUME NEW s \in Servers, NEW r \in Runs, AcquireSlot(s, r)
        PROVE  TypeOK'
    BY <1>9 DEF TypeOK, AcquireSlot, Goto, Steps
  <1>10. ASSUME NEW s \in Servers, NEW r \in Runs, ClaimTask(s, r)
        PROVE  TypeOK'
    <2>1. FirstStep(s, r) \in Steps
      BY FirstStepType DEF Steps
    <2>2. attempts[r] + 1 \in 0..MaxAttempts
      BY <1>10 DEF TypeOK, ClaimTask, Claimable
    <2> QED
      BY <1>10, <2>1, <2>2 DEF TypeOK, ClaimTask, EnsureLedger, Goto, FreshLeaseOwner
  <1>11. ASSUME NEW s \in Servers, NEW r \in Runs, ClaimRefused(s, r)
        PROVE  TypeOK'
    BY <1>11 DEF TypeOK, ClaimRefused, EnsureLedger, Goto, Steps
  <1>12. ASSUME NEW s \in Servers, NEW r \in Runs, ClaimConflict(s, r)
        PROVE  TypeOK'
    BY <1>12 DEF TypeOK, ClaimConflict, Stop, Steps
  <1>13. ASSUME NEW s \in Servers, NEW r \in Runs, GiveUp(s, r)
        PROVE  TypeOK'
    BY <1>13 DEF TypeOK, GiveUp, Stop, Steps, ExpiredStatus, ExpiredAge
  <1>14. ASSUME NEW s \in Servers, NEW r \in Runs, BeginGraph(s, r)
        PROVE  TypeOK'
    BY <1>14 DEF TypeOK, BeginGraph, Goto, Steps, Holding, InGraph
  <1>15. ASSUME NEW s \in Servers, NEW r \in Runs, MarkRunning(s, r)
        PROVE  TypeOK'
    BY <1>15 DEF TypeOK, MarkRunning, Goto, Steps, Holding, InGraph
  <1>16. ASSUME NEW s \in Servers, NEW r \in Runs, SaveCheckpoint(s, r)
        PROVE  TypeOK'
    BY <1>16 DEF TypeOK, SaveCheckpoint, Goto, Steps, Holding, InGraph
  <1>17. ASSUME NEW s \in Servers, NEW r \in Runs, CompleteRun(s, r)
        PROVE  TypeOK'
    <2>1. pc' \in [Servers -> [Runs -> Steps]]
      <3>1. PICK step \in Steps : pc' = [pc EXCEPT ![s][r] = step]
        BY <1>17 DEF CompleteRun, Goto, Steps, Holding, InGraph
      <3> QED
        BY <3>1 DEF TypeOK
    <2>2. CASE status[r] \in Active
      <3>1. /\ status' \in [Runs -> Statuses]
            /\ output' \subseteq Runs
            /\ age' \in [Runs -> 0..StaleAfter]
        <4>1. /\ status' = [status EXCEPT ![r] = "completed"]
              /\ output' = output \cup {r}
              /\ age' = [age EXCEPT ![r] = 0]
          BY <1>17, <2>2 DEF CompleteRun, StoreResult
        <4> QED
          BY <4>1 DEF TypeOK
      <3> QED
        BY <1>17, <2>1, <3>1 DEF TypeOK, CompleteRun
    <2>3. CASE status[r] \notin Active
      BY <1>17, <2>1, <2>3 DEF TypeOK, CompleteRun
    <2> QED
      BY <2>2, <2>3
  <1>18. ASSUME NEW s \in Servers, NEW r \in Runs, CompleteRunV2(s, r)
        PROVE  TypeOK'
    BY <1>18 DEF TypeOK, CompleteRunV2, StoreResult, Goto, Steps, Holding, InGraph
  <1>19. ASSUME NEW s \in Servers, NEW r \in Runs, Raise(s, r)
        PROVE  TypeOK'
    BY <1>19 DEF TypeOK, Raise, Goto, Steps, Holding
  <1>20. ASSUME NEW s \in Servers, NEW r \in Runs, NEW w \in BOOLEAN, SettleTask(s, r, w)
        PROVE  TypeOK'
    <2>1. /\ pc' \in [Servers -> [Runs -> Steps]]
          /\ token' \in [Servers -> [Runs -> 0..MaxAttempts]]
          /\ graph' \in [Servers -> [Runs -> Graphs]]
      BY <1>20 DEF TypeOK, SettleTask, Stop, Steps
    <2>2. CASE Holds(s, r) /\ ledger[r] = "reserved" /\ w
      <3>1. /\ task' \in [Runs -> {"none", "queued", "running", "completed", "failed"}]
            /\ owner' \in [Runs -> 0..MaxAttempts]
            /\ lease' \in [Runs -> 0..LeaseTerm]
            /\ ledger' \in [Runs -> {"none", "reserved", "settled"}]
        <4>1. /\ task' = [task EXCEPT ![r] = "completed"]
              /\ owner' = [owner EXCEPT ![r] = 0]
              /\ lease' = [lease EXCEPT ![r] = 0]
              /\ ledger' = [ledger EXCEPT ![r] = "settled"]
          BY <1>20, <2>2 DEF SettleTask
        <4> QED
          BY <4>1 DEF TypeOK
      <3> QED
        BY <1>20, <2>1, <3>1 DEF TypeOK, SettleTask
    <2>3. CASE ~(Holds(s, r) /\ ledger[r] = "reserved" /\ w)
      BY <1>20, <2>1, <2>3 DEF TypeOK, SettleTask
    <2> QED
      BY <2>2, <2>3
  <1>21. ASSUME NEW s \in Servers, NEW r \in Runs, ReleaseTask(s, r)
        PROVE  TypeOK'
    <2>1. pc' \in [Servers -> [Runs -> Steps]]
      BY <1>21 DEF TypeOK, ReleaseTask, Goto, Steps
    <2>2. /\ task' \in [Runs -> {"none", "queued", "running", "completed", "failed"}]
          /\ owner' \in [Runs -> 0..MaxAttempts]
          /\ lease' \in [Runs -> 0..LeaseTerm]
      <3>1. CASE Holds(s, r)
        <4>1. PICK step \in {"queued", "failed"} : task' = [task EXCEPT ![r] = step]
          BY <1>21, <3>1 DEF ReleaseTask
        <4>2. owner' = [owner EXCEPT ![r] = 0] /\ lease' = [lease EXCEPT ![r] = 0]
          BY <1>21, <3>1 DEF ReleaseTask
        <4> QED
          BY <4>1, <4>2 DEF TypeOK
      <3>2. CASE ~Holds(s, r)
        BY <1>21, <3>2 DEF TypeOK, ReleaseTask
      <3> QED
        BY <3>1, <3>2
    <2>3. token' \in [Servers -> [Runs -> 0..MaxAttempts]]
      BY <1>21 DEF TypeOK, ReleaseTask
    <2> QED
      BY <1>21, <2>1, <2>2, <2>3 DEF TypeOK, ReleaseTask
  <1>22. ASSUME NEW s \in Servers, NEW r \in Runs, FailRun(s, r)
        PROVE  TypeOK'
    BY <1>22 DEF TypeOK, FailRun, Stop, Steps
  <1>23. ASSUME NEW s \in Servers, NEW r \in Runs, RecordEvent(s, r)
        PROVE  TypeOK'
    BY <1>23 DEF TypeOK, RecordEvent
  <1>24. ASSUME NEW s \in Servers, NEW r \in Runs, CoroutineCrash(s, r)
        PROVE  TypeOK'
    BY <1>24 DEF TypeOK, CoroutineCrash, Stop, Steps
  <1>25. ASSUME NEW s \in Servers, ServerCrash(s)
        PROVE  TypeOK'
    BY <1>25 DEF TypeOK, ServerCrash, Steps
  <1>26. ASSUME NEW s \in Servers, ServerStart(s)
        PROVE  TypeOK'
    BY <1>26 DEF TypeOK, ServerStart, Steps
  <1>27. CASE Tick
    BY <1>27 DEF TypeOK, Tick
  <1>28. CASE UNCHANGED vars
    BY <1>28 DEF TypeOK, vars
  <1> QED
    BY <1>1, <1>2, <1>3, <1>4, <1>5, <1>6, <1>7, <1>8, <1>9, <1>10, <1>11, <1>12,
       <1>13, <1>14, <1>15, <1>16, <1>17, <1>18, <1>19, <1>20, <1>21, <1>22, <1>23, <1>24,
       <1>25, <1>26, <1>27, <1>28 DEF Next, Execute

(* The rows, the registries and the coroutines keep their types, however   *)
(* many servers crash, start and execute the same runs.                    *)
THEOREM TypeCorrect == Spec => []TypeOK
  BY TypeInit, TypeStep, PTL DEF Spec

-----------------------------------------------------------------------------
(* The inductive invariant.                                                *)

(* Nothing is scheduled, executed or recorded for a run without a row.     *)
Started ==
  /\ \A r \in Runs : status[r] = "absent" => task[r] = "none"
  /\ \A s \in Servers, r \in Runs, g \in Graphs :
       <<r, g>> \in requested[s] => status[r] # "absent"
  /\ \A s \in Servers, r \in Runs : pc[s][r] # "idle" => status[r] # "absent"

(* Lease owners are attempt numbers; a coroutine's number is its own, and  *)
(* a task has an owner exactly while it is running.                        *)
Leased ==
  \A r \in Runs :
    /\ owner[r] # 0 <=> task[r] = "running"
    /\ owner[r] <= attempts[r]
    /\ \A s \in Servers : token[s][r] <= attempts[r]
    /\ \A s, t \in Servers : token[s][r] # 0 /\ token[s][r] = token[t][r] => s = t

(* Where a run's result is known to be stored.                             *)
Stored ==
  \A r \in Runs :
    /\ task[r] = "completed" <=> ledger[r] = "settled"
    /\ task[r] = "completed" => r \in output
    /\ checkpoint[r] = "done" => r \in output
    /\ \A s \in Servers : pc[s][r] \in {"stored", "post"} => r \in output

(* Rows are numbered densely, and every lineage is a tree.                 *)
Rooted ==
  /\ \A q, r \in Runs : q < r /\ status[r] # "absent" => status[q] # "absent"
  /\ LineageTree

Inv == TypeOK /\ Started /\ Leased /\ Stored /\ Rooted

(* A step that leaves a group of rows alone.                               *)
KeepsStatus(s, r) ==
  \/ \E g \in Graphs : Schedule(s, r, g)
  \/ ReviewRun(s, r) \/ CancelCoroutine(s, r) \/ AcquireSlot(s, r)
  \/ ClaimTask(s, r) \/ ClaimRefused(s, r) \/ ClaimConflict(s, r)
  \/ BeginGraph(s, r) \/ SaveCheckpoint(s, r) \/ Raise(s, r)
  \/ \E w \in BOOLEAN : SettleTask(s, r, w)
  \/ ReleaseTask(s, r) \/ RecordEvent(s, r) \/ CoroutineCrash(s, r)

LEMMA StatusUnchanged ==
  ASSUME NEW s \in Servers, NEW r \in Runs, KeepsStatus(s, r)
  PROVE  status' = status
  BY DEF KeepsStatus, Schedule, ReviewRun, CancelCoroutine, AcquireSlot, ClaimTask, ClaimRefused,
         ClaimConflict, BeginGraph, SaveCheckpoint, Raise, SettleTask, ReleaseTask, RecordEvent,
         CoroutineCrash, runVars

(* A row, once inserted, stays.                                            *)
LEMMA RowsStay ==
  ASSUME TypeOK, [Next]_vars, NEW q \in Runs, status[q] # "absent"
  PROVE  status'[q] # "absent"
  <1> USE DEF TypeOK
  <1>1. ASSUME NEW s \in Servers, NEW a \in Alerts, NEW force \in BOOLEAN,
               ReuseRun(s, a, force)
        PROVE  status'[q] # "absent"
    BY <1>1 DEF ReuseRun, ExpiredStatus
  <1>2. ASSUME NEW s \in Servers, NEW a \in Alerts, NEW force \in BOOLEAN,
               ReserveRun(s, a, force)
        PROVE  status'[q] # "absent"
    <2>1. PICK r \in Runs : status' = [ExpiredStatus(OfAlert(a)) EXCEPT ![r] = "queued"]
      BY <1>2 DEF ReserveRun
    <2> QED
      BY <2>1 DEF ExpiredStatus
  <1>3. ASSUME NEW s \in Servers, NEW r \in Runs, CreateTargetedChild(s, r)
        PROVE  status'[q] # "absent"
    BY <1>3 DEF CreateTargetedChild
  <1>4. ASSUME NEW s \in Servers, NEW r \in Runs, CancelRun(s, r)
        PROVE  status'[q] # "absent"
    BY <1>4 DEF CancelRun
  <1>5. ASSUME NEW s \in Servers, NEW r \in Runs, ReadRun(s, r) \/ GiveUp(s, r)
        PROVE  status'[q] # "absent"
    BY <1>5 DEF ReadRun, GiveUp, ExpiredStatus
  <1>6. ASSUME NEW s \in Servers, NEW r \in Runs, MarkRunning(s, r) \/ FailRun(s, r)
        PROVE  status'[q] # "absent"
    BY <1>6 DEF MarkRunning, FailRun
  <1>7. ASSUME NEW s \in Servers, NEW r \in Runs, CompleteRun(s, r) \/ CompleteRunV2(s, r)
        PROVE  status'[q] # "absent"
    BY <1>7 DEF CompleteRun, CompleteRunV2, StoreResult
  <1>8. ASSUME NEW s \in Servers, NEW r \in Runs, KeepsStatus(s, r)
        PROVE  status'[q] # "absent"
    BY <1>8, StatusUnchanged
  <1>9. ASSUME NEW s \in Servers, ServerCrash(s) \/ ServerStart(s)
        PROVE  status'[q] # "absent"
    BY <1>9 DEF ServerCrash, ServerStart, runVars
  <1>10. CASE Tick
    BY <1>10 DEF Tick
  <1>11. CASE UNCHANGED vars
    BY <1>11 DEF vars, runVars
  <1> QED
    BY <1>1, <1>2, <1>3, <1>4, <1>5, <1>6, <1>7, <1>8, <1>9, <1>10, <1>11
    DEF Next, Execute, KeepsStatus

(* The steps that write more of a task row than its lease time.            *)
TaskStep(s, r) ==
  \/ CreateTargetedChild(s, r) \/ ClaimTask(s, r) \/ ClaimRefused(s, r)
  \/ \E w \in BOOLEAN : SettleTask(s, r, w)
  \/ ReleaseTask(s, r)

LEMMA TaskUnchanged ==
  ASSUME [Next]_vars, ~\E s \in Servers, r \in Runs : TaskStep(s, r)
  PROVE  UNCHANGED <<task, owner, attempts, ledger>>
  <1> USE DEF taskVars
  <1>1. ASSUME NEW s \in Servers, NEW a \in Alerts, NEW force \in BOOLEAN,
               ReuseRun(s, a, force) \/ ReserveRun(s, a, force)
        PROVE  UNCHANGED <<task, owner, attempts, ledger>>
    BY <1>1 DEF ReuseRun, ReserveRun
  <1>2. ASSUME NEW s \in Servers, NEW r \in Runs,
               \/ \E g \in Graphs : Schedule(s, r, g)
               \/ ReviewRun(s, r) \/ CancelRun(s, r) \/ CancelCoroutine(s, r) \/ ReadRun(s, r)
        PROVE  UNCHANGED <<task, owner, attempts, ledger>>
    BY <1>2 DEF Schedule, ReviewRun, CancelRun, CancelCoroutine, ReadRun
  <1>3. ASSUME NEW s \in Servers, NEW r \in Runs,
               \/ AcquireSlot(s, r) \/ ClaimConflict(s, r) \/ GiveUp(s, r)
               \/ BeginGraph(s, r) \/ MarkRunning(s, r) \/ SaveCheckpoint(s, r)
        PROVE  UNCHANGED <<task, owner, attempts, ledger>>
    BY <1>3 DEF AcquireSlot, ClaimConflict, GiveUp, BeginGraph, MarkRunning, SaveCheckpoint
  <1>4. ASSUME NEW s \in Servers, NEW r \in Runs,
               \/ CompleteRun(s, r) \/ CompleteRunV2(s, r) \/ Raise(s, r) \/ FailRun(s, r)
               \/ RecordEvent(s, r) \/ CoroutineCrash(s, r)
        PROVE  UNCHANGED <<task, owner, attempts, ledger>>
    BY <1>4 DEF CompleteRun, CompleteRunV2, Raise, FailRun, RecordEvent, CoroutineCrash
  <1>5. ASSUME NEW s \in Servers, ServerCrash(s) \/ ServerStart(s)
        PROVE  UNCHANGED <<task, owner, attempts, ledger>>
    BY <1>5 DEF ServerCrash, ServerStart
  <1>6. CASE Tick
    BY <1>6 DEF Tick
  <1>7. CASE UNCHANGED vars
    BY <1>7 DEF vars
  <1> QED
    BY <1>1, <1>2, <1>3, <1>4, <1>5, <1>6, <1>7 DEF Next, Execute, TaskStep

(* A step of, or on, the coroutine of one run.                             *)
CoroutineMoves(s, r) ==
  \/ CancelCoroutine(s, r) \/ AcquireSlot(s, r) \/ Execute(s, r) \/ CoroutineCrash(s, r)

LEMMA OneCoroutineMoves ==
  ASSUME TypeOK, NEW s \in Servers, NEW r \in Runs, CoroutineMoves(s, r)
  PROVE  /\ \E x \in Steps : /\ pc' = [pc EXCEPT ![s][r] = x]
                             /\ pc[s][r] = "idle" => x = "idle"
         /\ UNCHANGED requested
  <1> USE DEF Stop, Goto, Steps, Holding, InGraph, hostVars
  <1>1. CASE CancelCoroutine(s, r) \/ AcquireSlot(s, r) \/ CoroutineCrash(s, r)
    BY <1>1 DEF CancelCoroutine, AcquireSlot, CoroutineCrash
  <1>2. CASE ClaimTask(s, r)
    BY <1>2, FirstStepType DEF ClaimTask
  <1>3. CASE ClaimRefused(s, r) \/ ClaimConflict(s, r) \/ GiveUp(s, r)
    BY <1>3 DEF ClaimRefused, ClaimConflict, GiveUp
  <1>4. CASE BeginGraph(s, r) \/ MarkRunning(s, r) \/ SaveCheckpoint(s, r)
    BY <1>4 DEF BeginGraph, MarkRunning, SaveCheckpoint
  <1>5. CASE CompleteRun(s, r) \/ CompleteRunV2(s, r) \/ Raise(s, r)
    BY <1>5 DEF CompleteRun, CompleteRunV2, Raise
  <1>6. ASSUME NEW w \in BOOLEAN, SettleTask(s, r, w)
        PROVE  /\ pc' = [pc EXCEPT ![s][r] = "idle"]
               /\ UNCHANGED requested
    BY <1>6 DEF SettleTask
  <1>7. CASE ReleaseTask(s, r) \/ FailRun(s, r)
    BY <1>7 DEF ReleaseTask, FailRun
  <1> QED
    BY <1>1, <1>2, <1>3, <1>4, <1>5, <1>6, <1>7 DEF CoroutineMoves, Execute

(* A task row belongs to a run's row.                                      *)
LEMMA TaskOfRow ==
  ASSUME TypeOK, Started, [Next]_vars, NEW q \in Runs, task'[q] # "none"
  PROVE  status'[q] # "absent"
  <1> SUFFICES ASSUME status[q] = "absent" PROVE status'[q] # "absent"
    BY RowsStay
  <1>0. task[q] = "none" /\ \A s \in Servers : pc[s][q] = "idle"
    BY DEF Started
  <1>1. CASE ~\E s \in Servers, r \in Runs : TaskStep(s, r)
    BY <1>0, <1>1, TaskUnchanged
  <1>2. ASSUME NEW s \in Servers, NEW p \in Runs, CreateTargetedChild(s, p)
        PROVE  status'[q] # "absent"
    BY <1>0, <1>2 DEF CreateTargetedChild, TypeOK
  <1>3. ASSUME NEW s \in Servers, NEW r \in Runs, ClaimTask(s, r) \/ ClaimRefused(s, r)
        PROVE  FALSE
    BY <1>0, <1>3 DEF ClaimTask, ClaimRefused, TypeOK
  <1>4. ASSUME NEW s \in Servers, NEW r \in Runs, NEW w \in BOOLEAN, SettleTask(s, r, w)
        PROVE  FALSE
    BY <1>0, <1>4 DEF SettleTask, TypeOK
  <1>5. ASSUME NEW s \in Servers, NEW r \in Runs, ReleaseTask(s, r)
        PROVE  FALSE
    BY <1>0, <1>5 DEF ReleaseTask, TypeOK
  <1> QED
    BY <1>1, <1>2, <1>3, <1>4, <1>5 DEF TaskStep

(* What a route handler is about to schedule has a row.                    *)
LEMMA RequestOfRow ==
  ASSUME TypeOK, Started, [Next]_vars, NEW t \in Servers, NEW q \in Runs, NEW h \in Graphs,
         <<q, h>> \in requested'[t]
  PROVE  status'[q] # "absent"
  <1> SUFFICES ASSUME <<q, h>> \notin requested[t] PROVE status'[q] # "absent"
    BY RowsStay DEF Started
  <1> USE DEF TypeOK
  <1>1. ASSUME NEW s \in Servers, NEW a \in Alerts, NEW force \in BOOLEAN,
               ReuseRun(s, a, force)
        PROVE  status'[q] # "absent"
    <2>1. PICK r \in Reusable(a) : requested' = IF ExpiredStatus(OfAlert(a))[r] = "queued"
                                    THEN [requested EXCEPT ![s] = @ \cup {<<r, "plain">>}]
                                    ELSE requested
      BY <1>1 DEF ReuseRun
    <2>2. q = r
      BY <2>1
    <2>3. ExpiredStatus(OfAlert(a))[q] # "absent"
      BY <2>2 DEF Reusable
    <2> QED
      BY <1>1, <2>3 DEF ReuseRun
  <1>2. ASSUME NEW s \in Servers, NEW a \in Alerts, NEW force \in BOOLEAN,
               ReserveRun(s, a, force)
        PROVE  status'[q] # "absent"
    <2>1. PICK r \in Runs :
             /\ status' = [ExpiredStatus(OfAlert(a)) EXCEPT ![r] = "queued"]
             /\ requested' = [requested EXCEPT ![s] = @ \cup {<<r, "plain">>}]
      BY <1>2 DEF ReserveRun
    <2>2. q = r
      BY <2>1
    <2> QED
      BY <2>1, <2>2 DEF ExpiredStatus
  <1>3. ASSUME NEW s \in Servers, NEW p \in Runs, CreateTargetedChild(s, p)
        PROVE  status'[q] # "absent"
    BY <1>3 DEF CreateTargetedChild
  <1>4. ASSUME NEW s \in Servers, NEW r \in Runs, NEW g \in Graphs, Schedule(s, r, g)
        PROVE  FALSE
    BY <1>4 DEF Schedule
  <1>5. ASSUME NEW s \in Servers, NEW r \in Runs,
               ReviewRun(s, r) \/ CancelRun(s, r) \/ ReadRun(s, r) \/ RecordEvent(s, r)
        PROVE  FALSE
    BY <1>5 DEF ReviewRun, CancelRun, ReadRun, RecordEvent, hostVars
  <1>6. ASSUME NEW s \in Servers, NEW r \in Runs, CoroutineMoves(s, r)
        PROVE  FALSE
    BY <1>6, OneCoroutineMoves
  <1>7. ASSUME NEW s \in Servers, ServerCrash(s) \/ ServerStart(s)
        PROVE  FALSE
    BY <1>7 DEF ServerCrash, ServerStart
  <1>8. CASE Tick
    BY <1>8 DEF Tick, hostVars
  <1>9. CASE UNCHANGED vars
    BY <1>9 DEF vars, hostVars
  <1> QED
    BY <1>1, <1>2, <1>3, <1>4, <1>5, <1>6, <1>7, <1>8, <1>9 DEF Next, CoroutineMoves

(* So has a run in the registry of a server.                               *)
LEMMA CoroutineOfRow ==
  ASSUME TypeOK, Started, [Next]_vars, NEW t \in Servers, NEW q \in Runs, pc'[t][q] # "idle"
  PROVE  status'[q] # "absent"
  <1> SUFFICES ASSUME pc[t][q] = "idle", status[q] = "absent" PROVE FALSE
    BY RowsStay DEF Started
  <1> USE DEF TypeOK
  <1>1. ASSUME NEW s \in Servers, NEW a \in Alerts, NEW force \in BOOLEAN,
               ReuseRun(s, a, force) \/ ReserveRun(s, a, force)
        PROVE  FALSE
    BY <1>1 DEF ReuseRun, ReserveRun, coVars
  <1>2. ASSUME NEW s \in Servers, NEW r \in Runs,
               \/ CreateTargetedChild(s, r) \/ ReviewRun(s, r) \/ CancelRun(s, r)
               \/ ReadRun(s, r) \/ RecordEvent(s, r)
        PROVE  FALSE
    BY <1>2 DEF CreateTargetedChild, ReviewRun, CancelRun, ReadRun, RecordEvent, coVars
  <1>3. ASSUME NEW s \in Servers, NEW r \in Runs, NEW g \in Graphs, Schedule(s, r, g)
        PROVE  FALSE
    <2>1. pc' = [pc EXCEPT ![s][r] = "waiting"] /\ <<r, g>> \in requested[s]
      BY <1>3 DEF Schedule
    <2>2. q = r
      BY <2>1, NestedUpdate
    <2> QED
      BY <2>1, <2>2 DEF Started
  <1>4. ASSUME NEW s \in Servers, NEW r \in Runs, CoroutineMoves(s, r)
        PROVE  FALSE
    <2>1. PICK x \in Steps : /\ pc' = [pc EXCEPT ![s][r] = x]
                             /\ pc[s][r] = "idle" => x = "idle"
      BY <1>4, OneCoroutineMoves
    <2> QED
      BY <2>1, NestedUpdate
  <1>5. ASSUME NEW s \in Servers, ServerCrash(s) \/ ServerStart(s)
        PROVE  FALSE
    <2>1. CASE ServerCrash(s)
      BY <2>1 DEF ServerCrash
    <2>2. CASE ServerStart(s)
      BY <2>2 DEF ServerStart, Reclaimable, Active
    <2> QED
      BY <1>5, <2>1, <2>2
  <1>6. CASE Tick
    BY <1>6 DEF Tick, coVars
  <1>7. CASE UNCHANGED vars
    BY <1>7 DEF vars, coVars
  <1> QED
    BY <1>1, <1>2, <1>3, <1>4, <1>5, <1>6, <1>7 DEF Next, CoroutineMoves

LEMMA StartedStep == TypeOK /\ Started /\ [Next]_vars => Started'
  <1> SUFFICES ASSUME TypeOK, Started, [Next]_vars PROVE Started'
    OBVIOUS
  <1>1. \A r \in Runs : status'[r] = "absent" => task'[r] = "none"
    BY TaskOfRow
  <1>2. \A s \in Servers, r \in Runs, g \in Graphs :
          <<r, g>> \in requested'[s] => status'[r] # "absent"
    BY RequestOfRow
  <1>3. \A s \in Servers, r \in Runs : pc'[s][r] # "idle" => status'[r] # "absent"
    BY CoroutineOfRow
  <1> QED
    BY <1>1, <1>2, <1>3 DEF Started

(* Only a claim gives a coroutine a lease owner.                           *)
LEMMA TokensShrink ==
  ASSUME TypeOK, [Next]_vars, ~\E s \in Servers, r \in Runs : ClaimTask(s, r),
         NEW t \in Servers, NEW q \in Runs
  PROVE  token'[t][q] \in {0, token[t][q]}
  <1> USE DEF coVars
  <1>1. ASSUME NEW s \in Servers, NEW a \in Alerts, NEW force \in BOOLEAN,
               ReuseRun(s, a, force) \/ ReserveRun(s, a, force)
        PROVE  UNCHANGED token
    BY <1>1 DEF ReuseRun, ReserveRun
  <1>2. ASSUME NEW s \in Servers, NEW r \in Runs,
               \/ \E g \in Graphs : Schedule(s, r, g)
               \/ CreateTargetedChild(s, r) \/ ReviewRun(s, r) \/ CancelRun(s, r)
               \/ ReadRun(s, r) \/ RecordEvent(s, r)
        PROVE  UNCHANGED token
    BY <1>2 DEF Schedule, CreateTargetedChild, ReviewRun, CancelRun, ReadRun, RecordEvent
  <1>3. ASSUME NEW s \in Servers, NEW r \in Runs,
               \/ AcquireSlot(s, r) \/ ClaimRefused(s, r) \/ BeginGraph(s, r)
               \/ MarkRunning(s, r) \/ SaveCheckpoint(s, r)
               \/ CompleteRun(s, r) \/ CompleteRunV2(s, r) \/ Raise(s, r)
        PROVE  UNCHANGED token
    BY <1>3 DEF AcquireSlot, ClaimRefused, BeginGraph, MarkRunning, SaveCheckpoint, CompleteRun,
                CompleteRunV2, Raise
  <1>4. ASSUME NEW s \in Servers, NEW r \in Runs,
               \/ CancelCoroutine(s, r) \/ ClaimConflict(s, r) \/ GiveUp(s, r) \/ FailRun(s, r)
               \/ CoroutineCrash(s, r) \/ ReleaseTask(s, r)
               \/ \E w \in BOOLEAN : SettleTask(s, r, w)
        PROVE  token'[t][q] \in {0, token[t][q]}
    <2>1. token' = [token EXCEPT ![s][r] = 0]
      BY <1>4 DEF CancelCoroutine, ClaimConflict, GiveUp, FailRun, CoroutineCrash, ReleaseTask,
                  SettleTask, Stop
    <2> QED
      BY <2>1, NestedUpdate DEF TypeOK
  <1>5. ASSUME NEW s \in Servers, ServerCrash(s)
        PROVE  token'[t][q] \in {0, token[t][q]}
    BY <1>5 DEF ServerCrash, TypeOK
  <1>6. ASSUME NEW s \in Servers, ServerStart(s)
        PROVE  UNCHANGED token
    BY <1>6 DEF ServerStart
  <1>7. CASE Tick
    BY <1>7 DEF Tick
  <1>8. CASE UNCHANGED vars
    BY <1>8 DEF vars
  <1> QED
    BY <1>1, <1>2, <1>3, <1>4, <1>5, <1>6, <1>7, <1>8 DEF Next, Execute

(* What the holder of a lease knows of the task.                           *)
LEMMA HolderRuns ==
  ASSUME TypeOK, Leased, NEW s \in Servers, NEW r \in Runs, Holds(s, r)
  PROVE  task[r] = "running" /\ owner[r] # 0
  BY DEF Holds, Leased

(* Settling and releasing either end the task they hold or write nothing.  *)
LEMMA TaskEnds ==
  ASSUME TypeOK, Leased, NEW s \in Servers, NEW r \in Runs,
         ReleaseTask(s, r) \/ \E w \in BOOLEAN : SettleTask(s, r, w)
  PROVE  \/ UNCHANGED <<task, owner>>
         \/ /\ task[r] = "running"
            /\ owner' = [owner EXCEPT ![r] = 0]
            /\ \E x \in {"queued", "failed", "completed"} : task' = [task EXCEPT ![r] = x]
  <1>1. CASE Holds(s, r)
    <2>1. task[r] = "running"
      BY <1>1, HolderRuns
    <2>2. ASSUME NEW w \in BOOLEAN, SettleTask(s, r, w)
          PROVE  \/ UNCHANGED <<task, owner>>
                 \/ /\ owner' = [owner EXCEPT ![r] = 0]
                    /\ task' = [task EXCEPT ![r] = "completed"]
      BY <2>2 DEF SettleTask
    <2>3. CASE ReleaseTask(s, r)
      BY <1>1, <2>1, <2>3 DEF ReleaseTask
    <2> QED
      BY <2>1, <2>2, <2>3
  <1>2. CASE ~Holds(s, r)
    BY <1>2 DEF ReleaseTask, SettleTask
  <1> QED
    BY <1>1, <1>2

(* Leases are preserved where attempts and owners are.                     *)
LEMMA LeasedFrame ==
  ASSUME TypeOK, Leased, UNCHANGED attempts,
         \A t \in Servers, q \in Runs : token'[t][q] \in {0, token[t][q]},
         \A q \in Runs : /\ owner'[q] # 0 <=> task'[q] = "running"
                         /\ owner'[q] \in {0, owner[q]}
  PROVE  Leased'
  <1>1. \A q \in Runs : attempts[q] \in Nat
    BY DEF TypeOK
  <1> QED
    BY <1>1 DEF Leased

LEMMA LeasedStep == TypeOK /\ Started /\ Leased /\ [Next]_vars => Leased'
  <1> SUFFICES ASSUME TypeOK, Started, Leased, [Next]_vars PROVE Leased'
    OBVIOUS
  <1>1. ASSUME NEW s \in Servers, NEW r \in Runs, ClaimTask(s, r)
        PROVE  Leased'
    <2>1. /\ task' = [task EXCEPT ![r] = "running"]
          /\ attempts' = [attempts EXCEPT ![r] = attempts[r] + 1]
          /\ owner' = [owner EXCEPT ![r] = attempts[r] + 1]
          /\ token' = [token EXCEPT ![s][r] = attempts[r] + 1]
      BY <1>1 DEF ClaimTask, FreshLeaseOwner
    <2>2. \A q \in Runs : attempts[q] \in Nat /\ \A t \in Servers : token[t][q] \in Nat
      BY DEF TypeOK
    <2>3. \A t \in Servers, q \in Runs :
             token'[t][q] = IF t = s /\ q = r THEN attempts[r] + 1 ELSE token[t][q]
      BY <2>1, NestedUpdate DEF TypeOK
    <2>4. ASSUME NEW q \in Runs
          PROVE  /\ owner'[q] # 0 <=> task'[q] = "running"
                 /\ owner'[q] <= attempts'[q]
      BY <2>1, <2>2 DEF Leased, TypeOK
    <2>5. ASSUME NEW q \in Runs, NEW t \in Servers
          PROVE  token'[t][q] <= attempts'[q]
      BY <2>1, <2>2, <2>3 DEF Leased, TypeOK
    <2>6. ASSUME NEW q \in Runs, NEW t \in Servers, NEW u \in Servers,
                 token'[t][q] # 0, token'[t][q] = token'[u][q]
          PROVE  t = u
      <3>1. \A v \in Servers : token[v][q] <= attempts[q]
        BY DEF Leased
      <3> QED
        BY <2>2, <2>3, <2>6, <3>1 DEF Leased
    <2> QED
      BY <2>4, <2>5, <2>6 DEF Leased
  <1>2. CASE ~\E s \in Servers, r \in Runs : ClaimTask(s, r)
    <2>1. \A t \in Servers, q \in Runs : token'[t][q] \in {0, token[t][q]}
      BY <1>2, TokensShrink
    <2>2. ASSUME NEW s \in Servers, NEW p \in Runs, CreateTargetedChild(s, p)
          PROVE  Leased'
      <3>1. PICK r \in Runs : status[r] = "absent" /\ task' = [task EXCEPT ![r] = "queued"]
        BY <2>2 DEF CreateTargetedChild, IsNext
      <3>2. task[r] = "none" /\ UNCHANGED <<attempts, owner>>
        BY <2>2, <3>1 DEF Started, CreateTargetedChild
      <3>3. \A q \in Runs : owner'[q] # 0 <=> task'[q] = "running"
        BY <3>1, <3>2 DEF Leased, TypeOK
      <3> QED
        BY <2>1, <3>2, <3>3, LeasedFrame
    <2>3. ASSUME NEW s \in Servers, NEW r \in Runs, ClaimRefused(s, r)
          PROVE  Leased'
      <3>1. /\ task' = [task EXCEPT ![r] = IF @ = "none" THEN "queued" ELSE @]
            /\ UNCHANGED <<attempts, owner>>
        BY <2>3 DEF ClaimRefused
      <3>2. \A q \in Runs : owner'[q] # 0 <=> task'[q] = "running"
        BY <3>1 DEF Leased, TypeOK
      <3> QED
        BY <2>1, <3>1, <3>2, LeasedFrame
    <2>4. ASSUME NEW s \in Servers, NEW r \in Runs,
                 ReleaseTask(s, r) \/ \E w \in BOOLEAN : SettleTask(s, r, w)
          PROVE  Leased'
      <3>1. UNCHANGED attempts
        BY <2>4 DEF ReleaseTask, SettleTask
      <3>2. CASE UNCHANGED <<task, owner>>
        BY <2>1, <3>1, <3>2, LeasedFrame DEF Leased
      <3>3. ASSUME NEW x \in {"queued", "failed", "completed"},
                   task' = [task EXCEPT ![r] = x], owner' = [owner EXCEPT ![r] = 0]
            PROVE  Leased'
        <4>1. \A q \in Runs : /\ owner'[q] # 0 <=> task'[q] = "running"
                              /\ owner'[q] \in {0, owner[q]}
          BY <3>3 DEF Leased, TypeOK
        <4> QED
          BY <2>1, <3>1, <4>1, LeasedFrame
      <3> QED
        BY <2>4, <3>2, <3>3, TaskEnds
    <2>5. CASE ~\E s \in Servers, r \in Runs : TaskStep(s, r)
      BY <2>1, <2>5, TaskUnchanged, LeasedFrame DEF Leased
    <2> QED
      BY <1>2, <2>2, <2>3, <2>4, <2>5 DEF TaskStep
  <1> QED
    BY <1>1, <1>2

(* A stored result is never removed.                                       *)
LEMMA OutputGrows ==
  ASSUME [Next]_vars
  PROVE  output \subseteq output'
  <1>1. ASSUME NEW s \in Servers, NEW a \in Alerts, NEW force \in BOOLEAN,
               ReuseRun(s, a, force) \/ ReserveRun(s, a, force)
        PROVE  output' = output
    BY <1>1 DEF ReuseRun, ReserveRun
  <1>2. ASSUME NEW s \in Servers, NEW r \in Runs, KeepsStatus(s, r)
        PROVE  output' = output
    BY <1>2 DEF KeepsStatus, Schedule, ReviewRun, CancelCoroutine, AcquireSlot, ClaimTask,
                ClaimRefused, ClaimConflict, BeginGraph, SaveCheckpoint, Raise, SettleTask,
                ReleaseTask, RecordEvent, CoroutineCrash, runVars
  <1>3. ASSUME NEW s \in Servers, NEW r \in Runs,
               \/ CreateTargetedChild(s, r) \/ CancelRun(s, r) \/ ReadRun(s, r) \/ GiveUp(s, r)
               \/ MarkRunning(s, r) \/ FailRun(s, r)
        PROVE  output' = output
    BY <1>3 DEF CreateTargetedChild, CancelRun, ReadRun, GiveUp, MarkRunning, FailRun
  <1>4. ASSUME NEW s \in Servers, NEW r \in Runs, CompleteRun(s, r) \/ CompleteRunV2(s, r)
        PROVE  output \subseteq output'
    BY <1>4 DEF CompleteRun, CompleteRunV2, StoreResult
  <1>5. ASSUME NEW s \in Servers, ServerCrash(s) \/ ServerStart(s)
        PROVE  output' = output
    BY <1>5 DEF ServerCrash, ServerStart, runVars
  <1>6. CASE Tick
    BY <1>6 DEF Tick
  <1>7. CASE UNCHANGED vars
    BY <1>7 DEF vars, runVars
  <1> QED
    BY <1>1, <1>2, <1>3, <1>4, <1>5, <1>6, <1>7 DEF Next, Execute, KeepsStatus

(* A coroutine past complete_run, in this attempt or by its checkpoint,    *)
(* works for a run whose result is stored.                                 *)
LEMMA PostIsStored ==
  ASSUME TypeOK, Stored, [Next]_vars, NEW t \in Servers, NEW q \in Runs,
         pc'[t][q] \in {"stored", "post"}
  PROVE  q \in output'
  <1> SUFFICES ASSUME pc[t][q] \notin {"stored", "post"} PROVE q \in output'
    BY OutputGrows DEF Stored
  <1> USE DEF TypeOK
  <1>1. ASSUME NEW s \in Servers, NEW a \in Alerts, NEW force \in BOOLEAN,
               ReuseRun(s, a, force) \/ ReserveRun(s, a, force)
        PROVE  FALSE
    BY <1>1 DEF ReuseRun, ReserveRun, coVars
  <1>2. ASSUME NEW s \in Servers, NEW r \in Runs,
               \/ CreateTargetedChild(s, r) \/ ReviewRun(s, r) \/ CancelRun(s, r)
               \/ ReadRun(s, r) \/ RecordEvent(s, r)
        PROVE  FALSE
    BY <1>2 DEF CreateTargetedChild, ReviewRun, CancelRun, ReadRun, RecordEvent, coVars
  <1>3. ASSUME NEW s \in Servers, NEW r \in Runs, NEW x \in Steps \ {"stored", "post"},
               pc' = [pc EXCEPT ![s][r] = x]
        PROVE  FALSE
    BY <1>3, NestedUpdate
  <1>4. ASSUME NEW s \in Servers, NEW r \in Runs, NEW g \in Graphs, Schedule(s, r, g)
        PROVE  FALSE
    <2>1. pc' = pc \/ pc' = [pc EXCEPT ![s][r] = "waiting"]
      BY <1>4 DEF Schedule
    <2> QED
      BY <2>1, <1>3 DEF Steps
  <1>5. ASSUME NEW s \in Servers, NEW r \in Runs, ClaimTask(s, r)
        PROVE  q \in output'
    <2>1. pc' = [pc EXCEPT ![s][r] = FirstStep(s, r)] /\ output' = output
      BY <1>5 DEF ClaimTask, Goto, runVars
    <2>2. t = s /\ q = r /\ FirstStep(s, r) \in {"stored", "post"}
      BY <2>1, NestedUpdate
    <2>3. checkpoint[r] = "done"
      BY <2>2 DEF FirstStep
    <2> QED
      BY <2>1, <2>2, <2>3 DEF Stored
  <1>6. ASSUME NEW s \in Servers, NEW r \in Runs, CompleteRun(s, r) \/ CompleteRunV2(s, r)
        PROVE  q \in output'
    <2>1. PICK x \in Steps : /\ pc' = [pc EXCEPT ![s][r] = x]
                             /\ x \notin {"stored", "post"} \/ r \in output'
      BY <1>6 DEF CompleteRun, CompleteRunV2, StoreResult, Goto, Steps, Holding, InGraph
    <2> QED
      BY <2>1, NestedUpdate
  <1>7. ASSUME NEW s \in Servers, NEW r \in Runs, SaveCheckpoint(s, r)
        PROVE  q \in output'
    <2>1. PICK x \in Steps : /\ pc' = [pc EXCEPT ![s][r] = x]
                             /\ x = "work" \/ pc[s][r] = "stored"
                             /\ UNCHANGED output
      BY <1>7 DEF SaveCheckpoint, Goto, Steps, Holding, InGraph, runVars
    <2> QED
      BY <2>1, NestedUpdate DEF Stored
  <1>8. ASSUME NEW s \in Servers, NEW r \in Runs,
               \/ CancelCoroutine(s, r) \/ AcquireSlot(s, r) \/ ClaimRefused(s, r)
               \/ ClaimConflict(s, r) \/ GiveUp(s, r) \/ BeginGraph(s, r) \/ MarkRunning(s, r)
               \/ Raise(s, r) \/ (\E w \in BOOLEAN : SettleTask(s, r, w))
               \/ ReleaseTask(s, r) \/ FailRun(s, r) \/ CoroutineCrash(s, r)
        PROVE  FALSE
    <2>1. \E x \in Steps \ {"stored", "post"} : pc' = [pc EXCEPT ![s][r] = x]
      BY <1>8 DEF CancelCoroutine, AcquireSlot, ClaimRefused, ClaimConflict, GiveUp, BeginGraph,
                  MarkRunning, Raise, SettleTask, ReleaseTask, FailRun, CoroutineCrash, Stop,
                  Goto, Steps, Holding, InGraph
    <2> QED
      BY <2>1, <1>3
  <1>9. ASSUME NEW s \in Servers, ServerCrash(s) \/ ServerStart(s)
        PROVE  FALSE
    <2>1. CASE ServerCrash(s)
      BY <2>1 DEF ServerCrash
    <2>2. CASE ServerStart(s)
      BY <2>2 DEF ServerStart
    <2> QED
      BY <1>9, <2>1, <2>2
  <1>10. CASE Tick
    BY <1>10 DEF Tick, coVars
  <1>11. CASE UNCHANGED vars
    BY <1>11 DEF vars, coVars
  <1> QED
    BY <1>1, <1>2, <1>4, <1>5, <1>6, <1>7, <1>8, <1>9, <1>10, <1>11 DEF Next, Execute

(* The checkpoint that lets a retry skip the graph is written after the    *)
(* result.                                                                 *)
LEMMA DoneIsStored ==
  ASSUME TypeOK, Stored, [Next]_vars, NEW q \in Runs, checkpoint'[q] = "done"
  PROVE  q \in output'
  <1> USE DEF taskVars
  <1>1. CASE checkpoint' = checkpoint
    BY <1>1, OutputGrows DEF Stored
  <1>2. ASSUME NEW s \in Servers, NEW a \in Alerts, NEW force \in BOOLEAN,
               ReuseRun(s, a, force) \/ ReserveRun(s, a, force)
        PROVE  checkpoint' = checkpoint
    BY <1>2 DEF ReuseRun, ReserveRun
  <1>3. ASSUME NEW s \in Servers, NEW r \in Runs,
               \/ \E g \in Graphs : Schedule(s, r, g)
               \/ CreateTargetedChild(s, r) \/ ReviewRun(s, r) \/ CancelRun(s, r)
               \/ CancelCoroutine(s, r) \/ ReadRun(s, r) \/ AcquireSlot(s, r)
               \/ RecordEvent(s, r) \/ CoroutineCrash(s, r)
        PROVE  checkpoint' = checkpoint
    BY <1>3 DEF Schedule, CreateTargetedChild, ReviewRun, CancelRun, CancelCoroutine, ReadRun,
                AcquireSlot, RecordEvent, CoroutineCrash
  <1>4. ASSUME NEW s \in Servers, NEW r \in Runs,
               \/ ClaimTask(s, r) \/ ClaimRefused(s, r) \/ ClaimConflict(s, r) \/ GiveUp(s, r)
               \/ MarkRunning(s, r) \/ CompleteRun(s, r) \/ CompleteRunV2(s, r) \/ Raise(s, r)
               \/ (\E w \in BOOLEAN : SettleTask(s, r, w)) \/ ReleaseTask(s, r) \/ FailRun(s, r)
        PROVE  checkpoint' = checkpoint
    BY <1>4 DEF ClaimTask, ClaimRefused, ClaimConflict, GiveUp, MarkRunning, CompleteRun,
                CompleteRunV2, Raise, SettleTask, ReleaseTask, FailRun
  <1>5. ASSUME NEW s \in Servers, NEW r \in Runs, BeginGraph(s, r) \/ SaveCheckpoint(s, r)
        PROVE  q \in output'
    <2>1. PICK x \in {"started", "marked", "done"} :
             /\ checkpoint' = [checkpoint EXCEPT ![r] = x]
             /\ x # "done" \/ pc[s][r] = "stored"
             /\ UNCHANGED output
      BY <1>5 DEF BeginGraph, SaveCheckpoint, runVars
    <2> QED
      BY <2>1 DEF Stored, TypeOK
  <1>6. ASSUME NEW s \in Servers, ServerCrash(s) \/ ServerStart(s)
        PROVE  checkpoint' = checkpoint
    BY <1>6 DEF ServerCrash, ServerStart
  <1>7. CASE Tick
    BY <1>1, <1>7 DEF Tick
  <1>8. CASE UNCHANGED vars
    BY <1>1, <1>8 DEF vars
  <1> QED
    BY <1>1, <1>2, <1>3, <1>4, <1>5, <1>6, <1>7, <1>8 DEF Next, Execute

(* Task and budget are settled together, behind the result.                *)
LEMMA SettledTogether ==
  ASSUME TypeOK, Started, Leased, Stored, [Next]_vars, NEW q \in Runs
  PROVE  /\ task'[q] = "completed" <=> ledger'[q] = "settled"
         /\ task'[q] = "completed" => q \in output'
  <1> DEFINE Settled == /\ task'[q] = "completed" <=> ledger'[q] = "settled"
                        /\ task'[q] = "completed" => q \in output'
  <1>1. CASE ~\E s \in Servers, r \in Runs : TaskStep(s, r)
    BY <1>1, TaskUnchanged, OutputGrows DEF Stored
  <1>2. ASSUME NEW s \in Servers, NEW p \in Runs, CreateTargetedChild(s, p)
        PROVE  Settled
    <2>1. PICK r \in Runs : status[r] = "absent" /\ task' = [task EXCEPT ![r] = "queued"]
      BY <1>2 DEF CreateTargetedChild, IsNext
    <2>2. task[r] = "none" /\ UNCHANGED <<ledger, output>>
      BY <1>2, <2>1 DEF CreateTargetedChild, Started
    <2> QED
      BY <2>1, <2>2 DEF Stored, TypeOK
  <1>3. ASSUME NEW s \in Servers, NEW r \in Runs, ClaimTask(s, r) \/ ClaimRefused(s, r)
        PROVE  Settled
    <2>1. PICK x \in {"queued", "running", task[r]} :
             /\ task' = [task EXCEPT ![r] = x]
             /\ ledger' = [ledger EXCEPT ![r] = IF @ = "none" THEN "reserved" ELSE @]
             /\ x = task[r] \/ task[r] # "completed"
             /\ UNCHANGED output
      BY <1>3 DEF ClaimTask, ClaimRefused, Claimable, EnsureLedger, runVars
    <2> QED
      BY <2>1 DEF Stored, TypeOK
  <1>4. ASSUME NEW s \in Servers, NEW r \in Runs, NEW w \in BOOLEAN, SettleTask(s, r, w)
        PROVE  Settled
    <2>1. \/ UNCHANGED <<task, ledger>>
          \/ /\ task' = [task EXCEPT ![r] = "completed"]
             /\ ledger' = [ledger EXCEPT ![r] = "settled"]
      BY <1>4 DEF SettleTask
    <2>2. r \in output /\ UNCHANGED output
      BY <1>4 DEF SettleTask, Stored, runVars
    <2> QED
      BY <2>1, <2>2 DEF Stored, TypeOK
  <1>5. ASSUME NEW s \in Servers, NEW r \in Runs, ReleaseTask(s, r)
        PROVE  Settled
    <2>1. UNCHANGED <<ledger, output>>
      BY <1>5 DEF ReleaseTask, runVars
    <2>2. CASE Holds(s, r)
      <3>1. task[r] = "running"
        BY <2>2, HolderRuns
      <3>2. PICK x \in {"queued", "failed"} : task' = [task EXCEPT ![r] = x]
        BY <1>5, <2>2 DEF ReleaseTask
      <3> QED
        BY <2>1, <3>1, <3>2 DEF Stored, TypeOK
    <2>3. CASE ~Holds(s, r)
      BY <1>5, <2>1, <2>3 DEF ReleaseTask, Stored
    <2> QED
      BY <2>2, <2>3
  <1> QED
    BY <1>1, <1>2, <1>3, <1>4, <1>5 DEF TaskStep

LEMMA StoredStep == TypeOK /\ Started /\ Leased /\ Stored /\ [Next]_vars => Stored'
  <1> SUFFICES ASSUME TypeOK, Started, Leased, Stored, [Next]_vars PROVE Stored'
    OBVIOUS
  <1>1. \A r \in Runs : /\ task'[r] = "completed" <=> ledger'[r] = "settled"
                        /\ task'[r] = "completed" => r \in output'
    BY SettledTogether
  <1>2. \A r \in Runs : checkpoint'[r] = "done" => r \in output'
    BY DoneIsStored
  <1>3. \A r \in Runs : \A s \in Servers : pc'[s][r] \in {"stored", "post"} => r \in output'
    BY PostIsStored
  <1> QED
    BY <1>1, <1>2, <1>3 DEF Stored

(* Without a reservation or a targeted rerun no row appears.               *)
LEMMA RowsAppear ==
  ASSUME TypeOK, Started, [Next]_vars, NEW q \in Runs, status[q] = "absent",
         ~\E s \in Servers, a \in Alerts, force \in BOOLEAN : ReserveRun(s, a, force),
         ~\E s \in Servers, p \in Runs : CreateTargetedChild(s, p)
  PROVE  status'[q] = "absent"
  <1> USE DEF TypeOK
  <1>1. ASSUME NEW s \in Servers, NEW a \in Alerts, NEW force \in BOOLEAN,
               ReuseRun(s, a, force)
        PROVE  status'[q] = "absent"
    BY <1>1 DEF ReuseRun, ExpiredStatus, Stale, Active
  <1>2. ASSUME NEW s \in Servers, NEW r \in Runs, CancelRun(s, r)
        PROVE  status'[q] = "absent"
    BY <1>2 DEF CancelRun
  <1>3. ASSUME NEW s \in Servers, NEW r \in Runs, ReadRun(s, r) \/ GiveUp(s, r)
        PROVE  status'[q] = "absent"
    BY <1>3 DEF ReadRun, GiveUp, ExpiredStatus, Stale, Active
  <1>4. ASSUME NEW s \in Servers, NEW r \in Runs,
               \/ MarkRunning(s, r) \/ FailRun(s, r)
               \/ CompleteRun(s, r) \/ CompleteRunV2(s, r)
        PROVE  status'[q] = "absent"
    <2>1. q # r
      BY <1>4 DEF Started, MarkRunning, FailRun, CompleteRun, CompleteRunV2
    <2> QED
      BY <1>4, <2>1 DEF MarkRunning, FailRun, CompleteRun, CompleteRunV2, StoreResult
  <1>5. ASSUME NEW s \in Servers, NEW r \in Runs, KeepsStatus(s, r)
        PROVE  status'[q] = "absent"
    BY <1>5, StatusUnchanged
  <1>6. ASSUME NEW s \in Servers, ServerCrash(s) \/ ServerStart(s)
        PROVE  status'[q] = "absent"
    BY <1>6 DEF ServerCrash, ServerStart, runVars
  <1>7. CASE Tick
    BY <1>7 DEF Tick
  <1>8. CASE UNCHANGED vars
    BY <1>8 DEF vars, runVars
  <1> QED
    BY <1>1, <1>2, <1>3, <1>4, <1>5, <1>6, <1>7, <1>8 DEF Next, Execute, KeepsStatus

(* What the two steps that insert a row do: the next free number becomes   *)
(* the root of a lineage, or the child of a row above the depth limit.     *)
RowInserted(r, p, a, key) ==
  /\ IsNext(r)
  /\ p # NoRun => p \in Runs /\ status[p] # "absent" /\ lineage[p].alert = a
                  /\ lineage[p].depth < DepthLimit
  /\ lineage' = [lineage EXCEPT ![r] = ChildOf(p, r, a, key)]
  /\ status'[r] = "queued"
  /\ \A q \in Runs \ {r} : status'[q] = "absent" <=> status[q] = "absent"

LEMMA ReserveInserts ==
  ASSUME TypeOK, NEW s \in Servers, NEW a \in Alerts, NEW force \in BOOLEAN,
         ReserveRun(s, a, force)
  PROVE  \E r \in Runs, p \in Runs \cup {NoRun} : RowInserted(r, p, a, "v1")
  <1>1. PICK r \in Runs, p \in {NoRun} \cup Reusable(a) :
           /\ IsNext(r)
           /\ IF Reusable(a) = {} THEN p = NoRun
              ELSE \E n \in Reusable(a) : p = ParentFor(n)
           /\ lineage' = [lineage EXCEPT ![r] = ChildOf(p, r, a, "v1")]
           /\ status' = [ExpiredStatus(OfAlert(a)) EXCEPT ![r] = "queued"]
    BY DEF ReserveRun
  <1>2. \A q \in Runs : ExpiredStatus(OfAlert(a))[q] = "absent" <=> status[q] = "absent"
    BY DEF ExpiredStatus, Stale, Active
  <1>3. \A n \in Reusable(a) : /\ n \in Runs /\ status[n] # "absent" /\ lineage[n].alert = a
                              /\ lineage[n].depth \in 0..DepthLimit
    BY <1>2 DEF TypeOK, Reusable, OfAlert, Lineages
  <1>4. p # NoRun => p \in Reusable(a) /\ lineage[p].depth < DepthLimit
    BY <1>1, <1>3 DEF ParentFor, DepthLimit
  <1>5. /\ status'[r] = "queued"
        /\ \A q \in Runs \ {r} : status'[q] = "absent" <=> status[q] = "absent"
    <2>1. DOMAIN ExpiredStatus(OfAlert(a)) = Runs
      BY DEF ExpiredStatus
    <2> QED
      BY <1>1, <1>2, <2>1
  <1>6. RowInserted(r, p, a, "v1") /\ p \in Runs \cup {NoRun}
    BY <1>1, <1>3, <1>4, <1>5 DEF RowInserted
  <1> QED
    BY <1>6

LEMMA TargetedInserts ==
  ASSUME TypeOK, Started, NEW s \in Servers, NEW p \in Runs, CreateTargetedChild(s, p)
  PROVE  \E r \in Runs : RowInserted(r, p, lineage[p].alert, "v2")
  <1>1. PICK r \in Runs :
           /\ IsNext(r)
           /\ lineage' = [lineage EXCEPT ![r] = ChildOf(p, r, lineage[p].alert, "v2")]
           /\ status' = [status EXCEPT ![r] = "queued"]
    BY DEF CreateTargetedChild
  <1>2. status[p] # "absent" /\ lineage[p].depth < DepthLimit
    BY DEF CreateTargetedChild, Reviewed
  <1>3. RowInserted(r, p, lineage[p].alert, "v2")
    BY <1>1, <1>2 DEF RowInserted, TypeOK
  <1> QED
    BY <1>3

(* A row inserted that way hangs a new leaf on a tree, or plants one.      *)
LEMMA RowInsertedRooted ==
  ASSUME TypeOK, Rooted, NEW r \in Runs, NEW p \in Runs \cup {NoRun}, NEW a, NEW key,
         RowInserted(r, p, a, key)
  PROVE  Rooted'
  <1>1. /\ status[r] = "absent" /\ status'[r] # "absent"
        /\ \A q \in Runs : q < r => status[q] # "absent"
        /\ \A q \in Runs \ {r} : status'[q] = "absent" <=> status[q] = "absent"
    BY DEF RowInserted, IsNext
  <1>2. lineage'[r] = ChildOf(p, r, a, key) /\ \A q \in Runs \ {r} : lineage'[q] = lineage[q]
    BY DEF RowInserted, TypeOK
  <1>3. \A q, t \in Runs : q < t /\ status'[t] # "absent" => status'[q] # "absent"
    BY <1>1 DEF Rooted, Runs
  <1>4. p # NoRun => p < r /\ p \in Runs
    <2>1. SUFFICES ASSUME p # NoRun PROVE p < r
      OBVIOUS
    <2>2. p \in Runs /\ status[p] # "absent" /\ p # r
      BY <1>1, <2>1 DEF RowInserted
    <2>3. ~(r < p)
      BY <1>1, <2>2 DEF Rooted
    <2> QED
      BY <2>2, <2>3 DEF Runs
  <1>5. ASSUME NEW q \in Runs, status'[q] # "absent"
        PROVE  LET o == lineage'[q].parent IN
               IF o = NoRun THEN lineage'[q].root = q /\ lineage'[q].depth = 0
               ELSE /\ o < q /\ status'[o] # "absent"
                    /\ lineage'[q].alert = lineage'[o].alert
                    /\ lineage'[q].root = lineage'[o].root
                    /\ lineage'[q].depth = lineage'[o].depth + 1
                    /\ lineage'[q].depth <= DepthLimit
    <2>1. CASE q = r /\ p = NoRun
      BY <1>2, <2>1 DEF ChildOf
    <2>2. CASE q = r /\ p # NoRun
      <3>1. /\ lineage[p].depth \in 0..DepthLimit /\ lineage[p].depth < DepthLimit
            /\ lineage[p].alert = a /\ status[p] # "absent" /\ p \in Runs /\ p # r
        BY <1>1, <1>4, <2>2 DEF RowInserted, TypeOK, Lineages
      <3>2. lineage'[p] = lineage[p] /\ status'[p] # "absent"
        BY <1>1, <1>2, <3>1
      <3>3. /\ lineage'[q].alert = a /\ lineage'[q].parent = p
            /\ lineage'[q].root = lineage[p].root
            /\ lineage'[q].depth = lineage[p].depth + 1
        BY <1>2, <2>2 DEF ChildOf
      <3> QED
        BY <1>4, <2>2, <3>1, <3>2, <3>3 DEF DepthLimit
    <2>3. CASE q # r
      <3> DEFINE o == lineage[q].parent
      <3>1. status[q] # "absent" /\ lineage'[q] = lineage[q] /\ o \in 0..MaxRuns
        BY <1>1, <1>2, <1>5, <2>3 DEF TypeOK, Lineages
      <3>2. CASE o = NoRun
        BY <3>1, <3>2 DEF Rooted, LineageTree
      <3>3. CASE o # NoRun
        <4>1. /\ o < q /\ status[o] # "absent" /\ o \in Runs
              /\ lineage[q].alert = lineage[o].alert
              /\ lineage[q].root = lineage[o].root
              /\ lineage[q].depth = lineage[o].depth + 1
              /\ lineage[q].depth <= DepthLimit
          BY <3>1, <3>3 DEF Rooted, LineageTree, Runs, NoRun
        <4>2. lineage'[o] = lineage[o] /\ status'[o] # "absent"
          BY <1>1, <1>2, <4>1
        <4> QED
          BY <3>1, <3>3, <4>1, <4>2
      <3> QED
        BY <3>2, <3>3
    <2> QED
      BY <2>1, <2>2, <2>3
  <1> QED
    BY <1>3, <1>5 DEF Rooted, LineageTree

(* Where no row appears, no row changes its place.                         *)
LEMMA LineageUnchanged ==
  ASSUME [Next]_vars,
         ~\E s \in Servers, a \in Alerts, force \in BOOLEAN : ReserveRun(s, a, force),
         ~\E s \in Servers, p \in Runs : CreateTargetedChild(s, p)
  PROVE  lineage' = lineage
  <1> USE DEF runVars
  <1>1. ASSUME NEW s \in Servers, NEW a \in Alerts, NEW force \in BOOLEAN,
               ReuseRun(s, a, force)
        PROVE  lineage' = lineage
    BY <1>1 DEF ReuseRun
  <1>2. ASSUME NEW s \in Servers, NEW r \in Runs, KeepsStatus(s, r)
        PROVE  lineage' = lineage
    BY <1>2 DEF KeepsStatus, Schedule, ReviewRun, CancelCoroutine, AcquireSlot, ClaimTask,
                ClaimRefused, ClaimConflict, BeginGraph, SaveCheckpoint, Raise, SettleTask,
                ReleaseTask, RecordEvent, CoroutineCrash
  <1>3. ASSUME NEW s \in Servers, NEW r \in Runs,
               \/ CancelRun(s, r) \/ ReadRun(s, r) \/ GiveUp(s, r) \/ MarkRunning(s, r)
               \/ FailRun(s, r) \/ CompleteRun(s, r) \/ CompleteRunV2(s, r)
        PROVE  lineage' = lineage
    BY <1>3 DEF CancelRun, ReadRun, GiveUp, MarkRunning, FailRun, CompleteRun, CompleteRunV2
  <1>4. ASSUME NEW s \in Servers, ServerCrash(s) \/ ServerStart(s)
        PROVE  lineage' = lineage
    BY <1>4 DEF ServerCrash, ServerStart
  <1>5. CASE Tick
    BY <1>5 DEF Tick
  <1>6. CASE UNCHANGED vars
    BY <1>6 DEF vars
  <1> QED
    BY <1>1, <1>2, <1>3, <1>4, <1>5, <1>6 DEF Next, Execute, KeepsStatus

LEMMA RootedStep == TypeOK /\ Started /\ Rooted /\ [Next]_vars => Rooted'
  <1> SUFFICES ASSUME TypeOK, Started, Rooted, [Next]_vars PROVE Rooted'
    OBVIOUS
  <1>1. ASSUME NEW s \in Servers, NEW a \in Alerts, NEW force \in BOOLEAN,
               ReserveRun(s, a, force)
        PROVE  Rooted'
    BY <1>1, ReserveInserts, RowInsertedRooted
  <1>2. ASSUME NEW s \in Servers, NEW p \in Runs, CreateTargetedChild(s, p)
        PROVE  Rooted'
    BY <1>2, TargetedInserts, RowInsertedRooted
  <1>3. CASE /\ ~\E s \in Servers, a \in Alerts, force \in BOOLEAN : ReserveRun(s, a, force)
             /\ ~\E s \in Servers, p \in Runs : CreateTargetedChild(s, p)
    <2>1. lineage' = lineage
      BY <1>3, LineageUnchanged
    <2>2. \A q \in Runs : status'[q] = "absent" <=> status[q] = "absent"
      BY <1>3, RowsAppear, RowsStay
    <2>3. \A q, r \in Runs : q < r /\ status'[r] # "absent" => status'[q] # "absent"
      BY <2>2 DEF Rooted
    <2>4. ASSUME NEW q \in Runs, status[q] # "absent", lineage[q].parent # NoRun
          PROVE  lineage[q].parent \in Runs
      <3>1. lineage[q].parent \in 0..MaxRuns
        BY DEF TypeOK, Lineages
      <3> QED
        BY <2>4, <3>1 DEF Runs, NoRun
    <2>5. LineageTree'
      BY <2>1, <2>2, <2>4 DEF Rooted, LineageTree
    <2> QED
      BY <2>3, <2>5 DEF Rooted
  <1> QED
    BY <1>1, <1>2, <1>3

LEMMA InvInit == Init => Inv
  <1> SUFFICES ASSUME Init PROVE Inv
    OBVIOUS
  <1>1. Started
    BY DEF Init, Started
  <1>2. Leased
    BY DEF Init, Leased, Runs
  <1>3. Stored
    BY DEF Init, Stored, Runs
  <1>4. \A q, r \in Runs : q < r /\ status[r] # "absent" => status[q] # "absent"
    BY DEF Init, Runs
  <1>5. LineageTree
    <2>1. PICK l \in [1..Legacy -> LegacyRows] :
             /\ \A r \in 1..Legacy : Backfilled(l, r)
             /\ lineage = [r \in Runs |-> IF r \in 1..Legacy THEN l[r] ELSE NoLineage]
      BY DEF Init
    <2>2. SUFFICES ASSUME NEW r \in Runs, status[r] # "absent"
                   PROVE  LET p == lineage[r].parent IN
                          IF p = NoRun THEN lineage[r].root = r /\ lineage[r].depth = 0
                          ELSE /\ p < r /\ status[p] # "absent"
                               /\ lineage[r].alert = lineage[p].alert
                               /\ lineage[r].root = lineage[p].root
                               /\ lineage[r].depth = lineage[p].depth + 1
                               /\ lineage[r].depth <= DepthLimit
      BY DEF LineageTree
    <2>3. r \in 1..Legacy /\ lineage[r] = l[r]
      BY <2>1, <2>2 DEF Init
    <2>4. l[r].parent \in 0..Legacy /\ l[r].depth \in 0..DepthLimit
      BY <2>3 DEF LegacyRows
    <2>5. CASE l[r].parent = NoRun
      BY <2>1, <2>3, <2>5 DEF Backfilled
    <2>6. CASE l[r].parent # NoRun
      <3> DEFINE p == l[r].parent
      <3>1. p \in 1..Legacy /\ p \in Runs
        BY <2>4, <2>6 DEF NoRun, Runs
      <3>2. lineage[p] = l[p] /\ status[p] # "absent"
        BY <2>1, <3>1 DEF Init
      <3>3. /\ p < r /\ l[r].alert = l[p].alert
            /\ l[r].root = l[p].root /\ l[r].depth = l[p].depth + 1
        BY <2>1, <2>3, <2>6 DEF Backfilled
      <3> QED
        BY <2>3, <2>4, <2>6, <3>2, <3>3 DEF DepthLimit
    <2> QED
      BY <2>5, <2>6
  <1> QED
    BY <1>1, <1>2, <1>3, <1>4, <1>5, TypeInit DEF Inv, Rooted

(* Inv is an invariant of the specification.                               *)
THEOREM Invariance == Spec => []Inv
  <1>1. Inv /\ [Next]_vars => Inv'
    BY TypeStep, StartedStep, LeasedStep, StoredStep, RootedStep DEF Inv
  <1> QED
    BY <1>1, InvInit, PTL DEF Spec

-----------------------------------------------------------------------------
(* The properties.                                                         *)

(* At most one coroutine of all servers holds the lease of a task, however *)
(* many execute the run (claim_agent_graph_task).                          *)
THEOREM LeaseSafety == Spec => []OneLeaseHolder
  <1>1. Inv => OneLeaseHolder
    <2> SUFFICES ASSUME Inv, NEW r \in Runs, NEW s \in Servers, NEW t \in Servers,
                        HoldsLease(s, r), HoldsLease(t, r)
                 PROVE  s = t /\ task[r] = "running"
      BY DEF OneLeaseHolder
    <2> QED
      BY DEF Inv, Leased, HoldsLease
  <1> QED
    BY <1>1, Invariance, PTL

(* Task completion and budget settlement stand and fall together, behind   *)
(* the stored result (complete_agent_graph_task).                          *)
THEOREM SettlementSafety == Spec => []SettledWithResult
  <1>1. Inv => SettledWithResult
    <2> SUFFICES ASSUME Inv, NEW r \in Runs
                 PROVE  /\ task[r] = "completed" <=> ledger[r] = "settled"
                        /\ task[r] = "completed" => r \in output /\ owner[r] = 0
      BY DEF SettledWithResult
    <2> QED
      BY DEF Inv, Leased, Stored
  <1> QED
    BY <1>1, Invariance, PTL

(* Lineages are trees of one alert, at most DepthLimit deep, whatever the  *)
(* order of reservations, reruns and failures (reserve_agent_run,          *)
(* create_targeted_child_run).                                             *)
THEOREM LineageSafety == Spec => []LineageTree
  <1>1. Inv => LineageTree
    BY DEF Inv, Rooted
  <1> QED
    BY <1>1, Invariance, PTL

(* A step that takes a task out of "running" is its holder's, who stops.   *)
LEMMA HolderEnds ==
  ASSUME TypeOK, Leased, Started, [Next]_vars, NEW q \in Runs,
         task[q] = "running", task'[q] # "running"
  PROVE  \E s \in Servers : HoldsLease(s, q) /\ pc'[s][q] \notin Holding
  <1>0. TypeOK /\ Leased
    OBVIOUS
  <1>1. CASE ~\E s \in Servers, r \in Runs : TaskStep(s, r)
    BY <1>1, TaskUnchanged
  <1>2. ASSUME NEW s \in Servers, NEW p \in Runs, CreateTargetedChild(s, p)
        PROVE  FALSE
    <2>1. PICK r \in Runs : status[r] = "absent" /\ task' = [task EXCEPT ![r] = "queued"]
      BY <1>2 DEF CreateTargetedChild, IsNext
    <2> QED
      BY <2>1 DEF Started, TypeOK
  <1>3. ASSUME NEW s \in Servers, NEW r \in Runs, ClaimTask(s, r) \/ ClaimRefused(s, r)
        PROVE  FALSE
    <2>1. \/ task' = [task EXCEPT ![r] = "running"]
          \/ task' = [task EXCEPT ![r] = IF @ = "none" THEN "queued" ELSE @]
      BY <1>3 DEF ClaimTask, ClaimRefused
    <2> QED
      BY <2>1 DEF TypeOK
  <1>4. ASSUME NEW s \in Servers, NEW r \in Runs,
               ReleaseTask(s, r) \/ \E w \in BOOLEAN : SettleTask(s, r, w)
        PROVE  HoldsLease(s, q) /\ pc'[s][q] \notin Holding
    <2>0. \/ UNCHANGED <<task, owner>>
          \/ \E x \in {"queued", "failed", "completed"} : task' = [task EXCEPT ![r] = x]
      BY <1>0, <1>4, TaskEnds
    <2>1. q = r
      BY <2>0 DEF TypeOK
    <2>2. Holds(s, r)
      BY <1>4, <2>1 DEF ReleaseTask, SettleTask
    <2>3. pc[s][r] \in Holding
      BY <1>4 DEF ReleaseTask, SettleTask, Holding, InGraph
    <2>4. PICK x \in {"idle", "claim", "fail"} : pc' = [pc EXCEPT ![s][r] = x]
      BY <1>4 DEF ReleaseTask, SettleTask, Stop, Goto
    <2>5. pc'[s][r] = x
      BY <2>4, NestedUpdate DEF TypeOK
    <2> QED
      BY <2>1, <2>2, <2>3, <2>5 DEF Holds, HoldsLease, Holding, InGraph
  <1> QED
    BY <1>1, <1>2, <1>3, <1>4 DEF TaskStep

(* A running task is ended only by the coroutine that holds its lease, and *)
(* that coroutine stops executing it in the same step                      *)
(* (complete_agent_graph_task, release_agent_graph_task).                  *)
THEOREM HolderSafety == Spec => OnlyHolderEnds
  <1>1. Inv /\ [Next]_vars =>
          \A r \in Runs : task[r] = "running" /\ task'[r] # "running" =>
            \E s \in Servers : HoldsLease(s, r) /\ pc'[s][r] \notin Holding
    BY HolderEnds DEF Inv
  <1> QED
    BY <1>1, Invariance, PTL DEF Spec, OnlyHolderEnds

(* Nothing touches a completed task again.                                 *)
LEMMA CompletedStays ==
  ASSUME TypeOK, Leased, Started, Stored, [Next]_vars, NEW q \in Runs, task[q] = "completed"
  PROVE  task'[q] = "completed" /\ attempts'[q] = attempts[q] /\ ledger'[q] = "settled"
  <1>0. ledger[q] = "settled"
    BY DEF Stored
  <1>1. CASE ~\E s \in Servers, r \in Runs : TaskStep(s, r)
    BY <1>0, <1>1, TaskUnchanged
  <1>2. ASSUME NEW s \in Servers, NEW p \in Runs, CreateTargetedChild(s, p)
        PROVE  task'[q] = "completed" /\ UNCHANGED <<attempts, ledger>>
    <2>1. PICK r \in Runs : status[r] = "absent" /\ task' = [task EXCEPT ![r] = "queued"]
      BY <1>2 DEF CreateTargetedChild, IsNext
    <2>2. task[r] = "none" /\ UNCHANGED <<attempts, ledger>>
      BY <1>2, <2>1 DEF CreateTargetedChild, Started
    <2> QED
      BY <2>1, <2>2 DEF TypeOK
  <1>3. ASSUME NEW s \in Servers, NEW r \in Runs, ClaimTask(s, r)
        PROVE  /\ task'[q] = "completed" /\ attempts'[q] = attempts[q]
               /\ ledger'[q] = ledger[q]
    <2>1. q # r
      BY <1>3 DEF ClaimTask, Claimable
    <2>2. /\ task' = [task EXCEPT ![r] = "running"]
          /\ attempts' = [attempts EXCEPT ![r] = @ + 1]
          /\ ledger' = [ledger EXCEPT ![r] = IF @ = "none" THEN "reserved" ELSE @]
      BY <1>3 DEF ClaimTask, EnsureLedger
    <2> QED
      BY <2>1, <2>2 DEF TypeOK
  <1>4. ASSUME NEW s \in Servers, NEW r \in Runs, ClaimRefused(s, r)
        PROVE  /\ task'[q] = "completed" /\ attempts'[q] = attempts[q]
               /\ ledger'[q] = ledger[q]
    <2>1. /\ task' = [task EXCEPT ![r] = IF @ = "none" THEN "queued" ELSE @]
          /\ ledger' = [ledger EXCEPT ![r] = IF @ = "none" THEN "reserved" ELSE @]
          /\ UNCHANGED attempts
      BY <1>4 DEF ClaimRefused, EnsureLedger
    <2> QED
      BY <1>0, <2>1 DEF TypeOK
  <1>5. ASSUME NEW s \in Servers, NEW r \in Runs, NEW w \in BOOLEAN, SettleTask(s, r, w)
        PROVE  task'[q] = "completed" /\ attempts'[q] = attempts[q] /\ ledger'[q] = "settled"
    <2>1. /\ UNCHANGED attempts
          /\ \/ UNCHANGED <<task, ledger>>
             \/ /\ task' = [task EXCEPT ![r] = "completed"]
                /\ ledger' = [ledger EXCEPT ![r] = "settled"]
      BY <1>5 DEF SettleTask
    <2> QED
      BY <1>0, <2>1 DEF TypeOK
  <1>6. ASSUME NEW s \in Servers, NEW r \in Runs, ReleaseTask(s, r)
        PROVE  task'[q] = "completed" /\ UNCHANGED <<attempts, ledger>>
    <2>1. UNCHANGED <<attempts, ledger>>
      BY <1>6 DEF ReleaseTask
    <2>2. CASE UNCHANGED task
      BY <2>1, <2>2
    <2>3. CASE ~UNCHANGED task
      <3>1. /\ task[r] = "running"
            /\ \E x \in {"queued", "failed", "completed"} : task' = [task EXCEPT ![r] = x]
        BY <1>6, <2>3, TaskEnds
      <3> QED
        BY <2>1, <3>1 DEF TypeOK
    <2> QED
      BY <2>2, <2>3
  <1> QED
    BY <1>0, <1>1, <1>2, <1>3, <1>4, <1>5, <1>6 DEF TaskStep

(* A completed task is never claimed, released or charged again            *)
(* (claim_agent_graph_task, release_agent_graph_task).                     *)
THEOREM CompletionIsFinal == Spec => CompletedTaskIsFinal
  <1>1. Inv /\ [Next]_vars =>
          \A r \in Runs : task[r] = "completed" =>
            task'[r] = "completed" /\ attempts'[r] = attempts[r] /\ ledger'[r] = "settled"
    BY CompletedStays DEF Inv
  <1> QED
    BY <1>1, Invariance, PTL DEF Spec, CompletedTaskIsFinal

-----------------------------------------------------------------------------
(* The task table implements FencedTask.                                   *)

LEMMA FencedInit == Init => Fenced!Init
  <1> SUFFICES ASSUME Init PROVE Fenced!Init
    OBVIOUS
  <1>1. {r \in Runs : task[r] = "completed"} = {r \in Runs : ledger[r] = "settled"}
    BY DEF Init
  <1>2. attempts = [r \in Runs |-> IF r \in {q \in Runs : task[q] = "completed"}
                                  THEN 1 ELSE 0]
    BY DEF Init
  <1>3. owner = [r \in Runs |-> 0]
    BY DEF Init
  <1> QED
    BY <1>1, <1>2, <1>3 DEF Fenced!Init

(* Every step grants, gives back or finishes one task, or does nothing the *)
(* abstract specification can see.                                         *)
LEMMA FencedStep == Inv /\ [Next]_vars => [Fenced!Next]_Fenced!vars
  <1> SUFFICES ASSUME Inv, [Next]_vars PROVE [Fenced!Next]_Fenced!vars
    OBVIOUS
  <1> DEFINE fin == {r \in Runs : task[r] = "completed"}
             chg == {r \in Runs : ledger[r] = "settled"}
  <1>0. TypeOK /\ Started /\ Leased /\ Stored
    BY DEF Inv
  <1>a. ASSUME UNCHANGED <<attempts, owner>>, fin' = fin, chg' = chg
        PROVE  UNCHANGED Fenced!vars
    BY <1>a DEF Fenced!vars
  <1>1. CASE ~\E s \in Servers, r \in Runs : TaskStep(s, r)
    BY <1>1, <1>a, TaskUnchanged
  <1>2. ASSUME NEW s \in Servers, NEW p \in Runs, CreateTargetedChild(s, p)
        PROVE  UNCHANGED Fenced!vars
    <2>1. PICK r \in Runs : status[r] = "absent" /\ task' = [task EXCEPT ![r] = "queued"]
      BY <1>2 DEF CreateTargetedChild, IsNext
    <2>2. task[r] = "none" /\ UNCHANGED <<attempts, owner, ledger>>
      BY <1>0, <1>2, <2>1 DEF CreateTargetedChild, Started
    <2>3. fin' = fin /\ chg' = chg
      BY <1>0, <2>1, <2>2 DEF TypeOK
    <2> QED
      BY <1>a, <2>2, <2>3
  <1>3. ASSUME NEW s \in Servers, NEW r \in Runs, ClaimTask(s, r)
        PROVE  Fenced!Grant(r)
    <2>1. /\ task[r] # "completed" /\ attempts[r] < MaxAttempts
          /\ task' = [task EXCEPT ![r] = "running"]
          /\ attempts' = [attempts EXCEPT ![r] = @ + 1]
          /\ owner' = [owner EXCEPT ![r] = attempts[r] + 1]
          /\ ledger' = [ledger EXCEPT ![r] = IF @ = "none" THEN "reserved" ELSE @]
      BY <1>3 DEF ClaimTask, Claimable, EnsureLedger, FreshLeaseOwner
    <2>2. fin' = fin
      BY <1>0, <2>1 DEF TypeOK
    <2>3. chg' = chg
      BY <1>0, <2>1 DEF TypeOK
    <2> QED
      BY <2>1, <2>2, <2>3 DEF Fenced!Grant
  <1>4. ASSUME NEW s \in Servers, NEW r \in Runs, ClaimRefused(s, r)
        PROVE  UNCHANGED Fenced!vars
    <2>1. /\ task' = [task EXCEPT ![r] = IF @ = "none" THEN "queued" ELSE @]
          /\ ledger' = [ledger EXCEPT ![r] = IF @ = "none" THEN "reserved" ELSE @]
          /\ UNCHANGED <<attempts, owner>>
      BY <1>4 DEF ClaimRefused, EnsureLedger
    <2>2. fin' = fin
      BY <1>0, <2>1 DEF TypeOK
    <2>3. chg' = chg
      BY <1>0, <2>1 DEF TypeOK
    <2> QED
      BY <1>a, <2>1, <2>2, <2>3
  <1>5. ASSUME NEW s \in Servers, NEW r \in Runs, NEW w \in BOOLEAN, SettleTask(s, r, w)
        PROVE  Fenced!Finish(r) \/ UNCHANGED Fenced!vars
    <2>1. UNCHANGED attempts
      BY <1>5 DEF SettleTask
    <2>2. \/ UNCHANGED <<task, owner, ledger>>
          \/ /\ Holds(s, r)
             /\ task' = [task EXCEPT ![r] = "completed"]
             /\ owner' = [owner EXCEPT ![r] = 0]
             /\ ledger' = [ledger EXCEPT ![r] = "settled"]
      BY <1>5 DEF SettleTask
    <2>3. CASE UNCHANGED <<task, owner, ledger>>
      BY <1>a, <2>1, <2>3
    <2>4. CASE /\ Holds(s, r)
               /\ task' = [task EXCEPT ![r] = "completed"]
               /\ owner' = [owner EXCEPT ![r] = 0]
               /\ ledger' = [ledger EXCEPT ![r] = "settled"]
      <3>1. owner[r] # 0 /\ r \notin fin
        BY <1>0, <2>4, HolderRuns
      <3>2. fin' = fin \cup {r}
        BY <1>0, <2>4 DEF TypeOK
      <3>3. chg' = chg \cup {r}
        BY <1>0, <2>4 DEF TypeOK
      <3> QED
        BY <2>1, <2>4, <3>1, <3>2, <3>3 DEF Fenced!Finish
    <2> QED
      BY <2>2, <2>3, <2>4
  <1>6. ASSUME NEW s \in Servers, NEW r \in Runs, ReleaseTask(s, r)
        PROVE  Fenced!GiveBack(r) \/ UNCHANGED Fenced!vars
    <2>1. UNCHANGED <<attempts, ledger>>
      BY <1>6 DEF ReleaseTask
    <2>2. CASE ~Holds(s, r)
      BY <1>6, <1>a, <2>1, <2>2 DEF ReleaseTask
    <2>3. CASE Holds(s, r)
      <3>1. owner[r] # 0 /\ task[r] = "running"
        BY <1>0, <2>3, HolderRuns
      <3>2. owner' = [owner EXCEPT ![r] = 0]
        BY <1>6, <2>3 DEF ReleaseTask
      <3>3. PICK x \in {"queued", "failed"} : task' = [task EXCEPT ![r] = x]
        BY <1>6, <2>3 DEF ReleaseTask
      <3>4. fin' = fin
        BY <1>0, <3>1, <3>3 DEF TypeOK
      <3>5. chg' = chg
        BY <2>1
      <3> QED
        BY <2>1, <3>1, <3>2, <3>4, <3>5 DEF Fenced!GiveBack
    <2> QED
      BY <2>2, <2>3
  <1> QED
    BY <1>1, <1>2, <1>3, <1>4, <1>5, <1>6 DEF TaskStep, Fenced!Next

(* The task table, seen through its attempts, owners, completed tasks and  *)
(* settled budgets, is a table of fenced tasks: every execution of the     *)
(* servers is one of FencedTask.                                           *)
THEOREM FencedTaskImplemented == Spec => ImplementsFencedTask
  BY FencedInit, FencedStep, Invariance, PTL DEF Spec, ImplementsFencedTask, Fenced!Spec
-----------------------------------------------------------------------------
(* One server process.  Its only coroutine of a run holds the lease from   *)
(* the claim to the end; behind a stored result, in this attempt or by its *)
(* checkpoint, the run is completed, and nothing marks it running again.   *)
OneServer == \A s, t \in Servers : s = t
SoleAt(r) ==
  /\ checkpoint[r] = "done" => status[r] \notin Active \cup {"absent"}
  /\ task[r] = "completed" => status[r] = "completed"
  /\ \A s \in Servers :
       /\ pc[s][r] \in {"stored", "post"} => status[r] = "completed"
       /\ pc[s][r] = "mark" => checkpoint[r] # "done"
       /\ pc[s][r] \in Holding => Holds(s, r)
       /\ pc[s][r] = "fail" => task[r] # "completed" /\ attempts[r] = MaxAttempts
Sole == \A r \in Runs : SoleAt(r)

(* What is known of a run stays so where its row is left alone, but for    *)
(* its expiry, and its coroutines are.                                     *)
RowStays(r) ==
  /\ task'[r] = task[r] /\ owner'[r] = owner[r] /\ attempts'[r] = attempts[r]
  /\ checkpoint'[r] = checkpoint[r]
CoroutinesStay(r) == \A s \in Servers : pc'[s][r] = pc[s][r] /\ token'[s][r] = token[s][r]
EndsAtMost(r) ==
  status'[r] = status[r] \/ (status[r] \in Active /\ status'[r] \in {"failed", "cancelled"})

LEMMA SoleStays ==
  ASSUME NEW r \in Runs, SoleAt(r), RowStays(r), CoroutinesStay(r), EndsAtMost(r)
  PROVE  SoleAt(r)'
  BY DEF SoleAt, RowStays, CoroutinesStay, EndsAtMost, Active, Holds

(* A coroutine that is not executing the graph knows nothing.              *)
LEMMA SoleStops ==
  ASSUME NEW r \in Runs, SoleAt(r), RowStays(r), EndsAtMost(r),
         \A s \in Servers : \/ pc'[s][r] \in {"idle", "waiting", "claim", "giveup"}
                            \/ pc'[s][r] = pc[s][r] /\ token'[s][r] = token[s][r]
  PROVE  SoleAt(r)'
  BY DEF SoleAt, RowStays, EndsAtMost, Active, Holds, Holding, InGraph

(* A step of one coroutine leaves the other runs alone.                    *)
LEMMA OthersStay ==
  ASSUME TypeOK, NEW s \in Servers, NEW r \in Runs, NEW q \in Runs, q # r,
         CoroutineMoves(s, r) \/ RecordEvent(s, r) \/ \E g \in Graphs : Schedule(s, r, g)
  PROVE  RowStays(q) /\ CoroutinesStay(q) /\ EndsAtMost(q)
  <1> USE DEF Stop, Goto, runVars, taskVars, coVars
  <1>1. ASSUME NEW w \in BOOLEAN, SettleTask(s, r, w)
        PROVE  /\ token' = [token EXCEPT ![s][r] = 0]
               /\ RowStays(q) /\ EndsAtMost(q)
    BY <1>1 DEF SettleTask, TypeOK, RowStays, EndsAtMost
  <1>2. ASSUME NEW g \in Graphs, Schedule(s, r, g)
        PROVE  /\ token' = token /\ (pc' = pc \/ pc' = [pc EXCEPT ![s][r] = "waiting"])
               /\ RowStays(q) /\ EndsAtMost(q)
    BY <1>2 DEF Schedule, RowStays, EndsAtMost
  <1>3. token' = token \/ \E n : token' = [token EXCEPT ![s][r] = n]
    <2>1. CASE CancelCoroutine(s, r) \/ ClaimConflict(s, r) \/ GiveUp(s, r) \/ FailRun(s, r)
                 \/ CoroutineCrash(s, r) \/ ReleaseTask(s, r)
      BY <2>1 DEF CancelCoroutine, ClaimConflict, GiveUp, FailRun, CoroutineCrash, ReleaseTask
    <2>2. CASE ClaimTask(s, r)
      BY <2>2 DEF ClaimTask
    <2>3. CASE \/ AcquireSlot(s, r) \/ ClaimRefused(s, r) \/ BeginGraph(s, r)
               \/ MarkRunning(s, r) \/ SaveCheckpoint(s, r) \/ CompleteRun(s, r)
               \/ CompleteRunV2(s, r) \/ Raise(s, r) \/ RecordEvent(s, r)
      BY <2>3 DEF AcquireSlot, ClaimRefused, BeginGraph, MarkRunning, SaveCheckpoint, CompleteRun,
                  CompleteRunV2, Raise, RecordEvent
    <2> QED
      BY <1>1, <1>2, <2>1, <2>2, <2>3 DEF CoroutineMoves, Execute
  <1>4. pc' = pc \/ \E x : pc' = [pc EXCEPT ![s][r] = x]
    BY <1>2, OneCoroutineMoves DEF RecordEvent
  <1>5. CoroutinesStay(q)
    <2>1. ASSUME NEW t \in Servers, NEW n, token' = [token EXCEPT ![s][r] = n]
          PROVE  token'[t][q] = token[t][q]
      <3>1. token \in [Servers -> [Runs -> 0..MaxAttempts]]
        BY DEF TypeOK
      <3> QED  BY <2>1, <3>1, NestedUpdate
    <2>2. ASSUME NEW t \in Servers, NEW x, pc' = [pc EXCEPT ![s][r] = x]
          PROVE  pc'[t][q] = pc[t][q]
      <3>1. pc \in [Servers -> [Runs -> Steps]]
        BY DEF TypeOK
      <3> QED  BY <2>2, <3>1, NestedUpdate
    <2> QED  BY <1>3, <1>4, <2>1, <2>2 DEF CoroutinesStay
  <1>6. RowStays(q) /\ EndsAtMost(q)
    <2> USE DEF TypeOK, RowStays, EndsAtMost
    <2>1. CASE CancelCoroutine(s, r) \/ AcquireSlot(s, r) \/ CoroutineCrash(s, r)
                 \/ RecordEvent(s, r) \/ ClaimConflict(s, r) \/ Raise(s, r)
      BY <2>1 DEF CancelCoroutine, AcquireSlot, CoroutineCrash, RecordEvent, ClaimConflict, Raise
    <2>2. CASE ClaimTask(s, r)
      BY <2>2 DEF ClaimTask
    <2>3. CASE ClaimRefused(s, r)
      BY <2>3 DEF ClaimRefused
    <2>7. CASE GiveUp(s, r)
      BY <2>7 DEF GiveUp, ExpiredStatus
    <2>8. CASE FailRun(s, r)
      BY <2>8 DEF FailRun
    <2>4. CASE BeginGraph(s, r) \/ MarkRunning(s, r) \/ SaveCheckpoint(s, r)
      BY <2>4 DEF BeginGraph, MarkRunning, SaveCheckpoint
    <2>5. CASE CompleteRun(s, r) \/ CompleteRunV2(s, r)
      BY <2>5 DEF CompleteRun, CompleteRunV2, StoreResult
    <2>6. CASE ReleaseTask(s, r)
      BY <2>6 DEF ReleaseTask
    <2> QED
      BY <1>1, <1>2, <2>1, <2>2, <2>3, <2>4, <2>5, <2>6, <2>7, <2>8 DEF CoroutineMoves, Execute
  <1> QED
    BY <1>5, <1>6

(* The step of the only coroutine of a run.                                *)
LEMMA SoleMoves ==
  ASSUME OneServer, Inv, NEW s \in Servers, NEW r \in Runs, SoleAt(r),
         CoroutineMoves(s, r) \/ RecordEvent(s, r) \/ \E g \in Graphs : Schedule(s, r, g)
  PROVE  SoleAt(r)'
  <1> USE DEF TypeOK, Stop, Goto, runVars, taskVars, coVars
  <1>0. TypeOK /\ \A t \in Servers : t = s
    BY DEF Inv, OneServer
  <1>1. CASE CancelCoroutine(s, r) \/ AcquireSlot(s, r) \/ CoroutineCrash(s, r)
               \/ ClaimConflict(s, r)
    <2>1. pc'[s][r] \in {"idle", "claim"} /\ RowStays(r) /\ EndsAtMost(r)
      BY <1>0, <1>1 DEF CancelCoroutine, AcquireSlot, CoroutineCrash, ClaimConflict, RowStays, EndsAtMost
    <2> QED  BY <1>0, <2>1, SoleStops
  <1>2. CASE RecordEvent(s, r)
    BY <1>2, SoleStays DEF RecordEvent, RowStays, CoroutinesStay, EndsAtMost
  <1>3. ASSUME NEW g \in Graphs, Schedule(s, r, g)
        PROVE  SoleAt(r)'
    <2>1. /\ pc'[s][r] = "waiting" \/ (pc'[s][r] = pc[s][r] /\ token'[s][r] = token[s][r])
          /\ RowStays(r) /\ EndsAtMost(r)
      BY <1>0, <1>3 DEF Schedule, RowStays, EndsAtMost
    <2> QED  BY <1>0, <2>1, SoleStops
  <1>4. CASE GiveUp(s, r)
    <2>1. pc'[s][r] = "idle" /\ RowStays(r) /\ EndsAtMost(r)
      BY <1>0, <1>4 DEF GiveUp, ExpiredStatus, Stale, RowStays, EndsAtMost
    <2> QED  BY <1>0, <2>1, SoleStops
  <1>5. CASE ClaimTask(s, r)
    <2>1. /\ status' = status /\ checkpoint' = checkpoint /\ status[r] \in Active
          /\ task'[r] = "running" /\ pc'[s][r] = FirstStep(s, r)
          /\ owner'[r] = attempts[r] + 1 /\ token'[s][r] = attempts[r] + 1 /\ attempts[r] \in Nat
      BY <1>0, <1>5 DEF ClaimTask, Claimable, FreshLeaseOwner
    <2>2. checkpoint[r] # "done"
      BY <2>1 DEF SoleAt
    <2>3. FirstStep(s, r) \notin {"stored", "post", "fail"}
      BY <1>0, <2>2 DEF FirstStep
    <2> QED  BY <1>0, <2>1, <2>2, <2>3 DEF SoleAt, Holds
  <1>6. CASE ClaimRefused(s, r)
    <2>1. /\ status' = status /\ checkpoint' = checkpoint /\ pc'[s][r] = "giveup"
          /\ task'[r] = "completed" => task[r] = "completed"
      BY <1>0, <1>6 DEF ClaimRefused
    <2> QED  BY <1>0, <2>1 DEF SoleAt, Holding, InGraph
  <1>7. CASE BeginGraph(s, r)
    <2>1. /\ UNCHANGED <<status, task, owner, token>> /\ checkpoint'[r] = "started"
          /\ pc[s][r] = "begin" /\ pc'[s][r] = "mark"
      BY <1>0, <1>7 DEF BeginGraph
    <2> QED  BY <1>0, <2>1 DEF SoleAt, Holds, Holding, InGraph
  <1>8. CASE MarkRunning(s, r)
    <2>1. /\ UNCHANGED <<task, owner, token, checkpoint>> /\ pc[s][r] = "mark"
          /\ pc'[s][r] \in {"marked", "work"}
      BY <1>0, <1>8 DEF MarkRunning
    <2>2. Holds(s, r) /\ checkpoint[r] # "done"
      BY <2>1 DEF SoleAt, Holding, InGraph
    <2>3. task[r] = "running"
      BY <1>0, <2>2, HolderRuns DEF Inv
    <2> QED  BY <1>0, <2>1, <2>2, <2>3 DEF SoleAt, Holds
  <1>9. CASE SaveCheckpoint(s, r)
    <2>1. /\ UNCHANGED <<status, task, owner, token>> /\ pc[s][r] \in {"marked", "stored"}
          /\ pc[s][r] = "marked" => pc'[s][r] = "work" /\ checkpoint'[r] = "marked"
          /\ pc[s][r] = "stored" => pc'[s][r] = "post" /\ checkpoint'[r] = "done"
      BY <1>0, <1>9 DEF SaveCheckpoint
    <2> QED  BY <1>0, <2>1 DEF SoleAt, Holds, Holding, InGraph, Active
  <1>10. CASE CompleteRun(s, r) \/ CompleteRunV2(s, r)
    <2>1. /\ UNCHANGED <<task, owner, token, checkpoint>> /\ pc[s][r] = "work"
          /\ \/ status'[r] = "completed" /\ pc'[s][r] \in {"stored", "post"}
             \/ status'[r] = status[r] /\ pc'[s][r] = "release"
      BY <1>0, <1>10 DEF CompleteRun, CompleteRunV2, StoreResult
    <2> QED  BY <1>0, <2>1 DEF SoleAt, Holds, Holding, InGraph, Active
  <1>11. CASE Raise(s, r)
    <2>1. UNCHANGED <<status, task, owner, token, checkpoint>> /\ pc[s][r] \in InGraph /\ pc'[s][r] = "release"
      BY <1>0, <1>11 DEF Raise
    <2> QED  BY <1>0, <2>1 DEF SoleAt, Holds, Holding, InGraph
  <1>12. ASSUME NEW w \in BOOLEAN, SettleTask(s, r, w)
         PROVE  SoleAt(r)'
    <2>1. /\ UNCHANGED <<status, checkpoint>> /\ pc[s][r] = "post" /\ pc'[s][r] = "idle"
      BY <1>0, <1>12 DEF SettleTask
    <2>2. status[r] = "completed"
      BY <2>1 DEF SoleAt
    <2> QED  BY <1>0, <2>1, <2>2 DEF SoleAt, Holding, InGraph
  <1>13. CASE ReleaseTask(s, r)
    <2>1. Holds(s, r) /\ task[r] = "running" /\ attempts[r] \in 0..MaxAttempts
      BY <1>0, <1>13, HolderRuns DEF SoleAt, Inv, ReleaseTask, Holding
    <2>2. /\ UNCHANGED <<status, checkpoint, attempts>> /\ task'[r] \in {"queued", "failed"}
          /\ pc'[s][r] = IF AttemptsLeft(r) THEN "claim" ELSE "fail"
      BY <1>0, <1>13, <2>1 DEF ReleaseTask
    <2>3. ~AttemptsLeft(r) => attempts[r] = MaxAttempts
      BY <2>1, AttemptAssumption DEF AttemptsLeft
    <2> QED  BY <1>0, <2>1, <2>2, <2>3 DEF SoleAt, Holding, InGraph
  <1>14. CASE FailRun(s, r)
    <2>1. /\ UNCHANGED <<task, checkpoint>> /\ pc[s][r] = "fail" /\ pc'[s][r] = "idle"
          /\ status'[r] = "failed"
      BY <1>0, <1>14 DEF FailRun
    <2> QED  BY <1>0, <2>1 DEF SoleAt, Holding, InGraph, Active
  <1> QED
    BY <1>1, <1>2, <1>3, <1>4, <1>5, <1>6, <1>7, <1>8, <1>9, <1>10, <1>11, <1>12, <1>13, <1>14
    DEF CoroutineMoves, Execute

(* A run that gets its row has had no coroutine, task or checkpoint.       *)
LEMMA NewRowIsSole ==
  ASSUME Inv, NEW r \in Runs, SoleAt(r), status[r] = "absent", UNCHANGED <<pc, checkpoint>>,
         task'[r] \in {"none", "queued"}
  PROVE  SoleAt(r)'
  <1>1. checkpoint[r] # "done" /\ \A s \in Servers : pc[s][r] = "idle"
    BY DEF Inv, Started, SoleAt
  <1> QED
    BY <1>1 DEF SoleAt, Holding, InGraph

LEMMA SoleStep == OneServer /\ Inv /\ Sole /\ [Next]_vars => Sole'
  <1> SUFFICES ASSUME OneServer, Inv, Sole, [Next]_vars, NEW q \in Runs PROVE SoleAt(q)'
    BY DEF Sole
  <1>0. TypeOK /\ SoleAt(q)
    BY DEF Inv, Sole
  <1>1. ASSUME NEW s \in Servers, NEW a \in Alerts, NEW force \in BOOLEAN,
               ReuseRun(s, a, force)
        PROVE  SoleAt(q)'
    BY <1>0, <1>1, SoleStays
    DEF TypeOK, ReuseRun, ExpiredStatus, Stale, RowStays, CoroutinesStay, EndsAtMost, taskVars, coVars
  <1>2. ASSUME NEW s \in Servers, NEW a \in Alerts, NEW force \in BOOLEAN,
               ReserveRun(s, a, force)
        PROVE  SoleAt(q)'
    <2>1. PICK r \in Runs : IsNext(r) /\ status' = [ExpiredStatus(OfAlert(a)) EXCEPT ![r] = "queued"]
      BY <1>2 DEF ReserveRun
    <2>2. UNCHANGED <<taskVars, coVars>>
      BY <1>2 DEF ReserveRun
    <2>3. CASE q = r
      BY <1>0, <2>1, <2>2, <2>3, NewRowIsSole DEF IsNext, Inv, Started, taskVars, coVars
    <2>4. CASE q # r
      BY <1>0, <2>1, <2>2, <2>4, SoleStays
      DEF TypeOK, ExpiredStatus, Stale, RowStays, CoroutinesStay, EndsAtMost, taskVars, coVars
    <2> QED  BY <2>3, <2>4
  <1>3. ASSUME NEW s \in Servers, NEW p \in Runs, CreateTargetedChild(s, p)
        PROVE  SoleAt(q)'
    <2>1. PICK r \in Runs : /\ IsNext(r) /\ status' = [status EXCEPT ![r] = "queued"]
                            /\ task' = [task EXCEPT ![r] = "queued"]
      BY <1>3 DEF CreateTargetedChild
    <2>2. UNCHANGED <<owner, attempts, checkpoint, coVars>>
      BY <1>3 DEF CreateTargetedChild
    <2>3. CASE q = r
      BY <1>0, <2>1, <2>2, <2>3, NewRowIsSole DEF TypeOK, IsNext, coVars
    <2>4. CASE q # r
      BY <1>0, <2>1, <2>2, <2>4, SoleStays
      DEF TypeOK, RowStays, CoroutinesStay, EndsAtMost, coVars
    <2> QED  BY <2>3, <2>4
  <1>4. ASSUME NEW s \in Servers, NEW r \in Runs, ReviewRun(s, r) \/ CancelRun(s, r) \/ ReadRun(s, r)
        PROVE  SoleAt(q)'
    <2>1. RowStays(q) /\ CoroutinesStay(q)
      BY <1>4 DEF ReviewRun, CancelRun, ReadRun, RowStays, CoroutinesStay, taskVars, coVars
    <2>2. EndsAtMost(q)
      BY <1>0, <1>4 DEF TypeOK, ReviewRun, CancelRun, ReadRun, ExpiredStatus, Stale, EndsAtMost, Active
    <2> QED  BY <1>0, <2>1, <2>2, SoleStays
  <1>5. ASSUME NEW s \in Servers, NEW r \in Runs,
               CoroutineMoves(s, r) \/ RecordEvent(s, r) \/ \E g \in Graphs : Schedule(s, r, g)
        PROVE  SoleAt(q)'
    <2>1. CASE q = r  BY <1>0, <1>5, <2>1, SoleMoves
    <2>2. CASE q # r  BY <1>0, <1>5, <2>2, OthersStay, SoleStays
    <2> QED  BY <2>1, <2>2
  <1>6. ASSUME NEW s \in Servers, ServerCrash(s) \/ ServerStart(s)
        PROVE  SoleAt(q)'
    <2>1. RowStays(q) /\ EndsAtMost(q)
      BY <1>6 DEF ServerCrash, ServerStart, RowStays, EndsAtMost, runVars, taskVars
    <2>2. \A t \in Servers : \/ pc'[t][q] \in {"idle", "waiting", "claim", "giveup"}
                             \/ pc'[t][q] = pc[t][q] /\ token'[t][q] = token[t][q]
      <3>1. CASE ServerCrash(s)  BY <1>0, <3>1 DEF ServerCrash, TypeOK
      <3>2. CASE ServerStart(s)  BY <1>0, <3>2 DEF ServerStart, TypeOK
      <3> QED  BY <1>6, <3>1, <3>2
    <2> QED  BY <1>0, <2>1, <2>2, SoleStops
  <1>7. CASE Tick \/ UNCHANGED vars
    BY <1>0, <1>7, SoleStays
    DEF Tick, vars, RowStays, CoroutinesStay, EndsAtMost, runVars, taskVars, coVars
  <1> QED
    BY <1>1, <1>2, <1>3, <1>4, <1>5, <1>6, <1>7 DEF Next, CoroutineMoves

LEMMA SoleStarts == Init => Sole
  BY DEF Init, Sole, SoleAt, Holding, InGraph, Active, Runs

(* With one server process -- the deployment the repository documents -- a *)
(* run whose task is completed is completed itself: whatever expired or    *)
(* was cancelled meanwhile, complete_run notices (nodes_completion.py).    *)
(* And a run is failed by its coroutine only when its attempts are used up.*)
THEOREM OneServerSafety ==
  ASSUME OneServer
  PROVE  Spec => [](FinishedRunIsCompleted /\ FailsOnlyExhausted)
  <1>1. Inv /\ Sole /\ [Next]_vars => Sole'
    BY SoleStep
  <1>2. Sole => FinishedRunIsCompleted /\ FailsOnlyExhausted
    BY DEF Sole, SoleAt, FinishedRunIsCompleted, FailsOnlyExhausted
  <1> QED
    BY <1>1, <1>2, SoleStarts, Invariance, PTL DEF Spec
=============================================================================
