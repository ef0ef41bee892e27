----------------------------- MODULE AgentRuns ------------------------------
(***************************************************************************)
(* Agent runs and their execution.  The rows of agent_runs,                *)
(* agent_run_tasks and agent_budget_ledger are shared by every API server; *)
(* each server runs the graph of a run in a background coroutine, kept in  *)
(* its registry (_BACKGROUND_AGENT_TASKS), and loses all of them when it   *)
(* stops.  One action is one database transaction or one step a coroutine  *)
(* takes between two awaits.                                               *)
(*                                                                         *)
(* Run ids are numbers given out in creation order, so "ORDER BY           *)
(* created_at DESC" is the order of the ids.  A lease_owner uuid is fresh  *)
(* at every claim, and a claim increments attempt_count, so the attempt    *)
(* number stands for the uuid.  Time is counted in ticks: age[r] since     *)
(* updated_at of an active run, lease[r] until lease_expires_at.           *)
(***************************************************************************)
EXTENDS Integers, FiniteSets

CONSTANTS
  Servers,      \* API server processes
  Alerts,       \* rows of ops_alert_queue that runs are created for
  NoAlert,      \* the alert of a run that does not exist yet
  MaxRuns,      \* bound: runs created
  Legacy,       \* runs 1..Legacy were completed before migration 008
  MaxAttempts,  \* agent_run_tasks.max_attempts
  LeaseTerm,    \* TASK_LEASE_SECONDS, in ticks
  StaleAfter,   \* ACTIVE_AGENT_RUN_STALE_AFTER_SECONDS, in ticks
  Slots,        \* MAX_CONCURRENT_AGENT_RUNS
  MaxReviews,   \* bound: operator reviews of a run
  MaxFaults     \* bound: server crashes and coroutine crashes

ASSUME CountAssumption == MaxRuns \in Nat /\ Legacy \in 0..MaxRuns
                          /\ MaxReviews \in Nat /\ MaxFaults \in Nat /\ Slots \in Nat \ {0}
ASSUME AttemptAssumption == MaxAttempts \in Nat \ {0}
ASSUME TermAssumption == LeaseTerm \in Nat \ {0} /\ StaleAfter \in Nat
                         /\ LeaseTerm < StaleAfter
ASSUME AlertAssumption == NoAlert \notin Alerts

Runs == 1..MaxRuns
NoRun == 0
DepthLimit == 2     \* reserve_agent_run and rerun_block_status

Active == {"queued", "running"}
Statuses == Active \cup {"absent", "completed", "failed", "cancelled"}

(* How a coroutine was scheduled: the create route passes no compiled      *)
(* graph, so it runs without a checkpointer; startup passes the            *)
(* checkpointed v1 graph; targeted children always run the v2 graph.       *)
Graphs == {"plain", "durable", "v2"}

VARIABLES
  \* agent_runs
  status,      \* status[r]
  lineage,     \* lineage[r]: alert_id, parent_run_id, root_run_id, lineage_depth, task_key
  output,      \* the runs whose ops_output has been written
  age,         \* age[r]: ticks since updated_at
  \* agent_run_tasks, checkpoints, agent_budget_ledger
  task,        \* task[r]: status of the run's task, "none" before the first claim
  owner,       \* owner[r]: lease_owner, 0 for NULL
  lease,       \* lease[r]: ticks until lease_expires_at
  attempts,    \* attempts[r]: attempt_count
  checkpoint,  \* checkpoint[r]: last checkpoint of the v1 graph
  ledger,      \* ledger[r]: parent row of the token budget
  \* one server process
  up,          \* the servers that run
  requested,   \* requested[s]: <<run, graph>> a route handler is about to schedule
  cancelling,  \* cancelling[s]: runs whose cancel handler has committed
  pc,          \* pc[s][r]: where the coroutine of run r is
  token,       \* token[s][r]: the lease_owner it claimed with
  graph,       \* graph[s][r]: the graph it was scheduled with
  \* what the bounds count
  reviews,
  faults

runVars  == <<status, lineage, output, age>>
taskVars == <<task, owner, lease, attempts, checkpoint, ledger>>
coVars   == <<pc, token, graph>>
hostVars == <<up, requested, cancelling, reviews, faults>>
vars == <<runVars, taskVars, coVars, hostVars>>

InGraph == {"begin", "mark", "marked", "work", "stored", "post"}  \* the runner's try
Holding == InGraph \cup {"release"}                               \* a claim was granted
Steps == Holding \cup {"idle", "waiting", "claim", "giveup", "fail"}

Lineages == [alert : Alerts \cup {NoAlert}, parent : 0..MaxRuns,
             root : 0..MaxRuns, depth : 0..DepthLimit, key : {"v1", "v2"}]
NoLineage == [alert |-> NoAlert, parent |-> NoRun, root |-> NoRun, depth |-> 0,
              key |-> "v1"]

(* The trees migration 008 leaves behind: it derives root and depth from   *)
(* the parents, and refuses to finish when a depth exceeds the limit.      *)
LegacyRows == [alert : Alerts, parent : 0..Legacy, root : 1..Legacy,
               depth : 0..DepthLimit, key : {"v1"}]
Backfilled(l, r) ==
  LET p == l[r].parent IN
  IF p = NoRun THEN l[r].root = r /\ l[r].depth = 0
  ELSE /\ p < r
       /\ l[r].alert = l[p].alert
       /\ l[r].root = l[p].root
       /\ l[r].depth = l[p].depth + 1

Init ==
  /\ \E l \in [1..Legacy -> LegacyRows] :
       /\ \A r \in 1..Legacy : Backfilled(l, r)
       /\ lineage = [r \in Runs |-> IF r \in 1..Legacy THEN l[r] ELSE NoLineage]
  /\ status = [r \in Runs |-> IF r \in 1..Legacy THEN "completed" ELSE "absent"]
  /\ output = 1..Legacy
  /\ age = [r \in Runs |-> 0]
  /\ task = [r \in Runs |-> IF r \in 1..Legacy THEN "completed" ELSE "none"]
  /\ ledger = [r \in Runs |-> IF r \in 1..Legacy THEN "settled" ELSE "none"]
  /\ attempts = [r \in Runs |-> IF r \in 1..Legacy THEN 1 ELSE 0]
  /\ owner = [r \in Runs |-> 0]
  /\ lease = [r \in Runs |-> 0]
  /\ checkpoint = [r \in Runs |-> "none"]
  /\ up = Servers
  /\ requested = [s \in Servers |-> {}]
  /\ cancelling = [s \in Servers |-> {}]
  /\ pc = [s \in Servers |-> [r \in Runs |-> "idle"]]
  /\ token = [s \in Servers |-> [r \in Runs |-> 0]]
  /\ graph = [s \in Servers |-> [r \in Runs |-> "plain"]]
  /\ reviews = 0
  /\ faults = 0

-----------------------------------------------------------------------------
(* Some operators have a variant marked "seeded fault": what a plausible   *)
(* slip in the code would make of them.  No specification uses it; it      *)
(* shows that the property named with it can fail.                         *)

(* Seeded fault: only running runs expire (EveryRunEnds).                  *)
StaleIfRunning(r) == status[r] = "running" /\ age[r] = StaleAfter

(* Expiry is done by readers: any run of the set that is active and stale  *)
(* becomes failed.                                                         *)
Stale(r) == status[r] \in Active /\ age[r] = StaleAfter
ExpiredStatus(R) == [r \in Runs |-> IF r \in R /\ Stale(r) THEN "failed" ELSE status[r]]
ExpiredAge(R) == [r \in Runs |-> IF r \in R /\ Stale(r) THEN 0 ELSE age[r]]

OfAlert(a) == {r \in Runs : lineage[r].alert = a}

(* The newest run of the alert that has not failed, once stale ones are.   *)
Reusable(a) == {r \in OfAlert(a) : ExpiredStatus(OfAlert(a))[r] \notin {"absent", "failed"}}
IsNewest(r, R) == r \in R /\ \A q \in R : q <= r
IsNext(r) == status[r] = "absent" /\ \A q \in Runs : q < r => status[q] # "absent"

(* Seeded fault: a child is the root of a tree of its own (LineageTree).   *)
ChildOwnTree(p, r, a, key) ==
  [alert |-> a, parent |-> p, key |-> key, root |-> r,
   depth |-> IF p = NoRun THEN 0 ELSE lineage[p].depth + 1]

(* The row a new run gets from its parent (NoRun: the root of a lineage).  *)
ChildOf(p, r, a, key) ==
  [alert |-> a, parent |-> p, key |-> key,
   root  |-> IF p = NoRun THEN r ELSE lineage[p].root,
   depth |-> IF p = NoRun THEN 0 ELSE lineage[p].depth + 1]

(* Seeded fault: no rollover to a new lineage (RunsStayTrees).             *)
ParentAlways(n) == n

(* A rerun of a run at the depth limit starts a lineage of its own.        *)
ParentFor(n) == IF lineage[n].depth >= DepthLimit THEN NoRun ELSE n

(* POST /agent-runs: the newest run that has not failed is handed back ... *)
ReuseRun(s, a, force) ==
  LET expired == ExpiredStatus(OfAlert(a)) IN
  /\ s \in up
  /\ \E r \in Reusable(a) :
       /\ IsNewest(r, Reusable(a))
       /\ expired[r] \in Active \/ ~force
       /\ requested' = IF expired[r] = "queued"
                       THEN [requested EXCEPT ![s] = @ \cup {<<r, "plain">>}]
                       ELSE requested
  /\ status' = expired
  /\ age' = ExpiredAge(OfAlert(a))
  /\ UNCHANGED <<lineage, output, taskVars, coVars, up, cancelling, reviews, faults>>

(* ... or a new one is queued, child of the newest unless the lineage is   *)
(* at its depth limit.                                                     *)
ReserveRun(s, a, force) ==
  LET expired == ExpiredStatus(OfAlert(a)) IN
  /\ s \in up
  /\ \E r \in Runs, p \in {NoRun} \cup Reusable(a) :
       /\ IsNext(r)
       /\ IF Reusable(a) = {} THEN p = NoRun
          ELSE \E n \in Reusable(a) :
                 /\ IsNewest(n, Reusable(a))
                 /\ force /\ expired[n] \notin Active
                 /\ p = ParentFor(n)
       /\ lineage' = [lineage EXCEPT ![r] = ChildOf(p, r, a, "v1")]
       /\ status' = [expired EXCEPT ![r] = "queued"]
       /\ age' = ExpiredAge(OfAlert(a))
       /\ requested' = [requested EXCEPT ![s] = @ \cup {<<r, "plain">>}]
  /\ UNCHANGED <<output, taskVars, coVars, up, cancelling, reviews, faults>>

(* An operator reviews a run, whatever its status: record_review touches   *)
(* the row.                                                                *)
Reviewed(s, p) ==
  /\ s \in up
  /\ status[p] # "absent"
  /\ reviews < MaxReviews
  /\ reviews' = reviews + 1
  /\ age' = [age EXCEPT ![p] = 0]

ReviewRun(s, p) ==
  /\ Reviewed(s, p)
  /\ UNCHANGED <<status, lineage, output, taskVars, coVars, up, requested,
                 cancelling, faults>>

(* A review that asks for a targeted rerun of a run whose input snapshot   *)
(* is available (legacy runs, reconstructed by migration 008, and v2       *)
(* children) inserts the child and its task in the same transaction.       *)
InputAvailable(r) == r \in 1..Legacy \/ lineage[r].key = "v2"

CreateTargetedChild(s, p) ==
  /\ Reviewed(s, p)
  /\ InputAvailable(p)
  /\ lineage[p].depth < DepthLimit
  /\ \E r \in Runs :
       /\ IsNext(r)
       /\ lineage' = [lineage EXCEPT ![r] = ChildOf(p, r, lineage[p].alert, "v2")]
       /\ status' = [status EXCEPT ![r] = "queued"]
       /\ task' = [task EXCEPT ![r] = "queued"]
       /\ requested' = [requested EXCEPT ![s] = @ \cup {<<r, "v2">>}]
  /\ UNCHANGED <<output, owner, lease, attempts, checkpoint, ledger, coVars,
                 up, cancelling, faults>>

(* The route handler schedules, unless the registry already has the run.   *)
Schedule(s, r, g) ==
  /\ <<r, g>> \in requested[s]
  /\ requested' = [requested EXCEPT ![s] = @ \ {<<r, g>>}]
  /\ IF pc[s][r] = "idle"
     THEN /\ pc' = [pc EXCEPT ![s][r] = "waiting"]
          /\ graph' = [graph EXCEPT ![s][r] = g]
     ELSE UNCHANGED <<pc, graph>>
  /\ UNCHANGED <<runVars, taskVars, token, up, cancelling, reviews, faults>>

(* POST /agent-runs/{run_id}/cancel: the row first ...                     *)
CancelRun(s, r) ==
  /\ s \in up
  /\ status[r] = "queued"
  /\ status' = [status EXCEPT ![r] = "cancelled"]
  /\ age' = [age EXCEPT ![r] = 0]
  /\ cancelling' = [cancelling EXCEPT ![s] = @ \cup {r}]
  /\ UNCHANGED <<lineage, output, taskVars, coVars, up, requested, reviews, faults>>

Stop(s, r) ==
  /\ pc' = [pc EXCEPT ![s][r] = "idle"]
  /\ token' = [token EXCEPT ![s][r] = 0]
  /\ graph' = [graph EXCEPT ![s][r] = "plain"]

(* ... then the coroutine, if this server has one.                         *)
CancelCoroutine(s, r) ==
  /\ r \in cancelling[s]
  /\ cancelling' = [cancelling EXCEPT ![s] = @ \ {r}]
  /\ Stop(s, r)
  /\ UNCHANGED <<runVars, taskVars, up, requested, reviews, faults>>

(* GET /agent-runs/{run_id}, and the 409 path of cancel.                   *)
ReadRun(s, r) ==
  /\ s \in up
  /\ Stale(r)
  /\ status' = ExpiredStatus({r})
  /\ age' = ExpiredAge({r})
  /\ UNCHANGED <<lineage, output, taskVars, coVars, hostVars>>
-----------------------------------------------------------------------------
Goto(s, r, step) == pc' = [pc EXCEPT ![s][r] = step]

(* The semaphore of the process.  Its FIFO order is left open.             *)
AcquireSlot(s, r) ==
  /\ pc[s][r] = "waiting"
  /\ Cardinality({q \in Runs : pc[s][q] \notin {"idle", "waiting"}}) < Slots
  /\ Goto(s, r, "claim")
  /\ UNCHANGED <<runVars, taskVars, token, graph, hostVars>>

(* Seeded fault: the attempts are not counted (TypeOK).                    *)
ClaimableForever(r) ==
  /\ task[r] # "completed"
  /\ status[r] \in Active
  /\ task[r] = "running" => lease[r] = 0

(* claim_agent_graph_task.  The task row and the ledger row are inserted   *)
(* even when the claim itself is refused.                                  *)
Claimable(r) ==
  /\ task[r] # "completed"
  /\ attempts[r] < MaxAttempts
  /\ status[r] \in Active
  /\ task[r] = "running" => lease[r] = 0

(* A claim under the v1 key of a run whose task has the v2 key breaks      *)
(* UNIQUE (operation_key): the transaction rolls back, the coroutine dies. *)
KeyConflict(s, r) == lineage[r].key = "v2" /\ graph[s][r] # "v2"

EnsureLedger(r) == ledger' = [ledger EXCEPT ![r] = IF @ = "none" THEN "reserved" ELSE @]

(* Where execution starts: a retry of a checkpointed run resumes behind    *)
(* its last checkpoint; resuming without a checkpointer raises.            *)
FirstStep(s, r) ==
  CASE graph[s][r] = "v2" -> "work"
    [] graph[s][r] = "plain" -> IF checkpoint[r] = "none" THEN "mark" ELSE "release"
    [] OTHER -> CASE checkpoint[r] = "none" -> "begin"
                  [] checkpoint[r] = "started" -> "mark"
                  [] checkpoint[r] = "marked" -> "work"
                  [] OTHER -> "post"

(* Seeded fault: one lease_owner for all claims (OneLeaseHolder).          *)
SharedLeaseOwner(r) == 1

(* lease_owner = uuid4(), and what the holder of a lease is recognised by. *)
FreshLeaseOwner(r) == attempts[r] + 1

(* Seeded fault: any lease will do (OnlyHolderEnds).                       *)
HoldsAny(s, r) == owner[r] # 0

Holds(s, r) == owner[r] # 0 /\ owner[r] = token[s][r]

ClaimTask(s, r) ==
  /\ pc[s][r] = "claim"
  /\ ~KeyConflict(s, r)
  /\ Claimable(r)
  /\ task' = [task EXCEPT ![r] = "running"]
  /\ attempts' = [attempts EXCEPT ![r] = @ + 1]
  /\ owner' = [owner EXCEPT ![r] = FreshLeaseOwner(r)]
  /\ lease' = [lease EXCEPT ![r] = LeaseTerm]
  /\ EnsureLedger(r)
  /\ token' = [token EXCEPT ![s][r] = FreshLeaseOwner(r)]
  /\ Goto(s, r, FirstStep(s, r))
  /\ UNCHANGED <<runVars, checkpoint, graph, hostVars>>

ClaimRefused(s, r) ==
  /\ pc[s][r] = "claim"
  /\ ~KeyConflict(s, r)
  /\ ~Claimable(r)
  /\ task' = [task EXCEPT ![r] = IF @ = "none" THEN "queued" ELSE @]
  /\ EnsureLedger(r)
  /\ Goto(s, r, "giveup")
  /\ UNCHANGED <<runVars, owner, lease, attempts, checkpoint, token, graph, hostVars>>

ClaimConflict(s, r) ==
  /\ pc[s][r] = "claim"
  /\ KeyConflict(s, r)
  /\ Stop(s, r)
  /\ UNCHANGED <<runVars, taskVars, hostVars>>

(* A refused coroutine reads the run once (which may expire it) and ends.  *)
GiveUp(s, r) ==
  /\ pc[s][r] = "giveup"
  /\ status' = ExpiredStatus({r})
  /\ age' = ExpiredAge({r})
  /\ Stop(s, r)
  /\ UNCHANGED <<lineage, output, taskVars, hostVars>>

(* The checkpointed graph stores its input before the first node.          *)
BeginGraph(s, r) ==
  /\ pc[s][r] = "begin"
  /\ checkpoint' = [checkpoint EXCEPT ![r] = "started"]
  /\ Goto(s, r, "mark")
  /\ UNCHANGED <<runVars, task, owner, lease, attempts, ledger, token, graph, hostVars>>

(* Node mark_running of the v1 graph: the UPDATE has no status guard.      *)
MarkRunning(s, r) ==
  /\ pc[s][r] = "mark"
  /\ status' = [status EXCEPT ![r] = "running"]
  /\ age' = [age EXCEPT ![r] = 0]
  /\ Goto(s, r, IF graph[s][r] = "durable" THEN "marked" ELSE "work")
  /\ UNCHANGED <<lineage, output, taskVars, token, graph, hostVars>>

(* A v1 node that records an event refreshes updated_at; v2 stages do not. *)
RecordEvent(s, r) ==
  /\ pc[s][r] = "work"
  /\ graph[s][r] # "v2"
  /\ age[r] > 0
  /\ age' = [age EXCEPT ![r] = 0]
  /\ UNCHANGED <<status, lineage, output, taskVars, coVars, hostVars>>

(* Node complete_run of the v1 graph: guarded, raises when the run is no   *)
(* longer active.                                                          *)
StoreResult(r) ==
  /\ status' = [status EXCEPT ![r] = "completed"]
  /\ output' = output \cup {r}
  /\ age' = [age EXCEPT ![r] = 0]

(* Seeded fault: not noticing that no row was updated                      *)
(* (FinishedRunIsCompleted).                                               *)
CompleteRunUnnoticed(s, r) ==
  /\ pc[s][r] = "work"
  /\ graph[s][r] # "v2"
  /\ Goto(s, r, IF graph[s][r] = "durable" THEN "stored" ELSE "post")
  /\ IF status[r] \in Active THEN StoreResult(r) ELSE UNCHANGED <<status, output, age>>
  /\ UNCHANGED <<lineage, taskVars, token, graph, hostVars>>

CompleteRun(s, r) ==
  /\ pc[s][r] = "work"
  /\ graph[s][r] # "v2"
  /\ IF status[r] \in Active
     THEN /\ StoreResult(r)
          /\ Goto(s, r, IF graph[s][r] = "durable" THEN "stored" ELSE "post")
     ELSE Goto(s, r, "release") /\ UNCHANGED <<status, output, age>>
  /\ UNCHANGED <<lineage, taskVars, token, graph, hostVars>>

(* The checkpointer stores the outcome of a node after the node's own      *)
(* transaction.                                                            *)
SaveCheckpoint(s, r) ==
  /\ pc[s][r] \in {"marked", "stored"}
  /\ checkpoint' = [checkpoint EXCEPT ![r] = IF pc[s][r] = "marked" THEN "marked" ELSE "done"]
  /\ Goto(s, r, IF pc[s][r] = "marked" THEN "work" ELSE "post")
  /\ UNCHANGED <<runVars, task, owner, lease, attempts, ledger, token, graph, hostVars>>

(* persist_completed_v2_run: no guard.                                     *)
CompleteRunV2(s, r) ==
  /\ pc[s][r] = "work"
  /\ graph[s][r] = "v2"
  /\ StoreResult(r)
  /\ Goto(s, r, "post")
  /\ UNCHANGED <<lineage, taskVars, token, graph, hostVars>>

(* Anything between claim and completion may raise inside the try.         *)
Raise(s, r) ==
  /\ pc[s][r] \in InGraph
  /\ Goto(s, r, "release")
  /\ UNCHANGED <<runVars, taskVars, token, graph, hostVars>>

(* Seeded fault: task and budget in two transactions (SettledWithResult,   *)
(* ImplementsFencedTask).                                                  *)
SettleTaskInTwo(s, r, withinLimit) ==
  /\ pc[s][r] = "post"
  /\ Stop(s, r)
  /\ IF Holds(s, r)
     THEN /\ task' = [task EXCEPT ![r] = "completed"]
          /\ owner' = [owner EXCEPT ![r] = 0]
          /\ lease' = [lease EXCEPT ![r] = 0]
          /\ ledger' = [ledger EXCEPT ![r] = IF withinLimit THEN "settled" ELSE @]
     ELSE UNCHANGED <<task, owner, lease, ledger>>
  /\ UNCHANGED <<runVars, attempts, checkpoint, hostVars>>

(* complete_agent_graph_task: the holder of the lease, however late,       *)
(* completes the task and settles the budget; a lost lease or an exceeded  *)
(* token limit rolls both back and ends the coroutine.                     *)
SettleTask(s, r, withinLimit) ==
  /\ pc[s][r] = "post"
  /\ Stop(s, r)
  /\ IF Holds(s, r) /\ ledger[r] = "reserved" /\ withinLimit
     THEN /\ task' = [task EXCEPT ![r] = "completed"]
          /\ owner' = [owner EXCEPT ![r] = 0]
          /\ lease' = [lease EXCEPT ![r] = 0]
          /\ ledger' = [ledger EXCEPT ![r] = "settled"]
     ELSE UNCHANGED <<task, owner, lease, ledger>>
  /\ UNCHANGED <<runVars, attempts, checkpoint, hostVars>>

(* Seeded fault: the last attempt is not granted (FailsOnlyExhausted).     *)
AttemptsButOne(r) == attempts[r] + 1 < MaxAttempts

AttemptsLeft(r) == attempts[r] < MaxAttempts

(* release_agent_graph_task, then another claim or fail_agent_run.         *)
ReleaseTask(s, r) ==
  /\ pc[s][r] = "release"
  /\ IF Holds(s, r)
     THEN /\ task' = [task EXCEPT ![r] = IF AttemptsLeft(r) THEN "queued" ELSE "failed"]
          /\ owner' = [owner EXCEPT ![r] = 0]
          /\ lease' = [lease EXCEPT ![r] = 0]
     ELSE UNCHANGED <<task, owner, lease>>
  /\ Goto(s, r, IF Holds(s, r) /\ AttemptsLeft(r) THEN "claim" ELSE "fail")
  /\ token' = [token EXCEPT ![s][r] = 0]
  /\ UNCHANGED <<runVars, attempts, checkpoint, ledger, graph, hostVars>>

(* fail_agent_run: no status guard.                                        *)
FailRun(s, r) ==
  /\ pc[s][r] = "fail"
  /\ status' = [status EXCEPT ![r] = "failed"]
  /\ age' = [age EXCEPT ![r] = 0]
  /\ Stop(s, r)
  /\ UNCHANGED <<lineage, output, taskVars, hostVars>>

(* A database error outside the try ends the coroutine; it is only logged. *)
CoroutineCrash(s, r) ==
  /\ pc[s][r] \in {"claim", "giveup", "release", "fail"}
  /\ faults < MaxFaults
  /\ faults' = faults + 1
  /\ Stop(s, r)
  /\ UNCHANGED <<runVars, taskVars, up, requested, cancelling, reviews>>
-----------------------------------------------------------------------------
(* A server stops: coroutines, registry and pending handlers are gone.     *)
ServerCrash(s) ==
  /\ s \in up
  /\ faults < MaxFaults
  /\ faults' = faults + 1
  /\ up' = up \ {s}
  /\ requested' = [requested EXCEPT ![s] = {}]
  /\ cancelling' = [cancelling EXCEPT ![s] = {}]
  /\ pc' = [pc EXCEPT ![s] = [r \in Runs |-> "idle"]]
  /\ token' = [token EXCEPT ![s] = [r \in Runs |-> 0]]
  /\ graph' = [graph EXCEPT ![s] = [r \in Runs |-> "plain"]]
  /\ UNCHANGED <<runVars, taskVars, reviews>>

(* lifespan -> resume_reclaimable_agent_runs.                              *)
Reclaimable(r) ==
  /\ task[r] = "queued" \/ (task[r] = "running" /\ lease[r] = 0)
  /\ attempts[r] < MaxAttempts
  /\ status[r] \in Active

ServerStart(s) ==
  /\ s \notin up
  /\ up' = up \cup {s}
  /\ pc' = [pc EXCEPT ![s] =
              [r \in Runs |-> IF Reclaimable(r) THEN "waiting" ELSE "idle"]]
  /\ graph' = [graph EXCEPT ![s] =
                 [r \in Runs |-> IF ~Reclaimable(r) THEN "plain"
                                 ELSE IF lineage[r].key = "v2" THEN "v2" ELSE "durable"]]
  /\ UNCHANGED <<runVars, taskVars, token, requested, cancelling, reviews, faults>>

Tick ==
  /\ \E r \in Runs : lease[r] > 0 \/ (status[r] \in Active /\ age[r] < StaleAfter)
  /\ lease' = [r \in Runs |-> IF lease[r] > 0 THEN lease[r] - 1 ELSE 0]
  /\ age' = [r \in Runs |-> IF status[r] \in Active /\ age[r] < StaleAfter
                            THEN age[r] + 1 ELSE age[r]]
  /\ UNCHANGED <<status, lineage, output, task, owner, attempts, checkpoint, ledger,
                 coVars, hostVars>>

(* One step of the coroutine of run r in server s.                         *)
Execute(s, r) ==
  \/ ClaimTask(s, r) \/ ClaimRefused(s, r) \/ ClaimConflict(s, r) \/ GiveUp(s, r)
  \/ BeginGraph(s, r) \/ MarkRunning(s, r) \/ SaveCheckpoint(s, r)
  \/ CompleteRun(s, r) \/ CompleteRunV2(s, r) \/ Raise(s, r)
  \/ \E withinLimit \in BOOLEAN : SettleTask(s, r, withinLimit)
  \/ ReleaseTask(s, r) \/ FailRun(s, r)

Next ==
  \/ \E s \in Servers, a \in Alerts, force \in BOOLEAN :
       ReuseRun(s, a, force) \/ ReserveRun(s, a, force)
  \/ \E s \in Servers, r \in Runs :
       \/ ReviewRun(s, r) \/ CreateTargetedChild(s, r)
       \/ \E g \in Graphs : Schedule(s, r, g)
       \/ CancelRun(s, r) \/ CancelCoroutine(s, r) \/ ReadRun(s, r)
       \/ AcquireSlot(s, r) \/ Execute(s, r)
       \/ RecordEvent(s, r) \/ CoroutineCrash(s, r)
  \/ \E s \in Servers : ServerCrash(s) \/ ServerStart(s)
  \/ Tick

Spec == Init /\ [][Next]_vars

(* Fairness.  Coroutines and handlers of a live process are scheduled by   *)
(* its event loop; the semaphore is FIFO, hence the strong fairness; a     *)
(* stopped server is restarted; time passes; and the operations console    *)
(* polls the status of the runs it shows.  Nothing forces a fault, a       *)
(* request, a cancellation, an exception or an event.                      *)
CoroutineStep(s, r) == Execute(s, r) \/ CancelCoroutine(s, r)

Fairness ==
  /\ \A s \in Servers : WF_vars(ServerStart(s))
  /\ \A s \in Servers, r \in Runs :
       /\ WF_vars(CoroutineStep(s, r))
       /\ SF_vars(AcquireSlot(s, r))
       /\ \A g \in Graphs : WF_vars(Schedule(s, r, g))
  /\ \A r \in Runs : WF_vars(\E s \in Servers : ReadRun(s, r))
  /\ WF_vars(Tick)

FairSpec == Spec /\ Fairness
-----------------------------------------------------------------------------
TypeOK ==
  /\ status \in [Runs -> Statuses]
  /\ lineage \in [Runs -> Lineages]
  /\ output \subseteq Runs
  /\ age \in [Runs -> 0..StaleAfter]
  /\ task \in [Runs -> {"none", "queued", "running", "completed", "failed"}]
  /\ owner \in [Runs -> 0..MaxAttempts]
  /\ lease \in [Runs -> 0..LeaseTerm]
  /\ attempts \in [Runs -> 0..MaxAttempts]
  /\ checkpoint \in [Runs -> {"none", "started", "marked", "done"}]
  /\ ledger \in [Runs -> {"none", "reserved", "settled"}]
  /\ up \subseteq Servers
  /\ requested \in [Servers -> SUBSET (Runs \X Graphs)]
  /\ cancelling \in [Servers -> SUBSET Runs]
  /\ pc \in [Servers -> [Runs -> Steps]]
  /\ token \in [Servers -> [Runs -> 0..MaxAttempts]]
  /\ graph \in [Servers -> [Runs -> Graphs]]
  /\ reviews \in 0..MaxReviews
  /\ faults \in 0..MaxFaults

(* The lease of a task is held by at most one coroutine of all servers,    *)
(* and only while the task is running: however many coroutines execute the *)
(* same run after a lease has expired, the database knows one of them.     *)
HoldsLease(s, r) == pc[s][r] \in Holding /\ owner[r] # 0 /\ token[s][r] = owner[r]
OneLeaseHolder ==
  \A r \in Runs : \A s, t \in Servers :
    HoldsLease(s, r) /\ HoldsLease(t, r) => s = t /\ task[r] = "running"

(* A running task is completed or released by the step of a coroutine that *)
(* holds its lease, never by a late worker that has lost it.               *)
OnlyHolderEnds ==
  [][\A r \in Runs : task[r] = "running" /\ task'[r] # "running" =>
       \E s \in Servers : HoldsLease(s, r) /\ pc'[s][r] \notin Holding]_vars

(* The budget of a run is settled exactly when its task is completed, and  *)
(* only for a run whose result has been stored: a crash, a lost lease or   *)
(* an exceeded token limit between complete_run and                        *)
(* complete_agent_graph_task never leaves one without the other.           *)
SettledWithResult ==
  \A r \in Runs : /\ task[r] = "completed" <=> ledger[r] = "settled"
                  /\ task[r] = "completed" => r \in output /\ owner[r] = 0

(* Reruns, manual or targeted, form shallow trees of one alert: a child is *)
(* newer than its parent, one level deeper, never deeper than two, and     *)
(* shares its root and alert -- whatever order reservations, failures and  *)
(* reviews come in.                                                        *)
LineageTree ==
  \A r \in Runs : status[r] # "absent" =>
    LET p == lineage[r].parent IN
    IF p = NoRun THEN lineage[r].root = r /\ lineage[r].depth = 0
    ELSE /\ p < r /\ status[p] # "absent"
         /\ lineage[r].alert = lineage[p].alert
         /\ lineage[r].root = lineage[p].root
         /\ lineage[r].depth = lineage[p].depth + 1
         /\ lineage[r].depth <= DepthLimit

(* A completed task is final: no late worker, retry or restart is granted  *)
(* another attempt at it, and its settled budget is never charged again.   *)
CompletedTaskIsFinal ==
  [][\A r \in Runs : task[r] = "completed" =>
       task'[r] = "completed" /\ attempts'[r] = attempts[r] /\ ledger'[r] = "settled"]_vars

(* With one server process -- the deployment the repository documents --   *)
(* the row of a run agrees with its finished task: once the task is        *)
(* completed the run is, whatever was expired or cancelled meanwhile.      *)
FinishedRunIsCompleted ==
  \A r \in Runs : task[r] = "completed" => status[r] = "completed"

(* With one server process a run is failed by its own coroutine only when  *)
(* the attempts of its task are used up: a lost lease cannot happen.       *)
FailsOnlyExhausted ==
  \A s \in Servers, r \in Runs : pc[s][r] = "fail" => attempts[r] = MaxAttempts

(* A queued or running run does not stay so: it is executed to an end or   *)
(* expired, also when the server that had it crashed.                      *)
EveryRunEnds ==
  \A r \in Runs : status[r] \in Active ~> status[r] \notin Active

(* Every task row behaves like a fenced task.                              *)
Fenced == INSTANCE FencedTask WITH
  Tasks <- Runs,
  grants <- attempts,
  holder <- owner,
  finished <- {r \in Runs : task[r] = "completed"},
  charged <- {r \in Runs : ledger[r] = "settled"}

ImplementsFencedTask == Fenced!Spec

-----------------------------------------------------------------------------
(* A statement of the repository's documents that the code does not keep:  *)
(* the run that checks it expects a violation.                             *)

(* docs/14_AGENT_RECURSIVE_AUTOMATION.md:219: an alert whose run is in     *)
(* progress gets no second one.                                            *)
OneActiveRunPerAlert ==
  \A q, r \in Runs :
    status[q] \in Active /\ status[r] \in Active /\ lineage[q].alert = lineage[r].alert
      => q = r
=============================================================================
