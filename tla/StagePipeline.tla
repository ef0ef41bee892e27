---------------------------- MODULE StagePipeline ----------------------------
(***************************************************************************)
(* The v2 graph of targeted reruns: a fixed sequence of stages, each of    *)
(* which leaves one immutable row in agent_stage_snapshots.  Run r is the  *)
(* targeted child of run r - 1 (run 1 is the child of a v1 run, which has  *)
(* no stage rows).  A child starts by copying the stages before its target *)
(* from its parent; a retry resumes behind the last checkpoint of the      *)
(* graph and replays the rows it finds.                                    *)
(*                                                                         *)
(* A worker is one attempt at one run.  Claims and leases are the subject  *)
(* of AgentRuns; what matters here is that two attempts at a run overlap   *)
(* when the lease expires under a slow worker.                             *)
(* A hash stands for what is hashed: the input hash of a stage for the     *)
(* deployed configuration and the outputs before it, the output hash for   *)
(* the output, which carries the run id of the state it was computed from. *)
(***************************************************************************)
EXTENDS Integers, FiniteSets

CONSTANTS
  Workers,
  MaxRuns,       \* length of the chain of runs
  MaxStages,     \* length of STAGE_ORDER
  MaxAttempts,   \* agent_run_tasks.max_attempts
  Values,        \* what an adapter may come up with for a stage
  Configs,       \* component versions, feature flags, thresholds
  MaxDeploys     \* bound: changes of the configuration

ASSUME BoundAssumption ==
  /\ MaxRuns \in Nat \ {0} /\ MaxStages \in Nat \ {0}
  /\ MaxAttempts \in Nat /\ MaxDeploys \in Nat
ASSUME ConfigAssumption == Configs # {}

Runs == 1..MaxRuns
Stages == 1..MaxStages
NoRun == 0
NoStage == 0

Outputs == [run : Runs, value : Values]
Inputs == [config : Configs, upstream : SUBSET (Stages \X Outputs)]
Rows == [input : Inputs, output : Outputs, execution : {"passed", "reused", "other"},
         from : Runs \cup {NoRun}]

(* A row that is not there, a run without result, a thread without         *)
(* checkpoint.                                                             *)
None == [none |-> TRUE]
NoRows == [k \in Stages |-> None]

VARIABLES
  rows,        \* rows[r][k]: agent_stage_snapshots
  checkpoint,  \* checkpoint[r]: the graph's state on thread r
  result,      \* result[r]: agent_runs.ops_output of a completed run
  attempts,    \* attempts[r]
  overlapped,  \* history: the runs two attempts at which were going on at once
  target,      \* target[r]: agent_runs.target_stage, NoStage before r is created
  config,      \* configuration of the running process
  deploys,     \* what the bound counts
  worker       \* worker[w]: one attempt

vars == <<rows, checkpoint, result, attempts, overlapped, target, config, deploys, worker>>

Steps == {"idle", "prefix", "own", "insert", "hydrate", "begin", "stage", "compute", "save",
          "persist"}
Idle == [step |-> "idle", run |-> 1, id |-> 1, next |-> 1, chain |-> {},
         parent |-> NoRows, mine |-> {}]

Init ==
  /\ rows = [r \in Runs |-> NoRows]
  /\ checkpoint = [r \in Runs |-> None]
  /\ result = [r \in Runs |-> None]
  /\ attempts = [r \in Runs |-> 0]
  /\ overlapped = {}
  /\ target = [r \in Runs |-> NoStage]
  /\ config = CHOOSE c \in Configs : TRUE
  /\ deploys = 0
  /\ worker = [w \in Workers |-> Idle]
-----------------------------------------------------------------------------
Outs(stored, k) == {<<j, stored[j].output>> : j \in {i \in 1..(k - 1) : stored[i] # None}}

(* v2_stage_input_hash.                                                    *)
StageInput(upstream) == [config |-> config, upstream |-> upstream]

Become(w, change) == worker' = [worker EXCEPT ![w] = change]
Busy(w, step) == worker[w].step = step

(* The attempt ends in an exception, or its process dies.                  *)
GiveUp(w) == Become(w, Idle)

Fail(w) ==
  /\ ~Busy(w, "idle")
  /\ GiveUp(w)
  /\ UNCHANGED <<rows, checkpoint, result, attempts, overlapped, target, config, deploys>>

(* create_targeted_child_run: a review of any run but the deepest, whatever *)
(* its status, may ask for a rerun from stage k on.                        *)
CreateTargetedChild(r, k) ==
  /\ target[r] = NoStage
  /\ \A parent \in Runs : parent = r - 1 => target[parent] # NoStage
  /\ target' = [target EXCEPT ![r] = k]
  /\ UNCHANGED <<rows, checkpoint, result, attempts, overlapped, config, deploys, worker>>

Attempts(w, r) == ~Busy(w, "idle") /\ worker[w].run = r

(* A claim: with a checkpoint on the run's thread the graph resumes from   *)
(* it; without one the attempt starts from the parent's prefix.            *)
Claim(w, r) ==
  /\ Busy(w, "idle")
  /\ target[r] # NoStage
  /\ result[r] = None
  /\ attempts[r] < MaxAttempts
  /\ attempts' = [attempts EXCEPT ![r] = @ + 1]
  /\ overlapped' = IF \E v \in Workers : Attempts(v, r) THEN overlapped \cup {r} ELSE overlapped
  /\ IF checkpoint[r] = None
     THEN Become(w, [Idle EXCEPT !.step = "prefix", !.run = r, !.id = r])
     ELSE LET c == checkpoint[r] IN
          Become(w, [Idle EXCEPT !.step = IF c.next > MaxStages THEN "persist" ELSE "stage",
                                 !.run = r, !.id = c.id, !.next = c.next, !.chain = c.chain])
  /\ UNCHANGED <<rows, checkpoint, result, target, config, deploys>>

(* _hydrate_parent_prefix reads the rows of the parent, then its own ...   *)
ReadParent(w) ==
  LET r == worker[w].run IN
  /\ Busy(w, "prefix")
  /\ Become(w, [worker[w] EXCEPT !.step = "own",
                  !.parent = IF r = 1 THEN NoRows ELSE rows[r - 1]])
  /\ UNCHANGED <<rows, checkpoint, result, attempts, overlapped, target, config, deploys>>

ReadOwn(w) ==
  /\ Busy(w, "own")
  /\ Become(w, [worker[w] EXCEPT !.step = "insert",
                  !.mine = {k \in Stages : rows[worker[w].run][k] # None}])
  /\ UNCHANGED <<rows, checkpoint, result, attempts, overlapped, target, config, deploys>>

(* resolve_original_stage_snapshot: reused rows point at their original.   *)
Original(r, k) == IF rows[r][k].from = NoRun THEN r ELSE rows[r][k].from

Reusable(r, parent, k) ==
  /\ parent[k] # None
  /\ parent[k].execution \in {"passed", "reused"}
  /\ parent[k].input = StageInput(Outs(parent, k))
  /\ rows[Original(r - 1, k)][k].execution = "passed"

(* Seeded fault: the copy goes on behind a stage that may not be reused.   *)
CopiedAnywhere(w) ==
  LET r == worker[w].run IN
  {k \in Stages \ worker[w].mine : k < target[r] /\ Reusable(r, worker[w].parent, k)}

(* ... then copies, in one transaction, the stages before the target, up   *)
(* to the first it has neither stored itself nor may reuse.                *)
Copied(w) ==
  LET r == worker[w].run
      Handled(k) == k \in worker[w].mine \/ Reusable(r, worker[w].parent, k)
  IN {k \in Stages \ worker[w].mine :
        k < target[r] /\ \A j \in 1..k : Handled(j)}

CopyOf(w, k) ==
  LET source == worker[w].parent[k] IN
  [input |-> StageInput(Outs(worker[w].parent, k)), output |-> source.output,
   execution |-> "reused", from |-> Original(worker[w].run - 1, k)]

(* ON CONFLICT DO NOTHING; a row that is there must say the same.          *)
SameSnapshot(a, b) == a.input = b.input /\ a.output = b.output

CopyPrefix(w) ==
  LET r == worker[w].run IN
  /\ Busy(w, "insert")
  /\ IF \E k \in Copied(w) : rows[r][k] # None /\ ~SameSnapshot(rows[r][k], CopyOf(w, k))
     THEN GiveUp(w) /\ UNCHANGED rows
     ELSE /\ rows' = [rows EXCEPT ![r] =
                        [k \in Stages |-> IF k \in Copied(w) /\ @[k] = None
                                          THEN CopyOf(w, k) ELSE @[k]]]
          /\ Become(w, [worker[w] EXCEPT !.step = "hydrate", !.parent = NoRows, !.mine = {}])
  /\ UNCHANGED <<checkpoint, result, attempts, overlapped, target, config, deploys>>

(* hydrate_v2_prefix: the run's own rows before the target, up to the      *)
(* first that is missing or was computed from something else.              *)
Hydrated(r) ==
  {n \in 0..(target[r] - 1) :
     \A k \in 1..n : rows[r][k] # None /\ rows[r][k].input = StageInput(Outs(rows[r], k))}

Hydrate(w) ==
  LET r == worker[w].run IN
  /\ Busy(w, "hydrate")
  /\ \E n \in Hydrated(r) :
       /\ \A m \in Hydrated(r) : m <= n
       /\ Become(w, [worker[w] EXCEPT !.step = "begin", !.next = n + 1,
                                      !.chain = Outs(rows[r], n + 1)])
  /\ UNCHANGED <<rows, checkpoint, result, attempts, overlapped, target, config, deploys>>

(* The checkpointer stores the input of the graph, and the state after     *)
(* each node.                                                              *)
SaveCheckpoint(w) ==
  checkpoint' = [checkpoint EXCEPT ![worker[w].run] =
                   [id |-> worker'[w].id, next |-> worker'[w].next, chain |-> worker'[w].chain]]

Begin(w) ==
  /\ Busy(w, "begin")
  /\ Become(w, [worker[w] EXCEPT !.step = "stage"])
  /\ SaveCheckpoint(w)
  /\ UNCHANGED <<rows, result, attempts, overlapped, target, config, deploys>>

(* The state continues from the envelope of the row, run id included.      *)
Adopt(w, output) ==
  Become(w, [worker[w] EXCEPT !.step = "save", !.id = output.run,
                              !.chain = @ \cup {<<worker[w].next, output>>}])

(* Seeded fault: a stored row is replayed whatever it was computed from.   *)
ReplaysAny(w, row) == TRUE
Replays(w, row) == row.input = StageInput(worker[w].chain)

(* StageRunner.execute: replay the stored row, refuse it if it was         *)
(* computed from something else, or run the adapter.                       *)
LookUp(w) ==
  LET row == rows[worker[w].id][worker[w].next] IN
  /\ Busy(w, "stage")
  /\ CASE row = None -> Become(w, [worker[w] EXCEPT !.step = "compute"])
       [] row # None /\ Replays(w, row) -> Adopt(w, row.output)
       [] OTHER -> GiveUp(w)
  /\ UNCHANGED <<rows, checkpoint, result, attempts, overlapped, target, config, deploys>>

(* Only ml_validation may itself report "reused": its stored verification. *)
Executions(k) == IF k = 1 THEN {"passed", "reused", "other"} ELSE {"passed", "other"}

(* Seeded fault: the worker goes on with its own output when another has   *)
(* stored the stage first.                                                 *)
RecordOwn(w, value, execution) ==
  LET id == worker[w].id
      k == worker[w].next
      new == [input |-> StageInput(worker[w].chain), output |-> [run |-> id, value |-> value],
              execution |-> execution, from |-> NoRun]
  IN
  /\ Busy(w, "compute")
  /\ execution \in Executions(k)
  /\ rows' = IF rows[id][k] = None THEN [rows EXCEPT ![id][k] = new] ELSE rows
  /\ Adopt(w, new.output)
  /\ UNCHANGED <<checkpoint, result, attempts, overlapped, target, config, deploys>>

(* insert_stage_snapshot with what the adapter returned.                   *)
Record(w, value, execution) ==
  LET id == worker[w].id
      k == worker[w].next
      new == [input |-> StageInput(worker[w].chain), output |-> [run |-> id, value |-> value],
              execution |-> execution, from |-> NoRun]
  IN
  /\ Busy(w, "compute")
  /\ execution \in Executions(k)
  /\ CASE rows[id][k] = None ->
            rows' = [rows EXCEPT ![id][k] = new] /\ Adopt(w, new.output)
       [] rows[id][k] # None /\ SameSnapshot(rows[id][k], new) ->
            UNCHANGED rows /\ Adopt(w, new.output)
       [] OTHER -> UNCHANGED rows /\ GiveUp(w)
  /\ UNCHANGED <<checkpoint, result, attempts, overlapped, target, config, deploys>>

Save(w) ==
  /\ Busy(w, "save")
  /\ Become(w, [worker[w] EXCEPT !.next = @ + 1,
                  !.step = IF worker[w].next = MaxStages THEN "persist" ELSE "stage"])
  /\ SaveCheckpoint(w)
  /\ UNCHANGED <<rows, result, attempts, overlapped, target, config, deploys>>

(* persist_completed_v2_run: the run the state names is completed with the *)
(* state behind the last stage.                                            *)
Persist(w) ==
  /\ Busy(w, "persist")
  /\ \E o \in Outputs :
       /\ <<MaxStages, o>> \in worker[w].chain
       /\ result' = [result EXCEPT ![worker[w].id] = o]
  /\ Become(w, Idle)
  /\ UNCHANGED <<rows, checkpoint, attempts, overlapped, target, config, deploys>>

(* The process is replaced by one with another configuration.              *)
Redeploy(c) ==
  /\ deploys < MaxDeploys
  /\ c # config
  /\ config' = c
  /\ deploys' = deploys + 1
  /\ worker' = [w \in Workers |-> Idle]
  /\ UNCHANGED <<rows, checkpoint, result, attempts, overlapped, target>>

Next ==
  \/ \E r \in Runs, k \in Stages : CreateTargetedChild(r, k)
  \/ \E w \in Workers, r \in Runs : Claim(w, r)
  \/ \E w \in Workers :
       \/ ReadParent(w) \/ ReadOwn(w) \/ CopyPrefix(w) \/ Hydrate(w) \/ Begin(w) \/ LookUp(w)
       \/ \E v \in Values, e \in {"passed", "reused", "other"} : Record(w, v, e)
       \/ Save(w) \/ Persist(w) \/ Fail(w)
  \/ \E c \in Configs : Redeploy(c)

Spec == Init /\ [][Next]_vars
-----------------------------------------------------------------------------
TypeOK ==
  /\ \A r \in Runs, k \in Stages : rows[r][k] \in Rows \/ rows[r][k] = None
  /\ \A r \in Runs : result[r] \in Outputs \/ result[r] = None
  /\ attempts \in [Runs -> 0..MaxAttempts]
  /\ target \in [Runs -> Stages \cup {NoStage}]
  /\ overlapped \subseteq Runs
  /\ config \in Configs /\ deploys \in 0..MaxDeploys
  /\ \A w \in Workers : worker[w].step \in Steps /\ worker[w].next \in 1..(MaxStages + 1)

(* A reused row is a copy of a stage before the target that an earlier run *)
(* of the lineage computed and passed, under the same configuration and    *)
(* from the same outputs.                                                  *)
ReusedIsValid ==
  \A r \in Runs, k \in Stages : rows[r][k] # None /\ rows[r][k].from # NoRun =>
    LET source == rows[rows[r][k].from][k] IN
    /\ k < target[r] /\ rows[r][k].from < r
    /\ source # None /\ source.from = NoRun /\ source.execution = "passed"
    /\ SameSnapshot(rows[r][k], source)

(* A completed run has a row for every stage, each computed from the rows  *)
(* before it or a valid copy of an earlier run's, and its result is the    *)
(* output of the last.                                                     *)
CompletedRunIsChain ==
  /\ \A r \in Runs : result[r] # None =>
       /\ \A k \in Stages : /\ rows[r][k] # None
                            /\ rows[r][k].input.upstream = Outs(rows[r], k)
       /\ result[r] = rows[r][MaxStages].output
  /\ ReusedIsValid

(* The rows of a run are written, and its result is stored, by attempts at *)
(* that run only.                                                          *)
OwnSnapshotsOnly == \A w \in Workers : worker[w].id = worker[w].run

(* A row the run copied from its parent behind a stage it had computed     *)
(* itself.                                                                 *)
CopiedBehind(r, k) ==
  /\ rows[r][k] # None /\ rows[r][k].from # NoRun
  /\ \E j \in 1..(k - 1) : rows[r][j] # None /\ rows[r][j].from = NoRun

(* An attempt is refused a stored row only when the configuration has      *)
(* changed since, or when two attempts at the run went on at once and one, *)
(* reading a parent that had got further, copied that row behind a stage   *)
(* the other had already computed.                                         *)
ConflictHasCause ==
  \A w \in Workers :
    LET row == rows[worker[w].id][worker[w].next] IN
    Busy(w, "stage") /\ row # None /\ ~Replays(w, row) =>
      \/ row.input.config # config
      \/ worker[w].id \in overlapped /\ CopiedBehind(worker[w].id, worker[w].next)
=============================================================================
