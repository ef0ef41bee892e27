------------------------------- MODULE MCGraphs -------------------------------
(***************************************************************************)
(* The two graphs of an agent run and the descent of runs, on small        *)
(* instances.  They share no state: a behaviour exercises the one focus    *)
(* names and leaves the others alone.                                      *)
(*   lineage   v2: a run and its child, three stages, one attempt each,    *)
(*             under two configurations                                    *)
(*   retry     v2: a run and its child, three stages, two attempts each,   *)
(*             under one configuration                                     *)
(*   overlap   v2: one run, three attempts, any two of them at once, each  *)
(*             of which may compute another value, and a redeployment      *)
(*   child     v2: a run and its child, two attempts at the child at once  *)
(*             while its parent is still under way                         *)
(*   analysis  v1: the chat model answers as its prompt tells it to        *)
(*   schema    v1: it also answers what its schema admits                  *)
(*   bare      v1: so it does, and there is no diagnostic model            *)
(*   descent   AgentRuns: one server process, four runs of two alerts,     *)
(*             three of them from before migration 008                     *)
(***************************************************************************)
EXTENDS StagePipeline, AnalysisGraph, TLC

CONSTANTS Alerts, NoAlert

VARIABLES
  focus,
  status, lineage, output, age, task, owner, lease, claims, progress, budget,
  up, requested, cancelling, pc, token, compiled, reviewed, faults

descent == <<status, lineage, output, age, task, owner, lease, claims, progress, budget,
             up, requested, cancelling, pc, token, compiled, reviewed, faults>>

(* No two attempts at one run, every stage computed alike, and run 1,      *)
(* which has no parent to copy from, asked for as a whole.                 *)
OneByOne ==
  /\ target[1] \in {NoStage, 1}
  /\ \A v, w \in Workers : v # w => Busy(v, "idle") \/ Busy(w, "idle") \/ worker[v].run # worker[w].run
  /\ \A r \in Runs, k \in Stages : rows[r][k] # None => rows[r][k].output.value = "a"

(* One attempt at the parent; every stage is computed alike and passes.    *)
Alike ==
  /\ target[1] \in {NoStage, 1}
  /\ attempts[1] <= 1 /\ attempts[2] <= 2 /\ deploys = 0
  /\ \A r \in Runs, k \in Stages : rows[r][k] # None =>
       rows[r][k].output.value = "a" /\ rows[r][k].execution # "other"

Prompted == {"expand_internal", "rerun_model", "request_human", "finalize"}
Evidence == {[chunks |-> 0, site |-> TRUE, weather |-> TRUE, fits |-> FALSE],
             [chunks |-> 2, site |-> TRUE, weather |-> FALSE, fits |-> TRUE],
             [chunks |-> 2, site |-> FALSE, weather |-> TRUE, fits |-> TRUE]}
Verified == {[points |-> 25, agreement |-> a] : a \in {"yes", "no"}}
              \cup {[points |-> 12, agreement |-> "no"], [points |-> 0, agreement |-> "unknown"]}
Little == {[chunks |-> 0, site |-> TRUE, weather |-> FALSE, fits |-> FALSE],
           [chunks |-> 1, site |-> TRUE, weather |-> TRUE, fits |-> TRUE],
           [chunks |-> 3, site |-> FALSE, weather |-> TRUE, fits |-> FALSE]}
Sure == {[points |-> 25, agreement |-> a] : a \in {"yes", "no"}}
Schema == INSTANCE AnalysisGraph WITH
  Contexts <- Little, Verifications <- Sure,
  Answers <- Prompted \cup {"diagnostic_worker"}, MaxIterations <- 2
Bare == INSTANCE AnalysisGraph WITH
  Contexts <- Little, Verifications <- Sure, DiagnosticModel <- FALSE,
  Answers <- Prompted \cup {"diagnostic_worker"}, MaxIterations <- 2

Descent == INSTANCE AgentRuns WITH
  Servers <- {"s"}, MaxRuns <- 4, Legacy <- 3, MaxAttempts <- 3, LeaseTerm <- 1,
  StaleAfter <- 2, Slots <- 1, MaxReviews <- 1, MaxFaults <- 0,
  attempts <- claims, checkpoint <- progress, ledger <- budget, graph <- compiled,
  reviews <- reviewed
Founded == INSTANCE AgentRuns WITH
  Servers <- {"s"}, MaxRuns <- 1, Legacy <- 0, MaxAttempts <- 3, LeaseTerm <- 1,
  StaleAfter <- 2, Slots <- 1, MaxReviews <- 1, MaxFaults <- 1,
  attempts <- claims, checkpoint <- progress, ledger <- budget, graph <- compiled,
  reviews <- reviewed

Staged == focus \in {"lineage", "retry", "overlap", "child"}
AnyInit ==
  /\ Staged \/ focus \in {"analysis", "schema", "bare", "descent"}
  /\ Init
  /\ GraphInit
  /\ Staged \/ focus = "descent" => card = [known |-> TRUE, review |-> FALSE, urgent |-> FALSE]
  /\ IF focus = "descent" THEN Descent!Init ELSE Founded!Init

AnyNext ==
  /\ UNCHANGED focus
  /\ IF Staged THEN TRUE ELSE UNCHANGED vars
  /\ IF focus \in {"analysis", "schema", "bare"} THEN TRUE ELSE UNCHANGED graphVars
  /\ IF focus = "descent" THEN TRUE ELSE UNCHANGED descent
  /\ \/ focus = "lineage" /\ Next /\ OneByOne' /\ \A r \in Runs : attempts'[r] <= 1
     \/ focus = "retry" /\ Next /\ OneByOne' /\ deploys' = 0 /\ \A r \in Runs : attempts'[r] <= 2
     \/ focus = "overlap" /\ Next /\ target'[2] = NoStage
     \/ focus = "child" /\ Next /\ Alike'
     \/ focus = "analysis" /\ GraphNext
     \/ focus = "schema" /\ Schema!GraphNext
     \/ focus = "bare" /\ Bare!GraphNext
     \/ focus = "descent" /\ Descent!Next

AnySpec == AnyInit /\ [][AnyNext]_<<focus, vars, graphVars, descent>>

Symmetry == Permutations(Workers) \cup Permutations(Alerts)
-----------------------------------------------------------------------------
(* AgentRuns' lineages where a lineage could grow too deep or take in a    *)
(* run of another lineage or alert: four runs of two alerts.               *)
LineageTree == focus = "descent" => Descent!LineageTree

(* AgentRuns, where one server process runs; and no invocation of the v1   *)
(* graph runs away, where the chat model answers as it is told to.         *)
FinishedRunIsCompleted ==
  /\ focus = "descent" =>
       Descent!TypeOK /\ Descent!FinishedRunIsCompleted /\ Descent!FailsOnlyExhausted
  /\ focus \in {"analysis", "schema", "bare"} => GraphTypeOK
  /\ focus = "analysis" => WithinRecursionLimit
=============================================================================
