--------------------------- MODULE AlertEpisodes ----------------------------
(***************************************************************************)
(* Alert episodes of one evaluation stream.  Completed priority            *)
(* evaluations are consumed, each in one transaction and in any order: the *)
(* observation of every substation moves the substation's active episode   *)
(* through a hysteresis (pending, open, resolved), and the alert of the    *)
(* episode in ops_alert_queue is opened, updated and resolved with it.     *)
(*                                                                         *)
(* Evaluations are numbered in the order they complete.  An evaluation     *)
(* inserts at most one episode of a substation, and an episode keeps one   *)
(* alert_id, so <<substation, evaluation that inserted it>> stands for the *)
(* uuids of an episode and of its alert.                                   *)
(***************************************************************************)
EXTENDS Integers, FiniteSets

CONSTANTS
  Substations,      \* substations that are evaluated
  Policies,         \* operations policies an operator may set
  MaxEvaluations,   \* bound: evaluations completed
  MaxScenarios      \* bound: scenario alerts inserted for a substation

ASSUME SubstationAssumption == IsFiniteSet(Substations)
ASSUME PolicyAssumption ==
  Policies \subseteq [anomaly : Nat \ {0}, recovery : Nat \ {0}] /\ Policies # {}
ASSUME BoundAssumption == MaxEvaluations \in Nat /\ MaxScenarios \in Nat

Evaluations == 1..MaxEvaluations

(* What a result says of a substation: an anomaly with its severity, no    *)
(* anomaly, or nothing (stale, missing, without a label).                  *)
Anomalies == {"high", "critical"}
Observations == Anomalies \cup {"normal", "frozen"}

VARIABLES
  completed,  \* number of completed evaluations
  result,     \* result[e][u]: what evaluation e observed of substation u
  newest,     \* the active completed evaluation, 0 before the first
  consumed,   \* consumed[e]: position of e in the consumption order, 0 if not consumed
  policy,     \* operations_policy: the confirmation counts
  episode,    \* episode[u][e]: row inserted by e for u
  alert,      \* alert[u][e]: the alert row of that episode
  scenario    \* scenario[u]: evaluations that hold a scenario alert of u without episode

vars == <<completed, result, newest, consumed, policy, episode, alert, scenario>>

EpisodeRows == [status : {"none", "pending", "open", "resolved"},
                severity : Anomalies \cup {"none"},
                anomalies : Nat, normals : Nat]
AlertRows == [status : {"none", "open", "resolved"},
              evaluation : 0..MaxEvaluations,
              reason : {"lifecycle", "scenario"}]

NoEpisode == [status |-> "none", severity |-> "none", anomalies |-> 0, normals |-> 0]
NoAlertRow == [status |-> "none", evaluation |-> 0, reason |-> "lifecycle"]

Init ==
  /\ completed = 0
  /\ result = [e \in Evaluations |-> [u \in Substations |-> "frozen"]]
  /\ newest = 0
  /\ consumed = [e \in Evaluations |-> 0]
  /\ policy \in Policies
  /\ episode = [u \in Substations |-> [e \in Evaluations |-> NoEpisode]]
  /\ alert = [u \in Substations |-> [e \in Evaluations |-> NoAlertRow]]
  /\ scenario = [u \in Substations |-> {}]
-----------------------------------------------------------------------------
(* Some operators have a variant marked "seeded fault": what a plausible   *)
(* slip in the code would make of them.  No specification uses it; it      *)
(* shows that the property named with it can fail.                         *)

(* create_priority_evaluation: it becomes the active evaluation unless its *)
(* as_of_time, which the caller may choose, is before the active one's.    *)
CompleteEvaluation ==
  /\ completed < MaxEvaluations
  /\ completed' = completed + 1
  /\ \E o \in [Substations -> Observations] :
       result' = [result EXCEPT ![completed + 1] = o]
  /\ newest' \in {completed + 1} \cup ({newest} \ {0})
  /\ UNCHANGED <<consumed, policy, episode, alert, scenario>>

(* PUT of the operations policy.                                           *)
UpdatePolicy ==
  /\ policy' \in Policies
  /\ UNCHANGED <<completed, result, newest, consumed, episode, alert, scenario>>

(* Seeded faults: a pending episode is not looked up (OneActiveEpisode), a *)
(* resolved one is (ResolvedIsFinal).                                      *)
OpenEpisodes(u) == {k \in Evaluations : episode[u][k].status = "open"}
AllEpisodes(u) == {k \in Evaluations : episode[u][k].status # "none"}

(* _active_episode, and the key of the row the result is applied to.       *)
ActiveEpisodes(u) == {k \in Evaluations : episode[u][k].status \in {"pending", "open"}}
EpisodeOf(u, e) == IF ActiveEpisodes(u) = {} THEN e ELSE CHOOSE k \in ActiveEpisodes(u) : TRUE

(* Seeded fault: a normal observation keeps the anomalies counted so far   *)
(* (OpensOnlyConfirmed).                                                   *)
NormalKeepsCount(row) ==
  IF row.status = "none" THEN row
  ELSE [row EXCEPT !.normals = @ + 1,
                   !.status = IF row.normals + 1 >= policy.recovery THEN "resolved" ELSE @]

(* _normal_transition; without an active episode nothing is written.       *)
NormalTransition(row) ==
  IF row.status = "none" THEN row
  ELSE [row EXCEPT !.normals = @ + 1,
                   !.anomalies = 0,
                   !.status = IF row.normals + 1 >= policy.recovery THEN "resolved" ELSE @]

(* Seeded fault: an anomaly keeps the normal observations counted so far   *)
(* (ResolvesOnlyRecovered).                                                *)
AnomalyKeepsCount(row, severity) ==
  IF severity = "critical" \/ row.anomalies + 1 >= policy.anomaly
  THEN [row EXCEPT !.status = "open", !.anomalies = @ + 1,
                   !.severity = IF @ = "critical" THEN "critical" ELSE severity]
  ELSE [row EXCEPT !.status = "pending", !.anomalies = @ + 1, !.severity = severity]

(* _anomaly_transition.                                                    *)
AnomalyTransition(row, severity) ==
  IF severity = "critical" \/ row.anomalies + 1 >= policy.anomaly
  THEN [status |-> "open", anomalies |-> row.anomalies + 1, normals |-> 0,
        severity |-> IF row.severity = "critical" THEN "critical" ELSE severity]
  ELSE [status |-> "pending", anomalies |-> row.anomalies + 1, normals |-> 0,
        severity |-> severity]

Transition(row, o) ==
  CASE o = "frozen" -> row
    [] o = "normal" -> NormalTransition(row)
    [] OTHER -> AnomalyTransition(row, o)

(* The side effects of a transition on the alert of the episode.           *)
Opens(row, o) == row.status # "open" /\ Transition(row, o).status = "open"
Resolves(row, o) == row.status # "resolved" /\ Transition(row, o).status = "resolved"
Touches(row, o) == o # "frozen" /\ ~Opens(row, o) /\ ~Resolves(row, o)

(* Seeded fault: the alert to resolve is looked up by evaluation instead   *)
(* of by episode (AlertFollowsEpisode).                                    *)
AlertByEvaluation(u, k, e) ==
  LET row == episode[u][k]  a == alert[u][k]  o == result[e][u] IN
  CASE Opens(row, o) -> [status |-> "open", evaluation |-> e, reason |-> "lifecycle"]
    [] Resolves(row, o) -> [a EXCEPT !.status = IF a.evaluation = e THEN "resolved" ELSE @]
    [] Touches(row, o) /\ a.status # "none" -> [a EXCEPT !.status = "open", !.evaluation = e]
    [] OTHER -> a

(* _apply_transition_side_effects.                                         *)
AlertAfter(u, k, e) ==
  LET row == episode[u][k]  a == alert[u][k]  o == result[e][u] IN
  CASE Opens(row, o) -> [status |-> "open", evaluation |-> e, reason |-> "lifecycle"]
    [] Resolves(row, o) -> [a EXCEPT !.status = IF @ = "open" THEN "resolved" ELSE @]
    [] Touches(row, o) /\ a.status # "none" -> [a EXCEPT !.status = "open", !.evaluation = e]
    [] OTHER -> a

(* What makes the transaction fail: the alert row of the episode exists    *)
(* already (PRIMARY KEY, UNIQUE episode_id), or a scenario alert holds the *)
(* key (evaluation_run_id, substation_uid).                                *)
Reinserts(u, k, e) == Opens(episode[u][k], result[e][u]) /\ alert[u][k].status # "none"
KeyTaken(u, k, e) ==
  /\ e \in scenario[u]
  /\ \/ Opens(episode[u][k], result[e][u])
     \/ Touches(episode[u][k], result[e][u]) /\ alert[u][k].status # "none"

Fails(e) == \E u \in Substations : LET k == EpisodeOf(u, e) IN
                                   Reinserts(u, k, e) \/ KeyTaken(u, k, e)

(* Seeded fault: consumptions are not recorded once (TypeOK).              *)
ConsumableAgain(e) == e <= completed

(* INSERT INTO anomaly_episode_consumptions ... ON CONFLICT DO NOTHING.    *)
Consumable(e) == e <= completed /\ consumed[e] = 0

(* consume_evaluation_connection.                                          *)
Consume(e) ==
  /\ Consumable(e)
  /\ ~Fails(e)
  /\ consumed' = [consumed EXCEPT ![e] = Cardinality({d \in Evaluations : consumed[d] # 0}) + 1]
  /\ episode' = [u \in Substations |->
                   [k \in Evaluations |->
                      IF k = EpisodeOf(u, e) THEN Transition(episode[u][k], result[e][u])
                      ELSE episode[u][k]]]
  /\ alert' = [u \in Substations |->
                 [k \in Evaluations |->
                    IF k = EpisodeOf(u, e) THEN AlertAfter(u, k, e) ELSE alert[u][k]]]
  /\ UNCHANGED <<completed, result, newest, policy, scenario>>

(* materialize_scenario_alert: the row of the newest evaluation and the    *)
(* substation is reopened, or a row without episode is inserted for them.  *)
MaterializeScenario(u) ==
  /\ newest # 0
  /\ \/ \E k \in Evaluations :
          /\ alert[u][k].status # "none" /\ alert[u][k].evaluation = newest
          /\ alert' = [alert EXCEPT ![u][k].status = "open", ![u][k].reason = "scenario"]
          /\ UNCHANGED scenario
     \/ /\ \A k \in Evaluations : alert[u][k].status = "none" \/ alert[u][k].evaluation # newest
        /\ Cardinality(scenario[u]) < MaxScenarios
        /\ scenario' = [scenario EXCEPT ![u] = @ \cup {newest}]
        /\ UNCHANGED alert
  /\ UNCHANGED <<completed, result, newest, consumed, policy, episode>>

Next ==
  \/ CompleteEvaluation
  \/ UpdatePolicy
  \/ \E e \in Evaluations : Consume(e)
  \/ \E u \in Substations : MaterializeScenario(u)

Spec == Init /\ [][Next]_vars
-----------------------------------------------------------------------------
TypeOK ==
  /\ completed \in 0..MaxEvaluations
  /\ result \in [Evaluations -> [Substations -> Observations]]
  /\ newest \in 0..completed
  /\ consumed \in [Evaluations -> 0..MaxEvaluations]
  /\ policy \in Policies
  /\ episode \in [Substations -> [Evaluations -> EpisodeRows]]
  /\ alert \in [Substations -> [Evaluations -> AlertRows]]
  /\ scenario \in [Substations -> SUBSET (1..completed)]

(* A substation has at most one episode that is pending or open: no order  *)
(* of consumption, recovery and relapse inserts a second one.              *)
OneActiveEpisode ==
  \A u \in Substations : \A j, k \in Evaluations :
    {episode[u][j].status, episode[u][k].status} \subseteq {"pending", "open"} => j = k

(* The alert queue and the episodes agree: an open episode has an open     *)
(* alert, and an open alert belongs to an episode that is still active,    *)
(* unless an operator's scenario has taken the alert over.  Manual         *)
(* resolution is disabled, so an alert that outlived its episode would     *)
(* stay open for good.                                                     *)
AlertFollowsEpisode ==
  \A u \in Substations, k \in Evaluations :
    /\ episode[u][k].status = "open" => alert[u][k].status = "open"
    /\ alert[u][k].status = "open" /\ alert[u][k].reason = "lifecycle" =>
         episode[u][k].status \in {"pending", "open"}

(* The consumed evaluations that saw one of kinds at u, with no consumed   *)
(* observation of another kind after them: the current run.                *)
Trailing(u, kinds) ==
  {e \in Evaluations :
     /\ consumed[e] # 0 /\ result[e][u] \in kinds
     /\ \A d \in Evaluations :
          consumed[d] > consumed[e] => result[d][u] \in kinds \cup {"frozen"}}

(* An episode opens only on a critical anomaly or when enough consecutive  *)
(* consumed evaluations saw an anomaly, as the policy at that moment asks: *)
(* stale results in between, earlier episodes and changes of the policy    *)
(* do not add to the count.                                                *)
OpensOnlyConfirmed ==
  [][\A u \in Substations, k \in Evaluations :
       episode[u][k].status # "open" /\ episode'[u][k].status = "open" =>
         \/ \E e \in Evaluations :
              consumed[e] = 0 /\ consumed'[e] # 0 /\ result[e][u] = "critical"
         \/ Cardinality(Trailing(u, Anomalies)') >= policy.anomaly]_vars

(* An episode is resolved only when enough consecutive consumed            *)
(* evaluations saw no anomaly.                                             *)
ResolvesOnlyRecovered ==
  [][\A u \in Substations, k \in Evaluations :
       episode[u][k].status # "resolved" /\ episode'[u][k].status = "resolved" =>
         Cardinality(Trailing(u, {"normal"})') >= policy.recovery]_vars

(* A resolved episode is history: neither it nor its alert is changed by   *)
(* later evaluations; a relapse gets an episode and an alert of its own.   *)
ResolvedIsFinal ==
  [][\A u \in Substations, k \in Evaluations :
       episode[u][k].status = "resolved" =>
         /\ episode'[u][k] = episode[u][k]
         /\ alert'[u][k] = alert[u][k] \/ UNCHANGED consumed]_vars
=============================================================================
