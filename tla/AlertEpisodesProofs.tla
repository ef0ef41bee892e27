------------------------ MODULE AlertEpisodesProofs -------------------------
(***************************************************************************)
(* Proofs about AlertEpisodes, for every set of substations, every number  *)
(* of evaluations and scenarios and every confirmation counts.             *)
(***************************************************************************)
EXTENDS AlertEpisodes, FiniteSetTheorems, TLAPS

USE PolicyAssumption, BoundAssumption

(***************************************************************************)
(* The inductive invariant.                                                *)
(***************************************************************************)

Consumed == {d \in Evaluations : consumed[d] # 0}

(* An evaluation that was not consumed has inserted nothing, so the rows a *)
(* consumption inserts are new ones.                                       *)
Fresh ==
  \A u \in Substations, e \in Evaluations :
    consumed[e] = 0 => episode[u][e] = NoEpisode /\ alert[u][e] = NoAlertRow

(* Positions do not exceed the number of consumed evaluations, so the next *)
(* consumption is the last one; only completed evaluations are consumed,   *)
(* so what a consumed one observed does not change any more.               *)
Ranked ==
  \A e \in Evaluations :
    /\ consumed[e] <= Cardinality(Consumed)
    /\ consumed[e] # 0 => e <= completed

Active(row) == row.status \in {"pending", "open"}

(* The counters of an active episode are backed by the current run of      *)
(* consumed observations.                                                  *)
Backed(row, u) ==
  /\ row.anomalies <= Cardinality(Trailing(u, Anomalies))
  /\ row.normals <= Cardinality(Trailing(u, {"normal"}))

Evidence ==
  \A u \in Substations, k \in Evaluations : Active(episode[u][k]) => Backed(episode[u][k], u)

Inv == TypeOK /\ OneActiveEpisode /\ AlertFollowsEpisode /\ Fresh /\ Ranked /\ Evidence

(***************************************************************************)
(* Facts about sets of evaluations.                                        *)
(***************************************************************************)

(* A set of evaluations is finite and has at most MaxEvaluations members.  *)
LEMMA EvaluationSets ==
  ASSUME NEW S, S \subseteq Evaluations
  PROVE  IsFiniteSet(S) /\ Cardinality(S) \in 0..MaxEvaluations
  <1>1. IsFiniteSet(Evaluations) /\ Cardinality(Evaluations) = MaxEvaluations
    <2>1. 1 \in Int /\ MaxEvaluations \in Int
      OBVIOUS
    <2>2. /\ IsFiniteSet(1..MaxEvaluations)
          /\ Cardinality(1..MaxEvaluations) =
               IF 1 > MaxEvaluations THEN 0 ELSE MaxEvaluations - 1 + 1
      BY <2>1, FS_Interval
    <2> QED
      BY <2>2 DEF Evaluations
  <1>2. IsFiniteSet(S) /\ Cardinality(S) <= Cardinality(Evaluations)
    BY <1>1, FS_Subset
  <1>3. Cardinality(S) \in Nat
    BY <1>2, FS_CardinalityType
  <1> QED
    BY <1>1, <1>2, <1>3

(* Where a consumption puts its evaluation: behind all others.             *)
LEMMA Position ==
  ASSUME TypeOK, Ranked, NEW e \in Evaluations, Consume(e)
  PROVE  /\ consumed[e] = 0 /\ e <= completed
         /\ consumed'[e] = Cardinality(Consumed) + 1
         /\ Cardinality(Consumed)' = Cardinality(Consumed) + 1
         /\ consumed'[e] \in 1..MaxEvaluations
         /\ \A d \in Evaluations : d # e => consumed'[d] = consumed[d]
         /\ \A d \in Evaluations : consumed[d] < consumed'[e]
  <1>1. consumed[e] = 0 /\ e <= completed
    BY DEF Consume, Consumable
  <1>2. /\ consumed'[e] = Cardinality(Consumed) + 1
        /\ \A d \in Evaluations : d # e => consumed'[d] = consumed[d]
    BY DEF Consume, Consumed, TypeOK
  <1>3. IsFiniteSet(Consumed) /\ Cardinality(Consumed) \in 0..MaxEvaluations
    BY EvaluationSets DEF Consumed
  <1>4. Consumed' = Consumed \cup {e}
    BY <1>2, <1>3 DEF Consumed
  <1>5. e \notin Consumed
    BY <1>1 DEF Consumed
  <1>6. Cardinality(Consumed') = Cardinality(Consumed) + 1
    BY <1>3, <1>4, <1>5, FS_AddElement
  <1>7. Cardinality(Consumed') \in 0..MaxEvaluations
    <2>1. Consumed' \subseteq Evaluations
      BY DEF Consumed
    <2> QED
      BY <2>1, EvaluationSets
  <1>8. \A d \in Evaluations : consumed[d] < consumed'[e]
    BY <1>2, <1>3 DEF Ranked, TypeOK
  <1> QED
    BY <1>1, <1>2, <1>3, <1>6, <1>7, <1>8

(* What a consumption does to a run of observations.                       *)
LEMMA RunAfterConsume ==
  ASSUME TypeOK, Ranked, NEW e \in Evaluations, Consume(e), NEW u \in Substations,
         NEW K \in SUBSET Observations, "frozen" \notin K
  PROVE  /\ result[e][u] \in K =>
              Cardinality(Trailing(u, K))' = Cardinality(Trailing(u, K)) + 1
         /\ result[e][u] = "frozen" => Trailing(u, K)' = Trailing(u, K)
  <1>1. result' = result
    BY DEF Consume
  <1>2. /\ consumed \in [Evaluations -> Nat] /\ consumed' \in [Evaluations -> Nat]
    <2>1. consumed \in [Evaluations -> Nat]
      BY DEF TypeOK
    <2>2. consumed' = [consumed EXCEPT ![e] = Cardinality(Consumed) + 1]
      BY DEF Consume, Consumed
    <2>3. Cardinality(Consumed) + 1 \in Nat
      BY EvaluationSets DEF Consumed
    <2> QED
      BY <2>1, <2>2, <2>3
  <1>3. ASSUME result[e][u] \in K
        PROVE  Cardinality(Trailing(u, K))' = Cardinality(Trailing(u, K)) + 1
    <2>1. Trailing(u, K)' = Trailing(u, K) \cup {e}
      <3>1. \A d \in Evaluations :
              d \in Trailing(u, K)' <=> d \in Trailing(u, K) \cup {e}
        <4> TAKE d \in Evaluations
        <4>1. CASE d = e
          BY <1>1, <1>2, <1>3, <4>1, Position DEF Trailing
        <4>2. CASE d # e
          BY <1>1, <1>2, <1>3, <4>2, Position DEF Trailing
        <4> QED
          BY <4>1, <4>2
      <3> QED
        BY <3>1 DEF Trailing
    <2>2. e \notin Trailing(u, K)
      BY Position DEF Trailing
    <2>3. IsFiniteSet(Trailing(u, K))
      BY EvaluationSets DEF Trailing
    <2> QED
      BY <2>1, <2>2, <2>3, FS_AddElement
  <1>4. ASSUME result[e][u] = "frozen"
        PROVE  Trailing(u, K)' = Trailing(u, K)
    <2>1. \A d \in Evaluations : d \in Trailing(u, K)' <=> d \in Trailing(u, K)
      <3> TAKE d \in Evaluations
      <3>1. CASE d = e
        BY <1>1, <1>2, <1>4, <3>1, Position DEF Trailing
      <3>2. CASE d # e
        BY <1>1, <1>2, <1>4, <3>2, Position DEF Trailing
      <3> QED
        BY <3>1, <3>2
    <2> QED
      BY <2>1 DEF Trailing
  <1> QED
    BY <1>3, <1>4

(* Steps that consume nothing leave every run of observations alone.       *)
LEMMA RunUnchanged ==
  ASSUME TypeOK, Ranked, NEW u \in Substations, NEW K, UNCHANGED consumed,
         UNCHANGED result \/ CompleteEvaluation
  PROVE  Trailing(u, K)' = Trailing(u, K)
  <1>1. \A d \in Evaluations : consumed[d] # 0 => result'[d][u] = result[d][u]
    <2>1. CASE UNCHANGED result
      BY <2>1
    <2>2. CASE CompleteEvaluation
      <3>1. PICK o \in [Substations -> Observations] :
               result' = [result EXCEPT ![completed + 1] = o]
        BY <2>2 DEF CompleteEvaluation
      <3> QED
        BY <3>1 DEF TypeOK, Ranked, Evaluations
    <2> QED
      BY <2>1, <2>2
  <1>2. \A d, c \in Evaluations : consumed[d] > consumed[c] => consumed[d] # 0
    BY DEF TypeOK
  <1> QED
    BY <1>1, <1>2 DEF Trailing

(***************************************************************************)
(* Facts about the row a consumption is applied to.                        *)
(***************************************************************************)

(* The row is the active one, or a new one where there is none.            *)
LEMMA EpisodeOfRow ==
  ASSUME NEW u \in Substations, NEW e \in Evaluations
  PROVE  /\ EpisodeOf(u, e) \in Evaluations
         /\ \/ EpisodeOf(u, e) = e /\ ActiveEpisodes(u) = {}
            \/ EpisodeOf(u, e) \in ActiveEpisodes(u)
  <1>1. CASE ActiveEpisodes(u) = {}
    BY <1>1 DEF EpisodeOf
  <1>2. CASE ActiveEpisodes(u) # {}
    <2>1. EpisodeOf(u, e) = CHOOSE k \in ActiveEpisodes(u) : TRUE
      BY <1>2 DEF EpisodeOf
    <2>2. EpisodeOf(u, e) \in ActiveEpisodes(u)
      BY <1>2, <2>1
    <2> QED
      BY <2>2 DEF ActiveEpisodes
  <1> QED
    BY <1>1, <1>2

(* Every other row is inactive; a row that is not active is a new one.     *)
LEMMA OtherRows ==
  ASSUME TypeOK, OneActiveEpisode, Fresh, NEW u \in Substations, NEW e \in Evaluations,
         Consumable(e), NEW k, k = EpisodeOf(u, e)
  PROVE  /\ k \in Evaluations
         /\ \/ Active(episode[u][k])
            \/ k = e /\ episode[u][k] = NoEpisode /\ alert[u][k] = NoAlertRow
         /\ \A j \in Evaluations : j # k => ~Active(episode[u][j])
  <1>1. CASE k = e /\ ActiveEpisodes(u) = {}
    BY <1>1 DEF ActiveEpisodes, Active, Fresh, Consumable
  <1>2. CASE k \in ActiveEpisodes(u)
    <2>1. k \in Evaluations /\ Active(episode[u][k])
      BY <1>2 DEF ActiveEpisodes, Active
    <2>2. \A j \in Evaluations : j # k => ~Active(episode[u][j])
      BY <2>1 DEF Active, OneActiveEpisode
    <2> QED
      BY <2>1, <2>2
  <1> QED
    BY <1>1, <1>2, EpisodeOfRow

(* A transition yields a row.                                              *)
LEMMA TransitionType ==
  ASSUME TypeOK, NEW row \in EpisodeRows, NEW o \in Observations
  PROVE  Transition(row, o) \in EpisodeRows
  <1>1. NormalTransition(row) \in EpisodeRows
    <2>1. ASSUME NEW n \in Nat, NEW s \in {"none", "pending", "open", "resolved"}
          PROVE  [row EXCEPT !.normals = n, !.anomalies = 0, !.status = s] \in EpisodeRows
      BY <2>1 DEF EpisodeRows
    <2>2. row.normals + 1 \in Nat /\ row.status \in {"none", "pending", "open", "resolved"}
      BY DEF EpisodeRows
    <2> QED
      BY <2>1, <2>2 DEF NormalTransition
  <1>2. ASSUME o \in Anomalies PROVE AnomalyTransition(row, o) \in EpisodeRows
    BY <1>2 DEF AnomalyTransition, EpisodeRows, Anomalies
  <1> QED
    BY <1>1, <1>2 DEF Transition, Observations

(* What a transition does to the status and the counters.                  *)
LEMMA TransitionFacts ==
  ASSUME TypeOK, NEW row \in EpisodeRows, NEW o \in Observations,
         NEW new, new = Transition(row, o)
  PROVE  /\ o = "frozen" => new = row
         /\ o = "normal" =>
              /\ row.status = "none" => new = row
              /\ row.status # "none" => new.anomalies = 0 /\ new.normals = row.normals + 1
              /\ row.status # "resolved" /\ new.status = "resolved" =>
                   new.normals >= policy.recovery
              /\ new.status = "resolved" \/ new.status = row.status
         /\ o \in Anomalies =>
              /\ new.anomalies = row.anomalies + 1 /\ new.normals = 0
              /\ new.status \in {"pending", "open"}
              /\ new.status = "open" => o = "critical" \/ new.anomalies >= policy.anomaly
  BY DEF Transition, NormalTransition, AnomalyTransition, EpisodeRows, Observations,
         Anomalies, TypeOK

(* How one consumption changes one substation.                             *)
LEMMA ConsumeRow ==
  ASSUME TypeOK, OneActiveEpisode, Fresh, NEW e \in Evaluations, Consume(e),
         NEW u \in Substations, NEW k, k = EpisodeOf(u, e)
  PROVE  /\ k \in Evaluations
         /\ episode[u][k] \in EpisodeRows /\ result[e][u] \in Observations
         /\ episode[u][k].status \in {"none", "pending", "open"}
         /\ episode'[u][k] = Transition(episode[u][k], result[e][u])
         /\ alert'[u][k] = AlertAfter(u, k, e)
         /\ \A j \in Evaluations : j # k =>
              episode'[u][j] = episode[u][j] /\ alert'[u][j] = alert[u][j]
  <1>1. Consumable(e)
    BY DEF Consume
  <1>2. k \in Evaluations
    BY EpisodeOfRow
  <1>3. episode[u][k] \in EpisodeRows /\ result[e][u] \in Observations
    BY <1>2 DEF TypeOK
  <1>4. episode[u][k].status \in {"none", "pending", "open"}
    BY <1>1, OtherRows DEF Active, NoEpisode
  <1>5. /\ episode'[u][k] = Transition(episode[u][k], result[e][u])
        /\ \A j \in Evaluations : j # k => episode'[u][j] = episode[u][j]
    BY <1>2 DEF Consume
  <1>6. /\ alert'[u][k] = AlertAfter(u, k, e)
        /\ \A j \in Evaluations : j # k => alert'[u][j] = alert[u][j]
    BY <1>2 DEF Consume
  <1> QED
    BY <1>2, <1>3, <1>4, <1>5, <1>6

(***************************************************************************)
(* Type correctness.  Consume keeps the types because of Ranked and Fresh. *)
(***************************************************************************)

LEMMA AlertAfterType ==
  ASSUME TypeOK, NEW u \in Substations, NEW k \in Evaluations, NEW e \in Evaluations
  PROVE  AlertAfter(u, k, e) \in AlertRows
  <1>1. alert[u][k] \in AlertRows /\ e \in 0..MaxEvaluations
    BY DEF TypeOK, Evaluations
  <1>2. /\ [status |-> "open", evaluation |-> e, reason |-> "lifecycle"] \in AlertRows
        /\ [alert[u][k] EXCEPT !.status = "open", !.evaluation = e] \in AlertRows
    BY <1>1 DEF AlertRows
  <1>3. [alert[u][k] EXCEPT !.status = IF @ = "open" THEN "resolved" ELSE @] \in AlertRows
    BY <1>1 DEF AlertRows
  <1> QED
    BY <1>1, <1>2, <1>3 DEF AlertAfter

LEMMA TypeInit == Init => TypeOK
  <1> SUFFICES ASSUME Init PROVE TypeOK
    OBVIOUS
  <1>1. NoEpisode \in EpisodeRows /\ NoAlertRow \in AlertRows
    BY DEF NoEpisode, EpisodeRows, NoAlertRow, AlertRows
  <1> QED
    BY <1>1 DEF Init, TypeOK, Observations

LEMMA TypeStep ==
  ASSUME TypeOK, OneActiveEpisode, Fresh, Ranked, [Next]_vars
  PROVE  TypeOK'
  <1>1. CASE CompleteEvaluation
    <2>1. PICK o \in [Substations -> Observations] :
             result' = [result EXCEPT ![completed + 1] = o]
      BY <1>1 DEF CompleteEvaluation
    <2>2. result' \in [Evaluations -> [Substations -> Observations]]
      BY <2>1 DEF TypeOK
    <2>3. completed' \in 0..MaxEvaluations /\ newest' \in 0..completed'
      BY <1>1 DEF CompleteEvaluation, TypeOK
    <2>4. scenario' \in [Substations -> SUBSET (1..completed')]
      <3>1. 1..completed \subseteq 1..completed'
        BY <1>1 DEF CompleteEvaluation, TypeOK
      <3> QED
        BY <1>1, <3>1 DEF CompleteEvaluation, TypeOK
    <2> QED
      BY <1>1, <2>2, <2>3, <2>4 DEF CompleteEvaluation, TypeOK
  <1>2. CASE UpdatePolicy
    BY <1>2 DEF UpdatePolicy, TypeOK
  <1>3. ASSUME NEW e \in Evaluations, Consume(e)
        PROVE  TypeOK'
    <2>1. \A u \in Substations : EpisodeOf(u, e) \in Evaluations
      BY EpisodeOfRow
    <2>2. \A u \in Substations, k \in Evaluations :
            Transition(episode[u][k], result[e][u]) \in EpisodeRows
      BY TransitionType DEF TypeOK
    <2>3. episode' \in [Substations -> [Evaluations -> EpisodeRows]]
      BY <1>3, <2>1, <2>2 DEF Consume, TypeOK
    <2>4. alert' \in [Substations -> [Evaluations -> AlertRows]]
      BY <1>3, <2>1, AlertAfterType DEF Consume, TypeOK
    <2>5. consumed' \in [Evaluations -> 0..MaxEvaluations]
      <3>1. consumed' = [consumed EXCEPT ![e] = Cardinality(Consumed) + 1]
        BY <1>3 DEF Consume, Consumed
      <3>2. consumed'[e] \in 0..MaxEvaluations
        BY <1>3, Position
      <3> QED
        BY <3>1, <3>2 DEF TypeOK
    <2> QED
      BY <1>3, <2>3, <2>4, <2>5 DEF Consume, TypeOK
  <1>4. ASSUME NEW u \in Substations, MaterializeScenario(u)
        PROVE  TypeOK'
    <2>0. scenario' \in [Substations -> SUBSET (1..completed)]
      <3>1. newest \in 1..completed
        BY <1>4 DEF MaterializeScenario, TypeOK
      <3>2. scenario' = scenario \/ scenario' = [scenario EXCEPT ![u] = @ \cup {newest}]
        BY <1>4 DEF MaterializeScenario
      <3> QED
        BY <3>1, <3>2, SMTT(30) DEF TypeOK
    <2>1. CASE \E k \in Evaluations :
                 alert' = [alert EXCEPT ![u][k].status = "open", ![u][k].reason = "scenario"]
      <3>1. PICK k \in Evaluations :
               alert' = [alert EXCEPT ![u][k].status = "open", ![u][k].reason = "scenario"]
        BY <2>1
      <3>2. [alert[u][k] EXCEPT !.status = "open", !.reason = "scenario"] \in AlertRows
        <4>1. alert[u][k] \in AlertRows
          BY DEF TypeOK
        <4> QED
          BY <4>1 DEF AlertRows
      <3>3. alert' \in [Substations -> [Evaluations -> AlertRows]]
        BY <3>1, <3>2 DEF TypeOK
      <3> QED
        BY <1>4, <2>0, <3>3 DEF MaterializeScenario, TypeOK
    <2>2. CASE UNCHANGED alert
      BY <1>4, <2>0, <2>2 DEF MaterializeScenario, TypeOK
    <2> QED
      BY <1>4, <2>1, <2>2 DEF MaterializeScenario
  <1>5. CASE UNCHANGED vars
    BY <1>5 DEF vars, TypeOK
  <1> QED
    BY <1>1, <1>2, <1>3, <1>4, <1>5 DEF Next

(***************************************************************************)
(* What MaterializeScenario leaves of the other conjuncts: only an alert   *)
(* row that exists changes, and it becomes a scenario's open alert.        *)
(***************************************************************************)
LEMMA ScenarioAlerts ==
  ASSUME TypeOK, NEW u \in Substations, MaterializeScenario(u)
  PROVE  \A t \in Substations, j \in Evaluations :
           \/ alert'[t][j] = alert[t][j]
           \/ /\ alert[t][j].status # "none"
              /\ alert'[t][j].status = "open" /\ alert'[t][j].reason = "scenario"
  <1>1. CASE \E k \in Evaluations :
               /\ alert[u][k].status # "none"
               /\ alert' = [alert EXCEPT ![u][k].status = "open", ![u][k].reason = "scenario"]
    <2>1. PICK k \in Evaluations :
               /\ alert[u][k].status # "none"
               /\ alert' = [alert EXCEPT ![u][k].status = "open", ![u][k].reason = "scenario"]
      BY <1>1
    <2> TAKE t \in Substations, j \in Evaluations
    <2>2. CASE t = u /\ j = k
      <3>1. alert'[u][k] = [alert[u][k] EXCEPT !.status = "open", !.reason = "scenario"]
        BY <2>1 DEF TypeOK
      <3> QED
        BY <2>1, <2>2, <3>1 DEF TypeOK, AlertRows
    <2>3. CASE ~(t = u /\ j = k)
      BY <2>1, <2>3 DEF TypeOK
    <2> QED
      BY <2>2, <2>3
  <1>2. CASE UNCHANGED alert
    BY <1>2
  <1> QED
    BY <1>1, <1>2 DEF MaterializeScenario

(***************************************************************************)
(* Each conjunct of Inv under a consumption.                               *)
(***************************************************************************)

(* A consumption never activates a second row: the row it activates is the *)
(* active one, or there was none.                                          *)
LEMMA ConsumeKeepsOne ==
  ASSUME TypeOK, OneActiveEpisode, Fresh, NEW e \in Evaluations, Consume(e)
  PROVE  OneActiveEpisode'
  <1> SUFFICES ASSUME NEW u \in Substations, NEW j \in Evaluations, NEW k \in Evaluations,
                      Active(episode'[u][j]), Active(episode'[u][k])
               PROVE  j = k
    BY DEF OneActiveEpisode, Active
  <1>1. \A i \in Evaluations : i # EpisodeOf(u, e) => ~Active(episode'[u][i])
    BY ConsumeRow, OtherRows DEF Consume
  <1> QED
    BY <1>1

(* The counters of the row a consumption leaves behind are backed by the   *)
(* run that ends with the consumed evaluation, even if the row is now      *)
(* resolved.                                                               *)
LEMMA ConsumeBacks ==
  ASSUME Inv, NEW e \in Evaluations, Consume(e), NEW u \in Substations, NEW k,
         k = EpisodeOf(u, e)
  PROVE  /\ result[e][u] \in Anomalies =>
              episode'[u][k].anomalies <= Cardinality(Trailing(u, Anomalies))'
         /\ result[e][u] = "normal" =>
              episode'[u][k].normals <= Cardinality(Trailing(u, {"normal"}))'
              \/ episode[u][k].status = "none"
         /\ Active(episode'[u][k]) =>
              /\ episode'[u][k].anomalies <= Cardinality(Trailing(u, Anomalies))'
              /\ episode'[u][k].normals <= Cardinality(Trailing(u, {"normal"}))'
  <1> DEFINE row == episode[u][k]  o == result[e][u]
             new == episode'[u][k]
  <1>1. /\ row \in EpisodeRows /\ o \in Observations /\ new = Transition(row, o)
        /\ k \in Evaluations /\ row.status \in {"none", "pending", "open"}
    BY ConsumeRow DEF Inv
  <1>2. /\ row.anomalies \in Nat /\ row.normals \in Nat
    BY <1>1 DEF EpisodeRows
  <1>3. /\ Cardinality(Trailing(u, Anomalies)) \in Nat
        /\ Cardinality(Trailing(u, {"normal"})) \in Nat
        /\ Cardinality(Trailing(u, Anomalies)') \in Nat
        /\ Cardinality(Trailing(u, {"normal"})') \in Nat
    <2>1. /\ Trailing(u, Anomalies) \subseteq Evaluations
          /\ Trailing(u, {"normal"}) \subseteq Evaluations
          /\ Trailing(u, Anomalies)' \subseteq Evaluations
          /\ Trailing(u, {"normal"})' \subseteq Evaluations
      BY DEF Trailing
    <2> QED
      BY <2>1, EvaluationSets
  <1>4. Backed(row, u)
    <2>1. CASE Active(row)
      BY <1>1, <2>1 DEF Inv, Evidence
    <2>2. CASE row = NoEpisode
      BY <1>3, <2>2 DEF Backed, NoEpisode
    <2>3. Consumable(e)
      BY DEF Consume
    <2> QED
      BY <2>1, <2>2, <2>3, OtherRows DEF Inv
  <1>5. CASE o = "frozen"
    <2>1. /\ Trailing(u, Anomalies)' = Trailing(u, Anomalies)
          /\ Trailing(u, {"normal"})' = Trailing(u, {"normal"})
      BY <1>5, RunAfterConsume DEF Inv, Anomalies, Observations
    <2>2. new = row
      BY <1>1, <1>5, TransitionFacts DEF Inv
    <2> QED
      BY <1>4, <1>5, <2>1, <2>2 DEF Backed, Anomalies
  <1>6. CASE o = "normal"
    <2>1. Cardinality(Trailing(u, {"normal"}))' = Cardinality(Trailing(u, {"normal"})) + 1
      BY <1>6, RunAfterConsume DEF Inv, Observations
    <2>2. /\ row.status = "none" => new = row
          /\ row.status # "none" => new.anomalies = 0 /\ new.normals = row.normals + 1
      BY <1>1, <1>6, TransitionFacts DEF Inv
    <2>3. row.status = "none" => ~Active(new)
      BY <2>2 DEF Active
    <2> QED
      BY <1>2, <1>3, <1>4, <1>6, <2>1, <2>2, <2>3 DEF Backed, Anomalies
  <1>7. CASE o \in Anomalies
    <2>1. Cardinality(Trailing(u, Anomalies))' = Cardinality(Trailing(u, Anomalies)) + 1
      BY <1>7, RunAfterConsume DEF Inv, Anomalies, Observations
    <2>2. new.anomalies = row.anomalies + 1 /\ new.normals = 0
      BY <1>1, <1>7, TransitionFacts DEF Inv
    <2> QED
      BY <1>2, <1>3, <1>4, <1>7, <2>1, <2>2 DEF Backed, Anomalies
  <1> QED
    BY <1>1, <1>5, <1>6, <1>7 DEF Observations

LEMMA ConsumeKeepsEvidence ==
  ASSUME Inv, NEW e \in Evaluations, Consume(e)
  PROVE  Evidence'
  <1> SUFFICES ASSUME NEW u \in Substations, NEW k \in Evaluations, Active(episode'[u][k])
               PROVE  /\ episode'[u][k].anomalies <= Cardinality(Trailing(u, Anomalies))'
                      /\ episode'[u][k].normals <= Cardinality(Trailing(u, {"normal"}))'
    BY DEF Evidence, Backed, Active
  <1>1. k = EpisodeOf(u, e)
    BY ConsumeRow, OtherRows DEF Inv, Consume
  <1> QED
    BY <1>1, ConsumeBacks

(* The alert moves with the row.                                           *)
LEMMA ConsumeKeepsAlerts ==
  ASSUME TypeOK, OneActiveEpisode, AlertFollowsEpisode, Fresh, NEW e \in Evaluations, Consume(e)
  PROVE  AlertFollowsEpisode'
  <1> SUFFICES ASSUME NEW u \in Substations, NEW k \in Evaluations
               PROVE  /\ episode'[u][k].status = "open" => alert'[u][k].status = "open"
                      /\ alert'[u][k].status = "open" /\ alert'[u][k].reason = "lifecycle" =>
                           episode'[u][k].status \in {"pending", "open"}
    BY DEF AlertFollowsEpisode
  <1>1. CASE k # EpisodeOf(u, e)
    BY <1>1, ConsumeRow DEF AlertFollowsEpisode
  <1>2. CASE k = EpisodeOf(u, e)
    <2> DEFINE row == episode[u][k]  o == result[e][u]  a == alert[u][k]
               new == Transition(row, o)  b == AlertAfter(u, k, e)
    <2>1. /\ row \in EpisodeRows /\ o \in Observations
          /\ row.status \in {"none", "pending", "open"}
          /\ episode'[u][k] = new /\ alert'[u][k] = b
      BY <1>2, ConsumeRow
    <2>2. /\ a \in AlertRows
          /\ row.status = "open" => a.status = "open"
          /\ a.status = "open" /\ a.reason = "lifecycle" => row.status \in {"pending", "open"}
      BY DEF TypeOK, AlertFollowsEpisode
    <2>3. row.status = "none" => a.status = "none"
      <3>1. Consumable(e)
        BY DEF Consume
      <3> QED
        BY <1>2, <3>1, OtherRows DEF Active, NoAlertRow
    <2>4. /\ o = "frozen" => new = row
          /\ o = "normal" => new.status \in {row.status, "resolved"}
          /\ o \in Anomalies => new.status \in {"pending", "open"}
      BY <2>1, TransitionFacts
    <2>5. CASE Opens(row, o)
      <3>1. new.status = "open" /\ ~Resolves(row, o) /\ ~Touches(row, o)
        BY <2>5 DEF Opens, Resolves, Touches
      <3>2. b = [status |-> "open", evaluation |-> e, reason |-> "lifecycle"]
        BY <2>5, <3>1 DEF AlertAfter
      <3> QED
        BY <2>1, <3>1, <3>2
    <2>6. CASE ~Opens(row, o) /\ Resolves(row, o)
      <3>1. new.status = "resolved" /\ ~Touches(row, o)
        BY <2>6 DEF Resolves, Touches
      <3>2. b = [a EXCEPT !.status = IF @ = "open" THEN "resolved" ELSE @]
        BY <2>6, <3>1 DEF AlertAfter
      <3>3. b.status # "open"
        BY <2>2, <3>2 DEF AlertRows
      <3> QED
        BY <2>1, <3>1, <3>3
    <2>7. CASE ~Opens(row, o) /\ ~Resolves(row, o)
      <3>1. new.status = "open" => row.status = "open"
        BY <2>7 DEF Opens
      <3>2. new.status # "resolved"
        BY <2>1, <2>7 DEF Resolves
      <3>3. row.status # "none" => new.status \in {"pending", "open"}
        BY <2>1, <2>4, <3>2 DEF Observations
      <3>4. b = IF o # "frozen" /\ a.status # "none"
                THEN [a EXCEPT !.status = "open", !.evaluation = e] ELSE a
        BY <2>7 DEF AlertAfter, Touches
      <3>5. b.status = "open" => a.status # "none"
        BY <2>2, <3>4 DEF AlertRows
      <3>6. a.status = "open" => b.status = "open"
        BY <2>2, <3>4 DEF AlertRows
      <3> QED
        BY <2>1, <2>2, <2>3, <3>1, <3>3, <3>5, <3>6
    <2> QED
      BY <2>5, <2>6, <2>7
  <1> QED
    BY <1>1, <1>2

(***************************************************************************)
(* Invariance.                                                             *)
(***************************************************************************)

LEMMA InvInit == Init => Inv
  <1> SUFFICES ASSUME Init PROVE Inv
    OBVIOUS
  <1>1. TypeOK
    BY TypeInit
  <1>2. \A u \in Substations, e \in Evaluations :
          consumed[e] = 0 /\ episode[u][e] = NoEpisode /\ alert[u][e] = NoAlertRow
    BY DEF Init
  <1>3. OneActiveEpisode /\ AlertFollowsEpisode /\ Fresh /\ Evidence
    BY <1>2 DEF OneActiveEpisode, AlertFollowsEpisode, Fresh, Evidence, Active,
                NoEpisode, NoAlertRow
  <1>4. Ranked
    <2>1. Cardinality(Consumed) \in Nat
      BY EvaluationSets DEF Consumed
    <2> QED
      BY <2>1 DEF Init, Ranked
  <1> QED
    BY <1>1, <1>3, <1>4 DEF Inv

LEMMA InvStep == Inv /\ [Next]_vars => Inv'
  <1> SUFFICES ASSUME Inv, [Next]_vars PROVE Inv'
    OBVIOUS
  <1> USE DEF Inv
  <1>1. TypeOK'
    BY TypeStep
  <1>2. ASSUME NEW e \in Evaluations, Consume(e)
        PROVE  Inv'
    <2>1. Fresh'
      <3> SUFFICES ASSUME NEW u \in Substations, NEW k \in Evaluations, consumed'[k] = 0
                   PROVE  episode'[u][k] = NoEpisode /\ alert'[u][k] = NoAlertRow
        BY DEF Fresh
      <3>1. k # e /\ consumed[k] = 0
        BY <1>2, Position
      <3>2. episode[u][k] = NoEpisode /\ alert[u][k] = NoAlertRow
        BY <3>1 DEF Fresh
      <3>3. k # EpisodeOf(u, e)
        BY <1>2, <3>1, <3>2, OtherRows, SMTT(30) DEF Consume, Active, NoEpisode
      <3> QED
        BY <1>2, <3>2, <3>3, ConsumeRow
    <2>2. Ranked'
      <3>1. Cardinality(Consumed) \in Nat
        BY EvaluationSets DEF Consumed
      <3>2. completed' = completed
        BY <1>2 DEF Consume
      <3> QED
        BY <1>2, <3>1, <3>2, Position DEF Ranked, TypeOK
    <2> QED
      BY <1>1, <1>2, <2>1, <2>2, ConsumeKeepsOne, ConsumeKeepsEvidence, ConsumeKeepsAlerts
  <1>3. ASSUME UNCHANGED <<consumed, episode>>, completed' >= completed,
               UNCHANGED result \/ CompleteEvaluation
        PROVE  OneActiveEpisode' /\ Ranked' /\ Evidence'
    <2>1. OneActiveEpisode'
      BY <1>3 DEF OneActiveEpisode
    <2>2. Ranked'
      <3>1. Consumed' = Consumed
        BY <1>3 DEF Consumed
      <3> QED
        BY <1>1, <1>3, <3>1 DEF Ranked, TypeOK, Evaluations
    <2>3. Evidence'
      <3>1. \A u \in Substations :
              /\ Trailing(u, Anomalies)' = Trailing(u, Anomalies)
              /\ Trailing(u, {"normal"})' = Trailing(u, {"normal"})
        BY <1>3, RunUnchanged
      <3> QED
        BY <1>3, <3>1 DEF Evidence, Active, Backed
    <2> QED
      BY <2>1, <2>2, <2>3
  <1>4. CASE CompleteEvaluation
    <2>1. UNCHANGED <<consumed, episode, alert>> /\ completed' >= completed
      BY <1>4 DEF CompleteEvaluation, TypeOK
    <2>2. AlertFollowsEpisode' /\ Fresh'
      BY <2>1 DEF AlertFollowsEpisode, Fresh
    <2> QED
      BY <1>1, <1>3, <1>4, <2>1, <2>2
  <1>5. CASE UpdatePolicy \/ UNCHANGED vars
    <2>1. UNCHANGED <<consumed, episode, alert, result, completed>> /\ completed' >= completed
      BY <1>5 DEF UpdatePolicy, vars, TypeOK
    <2>2. AlertFollowsEpisode' /\ Fresh'
      BY <2>1 DEF AlertFollowsEpisode, Fresh
    <2> QED
      BY <1>1, <1>3, <2>1, <2>2
  <1>6. ASSUME NEW u \in Substations, MaterializeScenario(u)
        PROVE  Inv'
    <2>1. UNCHANGED <<consumed, episode, result, completed>> /\ completed' >= completed
      BY <1>6 DEF MaterializeScenario, TypeOK
    <2>2. AlertFollowsEpisode'
      BY <1>6, <2>1, ScenarioAlerts DEF AlertFollowsEpisode
    <2>3. Fresh'
      BY <1>6, <2>1, ScenarioAlerts DEF Fresh, NoAlertRow
    <2> QED
      BY <1>1, <1>3, <2>1, <2>2, <2>3
  <1> QED
    BY <1>2, <1>4, <1>5, <1>6 DEF Next

(* The inductive invariant holds in every reachable state: what consume_   *)
(* evaluation writes keeps counters, episodes and alerts in step.          *)
THEOREM Invariance == Spec => []Inv
  BY InvInit, InvStep, PTL DEF Spec

(* Rows keep their types; in particular every evaluation is consumed at    *)
(* most once, because positions stay within the number of evaluations.     *)
THEOREM TypeCorrect == Spec => []TypeOK
  BY Invariance, PTL DEF Inv

(* A substation has at most one pending or open episode.                   *)
THEOREM SingleEpisode == Spec => []OneActiveEpisode
  BY Invariance, PTL DEF Inv

(* Open episodes have open alerts, and open lifecycle alerts have active   *)
(* episodes.                                                               *)
THEOREM AlertSafety == Spec => []AlertFollowsEpisode
  BY Invariance, PTL DEF Inv

(* An episode opens only on a critical anomaly or behind as many           *)
(* consecutive consumed anomalies as the policy asks for.                  *)
THEOREM OpeningSafety == Spec => OpensOnlyConfirmed
  <1> DEFINE A == \A u \in Substations, k \in Evaluations :
       episode[u][k].status # "open" /\ episode'[u][k].status = "open" =>
         \/ \E e \in Evaluations :
              consumed[e] = 0 /\ consumed'[e] # 0 /\ result[e][u] = "critical"
         \/ Cardinality(Trailing(u, Anomalies)') >= policy.anomaly
  <1>1. Inv /\ [Next]_vars => [A]_vars
    <2> SUFFICES ASSUME Inv, [Next]_vars, NEW u \in Substations, NEW k \in Evaluations,
                        episode[u][k].status # "open", episode'[u][k].status = "open"
                 PROVE  \/ \E e \in Evaluations :
                             consumed[e] = 0 /\ consumed'[e] # 0 /\ result[e][u] = "critical"
                        \/ Cardinality(Trailing(u, Anomalies)') >= policy.anomaly
      OBVIOUS
    <2>1. PICK e \in Evaluations : Consume(e)
      BY DEF Next, CompleteEvaluation, UpdatePolicy, MaterializeScenario, vars
    <2>2. k = EpisodeOf(u, e)
      BY <2>1, ConsumeRow DEF Inv
    <2>3. /\ episode[u][k] \in EpisodeRows /\ result[e][u] \in Observations
          /\ episode'[u][k] = Transition(episode[u][k], result[e][u])
          /\ episode[u][k].status \in {"none", "pending", "open"}
      BY <2>1, <2>2, ConsumeRow DEF Inv
    <2>4. consumed[e] = 0 /\ consumed'[e] # 0
      BY <2>1, Position DEF Inv
    <2>5. result[e][u] \in Anomalies
      BY <2>3, TransitionFacts DEF Inv, Observations
    <2>6. result[e][u] = "critical" \/ episode'[u][k].anomalies >= policy.anomaly
      BY <2>3, <2>5, TransitionFacts DEF Inv
    <2>7. episode'[u][k].anomalies <= Cardinality(Trailing(u, Anomalies)')
      BY <2>1, <2>2, <2>5, ConsumeBacks
    <2>8. /\ episode'[u][k].anomalies \in Nat /\ policy.anomaly \in Nat
          /\ Cardinality(Trailing(u, Anomalies)') \in Nat
      <3>1. episode'[u][k] \in EpisodeRows
        BY <2>3, TransitionType DEF Inv
      <3>2. Trailing(u, Anomalies)' \subseteq Evaluations
        BY DEF Trailing
      <3> QED
        BY <3>1, <3>2, EvaluationSets DEF Inv, TypeOK, EpisodeRows
    <2> QED
      BY <2>4, <2>6, <2>7, <2>8
  <1> QED
    BY <1>1, Invariance, PTL DEF Spec, OpensOnlyConfirmed

(* An episode is resolved only behind as many consecutive consumed         *)
(* observations without anomaly as the policy asks for.                    *)
THEOREM RecoverySafety == Spec => ResolvesOnlyRecovered
  <1> DEFINE A == \A u \in Substations, k \in Evaluations :
       episode[u][k].status # "resolved" /\ episode'[u][k].status = "resolved" =>
         Cardinality(Trailing(u, {"normal"})') >= policy.recovery
  <1>1. Inv /\ [Next]_vars => [A]_vars
    <2> SUFFICES ASSUME Inv, [Next]_vars, NEW u \in Substations, NEW k \in Evaluations,
                        episode[u][k].status # "resolved", episode'[u][k].status = "resolved"
                 PROVE  Cardinality(Trailing(u, {"normal"})') >= policy.recovery
      OBVIOUS
    <2>1. PICK e \in Evaluations : Consume(e)
      BY DEF Next, CompleteEvaluation, UpdatePolicy, MaterializeScenario, vars
    <2>2. k = EpisodeOf(u, e)
      BY <2>1, ConsumeRow DEF Inv
    <2>3. /\ episode[u][k] \in EpisodeRows /\ result[e][u] \in Observations
          /\ episode'[u][k] = Transition(episode[u][k], result[e][u])
      BY <2>1, <2>2, ConsumeRow DEF Inv
    <2>4. result[e][u] = "normal" /\ episode[u][k].status # "none"
      BY <2>3, TransitionFacts DEF Inv, Observations
    <2>5. episode'[u][k].normals >= policy.recovery
      BY <2>3, <2>4, TransitionFacts DEF Inv
    <2>6. episode'[u][k].normals <= Cardinality(Trailing(u, {"normal"})')
      BY <2>1, <2>2, <2>4, ConsumeBacks
    <2>7. /\ episode'[u][k].normals \in Nat /\ policy.recovery \in Nat
          /\ Cardinality(Trailing(u, {"normal"})') \in Nat
      <3>1. episode'[u][k] \in EpisodeRows
        BY <2>3, TransitionType DEF Inv
      <3>2. Trailing(u, {"normal"})' \subseteq Evaluations
        BY DEF Trailing
      <3> QED
        BY <3>1, <3>2, EvaluationSets DEF Inv, TypeOK, EpisodeRows
    <2> QED
      BY <2>5, <2>6, <2>7
  <1> QED
    BY <1>1, Invariance, PTL DEF Spec, ResolvesOnlyRecovered

(* No later evaluation changes a resolved episode or its alert.            *)
THEOREM HistorySafety == Spec => ResolvedIsFinal
  <1> DEFINE A == \A u \in Substations, k \in Evaluations :
       episode[u][k].status = "resolved" =>
         /\ episode'[u][k] = episode[u][k]
         /\ alert'[u][k] = alert[u][k] \/ UNCHANGED consumed
  <1>1. Inv /\ [Next]_vars => [A]_vars
    <2> SUFFICES ASSUME Inv, [Next]_vars, NEW u \in Substations, NEW k \in Evaluations,
                        episode[u][k].status = "resolved"
                 PROVE  /\ episode'[u][k] = episode[u][k]
                        /\ alert'[u][k] = alert[u][k] \/ UNCHANGED consumed
      OBVIOUS
    <2>1. ASSUME NEW e \in Evaluations, Consume(e)
          PROVE  episode'[u][k] = episode[u][k] /\ alert'[u][k] = alert[u][k]
      BY <2>1, ConsumeRow DEF Inv
    <2> QED
      BY <2>1 DEF Next, CompleteEvaluation, UpdatePolicy, MaterializeScenario, vars
  <1> QED
    BY <1>1, Invariance, PTL DEF Spec, ResolvedIsFinal
=============================================================================
