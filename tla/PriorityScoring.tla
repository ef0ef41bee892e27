---------------------------- MODULE PriorityScoring ----------------------------
(***************************************************************************)
(* The scores of one evaluation: what the models answer for a batch of     *)
(* substations becomes levels, scores and ranks (inference.py,             *)
(* evaluation.py), and each result an alert, a preventive projection or    *)
(* an observation of the substation's episode.                             *)
(*                                                                         *)
(* Probabilities are integers in millionths.  Scores and points are        *)
(* integers in ten-thousandths, the four decimals the code stores.         *)
(***************************************************************************)
EXTENDS Integers, FiniteSets, FiniteSetsExt

CONSTANTS
  Substations,  \* the substations of the batch, numbered
  Answers,      \* what the models and the features may say of one
  StaleAfter    \* age from which a window is stale

One == 1000000
Probability == 0..One
Percent == 0..100
Evidence ==
  [scope : BOOLEAN, override : BOOLEAN, windowed : BOOLEAN, age : Nat,
   coverage : [{"anomaly", "risk", "leadtime", "m1"} -> Percent],
   risk : Probability, roll4 : Probability, roll8 : Probability, preEvent : Probability,
   near : Probability, mid : Probability,
   detected : [{"iforest", "mahalanobis"} -> BOOLEAN], criticality : Nat, ensemble : Nat,
   gate : [{"fault", "task", "activity"} -> Probability], context : Nat, windows : Nat,
   confirmed : SUBSET {"short", "main", "persistent", "operational"}, highs48h : Nat,
   repeated : {"none", "watch", "high"}, persistence : Nat,
   highs : [{"24h", "3d", "7d"} -> Nat], sinceTask : Nat \cup {-1}, sinceEvent : Nat \cup {-1}]
(* The probabilities of the three buckets add up to one.                   *)
AnswerType == {a \in Evidence : a.near + a.mid <= One}
ASSUME ScoringAssumption ==
  /\ IsFiniteSet(Substations) /\ Substations \subseteq Nat
  /\ Answers \subseteq AnswerType /\ StaleAfter \in Nat

VARIABLES
  answer,  \* answer[s]: features and model outputs of s
  stage,   \* where the evaluation is
  row,     \* row[s]: the result of s
  taken    \* taken[s]: what the consumption of the evaluation made of it

scoringVars == <<answer, stage, row, taken>>

Clamp(x, high) == Max({0, Min({x, high})})
Rounded(n, d) == (2 * n + d) \div (2 * d)
-----------------------------------------------------------------------------
(* _infer_risk: the score keeps the memory of the last windows.            *)
RiskScore(a) ==
  Max({a.risk, (9 * a.roll4) \div 10, Min({One, 105 * (a.roll8 \div 100)})})

RiskThresholds(a) ==
  [medium |-> 220000, high |-> IF a.override THEN 370000 ELSE 920000, critical |-> 920000]

RiskLevel(a) ==
  LET t == RiskThresholds(a) IN
  CASE RiskScore(a) >= t.critical -> "critical"
    [] RiskScore(a) \in t.high..(t.critical - 1) -> "high"
    [] RiskScore(a) \in t.medium..(t.high - 1) -> "medium"
    [] OTHER -> "low"

(* _infer_leadtime: the likelier bucket, and 1 - (expected - 12) / 108.    *)
(* a.near and a.mid are the probabilities of 0-24h and 1-3d.               *)
Bucket(a) ==
  LET far == One - a.near - a.mid IN
  CASE a.near >= a.mid /\ a.near >= far -> "0-24h"
    [] a.near < a.mid /\ a.mid >= far -> "1-3d"
    [] OTHER -> "3-7d"

Confidence(a) == Max({a.near, a.mid, One - a.near - a.mid})
Urgency(a) == a.near + (2 * a.mid) \div 3

(* _infer_anomaly                                                          *)
Consensus(a) == Cardinality({r \in {"iforest", "mahalanobis"} : a.detected[r]})
Label(a) == Consensus(a) = 2
Criticality(a) == IF Label(a) THEN a.criticality ELSE 0

(* _infer_m1: its models answer for the first manufacturer only.           *)
PreEvent(a) == IF a.scope THEN a.preEvent ELSE 0

(* usable: enough of the features of every model asked.                    *)
Usable(a) ==
  Min({a.coverage[m] : m \in {"anomaly", "risk", "leadtime"}
                             \cup (IF a.scope THEN {"m1"} ELSE {})}) >= 75
-----------------------------------------------------------------------------
(* _band_evidence_score.  A band has a slope n / d in ten-thousandths per  *)
(* millionth; what is below the whole ten-thousandth is returned as well.  *)
RiskBands == [medium |-> 220000, high |-> 780000, urgent |-> 920000,
              slopes |-> <<<<45, 11>>, <<9, 56>>, <<2, 35>>, <<1, 40>>>>]
PreEventBands == [medium |-> 500000, high |-> 990000, urgent |-> 998000,
                  slopes |-> <<<<9, 5>>, <<9, 49>>, <<1, 1>>, <<1, 1>>>>]

Along(base, slope, x) ==
  [floor |-> base + (slope[1] * x) \div slope[2], rounded |-> base + Rounded(slope[1] * x, slope[2])]

BandScore(v, b) ==
  CASE v >= b.urgent -> Along(998000, b.slopes[4], v - b.urgent)
    [] v \in b.high..(b.urgent - 1) -> Along(990000, b.slopes[3], v - b.high)
    [] v \in b.medium..(b.high - 1) -> Along(900000, b.slopes[2], v - b.medium)
    [] OTHER -> Along(0, b.slopes[1], v)

(* _score_hybrid: the larger of the two.                                   *)
HybridScore(a) ==
  LET r == BandScore(RiskScore(a), RiskBands)
      p == BandScore(PreEvent(a), PreEventBands)
  IN  [floor |-> Max({r.floor, p.floor}), rounded |-> Max({r.rounded, p.rounded})]

PolicyLevel(score, t) ==
  CASE score >= t.urgent -> "urgent"
    [] score \in t.high..(t.urgent - 1) -> "high"
    [] score \in t.medium..(t.high - 1) -> "medium"
    [] OTHER -> "low"

GateThresholds == [medium |-> 900000, high |-> 990000, urgent |-> 998000]

(* Seeded fault: the level of the score that is stored.                    *)
LevelOfRounded(a) == PolicyLevel(HybridScore(a).rounded, GateThresholds)

(* The level is that of the score before it is rounded.                    *)
Level(a) == PolicyLevel(HybridScore(a).floor, GateThresholds)
-----------------------------------------------------------------------------
(* _score_current_best: the earlier policy, stored beside the score.       *)
RiskPoints == [critical |-> 380000, high |-> 280000, medium |-> 150000, low |-> 40000]
BucketPoints(b) == CASE b = "0-24h" -> 180000 [] b = "1-3d" -> 100000 [] b = "3-7d" -> 40000

Multiplier(a) ==
  IF Confidence(a) >= 800000 THEN 10 ELSE IF Confidence(a) >= 600000 THEN 8 ELSE 6

LeadtimePoints(a) ==
  (BucketPoints(Bucket(a)) * 3 * Multiplier(a)) \div 40 + (3 * Urgency(a)) \div 100

AnomalyPoints(a) ==
  Clamp((a.ensemble - 800000) \div 10, 80000)
  + (CASE Consensus(a) = 2 -> 30000 [] Consensus(a) = 1 -> 10000 [] OTHER -> 0)
  + Clamp(6000 * Criticality(a), 30000)

WindowPoints(a) ==
  Clamp(Clamp(4500 * a.context, 45000) + Clamp(8000 * a.windows, 30000)
        + (IF "short" \in a.confirmed THEN 15000 ELSE 0)
        + (IF "main" \in a.confirmed THEN 30000 ELSE 0)
        + (IF "persistent" \in a.confirmed THEN 25000 ELSE 0)
        + (IF "operational" \in a.confirmed THEN 10000 ELSE 0), 120000)

EpisodePoints(a) ==
  Clamp(Clamp(15000 * a.highs48h, 45000)
        + (CASE a.repeated = "high" -> 50000 [] a.repeated = "watch" -> 20000 [] OTHER -> 0)
        + Clamp(8 * ((RiskScore(a) - a.risk) \div 100), 30000), 100000)

HorizonPoints(a) ==
  Clamp(Clamp(10000 * a.persistence, 120000)
        + 20000 * Cardinality({h \in {"24h", "3d", "7d"} :
                                 a.highs[h] >= (CASE h = "24h" -> 2 [] h = "3d" -> 4 [] h = "7d" -> 8)}),
        180000)

(* _history_adjustment: days since the last task and the last event, or -1.*)
Lately(days, week, month) ==
  CASE days \in 0..7 -> week [] days \in 8..30 -> month [] OTHER -> 0
HistoryPoints(a) == Lately(a.sinceTask, -80000, -40000) + Lately(a.sinceEvent, -50000, -20000)

UrgencyBonus(a) ==
  LET risky == RiskLevel(a) \in {"high", "critical"} IN
  CASE risky /\ Bucket(a) = "0-24h" /\ Consensus(a) = 2 -> 80000
    [] risky /\ Bucket(a) = "1-3d" /\ Criticality(a) >= 5 -> 50000
    [] OTHER -> 0

CurrentBest(a) ==
  Clamp(RiskPoints[RiskLevel(a)] + Clamp(18 * (RiskScore(a) \div 100), 180000)
        + LeadtimePoints(a) + AnomalyPoints(a) + WindowPoints(a) + EpisodePoints(a)
        + HorizonPoints(a) + HistoryPoints(a) + UrgencyBonus(a), One)

CurrentBestLevel(a) ==
  PolicyLevel(CurrentBest(a), [medium |-> 340000, high |-> 480000, urgent |-> 700000])

(* The specialist's score and how the two earlier policies agree.          *)
Specialist(a) == 55 * (PreEvent(a) \div 100) + 30 * (Urgency(a) \div 100) + 15000
SpecialistLevel(a) ==
  PolicyLevel(Specialist(a), [medium |-> 450000, high |-> 750000, urgent |-> 900000])

Agreement(a) ==
  LET current == CurrentBestLevel(a) \in {"high", "urgent"}
      specialist == SpecialistLevel(a) \in {"high", "urgent"}
  IN  CASE current /\ specialist -> "both_high"
        [] current /\ ~specialist -> "current_only_high"
        [] ~current /\ specialist -> "m1_specialist_only_high"
        [] OTHER -> "both_not_high"

(* _infer_m1: the gates that fire, in the order of their precedence.       *)
Gates(a) == {g \in {"fault", "task", "activity"} : a.scope /\ a.gate[g] >= 500000}
PrimaryState(a) ==
  CASE ~a.scope -> "out_of_scope"
    [] a.scope /\ "fault" \in Gates(a) -> "fault"
    [] a.scope /\ "fault" \notin Gates(a) /\ "task" \in Gates(a) -> "task"
    [] a.scope /\ Gates(a) = {"activity"} -> "activity"
    [] OTHER -> "normal"
-----------------------------------------------------------------------------
Unscored == [score |-> -1, level |-> "none", risk |-> -1, riskLevel |-> "none", urgency |-> -1,
          anomaly |-> -1, label |-> "none", freshness |-> "missing", rank |-> 0,
          currentBest |-> -1, agreement |-> "none", state |-> "none"]

(* A window older than as_of_time has its age, a later one 0.              *)
Freshness(a) ==
  CASE ~(a.windowed /\ Usable(a)) -> "missing"
    [] a.windowed /\ Usable(a) /\ a.age > StaleAfter -> "stale"
    [] OTHER -> "fresh"

Result(a) ==
  [Unscored EXCEPT !.freshness = Freshness(a), !.riskLevel = RiskLevel(a),
                !.currentBest = CurrentBest(a), !.agreement = Agreement(a),
                !.state = PrimaryState(a)]

ModelResult(a) ==
  [Result(a) EXCEPT !.score = HybridScore(a).rounded, !.level = Level(a), !.risk = RiskScore(a),
                    !.urgency = Urgency(a), !.anomaly = a.ensemble,
                    !.label = IF Label(a) THEN "true" ELSE "false"]

(* infer_batch and the rows of build_evaluation_results                    *)
Infer ==
  /\ stage = "asked" /\ stage' = "scored"
  /\ row' = [s \in Substations |-> IF Freshness(answer[s]) = "missing" THEN Result(answer[s])
                                   ELSE ModelResult(answer[s])]
  /\ UNCHANGED <<answer, taken>>

Included(s) == row[s].freshness = "fresh"

(* Seeded fault: the risk does not decide between equal scores.            *)
KeyWithoutRisk(s) ==
  <<-row[s].score, 0, -row[s].urgency, -row[s].anomaly, s>>

(* priority_sort_key                                                       *)
SortKey(s) == <<-row[s].score, -row[s].risk, -row[s].urgency, -row[s].anomaly, s>>

Before(s, t) ==
  \E i \in 1..5 : /\ SortKey(s)[i] < SortKey(t)[i]
                  /\ \A j \in 1..(i - 1) : SortKey(s)[j] = SortKey(t)[j]

(* assign_priority_ranks                                                   *)
Rank ==
  /\ stage = "scored" /\ stage' = "ranked"
  /\ row' = [s \in Substations |-> [row[s] EXCEPT !.rank =
       IF Included(s) THEN 1 + Cardinality({t \in Substations : Included(t) /\ Before(t, s)})
       ELSE 0]]
  /\ UNCHANGED <<answer, taken>>

Alerts == {s \in Substations : Included(s) /\ row[s].level \in {"high", "urgent"}}

Severity(s) ==
  IF row[s].riskLevel = "critical" \/ row[s].level = "urgent" THEN "critical" ELSE "high"

(* _record_preventive                                                      *)
IsPreventive(s) == row[s].level \in {"high", "urgent"}

(* _consume_result, for every row in one transaction                       *)
Taken(s) ==
  IF row[s].freshness # "fresh" \/ row[s].label = "none"
  THEN [kind |-> "freeze", severity |-> "none", preventive |-> FALSE]
  ELSE IF row[s].label = "false"
  THEN [kind |-> "normal", severity |-> "none", preventive |-> IsPreventive(s)]
  ELSE [kind |-> "anomaly", severity |-> Severity(s), preventive |-> FALSE]

Consume ==
  /\ stage = "ranked" /\ stage' = "consumed"
  /\ taken' = [s \in Substations |-> Taken(s)]
  /\ UNCHANGED <<answer, row>>

ScoringInit ==
  /\ answer \in [Substations -> Answers]
  /\ stage = "asked"
  /\ row = [s \in Substations |-> Unscored]
  /\ taken = <<>>

ScoringNext == Infer \/ Rank \/ Consume

ScoringSpec == ScoringInit /\ [][ScoringNext]_scoringVars
-----------------------------------------------------------------------------
(* decision_basis of _score_hybrid: risk >= 0.78 or pre_event >= 0.99, and *)
(* urgent from 0.92 or 0.998.  A substation is an alert exactly if its     *)
(* window is fresh, its features suffice and the gate is passed - though   *)
(* the level is taken of a score that is banded and rounded.  And no alert *)
(* is lost when the evaluation is consumed: it is an anomaly of the        *)
(* episode, critical if it is urgent, or a preventive projection.          *)
AlertsFollowTheGate ==
  stage = "consumed" => \A s \in Substations :
    LET a == answer[s]
        passes(risk, pre) == RiskScore(a) >= risk \/ PreEvent(a) >= pre
        fresh == a.windowed /\ Usable(a) /\ a.age <= StaleAfter
    IN  /\ s \in Alerts <=> fresh /\ passes(780000, 990000)
        /\ fresh => (row[s].level = "urgent" <=> passes(920000, 998000))
        /\ s \in Alerts =>
             \/ taken[s].kind = "normal" /\ taken[s].preventive
             \/ /\ taken[s].kind = "anomaly"
                /\ passes(920000, 998000) => taken[s].severity = "critical"

(* Evidence that is at least as strong in every respect never ranks lower  *)
(* and, but for a recent task or event, never has fewer points in the      *)
(* earlier policy - though probabilities are banded, a nearer bucket may   *)
(* be less sure, and equal rounded scores fall to the next of the keys.    *)
(* (The raw probability is the same: the earlier policy pays for the       *)
(* memory of earlier windows, which a higher probability makes smaller.    *)
(* It counts the likeliest bucket and how sure that is: an event that is   *)
(* more urgent, as likely within a day, but likeliest after it, has fewer  *)
(* points, and so has a bucket that loses to a nearer one; so the bucket   *)
(* is at least as near and, if the same, as sure.)                         *)
AtLeast(a, b) ==
  /\ RiskScore(a) >= RiskScore(b) /\ a.risk = b.risk /\ PreEvent(a) >= PreEvent(b)
  /\ a.near >= b.near /\ Urgency(a) >= Urgency(b) /\ a.ensemble >= b.ensemble
  /\ BucketPoints(Bucket(a)) >= BucketPoints(Bucket(b))
  /\ Bucket(a) = Bucket(b) => Confidence(a) >= Confidence(b)
  /\ Consensus(a) >= Consensus(b) /\ Criticality(a) >= Criticality(b)
  /\ a.override = b.override /\ a.context >= b.context /\ a.windows >= b.windows
  /\ b.confirmed \subseteq a.confirmed /\ a.highs48h >= b.highs48h
  /\ a.repeated = b.repeated /\ a.persistence >= b.persistence
  /\ \A h \in DOMAIN a.highs : a.highs[h] >= b.highs[h]

RankedByEvidence ==
  stage = "ranked" =>
    /\ {row[s].rank : s \in {t \in Substations : Included(t)}}
         = 1..Cardinality({t \in Substations : Included(t)})
    /\ \A s, t \in Substations : s # t /\ AtLeast(answer[s], answer[t]) =>
         /\ Included(s) /\ Included(t) =>
              \/ row[s].rank < row[t].rank
              \/ /\ row[s].score = row[t].score /\ row[s].risk = row[t].risk
                 /\ row[s].urgency = row[t].urgency /\ row[s].anomaly = row[t].anomaly
         /\ HistoryPoints(answer[s]) = 0 => row[s].currentBest >= row[t].currentBest
=============================================================================
