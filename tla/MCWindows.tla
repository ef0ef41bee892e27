------------------------------ MODULE MCWindows -------------------------------
(***************************************************************************)
(* The windows of a replay and what is made of a window, on small          *)
(* instances.  The two share no state: a behaviour exercises the one focus *)
(* names and leaves the other alone.                                       *)
(*   replay  Replay                                                        *)
(*   gate    PriorityScoring: probabilities around every threshold         *)
(*   points  the same, the evidence of the earlier policy                  *)
(***************************************************************************)
EXTENDS MCReplay, PriorityScoring

VARIABLE focus

(* What the models may say of a substation: one answer in full, and the    *)
(* ways in which others differ.                                            *)
Plain ==
  [scope |-> TRUE, override |-> FALSE, windowed |-> TRUE, age |-> 0,
   coverage |-> [m \in {"anomaly", "risk", "leadtime", "m1"} |-> 100],
   risk |-> 0, roll4 |-> 0, roll8 |-> 0, preEvent |-> 0, near |-> 0, mid |-> 0,
   detected |-> [r \in {"iforest", "mahalanobis"} |-> FALSE], criticality |-> 0,
   ensemble |-> 800000, gate |-> [g \in {"fault", "task", "activity"} |-> 0],
   context |-> 0, windows |-> 0, confirmed |-> {}, highs48h |-> 0, repeated |-> "none",
   persistence |-> 0, highs |-> [h \in {"24h", "3d", "7d"} |-> 0],
   sinceTask |-> -1, sinceEvent |-> -1]

Certain ==
  {[Plain EXCEPT !.risk = r, !.preEvent = p, !.ensemble = e] :
     r \in {219999, 779999, 780000, 919999, 920000},
     p \in {0, 989999, 990000, 998000}, e \in {800000, 900000}}
Doubtful ==
  {[Plain EXCEPT !.risk = 780000, !.roll4 = 930000, !.roll8 = 900000, !.override = o,
                 !.scope = p, !.preEvent = 995000, !.coverage[m] = c, !.age = w, !.windowed = w < 12,
                 !.detected["iforest"] = TRUE, !.detected["mahalanobis"] = l] :
     o, p, l \in BOOLEAN, m \in {"m1", "risk"}, c \in {74, 75}, w \in 10..12}
Remembered ==
  {[Plain EXCEPT !.risk = 780000, !.roll4 = r, !.preEvent = 998000] : r \in {900000, 1000000}}
Gate == Certain \cup Doubtful \cup Remembered

Leaning ==
  {a \in {[Plain EXCEPT !.near = n, !.mid = m, !.risk = r] :
            n \in {0, 330000, 340000, 590000, 600000, 800000},
            m \in {0, 200000, 330000, 500000}, r \in {400000, 930000}} :
     a.near + a.mid <= 1000000}
Confirmed ==
  {[Plain EXCEPT !.risk = 930000, !.near = n, !.mid = 1000000 - n, !.override = TRUE,
                 !.criticality = c, !.detected = [r \in DOMAIN @ |-> r \in d],
                 !.confirmed = k, !.context = 10, !.windows = w, !.highs48h = w,
                 !.highs["24h"] = w, !.persistence = 3, !.sinceTask = t, !.sinceEvent = t] :
     n \in {400000, 600000}, c \in {0, 5}, d \in {{}, {"iforest"}, {"iforest", "mahalanobis"}},
     k \in {{}, {"main", "short"}}, w \in {0, 2}, t \in {-1, 30}}
Points == Leaning \cup Confirmed

Either == Gate \cup Points
-----------------------------------------------------------------------------
AnyInit ==
  /\ focus \in {"replay", "gate", "points"}
  /\ Init
  /\ IF focus = "replay"
     THEN answer = <<>> /\ stage = "none" /\ row = <<>> /\ taken = <<>>
     ELSE /\ start = 1
          /\ answer \in [Substations -> IF focus = "gate" THEN Gate ELSE Points]
          /\ ScoringInit

AnyNext ==
  /\ UNCHANGED focus
  /\ \/ focus = "replay" /\ Next /\ UNCHANGED scoringVars
     \/ focus # "replay" /\ ScoringNext /\ UNCHANGED vars
     \/ focus # "replay" /\ stage = "consumed" /\ UNCHANGED <<vars, scoringVars>>

AnySpec == AnyInit /\ [][AnyNext]_<<focus, vars, scoringVars>>
=============================================================================
