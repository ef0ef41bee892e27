------------------------------ MODULE MCPriority ------------------------------
(***************************************************************************)
(* From the data to the alerts, on small instances.  The modules share no  *)
(* state: a behaviour exercises the one focus names and leaves the others  *)
(* alone.                                                                  *)
(*   episodes  AlertEpisodes                                               *)
(*   evaluate  PriorityEvaluations: one reader, and evaluations posted for *)
(*             a time to come                                              *)
(*   posted    the same: posted for a time gone by, another stale_after    *)
(*   failing   the same without posts: two substations, evaluations that   *)
(*             fail, and a window that a replay stores                     *)
(***************************************************************************)
EXTENDS MCAlertEpisodes, PriorityEvaluations

VARIABLE focus

Order(asOf, staleAfter) == [asOf |-> asOf, stale |-> staleAfter]
Ahead == {Order(3, "default")}
Pairs == {"u"} \X (1..2)
Posted == INSTANCE PriorityEvaluations WITH Bodies <- {Order(0, "other")}
Failing == INSTANCE PriorityEvaluations WITH
  Posters <- {}, Bodies <- {}, Expected <- {"u", "v"}, Rows <- {"u", "v"} \X {1},
  Replayed <- {2}, MaxFailures <- 1
-----------------------------------------------------------------------------
AnyInit ==
  /\ focus \in {"episodes", "evaluate", "posted", "failing"}
  /\ Init
  /\ focus # "episodes" => policy = [anomaly |-> 2, recovery |-> 3]
  /\ IF focus = "failing" THEN Failing!EvaluationInit ELSE EvaluationInit

AnyNext ==
  /\ UNCHANGED focus
  /\ \/ focus = "episodes" /\ Next /\ UNCHANGED evaluationVars
     \/ focus = "evaluate" /\ EvaluationNext /\ UNCHANGED vars
     \/ focus = "posted" /\ Posted!EvaluationNext /\ UNCHANGED vars
     \/ focus = "failing" /\ Failing!EvaluationNext /\ UNCHANGED vars

AnySpec == AnyInit /\ [][AnyNext]_<<focus, vars, evaluationVars>>
=============================================================================
