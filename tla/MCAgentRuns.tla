---------------------------- MODULE MCAgentRuns -----------------------------
(* Instances of AgentRuns for TLC: the .cfg files give the constants; the  *)
(* servers, and the alerts, are interchangeable in the runs without        *)
(* liveness properties.                                                    *)
EXTENDS AgentRuns, TLC

Symmetry == Permutations(Servers) \cup Permutations(Alerts)
=============================================================================
