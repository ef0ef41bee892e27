-------------------------- MODULE MCAlertEpisodes ---------------------------
(* Instances of AlertEpisodes for TLC.  Policies holds the default policy  *)
(* of migration 016 and one that is quicker to open and to resolve.        *)
EXTENDS AlertEpisodes

TwoPolicies == {[anomaly |-> 2, recovery |-> 3], [anomaly |-> 1, recovery |-> 2]}
DefaultPolicy == {[anomaly |-> 2, recovery |-> 3]}
=============================================================================
