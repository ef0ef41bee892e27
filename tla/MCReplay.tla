------------------------------ MODULE MCReplay ------------------------------
(* Instances of Replay for TLC: the commands the operators of a run use.   *)
EXTENDS Replay, TLC

(* Commands that start, stop, clear the cursor and raise.                  *)
MixedCommands == {"start", "pause", "reset", "malformed"}

(* One of every kind: resume does what start does, and set_speed what      *)
(* pause does.                                                             *)
EveryCommand == {"start", "pause", "cancel", "reset", "seek", "malformed"}

Symmetry == Permutations(Workers)
=============================================================================
