--------------------------- MODULE MCSteeringPump ---------------------------
(* Instances of SteeringPump for TLC.                                      *)
EXTENDS SteeringPump, TLC

Symmetry == Permutations(Messages) \cup Permutations(Agents)
=============================================================================
