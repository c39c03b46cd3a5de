--------------------------- MODULE MCAgentRuntime ---------------------------
(* Instances of AgentRuntime for TLC.                                      *)
EXTENDS AgentRuntime, TLC

Symmetry == Permutations(Conversations) \cup Permutations(Reports)
=============================================================================
