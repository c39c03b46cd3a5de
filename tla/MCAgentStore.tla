---------------------------- MODULE MCAgentStore ----------------------------
(* Instances of AgentStore for TLC: the sets are model values of a cfg.    *)
EXTENDS AgentStore, TLC

(* Leases, rows and rules treat all runtimes, agents, conversations and    *)
(* texts alike, so states that differ by a permutation of them are one.    *)
Symmetry == Permutations(Agents) \cup Permutations(Runtimes)
              \cup Permutations(Conversations) \cup Permutations(Messages)
              \cup Permutations(Owners) \cup Permutations(Reports)
=============================================================================
