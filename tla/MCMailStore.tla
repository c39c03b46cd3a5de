---------------------------- MODULE MCMailStore ----------------------------
(* Instances of MailStore for TLC.                                         *)
EXTENDS MailStore, TLC

Symmetry == Permutations(Conversations) \cup Permutations(Owners)
=============================================================================
