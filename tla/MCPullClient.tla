---------------------------- MODULE MCPullClient ----------------------------
(* Instances of one conversation's copies.                                 *)
EXTENDS PullClient, TLC

Symmetry == Permutations(Commands) \cup Permutations(Readers)
============================================================================
