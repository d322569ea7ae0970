---------------------------- MODULE MCPullServer ----------------------------
(* Instances of the pull server: one conversation, or two, and a client.    *)
EXTENDS PullServer, TLC

Symmetry == Permutations(Freezes)
============================================================================
