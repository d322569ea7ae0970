----------------------------- MODULE MCPullFetch -----------------------------
(* Instances of clients that fetch one archive.                             *)
EXTENDS PullFetch, TLC
==============================================================================
