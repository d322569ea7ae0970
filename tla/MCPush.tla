------------------------------- MODULE MCPush -------------------------------
(* Small instances of Push for TLC. *)
EXTENDS Push

CONSTANTS s1, s2, o1, o2

Item(kind, session, n) == [kind |-> kind, session |-> session, n |-> n]

\* A run whose session has a file that is not UTF-8, then a file with its
\* metrics.
BadFile == Item("file", s1, 1)
Bad == {BadFile}
Everything ==
    {BadFile, Item("stage", s1, 1), Item("close", s1, 1),
     Item("file", s2, 1), Item("request", s2, 1)}
OneRun == {Item("file", s1, 1), Item("stage", s1, 1), Item("stage", s1, 2), Item("close", s1, 1)}

TwoEndpoints == [o \in Owners |-> IF o = o1 THEN "here" ELSE "there"]
=============================================================================
