---------------------------- MODULE MCCollector ----------------------------
(* Small instances of Collector for TLC. *)
EXTENDS Collector, TLC

CONSTANTS c1, c2, t1, m1

\* Two collectors are interchangeable when no temporal property is checked.
Symmetric == Permutations(Collectors)
=============================================================================
