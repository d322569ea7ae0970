------------------------------ MODULE MCParser ------------------------------
(* Small instances of Parser for TLC. *)
EXTENDS Parser, TLC

CONSTANTS p1, p2, n1, g1

Symmetric == Permutations(Parsers)
=============================================================================
