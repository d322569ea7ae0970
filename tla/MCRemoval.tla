----------------------------- MODULE MCRemoval -----------------------------
(* Small instances of Removal for TLC. *)
EXTENDS Removal
=============================================================================
