--------------------------- MODULE MCAccountPool ---------------------------
(* Small instances of AccountPool for TLC. *)
EXTENDS AccountPool

MCAccount == 1..2
=============================================================================
