--------------------------- MODULE MCControlChannel ---------------------------
(* Small instances of ControlChannel for TLC. *)
EXTENDS ControlChannel

CONSTANTS g1, g2, o1, n1, n2
=============================================================================
