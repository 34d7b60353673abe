---------------------------- MODULE MCSelfUpdate ----------------------------
(* A small instance of SelfUpdate, and of CoreModule in it, for TLC. *)
EXTENDS SelfUpdate

CONSTANTS c1, c2, c3, plain, zip

MCCores == {c1, c2, c3}
MCUpdates == {plain, zip}
=============================================================================
