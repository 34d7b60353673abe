------------------------------- MODULE MCTimers -------------------------------
(* Small instances of Timers for TLC. *)
EXTENDS Timers

CONSTANTS k1, k2

\* Callbacks that wait in a loop of their own.
Nesting == {[threaded |-> FALSE, depth |-> 2]}

\* Either that, or another thread.
Either == Nesting \cup {[threaded |-> TRUE, depth |-> 1]}
=============================================================================
