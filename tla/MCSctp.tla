------------------------------- MODULE MCSctp -------------------------------
(* Small instances of Sctp for TLC. *)
EXTENDS Sctp

\* Counted in network byte order (57348, 8196, 57348), any two chunks but the
\* two long ones fit the hold buffer together.
LongShortLong == <<1232, 1040, 1232>>
=============================================================================
