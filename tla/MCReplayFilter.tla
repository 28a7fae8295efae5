---------------------------- MODULE MCReplayFilter ----------------------------
(* An instance of ReplayFilter for TLC: a ring of three blocks of two bits.  *)
EXTENDS ReplayFilter

\* Two and a half laps of the ring, and one counter over the limit.
Counters == 0 .. 15
===============================================================================
