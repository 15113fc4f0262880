-------------------------------- MODULE Pool --------------------------------
(***************************************************************************)
(* What the components behind POST /query share: the threads of the        *)
(* server's pool and the clock they read.                                  *)
(***************************************************************************)
EXTENDS Integers, Sequences, FiniteSets

CONSTANTS
  Threads,
  MaxClock   \* bound: time

VARIABLE clock

AtMost(m, n)  == IF n <= m THEN n ELSE m
AtLeast(m, n) == IF n >= m THEN n ELSE m

ClockTicks == clock < MaxClock /\ clock' = clock + 1
=============================================================================
