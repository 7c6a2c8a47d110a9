------------------------------ MODULE Timebase ------------------------------
(***************************************************************************)
(* The clock of Core/Src/boot_timebase.c as the schedulers read it: a      *)
(* counter of milliseconds modulo TIME_MOD, 2^32 in the code, that wraps.  *)
(***************************************************************************)
EXTENDS Integers

CONSTANTS
    TIME_MOD,
    MaxLoop         \* bound: milliseconds in one iteration of the main loop

ASSUME TimebaseAssumption == TIME_MOD \in Nat \ {0} /\ MaxLoop \in Nat

Times == 0 .. TIME_MOD - 1

\* A time stamp some milliseconds later, and the difference of two.
Later(time, ms) == (time + ms) % TIME_MOD

Elapsed(from, to) == (to - from) % TIME_MOD
=============================================================================
