-------------------------- MODULE WatchdogScheduler --------------------------
(***************************************************************************)
(* The external watchdog's feed, Drivers/BSP/Src/bsp_external_watchdog.c,  *)
(* as the main loop of Core/Src/main.c drives it.  Each iteration samples  *)
(* time_ms, handles frames, which takes up to MaxLoop milliseconds (a      *)
(* whole erase, or the wait of boot_timeout_poll), and polls the scheduler *)
(* with the sample.  Deadlines are compared by the sign of the difference. *)
(***************************************************************************)
EXTENDS Timebase

CONSTANTS
    INTERVAL_MS,
    PULSE_MS

ASSUME SchedulerAssumption ==
    /\ INTERVAL_MS \in Nat /\ PULSE_MS \in Nat
    /\ 0 < PULSE_MS /\ PULSE_MS < INTERVAL_MS
    /\ TIME_MOD % 2 = 0
    /\ INTERVAL_MS + 2 * MaxLoop < TIME_MOD \div 2

VARIABLES
    time_ms,
    now_ms,         \* the sample the iteration works with
    mpc,            \* "sample" or "poll": the next step of the iteration
    state,
    next_feed_ms,
    pulse_start_ms,
    pin,            \* PA6 is at its active level
    loop_ms,        \* milliseconds since the sample
    high_ms,        \* milliseconds since the pin rose, up to PULSE_MS
    unfed_ms        \* milliseconds since the pin rose, up to UnfedLimit + 1

scheduler_vars == <<time_ms, now_ms, mpc, state, next_feed_ms, pulse_start_ms, pin,
                    loop_ms, high_ms, unfed_ms>>

UnfedLimit == INTERVAL_MS + PULSE_MS + 3 * MaxLoop - 2

\* Mutant: the deadlines are compared as unsigned numbers.
PassedUnsigned(deadline, now) == now >= deadline

\* The sign of the difference as int32_t.
Passed(deadline, now) == Elapsed(deadline, now) < TIME_MOD \div 2

\* watchdog_scheduler_init, from main() some milliseconds after
\* boot_timebase_init.
SchedulerInit ==
    /\ time_ms \in 0 .. MaxLoop
    /\ now_ms = time_ms
    /\ mpc = "sample"
    /\ state = "IDLE"
    /\ next_feed_ms = Later(now_ms, INTERVAL_MS)
    /\ pulse_start_ms = now_ms
    /\ pin = FALSE
    /\ loop_ms = 0
    /\ high_ms = 0
    /\ unfed_ms = 0

Capped(n, max) == IF n < max THEN n + 1 ELSE max

\* SysTick_Handler
Tick ==
    /\ loop_ms < MaxLoop
    /\ time_ms' = Later(time_ms, 1)
    /\ loop_ms' = loop_ms + 1
    /\ high_ms' = IF pin THEN Capped(high_ms, PULSE_MS) ELSE high_ms
    /\ unfed_ms' = Capped(unfed_ms, UnfedLimit + 1)
    /\ UNCHANGED <<now_ms, mpc, state, next_feed_ms, pulse_start_ms, pin>>

Sample ==
    /\ mpc = "sample"
    /\ now_ms' = time_ms
    /\ loop_ms' = 0
    /\ mpc' = "poll"
    /\ UNCHANGED <<time_ms, state, next_feed_ms, pulse_start_ms, pin, high_ms, unfed_ms>>

-----------------------------------------------------------------------------
(* watchdog_scheduler_poll.                                                *)

Poll(in) ==
    /\ mpc = "poll"
    /\ state = in
    /\ mpc' = "sample"
    /\ UNCHANGED <<time_ms, now_ms, loop_ms>>

\* Mutant: one interval on, however late the poll is.
NextDeadlineByOne == Later(next_feed_ms, INTERVAL_MS)

\* The first deadline in the future that keeps the rhythm.
NextDeadline ==
    LET periods == Elapsed(next_feed_ms, now_ms) \div INTERVAL_MS + 1
    IN  Later(next_feed_ms, periods * INTERVAL_MS)

PulseOver == Elapsed(pulse_start_ms, now_ms) >= PULSE_MS

PulseGoesOn ==
    /\ Poll("PULSE_HIGH")
    /\ ~PulseOver
    /\ UNCHANGED <<state, next_feed_ms, pulse_start_ms, pin, high_ms, unfed_ms>>

\* A deadline that passed during the pulse is skipped.
PulseEnds ==
    /\ Poll("PULSE_HIGH")
    /\ PulseOver
    /\ pin' = FALSE
    /\ state' = "IDLE"
    /\ next_feed_ms' = IF Passed(next_feed_ms, now_ms) THEN NextDeadline ELSE next_feed_ms
    /\ UNCHANGED <<pulse_start_ms, high_ms, unfed_ms>>

FeedNotDue ==
    /\ Poll("IDLE")
    /\ ~Passed(next_feed_ms, now_ms)
    /\ UNCHANGED <<state, next_feed_ms, pulse_start_ms, pin, high_ms, unfed_ms>>

Feed ==
    /\ Poll("IDLE")
    /\ Passed(next_feed_ms, now_ms)
    /\ pin' = TRUE
    /\ state' = "PULSE_HIGH"
    /\ pulse_start_ms' = now_ms
    /\ next_feed_ms' = NextDeadline
    /\ high_ms' = 0
    /\ unfed_ms' = 0

MainStep == Sample \/ PulseGoesOn \/ PulseEnds \/ FeedNotDue \/ Feed

SchedulerNext == Tick \/ MainStep

SchedulerSpec == SchedulerInit /\ [][SchedulerNext]_scheduler_vars

-----------------------------------------------------------------------------
(* Properties.                                                             *)

\* After a poll that leaves the pin low, the deadline lies ahead of the
\* sample and at most one interval ahead, across the wrap of the counter and
\* after any delay: no catch-up burst, and no deadline half a counter away.
DeadlineIsAhead ==
    mpc = "sample" /\ state = "IDLE" => Elapsed(now_ms, next_feed_ms) \in 1 .. INTERVAL_MS

\* The watchdog is fed often enough: from one rising edge of the pin to the
\* next, or from start-up to the first, it takes less than the interval, a
\* pulse and three iterations of the main loop, also when a deadline passes
\* during a pulse and is skipped.
FedInTime == unfed_ms <= UnfedLimit

\* A pulse lasts its PULSE_MS, in ticks of the clock.
PulseLastsItsTime == [][pin /\ ~pin' => high_ms >= PULSE_MS]_scheduler_vars
=============================================================================
