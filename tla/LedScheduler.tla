---------------------------- MODULE LedScheduler ----------------------------
(***************************************************************************)
(* The status LED's scheduler, Drivers/BSP/Src/bsp_status_led.c, as        *)
(* main() drives it: an iteration samples time_ms, handles frames, which   *)
(* may set a mode at the time it is then, and polls with the sample.  The  *)
(* pin follows logical_on.                                                 *)
(***************************************************************************)
EXTENDS Timebase

CONSTANTS
    UPDATE_MS, RECOVERY_MS, FATAL_MS    \* the intervals of mode_interval

ASSUME LedAssumption ==
    \A i \in {UPDATE_MS, RECOVERY_MS, FATAL_MS} : i \in Nat \ {0} /\ i + MaxLoop < TIME_MOD

VARIABLES
    led_time,       \* time_ms
    led_now,        \* now_ms, the sample the iteration works with
    led_pc,         \* "start", "sample" or "poll": the next step of main()
    led_mode,
    previous_ms,
    logical_on,
    led_loop,       \* milliseconds since the sample
    beat,           \* milliseconds since the mode was set, modulo two intervals
    now_beat,       \* that at the sample
    framed          \* a frame set the mode

led_vars == <<led_time, led_now, led_pc, led_mode, previous_ms, logical_on, led_loop, beat,
              now_beat, framed>>

boot_led_mode_t == {"OFF", "BOOTING", "UPDATE_WINDOW", "RECOVERY", "FATAL"}

mode_interval(m) ==
    CASE m = "UPDATE_WINDOW" -> UPDATE_MS
      [] m = "RECOVERY" -> RECOVERY_MS
      [] m = "FATAL" -> FATAL_MS
      [] OTHER -> 0

interval_ms == mode_interval(led_mode)

LedInit ==
    /\ led_time \in Times
    /\ led_now = led_time
    /\ led_pc = "start"
    /\ led_mode = "BOOTING" /\ previous_ms = led_time /\ logical_on = TRUE
    /\ led_loop = 0 /\ beat = 0 /\ now_beat = 0 /\ framed = FALSE

\* SysTick_Handler
LedTick ==
    /\ led_loop < MaxLoop
    /\ led_time' = Later(led_time, 1)
    /\ led_loop' = led_loop + 1
    /\ beat' = IF interval_ms = 0 THEN 0 ELSE (beat + 1) % (2 * interval_ms)
    /\ UNCHANGED <<led_now, led_pc, led_mode, previous_ms, logical_on, now_beat, framed>>

led_scheduler_set_mode(m) ==
    /\ led_mode' = m
    /\ previous_ms' = led_time
    /\ logical_on' = (m = "BOOTING")
    /\ beat' = 0 /\ now_beat' = 0
    /\ UNCHANGED <<led_time, led_now, led_loop>>

\* main() before its loop.
StartLoop ==
    /\ led_pc = "start" /\ led_pc' = "sample"
    /\ \E m \in {"UPDATE_WINDOW", "RECOVERY"} : led_scheduler_set_mode(m)
    /\ UNCHANGED framed

EnterFatal ==
    /\ led_pc \in {"start", "sample"} /\ led_mode # "FATAL" /\ led_pc' = "sample"
    /\ led_scheduler_set_mode("FATAL")
    /\ framed' = FALSE

LedSample ==
    /\ led_pc = "sample" /\ led_pc' = "poll"
    /\ led_now' = led_time /\ now_beat' = beat /\ led_loop' = 0
    /\ UNCHANGED <<led_time, led_mode, previous_ms, logical_on, beat, framed>>

\* A DOWNLOAD, or a JUMP that is accepted.
HandleFrame ==
    /\ led_pc = "poll" /\ led_mode # "FATAL"
    /\ \E m \in {"UPDATE_WINDOW", "OFF"} : led_scheduler_set_mode(m)
    /\ framed' = TRUE
    /\ UNCHANGED led_pc

\* Mutant: the rhythm starts again at each late poll.
FromNow(periods) == IF periods = 0 THEN previous_ms ELSE led_now

Advanced(periods) == Later(previous_ms, periods * interval_ms)

led_scheduler_poll ==
    /\ led_pc = "poll" /\ led_pc' = "sample"
    /\ LET periods == IF interval_ms = 0 THEN 0 ELSE Elapsed(previous_ms, led_now) \div interval_ms
       IN  /\ previous_ms' = Advanced(periods)
           /\ logical_on' = (logical_on # (periods % 2 = 1))
    /\ UNCHANGED <<led_time, led_now, led_mode, led_loop, beat, now_beat, framed>>

LedNext == LedTick \/ StartLoop \/ EnterFatal \/ LedSample \/ HandleFrame \/ led_scheduler_poll

LedSpec == LedInit /\ [][LedNext]_led_vars

-----------------------------------------------------------------------------
(* Properties.                                                             *)

\* In a mode that main() set itself, the LED blinks in the rhythm that began
\* there, off for the first interval, however late the polls come and wherever
\* the counter wraps: a poll that missed some periods leaves the LED as if it
\* had missed none.  (A frame sets the mode behind the sample, and the poll
\* of that iteration can toggle the LED at once.)
BlinksInRhythm ==
    led_pc = "sample" /\ interval_ms # 0 /\ ~framed => (logical_on <=> now_beat >= interval_ms)
=============================================================================
