------------------------------ MODULE BootMain ------------------------------
(***************************************************************************)
(* From reset to the application: main() of Core/Src/main.c with           *)
(* boot_state.c, boot_app.c, app_jump.c and the register-level helpers it  *)
(* calls in order (write protection, debug port, clock, power hold, reset  *)
(* cause).  What a frame does is left to BootUpdateService: here the       *)
(* process step may change the vector, request or withdraw the jump, and   *)
(* re-initialise the link.                                                 *)
(*                                                                         *)
(* time_ms counts from boot_timebase_init on, up to the bound Horizon; its *)
(* wrap, after 49 days, lies beyond the release of the power.  An iteration *)
(* of the main loop takes at most MaxLoop milliseconds, the wait of        *)
(* boot_timeout_poll apart; one that erases the whole region may well take *)
(* longer than that wait.                                                  *)
(***************************************************************************)
EXTENDS Integers

CONSTANTS
    WINDOW_MS,      \* BOOT_UPDATE_WINDOW_MS
    WAIT_MS,        \* the second boot_timeout_poll waits
    MaxStart,       \* bound: milliseconds from the timebase's start to the loop
    MaxLoop         \* bound: milliseconds in an iteration of the main loop

ASSUME BootAssumption ==
    /\ WINDOW_MS \in Nat /\ WAIT_MS \in Nat /\ MaxStart \in Nat /\ MaxLoop \in Nat
    /\ MaxStart <= WINDOW_MS

VARIABLES
    unlocked,       \* the peripheral groups whose registers can be written
    pb3,            \* "pull_up" until it is driven "high" or "low"
    rstf0,          \* the reset causes latched in the RMU
    on,             \* what is switched on
    pc,
    software_reset, \* context.reset_info.software_reset
    mode,
    update_started_ms,
    now_ms,
    jump_requested,
    time_ms,
    vector_valid,   \* what app_validator_check finds in Flash
    cause,          \* of the last reset
    asked           \* a JUMP_TO_APP was accepted since

registers == <<unlocked, pb3, rstf0, on>>
context == <<software_reset, mode, update_started_ms, now_ms, jump_requested>>
around == <<time_ms, vector_valid, cause, asked>>
vars == <<registers, pc, context, around>>

\* PSPCR releases PB3 from the debug port; primask keeps interrupts off.
Switches == {"pspcr", "i2c_clock", "link", "tickint", "primask"}

Groups == {"GPIO", "EFM", "FCG", "PWC_CLK_RMU", "SRAM"}

\* Mutant: the clock gates are left out.
ConfigWithoutFcg == Groups \ {"FCG"}

CONFIG_PERIPH_WE == Groups
CONFIG_PERIPH_WP == {"FCG", "SRAM"}

Causes == {"power_on", "pin", "software", "watchdog"}

boot_mode_t == {"RECOVERY", "UPDATE_WINDOW", "START_APPLICATION"}

-----------------------------------------------------------------------------
(* Resets, and the application in between.                                 *)

Init ==
    /\ unlocked = {} /\ pb3 = "pull_up" /\ on = {}
    /\ pc = "unlock"
    /\ software_reset = FALSE /\ mode = "RECOVERY" /\ jump_requested = FALSE
    /\ update_started_ms = 0 /\ now_ms = 0 /\ time_ms = 0
    /\ cause = "power_on" /\ rstf0 = {cause} /\ asked = FALSE
    /\ vector_valid \in BOOLEAN

\* The RMU latches the causes; the bootloader never clears them, and never
\* resets the device itself.
DeviceReset(c) ==
    /\ c = "software" => pc = "application"
    /\ cause' = c
    /\ rstf0' = IF c = "power_on" THEN {c} ELSE rstf0 \cup {c}
    /\ unlocked' = {} /\ pb3' = "pull_up" /\ on' = {}
    /\ pc' = "unlock"
    /\ software_reset' = FALSE /\ mode' = "RECOVERY" /\ jump_requested' = FALSE
    /\ update_started_ms' = 0 /\ now_ms' = 0 /\ time_ms' = 0
    /\ asked' = FALSE
    /\ UNCHANGED vector_valid

\* The running application may consume the causes and rewrite Flash.
Application ==
    /\ pc = "application"
    /\ rstf0' \in {rstf0, {}}
    /\ vector_valid' \in BOOLEAN
    /\ UNCHANGED <<unlocked, pb3, on, pc, context, time_ms, cause, asked>>

-----------------------------------------------------------------------------
(* SysTick_Handler, within the bounds on start-up and iterations.          *)

Horizon == MaxStart + WINDOW_MS + 2 * WAIT_MS + 2 * MaxLoop

Starting == pc \in {"power", "reset_info", "select", "i2c", "restore", "decide"}

Tick ==
    /\ "tickint" \in on /\ "primask" \notin on
    /\ time_ms < Horizon
    /\ time_ms - now_ms < (CASE Starting -> MaxStart [] pc = "wait" -> WAIT_MS [] OTHER -> MaxLoop)
    /\ time_ms' = time_ms + 1
    /\ UNCHANGED <<registers, pc, context, vector_valid, cause, asked>>

-----------------------------------------------------------------------------
(* Start-up.                                                               *)

Go(from, to) == pc = from /\ pc' = to

bsp_write_protection_unlock ==
    /\ Go("unlock", "debug_port")
    /\ unlocked' = CONFIG_PERIPH_WE
    /\ UNCHANGED <<pb3, rstf0, on, context, around>>

bsp_debug_port_configure_for_boot_gpio ==
    /\ Go("debug_port", "timebase")
    /\ on' = IF "GPIO" \in unlocked THEN on \cup {"pspcr"} ELSE on
    /\ UNCHANGED <<unlocked, pb3, rstf0, context, around>>

\* bsp_clock_init, whose registers nothing here depends on, and the timebase.
boot_timebase_init ==
    /\ Go("timebase", "power")
    /\ on' = on \cup {"tickint"}
    /\ UNCHANGED <<unlocked, pb3, rstf0, context, around>>

bsp_power_init ==
    /\ Go("power", "reset_info")
    /\ pb3' = IF "GPIO" \in unlocked /\ "pspcr" \in on THEN "high" ELSE pb3
    /\ UNCHANGED <<unlocked, rstf0, on, context, around>>

\* Mutant: the flag counts only when it is the only one.
OnlySoftwareFlag(flags) == flags = {"software"}

SoftwareFlag(flags) == "software" \in flags

boot_capture_reset_info ==
    /\ Go("reset_info", "select")
    /\ software_reset' = SoftwareFlag(rstf0)
    /\ UNCHANGED <<registers, mode, update_started_ms, now_ms, jump_requested, around>>

\* The vector is validated, the window starts, boot_app_select_mode decides.
boot_select_mode ==
    /\ Go("select", "i2c")
    /\ update_started_ms' = time_ms
    /\ mode' = CASE ~vector_valid -> "RECOVERY"
                 [] vector_valid /\ software_reset -> "UPDATE_WINDOW"
                 [] OTHER -> "START_APPLICATION"
    /\ UNCHANGED <<registers, software_reset, now_ms, jump_requested, around>>

\* bsp_i2c_slave_init, which may be refused by the driver library; writing a
\* locked clock gate has no effect.
I2cInit(ok) ==
    (on \ {"link"}) \cup (IF "FCG" \in unlocked THEN {"i2c_clock"} ELSE {})
                    \cup (IF ok THEN {"link"} ELSE {})

bsp_i2c_slave_init ==
    /\ Go("i2c", "restore")
    /\ \E ok \in BOOLEAN : on' = I2cInit(ok)
    /\ UNCHANGED <<unlocked, pb3, rstf0, context, around>>

bsp_write_protection_restore ==
    /\ Go("restore", "decide")
    /\ unlocked' = unlocked \ CONFIG_PERIPH_WP
    /\ UNCHANGED <<pb3, rstf0, on, context, around>>

\* Mutant: the link stays on.
LinkLeftOn == on

prepare_for_application == on \ {"link"}

Decide ==
    /\ pc = "decide"
    /\ IF mode = "START_APPLICATION" THEN pc' = "jump" /\ on' = prepare_for_application
       ELSE pc' = (IF "link" \in on THEN "sample" ELSE "fatal") /\ UNCHANGED on
    /\ UNCHANGED <<unlocked, pb3, rstf0, context, around>>

-----------------------------------------------------------------------------
(* The main loop.                                                          *)

Sample ==
    /\ Go("sample", "process")
    /\ now_ms' = time_ms
    /\ UNCHANGED <<registers, software_reset, mode, update_started_ms, jump_requested, around>>

\* BootProtocolParserProcess: frames that rewrite the application, and the
\* re-initialisation of the link.
Process ==
    /\ Go("process", "poll")
    /\ vector_valid' \in BOOLEAN
    /\ jump_requested' \in BOOLEAN
    /\ asked' = (asked \/ jump_requested')
    /\ \E ok \in BOOLEAN : on' \in {on, I2cInit(ok)}
    /\ UNCHANGED <<unlocked, pb3, rstf0, software_reset, mode, update_started_ms, now_ms,
                   time_ms, cause>>

\* Mutant: only the update window ends.
ExpiredInWindow == mode = "UPDATE_WINDOW" /\ now_ms - update_started_ms >= WINDOW_MS

Expired == now_ms - update_started_ms >= WINDOW_MS

\* boot_timeout_poll, up to its busy wait.
PollTimeout ==
    /\ Go("poll", IF Expired THEN "wait" ELSE "take")
    /\ UNCHANGED <<registers, context, around>>

\* Mutant: the wait counts from the start of the window.
WaitedSinceStart == time_ms - update_started_ms >= WAIT_MS

Waited == time_ms - now_ms >= WAIT_MS

ReleasePower ==
    /\ Go("wait", "take")
    /\ Waited
    /\ pb3' = "low"
    /\ UNCHANGED <<unlocked, rstf0, on, context, around>>

\* No jump is requested, or the last transaction was not a read.
LoopAgain ==
    /\ Go("take", "sample")
    /\ UNCHANGED <<registers, context, around>>

TakeJump ==
    /\ Go("take", "jump")
    /\ jump_requested
    /\ jump_requested' = FALSE
    /\ on' = prepare_for_application
    /\ UNCHANGED <<unlocked, pb3, rstf0, software_reset, mode, update_started_ms, now_ms, around>>

Silenced(valid) == IF valid THEN (on \cup {"primask"}) \ {"tickint"} ELSE on

\* boot_jump_to_application, and the fatal loop behind it.
boot_jump_to_application ==
    /\ Go("jump", IF vector_valid THEN "application" ELSE "fatal")
    /\ on' = Silenced(vector_valid)
    /\ UNCHANGED <<unlocked, pb3, rstf0, context, around>>

fatal_safe_loop ==
    /\ Go("fatal", "fatal")
    /\ pb3' = "high"
    /\ now_ms' = time_ms
    /\ UNCHANGED <<unlocked, rstf0, on, software_reset, mode, update_started_ms, jump_requested,
                   around>>

-----------------------------------------------------------------------------
StartStep ==
    \/ bsp_write_protection_unlock \/ bsp_debug_port_configure_for_boot_gpio
    \/ boot_timebase_init \/ bsp_power_init
    \/ boot_capture_reset_info \/ boot_select_mode
    \/ bsp_i2c_slave_init \/ bsp_write_protection_restore \/ Decide

LoopStep ==
    \/ Sample \/ Process \/ PollTimeout \/ ReleasePower \/ LoopAgain \/ TakeJump
    \/ boot_jump_to_application \/ fatal_safe_loop

Next ==
    \/ StartStep \/ LoopStep \/ Tick \/ Application
    \/ \E c \in Causes : DeviceReset(c)

Spec == Init /\ [][Next]_vars

-----------------------------------------------------------------------------
(* Properties.                                                             *)

Serving == pc \in {"sample", "process", "poll", "wait", "take"}

\* Every variable has its type, and no time stamp lies in the future.
TypeOK ==
    /\ unlocked \subseteq Groups
    /\ pb3 \in {"pull_up", "high", "low"}
    /\ rstf0 \subseteq Causes /\ cause \in Causes
    /\ on \subseteq Switches
    /\ pc \in {"unlock", "debug_port", "timebase", "power", "reset_info", "select", "i2c",
               "restore", "decide", "sample", "process", "poll", "wait", "take", "jump",
               "fatal", "application"}
    /\ software_reset \in BOOLEAN /\ jump_requested \in BOOLEAN /\ asked \in BOOLEAN
    /\ vector_valid \in BOOLEAN
    /\ mode \in boot_mode_t
    /\ time_ms \in 0 .. Horizon
    /\ update_started_ms \in 0 .. time_ms /\ now_ms \in 0 .. time_ms

\* The device keeps its own power for the whole window and the second behind
\* it, counted from the start of the window and in both modes, however long
\* an iteration takes.  (boot_timeout_poll compares a sample taken before the
\* frames were handled, and waits from that sample on.)
PowerHeldThroughWindow ==
    pb3 = "low" => time_ms >= update_started_ms + WINDOW_MS + WAIT_MS

\* The longest an iteration lasts that ends with the wait: handling frames
\* uses the wait's time up.
LongestIteration == IF MaxLoop > WAIT_MS THEN MaxLoop ELSE WAIT_MS

\* A device does not drain its battery: whatever frames keep it busy, at most
\* one iteration and the one that waits after the window has ended, the power
\* is released.
PowerReleasedInTime ==
    Serving /\ time_ms > update_started_ms + WINDOW_MS + MaxLoop + LongestIteration
        => pb3 = "low"

\* Whatever the path to the application, start-up or a JUMP_TO_APP frame, it
\* starts with the link and SysTick's interrupt off and interrupts masked.
HandoverIsQuiet ==
    [][pc # "application" /\ pc' = "application" =>
          "primask" \in on' /\ on' \cap {"link", "tickint"} = {}]_vars

\* The link is never on with its clock gated, although each re-initialisation
\* writes the gate after write protection was restored.
LinkIsClocked == "link" \in on => "i2c_clock" \in on

\* An application that reset itself for an update is not started again before
\* a JUMP_TO_APP was accepted, whatever other causes are latched.
UpdateRequestHonoured ==
    [][pc # "application" /\ pc' = "application" /\ cause = "software" => asked]_vars
==============================================================================
