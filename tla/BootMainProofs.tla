--------------------------- MODULE BootMainProofs ---------------------------
(***************************************************************************)
(* Theorems about the way from reset to the application, for windows,      *)
(* waits, start-ups and iterations of any length.                          *)
(***************************************************************************)
EXTENDS BootMain, TLAPS

USE DEF Go, LongestIteration, SoftwareFlag, Expired, Waited, Silenced, prepare_for_application

BeforeCapture == {"unlock", "debug_port", "timebase", "power", "reset_info"}

BeforeSelect == BeforeCapture \cup {"select"}

BeforeLink == BeforeSelect \cup {"i2c"}

StartPcs == BeforeLink \cup {"restore", "decide"}

LoopPcs == {"sample", "process", "poll", "wait", "take"}

\* Until write protection is restored every group can be written, from the
\* first initialisation of the link on its clock is on, and whoever is about
\* to jump has switched the link off.
RegisterInv ==
    /\ pc \in (BeforeLink \ {"unlock"}) \cup {"restore"} => unlocked = Groups
    /\ pc \in BeforeLink => "link" \notin on
    /\ pc \notin BeforeLink => "i2c_clock" \in on
    /\ pc = "jump" => "link" \notin on

\* The last cause is latched; once it has been looked at it decides the mode,
\* and only an accepted JUMP_TO_APP leads from the loop to the jump.
DecisionInv ==
    /\ pc # "application" => cause \in rstf0
    /\ pc \notin BeforeCapture \cup {"application"} => (software_reset <=> "software" \in rstf0)
    /\ pc \notin BeforeSelect \cup {"application"} /\ mode = "START_APPLICATION" => ~software_reset
    /\ pc \in LoopPcs => mode # "START_APPLICATION"
    /\ jump_requested => asked
    /\ pc = "jump" => mode = "START_APPLICATION" \/ asked

\* Start-up takes no longer than its bound, and the clock runs ahead of the
\* last sample by no more than the bounds of iteration and wait.
ClockInv ==
    /\ pc \in {"unlock", "debug_port", "timebase"} => "tickint" \notin on
    /\ pc \in StartPcs => now_ms = 0 /\ time_ms <= MaxStart
    /\ pc \in {"process", "poll"} => time_ms <= now_ms + MaxLoop
    /\ pc = "wait" => time_ms <= now_ms + LongestIteration
    /\ pc = "take" /\ pb3 # "low" => time_ms <= now_ms + MaxLoop

\* The power is released behind the window and the wait only, and while it is
\* held no iteration begins later than one iteration after the window.
PowerInv ==
    /\ pc \in StartPcs => pb3 # "low"
    /\ pc = "wait" => Expired
    /\ pb3 = "low" => time_ms >= update_started_ms + WINDOW_MS + WAIT_MS
    /\ pc \in {"process", "poll", "wait"} /\ pb3 # "low" =>
          now_ms <= update_started_ms + WINDOW_MS + MaxLoop
    /\ pc \in {"take", "sample"} /\ pb3 # "low" => now_ms <= update_started_ms + WINDOW_MS
    /\ pc = "sample" /\ pb3 # "low" => time_ms <= update_started_ms + WINDOW_MS + MaxLoop

BootInv == RegisterInv /\ DecisionInv /\ ClockInv /\ PowerInv

USE DEF BeforeCapture, BeforeSelect, BeforeLink, StartPcs, LoopPcs

LEMMA InitialState == Init => TypeOK /\ BootInv
<1> SUFFICES ASSUME Init PROVE TypeOK /\ BootInv
  OBVIOUS
<1>1. TypeOK
  <2>1. 0 \in 0 .. Horizon
    BY BootAssumption DEF Horizon
  <2>2. unlocked \subseteq Groups /\ on \subseteq Switches /\ rstf0 \subseteq Causes
    BY DEF Init, Groups, Switches, Causes
  <2>3. now_ms \in 0 .. time_ms /\ update_started_ms \in 0 .. time_ms /\ time_ms \in 0 .. Horizon
    BY <2>1 DEF Init
  <2>4. mode \in boot_mode_t /\ cause \in Causes
    BY DEF Init, boot_mode_t, Causes
  <2> QED
    BY <2>2, <2>3, <2>4, Zenon DEF Init, TypeOK
<1>2. RegisterInv
  BY DEF Init, RegisterInv
<1>3. DecisionInv
  BY DEF Init, DecisionInv
<1>4. ClockInv /\ PowerInv
  BY BootAssumption DEF Init, ClockInv, PowerInv
<1> QED
  BY <1>1, <1>2, <1>3, <1>4 DEF BootInv

LEMMA TypePreserved == TypeOK /\ [Next]_vars => TypeOK'
<1> SUFFICES ASSUME TypeOK, [Next]_vars PROVE TypeOK'
  OBVIOUS
<1> USE DEF TypeOK, Groups, Causes, Switches, boot_mode_t, Horizon, registers, context, around
<1>1. CASE bsp_write_protection_unlock
  BY <1>1, BootAssumption DEF bsp_write_protection_unlock, CONFIG_PERIPH_WE
<1>2. CASE bsp_debug_port_configure_for_boot_gpio
  BY <1>2, BootAssumption DEF bsp_debug_port_configure_for_boot_gpio
<1>3. CASE boot_timebase_init
  BY <1>3, BootAssumption DEF boot_timebase_init
<1>4. CASE bsp_power_init
  BY <1>4, BootAssumption DEF bsp_power_init
<1>5. CASE boot_capture_reset_info
  BY <1>5, BootAssumption DEF boot_capture_reset_info
<1>6. CASE boot_select_mode
  BY <1>6, BootAssumption DEF boot_select_mode
<1>7. CASE bsp_i2c_slave_init
  BY <1>7, BootAssumption DEF bsp_i2c_slave_init, I2cInit
<1>8. CASE bsp_write_protection_restore
  BY <1>8, BootAssumption DEF bsp_write_protection_restore, CONFIG_PERIPH_WP
<1>9. CASE Decide
  BY <1>9, BootAssumption DEF Decide
<1>10. CASE Sample
  BY <1>10, BootAssumption DEF Sample
<1>11. CASE Process
  BY <1>11, BootAssumption DEF Process, I2cInit
<1>12. CASE PollTimeout
  BY <1>12, BootAssumption DEF PollTimeout
<1>13. CASE ReleasePower
  BY <1>13, BootAssumption DEF ReleasePower
<1>14. CASE LoopAgain
  BY <1>14, BootAssumption DEF LoopAgain
<1>15. CASE TakeJump
  BY <1>15, BootAssumption DEF TakeJump
<1>16. CASE boot_jump_to_application
  BY <1>16, BootAssumption DEF boot_jump_to_application
<1>17. CASE fatal_safe_loop
  BY <1>17, BootAssumption DEF fatal_safe_loop
<1>18. CASE Tick
  BY <1>18, BootAssumption DEF Tick, Starting
<1>19. CASE Application
  BY <1>19, BootAssumption DEF Application
<1>20. ASSUME NEW c \in Causes, DeviceReset(c) PROVE TypeOK'
  <2>1. unlocked' \subseteq Groups /\ on' \subseteq Switches
    BY <1>20 DEF DeviceReset
  <2>2. rstf0' \subseteq Causes
    BY <1>20 DEF DeviceReset
  <2>3. time_ms' = 0 /\ now_ms' = 0 /\ update_started_ms' = 0 /\ 0 \in 0 .. Horizon
    BY <1>20, BootAssumption DEF DeviceReset
  <2>4. now_ms' \in 0 .. time_ms' /\ update_started_ms' \in 0 .. time_ms' /\ time_ms' \in 0 .. Horizon
    BY <2>3
  <2>5. mode' \in boot_mode_t /\ cause' \in Causes
    BY <1>20 DEF DeviceReset
  <2> QED
    BY <1>20, <2>1, <2>2, <2>4, <2>5, Zenon DEF DeviceReset
<1>21. CASE UNCHANGED vars
  BY <1>21 DEF vars
<1> QED
  BY <1>1, <1>2, <1>3, <1>4, <1>5, <1>6, <1>7, <1>8, <1>9, <1>10, <1>11, <1>12, <1>13, <1>14,
     <1>15, <1>16, <1>17, <1>18, <1>19, <1>20, <1>21
     DEF Next, StartStep, LoopStep

LEMMA RegistersPreserved == TypeOK /\ BootInv /\ [Next]_vars => RegisterInv'
<1> SUFFICES ASSUME TypeOK /\ BootInv, [Next]_vars PROVE RegisterInv'
  OBVIOUS
<1> USE DEF BootInv, RegisterInv, Groups, registers, context, around
<1>1. CASE bsp_write_protection_unlock
  BY <1>1 DEF bsp_write_protection_unlock, CONFIG_PERIPH_WE
<1>2. CASE bsp_debug_port_configure_for_boot_gpio
  BY <1>2 DEF bsp_debug_port_configure_for_boot_gpio
<1>3. CASE boot_timebase_init
  BY <1>3 DEF boot_timebase_init
<1>4. CASE bsp_power_init
  BY <1>4 DEF bsp_power_init
<1>5. CASE boot_capture_reset_info
  BY <1>5 DEF boot_capture_reset_info
<1>6. CASE boot_select_mode
  BY <1>6 DEF boot_select_mode
<1>7. CASE bsp_i2c_slave_init
  BY <1>7 DEF bsp_i2c_slave_init, I2cInit
<1>8. CASE bsp_write_protection_restore
  BY <1>8 DEF bsp_write_protection_restore, CONFIG_PERIPH_WP
<1>9. CASE Decide
  BY <1>9 DEF Decide
<1>10. CASE Sample
  BY <1>10 DEF Sample
<1>11. CASE Process
  BY <1>11 DEF Process, I2cInit
<1>12. CASE PollTimeout
  BY <1>12 DEF PollTimeout
<1>13. CASE ReleasePower
  BY <1>13 DEF ReleasePower
<1>14. CASE LoopAgain
  BY <1>14 DEF LoopAgain
<1>15. CASE TakeJump
  BY <1>15 DEF TakeJump
<1>16. CASE boot_jump_to_application
  BY <1>16 DEF boot_jump_to_application
<1>17. CASE fatal_safe_loop
  BY <1>17 DEF fatal_safe_loop
<1>18. CASE Tick
  BY <1>18 DEF Tick, Starting
<1>19. CASE Application
  BY <1>19 DEF Application
<1>20. ASSUME NEW c \in Causes, DeviceReset(c) PROVE RegisterInv'
  BY <1>20 DEF DeviceReset
<1>21. CASE UNCHANGED vars
  BY <1>21 DEF vars
<1> QED
  BY <1>1, <1>2, <1>3, <1>4, <1>5, <1>6, <1>7, <1>8, <1>9, <1>10, <1>11, <1>12, <1>13, <1>14,
     <1>15, <1>16, <1>17, <1>18, <1>19, <1>20, <1>21
     DEF Next, StartStep, LoopStep

LEMMA DecisionPreserved == TypeOK /\ BootInv /\ [Next]_vars => DecisionInv'
<1> SUFFICES ASSUME TypeOK /\ BootInv, [Next]_vars PROVE DecisionInv'
  OBVIOUS
<1> USE DEF BootInv, DecisionInv, registers, context, around
<1>1. CASE bsp_write_protection_unlock
  BY <1>1 DEF bsp_write_protection_unlock, CONFIG_PERIPH_WE
<1>2. CASE bsp_debug_port_configure_for_boot_gpio
  BY <1>2 DEF bsp_debug_port_configure_for_boot_gpio
<1>3. CASE boot_timebase_init
  BY <1>3 DEF boot_timebase_init
<1>4. CASE bsp_power_init
  BY <1>4 DEF bsp_power_init
<1>5. CASE boot_capture_reset_info
  BY <1>5 DEF boot_capture_reset_info
<1>6. CASE boot_select_mode
  BY <1>6 DEF boot_select_mode
<1>7. CASE bsp_i2c_slave_init
  BY <1>7 DEF bsp_i2c_slave_init, I2cInit
<1>8. CASE bsp_write_protection_restore
  BY <1>8 DEF bsp_write_protection_restore, CONFIG_PERIPH_WP
<1>9. CASE Decide
  BY <1>9 DEF Decide
<1>10. CASE Sample
  BY <1>10 DEF Sample
<1>11. CASE Process
  BY <1>11 DEF Process, I2cInit
<1>12. CASE PollTimeout
  BY <1>12 DEF PollTimeout
<1>13. CASE ReleasePower
  BY <1>13 DEF ReleasePower
<1>14. CASE LoopAgain
  BY <1>14 DEF LoopAgain
<1>15. CASE TakeJump
  BY <1>15 DEF TakeJump
<1>16. CASE boot_jump_to_application
  BY <1>16 DEF boot_jump_to_application
<1>17. CASE fatal_safe_loop
  BY <1>17 DEF fatal_safe_loop
<1>18. CASE Tick
  BY <1>18 DEF Tick, Starting
<1>19. CASE Application
  BY <1>19 DEF Application
<1>20. ASSUME NEW c \in Causes, DeviceReset(c) PROVE DecisionInv'
  BY <1>20 DEF DeviceReset
<1>21. CASE UNCHANGED vars
  BY <1>21 DEF vars
<1> QED
  BY <1>1, <1>2, <1>3, <1>4, <1>5, <1>6, <1>7, <1>8, <1>9, <1>10, <1>11, <1>12, <1>13, <1>14,
     <1>15, <1>16, <1>17, <1>18, <1>19, <1>20, <1>21
     DEF Next, StartStep, LoopStep

LEMMA ClockPreserved == TypeOK /\ BootInv /\ [Next]_vars => ClockInv'
<1> SUFFICES ASSUME TypeOK /\ BootInv, [Next]_vars PROVE ClockInv'
  OBVIOUS
<1> USE DEF TypeOK, BootInv, ClockInv, registers, context, around
<1>1. CASE bsp_write_protection_unlock
  BY <1>1, BootAssumption DEF bsp_write_protection_unlock, CONFIG_PERIPH_WE
<1>2. CASE bsp_debug_port_configure_for_boot_gpio
  BY <1>2, BootAssumption DEF bsp_debug_port_configure_for_boot_gpio
<1>3. CASE boot_timebase_init
  BY <1>3, BootAssumption DEF boot_timebase_init
<1>4. CASE bsp_power_init
  BY <1>4, BootAssumption DEF bsp_power_init
<1>5. CASE boot_capture_reset_info
  BY <1>5, BootAssumption DEF boot_capture_reset_info
<1>6. CASE boot_select_mode
  BY <1>6, BootAssumption DEF boot_select_mode
<1>7. CASE bsp_i2c_slave_init
  BY <1>7, BootAssumption DEF bsp_i2c_slave_init, I2cInit
<1>8. CASE bsp_write_protection_restore
  BY <1>8, BootAssumption DEF bsp_write_protection_restore, CONFIG_PERIPH_WP
<1>9. CASE Decide
  BY <1>9, BootAssumption DEF Decide
<1>10. CASE Sample
  BY <1>10, BootAssumption DEF Sample
<1>11. CASE Process
  BY <1>11, BootAssumption DEF Process, I2cInit
<1>12. CASE PollTimeout
  BY <1>12, BootAssumption DEF PollTimeout
<1>13. CASE ReleasePower
  BY <1>13, BootAssumption DEF ReleasePower
<1>14. CASE LoopAgain
  BY <1>14, BootAssumption DEF LoopAgain
<1>15. CASE TakeJump
  BY <1>15, BootAssumption DEF TakeJump
<1>16. CASE boot_jump_to_application
  BY <1>16, BootAssumption DEF boot_jump_to_application
<1>17. CASE fatal_safe_loop
  BY <1>17, BootAssumption DEF fatal_safe_loop
<1>18. CASE Tick
  BY <1>18, BootAssumption DEF Tick, Starting
<1>19. CASE Application
  BY <1>19, BootAssumption DEF Application
<1>20. ASSUME NEW c \in Causes, DeviceReset(c) PROVE ClockInv'
  BY <1>20, BootAssumption DEF DeviceReset
<1>21. CASE UNCHANGED vars
  BY <1>21 DEF vars
<1> QED
  BY <1>1, <1>2, <1>3, <1>4, <1>5, <1>6, <1>7, <1>8, <1>9, <1>10, <1>11, <1>12, <1>13, <1>14,
     <1>15, <1>16, <1>17, <1>18, <1>19, <1>20, <1>21
     DEF Next, StartStep, LoopStep

LEMMA PowerPreserved == TypeOK /\ BootInv /\ [Next]_vars => PowerInv'
<1> SUFFICES ASSUME TypeOK /\ BootInv, [Next]_vars PROVE PowerInv'
  OBVIOUS
<1> USE DEF TypeOK, BootInv, ClockInv, PowerInv, registers, context, around
<1>1. CASE bsp_write_protection_unlock
  BY <1>1, BootAssumption DEF bsp_write_protection_unlock, CONFIG_PERIPH_WE
<1>2. CASE bsp_debug_port_configure_for_boot_gpio
  BY <1>2, BootAssumption DEF bsp_debug_port_configure_for_boot_gpio
<1>3. CASE boot_timebase_init
  BY <1>3, BootAssumption DEF boot_timebase_init
<1>4. CASE bsp_power_init
  BY <1>4, BootAssumption DEF bsp_power_init
<1>5. CASE boot_capture_reset_info
  BY <1>5, BootAssumption DEF boot_capture_reset_info
<1>6. CASE boot_select_mode
  BY <1>6, BootAssumption DEF boot_select_mode
<1>7. CASE bsp_i2c_slave_init
  BY <1>7, BootAssumption DEF bsp_i2c_slave_init, I2cInit
<1>8. CASE bsp_write_protection_restore
  BY <1>8, BootAssumption DEF bsp_write_protection_restore, CONFIG_PERIPH_WP
<1>9. CASE Decide
  BY <1>9, BootAssumption DEF Decide
<1>10. CASE Sample
  BY <1>10, BootAssumption DEF Sample
<1>11. CASE Process
  BY <1>11, BootAssumption DEF Process, I2cInit
<1>12. CASE PollTimeout
  BY <1>12, BootAssumption DEF PollTimeout
<1>13. CASE ReleasePower
  BY <1>13, BootAssumption DEF ReleasePower
<1>14. CASE LoopAgain
  BY <1>14, BootAssumption DEF LoopAgain
<1>15. CASE TakeJump
  BY <1>15, BootAssumption DEF TakeJump
<1>16. CASE boot_jump_to_application
  BY <1>16, BootAssumption DEF boot_jump_to_application
<1>17. CASE fatal_safe_loop
  BY <1>17, BootAssumption DEF fatal_safe_loop
<1>18. CASE Tick
  BY <1>18, BootAssumption DEF Tick, Starting
<1>19. CASE Application
  BY <1>19, BootAssumption DEF Application
<1>20. ASSUME NEW c \in Causes, DeviceReset(c) PROVE PowerInv'
  BY <1>20, BootAssumption DEF DeviceReset
<1>21. CASE UNCHANGED vars
  BY <1>21 DEF vars
<1> QED
  BY <1>1, <1>2, <1>3, <1>4, <1>5, <1>6, <1>7, <1>8, <1>9, <1>10, <1>11, <1>12, <1>13, <1>14,
     <1>15, <1>16, <1>17, <1>18, <1>19, <1>20, <1>21
     DEF Next, StartStep, LoopStep

LEMMA Invariant == Spec => [](TypeOK /\ BootInv)
<1>1. TypeOK /\ BootInv /\ [Next]_vars => TypeOK' /\ BootInv'
  BY TypePreserved, RegistersPreserved, DecisionPreserved, ClockPreserved, PowerPreserved
     DEF BootInv
<1> QED
  BY <1>1, InitialState, PTL DEF Spec

-----------------------------------------------------------------------------
\* Every variable keeps its type, and no time stamp lies in the future.
THEOREM TypeCorrect == Spec => []TypeOK
BY Invariant, PTL

\* In both modes that wait for a host, and however long an iteration takes,
\* the power is not released before the window and the wait are over.
THEOREM PowerIsHeld == Spec => []PowerHeldThroughWindow
<1>1. BootInv => PowerHeldThroughWindow
  BY DEF BootInv, PowerInv, PowerHeldThroughWindow
<1> QED
  BY <1>1, Invariant, PTL

\* The release comes at most one iteration, and the one that waits, behind the
\* window.
THEOREM PowerIsReleased == Spec => []PowerReleasedInTime
<1>1. TypeOK /\ BootInv => PowerReleasedInTime
  BY BootAssumption DEF TypeOK, BootInv, ClockInv, PowerInv, PowerReleasedInTime, Serving
<1> QED
  BY <1>1, Invariant, PTL

\* The link's clock runs whenever the link is on.
THEOREM LinksAreClocked == Spec => []LinkIsClocked
<1>1. BootInv => LinkIsClocked
  BY DEF BootInv, RegisterInv, LinkIsClocked
<1> QED
  BY <1>1, Invariant, PTL

\* Only a jump leads into the application.
LEMMA OnlyJumpEnters ==
    ASSUME [Next]_vars, pc # "application", pc' = "application"
    PROVE  boot_jump_to_application /\ pc = "jump" /\ vector_valid
BY DEF Next, StartStep, LoopStep, vars, registers, context, around,
    bsp_write_protection_unlock, bsp_debug_port_configure_for_boot_gpio, boot_timebase_init,
    bsp_power_init, boot_capture_reset_info, boot_select_mode, bsp_i2c_slave_init,
    bsp_write_protection_restore, Decide, Sample, Process, PollTimeout, ReleasePower, LoopAgain,
    TakeJump, boot_jump_to_application, fatal_safe_loop, Tick, Application, DeviceReset

\* The application starts with the link and SysTick's interrupt off and all interrupts masked, on
\* both paths that lead to it.
THEOREM HandoversAreQuiet == Spec => HandoverIsQuiet
<1>1. BootInv /\ [Next]_vars =>
        [pc # "application" /\ pc' = "application" =>
           "primask" \in on' /\ on' \cap {"link", "tickint"} = {}]_vars
  BY OnlyJumpEnters DEF BootInv, RegisterInv, boot_jump_to_application
<1> QED
  BY <1>1, Invariant, PTL DEF Spec, HandoverIsQuiet

\* Behind a software reset, whatever other causes are latched, nothing but an
\* accepted JUMP_TO_APP starts the application.
THEOREM UpdateRequestsHonoured == Spec => UpdateRequestHonoured
<1>1. BootInv /\ [Next]_vars =>
        [pc # "application" /\ pc' = "application" /\ cause = "software" => asked]_vars
  BY OnlyJumpEnters DEF BootInv, DecisionInv
<1> QED
  BY <1>1, Invariant, PTL DEF Spec, UpdateRequestHonoured
=============================================================================
