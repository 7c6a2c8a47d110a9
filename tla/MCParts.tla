------------------------------- MODULE MCParts -------------------------------
(***************************************************************************)
(* Parts of the firmware, and its loader, that share no state with each    *)
(* other, on small instances and side by side: a behaviour is one of the   *)
(* part it began with, and the others rest in an initial state.            *)
(***************************************************************************)
EXTENDS EfmDriver, RxRing, AppValidator, WatchdogScheduler, LedScheduler, FaultSnapshot,
        RamFlashLoader, BootProtocolCrc

Parts == {"efm", "ring", "validator", "watchdog", "led", "crc", "fault", "loader"}

VARIABLE part

vars == <<part, efm_vars, ring_vars, validator_vars, scheduler_vars, led_vars, crc_vars, fault_vars,
          loader_vars>>

-----------------------------------------------------------------------------
\* Bytes that exercise carries, and the payloads of
\* Tests/boot_protocol_crc_tests.c: no data, "123456789", a handshake's.
byte(value) == {b \in 0 .. 7 : (value \div 2^b) % 2 = 1}
bytes == {byte(v) : v \in {0, 1, 16, 33, 90, 128, 165, 255}}

crcPayloads ==
    UNION {[1 .. n -> bytes] : n \in 1 .. 3}
    \cup {<<>>, [i \in 1 .. 9 |-> byte(48 + i)], <<byte(32), byte(17)>> \o [i \in 1 .. 10 |-> {}]}

\* The CRC is linear: what a disturbance does to it does not depend on the
\* payload, and two bytes are as many as one of 12 bits that reaches the CRC
\* can touch before it.
disturbed == {<<byte(165), byte(33)>>}

-----------------------------------------------------------------------------
\* A part that rests does so in one chosen initial state.
Init ==
    /\ part \in Parts
    /\ EfmInit /\ (part = "efm" \/ (optend /\ cache))
    /\ RingInit
    /\ ValidatorInit
    /\ SchedulerInit /\ (part = "watchdog" \/ time_ms = 0)
    /\ LedInit /\ (part = "led" \/ led_time = 0)
    /\ CrcInit /\ (part = "crc" \/ payload = <<>>)
    /\ FaultInit
    /\ LoaderInit
    /\ part = "loader" \/ (image = [w \in {0} |-> 0] /\ flash = [w \in FlashCells |-> 0])

Next ==
    /\ UNCHANGED part
    /\ \/ /\ part = "efm" /\ EfmNext
          /\ UNCHANGED <<ring_vars, validator_vars, scheduler_vars, led_vars, crc_vars,
                         fault_vars, loader_vars>>
       \/ /\ part = "ring" /\ RingNext
          /\ UNCHANGED <<efm_vars, validator_vars, scheduler_vars, led_vars, crc_vars,
                         fault_vars, loader_vars>>
       \/ /\ part = "validator" /\ ValidatorNext
          /\ UNCHANGED <<efm_vars, ring_vars, scheduler_vars, led_vars, crc_vars,
                         fault_vars, loader_vars>>
       \/ /\ part = "watchdog" /\ SchedulerNext
          /\ UNCHANGED <<efm_vars, ring_vars, validator_vars, led_vars, crc_vars,
                         fault_vars, loader_vars>>
       \/ /\ part = "led" /\ LedNext
          /\ UNCHANGED <<efm_vars, ring_vars, validator_vars, scheduler_vars, crc_vars,
                         fault_vars, loader_vars>>
       \/ /\ part = "crc" /\ CrcNext
          /\ UNCHANGED <<efm_vars, ring_vars, validator_vars, scheduler_vars, led_vars,
                         fault_vars, loader_vars>>
       \/ /\ part = "fault" /\ FaultNext
          /\ UNCHANGED <<efm_vars, ring_vars, validator_vars, scheduler_vars, led_vars,
                         crc_vars, loader_vars>>
       \/ /\ part = "loader" /\ LoaderNext
          /\ UNCHANGED <<efm_vars, ring_vars, validator_vars, scheduler_vars, led_vars,
                         crc_vars, fault_vars>>

\* The fairness of EfmDriver; the other parts have safety properties only.
Spec == Init /\ [][Next]_vars /\ WF_efm_vars(DriverStep)
=============================================================================
