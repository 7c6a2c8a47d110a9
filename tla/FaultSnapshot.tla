---------------------------- MODULE FaultSnapshot ----------------------------
(***************************************************************************)
(* The HardFault handler, Core/Src/hc32f460_it.c: the processor stacks a   *)
(* frame, boot_hardfault_capture finds it, checks that it lies in RAM and  *)
(* records its eight words.  Addresses count words, and the two RAMs are   *)
(* scaled down; a word of the stack is named by what the processor put     *)
(* there.  The System Control Block's registers, copied without a          *)
(* decision, are left out.                                                 *)
(***************************************************************************)
EXTENDS Naturals, Sequences

CONSTANTS
    SramBase, SramEnd,          \* the main RAM
    RetSramBase, RetSramEnd,    \* the RAM that is retained
    Top                         \* bound: the addresses are 0 .. Top

ASSUME FaultAssumption ==
    {SramBase, SramEnd, RetSramBase, RetSramEnd, Top} \subseteq Nat

VARIABLES
    fault_state,    \* "running", "faulted", "captured" or "lockup"
    sp,             \* the main stack pointer
    float,          \* the FPU was used: faults stack its registers as well
    frame,          \* where the processor put the frame
    snapshot        \* what was recorded, or <<>>

fault_vars == <<fault_state, sp, float, frame, snapshot>>

Ram == SramBase .. SramEnd - 1 \cup RetSramBase .. RetSramEnd - 1

BasicFrame == <<"r0", "r1", "r2", "r3", "r12", "lr", "pc", "xpsr">>

\* The frame as ARMv7-M stacks it: the basic frame at the lowest address, and
\* above it, if the FPU is in use, S0 to S15, FPSCR and a reserved word.
FrameLength == IF float THEN 26 ELSE 8

\* The word at an address, seen from the frame.
StackWord(address) ==
    IF address - frame \in 0 .. 7 THEN BasicFrame[address - frame + 1] ELSE "other"

-----------------------------------------------------------------------------
FaultInit ==
    /\ fault_state = "running" /\ sp = SramEnd /\ float = FALSE
    /\ frame = 0 /\ snapshot = <<>>

\* The program runs on some stack, a runaway one too.  The stack is aligned
\* to eight bytes where a frame is stacked.
Run ==
    /\ fault_state = "running"
    /\ sp' \in {a \in 0 .. Top : a % 2 = 0}
    /\ UNCHANGED <<fault_state, float, frame, snapshot>>

\* The first VFP instruction.
UseFloat ==
    /\ fault_state = "running"
    /\ float' = TRUE
    /\ UNCHANGED <<fault_state, sp, frame, snapshot>>

\* A fault: the processor stacks the frame and enters HardFault_Handler,
\* which passes the stack pointer and EXC_RETURN on.
Fault ==
    /\ fault_state = "running" /\ sp >= FrameLength
    /\ frame' = sp - FrameLength
    /\ fault_state' = "faulted"
    /\ UNCHANGED <<sp, float, snapshot>>

\* EXC_RETURN says that floating-point registers were stacked.
Adjusted == IF float THEN frame + 18 ELSE frame

\* Mutant: the frame's start alone is looked at.
FitsByStart(address) == address \in Ram

Fits(address) ==
    \/ SramBase <= address /\ address <= SramEnd - 8
    \/ RetSramBase <= address /\ address <= RetSramEnd - 8

\* A read outside of the RAMs is a fault inside of the fault handler.
boot_hardfault_capture ==
    /\ fault_state = "faulted"
    /\ IF Fits(Adjusted)
       THEN LET read == Adjusted .. Adjusted + 7
            IN  /\ fault_state' = IF read \subseteq Ram THEN "captured" ELSE "lockup"
                /\ snapshot' = [i \in 1 .. 8 |-> StackWord(Adjusted + i - 1)]
       ELSE /\ fault_state' = "captured"
            /\ snapshot' = [i \in 1 .. 8 |-> "none"]
    /\ UNCHANGED <<sp, float, frame>>

\* The external watchdog, which nobody feeds any more.  The snapshot is in a
\* section that the start-up code leaves alone.
FaultReset ==
    /\ fault_state \in {"captured", "lockup"}
    /\ fault_state' = "running" /\ sp' = SramEnd /\ float' = FALSE
    /\ frame' = 0
    /\ UNCHANGED snapshot

FaultNext == Run \/ UseFloat \/ Fault \/ boot_hardfault_capture \/ FaultReset

FaultSpec == FaultInit /\ [][FaultNext]_fault_vars

-----------------------------------------------------------------------------
(* Properties.                                                             *)

\* Wherever the stack pointer had run to, the handler does not read outside of
\* the RAMs: that would be a second fault, and no snapshot.
HandlerNeverFaults == fault_state # "lockup"

\* The recorded PC is the one at which the fault happened.  The code takes the
\* floating-point registers to be below the basic frame.
RecordedPcFaulted ==
    fault_state = "captured" /\ snapshot[7] # "none" => snapshot[7] = "pc"
=============================================================================
