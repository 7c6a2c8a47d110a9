---------------------------- MODULE RamRangeProofs ----------------------------
(***************************************************************************)
(* Theorems about the two checks of an address against the RAMs: of the    *)
(* validator, for every width of a word, every partition and every pair of *)
(* RAMs that ValidatorAssumption admits, and of the HardFault handler, for *)
(* every pair of RAMs.                                                     *)
(***************************************************************************)
EXTENDS AppValidator, FaultSnapshot, Integers, TLAPS

-----------------------------------------------------------------------------
(* The validator.                                                          *)

\* The verdict is the one app_validator_check returns for the words as they
\* are: a write in between would have reset it.
VerdictIsCurrent ==
    /\ msp \in Words /\ reset \in Words
    /\ base \in Nat
    /\ verdict \in {"none", "valid", "invalid"}
    /\ verdict = "valid" => app_validator_check(base, msp, reset)
    /\ verdict = "invalid" => ~app_validator_check(base, msp, reset)

\* The words stay words and the verdict stays current.
THEOREM VerdictsAreCurrent == ValidatorSpec => []VerdictIsCurrent
<1>1. ValidatorInit => VerdictIsCurrent
  BY MemoryMapAssumption, ValidatorAssumption DEF ValidatorInit, VerdictIsCurrent, Words, UINT32_MAX
<1>2. VerdictIsCurrent /\ [ValidatorNext]_validator_vars => VerdictIsCurrent'
  <2> SUFFICES ASSUME VerdictIsCurrent, [ValidatorNext]_validator_vars PROVE VerdictIsCurrent'
    OBVIOUS
  <2> USE DEF VerdictIsCurrent
  <2>1. CASE WriteMsp
    BY <2>1 DEF WriteMsp
  <2>2. CASE WriteReset
    BY <2>2 DEF WriteReset
  <2>3. CASE Check
    BY <2>3, ValidatorAssumption DEF Check, Words
  <2>4. CASE UNCHANGED validator_vars
    BY <2>4 DEF validator_vars
  <2> QED
    BY <2>1, <2>2, <2>3, <2>4 DEF ValidatorNext
<1> QED
  BY <1>1, <1>2, PTL DEF ValidatorSpec

\* Between two multiples of 8 lies a whole doubleword.
LEMMA WholeDoubleword ==
    ASSUME NEW low \in Nat, NEW high \in Nat, low % 8 = 0, high % 8 = 0
    PROVE  (low < high) <=> (low + 8 <= high)
  OBVIOUS

\* A stack pointer is in range of a RAM exactly when its first push lands in
\* the cells of that RAM.
LEMMA StackByCells ==
    ASSUME msp \in Words, msp % 8 = 0, msp >= 8,
           NEW begin \in 0 .. WORD_MOD - 8, NEW end \in 0 .. WORD_MOD - 8,
           begin % 8 = 0
    PROVE  InitialMspIn(begin, end, msp) <=> FirstPush \subseteq Cells(begin, end)
<1> USE ValidatorAssumption DEF InitialMspIn, FirstPush, Cells, Words, UINT32_MAX
<1>1. ASSUME InitialMspIn(begin, end, msp) PROVE FirstPush \subseteq Cells(begin, end)
  <2>1. begin + 8 <= msp
    BY <1>1, WholeDoubleword
  <2> QED
    BY <1>1, <2>1
<1>2. ASSUME FirstPush \subseteq Cells(begin, end) PROVE InitialMspIn(begin, end, msp)
  <2>1. msp - 8 \in FirstPush /\ msp - 1 \in FirstPush
    OBVIOUS
  <2>2. msp - 8 \in Cells(begin, end) /\ msp - 1 \in Cells(begin, end)
    BY <1>2, <2>1
  <2> QED
    BY <2>2
<1> QED
  BY <1>1, <1>2

\* The initial stack pointer is accepted exactly when it is aligned and its
\* first push stays in one RAM.
LEMMA MspByCells ==
    ASSUME msp \in Words, msp >= 8
    PROVE  MspIsValid(msp) <=> msp % 8 = 0 /\ StackInRam
<1>1. msp % 8 = 0 => msp # UINT32_MAX
  BY ValidatorAssumption DEF UINT32_MAX, Words
<1>2. ASSUME msp % 8 = 0
      PROVE  boot_memory_is_valid_initial_msp(msp) <=> StackInRam
  BY <1>2, StackByCells, ValidatorAssumption DEF boot_memory_is_valid_initial_msp, StackInRam
<1> QED
  BY <1>1, <1>2 DEF MspIsValid

\* An accepted stack pointer leaves room for a push.
LEMMA AcceptedMspLeavesRoom ==
    ASSUME msp \in Words, MspIsValid(msp)
    PROVE  msp >= 8
<1>1. msp > 0 /\ msp % 8 = 0
  BY ValidatorAssumption
     DEF MspIsValid, boot_memory_is_valid_initial_msp, InitialMspIn, Words, UINT32_MAX
<1> QED
  BY <1>1, WholeDoubleword, ValidatorAssumption DEF Words, UINT32_MAX

\* The reset word is accepted exactly when it is odd and both bytes of the
\* first instruction lie in the application region.
LEMMA ResetByCells ==
    ASSUME reset \in Words
    PROVE  ResetIsValid(reset) <=> reset % 2 = 1 /\ EntryInApp
<1> USE MemoryMapAssumption, ValidatorAssumption
<1>1. ASSUME ResetIsValid(reset) PROVE reset % 2 = 1 /\ EntryInApp
  BY <1>1 DEF ResetIsValid, boot_memory_is_app_address, RangeContains, EntryInApp, Cells,
              Words, UINT32_MAX
<1>2. ASSUME reset % 2 = 1, EntryInApp PROVE ResetIsValid(reset)
  <2>1. reset - 1 >= APP_FLASH_BASE /\ reset < APP_FLASH_END
    BY <1>2 DEF EntryInApp, Cells, Words, UINT32_MAX
  <2> QED
    BY <1>2, <2>1 DEF ResetIsValid, boot_memory_is_app_address, RangeContains,
                      Words, UINT32_MAX
<1> QED
  BY <1>1, <1>2

\* For every RAM and every region, an accepted vector can be taken.
THEOREM AcceptedVectorsRun == ValidatorSpec => []AcceptedVectorRuns
<1>1. VerdictIsCurrent => AcceptedVectorRuns
  BY MspByCells, AcceptedMspLeavesRoom, ResetByCells
     DEF VerdictIsCurrent, AcceptedVectorRuns, app_validator_check
<1> QED
  BY <1>1, VerdictsAreCurrent, PTL

\* The region is at least one sector long, so that the vector fits.
LEMMA VectorFits ==
    RangeContains(APP_FLASH_BASE, APP_FLASH_END, APP_FLASH_BASE, VECTOR_SIZE)
<1> DEFINE p == APP_FLASH_BASE \div SECTOR_SIZE
           q == APP_FLASH_END \div SECTOR_SIZE
<1>1. /\ p \in Int /\ q \in Int
      /\ APP_FLASH_BASE = p * SECTOR_SIZE /\ APP_FLASH_END = q * SECTOR_SIZE
  BY MemoryMapAssumption, SMTT(20)
<1>2. APP_FLASH_END - APP_FLASH_BASE = (q - p) * SECTOR_SIZE
  <2>1. SECTOR_SIZE \in Int
    BY MemoryMapAssumption
  <2> HIDE DEF p, q
  <2> QED
    BY <1>1, <2>1, SMTT(20)
<1>3. q - p >= 1
  <2>1. SECTOR_SIZE \in Nat /\ APP_FLASH_END - APP_FLASH_BASE > 0
    BY MemoryMapAssumption
  <2> HIDE DEF p, q
  <2> QED
    BY <1>1, <1>2, <2>1, SMTT(20)
<1>4. APP_FLASH_END - APP_FLASH_BASE >= SECTOR_SIZE
  <2>1. SECTOR_SIZE \in Nat
    BY MemoryMapAssumption
  <2> HIDE DEF p, q
  <2> QED
    BY <1>1, <1>2, <1>3, <2>1, SMTT(20)
<1> QED
  BY <1>4, MemoryMapAssumption DEF RangeContains

\* For every RAM and every region, every vector that can be taken is
\* accepted.
THEOREM RunnableVectorsAccepted == ValidatorSpec => []RunnableVectorAccepted
<1>1. VerdictIsCurrent => RunnableVectorAccepted
  BY VectorFits, MspByCells, ResetByCells
     DEF VerdictIsCurrent, RunnableVectorAccepted, app_validator_check, BaseIsValid
<1> QED
  BY <1>1, VerdictsAreCurrent, PTL

-----------------------------------------------------------------------------
(* The HardFault handler.                                                  *)

\* A frame that passes the check lies in one RAM as a whole.
LEMMA FitsInRam ==
    ASSUME NEW address \in Nat, Fits(address)
    PROVE  address .. address + 7 \subseteq Ram
BY FaultAssumption DEF Fits, Ram

\* Frames are stacked at addresses of the machine, and the handler ended.
FaultInv ==
    /\ sp \in Nat /\ frame \in Nat
    /\ fault_state \in {"running", "faulted", "captured"}

\* For every pair of RAMs, whatever the stack pointer had become when the fault
\* came, the handler's reads stay in the RAMs.
THEOREM FaultHandlerNeverFaults == FaultSpec => []HandlerNeverFaults
<1>0. SramEnd \in Nat
  BY FaultAssumption
<1>1. FaultInit => FaultInv
  BY <1>0 DEF FaultInit, FaultInv
<1>2. FaultInv /\ [FaultNext]_fault_vars => FaultInv'
  <2> SUFFICES ASSUME FaultInv, [FaultNext]_fault_vars PROVE FaultInv'
    OBVIOUS
  <2> USE FaultAssumption DEF FaultInv
  <2>1. CASE Run
    BY <2>1 DEF Run
  <2>2. CASE UseFloat
    BY <2>2 DEF UseFloat
  <2>3. CASE Fault
    BY <2>3 DEF Fault, FrameLength
  <2>4. CASE boot_hardfault_capture
    <3>1. Adjusted \in Nat
      BY DEF Adjusted
    <3>2. fault_state' = "captured"
      BY <2>4, <3>1, FitsInRam DEF boot_hardfault_capture
    <3> QED
      BY <2>4, <3>2 DEF boot_hardfault_capture
  <2>5. CASE FaultReset
    BY <2>5 DEF FaultReset
  <2>6. CASE UNCHANGED fault_vars
    BY <2>6 DEF fault_vars
  <2> QED
    BY <2>1, <2>2, <2>3, <2>4, <2>5, <2>6 DEF FaultNext
<1>3. FaultInv => HandlerNeverFaults
  BY DEF FaultInv, HandlerNeverFaults
<1> QED
  BY <1>1, <1>2, <1>3, PTL DEF FaultSpec
=============================================================================
