---------------------------- MODULE AppValidator ----------------------------
(***************************************************************************)
(* app_validator_check of App/Src/app_validator.c on the two words of a    *)
(* vector table: the arithmetic behind the set ValidVectors of             *)
(* BootUpdateService.  Each word may be erased or programmed at any time,  *)
(* by a DOWNLOAD, an ERASE or another loader; any address may be asked     *)
(* about.  A word is a number below WORD_MOD, 2^32 in the code.            *)
(***************************************************************************)
EXTENDS BootMemoryMap

CONSTANTS
    WORD_MOD,
    VECTOR_ALIGNMENT,   \* of the vector table, 0x400
    HC32_SRAM_BASE, HC32_SRAM_END, HC32_RET_SRAM_BASE, HC32_RET_SRAM_END,
    Bases               \* the addresses asked about

UINT32_MAX == WORD_MOD - 1

Words == 0 .. UINT32_MAX

\* The boundaries of the header: RAM of whole doublewords and a region of
\* whole halfwords, all of them below the erased word.
ASSUME ValidatorAssumption ==
    /\ WORD_MOD \in Nat \ {0} /\ WORD_MOD % 8 = 0
    /\ VECTOR_ALIGNMENT \in Nat \ {0}
    /\ \A b \in {HC32_SRAM_BASE, HC32_SRAM_END, HC32_RET_SRAM_BASE, HC32_RET_SRAM_END} :
          b \in 0 .. WORD_MOD - 8 /\ b % 8 = 0
    /\ APP_FLASH_BASE % 2 = 0 /\ APP_FLASH_END % 2 = 0
    /\ FLASH_SIZE < WORD_MOD
    /\ Bases \subseteq Words

VARIABLES
    msp,            \* the word at the base
    reset,          \* the word behind it
    base,           \* what the last check was about
    verdict         \* what it returned; "none" since the words changed

validator_vars == <<msp, reset, base, verdict>>

-----------------------------------------------------------------------------
\* Mutant: a stack that begins at the first address of the RAM.
InitialMspFromBase(begin, end, address) == address >= begin /\ address <= end

InitialMspIn(begin, end, address) == address > begin /\ address <= end

boot_memory_is_valid_initial_msp(address) ==
    \/ InitialMspIn(HC32_SRAM_BASE, HC32_SRAM_END, address)
    \/ InitialMspIn(HC32_RET_SRAM_BASE, HC32_RET_SRAM_END, address)

boot_memory_is_app_address(address) ==
    RangeContains(APP_FLASH_BASE, APP_FLASH_END, address, 1)

BaseIsValid(b) ==
    /\ RangeContains(APP_FLASH_BASE, APP_FLASH_END, b, VECTOR_SIZE)
    /\ b % VECTOR_ALIGNMENT = 0

MspIsValid(word) ==
    word # UINT32_MAX /\ word % 8 = 0 /\ boot_memory_is_valid_initial_msp(word)

\* Mutant: the Thumb bit is taken for a part of the address.
ResetIsValidOdd(word) ==
    word # UINT32_MAX /\ word % 2 = 1 /\ boot_memory_is_app_address(word + 1)

\* reset & 0xFFFFFFFE
ResetIsValid(word) ==
    word # UINT32_MAX /\ word % 2 = 1 /\ boot_memory_is_app_address(word - 1)

app_validator_check(b, m, r) == BaseIsValid(b) /\ MspIsValid(m) /\ ResetIsValid(r)

-----------------------------------------------------------------------------
ValidatorInit ==
    /\ msp = UINT32_MAX /\ reset = UINT32_MAX
    /\ base = APP_FLASH_BASE
    /\ verdict = "none"

WriteMsp == msp' \in Words /\ verdict' = "none" /\ UNCHANGED <<reset, base>>

WriteReset == reset' \in Words /\ verdict' = "none" /\ UNCHANGED <<msp, base>>

Check ==
    /\ base' \in Bases
    /\ verdict' = IF app_validator_check(base', msp, reset) THEN "valid" ELSE "invalid"
    /\ UNCHANGED <<msp, reset>>

ValidatorNext == WriteMsp \/ WriteReset \/ Check

ValidatorSpec == ValidatorInit /\ [][ValidatorNext]_validator_vars

-----------------------------------------------------------------------------
(* Properties, in terms of cells: what the processor will touch when it    *)
(* takes the vector.                                                       *)

Cells(begin, end) == begin .. end - 1

\* The eight bytes a first doubleword push stores below the stack pointer.
FirstPush == {a \in 0 .. UINT32_MAX : a + 8 >= msp /\ a < msp}

StackInRam ==
    \/ FirstPush \subseteq Cells(HC32_SRAM_BASE, HC32_SRAM_END)
    \/ FirstPush \subseteq Cells(HC32_RET_SRAM_BASE, HC32_RET_SRAM_END)

\* The first instruction has two bytes, at the reset address and behind it.
EntryInApp == {reset - 1, reset} \subseteq Cells(APP_FLASH_BASE, APP_FLASH_END)

\* An accepted vector can be taken: the stack's first doubleword lies in one
\* RAM as a whole, also at both of its ends, the first instruction lies in
\* the application region as a whole, and the processor stays in Thumb state.
\* (The bounds of boot_memory_is_valid_initial_msp are exclusive below and
\* inclusive above; the address has its Thumb bit masked.)
AcceptedVectorRuns ==
    verdict = "valid" => StackInRam /\ EntryInApp /\ reset % 2 = 1

\* Nothing else is refused: an aligned stack anywhere in a RAM, its very end
\* included, with an entry anywhere in the region, is accepted at the base.
\* (A linker puts the initial stack pointer behind the last byte of the RAM.)
RunnableVectorAccepted ==
    verdict = "invalid" /\ base = APP_FLASH_BASE /\ base % VECTOR_ALIGNMENT = 0 =>
        ~(msp % 8 = 0 /\ StackInRam /\ msp >= 8 /\ EntryInApp /\ reset % 2 = 1)
=============================================================================
