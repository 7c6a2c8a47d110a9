------------------------------ MODULE EfmDriver ------------------------------
(***************************************************************************)
(* A call of bsp_flash.c, register by register, down through hc32_ll_efm.c *)
(* to the Flash controller (EFM).  The controller works by itself: an      *)
(* operation that was commanded ends at some time, or fails, or goes on    *)
(* for longer than the driver waits, and then ends while nobody waits.     *)
(* BspFlash models the same calls by what they leave in the cells.         *)
(***************************************************************************)
EXTENDS Naturals

CONSTANTS
    MaxOperations   \* bound: the most operations (words) of one call

ASSUME EfmAssumption == MaxOperations \in Nat \ {0}

VARIABLES
    \* the controller's registers, and what it is doing
    ready,          \* FSR.RDY
    optend,         \* FSR.OPTEND, an operation ended well
    mode,           \* FWMC.PEMOD
    unlocked,       \* FWMC.PEMODE and the register key are open
    held,           \* FWMC.BUSHLDCTL, the bus waits for the operation
    cache,          \* FRMC.CACHE
    \* the call
    pc,
    call,
    left,           \* operations not commanded and waited for yet
    saved,          \* u32Tmp, the cache setting found
    ret,
    stored          \* operations of this call that the controller ended well

efm == <<ready, optend, mode, unlocked, held, cache>>
efm_vars == <<efm, pc, call, left, saved, ret, stored>>

Modes == {"READONLY", "PGM_SINGLE", "ERASE_SECTOR"}

\* bsp_flash_write of some words, bsp_flash_erase_sector, bsp_flash_read.
Calls == [mode : {"PGM_SINGLE"}, operations : 1 .. MaxOperations]
         \cup {[mode |-> "ERASE_SECTOR", operations |-> 1],
               [mode |-> "READONLY", operations |-> 0]}

\* bsp_clock_init enables the cache; main() has locked the registers.
EfmInit ==
    /\ ready = TRUE /\ optend \in BOOLEAN
    /\ mode = "READONLY" /\ unlocked = FALSE /\ held = FALSE
    /\ cache \in BOOLEAN
    /\ pc = "idle"
    /\ call = [mode |-> "READONLY", operations |-> 0]
    /\ left = 0
    /\ saved = cache
    /\ ret = "LL_OK"
    /\ stored = 0

-----------------------------------------------------------------------------
(* The controller.                                                         *)

\* The operation ends: with OPTEND, or with an error flag and no OPTEND.
OperationEnds ==
    /\ ~ready
    /\ ready' = TRUE
    /\ \/ optend' = TRUE /\ stored' = stored + 1
       \/ UNCHANGED <<optend, stored>>
    /\ UNCHANGED <<mode, unlocked, held, cache, pc, call, left, saved, ret>>

-----------------------------------------------------------------------------
(* The driver.                                                             *)

Return(r) == pc' = "idle" /\ ret' = r

Enter(c) ==
    /\ pc = "idle"
    /\ call' = c
    /\ stored' = 0
    /\ left' = c.operations
    /\ UNCHANGED <<efm, saved>>

\* Mutant: the state of the controller is not asked for.
MayStartAnyway == TRUE

\* A writing call that finds the controller busy is refused.
MayStart == ready

Refuse(c) ==
    /\ c.mode # "READONLY"
    /\ ~MayStart
    /\ Enter(c)
    /\ Return("LL_ERR_NOT_RDY")

Start(c) ==
    /\ c.mode # "READONLY"
    /\ MayStart
    /\ Enter(c)
    /\ pc' = "begin"
    /\ UNCHANGED ret

bsp_flash_begin_operation ==
    /\ pc = "begin"
    /\ unlocked' = TRUE
    /\ held' = TRUE
    /\ pc' = "prepare"
    /\ UNCHANGED <<ready, optend, mode, cache, call, left, saved, ret, stored>>

\* Mutant: the flags of the operation before are kept.
FlagsKept == optend

\* EFM_ClearStatus(EFM_FLAG_ALL).
FlagsAtStart == FALSE

\* EFM_Program and EFM_SectorErase up to their first command.
Prepare ==
    /\ pc = "prepare"
    /\ optend' = FlagsAtStart
    /\ saved' = cache
    /\ cache' = FALSE
    /\ mode' = call.mode
    /\ pc' = "command"
    /\ UNCHANGED <<ready, unlocked, held, call, left, ret, stored>>

\* The store that makes the controller start.
Command ==
    /\ pc = "command"
    /\ ready' = FALSE
    /\ pc' = "wait"
    /\ UNCHANGED <<optend, mode, unlocked, held, cache, call, left, saved, ret, stored>>

\* Mutant: the flag is left set for the next word.
EndFlagKept == optend

EndFlag == FALSE

\* EFM_WaitEnd sees RDY and looks at OPTEND.
EndsWell ==
    /\ pc = "wait" /\ ready /\ optend
    /\ optend' = EndFlag
    /\ left' = left - 1
    /\ ret' = "LL_OK"
    /\ pc' = IF left > 1 THEN "command" ELSE "restore"
    /\ UNCHANGED <<ready, mode, unlocked, held, cache, call, saved, stored>>

EndsBadly ==
    /\ pc = "wait" /\ ready /\ ~optend
    /\ ret' = "LL_ERR"
    /\ pc' = "restore"
    /\ UNCHANGED <<efm, call, left, saved, stored>>

\* Mutant: the loop of EFM_WaitFlag counts nothing.
WaitedNever == FALSE

\* The loop of EFM_WaitFlag has counted to its limit.
Waited == ~ready

\* EFM_WaitEnd gives up on an operation that goes on.
TimesOut ==
    /\ pc = "wait" /\ Waited
    /\ ret' = "LL_ERR_NOT_RDY"
    /\ pc' = "restore"
    /\ UNCHANGED <<efm, call, left, saved, stored>>

\* Mutant: the cache stays off.
CacheLeftOff == FALSE

CacheRestored == saved

Restore ==
    /\ pc = "restore"
    /\ mode' = "READONLY"
    /\ cache' = CacheRestored
    /\ pc' = "end"
    /\ UNCHANGED <<ready, optend, unlocked, held, call, left, saved, ret, stored>>

bsp_flash_end_operation ==
    /\ pc = "end"
    /\ unlocked' = FALSE
    /\ held' = FALSE
    /\ pc' = "idle"
    /\ UNCHANGED <<ready, optend, mode, cache, call, left, saved, ret, stored>>

\* bsp_flash_read: EFM_ReadByte waits for RDY, and reads or gives up.
StartRead(c) ==
    /\ c.mode = "READONLY"
    /\ Enter(c)
    /\ pc' = "read"
    /\ UNCHANGED ret

FinishRead ==
    /\ pc = "read"
    /\ \/ ready /\ Return("LL_OK")
       \/ Waited /\ Return("LL_ERR_NOT_RDY")
    /\ UNCHANGED <<efm, call, left, saved, stored>>

-----------------------------------------------------------------------------
DriverStep ==
    \/ bsp_flash_begin_operation \/ Prepare
    \/ Command \/ EndsWell \/ EndsBadly \/ TimesOut
    \/ Restore \/ bsp_flash_end_operation
    \/ FinishRead

EfmNext ==
    \/ OperationEnds
    \/ \E c \in Calls : Refuse(c) \/ Start(c) \/ StartRead(c)
    \/ DriverStep

\* The driver is straight-line code with bounded waits; nothing is assumed of
\* the controller, which may never end an operation.
EfmSpec == EfmInit /\ [][EfmNext]_efm_vars /\ WF_efm_vars(DriverStep)

-----------------------------------------------------------------------------
(* Properties.                                                             *)

\* The registers and the call have their types; between two calls nothing is
\* left open: the mode is read-only, the registers are locked, the bus is
\* released and the cache is as it was found, whichever way the last call
\* ended.  (The paths of EFM_Program and EFM_SectorErase all meet behind the
\* loop.)
EfmTypeOK ==
    /\ ready \in BOOLEAN /\ optend \in BOOLEAN
    /\ mode \in Modes
    /\ unlocked \in BOOLEAN /\ held \in BOOLEAN
    /\ cache \in BOOLEAN /\ saved \in BOOLEAN
    /\ pc \in {"idle", "begin", "prepare", "command", "wait", "restore", "end", "read"}
    /\ call \in Calls
    /\ left \in Nat /\ stored \in Nat
    /\ ret \in {"LL_OK", "LL_ERR", "LL_ERR_NOT_RDY"}
    /\ pc \in {"idle", "read"} =>
          mode = "READONLY" /\ ~unlocked /\ ~held /\ cache = saved

\* A writing call that returns LL_OK has had every one of its operations
\* ended well by the controller, and leaves nothing going on in it: what an
\* earlier call gave up on, and what ended after that, is never taken for an
\* operation of this one.  (BspFlash relies on it: an OK means the cells hold
\* the data, and only a failed call leaves cells in between.)
OkMeansStored ==
    pc = "idle" /\ ret = "LL_OK" =>
        ready /\ (call.mode # "READONLY" => stored = call.operations)

\* The controller is never commanded while it still works on an operation
\* that an earlier call gave up on.  (The status check of bsp_flash.c: the
\* vendor's functions do not look.)
NoCommandWhileBusy == [][pc = "command" /\ pc' = "wait" => ready]_efm_vars

\* Every call returns, also when the controller never ends an operation.
\* (The counted waits.)
CallReturns == pc # "idle" ~> pc = "idle"
=============================================================================
