-------------------------- MODULE BootUpdateService --------------------------
(***************************************************************************)
(* The update service, App/Src/boot_update_service.c: the handler that the *)
(* parser calls with each validated frame.  It answers HANDSHAKE, erases   *)
(* the application region, programs and verifies DOWNLOAD chunks, and arms *)
(* the jump to the application.                                            *)
(*                                                                         *)
(* The handler runs to completion in the main loop, but the device can be  *)
(* reset (power loss, watchdog, fault) between any two Flash operations,   *)
(* so one Flash operation is one step and pc says where the handler is:    *)
(*                                                                         *)
(*    idle --> erase ----> publish --> idle                                *)
(*         --> program --> publish                                         *)
(*         --> publish                                                     *)
(*                                                                         *)
(* "application" and "fatal" are the two ends of the jump.  Statistics,    *)
(* the log, the frame number and programmed_high_water (which is only      *)
(* logged) are left out.  session_programmed_bytes is only ever compared   *)
(* with 0: session_programmed says that it differs from 0.                 *)
(***************************************************************************)
EXTENDS BspFlash

CONSTANTS
    Requests,       \* the validated frames the host may send
    ValidVectors,   \* the contents of VectorCells app_validator_check accepts
    InitialImages,  \* the Flash contents a device may start with
    FlashFaults     \* whether an EFM operation may report an error

PACKET_CMD == {"HANDSHAKE", "ERASE_FLASH", "APP_DOWNLOAD", "JUMP_TO_APP", "UNSUPPORTED"}

PACKET_ACK == {"OK", "ERROR", "ADDR_ERROR"}

\* data is the payload behind the 12-byte instruction segment; the parser
\* only delivers frames that hold a whole instruction segment.
Request == [cmd : PACKET_CMD, type : {"CONTROL", "DATA"}, addr : Nat, data : Seq(Byte)]

\* app_validator_check refuses an erased MSP word.
ASSUME ServiceAssumption ==
    /\ Requests \subseteq Request
    /\ ValidVectors \subseteq [VectorCells -> Byte]
    /\ [a \in VectorCells |-> Erased] \notin ValidVectors
    /\ InitialImages \subseteq Image
    /\ FlashFaults \in BOOLEAN

VARIABLES
    flash,                   \* survives a reset
    erase_completed,
    jump_requested,
    arm_jump_after_publish,
    session_programmed,
    pc,                      \* where the handler or the device is
    request,                 \* the frame being handled
    progress,                \* sectors erased, or bytes programmed, for it
    result,                  \* the result byte its response will carry
    response                 \* what txBufferWrite last published

session == <<erase_completed, session_programmed>>
vars == <<flash, erase_completed, jump_requested, arm_jump_after_publish,
          session_programmed, pc, request, progress, result, response>>

NoRequest == [cmd |-> "none"]
NoResponse == [cmd |-> "none"]

AppSectorCount == SectorCount(APP_FLASH_MAX_SIZE)

FirstSector == APP_FLASH_BASE \div SECTOR_SIZE

\* boot_application_vector_is_valid
VectorIsValid(mem) == [a \in VectorCells |-> mem[a]] \in ValidVectors

-----------------------------------------------------------------------------
(* Start-up.  A reset clears RAM; main() then boots the application when   *)
(* its vector is valid, unless the reset was a software one, and otherwise *)
(* runs the service (BootUpdateServiceInit).                               *)

StartUp(mem, software_reset) ==
    IF VectorIsValid(mem) /\ ~software_reset THEN "application" ELSE "idle"

Init ==
    /\ flash \in InitialImages
    /\ erase_completed = FALSE
    /\ jump_requested = FALSE
    /\ arm_jump_after_publish = FALSE
    /\ session_programmed = FALSE
    /\ \E software_reset \in BOOLEAN : pc = StartUp(flash, software_reset)
    /\ request = NoRequest
    /\ progress = 0
    /\ result = "OK"
    /\ response = NoResponse

\* A reset at any point: power loss, watchdog, pin or software reset.
Restart ==
    /\ \E software_reset \in BOOLEAN : pc' = StartUp(flash, software_reset)
    /\ erase_completed' = FALSE
    /\ jump_requested' = FALSE
    /\ arm_jump_after_publish' = FALSE
    /\ session_programmed' = FALSE
    /\ request' = NoRequest
    /\ progress' = 0
    /\ result' = "OK"
    /\ response' = NoResponse
    /\ UNCHANGED flash

-----------------------------------------------------------------------------
(* Dispatch: encode_response's switch, for a frame r handed over by the    *)
(* parser.  Begin takes the frame; Answer leaves the switch with a result  *)
(* for txBufferWrite to publish.                                           *)

Begin(r) == pc = "idle" /\ request' = r

Answer(res) == result' = res /\ pc' = "publish"

\* The frame needs no Flash operation: its result is decided at once.
AnswerAtOnce(r, res) ==
    /\ Begin(r)
    /\ Answer(res)
    /\ UNCHANGED <<flash, session, jump_requested, progress, response>>

Handshake(r) ==
    /\ r.cmd = "HANDSHAKE"
    /\ AnswerAtOnce(r, "OK")
    /\ arm_jump_after_publish' = FALSE

\* encode_response returns 0: nothing is published.
Unsupported(r) ==
    /\ pc = "idle"
    /\ r.cmd = "UNSUPPORTED"
    /\ arm_jump_after_publish' = FALSE
    /\ UNCHANGED <<flash, session, jump_requested, pc, request, progress, result, response>>

EraseAddressed(r) == r.type = "DATA" /\ r.addr = APP_FLASH_BASE

EraseRejected(r) ==
    /\ r.cmd = "ERASE_FLASH"
    /\ ~EraseAddressed(r)
    /\ AnswerAtOnce(r, "ADDR_ERROR")
    /\ arm_jump_after_publish' = FALSE

\* Mutant: any second ERASE of a session counts as a repeated one.
DuplicateEvenProgrammed == erase_completed

\* An ERASE before anything was programmed is taken for a repeated one: it is
\* answered OK and nothing is erased.
Duplicate == erase_completed /\ ~session_programmed

EraseDuplicate(r) ==
    /\ r.cmd = "ERASE_FLASH"
    /\ EraseAddressed(r)
    /\ Duplicate
    /\ AnswerAtOnce(r, "OK")
    /\ arm_jump_after_publish' = FALSE

\* Mutant: the pending jump is not withdrawn.
JumpKept == jump_requested

JumpAfterErase == FALSE

EraseBegin(r) ==
    /\ Begin(r)
    /\ r.cmd = "ERASE_FLASH"
    /\ EraseAddressed(r)
    /\ ~Duplicate
    /\ erase_completed' = FALSE
    /\ jump_requested' = JumpAfterErase
    /\ arm_jump_after_publish' = FALSE
    /\ progress' = 0
    /\ pc' = "erase"
    /\ UNCHANGED <<flash, session_programmed, result, response>>

\* Mutant: only the first byte is checked against the end.
DownloadableByStart(r) ==
    /\ r.type = "DATA"
    /\ r.addr >= APP_FLASH_BASE
    /\ r.addr < APP_FLASH_END
    /\ Len(r.data) > 0

Downloadable(r) ==
    /\ r.type = "DATA"
    /\ r.addr >= APP_FLASH_BASE
    /\ r.addr < APP_FLASH_END
    /\ Len(r.data) > 0
    /\ Len(r.data) <= APP_FLASH_END - r.addr

DownloadRejected(r) ==
    /\ r.cmd = "APP_DOWNLOAD"
    /\ ~Downloadable(r)
    /\ AnswerAtOnce(r, "ADDR_ERROR")
    /\ arm_jump_after_publish' = FALSE

DownloadUnerased(r) ==
    /\ r.cmd = "APP_DOWNLOAD"
    /\ Downloadable(r)
    /\ ~erase_completed
    /\ AnswerAtOnce(r, "ERROR")
    /\ arm_jump_after_publish' = FALSE

\* bsp_flash_write refuses an address that is not word-aligned.
DownloadUnaligned(r) ==
    /\ r.cmd = "APP_DOWNLOAD"
    /\ Downloadable(r)
    /\ erase_completed
    /\ r.addr % PROGRAM_ALIGNMENT # 0
    /\ AnswerAtOnce(r, "ERROR")
    /\ arm_jump_after_publish' = FALSE

DownloadBegin(r) ==
    /\ Begin(r)
    /\ r.cmd = "APP_DOWNLOAD"
    /\ Downloadable(r)
    /\ erase_completed
    /\ r.addr % PROGRAM_ALIGNMENT = 0
    /\ progress' = 0
    /\ pc' = "program"
    /\ arm_jump_after_publish' = FALSE
    /\ UNCHANGED <<flash, session, jump_requested, result, response>>

\* Mutant: an erased session is enough.
JumpAcceptableErased == erase_completed

JumpAcceptable == erase_completed /\ VectorIsValid(flash)

JumpRejected(r) ==
    /\ r.cmd = "JUMP_TO_APP"
    /\ ~JumpAcceptable
    /\ AnswerAtOnce(r, "ERROR")
    /\ arm_jump_after_publish' = FALSE

JumpAccepted(r) ==
    /\ r.cmd = "JUMP_TO_APP"
    /\ JumpAcceptable
    /\ AnswerAtOnce(r, "OK")
    /\ arm_jump_after_publish' = TRUE

-----------------------------------------------------------------------------
(* erase_application: the sectors in ascending order, up to the first      *)
(* error.                                                                  *)

\* Mutants: the loop runs one sector too far, or stops one too early.
SectorsLeftOneMore == progress <= AppSectorCount
SectorsLeftOneLess == progress + 1 < AppSectorCount

SectorsLeft == progress < AppSectorCount

Erasing == pc = "erase" /\ SectorsLeft

EraseStep(mem) ==
    /\ flash' = mem
    /\ UNCHANGED <<session, jump_requested, arm_jump_after_publish, request, response>>

\* Mutant: the sectors in descending order.
SectorDescending(k) == FirstSector + AppSectorCount - 1 - k

Sector(k) == FirstSector + k

EraseSector ==
    /\ Erasing
    /\ EraseStep(Overwrite(flash, ErasedSector(Sector(progress))))
    /\ progress' = progress + 1
    /\ UNCHANGED <<pc, result>>

EraseSectorFails ==
    /\ FlashFaults
    /\ Erasing
    /\ \E part \in HalfErasedSector(Sector(progress)) :
           EraseStep(Overwrite(flash, part))
    /\ Answer("ERROR")
    /\ UNCHANGED progress

EraseEnd ==
    /\ pc = "erase"
    /\ ~SectorsLeft
    /\ erase_completed' = TRUE
    /\ session_programmed' = FALSE
    /\ Answer("OK")
    /\ UNCHANGED <<flash, jump_requested, arm_jump_after_publish, request, progress, response>>

-----------------------------------------------------------------------------
(* program_and_verify.                                                     *)

Programming == pc = "program" /\ progress < Len(request.data)

ProgramStep(mem) ==
    /\ flash' = mem
    /\ UNCHANGED <<session, jump_requested, arm_jump_after_publish, request, response>>

\* Mutant: the loop does not move on.
SameWord == progress

NextWord == progress + PROGRAM_ALIGNMENT

ProgramWord ==
    /\ Programming
    /\ ProgramStep(Overwrite(flash, ProgrammedWord(flash, request.addr, request.data, progress)))
    /\ progress' = NextWord
    /\ UNCHANGED <<pc, result>>

ProgramWordFails ==
    /\ FlashFaults
    /\ Programming
    /\ \E part \in HalfProgrammedWord(flash, request.addr, request.data, progress) :
           ProgramStep(Overwrite(flash, part))
    /\ Answer("ERROR")
    /\ UNCHANGED progress

Programmed == pc = "program" /\ progress >= Len(request.data)

\* Mutant: the read-back is not compared.
VerifiedAlways == TRUE

Verified == ReadsBack(flash, request.addr, request.data)

VerifyPasses ==
    /\ Programmed
    /\ Verified
    /\ session_programmed' = TRUE
    /\ Answer("OK")
    /\ UNCHANGED <<flash, erase_completed, jump_requested, arm_jump_after_publish,
                   request, progress, response>>

\* The data differs, or the read itself reported an error.
VerifyFails ==
    /\ Programmed
    /\ Verified => FlashFaults
    /\ Answer("ERROR")
    /\ UNCHANGED <<flash, session, jump_requested, arm_jump_after_publish,
                   request, progress, response>>

-----------------------------------------------------------------------------
(* The end of BootUpdateServiceHandleFrame.  txBufferWrite stores the      *)
(* length in _BufferHead and returns what it reads back from it; a STOP    *)
(* interrupt of a host read between the two clears it, and the response is *)
(* then counted as dropped and its jump is not armed.                      *)

LeaveHandler ==
    /\ pc = "publish"
    /\ arm_jump_after_publish' = FALSE
    /\ pc' = "idle"
    /\ request' = NoRequest
    /\ progress' = 0
    /\ result' = "OK"
    /\ UNCHANGED <<flash, session>>

\* Mutant: every OK arms the jump.
ArmedByAnyAck == result = "OK"

Armed == arm_jump_after_publish

Publish ==
    /\ LeaveHandler
    /\ response' = [cmd |-> request.cmd, result |-> result]
    /\ jump_requested' = (jump_requested \/ Armed)

PublishDropped ==
    /\ LeaveHandler
    /\ response' = NoResponse
    /\ UNCHANGED jump_requested

\* Mutant: the vector is not looked at again before the branch.
DestinationUnchecked == "application"

Destination == IF VectorIsValid(flash) THEN "application" ELSE "fatal"

\* main() consumes the request between two frames and jumps for good:
\* boot_jump_to_application looks at the vector once more, and when it
\* refuses, main() stays in fatal_safe_loop.
TakeJumpRequest ==
    /\ pc = "idle"
    /\ jump_requested
    /\ jump_requested' = FALSE
    /\ pc' = Destination
    /\ UNCHANGED <<flash, session, arm_jump_after_publish, request, progress, result, response>>

-----------------------------------------------------------------------------
Dispatch(r) ==
    \/ Handshake(r)
    \/ Unsupported(r)
    \/ EraseRejected(r) \/ EraseDuplicate(r) \/ EraseBegin(r)
    \/ DownloadRejected(r) \/ DownloadUnerased(r) \/ DownloadUnaligned(r) \/ DownloadBegin(r)
    \/ JumpRejected(r) \/ JumpAccepted(r)

HandlerStep ==
    \/ EraseSector \/ EraseSectorFails \/ EraseEnd
    \/ ProgramWord \/ ProgramWordFails \/ VerifyPasses \/ VerifyFails
    \/ Publish \/ PublishDropped

Next ==
    \/ \E r \in Requests : Dispatch(r)
    \/ HandlerStep
    \/ TakeJumpRequest
    \/ Restart

\* The handler's steps when no operation fails and no interrupt gets in.
Progress ==
    \/ EraseSector \/ EraseEnd
    \/ ProgramWord \/ VerifyPasses \/ VerifyFails
    \/ Publish

\* The handler is straight-line code of the main loop: it keeps running.
\* Nothing is assumed of the host, of the main loop's jump, of resets, or of
\* failures, which must not be what ends a loop.
Spec == Init /\ [][Next]_vars /\ WF_vars(Progress)

-----------------------------------------------------------------------------
(* Properties.                                                             *)

\* Every variable has its type; while the handler erases or programs, its
\* request is one that dispatch lets through to that loop, and progress
\* stays inside the loop.
TypeOK ==
    /\ flash \in Image
    /\ erase_completed \in BOOLEAN
    /\ jump_requested \in BOOLEAN
    /\ arm_jump_after_publish \in BOOLEAN
    /\ session_programmed \in BOOLEAN
    /\ pc \in {"idle", "erase", "program", "publish", "application", "fatal"}
    /\ request \in Requests \cup {NoRequest}
    /\ progress \in Nat
    /\ result \in PACKET_ACK
    /\ response \in [cmd : PACKET_CMD, result : PACKET_ACK] \cup {NoResponse}
    /\ pc = "erase" => request.cmd = "ERASE_FLASH" /\ progress <= AppSectorCount
    /\ pc = "program" =>
          /\ request.cmd = "APP_DOWNLOAD"
          /\ Downloadable(request)
          /\ progress < Len(request.data) + PROGRAM_ALIGNMENT
    /\ pc = "publish" => request \in Requests

\* No request, however its address and length are chosen, and no Flash error
\* changes a cell outside the application region: the bootloader itself and
\* the metadata sectors behind the application are out of a host's reach.
\* (The bound checks of the DOWNLOAD case and the sector arithmetic of
\* erase_application.)
OnlyApplicationRegionChanges ==
    [][\A a \in Address \ AppCells : flash'[a] = flash[a]]_flash

FirstSectorBlank == \A a \in SectorCells(FirstSector) : flash[a] = Erased

ApplicationBlank == \A a \in AppCells : flash[a] = Erased

\* The sectors are erased in an order that makes an interrupted erase safe:
\* a cell behind the first application sector regains a bit only once the
\* first sector, which holds the vector, is blank.  Wherever power is lost,
\* an old image is never left with its vector valid and its tail erased.
\* (The ascending loop of erase_application, with the early return.)
VectorErasedFirst ==
    [][\A a \in AppCells \ SectorCells(FirstSector) :
          ~(flash'[a] \subseteq flash[a]) => FirstSectorBlank]_flash

\* A download session opens (erase_completed becomes true) only on a wholly
\* blank application region, whatever failed, was refused or was reset
\* before: an erase that failed half-way never opens one.
SessionOpensBlank ==
    [][~erase_completed /\ erase_completed' => ApplicationBlank']_vars

\* When a DOWNLOAD is about to be answered OK, the whole chunk is in Flash,
\* even over cells that were programmed before.  (The read-back comparison:
\* programming can only clear bits and reports no error for it.)
DownloadAckMeansStored ==
    pc = "publish" /\ request.cmd = "APP_DOWNLOAD" /\ result = "OK" =>
        ReadsBack(flash, request.addr, request.data)

\* A jump that was accepted but not taken yet does not outlive the image it
\* was accepted for: once an ERASE begins, the request is gone, and a failed
\* or interrupted erase does not bring it back.
JumpRequestDiesWithErase == jump_requested => erase_completed

\* A jump is requested only in the step that publishes an OK answer to a
\* JUMP_TO_APP frame, for an erased session and a valid vector; no other
\* response ever carries a jump with it.  (arm_jump_after_publish is static
\* and outlives the call that sets it.)
JumpArmedByItsAck ==
    [][~jump_requested /\ jump_requested' =>
          /\ response' = [cmd |-> "JUMP_TO_APP", result |-> "OK"]
          /\ JumpAcceptable]_vars

\* Whatever way the device takes into the application, start-up or a jump
\* request of which the frames since may have clobbered the vector, the
\* vector is valid in Flash at that moment.  (boot_jump_to_application looks
\* at it again.)
OnlyValidVectorStarts ==
    [][pc' = "application" => VectorIsValid(flash)]_vars

\* The handler of every frame ends: the erase loop and the programming loop
\* terminate whatever the request asks for.
HandlerEnds == (pc \in {"erase", "program", "publish"}) ~> (pc = "idle" \/ pc = "application")

\* An ERASE answered OK leaves the application region blank, also when the
\* answer is the short one for a repeated ERASE.  Holds while no EFM
\* operation reports an error.
EraseAckMeansBlank ==
    pc = "publish" /\ request.cmd = "ERASE_FLASH" /\ result = "OK" => ApplicationBlank

\* A JUMP_TO_APP is accepted only when a DOWNLOAD of this session was
\* answered OK.  The code does not test it; it follows, while no EFM
\* operation reports an error, from the erased vector being invalid.
JumpAckNeedsDownloadAck ==
    pc = "publish" /\ request.cmd = "JUMP_TO_APP" /\ result = "OK" => session_programmed

SessionMode ==
    IF pc \in {"erase", "program", "publish"} THEN "busy"
    ELSE IF pc = "fatal" THEN "stopped" ELSE pc

Session == INSTANCE UpdateSession WITH
    open <- erase_completed, jump <- jump_requested, mode <- SessionMode

\* The service does what UpdateSession promises: it hides the order in which
\* it works, but each answer means what it says when it is published, and
\* each Flash operation stays inside what its frame allows.
ImplementsSession == Session!Spec
=============================================================================
