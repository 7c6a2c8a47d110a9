----------------------- MODULE BootUpdateServiceProofs -----------------------
(***************************************************************************)
(* Theorems about the update service, for every partition, cell width,     *)
(* set of requests and set of valid vectors that the assumptions admit.    *)
(***************************************************************************)
EXTENDS BootUpdateService, Integers, TLAPS

USE DEF Duplicate, JumpAfterErase, SectorsLeft, Sector, NextWord, Verified, Armed, Destination

-----------------------------------------------------------------------------
(* Arithmetic of sectors.                                                  *)

\* A multiple of S inside 0 .. S-1 is 0.
LEMMA SmallMultiple ==
    ASSUME NEW d \in Int, NEW S \in Nat, S > 0, d * S >= 0, d * S < S
    PROVE  d = 0
BY SMTT(20)

\* Division with remainder.
LEMMA DivMod ==
    ASSUME NEW a \in Nat, NEW b \in Nat, b > 0
    PROVE  a = (a \div b) * b + (a % b) /\ a % b \in 0 .. b - 1 /\ a \div b \in Nat
BY SMTT(20)

\* Two multiples of b are a multiple of b apart.
LEMMA MultiplesApart ==
    ASSUME NEW a \in Nat, NEW e \in Nat, NEW b \in Nat, b > 0,
           a % b = 0, e % b = 0, a < e
    PROVE  (e - a) % b = 0 /\ ((e - a) \div b) * b = e - a
<1> DEFINE p == a \div b
           q == e \div b
           n == (e - a) \div b
<1>1. a = p * b /\ e = q * b /\ p \in Nat /\ q \in Nat
  BY DivMod
<1>2. e - a \in Nat
  OBVIOUS
<1>3. e - a = n * b + ((e - a) % b) /\ (e - a) % b \in 0 .. b - 1 /\ n \in Nat
  BY <1>2, DivMod
<1> HIDE DEF p, q, n
<1>4. (q - p - n) * b = (e - a) % b
  BY <1>1, <1>3
<1>5. q - p - n = 0
  BY <1>1, <1>3, <1>4, SmallMultiple
<1> QED
  BY <1>3, <1>4, <1>5

\* The application region is AppSectorCount whole sectors from FirstSector.
LEMMA MemoryMapFacts ==
    /\ SECTOR_SIZE \in Nat /\ SECTOR_SIZE > 0
    /\ APP_FLASH_BASE \in Nat /\ APP_FLASH_END \in Nat /\ FLASH_SIZE \in Nat
    /\ APP_FLASH_BASE < APP_FLASH_END /\ APP_FLASH_END <= FLASH_SIZE
    /\ PROGRAM_ALIGNMENT \in Nat /\ PROGRAM_ALIGNMENT > 0
    /\ FirstSector \in Nat
    /\ AppSectorCount \in Nat
    /\ FirstSector * SECTOR_SIZE = APP_FLASH_BASE
    /\ AppSectorCount * SECTOR_SIZE = APP_FLASH_END - APP_FLASH_BASE
<1>1. /\ SECTOR_SIZE \in Nat /\ SECTOR_SIZE > 0
      /\ APP_FLASH_BASE \in Nat /\ APP_FLASH_END \in Nat /\ FLASH_SIZE \in Nat
      /\ APP_FLASH_BASE < APP_FLASH_END /\ APP_FLASH_END <= FLASH_SIZE
      /\ PROGRAM_ALIGNMENT \in Nat /\ PROGRAM_ALIGNMENT > 0
  BY MemoryMapAssumption, FlashAssumption
<1>2. FirstSector \in Nat /\ FirstSector * SECTOR_SIZE = APP_FLASH_BASE
  BY <1>1, MemoryMapAssumption, DivMod DEF FirstSector
<1>3. APP_FLASH_END - APP_FLASH_BASE \in Nat
  BY <1>1
<1>4. /\ (APP_FLASH_END - APP_FLASH_BASE) % SECTOR_SIZE = 0
      /\ ((APP_FLASH_END - APP_FLASH_BASE) \div SECTOR_SIZE) * SECTOR_SIZE
            = APP_FLASH_END - APP_FLASH_BASE
  BY <1>1, MemoryMapAssumption, MultiplesApart
<1>5. (APP_FLASH_END - APP_FLASH_BASE) \div SECTOR_SIZE \in Nat
  BY <1>1, <1>3, DivMod
<1>6. AppSectorCount = (APP_FLASH_END - APP_FLASH_BASE) \div SECTOR_SIZE
  BY <1>4, <1>5 DEF AppSectorCount, SectorCount, APP_FLASH_MAX_SIZE
<1> QED
  BY <1>1, <1>2, <1>4, <1>5, <1>6

\* The sector that the erase loop erases at index k starts k sectors behind
\* the base, and lies inside the application region.
LEMMA LoopSector ==
    ASSUME NEW k \in Nat, k < AppSectorCount
    PROVE  /\ \A a : a \in SectorCells(FirstSector + k) <=>
                     /\ a \in Address
                     /\ APP_FLASH_BASE + k * SECTOR_SIZE <= a
                     /\ a < APP_FLASH_BASE + (k + 1) * SECTOR_SIZE
           /\ SectorCells(FirstSector + k) \subseteq AppCells
           /\ k * SECTOR_SIZE \in Nat
           /\ (k + 1) * SECTOR_SIZE = k * SECTOR_SIZE + SECTOR_SIZE
<1>1. k * SECTOR_SIZE \in Nat
  BY MemoryMapFacts
<1>2. (k + 1) * SECTOR_SIZE = k * SECTOR_SIZE + SECTOR_SIZE
  BY MemoryMapFacts
<1>3. /\ (FirstSector + k) * SECTOR_SIZE = APP_FLASH_BASE + k * SECTOR_SIZE
      /\ (FirstSector + k + 1) * SECTOR_SIZE = APP_FLASH_BASE + (k + 1) * SECTOR_SIZE
  BY MemoryMapFacts
<1>4. (k + 1) * SECTOR_SIZE <= APP_FLASH_END - APP_FLASH_BASE
  <2>1. (k + 1) * SECTOR_SIZE <= AppSectorCount * SECTOR_SIZE
    BY MemoryMapFacts, SMTT(20)
  <2> QED
    BY <2>1, MemoryMapFacts
<1>5. \A a : a \in SectorCells(FirstSector + k) <=>
             /\ a \in Address
             /\ APP_FLASH_BASE + k * SECTOR_SIZE <= a
             /\ a < APP_FLASH_BASE + (k + 1) * SECTOR_SIZE
  <2> DEFINE lo == k * SECTOR_SIZE
             hi == (k + 1) * SECTOR_SIZE
  <2>1. SectorCells(FirstSector + k)
          = {a \in Address : RangeContains(APP_FLASH_BASE + lo, APP_FLASH_BASE + hi, a, 1)}
    BY <1>3 DEF SectorCells
  <2>2. lo \in Nat /\ hi = lo + SECTOR_SIZE
    BY <1>1, <1>2
  <2> HIDE DEF lo, hi
  <2>3. \A a : a \in {c \in Address : RangeContains(APP_FLASH_BASE + lo, APP_FLASH_BASE + hi, c, 1)}
               <=> a \in Address /\ APP_FLASH_BASE + lo <= a /\ a < APP_FLASH_BASE + hi
    BY <2>2, MemoryMapFacts DEF RangeContains, Address
  <2> QED
    BY <2>1, <2>3 DEF lo, hi
<1>6. SectorCells(FirstSector + k) \subseteq AppCells
  <2> SUFFICES ASSUME NEW a \in SectorCells(FirstSector + k) PROVE a \in AppCells
    OBVIOUS
  <2>1. /\ a \in Address
        /\ APP_FLASH_BASE + k * SECTOR_SIZE <= a
        /\ a < APP_FLASH_BASE + (k + 1) * SECTOR_SIZE
    BY <1>5
  <2> DEFINE lo == k * SECTOR_SIZE
             hi == (k + 1) * SECTOR_SIZE
  <2>2. lo \in Nat /\ hi \in Nat /\ hi <= APP_FLASH_END - APP_FLASH_BASE
    BY <1>1, <1>2, <1>4, MemoryMapFacts
  <2> HIDE DEF lo, hi
  <2>3. a \in Address /\ APP_FLASH_BASE + lo <= a /\ a < APP_FLASH_BASE + hi
    BY <2>1 DEF lo, hi
  <2> QED
    BY <2>2, <2>3, MemoryMapFacts DEF AppCells, RangeContains, Address
<1> QED
  BY <1>1, <1>2, <1>5, <1>6

\* The cells of a word of an accepted DOWNLOAD lie in the application region.
LEMMA WordInApplication ==
    ASSUME NEW r \in Request, Downloadable(r), NEW done \in Nat
    PROVE  WordCells(r.addr, r.data, done) \subseteq AppCells
BY MemoryMapFacts
   DEF Request, Downloadable, WordCells, AppCells, RangeContains, Address

-----------------------------------------------------------------------------
(* Type correctness.                                                       *)

\* Replacing cells by byte values yields a Flash image again, and changes
\* no other cell.
LEMMA OverwriteFacts ==
    ASSUME NEW mem \in Image, NEW part,
           \A a \in DOMAIN part : part[a] \in Byte
    PROVE  /\ Overwrite(mem, part) \in Image
           /\ \A a \in Address : Overwrite(mem, part)[a] =
                  IF a \in DOMAIN part THEN part[a] ELSE mem[a]
BY DEF Overwrite, Image

\* An erased sector, a half-erased one, a programmed word and a
\* half-programmed one are byte-valued, and the words only lose bits.
LEMMA PartTypes ==
    /\ \A s : /\ DOMAIN ErasedSector(s) = SectorCells(s)
              /\ \A a \in SectorCells(s) : ErasedSector(s)[a] = Erased
    /\ Erased \in Byte
    /\ \A s : \A part \in HalfErasedSector(s) :
          /\ DOMAIN part = SectorCells(s)
          /\ \A a \in SectorCells(s) : part[a] \in Byte
BY DEF ErasedSector, HalfErasedSector, Erased, Byte

LEMMA WordTypes ==
    ASSUME NEW mem \in Image, NEW r \in Request, NEW done \in Nat
    PROVE  LET cells == WordCells(r.addr, r.data, done)
               word  == ProgrammedWord(mem, r.addr, r.data, done)
           IN  /\ DOMAIN word = cells
               /\ \A a \in cells : /\ a - r.addr + 1 \in 1 .. Len(r.data)
                                   /\ word[a] = mem[a] \cap r.data[a - r.addr + 1]
                                   /\ word[a] \in Byte
                                   /\ word[a] \subseteq mem[a]
               /\ \A part \in HalfProgrammedWord(mem, r.addr, r.data, done) :
                     /\ DOMAIN part = cells
                     /\ \A a \in cells : part[a] \in Byte /\ part[a] \subseteq mem[a]
<1> DEFINE cells == WordCells(r.addr, r.data, done)
           word  == ProgrammedWord(mem, r.addr, r.data, done)
<1>1. DOMAIN word = cells /\ \A a \in cells : word[a] = mem[a] \cap r.data[a - r.addr + 1]
  BY DEF ProgrammedWord
<1>2. \A a \in cells : a \in Address /\ a - r.addr + 1 \in 1 .. Len(r.data)
  BY MemoryMapFacts DEF WordCells, Address, Request
<1>3. \A a \in cells : mem[a] \in Byte
  BY <1>2 DEF Image
<1>4. \A a \in cells : word[a] \in Byte /\ word[a] \subseteq mem[a]
  BY <1>1, <1>3 DEF Byte
<1>5. \A part \in HalfProgrammedWord(mem, r.addr, r.data, done) :
          /\ DOMAIN part = cells
          /\ \A a \in cells : part[a] \in Byte /\ part[a] \subseteq mem[a]
  BY DEF HalfProgrammedWord
<1> QED
  BY <1>1, <1>2, <1>4, <1>5

\* A device starts up with its service variables typed.
LEMMA TypeInit == Init => TypeOK
<1> SUFFICES ASSUME Init PROVE TypeOK
  OBVIOUS
<1>1. pc \in {"idle", "application"}
  BY DEF Init, StartUp
<1> QED
  BY <1>1, ServiceAssumption DEF Init, TypeOK, PACKET_ACK, NoRequest, NoResponse

LEMMA TypeNext == TypeOK /\ [Next]_vars => TypeOK'
<1> SUFFICES ASSUME TypeOK, [Next]_vars PROVE TypeOK'
  OBVIOUS
<1> USE MemoryMapFacts, ServiceAssumption
<1>1. ASSUME NEW r \in Requests, Dispatch(r) PROVE TypeOK'
  <2>1. r \in Request /\ r.cmd \in PACKET_CMD /\ Len(r.data) \in Nat
    BY DEF Request
  <2>2. CASE Handshake(r)
    BY <2>1, <2>2 DEF Handshake, AnswerAtOnce, Answer, Begin, session, TypeOK, PACKET_ACK
  <2>3. CASE Unsupported(r)
    BY <2>1, <2>3 DEF Unsupported, session, TypeOK, Downloadable
  <2>4. CASE EraseRejected(r)
    BY <2>1, <2>4 DEF EraseRejected, AnswerAtOnce, Answer, Begin, session, TypeOK, PACKET_ACK
  <2>5. CASE EraseDuplicate(r)
    BY <2>1, <2>5 DEF EraseDuplicate, AnswerAtOnce, Answer, Begin, session, TypeOK, PACKET_ACK
  <2>6. CASE EraseBegin(r)
    <3>1. pc' = "erase" /\ progress' = 0 /\ request' = r /\ r.cmd = "ERASE_FLASH"
      BY <2>6 DEF EraseBegin, Begin
    <3>2. /\ flash' \in Image /\ result' \in PACKET_ACK
          /\ response' \in [cmd : PACKET_CMD, result : PACKET_ACK] \cup {NoResponse}
      BY <2>6 DEF EraseBegin, TypeOK
    <3>3. /\ erase_completed' \in BOOLEAN /\ session_programmed' \in BOOLEAN
          /\ jump_requested' \in BOOLEAN /\ arm_jump_after_publish' \in BOOLEAN
      BY <2>6 DEF EraseBegin, TypeOK
    <3>4. progress' \in Nat /\ progress' <= AppSectorCount
      BY <3>1
    <3> QED
      BY <3>1, <3>2, <3>3, <3>4 DEF TypeOK
  <2>7. CASE DownloadRejected(r)
    BY <2>1, <2>7 DEF DownloadRejected, AnswerAtOnce, Answer, Begin, session, TypeOK, PACKET_ACK
  <2>8. CASE DownloadUnerased(r)
    BY <2>1, <2>8 DEF DownloadUnerased, AnswerAtOnce, Answer, Begin, session, TypeOK, PACKET_ACK
  <2>9. CASE DownloadUnaligned(r)
    BY <2>1, <2>9 DEF DownloadUnaligned, AnswerAtOnce, Answer, Begin, session, TypeOK, PACKET_ACK
  <2>10. CASE DownloadBegin(r)
    <3>1. pc' = "program" /\ progress' = 0 /\ request' = r /\ r.cmd = "APP_DOWNLOAD"
      BY <2>10 DEF DownloadBegin, Begin
    <3>2. /\ flash' \in Image /\ result' \in PACKET_ACK
          /\ response' \in [cmd : PACKET_CMD, result : PACKET_ACK] \cup {NoResponse}
      BY <2>10 DEF DownloadBegin, TypeOK
    <3>3. /\ erase_completed' \in BOOLEAN /\ session_programmed' \in BOOLEAN
          /\ jump_requested' \in BOOLEAN /\ arm_jump_after_publish' \in BOOLEAN
      BY <2>10 DEF DownloadBegin, session, TypeOK
    <3>4. Downloadable(request)' /\ progress' < Len(request'.data) + PROGRAM_ALIGNMENT
      BY <2>1, <2>10, <3>1 DEF DownloadBegin, Downloadable
    <3> QED
      BY <3>1, <3>2, <3>3, <3>4 DEF TypeOK
  <2>11. CASE JumpRejected(r)
    BY <2>1, <2>11 DEF JumpRejected, AnswerAtOnce, Answer, Begin, session, TypeOK, PACKET_ACK
  <2>12. CASE JumpAccepted(r)
    BY <2>1, <2>12 DEF JumpAccepted, AnswerAtOnce, Answer, Begin, session, TypeOK, PACKET_ACK
  <2> QED
    BY <1>1, <2>2, <2>3, <2>4, <2>5, <2>6, <2>7, <2>8, <2>9, <2>10, <2>11, <2>12 DEF Dispatch
<1>2. CASE EraseSector
  <2>1. Overwrite(flash, ErasedSector(FirstSector + progress)) \in Image
    BY PartTypes, OverwriteFacts DEF TypeOK
  <2> QED
    BY <1>2, <2>1 DEF EraseSector, Erasing, EraseStep, session, TypeOK
<1>3. CASE EraseSectorFails
  <2>1. PICK part \in HalfErasedSector(FirstSector + progress) : EraseStep(Overwrite(flash, part))
    BY <1>3 DEF EraseSectorFails
  <2>2. Overwrite(flash, part) \in Image
    BY PartTypes, OverwriteFacts DEF TypeOK
  <2>3. request \in Requests
    BY <1>3 DEF EraseSectorFails, Erasing, TypeOK, NoRequest
  <2> QED
    BY <1>3, <2>1, <2>2, <2>3
    DEF EraseSectorFails, EraseStep, Answer, session, TypeOK, PACKET_ACK
<1>4. CASE EraseEnd
  <2>1. request \in Requests
    BY <1>4 DEF EraseEnd, TypeOK, NoRequest
  <2> QED
    BY <1>4, <2>1 DEF EraseEnd, Answer, TypeOK, PACKET_ACK
<1>5. ASSUME pc = "program" PROVE request \in Requests /\ request \in Request
  BY <1>5 DEF TypeOK, NoRequest
<1>6. CASE ProgramWord
  <2>1. Overwrite(flash, ProgrammedWord(flash, request.addr, request.data, progress)) \in Image
    BY <1>5, <1>6, WordTypes, OverwriteFacts DEF ProgramWord, Programming, TypeOK
  <2>2. Len(request.data) \in Nat
    BY <1>5, <1>6 DEF ProgramWord, Programming, Request
  <2> QED
    BY <1>6, <2>1, <2>2 DEF ProgramWord, Programming, ProgramStep, session, TypeOK, Downloadable
<1>7. CASE ProgramWordFails
  <2>1. PICK part \in HalfProgrammedWord(flash, request.addr, request.data, progress) :
            ProgramStep(Overwrite(flash, part))
    BY <1>7 DEF ProgramWordFails
  <2>2. Overwrite(flash, part) \in Image
    BY <1>5, <1>7, WordTypes, OverwriteFacts DEF ProgramWordFails, Programming, TypeOK
  <2> QED
    BY <1>5, <1>7, <2>1, <2>2
    DEF ProgramWordFails, Programming, ProgramStep, Answer, session, TypeOK, PACKET_ACK
<1>8. CASE VerifyPasses
  BY <1>5, <1>8 DEF VerifyPasses, Programmed, Answer, TypeOK, PACKET_ACK
<1>9. CASE VerifyFails
  BY <1>5, <1>9 DEF VerifyFails, Programmed, Answer, session, TypeOK, PACKET_ACK
<1>10. CASE Publish \/ PublishDropped
  <2>1. request \in Request
    BY <1>10 DEF Publish, PublishDropped, LeaveHandler, TypeOK
  <2>2. response' \in [cmd : PACKET_CMD, result : PACKET_ACK] \cup {NoResponse}
    BY <1>10, <2>1 DEF Publish, PublishDropped, TypeOK, Request
  <2>3. jump_requested' \in BOOLEAN
    BY <1>10 DEF Publish, PublishDropped, TypeOK
  <2>4. LeaveHandler
    BY <1>10 DEF Publish, PublishDropped
  <2> QED
    BY <2>2, <2>3, <2>4 DEF LeaveHandler, session, TypeOK, PACKET_ACK
<1>11. CASE TakeJumpRequest
  BY <1>11 DEF TakeJumpRequest, session, TypeOK
<1>12. CASE Restart
  <2>1. pc' \in {"idle", "application"}
    BY <1>12 DEF Restart, StartUp
  <2> QED
    BY <1>12, <2>1 DEF Restart, TypeOK, PACKET_ACK
<1>13. CASE UNCHANGED vars
  BY <1>13 DEF vars, TypeOK, Downloadable
<1> QED
  BY <1>1, <1>2, <1>3, <1>4, <1>6, <1>7, <1>8, <1>9, <1>10, <1>11, <1>12, <1>13
     DEF Next, HandlerStep

\* The variables of the update service always have their types, and the
\* loop counter always lies inside the loop that the handler is in.
THEOREM TypeCorrect == Spec => []TypeOK
<1> QED
  BY TypeInit, TypeNext, PTL DEF Spec

-----------------------------------------------------------------------------
(* What a step does to Flash.                                              *)

\* Only the four Flash operations of the handler change Flash.
LEMMA FlashWriters ==
    ASSUME [Next]_vars
    PROVE  \/ EraseSector \/ EraseSectorFails
           \/ ProgramWord \/ ProgramWordFails
           \/ UNCHANGED flash
BY DEF Next, HandlerStep, Dispatch, Handshake, Unsupported, EraseRejected, EraseDuplicate,
       EraseBegin, DownloadRejected, DownloadUnerased, DownloadUnaligned, DownloadBegin,
       JumpRejected, JumpAccepted, AnswerAtOnce, EraseEnd, VerifyPasses, VerifyFails,
       Publish, PublishDropped, LeaveHandler, TakeJumpRequest, Restart, vars

\* An erasure, completed or failed, changes cells of its sector only.
LEMMA EraseEffect ==
    ASSUME TypeOK, EraseSector \/ EraseSectorFails
    PROVE  /\ pc = "erase" /\ progress \in Nat /\ progress < AppSectorCount
           /\ \A a \in Address \ SectorCells(FirstSector + progress) : flash'[a] = flash[a]
           /\ EraseSector => \A a \in SectorCells(FirstSector + progress) : flash'[a] = Erased
<1>1. pc = "erase" /\ progress \in Nat /\ progress < AppSectorCount
  BY DEF EraseSector, EraseSectorFails, Erasing, TypeOK
<1>2. SectorCells(FirstSector + progress) \subseteq Address
  BY DEF SectorCells
<1>3. flash \in Image
  BY DEF TypeOK
<1>4. CASE EraseSector
  <2>1. flash' = Overwrite(flash, ErasedSector(FirstSector + progress))
    BY <1>4 DEF EraseSector, EraseStep
  <2> QED
    BY <1>1, <1>2, <1>3, <2>1, OverwriteFacts, PartTypes
<1>5. ASSUME EraseSectorFails, ~EraseSector
      PROVE  \A a \in Address \ SectorCells(FirstSector + progress) : flash'[a] = flash[a]
  <2>1. PICK part \in HalfErasedSector(FirstSector + progress) : flash' = Overwrite(flash, part)
    BY <1>5 DEF EraseSectorFails, EraseStep
  <2> QED
    BY <1>3, <2>1, OverwriteFacts, PartTypes
<1> QED
  BY <1>1, <1>4, <1>5

\* Programming, completed or failed, only clears bits, and only bits of
\* application cells.
LEMMA ProgramEffect ==
    ASSUME TypeOK, ProgramWord \/ ProgramWordFails
    PROVE  /\ pc = "program"
           /\ \A a \in Address : flash'[a] \subseteq flash[a]
           /\ \A a \in Address \ AppCells : flash'[a] = flash[a]
<1>1. pc = "program" /\ progress \in Nat /\ flash \in Image
  BY DEF ProgramWord, ProgramWordFails, Programming, TypeOK
<1>2. request \in Request /\ Downloadable(request)
  BY <1>1, ServiceAssumption DEF TypeOK, NoRequest
<1> DEFINE cells == WordCells(request.addr, request.data, progress)
<1>3. cells \subseteq AppCells
  BY <1>1, <1>2, WordInApplication
<1>4. cells \subseteq Address
  BY DEF WordCells
<1>5. CASE ProgramWord
  <2> DEFINE word == ProgrammedWord(flash, request.addr, request.data, progress)
  <2>1. flash' = Overwrite(flash, word)
    BY <1>5 DEF ProgramWord, ProgramStep
  <2>2. DOMAIN word = cells /\ \A a \in cells : word[a] \in Byte /\ word[a] \subseteq flash[a]
    BY <1>1, <1>2, WordTypes
  <2> HIDE DEF word, cells
  <2>3. \A a \in Address : flash'[a] = IF a \in cells THEN word[a] ELSE flash[a]
    BY <1>1, <2>1, <2>2, OverwriteFacts
  <2> QED
    BY <1>1, <1>3, <2>2, <2>3
<1>6. CASE ProgramWordFails
  <2>1. PICK part \in HalfProgrammedWord(flash, request.addr, request.data, progress) :
            flash' = Overwrite(flash, part)
    BY <1>6 DEF ProgramWordFails, ProgramStep
  <2>2. DOMAIN part = cells /\ \A a \in cells : part[a] \in Byte /\ part[a] \subseteq flash[a]
    BY <1>1, <1>2, <2>1, WordTypes
  <2> HIDE DEF cells
  <2>3. \A a \in Address : flash'[a] = IF a \in cells THEN part[a] ELSE flash[a]
    BY <1>1, <2>1, <2>2, OverwriteFacts
  <2> QED
    BY <1>1, <1>3, <2>2, <2>3
<1> QED
  BY <1>5, <1>6

\* No request and no Flash error changes a cell outside the application
\* region.
THEOREM RegionConfined == Spec => OnlyApplicationRegionChanges
<1>1. ASSUME TypeOK, [Next]_vars
      PROVE  [\A a \in Address \ AppCells : flash'[a] = flash[a]]_flash
  <2>1. CASE EraseSector \/ EraseSectorFails
    BY <1>1, <2>1, EraseEffect, LoopSector
  <2>2. CASE ProgramWord \/ ProgramWordFails
    BY <1>1, <2>2, ProgramEffect
  <2> QED
    BY <1>1, <2>1, <2>2, FlashWriters
<1> QED
  BY <1>1, TypeCorrect, PTL DEF Spec, OnlyApplicationRegionChanges

-----------------------------------------------------------------------------
(* The order of erasure.                                                   *)

\* While the loop runs, the sectors it is through with are blank.
ErasedSoFar ==
    pc = "erase" =>
        \A a \in AppCells : a < APP_FLASH_BASE + progress * SECTOR_SIZE => flash[a] = Erased

LEMMA ErasedSoFarInit == Init => ErasedSoFar
<1> SUFFICES ASSUME Init PROVE pc # "erase"
  BY DEF ErasedSoFar
<1> QED
  BY DEF Init, StartUp

LEMMA ErasedSoFarNext == TypeOK /\ ErasedSoFar /\ [Next]_vars => ErasedSoFar'
<1> SUFFICES ASSUME TypeOK, ErasedSoFar, [Next]_vars, pc' = "erase",
                    NEW a \in AppCells, a < APP_FLASH_BASE + progress' * SECTOR_SIZE
             PROVE  flash'[a] = Erased
  BY DEF ErasedSoFar
<1>1. a \in Address /\ a \in Nat /\ APP_FLASH_BASE <= a
  BY MemoryMapFacts DEF AppCells, RangeContains, Address
<1>2. CASE \E r \in Requests : EraseBegin(r)
  <2>1. progress' = 0
    BY <1>2 DEF EraseBegin
  <2> QED
    BY <1>1, <2>1, MemoryMapFacts
<1>3. CASE EraseSector
  <2>1. /\ progress \in Nat /\ progress < AppSectorCount /\ pc = "erase"
        /\ \A c \in Address \ SectorCells(FirstSector + progress) : flash'[c] = flash[c]
        /\ \A c \in SectorCells(FirstSector + progress) : flash'[c] = Erased
    BY <1>3, EraseEffect
  <2>2. a < APP_FLASH_BASE + (progress + 1) * SECTOR_SIZE
    BY <1>3 DEF EraseSector
  <2>3. CASE a \in SectorCells(FirstSector + progress)
    BY <2>1, <2>3
  <2>4. CASE a \notin SectorCells(FirstSector + progress)
    <3>1. progress * SECTOR_SIZE \in Nat
      BY <2>1, LoopSector
    <3>2. ~(APP_FLASH_BASE + progress * SECTOR_SIZE <= a)
      BY <1>1, <2>1, <2>2, <2>4, LoopSector
    <3>3. a < APP_FLASH_BASE + progress * SECTOR_SIZE
      BY <1>1, <3>1, <3>2, MemoryMapFacts
    <3> QED
      BY <1>1, <2>1, <2>4, <3>3 DEF ErasedSoFar
  <2> QED
    BY <2>3, <2>4
<1>4. CASE UNCHANGED vars
  BY <1>4 DEF vars, ErasedSoFar
<1> QED
  BY <1>2, <1>3, <1>4
  DEF Next, HandlerStep, Dispatch, Handshake, Unsupported, EraseRejected, EraseDuplicate,
      DownloadRejected, DownloadUnerased, DownloadUnaligned, DownloadBegin, JumpRejected,
      JumpAccepted, AnswerAtOnce, Begin, Answer, EraseSectorFails, EraseEnd, ProgramWord,
      Programming, ProgramWordFails, VerifyPasses, VerifyFails, Publish, PublishDropped, LeaveHandler,
      TakeJumpRequest, Restart, StartUp

\* Types and the prefix that is blank, together: the invariant behind the
\* two erase theorems.
LEMMA EraseInvariant == Spec => [](TypeOK /\ ErasedSoFar)
BY TypeInit, TypeNext, ErasedSoFarInit, ErasedSoFarNext, PTL DEF Spec

\* The cells of the first sector are the ones below its end.
LEMMA FirstSectorCells ==
    \A a : a \in SectorCells(FirstSector) <=>
           a \in Address /\ APP_FLASH_BASE <= a /\ a < APP_FLASH_BASE + SECTOR_SIZE
<1>1. FirstSector + 0 = FirstSector /\ 0 < AppSectorCount
  BY MemoryMapFacts
<1> QED
  BY <1>1, LoopSector, MemoryMapFacts

\* An interrupted or failed erase never leaves the old vector in front of an
\* erased tail.
THEOREM EraseOrderSafe == Spec => VectorErasedFirst
<1>1. ASSUME TypeOK, ErasedSoFar, [Next]_vars
      PROVE  [\A a \in AppCells \ SectorCells(FirstSector) :
                ~(flash'[a] \subseteq flash[a]) => FirstSectorBlank]_flash
  <2> SUFFICES ASSUME flash' # flash, NEW a \in AppCells \ SectorCells(FirstSector),
                      ~(flash'[a] \subseteq flash[a])
               PROVE  FirstSectorBlank
    OBVIOUS
  <2>1. a \in Address
    BY DEF AppCells
  <2>2. EraseSector \/ EraseSectorFails
    BY <1>1, <2>1, FlashWriters, ProgramEffect
  <2>3. /\ pc = "erase" /\ progress \in Nat /\ progress < AppSectorCount
        /\ \A c \in Address \ SectorCells(FirstSector + progress) : flash'[c] = flash[c]
    BY <1>1, <2>2, EraseEffect
  <2>4. a \in SectorCells(FirstSector + progress)
    BY <2>1, <2>3
  <2>5. progress # 0
    BY <2>4, MemoryMapFacts
  <2>6. SECTOR_SIZE <= progress * SECTOR_SIZE
    BY <2>3, <2>5, MemoryMapFacts, SMTT(20)
  <2>7. ASSUME NEW c \in SectorCells(FirstSector) PROVE flash[c] = Erased
    <3>1. c \in Address /\ APP_FLASH_BASE <= c /\ c < APP_FLASH_BASE + SECTOR_SIZE
      BY FirstSectorCells
    <3>2. c \in AppCells
      BY <2>3, LoopSector, MemoryMapFacts
    <3>3. progress * SECTOR_SIZE \in Nat
      BY <2>3, LoopSector
    <3>4. c < APP_FLASH_BASE + progress * SECTOR_SIZE
      BY <3>1, <3>3, <2>6, MemoryMapFacts DEF Address
    <3> QED
      BY <1>1, <2>3, <3>2, <3>4 DEF ErasedSoFar
  <2> QED
    BY <2>7 DEF FirstSectorBlank
<1> QED
  BY <1>1, EraseInvariant, PTL DEF Spec, VectorErasedFirst

\* When the loop is through, the whole region is blank.
LEMMA LoopEndBlank ==
    ASSUME TypeOK, ErasedSoFar, pc = "erase", ~SectorsLeft
    PROVE  ApplicationBlank
<1> SUFFICES ASSUME NEW a \in AppCells PROVE flash[a] = Erased
  BY DEF ApplicationBlank
<1>1. a \in Address /\ a < APP_FLASH_END
  BY DEF AppCells, RangeContains
<1>2. progress = AppSectorCount
  BY MemoryMapFacts DEF TypeOK
<1>3. a < APP_FLASH_BASE + progress * SECTOR_SIZE
  BY <1>1, <1>2, MemoryMapFacts DEF Address
<1> QED
  BY <1>3 DEF ErasedSoFar

\* Only the end of the erase loop opens a session.
LEMMA SessionOpener ==
    ASSUME [Next]_vars, ~erase_completed, erase_completed'
    PROVE  EraseEnd
BY DEF Next, HandlerStep, Dispatch, Handshake, Unsupported, EraseRejected, EraseDuplicate,
       EraseBegin, DownloadRejected, DownloadUnerased, DownloadUnaligned, DownloadBegin,
       JumpRejected, JumpAccepted, AnswerAtOnce, EraseSector, EraseSectorFails, EraseStep,
       ProgramWord, ProgramWordFails, ProgramStep, VerifyPasses, VerifyFails,
       Publish, PublishDropped, LeaveHandler, TakeJumpRequest, Restart, vars, session

\* A download session opens only on a blank application region.
THEOREM SessionsOpenBlank == Spec => SessionOpensBlank
<1>1. ASSUME TypeOK, ErasedSoFar, [Next]_vars
      PROVE  [~erase_completed /\ erase_completed' => ApplicationBlank']_vars
  <2> SUFFICES ASSUME ~erase_completed, erase_completed' PROVE ApplicationBlank'
    OBVIOUS
  <2>1. EraseEnd
    BY <1>1, SessionOpener
  <2>2. ApplicationBlank
    BY <1>1, <2>1, LoopEndBlank DEF EraseEnd
  <2> QED
    BY <2>1, <2>2 DEF EraseEnd, ApplicationBlank
<1> QED
  BY <1>1, EraseInvariant, PTL DEF Spec, SessionOpensBlank

-----------------------------------------------------------------------------
(* The jump.                                                               *)

\* An armed jump is the one the frame being answered has armed, in an erased
\* session with a valid vector, and a requested jump belongs to the erased
\* session it was accepted in.
JumpInv ==
    /\ arm_jump_after_publish =>
          /\ pc = "publish"
          /\ request.cmd = "JUMP_TO_APP"
          /\ result = "OK"
          /\ JumpAcceptable
    /\ JumpRequestDiesWithErase

LEMMA JumpInvInit == Init => JumpInv
BY DEF Init, JumpInv, JumpRequestDiesWithErase

LEMMA JumpInvNext == TypeOK /\ JumpInv /\ [Next]_vars => JumpInv'
<1> SUFFICES ASSUME TypeOK, JumpInv, [Next]_vars PROVE JumpInv'
  OBVIOUS
<1> USE DEF JumpInv, JumpRequestDiesWithErase, JumpAcceptable
<1>1. ASSUME NEW r \in Requests, Dispatch(r) PROVE JumpInv'
  BY <1>1
  DEF Dispatch, Handshake, Unsupported, EraseRejected, EraseDuplicate, EraseBegin,
      DownloadRejected, DownloadUnerased, DownloadUnaligned, DownloadBegin, JumpRejected,
      JumpAccepted, AnswerAtOnce, Begin, Answer, session, VectorIsValid
<1>2. CASE EraseSector \/ EraseSectorFails
  <2>1. ~arm_jump_after_publish
    BY <1>2 DEF EraseSector, EraseSectorFails, Erasing, TypeOK
  <2> QED
    BY <1>2, <2>1 DEF EraseSector, EraseSectorFails, EraseStep, session
<1>3. CASE EraseEnd
  BY <1>3 DEF EraseEnd
<1>4. CASE ProgramWord \/ ProgramWordFails
  <2>1. ~arm_jump_after_publish
    BY <1>4 DEF ProgramWord, ProgramWordFails, Programming, TypeOK
  <2> QED
    BY <1>4, <2>1 DEF ProgramWord, ProgramWordFails, ProgramStep, session
<1>5. CASE VerifyPasses \/ VerifyFails
  BY <1>5 DEF VerifyPasses, VerifyFails, Programmed, session
<1>6. CASE Publish
  BY <1>6 DEF Publish, LeaveHandler, session
<1>10. CASE PublishDropped
  BY <1>10 DEF PublishDropped, LeaveHandler, session
<1>7. CASE TakeJumpRequest
  BY <1>7 DEF TakeJumpRequest, session
<1>8. CASE Restart
  BY <1>8 DEF Restart
<1>9. CASE UNCHANGED vars
  BY <1>9 DEF vars, VectorIsValid
<1> QED
  BY <1>1, <1>2, <1>3, <1>4, <1>5, <1>6, <1>7, <1>8, <1>9, <1>10 DEF Next, HandlerStep

LEMMA JumpInvariant == Spec => []JumpInv
BY TypeCorrect, JumpInvInit, JumpInvNext, PTL DEF Spec

\* A jump request does not outlive the erase of the image it was accepted
\* for.
THEOREM JumpRequestsDieWithErase == Spec => []JumpRequestDiesWithErase
<1>1. JumpInv => JumpRequestDiesWithErase
  BY DEF JumpInv
<1> QED
  BY <1>1, JumpInvariant, PTL

\* Only publishing the OK answer to a JUMP_TO_APP requests a jump.
THEOREM JumpsArmedByTheirAck == Spec => JumpArmedByItsAck
<1>1. ASSUME TypeOK, JumpInv, [Next]_vars
      PROVE  [~jump_requested /\ jump_requested' =>
                /\ response' = [cmd |-> "JUMP_TO_APP", result |-> "OK"]
                /\ JumpAcceptable]_vars
  <2> SUFFICES ASSUME ~jump_requested, jump_requested'
               PROVE  /\ response' = [cmd |-> "JUMP_TO_APP", result |-> "OK"]
                      /\ JumpAcceptable
    OBVIOUS
  <2>1. Publish
    BY <1>1
    DEF Next, HandlerStep, Dispatch, Handshake, Unsupported, EraseRejected, EraseDuplicate,
        EraseBegin, DownloadRejected, DownloadUnerased, DownloadUnaligned, DownloadBegin,
        JumpRejected, JumpAccepted, AnswerAtOnce, EraseSector, EraseSectorFails, EraseStep,
        EraseEnd, ProgramWord, ProgramWordFails, ProgramStep, VerifyPasses, VerifyFails,
        PublishDropped, LeaveHandler, TakeJumpRequest, Restart, vars
  <2>2. arm_jump_after_publish
    BY <2>1 DEF Publish
  <2> QED
    BY <1>1, <2>1, <2>2 DEF Publish, JumpInv
<1> QED
  BY <1>1, TypeCorrect, JumpInvariant, PTL DEF Spec, JumpArmedByItsAck

\* The device enters the application only with a valid vector in Flash.
THEOREM OnlyValidVectorsStart == Spec => OnlyValidVectorStarts
<1>1. ASSUME [Next]_vars
      PROVE  [pc' = "application" => VectorIsValid(flash)]_vars
  <2> SUFFICES ASSUME Next, pc' = "application" PROVE VectorIsValid(flash)
    BY <1>1
  <2>1. TakeJumpRequest \/ Restart
    BY DEF Next, HandlerStep, Dispatch, Handshake, Unsupported, EraseRejected, EraseDuplicate,
           EraseBegin, DownloadRejected, DownloadUnerased, DownloadUnaligned, DownloadBegin,
           JumpRejected, JumpAccepted, AnswerAtOnce, Begin, Answer, EraseSector, Erasing,
           EraseSectorFails, EraseEnd, ProgramWord, Programming, ProgramWordFails,
           VerifyPasses, VerifyFails, Publish, PublishDropped, LeaveHandler
  <2> QED
    BY <2>1 DEF TakeJumpRequest, Restart, StartUp
<1> QED
  BY <1>1, PTL DEF Spec, OnlyValidVectorStarts

-----------------------------------------------------------------------------
(* What an acknowledgement means.                                          *)

LEMMA DownloadAckInit == Init => DownloadAckMeansStored
<1> SUFFICES ASSUME Init PROVE pc # "publish"
  BY DEF DownloadAckMeansStored
<1> QED
  BY DEF Init, StartUp

LEMMA DownloadAckNext ==
    TypeOK /\ DownloadAckMeansStored /\ [Next]_vars => DownloadAckMeansStored'
<1> SUFFICES ASSUME TypeOK, DownloadAckMeansStored, [Next]_vars,
                    pc' = "publish", request'.cmd = "APP_DOWNLOAD", result' = "OK"
             PROVE  ReadsBack(flash', request'.addr, request'.data)
  BY DEF DownloadAckMeansStored
<1>1. CASE VerifyPasses
  BY <1>1 DEF VerifyPasses, ReadsBack
<1>2. CASE UNCHANGED vars
  BY <1>2 DEF vars, DownloadAckMeansStored, ReadsBack
<1>3. CASE EraseEnd
  BY <1>3 DEF EraseEnd, TypeOK
<1> QED
  BY <1>1, <1>2, <1>3
  DEF Next, HandlerStep, Dispatch, Handshake, Unsupported, EraseRejected, EraseDuplicate,
      EraseBegin, DownloadRejected, DownloadUnerased, DownloadUnaligned, DownloadBegin,
      JumpRejected, JumpAccepted, AnswerAtOnce, Begin, Answer, EraseSector, Erasing,
      EraseSectorFails, ProgramWord, Programming, ProgramWordFails,
      VerifyFails, Publish, PublishDropped, LeaveHandler, TakeJumpRequest, Restart, StartUp

\* A DOWNLOAD answered OK is in Flash, cell for cell.
THEOREM DownloadAcksMeanStored == Spec => []DownloadAckMeansStored
BY TypeCorrect, DownloadAckInit, DownloadAckNext, PTL DEF Spec

-----------------------------------------------------------------------------
(* Without Flash errors.  A session nothing was programmed in is blank; if *)
(* its first chunk is being programmed, the cells the loop is through with *)
(* hold the chunk and the others are blank, so the read-back comparison    *)
(* cannot fail and the chunk cannot end unacknowledged.                    *)

InChunk(a) == request.addr <= a /\ a < request.addr + Len(request.data)

FirstChunk ==
    \A a \in AppCells :
        flash[a] = IF InChunk(a) /\ a < request.addr + progress
                   THEN request.data[a - request.addr + 1]
                   ELSE Erased

SessionClean ==
    /\ pc = "program" => erase_completed
    /\ pc = "erase" => ~erase_completed
    /\ erase_completed /\ ~session_programmed =>
          IF pc = "program" THEN FirstChunk ELSE ApplicationBlank
    /\ EraseAckMeansBlank
    /\ pc = "publish" /\ request.cmd = "ERASE_FLASH" /\ result = "OK" =>
          erase_completed /\ ~session_programmed
    /\ JumpAckNeedsDownloadAck

LEMMA SessionCleanInit == Init => SessionClean
<1> SUFFICES ASSUME Init PROVE pc \in {"idle", "application"} /\ ~erase_completed
  BY DEF SessionClean, EraseAckMeansBlank, JumpAckNeedsDownloadAck
<1> QED
  BY DEF Init, StartUp

\* A blank application region has no valid vector.
LEMMA BlankVectorInvalid == ApplicationBlank => ~VectorIsValid(flash)
<1> SUFFICES ASSUME ApplicationBlank PROVE ~VectorIsValid(flash)
  OBVIOUS
<1>1. VECTOR_SIZE \in Nat /\ 1 <= VECTOR_SIZE /\ VECTOR_SIZE <= SECTOR_SIZE
  BY MemoryMapAssumption
<1>2. SECTOR_SIZE <= APP_FLASH_END - APP_FLASH_BASE
  <2>1. AppSectorCount # 0
    BY MemoryMapFacts
  <2>2. 1 * SECTOR_SIZE <= AppSectorCount * SECTOR_SIZE
    BY <2>1, MemoryMapFacts, SMTT(20)
  <2> QED
    BY <2>2, MemoryMapFacts
<1>3. VectorCells \subseteq AppCells
  BY <1>1, <1>2, MemoryMapFacts DEF VectorCells, AppCells, RangeContains, Address
<1>4. [a \in VectorCells |-> flash[a]] = [a \in VectorCells |-> Erased]
  BY <1>3 DEF ApplicationBlank
<1> QED
  BY <1>4, ServiceAssumption DEF VectorIsValid

\* Programming a word of the first chunk extends the part that is stored.
LEMMA FirstChunkGrows ==
    ASSUME TypeOK, FirstChunk, ProgramWord
    PROVE  FirstChunk'
<1>1. /\ pc = "program" /\ progress \in Nat /\ flash \in Image
      /\ request' = request /\ progress' = progress + PROGRAM_ALIGNMENT
  BY DEF ProgramWord, Programming, ProgramStep, TypeOK
<1>2. request \in Request
  BY <1>1, ServiceAssumption DEF TypeOK, NoRequest
<1>3. request.addr \in Nat /\ Len(request.data) \in Nat
      /\ \A i \in 1 .. Len(request.data) : request.data[i] \in Byte
  BY <1>2 DEF Request
<1> DEFINE cells == WordCells(request.addr, request.data, progress)
           word  == ProgrammedWord(flash, request.addr, request.data, progress)
<1>4. flash' = Overwrite(flash, word)
  BY DEF ProgramWord, ProgramStep
<1>5. /\ DOMAIN word = cells
      /\ \A a \in cells : /\ word[a] \in Byte
                          /\ a - request.addr + 1 \in 1 .. Len(request.data)
                          /\ word[a] = flash[a] \cap request.data[a - request.addr + 1]
  BY <1>1, <1>2, WordTypes
<1>6. \A a \in Address : flash'[a] = IF a \in cells THEN word[a] ELSE flash[a]
  <2> HIDE DEF word, cells
  <2> QED
    BY <1>1, <1>4, <1>5, OverwriteFacts
<1> SUFFICES ASSUME NEW a \in AppCells
             PROVE  flash'[a] = IF InChunk(a) /\ a < request.addr + (progress + PROGRAM_ALIGNMENT)
                                THEN request.data[a - request.addr + 1]
                                ELSE Erased
  BY <1>1 DEF FirstChunk, InChunk
<1>7. a \in Address /\ a \in Nat
  BY MemoryMapFacts DEF AppCells, Address
<1>8. a \in cells <=> /\ InChunk(a)
                      /\ a >= request.addr + progress
                      /\ a < request.addr + (progress + PROGRAM_ALIGNMENT)
  BY <1>1, <1>3, <1>7, MemoryMapFacts DEF WordCells, InChunk
<1>9. CASE a \in cells
  <2>1. flash[a] = Erased
    BY <1>1, <1>3, <1>7, <1>8, <1>9 DEF FirstChunk
  <2>2. request.data[a - request.addr + 1] \subseteq Erased
    BY <1>3, <1>5, <1>9 DEF Byte, Erased
  <2>3. flash'[a] = request.data[a - request.addr + 1]
    <3> HIDE DEF word, cells
    <3> QED
      BY <1>5, <1>6, <1>7, <1>9, <2>1, <2>2
  <2> QED
    BY <1>8, <1>9, <2>3
<1>10. CASE a \notin cells
  <2>1. flash'[a] = flash[a]
    BY <1>6, <1>7, <1>10
  <2> HIDE DEF word, cells
  <2>2. InChunk(a) /\ a < request.addr + (progress + PROGRAM_ALIGNMENT)
          <=> InChunk(a) /\ a < request.addr + progress
    BY <1>1, <1>3, <1>7, <1>8, <1>10, MemoryMapFacts
  <2> QED
    BY <2>1, <2>2 DEF FirstChunk
<1> QED
  BY <1>9, <1>10

\* With the whole first chunk stored, the comparison succeeds.
LEMMA FirstChunkReadsBack ==
    ASSUME TypeOK, FirstChunk, Programmed
    PROVE  ReadsBack(flash, request.addr, request.data)
<1>1. pc = "program" /\ progress \in Nat /\ progress >= Len(request.data) /\ Downloadable(request)
  BY DEF Programmed, TypeOK
<1>2. request \in Request
  BY <1>1, ServiceAssumption DEF TypeOK, NoRequest
<1>3. request.addr \in Nat /\ Len(request.data) \in Nat
  BY <1>2 DEF Request
<1> SUFFICES ASSUME NEW i \in 1 .. Len(request.data)
             PROVE  flash[request.addr + i - 1] = request.data[i]
  BY DEF ReadsBack
<1> DEFINE a == request.addr + i - 1
<1>4. a \in AppCells /\ InChunk(a) /\ a < request.addr + progress /\ a - request.addr + 1 = i
  <2>1. /\ request.addr >= APP_FLASH_BASE
        /\ request.addr + Len(request.data) <= APP_FLASH_END
    BY <1>1, <1>3, MemoryMapFacts DEF Downloadable
  <2>2. /\ a \in Nat /\ a >= APP_FLASH_BASE /\ a < APP_FLASH_END
        /\ request.addr <= a /\ a < request.addr + Len(request.data)
        /\ a < request.addr + progress
        /\ a - request.addr + 1 = i
    BY <1>1, <1>3, <2>1, MemoryMapFacts
  <2> HIDE DEF a
  <2> QED
    BY <2>2, MemoryMapFacts DEF AppCells, RangeContains, Address, InChunk
<1> QED
  BY <1>4 DEF FirstChunk

LEMMA SessionCleanNext ==
    ASSUME ~FlashFaults
    PROVE  TypeOK /\ ErasedSoFar /\ SessionClean /\ [Next]_vars => SessionClean'
<1> SUFFICES ASSUME TypeOK, ErasedSoFar, SessionClean, [Next]_vars PROVE SessionClean'
  OBVIOUS
<1> USE DEF SessionClean, EraseAckMeansBlank, JumpAckNeedsDownloadAck
<1>1. ASSUME NEW r \in Requests, Dispatch(r) PROVE SessionClean'
  <2>1. pc = "idle" /\ flash' = flash
    BY <1>1
    DEF Dispatch, Handshake, Unsupported, EraseRejected, EraseDuplicate, EraseBegin,
        DownloadRejected, DownloadUnerased, DownloadUnaligned, DownloadBegin, JumpRejected,
        JumpAccepted, AnswerAtOnce, Begin
  <2>2. ApplicationBlank' <=> ApplicationBlank
    BY <2>1 DEF ApplicationBlank
  <2>3. CASE EraseBegin(r)
    BY <2>3 DEF EraseBegin
  <2>4. CASE DownloadBegin(r)
    <3>1. ApplicationBlank => FirstChunk'
      <4> SUFFICES ASSUME ApplicationBlank, NEW a \in AppCells
                   PROVE  flash'[a] = IF InChunk(a)' /\ a < request'.addr + progress'
                                      THEN request'.data[a - request'.addr + 1]
                                      ELSE Erased
        BY DEF FirstChunk
      <4>1. request' = r /\ progress' = 0 /\ r.addr \in Nat /\ a \in Nat
        BY <2>4, ServiceAssumption, MemoryMapFacts
        DEF DownloadBegin, Begin, Request, AppCells, Address
      <4>2. ~(InChunk(a)' /\ a < request'.addr + progress')
        BY <4>1 DEF InChunk
      <4> QED
        BY <2>1, <4>2 DEF ApplicationBlank
    <3> QED
      BY <2>1, <2>4, <3>1 DEF DownloadBegin, session
  <2>5. CASE JumpAccepted(r)
    <3>1. erase_completed /\ session_programmed
      BY <2>1, <2>5, BlankVectorInvalid DEF JumpAccepted, JumpAcceptable
    <3> QED
      BY <2>5, <3>1 DEF JumpAccepted, AnswerAtOnce, Begin, Answer, session
  <2>6. CASE EraseDuplicate(r)
    BY <2>1, <2>2, <2>6 DEF EraseDuplicate, AnswerAtOnce, Begin, Answer, session
  <2> QED
    BY <1>1, <2>1, <2>2, <2>3, <2>4, <2>5, <2>6
    DEF Dispatch, Handshake, Unsupported, EraseRejected, DownloadRejected, DownloadUnerased,
        DownloadUnaligned, JumpRejected, AnswerAtOnce, Begin, Answer, session
<1>2. CASE EraseSector
  BY <1>2 DEF EraseSector, Erasing, EraseStep, session
<1>3. CASE EraseEnd
  <2>1. ApplicationBlank
    BY <1>3, LoopEndBlank DEF EraseEnd
  <2>2. ApplicationBlank'
    BY <1>3, <2>1 DEF EraseEnd, ApplicationBlank
  <2>3. pc' = "publish" /\ request'.cmd = "ERASE_FLASH" /\ erase_completed' /\ ~session_programmed'
    BY <1>3 DEF EraseEnd, Answer, TypeOK
  <2> QED
    BY <2>2, <2>3
<1>4. CASE ProgramWord
  <2>1. /\ pc = "program" /\ pc' = "program" /\ UNCHANGED <<erase_completed, session_programmed>>
    BY <1>4 DEF ProgramWord, Programming, ProgramStep, session
  <2> QED
    BY <1>4, <2>1, FirstChunkGrows
<1>5. CASE VerifyPasses
  <2>1. pc' = "publish" /\ session_programmed' /\ request'.cmd = "APP_DOWNLOAD"
    BY <1>5 DEF VerifyPasses, Programmed, Answer, TypeOK
  <2> QED
    BY <2>1
<1>6. CASE VerifyFails
  <2>1. /\ pc = "program" /\ pc' = "publish" /\ result' = "ERROR"
        /\ session_programmed' = session_programmed /\ erase_completed' = erase_completed
        /\ ~ReadsBack(flash, request.addr, request.data)
    BY <1>6 DEF VerifyFails, Programmed, Answer, session
  <2>2. session_programmed
    BY <1>6, <2>1, FirstChunkReadsBack DEF VerifyFails
  <2> QED
    BY <2>1, <2>2
<1>7. CASE Publish \/ PublishDropped
  <2>1. pc = "publish" /\ pc' = "idle" /\ UNCHANGED <<flash, erase_completed, session_programmed>>
    BY <1>7 DEF Publish, PublishDropped, LeaveHandler, session
  <2> QED
    BY <2>1 DEF ApplicationBlank
<1>8. CASE TakeJumpRequest
  <2>1. /\ pc = "idle" /\ pc' \in {"application", "fatal"}
        /\ UNCHANGED <<flash, erase_completed, session_programmed>>
    BY <1>8 DEF TakeJumpRequest, session
  <2> QED
    BY <2>1 DEF ApplicationBlank
<1>9. CASE Restart
  <2>1. pc' \in {"application", "idle"} /\ ~erase_completed'
    BY <1>9 DEF Restart, StartUp
  <2> QED
    BY <2>1
<1>10. CASE UNCHANGED vars
  BY <1>10 DEF vars, ApplicationBlank, FirstChunk, InChunk
<1>11. ~EraseSectorFails /\ ~ProgramWordFails
  BY DEF EraseSectorFails, ProgramWordFails
<1> QED
  BY <1>1, <1>2, <1>3, <1>4, <1>5, <1>6, <1>7, <1>8, <1>9, <1>10, <1>11 DEF Next, HandlerStep

\* Without Flash errors, an ERASE answered OK leaves the region blank, the
\* answer to a repeated ERASE included.
THEOREM EraseAcksMeanBlank ==
    ASSUME ~FlashFaults
    PROVE  Spec => []EraseAckMeansBlank
<1>1. TypeOK /\ ErasedSoFar /\ SessionClean /\ [Next]_vars => SessionClean'
  BY SessionCleanNext
<1>2. SessionClean => EraseAckMeansBlank
  BY DEF SessionClean
<1> QED
  BY <1>1, <1>2, EraseInvariant, SessionCleanInit, PTL DEF Spec

\* Without Flash errors, a JUMP_TO_APP is accepted only after a DOWNLOAD of
\* this session was answered OK.
THEOREM JumpAcksNeedDownloadAck ==
    ASSUME ~FlashFaults
    PROVE  Spec => []JumpAckNeedsDownloadAck
<1>1. TypeOK /\ ErasedSoFar /\ SessionClean /\ [Next]_vars => SessionClean'
  BY SessionCleanNext
<1>2. SessionClean => JumpAckNeedsDownloadAck
  BY DEF SessionClean
<1> QED
  BY <1>1, <1>2, EraseInvariant, SessionCleanInit, PTL DEF Spec

-----------------------------------------------------------------------------
(* The service implements UpdateSession: initial states map to initial     *)
(* states, and every step of the handler, of main() or of a reset maps to  *)
(* one action of the abstract specification or to a stutter.               *)

(* What the handler knows when it answers.                                 *)

\* The loops run on the right side of the session's opening, and an OK that
\* waits to be published means what UpdateSession says it means.
AnswerInv ==
    /\ pc = "erase" => ~erase_completed
    /\ pc = "program" => erase_completed
    /\ pc = "publish" /\ result = "OK" =>
          /\ request.cmd = "ERASE_FLASH" => erase_completed
          /\ request.cmd = "APP_DOWNLOAD" =>
                erase_completed /\ ReadsBack(flash, request.addr, request.data)
          /\ request.cmd = "JUMP_TO_APP" => JumpAcceptable /\ arm_jump_after_publish

LEMMA AnswerInvInit == Init => AnswerInv
<1> SUFFICES ASSUME Init PROVE pc \in {"idle", "application"}
  BY DEF AnswerInv
<1> QED
  BY DEF Init, StartUp

LEMMA AnswerInvNext == TypeOK /\ AnswerInv /\ [Next]_vars => AnswerInv'
<1> SUFFICES ASSUME TypeOK, AnswerInv, [Next]_vars PROVE AnswerInv'
  OBVIOUS
<1> USE DEF AnswerInv
<1>1. ASSUME NEW r \in Requests, Dispatch(r) PROVE AnswerInv'
  <2> USE DEF AnswerAtOnce, Begin, Answer, session
  <2>1. CASE Handshake(r)
    BY <2>1 DEF Handshake
  <2>2. CASE Unsupported(r)
    BY <2>2 DEF Unsupported
  <2>3. CASE EraseRejected(r) \/ EraseDuplicate(r) \/ EraseBegin(r)
    BY <2>3 DEF EraseRejected, EraseDuplicate, EraseBegin
  <2>4. CASE DownloadRejected(r) \/ DownloadUnerased(r) \/ DownloadUnaligned(r) \/ DownloadBegin(r)
    BY <2>4 DEF DownloadRejected, DownloadUnerased, DownloadUnaligned, DownloadBegin
  <2>5. CASE JumpRejected(r) \/ JumpAccepted(r)
    BY <2>5 DEF JumpRejected, JumpAccepted, JumpAcceptable, VectorIsValid
  <2> QED
    BY <1>1, <2>1, <2>2, <2>3, <2>4, <2>5 DEF Dispatch
<1>2. CASE EraseSector \/ EraseSectorFails
  BY <1>2 DEF EraseSector, EraseSectorFails, Erasing, EraseStep, Answer, session
<1>3. CASE EraseEnd
  BY <1>3 DEF EraseEnd, Answer, TypeOK
<1>4. CASE ProgramWord \/ ProgramWordFails
  BY <1>4 DEF ProgramWord, ProgramWordFails, Programming, ProgramStep, Answer, session
<1>5. CASE VerifyPasses
  BY <1>5 DEF VerifyPasses, Programmed, Answer, TypeOK, ReadsBack
<1>6. CASE VerifyFails
  BY <1>6 DEF VerifyFails, Answer
<1>7. CASE Publish \/ PublishDropped
  BY <1>7 DEF Publish, PublishDropped, LeaveHandler
<1>8. CASE TakeJumpRequest
  BY <1>8 DEF TakeJumpRequest
<1>9. CASE Restart
  BY <1>9 DEF Restart, StartUp
<1>10. CASE UNCHANGED vars
  BY <1>10 DEF vars, ReadsBack, JumpAcceptable, VectorIsValid
<1> QED
  BY <1>1, <1>2, <1>3, <1>4, <1>5, <1>6, <1>7, <1>8, <1>9, <1>10 DEF Next, HandlerStep

\* Everything the mapping of a step needs to know of the state it leaves.
SessionInv == TypeOK /\ ErasedSoFar /\ JumpInv /\ AnswerInv

LEMMA SessionInvariant == Spec => []SessionInv
<1>1. SessionInv <=> TypeOK /\ ErasedSoFar /\ JumpInv /\ AnswerInv
  BY DEF SessionInv
<1> QED
  BY <1>1, EraseInvariant, JumpInvariant, AnswerInvInit, AnswerInvNext, PTL DEF Spec

-----------------------------------------------------------------------------
(* The mapping, step by step.                                              *)

\* Both specifications speak of the same cells and the same comparison.
LEMMA SameMap ==
    /\ Session!Address = Address
    /\ Session!AppCells = AppCells
    /\ Session!VectorCells = VectorCells
    /\ Session!Erased = Erased
    /\ Session!Image = Image
BY DEF Session!Address, Address, Session!AppCells, AppCells, Session!RangeContains, RangeContains,
       Session!VectorCells, VectorCells, Session!Erased, Erased, Session!Image, Image,
       Session!Byte, Byte

LEMMA SameComparison ==
    ASSUME NEW mem, NEW address, NEW data
    PROVE  Session!ReadsBack(mem, address, data) <=> ReadsBack(mem, address, data)
BY DEF Session!ReadsBack, ReadsBack

LEMMA SameVector ==
    ASSUME NEW mem
    PROVE  Session!Valid(mem) <=> VectorIsValid(mem)
BY SameMap DEF Session!Valid, VectorIsValid

\* A step that programs touches the chunk of its request only.
LEMMA ProgramsItsChunk ==
    ASSUME TypeOK, ProgramWord \/ ProgramWordFails
    PROVE  \A a \in Address \ Session!Chunk(request) : flash'[a] = flash[a]
<1>1. pc = "program" /\ progress \in Nat /\ flash \in Image
  BY DEF ProgramWord, ProgramWordFails, Programming, TypeOK
<1>2. request \in Request /\ Downloadable(request)
  BY <1>1, ServiceAssumption DEF TypeOK, NoRequest
<1> DEFINE cells == WordCells(request.addr, request.data, progress)
<1>3. cells \subseteq Session!Chunk(request)
  <2>1. cells \subseteq AppCells
    BY <1>1, <1>2, WordInApplication
  <2>2. \A a \in cells : a >= request.addr /\ a < request.addr + Len(request.data)
    BY <1>1, <1>2, MemoryMapFacts DEF WordCells, Address, Request
  <2> QED
    BY <2>1, <2>2, SameMap DEF Session!Chunk
<1>4. PICK part : /\ flash' = Overwrite(flash, part)
                  /\ DOMAIN part = cells
                  /\ \A a \in cells : part[a] \in Byte
  <2> DEFINE word == ProgrammedWord(flash, request.addr, request.data, progress)
             half == HalfProgrammedWord(flash, request.addr, request.data, progress)
  <2>1. /\ DOMAIN word = cells /\ \A a \in cells : word[a] \in Byte
        /\ \A part \in half : DOMAIN part = cells /\ \A a \in cells : part[a] \in Byte
    BY <1>1, <1>2, WordTypes
  <2>2. flash' = Overwrite(flash, word) \/ \E part \in half : flash' = Overwrite(flash, part)
    BY DEF ProgramWord, ProgramWordFails, ProgramStep
  <2> HIDE DEF word, half, cells
  <2> QED
    BY <2>1, <2>2
<1> HIDE DEF cells
<1> QED
  BY <1>1, <1>3, <1>4, OverwriteFacts

\* A device starts up as UpdateSession says.
LEMMA SessionInit == Init => Session!Init
<1> SUFFICES ASSUME Init PROVE Session!Init
  OBVIOUS
<1>1. flash \in Image /\ pc \in {"idle", "application"} /\ (pc = "application" => VectorIsValid(flash))
  BY ServiceAssumption DEF Init, StartUp
<1>2. SessionMode = pc
  BY <1>1 DEF SessionMode
<1>3. flash \in Session!Image /\ (pc = "application" => Session!Valid(flash))
  BY <1>1, SameMap, SameVector
<1> QED
  BY <1>1, <1>2, <1>3 DEF Init, Session!Init, Session!None, NoRequest, NoResponse

\* A frame that is dispatched is taken, or ignored altogether.
LEMMA DispatchTakes ==
    ASSUME NEW r \in Requests, Dispatch(r)
    PROVE  Session!Take(r) \/ UNCHANGED Session!vars
<1> USE DEF AnswerAtOnce, Begin, Answer, session, SessionMode
<1>1. CASE Unsupported(r)
  BY <1>1 DEF Unsupported, Session!vars
<1>2. CASE EraseBegin(r)
  BY <1>2 DEF EraseBegin, Session!Take
<1>3. CASE DownloadBegin(r)
  BY <1>3 DEF DownloadBegin, Session!Take
<1>4. CASE Handshake(r)
  BY <1>4 DEF Handshake, Session!Take
<1>5. CASE EraseRejected(r) \/ EraseDuplicate(r)
  BY <1>5 DEF EraseRejected, EraseDuplicate, Session!Take
<1>6. CASE DownloadRejected(r) \/ DownloadUnerased(r) \/ DownloadUnaligned(r)
  BY <1>6 DEF DownloadRejected, DownloadUnerased, DownloadUnaligned, Session!Take
<1>7. CASE JumpRejected(r) \/ JumpAccepted(r)
  BY <1>7 DEF JumpRejected, JumpAccepted, Session!Take
<1> QED
  BY <1>1, <1>2, <1>3, <1>4, <1>5, <1>6, <1>7 DEF Dispatch

\* An erasure is unseen work of an ERASE, and the end of the loop opens the
\* session.
LEMMA EraseImplements ==
    ASSUME SessionInv, TypeOK', EraseSector \/ EraseSectorFails
    PROVE  Session!Erase
<1>1. /\ pc = "erase" /\ request.cmd = "ERASE_FLASH" /\ ~erase_completed
      /\ pc' \in {"erase", "publish"}
  BY DEF SessionInv, AnswerInv, EraseSector, EraseSectorFails, Erasing, Answer, TypeOK
<1>2. SessionMode = "busy" /\ SessionMode' = "busy"
  BY <1>1 DEF SessionMode
<1>3. \A a \in Address \ AppCells : flash'[a] = flash[a]
  BY EraseEffect, LoopSector DEF SessionInv
<1>4. UNCHANGED <<erase_completed, jump_requested, request, response>>
  BY DEF EraseSector, EraseSectorFails, EraseStep, session
<1>5. flash' \in Image
  BY DEF TypeOK
<1> QED
  BY <1>1, <1>2, <1>3, <1>4, <1>5, SameMap DEF Session!Erase

LEMMA EraseEndOpens ==
    ASSUME SessionInv, EraseEnd
    PROVE  Session!Open
<1>1. pc = "erase" /\ request.cmd = "ERASE_FLASH" /\ ~erase_completed /\ pc' = "publish"
  BY DEF SessionInv, AnswerInv, EraseEnd, Answer, TypeOK
<1>2. SessionMode = "busy" /\ SessionMode' = "busy"
  BY <1>1 DEF SessionMode
<1>3. Session!Blank(flash)
  BY LoopEndBlank, SameMap DEF SessionInv, EraseEnd, ApplicationBlank, Session!Blank
<1> QED
  BY <1>1, <1>2, <1>3 DEF EraseEnd, Session!Open

\* Programming is unseen work of a DOWNLOAD in an open session.
LEMMA ProgramImplements ==
    ASSUME SessionInv, TypeOK', ProgramWord \/ ProgramWordFails
    PROVE  Session!Program
<1>1. /\ pc = "program" /\ request.cmd = "APP_DOWNLOAD" /\ erase_completed
      /\ pc' \in {"program", "publish"}
  BY DEF SessionInv, AnswerInv, ProgramWord, ProgramWordFails, Programming, Answer, TypeOK
<1>2. SessionMode = "busy" /\ SessionMode' = "busy"
  BY <1>1 DEF SessionMode
<1>3. \A a \in Address : flash'[a] \subseteq flash[a]
  BY ProgramEffect DEF SessionInv
<1>4. \A a \in Address \ Session!Chunk(request) : flash'[a] = flash[a]
  BY ProgramsItsChunk DEF SessionInv
<1>5. UNCHANGED <<erase_completed, jump_requested, request, response>>
  BY DEF ProgramWord, ProgramWordFails, ProgramStep, session
<1>6. flash' \in Image
  BY DEF TypeOK
<1> QED
  BY <1>1, <1>2, <1>3, <1>4, <1>5, <1>6, SameMap DEF Session!Program

\* The comparison is not visible from outside.
LEMMA VerifyStutters ==
    ASSUME VerifyPasses \/ VerifyFails
    PROVE  UNCHANGED Session!vars
<1>1. pc = "program" /\ pc' = "publish"
  BY DEF VerifyPasses, VerifyFails, Programmed, Answer
<1>2. SessionMode = "busy" /\ SessionMode' = "busy"
  BY <1>1 DEF SessionMode
<1> QED
  BY <1>2 DEF VerifyPasses, VerifyFails, session, Session!vars

\* An answer that is published means what UpdateSession says it means.
LEMMA PublishImplements ==
    ASSUME SessionInv, Publish
    PROVE  \E res \in {"OK", "ERROR", "ADDR_ERROR"} : Session!Publish(res)
<1>1. pc = "publish" /\ pc' = "idle" /\ request' = NoRequest
  BY DEF Publish, LeaveHandler
<1>2. SessionMode = "busy" /\ SessionMode' = "idle"
  BY <1>1 DEF SessionMode
<1>3. result \in {"OK", "ERROR", "ADDR_ERROR"}
  BY DEF SessionInv, TypeOK, PACKET_ACK
<1>4. result = "OK" => Session!Means(request)
  BY <1>1, SameVector, SameComparison DEF SessionInv, AnswerInv, JumpAcceptable, Session!Means
<1>5. arm_jump_after_publish <=> request.cmd = "JUMP_TO_APP" /\ result = "OK"
  BY <1>1 DEF SessionInv, AnswerInv, JumpInv
<1>6. arm_jump_after_publish \in BOOLEAN
  BY DEF SessionInv, TypeOK
<1>7. jump_requested' = (jump_requested \/ (request.cmd = "JUMP_TO_APP" /\ result = "OK"))
  <2>1. jump_requested' = (jump_requested \/ arm_jump_after_publish)
    BY DEF Publish
  <2> QED
    BY <1>5, <2>1, Zenon
<1>8. /\ UNCHANGED <<flash, erase_completed>>
      /\ response' = [cmd |-> request.cmd, result |-> result]
  BY DEF Publish, LeaveHandler, session
<1>9. Session!Publish(result)
  BY <1>1, <1>2, <1>4, <1>7, <1>8 DEF Session!Publish, Session!None, NoRequest
<1> QED
  BY <1>3, <1>9

\* An answer that is dropped promises nothing.
LEMMA DropImplements ==
    ASSUME PublishDropped
    PROVE  Session!Drop
<1>1. pc = "publish" /\ pc' = "idle"
  BY DEF PublishDropped, LeaveHandler
<1>2. SessionMode = "busy" /\ SessionMode' = "idle"
  BY <1>1 DEF SessionMode
<1> QED
  BY <1>2
     DEF PublishDropped, LeaveHandler, session, NoRequest, NoResponse, Session!None, Session!Drop

\* The jump is taken once, into a valid application or nowhere.
LEMMA JumpImplements ==
    ASSUME SessionInv, TakeJumpRequest
    PROVE  Session!Jump
<1>1. pc = "idle" /\ SessionMode = "idle"
  BY DEF TakeJumpRequest, SessionMode
<1>2. SessionMode' = IF VectorIsValid(flash) THEN "application" ELSE "stopped"
  BY DEF TakeJumpRequest, SessionMode
<1> QED
  BY <1>1, <1>2, SameVector DEF TakeJumpRequest, session, Session!Jump

\* A reset loses everything but the Flash.
LEMMA RestartImplements ==
    ASSUME Restart
    PROVE  Session!Reset
<1>1. pc' \in {"idle", "application"} /\ (pc' = "application" => VectorIsValid(flash))
  BY DEF Restart, StartUp
<1>2. SessionMode' = pc'
  BY <1>1 DEF SessionMode
<1> QED
  BY <1>1, <1>2, SameVector
  DEF Restart, NoRequest, NoResponse, Session!None, Session!Start, Session!Reset

LEMMA StepImplements ==
    ASSUME SessionInv, [Next]_vars
    PROVE  [Session!Next]_(Session!vars)
<1>0. TypeOK'
  BY TypeNext DEF SessionInv
<1> USE DEF Session!Next
<1>1. CASE \E r \in Requests : Dispatch(r)
  BY <1>1, DispatchTakes
<1>2. CASE EraseSector \/ EraseSectorFails
  BY <1>0, <1>2, EraseImplements
<1>3. CASE EraseEnd
  BY <1>3, EraseEndOpens
<1>4. CASE ProgramWord \/ ProgramWordFails
  BY <1>0, <1>4, ProgramImplements
<1>5. CASE VerifyPasses \/ VerifyFails
  BY <1>5, VerifyStutters
<1>6. CASE Publish
  BY <1>6, PublishImplements
<1>7. CASE PublishDropped
  BY <1>7, DropImplements
<1>8. CASE TakeJumpRequest
  BY <1>8, JumpImplements
<1>9. CASE Restart
  BY <1>9, RestartImplements
<1>10. CASE UNCHANGED vars
  BY <1>10 DEF vars, SessionMode, Session!vars
<1> QED
  BY <1>1, <1>2, <1>3, <1>4, <1>5, <1>6, <1>7, <1>8, <1>9, <1>10 DEF Next, HandlerStep

\* The update service, with everything it does sector by sector and word by
\* word, with every Flash error, dropped answer and reset, implements
\* UpdateSession.
THEOREM SessionImplemented == Spec => ImplementsSession
BY SessionInvariant, SessionInit, StepImplements, PTL DEF Spec, ImplementsSession, Session!Spec
=============================================================================
