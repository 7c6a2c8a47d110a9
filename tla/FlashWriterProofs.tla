-------------------------- MODULE FlashWriterProofs --------------------------
(***************************************************************************)
(* Theorems about the two programs that command the Flash controller: the  *)
(* driver, for calls of any number of operations, and the RAM loader, for  *)
(* images and partitions of any size.                                      *)
(***************************************************************************)
EXTENDS EfmDriver, RamFlashLoader, TLAPS

-----------------------------------------------------------------------------
(* The driver.                                                             *)

USE DEF MayStart, FlagsAtStart, EndFlag, Waited, CacheRestored

\* A call that has not been refused works on a controller that is ready, and
\* counts: what the controller has ended well and what is left to command
\* make up the call.
CallInv ==
    /\ pc \in {"begin", "prepare", "command", "wait", "restore", "end"} => call.mode # "READONLY"
    /\ pc = "read" => call.mode = "READONLY"
    /\ pc = "end" => mode = "READONLY" /\ cache = saved
    /\ pc \in {"begin", "prepare"} => ready /\ stored = 0 /\ left = call.operations
    /\ pc \in {"begin", "prepare", "command", "wait"} => left >= 1
    /\ pc = "command" => ready /\ ~optend /\ stored + left = call.operations
    /\ pc = "wait" /\ ~ready => ~optend /\ stored + left = call.operations
    /\ pc = "wait" /\ ready /\ optend => stored + left = call.operations + 1
    /\ pc \in {"restore", "end", "idle"} /\ ret = "LL_OK" =>
          ready /\ (call.mode # "READONLY" => stored = call.operations)

LEMMA CallTypes ==
    ASSUME NEW c \in Calls
    PROVE  /\ c.mode \in Modes
           /\ c.operations \in Nat
           /\ c.mode # "READONLY" => c.operations >= 1
BY EfmAssumption DEF Calls, Modes

LEMMA EfmInitially == EfmInit => EfmTypeOK /\ CallInv
<1> SUFFICES ASSUME EfmInit PROVE EfmTypeOK /\ CallInv
  OBVIOUS
<1>1. call \in Calls
  BY DEF EfmInit, Calls
<1>2. EfmTypeOK
  BY <1>1 DEF EfmInit, EfmTypeOK, Modes
<1>3. CallInv
  BY DEF EfmInit, CallInv
<1> QED
  BY <1>2, <1>3

LEMMA EfmPreserved == EfmTypeOK /\ CallInv /\ [EfmNext]_efm_vars => EfmTypeOK' /\ CallInv'
<1> SUFFICES ASSUME EfmTypeOK, CallInv, [EfmNext]_efm_vars PROVE EfmTypeOK' /\ CallInv'
  OBVIOUS
<1>0. call.mode \in Modes /\ call.operations \in Nat
  BY CallTypes DEF EfmTypeOK
<1> USE <1>0 DEF EfmTypeOK, CallInv, efm
<1>1. CASE OperationEnds
  <2>1. EfmTypeOK'
    <3>1. \/ optend' = TRUE /\ stored' = stored + 1
          \/ optend' = optend /\ stored' = stored
      BY <1>1 DEF OperationEnds
    <3>2. stored' \in Nat
      BY <3>1
    <3>3. optend' \in BOOLEAN
      BY <3>1, Zenon
    <3> QED
      BY <1>1, <3>2, <3>3 DEF OperationEnds
  <2>2. CallInv'
    BY <1>1 DEF OperationEnds
  <2> QED
    BY <2>1, <2>2
<1>2. ASSUME NEW c \in Calls, Refuse(c) PROVE EfmTypeOK' /\ CallInv'
  <2>1. EfmTypeOK'
    BY <1>2, CallTypes DEF Refuse, Enter, Return
  <2>2. CallInv'
    BY <1>2, CallTypes DEF Refuse, Enter, Return
  <2> QED
    BY <2>1, <2>2
<1>3. ASSUME NEW c \in Calls, Start(c) PROVE EfmTypeOK' /\ CallInv'
  <2>1. EfmTypeOK'
    BY <1>3, CallTypes DEF Start, Enter
  <2>2. CallInv'
    BY <1>3, CallTypes DEF Start, Enter
  <2> QED
    BY <2>1, <2>2
<1>4. ASSUME NEW c \in Calls, StartRead(c) PROVE EfmTypeOK' /\ CallInv'
  <2>1. EfmTypeOK'
    BY <1>4, CallTypes DEF StartRead, Enter
  <2>2. CallInv'
    BY <1>4, CallTypes DEF StartRead, Enter
  <2> QED
    BY <2>1, <2>2
<1>5. CASE bsp_flash_begin_operation
  <2>1. EfmTypeOK'
    BY <1>5 DEF bsp_flash_begin_operation
  <2>2. CallInv'
    BY <1>5 DEF bsp_flash_begin_operation
  <2> QED
    BY <2>1, <2>2
<1>6. CASE Prepare
  <2>1. EfmTypeOK'
    BY <1>6 DEF Prepare
  <2>2. CallInv'
    BY <1>6 DEF Prepare
  <2> QED
    BY <2>1, <2>2
<1>7. CASE Command
  <2>1. EfmTypeOK'
    BY <1>7 DEF Command
  <2>2. CallInv'
    BY <1>7 DEF Command
  <2> QED
    BY <2>1, <2>2
<1>8. CASE EndsWell
  <2>1. EfmTypeOK'
    <3>1. left' \in Nat /\ pc' \in {"command", "restore"}
      BY <1>8 DEF EndsWell
    <3> QED
      BY <1>8, <3>1 DEF EndsWell
  <2>2. CallInv'
    BY <1>8 DEF EndsWell
  <2> QED
    BY <2>1, <2>2
<1>9. CASE EndsBadly
  <2>1. EfmTypeOK'
    BY <1>9 DEF EndsBadly
  <2>2. CallInv'
    BY <1>9 DEF EndsBadly
  <2> QED
    BY <2>1, <2>2
<1>10. CASE TimesOut
  <2>1. EfmTypeOK'
    BY <1>10 DEF TimesOut
  <2>2. CallInv'
    BY <1>10 DEF TimesOut
  <2> QED
    BY <2>1, <2>2
<1>11. CASE Restore
  <2>1. EfmTypeOK'
    BY <1>11 DEF Restore, Modes
  <2>2. CallInv'
    BY <1>11 DEF Restore, Modes
  <2> QED
    BY <2>1, <2>2
<1>12. CASE bsp_flash_end_operation
  <2>1. EfmTypeOK'
    BY <1>12 DEF bsp_flash_end_operation
  <2>2. CallInv'
    BY <1>12 DEF bsp_flash_end_operation
  <2> QED
    BY <2>1, <2>2
<1>13. CASE FinishRead
  <2>1. EfmTypeOK'
    BY <1>13 DEF FinishRead, Return
  <2>2. CallInv'
    BY <1>13 DEF FinishRead, Return
  <2> QED
    BY <2>1, <2>2
<1>14. CASE UNCHANGED efm_vars
  <2>1. EfmTypeOK'
    BY <1>14 DEF efm_vars
  <2>2. CallInv'
    BY <1>14 DEF efm_vars
  <2> QED
    BY <2>1, <2>2
<1> QED
  BY <1>1, <1>2, <1>3, <1>4, <1>5, <1>6, <1>7, <1>8, <1>9, <1>10, <1>11, <1>12, <1>13, <1>14
  DEF EfmNext, DriverStep

LEMMA EfmInvariant == EfmSpec => [](EfmTypeOK /\ CallInv)
BY EfmInitially, EfmPreserved, PTL DEF EfmSpec

\* The driver keeps its types, and between two calls the controller is
\* read-only, locked, released and cached as before.
THEOREM EfmTypeCorrect == EfmSpec => []EfmTypeOK
BY EfmInvariant, PTL

\* A writing call that returns LL_OK has had each of its operations ended
\* well, for any number of them, and leaves the controller ready.
THEOREM OkMeansStoredAlways == EfmSpec => []OkMeansStored
<1>1. CallInv => OkMeansStored
  BY DEF CallInv, OkMeansStored
<1> QED
  BY <1>1, EfmInvariant, PTL

\* No call ever commands a controller that is busy.
THEOREM NeverCommandsABusyController == EfmSpec => NoCommandWhileBusy
<1>1. CallInv => [pc = "command" /\ pc' = "wait" => ready]_efm_vars
  BY DEF CallInv
<1> QED
  BY <1>1, EfmInvariant, PTL DEF NoCommandWhileBusy

-----------------------------------------------------------------------------
(* The loader.                                                             *)

\* IMAGE_LENGTH is the length of the image that was loaded.
LEMMA ImageLength ==
    ASSUME NEW n \in 1 .. BootWords, image \in [0 .. n - 1 -> Values]
    PROVE  IMAGE_LENGTH = n
<1>1. DOMAIN image = 0 .. n - 1
  OBVIOUS
<1>2. ASSUME NEW m \in 1 .. BootWords, DOMAIN image = 0 .. m - 1 PROVE m = n
  <2>1. m \in Nat /\ n \in Nat /\ m >= 1 /\ n >= 1
    BY LoaderAssumption
  <2>2. n - 1 \in 0 .. m - 1 /\ m - 1 \in 0 .. n - 1
    BY <1>1, <1>2, <2>1
  <2> QED
    BY <2>1, <2>2
<1> QED
  BY <1>1, <1>2 DEF IMAGE_LENGTH

\* What was compared is equal, nothing writes after the comparison, and the
\* erase goes through the sectors one by one.
LoaderInv ==
    /\ \E n \in 1 .. BootWords : image \in [0 .. n - 1 -> Values]
    /\ at \in Nat
    /\ loader_pc \in {"unlock", "erase", "program", "verify", "restore", "done"}
    /\ loader_pc \in {"unlock", "erase"} => at % SectorWords = 0
    /\ loader_pc = "verify" => \A w \in DOMAIN image : w < at => flash[w] = image[w]
    /\ stage = LOADER_SUCCESS =>
          loader_pc \in {"restore", "done"} /\ \A w \in DOMAIN image : flash[w] = image[w]

\* Division with remainder, and multiples by their factors.
LEMMA DivMod ==
    ASSUME NEW a \in Nat, NEW b \in Nat, b > 0
    PROVE  a = (a \div b) * b + (a % b) /\ a % b \in 0 .. b - 1 /\ a \div b \in Nat
BY SMTT(20)

LEMMA FactorsCompare ==
    ASSUME NEW p \in Nat, NEW q \in Nat, NEW b \in Nat, b > 0, p * b < q * b
    PROVE  p < q /\ (p + 1) * b <= q * b
<1>1. p < q
  BY SMTT(20)
<1>2. q - p - 1 \in Nat
  BY <1>1
<1>3. (q - p - 1) * b \in Nat
  BY <1>2, SMTT(20)
<1>4. q * b = (p + 1) * b + (q - p - 1) * b
  BY SMTT(20)
<1>5. (p + 1) * b \in Nat /\ q * b \in Nat
  BY SMTT(20)
<1> QED
  BY <1>1, <1>3, <1>4, <1>5

\* A multiple of the sector's length stays one when the sector is added.
LEMMA NextMultiple ==
    ASSUME NEW a \in Nat, NEW b \in Nat, b > 0, a % b = 0
    PROVE  (a + b) % b = 0
<1> DEFINE p == a \div b
           q == (a + b) \div b
           r == (a + b) % b
<1>1. a = p * b /\ p \in Nat
  BY DivMod
<1>2. a + b = q * b + r /\ r \in 0 .. b - 1 /\ q \in Nat
  BY DivMod
<1> HIDE DEF p, q, r
<1>3. (p + 1) * b = q * b + r
  BY <1>1, <1>2
<1>4. ASSUME r > 0 PROVE FALSE
  <2>1. q * b < (p + 1) * b
    BY <1>1, <1>2, <1>3, <1>4, SMTT(20)
  <2>2. (q + 1) * b <= (p + 1) * b
    BY <1>1, <1>2, <2>1, FactorsCompare
  <2> QED
    BY <1>1, <1>2, <1>3, <2>2, SMTT(20)
<1>5. r = 0
  BY <1>2, <1>4
<1> QED
  BY <1>5 DEF r

LEMMA LoaderInitially == LoaderInit => LoaderInv
<1> SUFFICES ASSUME LoaderInit PROVE LoaderInv
  OBVIOUS
<1>1. 0 % SectorWords = 0
  BY LoaderAssumption, DivMod, SMTT(20)
<1> QED
  BY <1>1 DEF LoaderInit, LoaderInv, LOADER_SUCCESS

LEMMA LoaderPreserved == LoaderInv /\ [LoaderNext]_loader_vars => LoaderInv'
<1> SUFFICES ASSUME LoaderInv, [LoaderNext]_loader_vars PROVE LoaderInv'
  OBVIOUS
<1>0. 0 % SectorWords = 0
  BY LoaderAssumption, DivMod, SMTT(20)
<1> USE DEF LoaderInv, LOADER_SUCCESS
<1>1. CASE StartLoader
  BY <1>0, <1>1 DEF StartLoader
<1>2. CASE Unlock \/ UnlockFails
  BY <1>2 DEF Unlock, UnlockFails, Goto
<1>3. CASE EraseSector
  <2>1. at + SectorWords \in Nat /\ (at + SectorWords) % SectorWords = 0
    <3>1. at \in Nat /\ at % SectorWords = 0 /\ SectorWords \in Nat /\ SectorWords > 0
      BY <1>3, LoaderAssumption DEF EraseSector
    <3>2. at + SectorWords \in Nat
      BY <3>1
    <3>3. (at + SectorWords) % SectorWords = 0
      BY <3>1, NextMultiple, Zenon
    <3> QED
      BY <3>2, <3>3
  <2> QED
    BY <1>3, <2>1 DEF EraseSector, Operation
<1>4. CASE EraseEnds \/ ProgramEnds
  BY <1>4 DEF EraseEnds, ProgramEnds, NextStage, Goto
<1>5. CASE ProgramWord
  BY <1>5 DEF ProgramWord, Operation
<1>6. CASE CompareWord
  <2>1. PICK n \in 1 .. BootWords : image \in [0 .. n - 1 -> Values]
    OBVIOUS
  <2>2. IMAGE_LENGTH = n /\ DOMAIN image = 0 .. n - 1 /\ n \in Nat
    BY <2>1, ImageLength, LoaderAssumption
  <2>3. \A w \in DOMAIN image : w < at' => w < at \/ (w = at /\ at' = at + 1)
    BY <1>6, <2>2 DEF CompareWord
  <2> QED
    BY <1>6, <2>3 DEF CompareWord
<1>7. CASE VerifyEnds
  <2>1. PICK n \in 1 .. BootWords : image \in [0 .. n - 1 -> Values]
    OBVIOUS
  <2>2. IMAGE_LENGTH = n /\ DOMAIN image = 0 .. n - 1 /\ n \in Nat
    BY <2>1, ImageLength, LoaderAssumption
  <2>3. \A w \in DOMAIN image : w < at
    BY <1>7, <2>2 DEF VerifyEnds, Compared
  <2> QED
    BY <1>7, <2>3 DEF VerifyEnds, NextStage, Goto
<1>8. CASE LockFlash
  BY <1>8 DEF LockFlash, Goto
<1>9. CASE UNCHANGED loader_vars
  BY <1>9 DEF loader_vars
<1> QED
  BY <1>1, <1>2, <1>3, <1>4, <1>5, <1>6, <1>7, <1>8, <1>9 DEF LoaderNext

LEMMA LoaderInvariant == LoaderSpec => []LoaderInv
BY LoaderInitially, LoaderPreserved, PTL DEF LoaderSpec

\* For every image, partition and sector length, a report of LOADER_SUCCESS
\* means that the image is in Flash, whatever the controller did and however
\* often the loader was started.
THEOREM SuccessMeansImageAlways == LoaderSpec => []SuccessMeansImage
<1>1. LoaderInv => SuccessMeansImage
  BY DEF LoaderInv, SuccessMeansImage
<1> QED
  BY <1>1, LoaderInvariant, PTL

\* The sectors that are erased lie in the Boot partition: the end of the last
\* one does, because the partition is whole sectors.
LEMMA SectorInPartition ==
    ASSUME NEW n \in 1 .. BootWords, image \in [0 .. n - 1 -> Values],
           at \in Nat, at % SectorWords = 0, at < IMAGE_ERASE_LENGTH,
           NEW w \in Sector(at)
    PROVE  w < BootWords
<1> DEFINE S == SectorWords
           p == at \div S
           k == BootWords \div S
           e == (n + S - 1) \div S
<1>1. S \in Nat /\ S > 0 /\ n \in Nat /\ n <= BootWords /\ BootWords \in Nat /\ n + S - 1 \in Nat
  BY LoaderAssumption
<1>2. w \in Nat /\ w \div S = p
  BY LoaderAssumption DEF Sector, FlashCells
<1>3. at = p * S /\ p \in Nat
  BY <1>1, DivMod
<1>4. BootWords = k * S /\ k \in Nat
  BY <1>1, DivMod, LoaderAssumption
<1>5. n + S - 1 = e * S + ((n + S - 1) % S) /\ (n + S - 1) % S \in Nat /\ e \in Nat
  BY <1>1, DivMod
<1>6. w = p * S + (w % S) /\ w % S \in 0 .. S - 1
  BY <1>1, <1>2, DivMod
<1>7. IMAGE_ERASE_LENGTH = e * S
  BY ImageLength DEF IMAGE_ERASE_LENGTH
<1> HIDE DEF S, p, k, e
<1>8. p < e
  BY <1>1, <1>3, <1>5, <1>7, FactorsCompare
<1>9. e * S < (k + 1) * S
  <2>1. e * S <= n + S - 1 /\ n <= k * S
    BY <1>1, <1>4, <1>5, SMTT(20)
  <2>2. (k + 1) * S = k * S + S /\ k * S \in Nat /\ e * S \in Nat
    BY <1>1, <1>4, <1>5, SMTT(20)
  <2> QED
    BY <1>1, <2>1, <2>2
<1>10. p < k
  BY <1>1, <1>4, <1>5, <1>3, <1>8, <1>9, FactorsCompare
<1>11. p * S < k * S
  BY <1>1, <1>3, <1>4, <1>10, SMTT(20)
<1>12. (p + 1) * S <= k * S
  BY <1>1, <1>3, <1>4, <1>11, FactorsCompare
<1>13. (p + 1) * S = p * S + S /\ p * S \in Nat
  BY <1>1, <1>3, SMTT(20)
<1> QED
  BY <1>1, <1>4, <1>6, <1>12, <1>13

\* The loader changes words of the Boot partition only: the application behind
\* it survives, also when the image does not end with a sector.
OnlyBootChanges ==
    [][\A w \in FlashCells : flash'[w] # flash[w] => w < BootWords]_loader_vars

THEOREM ApplicationSurvivesLoader == LoaderSpec => OnlyBootChanges
<1> DEFINE A == \A w \in FlashCells : flash'[w] # flash[w] => w < BootWords
<1>1. ASSUME LoaderInv, LoaderNext PROVE A
  <2>1. PICK n \in 1 .. BootWords : image \in [0 .. n - 1 -> Values]
    BY <1>1 DEF LoaderInv
  <2>2. CASE EraseSector
    BY <1>1, <2>1, <2>2, SectorInPartition DEF EraseSector, Operation, LoaderInv
  <2>3. CASE ProgramWord
    <3>1. at < BootWords
      BY <1>1, <2>1, <2>3, ImageLength, LoaderAssumption DEF ProgramWord, LoaderInv
    <3> QED
      BY <2>3, <3>1 DEF ProgramWord, Operation
  <2>4. CASE ~EraseSector /\ ~ProgramWord
    BY <1>1, <2>4 DEF LoaderNext, StartLoader, Unlock, UnlockFails, EraseEnds, ProgramEnds,
                      CompareWord, VerifyEnds, NextStage, LockFlash
  <2> QED
    BY <2>2, <2>3, <2>4
<1>2. LoaderInv /\ [LoaderNext]_loader_vars => [A]_loader_vars
  BY <1>1
<1> QED
  BY <1>2, LoaderInvariant, PTL DEF LoaderSpec, OnlyBootChanges
=============================================================================
