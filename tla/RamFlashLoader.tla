--------------------------- MODULE RamFlashLoader ---------------------------
(***************************************************************************)
(* Tools/jlink/ram_flash_loader.c, the program that a debugger puts into   *)
(* RAM to write the bootloader itself into Flash, and that it may start    *)
(* again at any time.  Flash words are counted from address 0.  The        *)
(* controller is not trusted: whether it reports success or not, the words *)
(* that an operation worked on may hold anything behind it.  It is taken   *)
(* to have ended the operation of one start before the next: the loader    *)
(* does not look at RDY before its first command.                          *)
(***************************************************************************)
EXTENDS Naturals

CONSTANTS
    Values,         \* what a word can hold
    SectorWords,    \* words of a sector
    BootWords,      \* words of the Boot partition, whole sectors
    FlashWords      \* bound: words of the Flash

ASSUME LoaderAssumption ==
    /\ SectorWords \in Nat \ {0} /\ BootWords \in Nat /\ FlashWords \in Nat
    /\ BootWords % SectorWords = 0 /\ BootWords <= FlashWords

VARIABLES
    image,      \* what the debugger loaded at IMAGE_SOURCE, IMAGE_LENGTH words
    flash,
    loader_pc,
    at,         \* the next word to erase from, to program or to compare
    stage,      \* of the report at STATUS_ADDRESS
    writable    \* FWMC.PEMODE

loader_vars == <<image, flash, loader_pc, at, stage, writable>>

\* 0x600D600D, in fact.
LOADER_SUCCESS == 5

FlashCells == 0 .. FlashWords - 1

IMAGE_LENGTH == CHOOSE n \in 1 .. BootWords : DOMAIN image = 0 .. n - 1

IMAGE_ERASE_LENGTH == ((IMAGE_LENGTH + SectorWords - 1) \div SectorWords) * SectorWords

Sector(word) == {w \in FlashCells : w \div SectorWords = word \div SectorWords}

-----------------------------------------------------------------------------
\* The length is asserted when the loader is built.
LoaderInit ==
    /\ \E n \in 1 .. BootWords : image \in [0 .. n - 1 -> Values]
    /\ flash \in [FlashCells -> Values]
    /\ loader_pc = "unlock" /\ at = 0 /\ stage = 1 /\ writable = FALSE

\* The debugger stops the loader, if it still runs, and starts it.
StartLoader ==
    /\ loader_pc' = "unlock" /\ at' = 0 /\ stage' = 1
    /\ UNCHANGED <<image, flash, writable>>

Goto(from, to) == loader_pc = from /\ loader_pc' = to

\* EFM_FAPRT takes the key, and PEMODE stays set.
Unlock ==
    /\ Goto("unlock", "erase")
    /\ writable' = TRUE
    /\ stage' = 2
    /\ UNCHANGED <<image, flash, at>>

UnlockFails ==
    /\ Goto("unlock", "done")
    /\ UNCHANGED <<image, flash, at, stage, writable>>

\* An operation on some words, and wait_complete: it goes on with the next
\* word, or an error flag, no OPTEND or no end in time stop the loader.
Operation(words, next) ==
    /\ writable
    /\ flash' \in [FlashCells -> Values]
    /\ \A w \in FlashCells \ words : flash'[w] = flash[w]
    /\ \/ at' = next /\ UNCHANGED loader_pc
       \/ loader_pc' = "restore" /\ UNCHANGED at
    /\ UNCHANGED <<image, stage, writable>>

EraseSector ==
    /\ loader_pc = "erase" /\ at < IMAGE_ERASE_LENGTH
    /\ Operation(Sector(at), at + SectorWords)

\* A loop is over, and the next one begins at address 0.
NextStage(from, to, n) ==
    /\ Goto(from, to)
    /\ at' = 0 /\ stage' = n
    /\ UNCHANGED <<image, flash, writable>>

EraseEnds == at >= IMAGE_ERASE_LENGTH /\ NextStage("erase", "program", 3)

ProgramWord ==
    /\ loader_pc = "program" /\ at < IMAGE_LENGTH
    /\ Operation({at}, at + 1)

ProgramEnds == at >= IMAGE_LENGTH /\ NextStage("program", "verify", 4)

\* Mutant: the last word is not compared.
ComparedButLast == IMAGE_LENGTH - 1

Compared == IMAGE_LENGTH

CompareWord ==
    /\ loader_pc = "verify" /\ at < Compared
    /\ IF flash[at] = image[at] THEN at' = at + 1 /\ UNCHANGED loader_pc
       ELSE loader_pc' = "restore" /\ UNCHANGED at
    /\ UNCHANGED <<image, flash, stage, writable>>

VerifyEnds == at >= Compared /\ NextStage("verify", "restore", LOADER_SUCCESS)

LockFlash ==
    /\ Goto("restore", "done")
    /\ writable' = FALSE
    /\ UNCHANGED <<image, flash, at, stage>>

LoaderNext ==
    \/ StartLoader \/ Unlock \/ UnlockFails \/ EraseSector \/ EraseEnds
    \/ ProgramWord \/ ProgramEnds \/ CompareWord \/ VerifyEnds \/ LockFlash

LoaderSpec == LoaderInit /\ [][LoaderNext]_loader_vars

-----------------------------------------------------------------------------
(* Properties.                                                             *)

\* A report of LOADER_SUCCESS means that the image is in Flash, every word,
\* whatever the controller reported, whatever an earlier start left behind,
\* and until the loader is started again.
SuccessMeansImage ==
    stage = LOADER_SUCCESS => \A w \in DOMAIN image : flash[w] = image[w]
=============================================================================
