------------------------------ MODULE BspFlash ------------------------------
(***************************************************************************)
(* The Flash driver, Drivers/BSP/Src/bsp_flash.c, over the vendor's EFM    *)
(* driver.  A cell holds the set of its bits that read 1: erasing sets     *)
(* every bit, programming can only clear bits (NOR Flash), so programming  *)
(* a cell that is not erased stores the intersection.  EFM_Program writes  *)
(* word by word and stops at the first word that fails; the last, partial  *)
(* word is padded with 0xFF, which leaves the cells behind the data alone. *)
(* A failed word or erasure leaves its own cells in between.               *)
(***************************************************************************)
EXTENDS BootMemoryMap, Sequences

CONSTANTS
    PROGRAM_ALIGNMENT,  \* BSP_FLASH_PROGRAM_ALIGNMENT, the bytes of a word
    Bits                \* the bits of one cell

ASSUME FlashAssumption ==
    /\ PROGRAM_ALIGNMENT \in Nat \ {0}
    /\ Bits # {}

Byte == SUBSET Bits

Erased == Bits

Image == [Address -> Byte]

\* mem with the cells of part replaced.
Overwrite(mem, part) ==
    [a \in Address |-> IF a \in DOMAIN part THEN part[a] ELSE mem[a]]

SectorCells(sector) ==
    {a \in Address : RangeContains(sector * SECTOR_SIZE, (sector + 1) * SECTOR_SIZE, a, 1)}

\* Sectors needed for size bytes, a last partial one included.
SectorCount(size) ==
    size \div SECTOR_SIZE + (IF size % SECTOR_SIZE # 0 THEN 1 ELSE 0)

ErasedSector(sector) == [a \in SectorCells(sector) |-> Erased]

\* What a sector may hold after an erasure that reported an error.
HalfErasedSector(sector) == [SectorCells(sector) -> Byte]

\* The cells EFM_Program writes for the word at offset done of the data.
WordCells(address, data, done) ==
    {a \in Address : /\ a >= address + done
                     /\ a < address + done + PROGRAM_ALIGNMENT
                     /\ a < address + Len(data)}

ProgrammedWord(mem, address, data, done) ==
    [a \in WordCells(address, data, done) |-> mem[a] \cap data[a - address + 1]]

\* A word whose programming reported an error: some of the bits that should
\* have been cleared are.
HalfProgrammedWord(mem, address, data, done) ==
    {part \in [WordCells(address, data, done) -> Byte] :
        \A a \in DOMAIN part : /\ part[a] \subseteq mem[a]
                               /\ mem[a] \cap data[a - address + 1] \subseteq part[a]}

\* The read-back comparison of program_and_verify.
ReadsBack(mem, address, data) ==
    \A i \in 1 .. Len(data) : mem[address + i - 1] = data[i]
=============================================================================
