--------------------------- MODULE BootMemoryMap ---------------------------
(***************************************************************************)
(* The Flash partition of Core/Inc/boot_memory_map.h and the address       *)
(* predicate every bound check of the firmware is written with.  The       *)
(* header's figures (a 32 KiB bootloader, the application up to 0x7A000,   *)
(* two metadata sectors and a reserved one) are constants, so that TLC     *)
(* runs on a few cells and the proofs hold for any partition the header's  *)
(* own #if check admits.                                                   *)
(***************************************************************************)
EXTENDS Naturals

CONSTANTS
    APP_FLASH_BASE,     \* first address of the application region
    APP_FLASH_END,      \* first address behind it (BOOT_METADATA_A_BASE)
    FLASH_SIZE,         \* PHYSICAL_FLASH_END_EXCLUSIVE
    SECTOR_SIZE,        \* the unit of erasure, BOOT_METADATA_SECTOR_SIZE
    VECTOR_SIZE         \* the two words (MSP, reset) at APP_FLASH_BASE

\* Lines 36-42 of the header refuse to compile a partition whose boundaries
\* are not whole, ordered sectors; the vector lies in the first of them.
ASSUME MemoryMapAssumption ==
    /\ SECTOR_SIZE \in Nat \ {0}
    /\ APP_FLASH_BASE \in Nat /\ APP_FLASH_BASE % SECTOR_SIZE = 0
    /\ APP_FLASH_END \in Nat  /\ APP_FLASH_END % SECTOR_SIZE = 0
    /\ FLASH_SIZE \in Nat
    /\ APP_FLASH_BASE < APP_FLASH_END /\ APP_FLASH_END <= FLASH_SIZE
    /\ VECTOR_SIZE \in 1 .. SECTOR_SIZE

Address == 0 .. FLASH_SIZE - 1

APP_FLASH_MAX_SIZE == APP_FLASH_END - APP_FLASH_BASE

\* size bytes from address on lie in [begin, end); the subtraction cannot
\* underflow because address < end is tested before it.
RangeContains(begin, end, address, size) ==
    begin <= end /\ address >= begin /\ address < end /\ size <= end - address

AppCells == {a \in Address : RangeContains(APP_FLASH_BASE, APP_FLASH_END, a, 1)}

VectorCells == APP_FLASH_BASE .. APP_FLASH_BASE + VECTOR_SIZE - 1
=============================================================================
