CONSTANTS
    APP_FLASH_BASE = 4
    APP_FLASH_END = 12
    FLASH_SIZE = 16
    SECTOR_SIZE = 4
    VECTOR_SIZE = 2
    PROGRAM_ALIGNMENT = 2
    Bits <- bits
    Requests <- requests
    ValidVectors <- validVectors
    InitialImages <- initialImages
    FlashFaults = TRUE
SPECIFICATION Spec
INVARIANTS
    EraseAckMeansBlank
