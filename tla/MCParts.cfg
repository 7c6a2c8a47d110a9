CONSTANTS
    MaxOperations = 3
    BSP_I2C_RX_CAPACITY = 4
    Bytes = {0, 1, 2}
    APP_FLASH_BASE = 8
    APP_FLASH_END = 16
    FLASH_SIZE = 16
    SECTOR_SIZE = 4
    VECTOR_SIZE = 4
    WORD_MOD = 56
    VECTOR_ALIGNMENT = 4
    HC32_SRAM_BASE = 16
    HC32_SRAM_END = 32
    HC32_RET_SRAM_BASE = 40
    HC32_RET_SRAM_END = 48
    Bases = {4, 8, 10, 16}
    TIME_MOD = 32
    INTERVAL_MS = 4
    PULSE_MS = 3
    MaxLoop = 5
    UPDATE_MS = 3
    RECOVERY_MS = 5
    FATAL_MS = 2
    SramBase = 12
    SramEnd = 72
    RetSramBase = 90
    RetSramEnd = 110
    Top = 130
    Values = {0, 1}
    SectorWords = 2
    BootWords = 4
    FlashWords = 6
    Payloads <- crcPayloads
    Disturbed <- disturbed
    BurstBits = 12
SPECIFICATION Spec
INVARIANTS
    EfmTypeOK
    OkMeansStored
    AcceptedVectorRuns
    RunnableVectorAccepted
    DeadlineIsAhead
    FedInTime
    BlinksInRhythm
    CrcIsTheRemainder
    BurstIsSeen
    HandlerNeverFaults
    SuccessMeansImage
PROPERTIES
    NoCommandWhileBusy
    RingIsAQueue
    CallReturns
