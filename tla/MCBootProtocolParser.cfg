CONSTANTS
    BYTE_MOD = 4
    SYNC_1 = 3
    SYNC_2 = 1
    SYNC_3 = 2
    MIN_PAYLOAD_SIZE = 1
    MAX_PAYLOAD_SIZE = 3
    Crc <- checksum
    Items <- items
    PlainFrames <- plainFrames
SPECIFICATION Spec
PROPERTIES
    DeliveredWasSent
    FrameIsFound
    Resynchronises
