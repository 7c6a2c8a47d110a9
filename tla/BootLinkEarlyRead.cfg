CONSTANTS
    RX_CAPACITY = 3
    ERR_LIMIT = 8
    TX_LENGTH = 2
    FRAME_LENGTH = 2
    MaxFrames = 2
    HostAborts = FALSE
    HostPatient = TRUE
    FrameTime = 1
    MaxLoop = 1
    MaxHandle = 2
    ReadFrom = 3
    ReadUntil = 6
    NextUntil = 7
\* The bootloader ends when it has jumped.
CHECK_DEADLOCK FALSE
SPECIFICATION Spec
PROPERTIES
    AckReadBeforeJump
