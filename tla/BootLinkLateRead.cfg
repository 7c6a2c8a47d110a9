CONSTANTS
    RX_CAPACITY = 3
    ERR_LIMIT = 8
    TX_LENGTH = 2
    FRAME_LENGTH = 2
    MaxFrames = 1
    HostAborts = FALSE
    HostPatient = TRUE
    FrameTime = 1
    MaxLoop = 1
    MaxHandle = 1
    ReadFrom = 5
    ReadUntil = 9
    NextUntil = 9
\* The bootloader ends when it has jumped.
CHECK_DEADLOCK FALSE
SPECIFICATION Spec
PROPERTIES
    AckReadBeforeJump
