CONSTANTS
    RX_CAPACITY = 3
    ERR_LIMIT = 1
    TX_LENGTH = 2
    FRAME_LENGTH = 2
    MaxFrames = 2
    HostAborts = TRUE
    HostPatient = FALSE
    FrameTime = 0
    MaxLoop = 0
    MaxHandle = 0
    ReadFrom = 0
    ReadUntil = 0
    NextUntil = 0
\* The bootloader ends when it has jumped.
CHECK_DEADLOCK FALSE
SPECIFICATION Spec
PROPERTIES
    JumpNeedsARead
    FramesHandledInOrder
    LinkComesBack
