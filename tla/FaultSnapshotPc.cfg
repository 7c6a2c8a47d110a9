CONSTANTS
    SramBase = 12
    SramEnd = 72
    RetSramBase = 90
    RetSramEnd = 110
    Top = 130
SPECIFICATION FaultSpec
INVARIANTS
    RecordedPcFaulted
