CONSTANTS
    TIME_MOD = 64
    INTERVAL_MS = 6
    PULSE_MS = 1
    MaxLoop = 3
SPECIFICATION SchedulerSpec
PROPERTIES
    PulseLastsItsTime
