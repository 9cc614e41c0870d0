\* A DS3231 whose oscillator stopped is trusted at the second boot.
CONSTANTS
    FlushInterval = 2
    SkewThreshold = 2
    Builds <- PlainBuild
    RtcFaults <- NoFaults
    StrayTimes <- Far
    MaxAge = 3
SPECIFICATION RtcSpec
INVARIANTS StoppedClockRefused
