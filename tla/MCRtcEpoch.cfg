\* Power cycles with every call failing now and then, every build, a disturbed clock.
CONSTANTS
    FlushInterval = 2
    SkewThreshold = 3
    Builds <- EveryBuild
    RtcFaults <- AllRtcFaults
    StrayTimes <- Strays
    MaxAge = 4
SPECIFICATION RtcSpec
INVARIANTS RtcTypeOK StoredEpochFresh ClockNeverFallsBack SkewHasReason
