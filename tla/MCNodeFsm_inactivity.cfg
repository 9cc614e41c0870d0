\* An inactivity timeout posted during an earlier stay ends a later one.
CONSTANTS
    QueueDepth = 16
    MaxFaultRetries = 3
    SeqMod = 2
    Ticks <- MCTicks
    EnvEvents <- NoEvents
    Faults <- NoFaults
    Boots <- GoodBoot
SPECIFICATION Spec
PROPERTIES StaleInactivityInert
