\* The tamper event posted at boot is dropped before the node is armed.
CONSTANTS
    QueueDepth = 16
    MaxFaultRetries = 3
    SeqMod = 2
    Ticks <- MCTicks
    EnvEvents <- NoEvents
    Faults <- NoFaults
    Boots <- SkewBoot
SPECIFICATION Spec
PROPERTIES TamperIsSigned
