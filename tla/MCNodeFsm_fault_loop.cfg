\* A node without a signing key recovers from its fault for ever.
CONSTANTS
    QueueDepth = 4
    MaxFaultRetries = 3
    SeqMod = 2
    Ticks <- MCTicks
    EnvEvents <- NoEvents
    Faults <- NoFaults
    Boots <- KeylessBoot
SPECIFICATION FairSpec
PROPERTIES FaultsEndInReset
