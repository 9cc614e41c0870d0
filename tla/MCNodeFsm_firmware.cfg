\* The firmware as it is: its own producers, every boot outcome, transient faults;
\* and what must eventually happen in it.
CONSTANTS
    QueueDepth = 3
    MaxFaultRetries = 3
    SeqMod = 3
    Ticks <- MCTicks
    EnvEvents <- NoEvents
    Faults <- TransientFaults
    Boots <- AllBoots
SPECIFICATION FairSpec
INVARIANTS TypeOK NoDeadEnd FrameOnAir NoEventLost
PROPERTIES AlwaysRearms AcceptedGoesOnAir
