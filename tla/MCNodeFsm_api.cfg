\* The state machine's whole interface: every event its producers may post, a short queue.
CONSTANTS
    QueueDepth = 3
    MaxFaultRetries = 1
    SeqMod = 2
    Ticks <- ShortTicks
    EnvEvents <- ApiEvents
    Faults <- AllFaults
    Boots <- GoodBoot
SPECIFICATION Spec
INVARIANTS NoDeadEnd
PROPERTIES StaleCompletionsInert
VIEW ControlView
