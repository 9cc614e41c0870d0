\* Two boots, two frames, two receptions, one packet cut off or damaged.
CONSTANTS
    NodeMac <- Mac
    Events <- MCEvents
    CryptoFaults <- AllCryptoFaults
    Shapes <- MCShapes
    Fragile <- MCFragile
    CutAt <- MCCuts
    DamageAt <- MCDamage
    Noise <- MCNoise
    MaxBoots = 2
    MaxEvents = 2
    MaxReceptions = 2
    MaxOpens = 1
    MaxDamage = 1
SPECIFICATION PathSpec
INVARIANTS PathTypeOK ParserInBounds ParserFindsFrame IntactFrameCounts TrailReadable
PROPERTIES TypesMirrorFirmware ImplementsAudit
CHECK_DEADLOCK FALSE
