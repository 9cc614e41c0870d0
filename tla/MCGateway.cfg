\* Every fault, an outage, a crash or stop and a restart, room for one message in each
\* channel and one row on the screen.
CONSTANTS
    PktCap = 1
    MqttCap = 1
    RequestCap = 1
    Ring = 1
    Debounce = 1
    Packets <- Traffic
    GatewayFaults <- AllGatewayFaults
    MaxPackets = 2
    MaxOutages = 1
    MaxStarts = 2
SPECIFICATION GatewaySpec
INVARIANTS GatewayTypeOK PublishedIsRecorded OrderKept ScreenIsTrailTail HealthTellsLoss
CHECK_DEADLOCK FALSE
