\* One life of the gateway, with enough frames to fill every channel around an outage.
CONSTANTS
    PktCap = 1
    MqttCap = 1
    RequestCap = 1
    Ring = 1
    Debounce = 0
    Packets <- MixedTraffic
    GatewayFaults <- NoGatewayFaults
    MaxPackets = 3
    MaxOutages = 1
    MaxStarts = 1
SPECIFICATION GatewayFairSpec
PROPERTIES EveryStopCompletes ScanKeepsUp ImplementsOutbox
CHECK_DEADLOCK FALSE
