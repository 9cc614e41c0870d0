\* An outage long enough to fill the request channel.
CONSTANTS
    PktCap = 1
    MqttCap = 1
    RequestCap = 2
    Ring = 1
    Debounce = 0
    Packets <- ValidTraffic
    GatewayFaults <- NoGatewayFaults
    MaxPackets = 3
    MaxOutages = 1
    MaxStarts = 1
SPECIFICATION GatewayFairSpec
PROPERTIES EventloopGoesOn
CHECK_DEADLOCK FALSE
