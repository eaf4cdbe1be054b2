SPECIFICATION LogSpec
CONSTANTS
    Configs <- MCConfigs
    Request <- MCRequest
    NoBroker = "no broker"
    Default = "default"
    MaxFaults = 3
INVARIANTS HomeExchange LossHasCause
PROPERTIES Reconnects
CHECK_DEADLOCK FALSE
