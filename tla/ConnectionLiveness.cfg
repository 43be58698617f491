SPECIFICATION ConnectionSpec
CONSTANTS
    Modulo = 16
    MaxWindow = 4
    Mtu = 72
    HeapCapacity = 2
    SessionStale = 1
    SessionTimeout = 2
    PingInterval = 1
    Pinging = {"Server"}
    Losable = {"server"}
    MaxIncidents = 1
PROPERTIES ConnectReturns GoneClientNotServed
CHECK_DEADLOCK FALSE
