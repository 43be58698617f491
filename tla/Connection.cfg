SPECIFICATION ConnectionSpec
CONSTANTS
    Modulo = 16
    MaxWindow = 4
    Mtu = 72
    HeapCapacity = 2
    SessionStale = 1
    SessionTimeout = 2
    PingInterval = 1
    Pinging = {"Client", "Server"}
    Losable = {"server"}
    MaxIncidents = 1
INVARIANTS ConnectionTypeOK AnnouncedAfterClient NothingAfterEnd
PROPERTY ClosedIsFinal
CHECK_DEADLOCK FALSE
