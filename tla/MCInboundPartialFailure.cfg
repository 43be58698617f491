SPECIFICATION MCSpec
CONSTANTS
    Modulo = 16
    Start = 14
    Packets <- PlainPacketSet
    Datagrams <- PlainDatagrams
    Malformed = {}
    MaxChannels = 1
    MaxWindow = 4
    HeapCapacity = 4
    MaxSplitParts = 2
    MaxConcurrentSplits = 1
    AckCapacity = 4
    MaxAckSequences = 2
    Mtu = 40
    MaxArrivals = 2
INVARIANT SeenOnSuccess
