SPECIFICATION MCSpec
CONSTANTS
    Modulo = 16
    Start = 14
    Packets <- MCPacketSet
    Datagrams <- MCDatagrams
    Malformed = {3}
    MaxChannels = 1
    MaxWindow = 4
    HeapCapacity = 1
    MaxSplitParts = 2
    MaxConcurrentSplits = 1
    AckCapacity = 4
    MaxAckSequences = 1
    Mtu = 40
    MaxArrivals = 2
INVARIANTS InboundTypeOK OrderedDelivery NoFalseAck EveryGapNaked NothingVanishes NoSilentSkip WholeMessages
