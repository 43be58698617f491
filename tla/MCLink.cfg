SPECIFICATION LinkSpec
CONSTANTS
    Modulo = 16
    Mtu = 72
    SendStart = 15
    Start = 15
    Messages <- MCMessages
    Packets <- MCPackets
    Malformed = {}
    OrderChannels = 1
    MaxChannels = 1
    MaxSent = 4
    MaxWindow = 8
    HeapCapacity = 4
    MaxSplitParts = 2
    MaxConcurrentSplits = 1
    AckCapacity = 2
    MaxAckSequences = 4
    MaxLosses = 2
    MaxDuplicates = 1
    MaxFeedback = 1
    MaxIncoming = 1
INVARIANT ReleasedWasReceived
PROPERTIES ImplementsChannel Drains
