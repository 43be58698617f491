SPECIFICATION MCSpec
CONSTANTS
    Modulo = 8
    Mtu = 62
    SendStart = 6
    Messages <- MCMessages
    OrderChannels = 1
    MaxSent = 2
    MaxIncoming = 1
INVARIANTS OutboundTypeOK SlotIdentity NoPrematureRelease BudgetCoversTracked QueuedCanLeave DatagramsFit QueuedBytesExact
