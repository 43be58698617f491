\* A disciplined application: the stream and one caller, messages of none to
\* four segments, one place in the packet channel.
SPECIFICATION Spec
CONSTANTS
    MAX_MESSAGE_SIZE = 2
    SegmentModulus = 4
    Messages = {0, 1, 5, 7}
    Callers = {c1}
    Capacity = 1
    Disciplined = TRUE
INVARIANTS SessionTypeOK ShutdownFlushes
PROPERTIES ImplementsMessageChannel AllGiven
CHECK_DEADLOCK FALSE
