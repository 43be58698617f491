\* Sends of two tasks overlap, or one is dropped between two segments.
SPECIFICATION Spec
CONSTANTS
    MAX_MESSAGE_SIZE = 2
    SegmentModulus = 4
    Messages = {1, 4, 6}
    Callers = {c1}
    Capacity = 1
    Disciplined = FALSE
INVARIANTS OnlyWholeMessages
CHECK_DEADLOCK FALSE
