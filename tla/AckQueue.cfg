SPECIFICATION Spec
CONSTANTS
    Modulo = 8
    MaxRanges = 3
    Span = 4
    AckMtu = 22
    AckOverhead = 10
INVARIANTS TypeOK NothingInvented NothingForgotten
