\* One connect, one candidate at each end, two offers when one is duplicated.
SPECIFICATION NegotiationSpec
CONSTANTS
    SignalCapacity = 2
    MaxRequests = 1
    MaxIncidents = 1
    Candidates = {c1}
    MaxOffers = 2
INVARIANTS NegotiationTypeOK NoCandidateRefused SessionNotStranded
PROPERTIES ConnectEnds
CHECK_DEADLOCK FALSE
