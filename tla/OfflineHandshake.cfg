\* Two clients, one seen as IPv6, hashes that start like an address or not.
SPECIFICATION Spec
CONSTANTS
    Peers = {p1, p2}
    V6Peers = {p2}
    HANDSHAKE_RETRIES = 2
    FirstBytes = {4, 5}
    max_connections = 2
    max_pending_connections = 2
    max_mtu = 1300
    MaxIncidents = 3
INVARIANTS OfflineTypeOK MtuAgreed AdmissionBound FailsForAReason
PROPERTIES SessionStable HandshakeEnds
CHECK_DEADLOCK FALSE
