\* Three peers that come and go, one more than the server has descriptors
\* for; the server may end.
SPECIFICATION FairSpec
CONSTANTS
    NULL = NULL
    a = a  b = b  c = c
    Peer <- MCPeer
    Descriptors = 2
    MayAbort = TRUE
CHECK_DEADLOCK FALSE
INVARIANTS
    TypeOK
PROPERTIES
    StopsOnlyUnderLoad
    EveryRequestServed
    EveryPeerAccepted
