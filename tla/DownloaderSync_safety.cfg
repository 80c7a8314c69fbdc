CONSTANTS
    c1 = c1
    c2 = c2
    p1 = p1
    p2 = p2
    NoPeer = NoPeer
    Callers <- MCCallers
    Peers <- MCPeers
    MaxSyncs = 2
    MaxRounds = 2
    HeaderChCap = 1
SPECIFICATION Spec
INVARIANTS
    TypeOK
    CancelClosedWhenIdle
    ActiveSyncOwnsChannel
PROPERTIES
    DeliverTerminates
    ReplacedChannelClosed
