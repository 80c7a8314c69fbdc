CONSTANTS
    p1 = p1
    p2 = p2
    p3 = p3
    Peers <- MCPeers
    Medians <- MCMedians
    MaxTicks = 1
    MaxRegs = 5
    QosConfidenceCap = 3
SYMMETRY PeerSymmetry
SPECIFICATION Spec
CHECK_DEADLOCK FALSE
INVARIANTS
    TypeOK
    QoSBounds
