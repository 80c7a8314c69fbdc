CONSTANTS
    p1 = p1
    p2 = p2
    p3 = p3
    Peers <- MCPeers
    Medians <- MCMedians
    MaxTicks = 2
    MaxRegs = 5
    QosConfidenceCap = 3
SPECIFICATION Spec
CHECK_DEADLOCK FALSE
PROPERTIES
    ImplementsQoSSpec
