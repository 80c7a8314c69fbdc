-------------------------------- MODULE MC_QoS --------------------------------
EXTENDS QoS, TLC

CONSTANTS p1, p2, p3

MCPeers == {p1, p2, p3}

\* The fastest and the slowest median peers.medianRTT returns.
MCMedians == {RttMinEstimate, RttMaxEstimate}

\* The peers are interchangeable.
PeerSymmetry == Permutations(MCPeers)
=============================================================================
