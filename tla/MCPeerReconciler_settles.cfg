SPECIFICATION FairSpec
CONSTANTS
    Peers = {1, 2, 3}
    Gateways = {g1}
    Neighbours <- OneNeighbourhood
    PublicKeys = {k1, k2, k3}
    NoKey = NoKey
    BadKey = BadKey
    Pools <- OnePool
    InitialPool <- Slash30
    InitialPeers <- ContendingPeers
    Interferences = {"delete", "secret"}
    MaxChanges = 1
INVARIANT QuiescentVerdicts
PROPERTY Settles
CHECK_DEADLOCK FALSE
