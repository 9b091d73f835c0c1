SPECIFICATION Spec
CONSTANTS
    Peers = {1, 2}
    Gateways = {g1}
    Neighbours <- OneNeighbourhood
    PublicKeys = {k1, k2}
    NoKey = NoKey
    BadKey = BadKey
    Pools <- OnePool
    InitialPool <- Slash30
    InitialPeers <- KeyedPeers
    Interferences = {"create", "edit"}
    MaxChanges = 2
PROPERTY ServedKeyKept
CHECK_DEADLOCK FALSE
