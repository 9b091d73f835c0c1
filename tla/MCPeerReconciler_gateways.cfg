SPECIFICATION Spec
CONSTANTS
    Peers = {1, 2}
    Gateways = {g1, g2}
    Neighbours <- OneNeighbourhood
    PublicKeys = {k1, k2}
    NoKey = NoKey
    BadKey = BadKey
    Pools <- PoolEdits
    InitialPool <- Slash30
    InitialPeers <- KeyedPeers
    Interferences = {"edit", "wireguard"}
    MaxChanges = 1
INVARIANTS ServedUsable QuiescentServed QuiescentVerdicts
CHECK_DEADLOCK FALSE
SYMMETRY KeySymmetry
