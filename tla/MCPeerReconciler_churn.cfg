SPECIFICATION Spec
CONSTANTS
    Peers = {1, 2}
    Gateways = {g1}
    Neighbours <- OneNeighbourhood
    PublicKeys = {k1, k2}
    NoKey = NoKey
    BadKey = BadKey
    Pools <- OnePool
    InitialPool <- Slash30
    InitialPeers <- KeyedPeers
    Interferences = {"create", "delete", "edit", "resync", "secret", "failure", "restart"}
    MaxChanges = 2
INVARIANTS ServedDistinct QuiescentServed QuiescentVerdicts
PROPERTIES AddressNeverSwapped  
CHECK_DEADLOCK FALSE
SYMMETRY KeySymmetry
