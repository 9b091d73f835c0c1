SPECIFICATION FairSpec
CONSTANTS
    k1 = k1
    k2 = k2
    a1 = a1
    a2 = a2
    c1 = c1
    c2 = c2
    s1 = s1
    PublicKeys = {k1, k2}
    Addresses = {a1, a2}
    NoAddress = NoAddress
    CIDRs = {c1, c2}
    NoCIDR = NoCIDR
    DefaultPeerCIDR4 = c1
    ServerKeys = {s1}
    NoServerKey = NoServerKey
    Files <- AllFiles
    Interferences = {"write", "failure", "gluetun", "restart"}
    MaxChanges = 1
INVARIANTS SyncExact ErrHonest
PROPERTIES  BecomesReady
