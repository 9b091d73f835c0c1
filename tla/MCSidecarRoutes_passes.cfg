SPECIFICATION FairSpec
CONSTANTS
    l1 = l1
    l2 = l2
    f1 = f1
    s1 = s1
    s2 = s2
    g1 = g1
    LocalCIDRs = {l1, l2}
    Prefixes = {f1}
    Servers = {s1, s2}
    Gateway = g1
    Tunnels <- AllTunnels
    Tables <- AllTables
    Interferences = {"status", "vanish", "default", "failure"}
    MaxChanges = 4
INVARIANTS TypeOK GatewayKnown PassExact 
PROPERTIES OthersKept SessionKept Converges
