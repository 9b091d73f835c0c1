SPECIFICATION FairSpec
CONSTANTS
    w1 = w1
    w2 = w2
    own = own
    none = none
    Wireguards = {w1, w2}
    Gateways = {w1, w2, own}
    NoGateway = none
    Submitted <- ThePods
    MaxLag = 2
    Interferences = {"user", "serve", "restart", "failure", "create"}
    MaxChanges = 4
INVARIANTS TypeOK BindingHasPolicy AdmittedTunnelled QuiescentInStep
PROPERTY Converges
CHECK_DEADLOCK FALSE
