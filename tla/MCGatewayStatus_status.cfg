SPECIFICATION Spec
CONSTANTS
    ProbeAddress = 30
    Reserved <- TheReserved
    Secrets = {"creds"}
    Specs = {"credentialed", "narrow", "wide"}
    Content <- TheContent
    InitialSpecs = {"credentialed"}
    ClusterIPs = {1, 20}
    Keys <- TheKeys
    Interferences = {"spec", "replace", "creds", "delete", "edit", "unready", "restart", "failure"}
    MaxChanges = 1
INVARIANTS
    TypeOK
    RenderedSound
    QuiescentReported
PROPERTIES
    ReadyMeansRolledOut
    Converges
CHECK_DEADLOCK FALSE
