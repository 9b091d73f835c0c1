SPECIFICATION FairSpec
CONSTANTS
    Pods = {1, 2}
    Tunnels = {"t1", "t2"}
    UIDs = {1, 2, 3, 4, 5, 6, 7, 8, 9, 10}
    MaxLag = 1
    Interferences = {"status", "user", "pod", "restart", "failure"}
    MaxChanges = 2
INVARIANT TypeOK
PROPERTIES OnlyStaleDeleted Registers AppliesPublished
CHECK_DEADLOCK FALSE
