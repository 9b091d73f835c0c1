SPECIFICATION FairSpec
CONSTANTS
    p1 = p1
    p2 = p2
    Pods = {p1, p2}
    UIDs = {1, 2, 3, 4, 5, 6}
    MaxLag = 2
    Interferences = {"pod", "relabel", "user", "restart", "failure"}
    MaxChanges = 6
INVARIANTS TypeOK QuiescentBound
PROPERTIES OnlyAppliedDeleted Settles
CHECK_DEADLOCK FALSE
