SPECIFICATION Spec
CONSTANTS
    p1 = p1
    p2 = p2
    Pods = {p1, p2}
    UIDs = {1, 2, 3, 4, 5, 6}
    MaxLag = 2
    Interferences = {"pod", "relabel"}
    MaxChanges = 3
INVARIANT UpdatesIrrelevant
CHECK_DEADLOCK FALSE
