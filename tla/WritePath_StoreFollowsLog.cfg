SPECIFICATION Spec
CONSTANTS
    w1 = w1
    w2 = w2
    k1 = k1
    None = None
    Workers = {w1, w2}
    Keys = {k1}
    Texts = {"a", "b", "odd"}
    Odd = {"odd"}
    Requests <- TwoSets
    MaxOps = 2
    MaxFaults = 0
    MaxSnaps = 0
INVARIANT StoreFollowsLog
