SPECIFICATION Spec
CONSTANTS
    w1 = w1
    w2 = w2
    k1 = k1
    None = None
    Workers = {w1, w2}
    Keys = {k1}
    Texts = {"a", "b", "odd"}
    Odd = {"odd"}
    Requests <- OneSet
    MaxOps = 3
    MaxFaults = 1
    MaxSnaps = 0
SYMMETRY WorkerSymmetry
INVARIANTS  DiskMatchesLog RealTimeOrder AppliesLogInOrder
