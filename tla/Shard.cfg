SPECIFICATION Spec
CONSTANTS
    None = None
    Keys = {k1, k2, k3, k4}
    Values = {"a", "b"}
    Places <- ListMemory
    MaxSize = 3
INVARIANTS IteratorsValid
PROPERTY ImplementsOrder
