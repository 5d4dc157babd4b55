SPECIFICATION Spec
CONSTANTS
    k1 = k1
    k2 = k2
    k3 = k3
    k4 = k4
    None = None
    Keys = {k1, k2, k3, k4}
    Values = {"a", "b"}
    Hash <- ShardHash
    Initial = 2
INVARIANTS FindsEveryKey OnePlacePerKey CountsNodes RehashHasRoom ReadBackExact
PROPERTY ImplementsMap
