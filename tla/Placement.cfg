SPECIFICATION Spec
CONSTANTS
    Nodes = {9, 18, 28, 44}
    Self = 18
    Points <- RingPoints
    k1 = k1
    k2 = k2
    k3 = k3
    Keys = {k1, k2, k3}
    Hash <- KeyPoints
    UuidBits = 6
    IntBits = 3
    Workers = {w1}
    Main = main
    Beat = beat
    None = None
    MaxJoins = 2
CHECK_DEADLOCK FALSE
INVARIANTS GroupsAreWindows GroupsFollowTopo RingFollowsTopo
PROPERTY OnlyAffectedKeysMove
