SPECIFICATION Spec
CONSTANTS
    None = None
    Server = {s1, s2}
    Writers = {s1}
    MaxTerm = 2
    MaxWrites = 2
    MaxRebuilds = 1
SYMMETRY ServerSymmetry
INVARIANTS  OneVotePerTerm UndoneOnlyIfUnlogged
