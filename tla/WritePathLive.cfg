SPECIFICATION FairSpec
CONSTANTS
    w1 = w1
    w2 = w2
    k1 = k1
    None = None
    Workers = {w1}
    Keys = {k1}
    Texts = {"a", "b", "odd"}
    Odd = {"odd"}
    Requests <- WithOdd
    MaxOps = 2
    MaxFaults = 1
    MaxSnaps = 1
  
PROPERTIES EveryWriteAnswered EveryEntryApplied
CHECK_DEADLOCK FALSE
