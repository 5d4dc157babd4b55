SPECIFICATION RoutingSpec
CONSTANTS
    Server = {1, 2, 3, 4}
    Keys = {"k"}
    Walk <- MCWalk
    Cases <- MCCases
    Writers <- MCWriters
INVARIANTS
    JoinsAgree
    OneKnowsTheOther
    NoCircleOfWaits
    SyncWaitsForAll
    
    
    RetryLands

    
    
CHECK_DEADLOCK FALSE
