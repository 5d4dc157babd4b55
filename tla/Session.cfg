SPECIFICATION FairSpec
CONSTANTS
    Client = {"c1", "c2"}
    Fds = {1, 2}
    Workers = 2
    BatchSize = 2
    Rounds <- MCRounds
    Beats = 1
    Room = 54
    Cuts = {14}
    Casts <- MCCasts
    Batches <- MCBatches
    Held <- MCHeld
    Self <- MCSelf
INVARIANTS
    ParsedAsSent
    RepliesMatch
    StrayOnlyAfterLoss
    
    

    
CHECK_DEADLOCK FALSE
