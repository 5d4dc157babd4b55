SPECIFICATION FairSpec
CONSTANTS
    None = None
    MaxTasks = 1
    Workers = {w1}
    Main = main
    Beat = beat
CHECK_DEADLOCK FALSE
PROPERTY FailureRebuilds
