SPECIFICATION Spec
CONSTANTS
    None = None
    Workers = {w1, w2}
    Main = main
    Beat = beat
    MaxTasks = 1
SYMMETRY WorkerSymmetry
CHECK_DEADLOCK FALSE
INVARIANTS AloneNoCircle CirclesHoldMain
