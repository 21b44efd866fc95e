\* The refuted claim: a stale worker's checkpoint rewinds a decided run.
CONSTANTS
    Runs = {r1}
    Workers = {w1, w2}
    NumStages = 1
    MaxAttempts = 2
    MaxFaults = 1
    NoRun = NoRun
SPECIFICATION GraphSpec
SYMMETRY WorkerSymmetry
CHECK_DEADLOCK FALSE
INVARIANTS
    DecidedRunLeavesReview
