\* Both modes of a run, two workers, one fault.
CONSTANTS
    Runs = {r1}
    Workers = {w1, w2}
    NumStages = 1
    MaxAttempts = 2
    MaxFaults = 1
    NoRun = NoRun
SPECIFICATION GraphFairSpec
CHECK_DEADLOCK FALSE
INVARIANTS
    CheckpointIsBacked
    PauseIsDecidable
PROPERTIES
    CancelIsCarriedOut
    QueuedRunEnds
