\* The refuted property: a stale worker's checkpoint carries its successor's run past
\* an analysis that the successor had resumed, and a stage is lost.
CONSTANTS
    Runs = {r1}
    Workers = {w1, w2}
    NumStages = 2
    MaxAttempts = 3
    MaxFaults = 2
    NoRun = NoRun
SPECIFICATION GraphSpec
ACTION_CONSTRAINT LateCheckpoint
CHECK_DEADLOCK FALSE
INVARIANTS
    EveryStageAccountedFor
