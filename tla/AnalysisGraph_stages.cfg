\* The safety properties of AnalysisExecution in both modes, two stages and two faults.
CONSTANTS
    Runs = {r1}
    Workers = {w1, w2}
    NumStages = 2
    MaxAttempts = 2
    MaxFaults = 2
    NoRun = NoRun
SPECIFICATION GraphSpec
SYMMETRY WorkerSymmetry
CHECK_DEADLOCK FALSE
INVARIANTS
    RunJobCoherent
    LeaseExclusive
    FencedRunsAccountForStages
    OnlyReviewedResultsComplete
    AuditTellsTruth
    CheckpointIsBacked
PROPERTIES
    CompletedStageStable
