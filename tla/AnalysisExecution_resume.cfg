\* One run, two workers: crashes, overrun leases, retries, review, cancel.
CONSTANTS
    Runs = {r1}
    Workers = {w1, w2}
    NumStages = 2
    MaxAttempts = 2
    MaxFaults = 2
    NoRun = NoRun
SPECIFICATION Spec
SYMMETRY WorkerSymmetry
CHECK_DEADLOCK FALSE
INVARIANTS
    RunJobCoherent
    LeaseExclusive
    EveryStageAccountedFor
    OnlyReviewedResultsComplete
    PausedRunIsDecidable
    AuditTellsTruth
PROPERTIES
    CompletedStageStable
    RunsFollowLifecycle
