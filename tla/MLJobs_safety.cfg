\* One validation, one training, two workers.
CONSTANTS
    v1 = v1
    t1 = t1
    w1 = w1
    w2 = w2
    Validations = {v1}
    Trainings = {t1}
    Workers = {w1, w2}
    MaxAttempts = 2
    Nobody = Nobody
SPECIFICATION FairSpec
CHECK_DEADLOCK FALSE
INVARIANTS
    CompletedHasResult
PROPERTIES
    OutcomeIsFinal
    EveryJobEnds
    FailureLeavesNothing
