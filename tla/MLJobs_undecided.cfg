\* The reset by an overtaken attempt whose cancellation was forgotten.
CONSTANTS
    v1 = v1
    t1 = t1
    w1 = w1
    w2 = w2
    Validations = {v1}
    Trainings = {}
    Workers = {w1, w2}
    MaxAttempts = 3
    Nobody = Nobody
SPECIFICATION JobSpec
CHECK_DEADLOCK FALSE
INVARIANT ValidationDecides
