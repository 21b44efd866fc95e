\* A cancel commits between two statements of the worker.
CONSTANTS
    w1 = w1
    w2 = w2
    s1 = s1
    s2 = s2
    Workers = {w1, w2}
    Supervisors = {s1}
    Ops = {"claim", "complete", "pause", "fail", "cancel", "decide"}
    MaxAttempts = 3
    MaxClaims = 3
    MaxCalls = 2
    Paused = FALSE
    None = None
SPECIFICATION Spec
SYMMETRY Symmetry
CHECK_DEADLOCK FALSE
INVARIANTS
    CancelIsNotLost
