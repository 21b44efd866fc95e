\* Every operation on a queued run; its attempts run out, before a review and after it.
CONSTANTS
    w1 = w1
    w2 = w2
    s1 = s1
    s2 = s2
    Workers = {w1, w2}
    Supervisors = {s1, s2}
    Ops = {"claim", "complete", "pause", "fail", "cancel", "decide"}
    MaxAttempts = 1
    MaxClaims = 2
    MaxCalls = 2
    Paused = FALSE
    None = None
SPECIFICATION FairSpec
CHECK_DEADLOCK FALSE
INVARIANTS
    RunJobCoherent
    RequestsNeverDeadlock
PROPERTIES
    DecisionIsCurrent
    TransactionsEnd
