\* On PostgreSQL an edit commits between the look after signing and the INSERT.
CONSTANTS
    w1 = w1
    w2 = w2
    Workers = {w1, w2}
    MaxClaims = 1
    MaxChanges = 1
    None = None
SPECIFICATION Spec
CHECK_DEADLOCK FALSE
INVARIANT
    SignsOnlyLiveState
