\* Workers die and overtake each other; the live state is edited once.
CONSTANTS
    w1 = w1
    w2 = w2
    Workers = {w1, w2}
    MaxClaims = 4
    MaxChanges = 1
    None = None
SPECIFICATION FairSpec
CHECK_DEADLOCK FALSE
INVARIANTS
    OnlyEditsRefuse
    VerifiedIsComplete
    VerifiedSignedLiveState
PROPERTIES
    FinalizationCompletes
