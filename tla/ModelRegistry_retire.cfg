\* Two models, two requests at once.
SPECIFICATION Spec
CONSTANTS
    Models = {m1, m2}
    Requests = {r1, r2}
    MaxDeploys = 2
    MaxCalls = 8
    None = None
SYMMETRY Symmetry
CHECK_DEADLOCK FALSE
INVARIANTS
    ActiveIsApproved
