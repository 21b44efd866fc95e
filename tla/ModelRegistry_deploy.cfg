\* Two models, three requests at once.
SPECIFICATION Spec
CONSTANTS
    Models = {m1, m2}
    Requests = {r1, r2, r3}
    MaxDeploys = 3
    MaxCalls = 8
    None = None
SYMMETRY Symmetry
CHECK_DEADLOCK FALSE
INVARIANTS
    HistoryIsChain
    OnlyRacesRetireActive
PROPERTIES
    DeploysApprovedOnly
