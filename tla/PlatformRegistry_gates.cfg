SPECIFICATION Spec
CONSTANTS
    Versions = {v1, v2}
    Threads = {t1, t2}
    Ops = {"verify", "approve", "promote", "request", "rollback", "quarantine", "revoke"}
    MaxRows = 3
    MaxCalls = 4
    MaxFaults = 1
    None = None
SYMMETRY Symmetry
CHECK_DEADLOCK FALSE
INVARIANTS
    OnlyApprovedDeployed
    GovernedDeploymentsVetted
    ActiveIsExclusive
