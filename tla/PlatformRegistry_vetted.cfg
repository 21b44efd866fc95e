SPECIFICATION Spec
CONSTANTS
    Versions = {v1}
    Threads = {t1}
    Ops = {"promote"}
    MaxRows = 2
    MaxCalls = 2
    MaxFaults = 1
    None = None
CHECK_DEADLOCK FALSE
INVARIANTS
    EveryDeploymentVetted
