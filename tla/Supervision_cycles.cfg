\* Two agents, three versions, four health checks.
SPECIFICATION Spec
CONSTANTS
    Agents = {a1, a2}
    Recs = {"ACCEPT", "RETRAIN", "ROLLBACK", "QUARANTINE", "ROTATE_KEYS", "BLOCK", "REVIEW", "UNKNOWN"}
    MaxFailures = 2
    MaxVersions = 3
    MaxCycles = 4
    MaxOps = 2
SYMMETRY Symmetry
CHECK_DEADLOCK FALSE
INVARIANTS
    FailsClosed
    RecoveryIsReal
