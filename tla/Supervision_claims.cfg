\* Claims of the sources that TLC refutes, each on its own.  TLC stops at the first
\* counterexample: leave one of them in to see its behaviour.
SPECIFICATION Spec
CONSTANTS
    Agents = {a1, a2}
    Recs = {"ACCEPT", "RETRAIN", "ROLLBACK", "QUARANTINE", "ROTATE_KEYS", "BLOCK", "REVIEW", "UNKNOWN"}
    MaxFailures = 2
    MaxVersions = 3
    MaxCycles = 4
    MaxOps = 2
SYMMETRY Symmetry
CHECK_DEADLOCK FALSE
INVARIANTS
    RetriesEnd
    LossIsNotAccepted
    RetrainedIsPromoted
