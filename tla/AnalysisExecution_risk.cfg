CONSTANTS
    Runs = {r1}
    Workers = {w1, w2}
    NumStages = 2
    MaxAttempts = 2
    MaxFaults = 1
    NoRun = NoRun
SPECIFICATION Spec
CHECK_DEADLOCK FALSE
INVARIANT RiskCoversFindings
