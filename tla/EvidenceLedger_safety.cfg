\* API and worker processes at the hosted ledger, threads at the platform ledger,
\* the CLI beside the API at the platform ledger.
CONSTANTS
    w1 = w1
    w2 = w2
    p1 = p1
    p2 = p2
    Writers = {w1, w2}
    Procs = {p1, p2}
    Deployments <- All
    Events = {e1}
    Packets = {k1, k2}
    MaxLines = 4
    MaxFaults = 2
    None = None
SPECIFICATION Spec
CHECK_DEADLOCK FALSE
INVARIANTS
    ChainIntact
    OnceIsOnce
    AckedIsOnChain
