SPECIFICATION StoreSpec
CONSTANTS
    MaxKeys = 3
    TokenFaults = {"extract", "import"}
    Procs = {p1, p2}
    Primary = p1
    Modes = {"plain", "vault", "mock", "pkcs11"}
    MaxCalls = 4
    MaxCrashes = 1
    None = None
CHECK_DEADLOCK FALSE
INVARIANTS
    SignerCanSign
