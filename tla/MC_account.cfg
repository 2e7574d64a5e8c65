SPECIFICATION Spec
CONSTANTS
    Procs = {p1, p2}
    Accounts = {a1}
    Cap = 2
    MaxDev = 2
    None = None
    Budget <- FourVerbs
INVARIANTS KeyUsable NoOrphan
PROPERTIES SessionKey VerbReturns
CHECK_DEADLOCK FALSE
