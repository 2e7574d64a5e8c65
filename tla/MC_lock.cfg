SPECIFICATION FairSpec
CONSTANTS
    p1 = p1
    p2 = p2
    a = a
    b = b
    c1 = c1
    c2 = c2
    Procs = {p1, p2}
    NoProc = NoProc
    Callers = {a, b, c1, c2}
    NoCaller = NoCaller
    ProcOf <- MCProcOf
    MaxCalls = 4
INVARIANTS MutualExclusion
PROPERTIES IsMutex AcquireReturns
CHECK_DEADLOCK FALSE
