SPECIFICATION Spec
CONSTANTS
    r1 = r1
    r2 = r2
    Relays = {r1, r2}
    NoRelay = NoRelay
    FileDns = FALSE
    HasV6 = FALSE
    HasGw6 = FALSE
    InitSvm = 0
    OtherWg = FALSE
    Options <- SplitShimOptions
    Budget <- OneFailure
INVARIANTS FailClosed
