SPECIFICATION Spec
CONSTANTS
    r1 = r1
    r2 = r2
    Relays = {r1, r2}
    NoRelay = NoRelay
    FileDns = TRUE
    HasV6 = TRUE
    HasGw6 = TRUE
    InitSvm = 0
    OtherWg = FALSE
    Options <- ThreeOptions
    Budget <- Everything
INVARIANTS TypeOK FailClosed RouteFailClosed KillSwitch RollbackClean DisconnectRestores Traceable SplitConnectRecovers
