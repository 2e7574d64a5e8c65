SPECIFICATION Spec
CONSTANTS
    EventCap = 2
    SockCap = 1
    MaxChanges = 2
    MaxFails = 2
    MaxFailover = 1
    MaxSignals = 1
PROPERTIES FollowsRoute RedialRetried StopsOnSignal
CHECK_DEADLOCK FALSE
