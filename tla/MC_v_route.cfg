SPECIFICATION Spec
CONSTANTS
    EventCap = 2
    SockCap = 2
    MaxChanges = 1
    MaxFails = 0
    MaxFailover = 0
    MaxSignals = 0
PROPERTIES RebuildsOnChange
CHECK_DEADLOCK FALSE
