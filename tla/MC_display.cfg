SPECIFICATION Spec
CONSTANTS
    TrayCap = 2
    None = None
    Trays = {"none", "sni", "xembed", "menubar"}
    Budget = 3
INVARIANTS SwitchWaits
PROPERTIES ShowOpens DisplayConverges
CHECK_DEADLOCK FALSE
