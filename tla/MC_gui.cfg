SPECIFICATION Spec
CONSTANTS
    Pids = {p}
    Apps = {a}
    None = None
    Uses = {"relays", "add", "rm", "group", "run", "open", "button", "login",
            "logout", "device", "favorite", "hide", "show", "quit", "disconnect"}
    Budget = 3
INVARIANTS TypeOK SingleFlight BusyHasWork
PROPERTIES WindowServes
CHECK_DEADLOCK FALSE
