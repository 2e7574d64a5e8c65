SPECIFICATION Spec
CONSTANTS
    a = a  b = b  c = c  d = d  x = x  y = y
    byName = byName  osaka = osaka  malmo = malmo
    Relays = {a, b, c, d, x, y}
    Queries = {byName, osaka, malmo}
    Scope <- Scopes
    FirstAlive = {a, c, y}
    NoPort = {d}
    Exact = {byName}
    None = None
    Asks <- AllAsks
    Budget <- TwoOneOne
INVARIANTS StaysDown InScope
PROPERTIES LeavesDead  FailsOver
