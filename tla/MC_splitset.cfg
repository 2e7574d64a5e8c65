SPECIFICATION Spec
CONSTANTS
    Procs = {p1, p2}
    worker = worker
    pod = pod
    Containers = {worker, pod}
    Pods = {pod}
    Remote = {}
    HostNet = {}
    Addr = {1, 2, 3}
    Prefixes <- MCPrefixes
    Entries <- MCEntries
    Selects <- MCSelects
    NetOf <- MCNetOf
    FirstIp <- MCFirstIp
    None = None
    Budget <- MCBudget
INVARIANTS TypeOK SyncExact NoStaleBypass ClearStays
PROPERTIES KeepsRunning
SYMMETRY Symmetric
