SPECIFICATION MCSpec
CONSTANTS
    Devices = {d1, d2}
    Match = {d1}
    Callers = {c1, c2}
    QueueCap = 2
    MaxForeign = 1
    FaultSets = {{}, {"lingering", "overrun", "list", "epoll"}}
    Procs = {p1, p2}
    Ifaces = {i1, i2}
    Fds = {3, 4}
    MaxOpens = 2
    MaxRetries = 1
CHECK_DEADLOCK FALSE
INVARIANTS TypeOK ClaimsAccounted TransfersSafe ViewIsCurrent
PROPERTIES CallbacksOrdered NothingStuck
