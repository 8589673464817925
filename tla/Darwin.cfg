SPECIFICATION MCSpec
CONSTANTS
    Cap = 2
    MaxReports = 5
    Readers = {r1, r2}
    Xfers = {b1, b2, i1}
    Iso = {i1}
    Empty = {b1, b2}
    Together = {{b1, b2}, {b1, i1}}
    Locations = {l1, l2}
    MaxPlugs = 3
    Match = {1, 3}
    Ifaces = {v1, v2, h1, k1}
    Seized = {h1, k1}
    Keyboards = {k1}
    Users = {u1, u2}
    Blocking = {u2}
    MaxClaims = 2
    MaxCalls = 2
CHECK_DEADLOCK FALSE
INVARIANTS ReportsIntact PumpSound WatchSound HandleClaims HandleCalls
PROPERTIES CallsReturn WatchImplementsContract
