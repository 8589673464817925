SPECIFICATION Spec
CONSTANTS
    Devices = {d1}
    Match = {d1}
    Callers = {c1}
    QueueCap = 2
    MaxForeign = 0
    FaultSets = {{}}
CHECK_DEADLOCK FALSE
PROPERTY EveryCallbackIsNews
