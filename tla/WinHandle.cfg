SPECIFICATION FairSpec
CONSTANTS
    Callers = {p1, p2}
    Worker = w
    Ifaces = {1}
CHECK_DEADLOCK FALSE
INVARIANTS HandlesSound BufferReturned
PROPERTY CallsReturn
