SPECIFICATION Spec
CONSTANTS
    Xfers = {t1, t2}
    Iso = {t1}
    Empty = {}
CHECK_DEADLOCK FALSE
INVARIANT ConcurrentSubmitsSafe
