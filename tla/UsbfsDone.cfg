SPECIFICATION Spec
CONSTANTS
    Xfers = {t1, t2}
    Bulk = {}
    MaxSubmits = 1
    MaxReapers = 2
    MaxResets = 0
    Faults = {"unplug"}
CHECK_DEADLOCK FALSE
INVARIANT DoneMeansStopped
