SPECIFICATION FairSpec
CONSTANTS
    Xfers = {t1}
    Bulk = {}
    MaxSubmits = 2
    MaxReapers = 2
    MaxResets = 1
    Faults = {"unplug", "pipe", "epoll"}
CHECK_DEADLOCK FALSE
INVARIANTS OneReaper NoStoreIntoNilMap OneCallbackOwed
PROPERTY CloseReleases
