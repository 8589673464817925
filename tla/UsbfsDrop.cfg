SPECIFICATION Spec
CONSTANTS
    Xfers = {t1, t2}
    Bulk = {}
    MaxSubmits = 1
    MaxReapers = 1
    MaxResets = 0
    Faults = {}
CHECK_DEADLOCK FALSE
SYMMETRY Symmetry
INVARIANT DropOnlyInShutdown
