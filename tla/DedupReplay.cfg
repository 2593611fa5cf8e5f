SPECIFICATION Spec
CONSTANTS
    Frames = {f1, f2, f3, f4, big}
    Oversized = {big}
    MaxEntries = 3
    TTL = 3
    PruneEvery = 2
    MaxNow = 6
SYMMETRY Symmetry
INVARIANTS DedupInv ReplayWindow
CHECK_DEADLOCK FALSE
