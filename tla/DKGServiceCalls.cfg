SPECIFICATION FairSpec
CONSTANTS
    None = None
    Services = {s1, s2, s3}
    Writers = {s1, s2}
    Sources = {s1, s3}
    Callers = {c1, c2}
    Keys = {k1}
    Handles = {h1, h2}
    Materials = {m1, m2}
INVARIANTS ServiceInv MaterialSpentOnce BurnedNotReissued RunKeyExclusive OwnShareSaved SuccessIsStored
PROPERTIES NoShareDropped KeyReleased
CHECK_DEADLOCK FALSE
