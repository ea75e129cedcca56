SPECIFICATION Spec
CONSTANTS
    NumThreads = 2
    Namespaces = {n1}
    Resets = {r1}
    Sequences = {s1, s2}
    MaxOrphans = 1
    None = None
    Options <- SimpleKinds
INVARIANT PendingResetsCleared
CHECK_DEADLOCK FALSE
