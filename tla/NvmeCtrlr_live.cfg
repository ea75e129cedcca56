SPECIFICATION FairSpec
CONSTANTS
    NumThreads = 1
    Namespaces = {n1}
    Resets = {r1}
    Sequences = {s1, s2}
    MaxOrphans = 1
    None = None
    Options <- AllKinds
PROPERTIES
    StartedResetAnswered
    DestructedIsDeleted
CHECK_DEADLOCK FALSE
