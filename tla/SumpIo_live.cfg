\* One path that never fails and one that flaps; allocations may fail; a probe is answered within a poll period.
SPECIFICATION FairSpec
CONSTANTS
    NumPaths = 2
    Ios = {i1, i2}
    Requests <- GoodRequests
    Reliable = {0}
    AllocFails = TRUE
    MaxProbes = 1
PROPERTIES
    EveryIoCompletes
    FailbackRecovers
CHECK_DEADLOCK FALSE
