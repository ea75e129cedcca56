\* One path that never fails and one that flaps; a probe is answered within a poll period.
SPECIFICATION FairSpec
CONSTANTS
    NumPaths = 2
    Ios = {i1, i2}
    Requests <- GoodRequests
    Reliable = {0}
    AllocFails = FALSE
    MaxProbes = 1
PROPERTY EveryFailureRecovers
CHECK_DEADLOCK FALSE
