\* One path flaps; allocations succeed and probes do not overlap.
SPECIFICATION DataSpec
CONSTANTS
    NumPaths = 2
    Ios = {i1, i2}
    Requests <- GoodRequests
    Reliable = {1}
    AllocFails = FALSE
    MaxProbes = 1
    MaxWrites = 3
INVARIANTS ProbesLeaveData
SYMMETRY Symmetry
CHECK_DEADLOCK FALSE
