\* Any path may fail, allocations too, and probes may overlap.
SPECIFICATION DataSpec
CONSTANTS
    NumPaths = 2
    Ios = {i1, i2}
    Requests <- AllRequests
    Reliable = {}
    AllocFails = TRUE
    MaxProbes = 2
    MaxWrites = 3
INVARIANTS DataTypeOK ExactlyOnce LostOnlyWithoutPath FailedPathsSupervised FreedOnlyWhenOverlapped CurrentUnlessReplayed
PROPERTIES DispatchedToAvailable DeviceSpec
SYMMETRY Symmetry
CHECK_DEADLOCK FALSE
