\* The parts of the NVMe bdev module, each by itself.
SPECIFICATION NvmeSpec
CONSTANTS
    NumThreads = 2
    Namespaces = {n1}
    Resets = {r1}
    Sequences = {s1, s2}
    MaxOrphans = 1
    None = None
    Options <- AllKinds
    p1 = p1  p2 = p2
    NvmePaths = {p1, p2}
    NvmeIos = {i1, i2}
    NvmeRetries = 2
    RrMinIo = 2
    MaxTicks = 2
    IoPathMixes <- PathMixSet
    d1 = d1  d2 = d2  e1 = e1  e2 = e2
    DiscoveryServices = {d1, d2}
    DiscoveredPaths = {e1, e2}
    DiscoveryMixes <- DiscoveryMixSet
    Parts = {"ctrlr", "iopath", "discovery"}
INVARIANTS
    TypeOK
    RefCounts
    OneResetAtATime
    ParkedIsContinued
    UnregisteredUnused
    PathsServeIos
    DiscoveryFollows
CHECK_DEADLOCK FALSE
