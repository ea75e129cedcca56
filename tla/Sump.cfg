\* The registry, with a counter array of two elements that the third path of a
\* namespace overflows, and the statistics, with two latencies remembered.
SPECIFICATION SumpSpec
CONSTANTS
    b1 = b1
    b2 = b2
    b3 = b3
    b4 = b4
    u1 = u1
    u2 = u2
    Threads = {t1, t2}
    Bdevs = {b1, b2, b3, b4}
    Uuids = {u1, u2}
    UuidOf <- UuidOfBdevs
    CountSlots = 2
    Errors = {"calloc_bdev", "calloc_path", "register", "get_io_channel"}
    MaxPollers = 2
    NumPaths = 3
    OtherPaths = 4
    Policies = {"hash", "round_robin", "service_time", "queue_length", "random", "weighted"}
    Offsets = {0, 1}
    Latencies = {1, 4}
    Window = 2
    CounterMod = 8
    MaxIos = 3
    MaxFailures = 1
INVARIANTS SumpTypeOK RegistryShape CountPollers FaultsHaveCauses QueuesDescribeTheirLists RoundRobinReachesAll
PROPERTIES QueueLengthBalances
SYMMETRY Symmetry
CHECK_DEADLOCK FALSE
