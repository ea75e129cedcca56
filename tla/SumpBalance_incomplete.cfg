\* The policy that reads the counter; one failure of each path.
SPECIFICATION BalanceSpec
CONSTANTS
    NumPaths = 2
    OtherPaths = 2
    Policies = {"queue_length"}
    Offsets = {0}
    Latencies = {1}
    Window = 2
    CounterMod = 16
    MaxIos = 3
    MaxFailures = 1
INVARIANTS IncompleteCounts
CHECK_DEADLOCK FALSE
