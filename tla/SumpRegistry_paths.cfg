\* No call fails.
SPECIFICATION Spec
CONSTANTS
    b1 = b1
    b2 = b2
    b3 = b3
    b4 = b4
    u1 = u1
    u2 = u2
    Threads = {t1, t2}
    Bdevs = {b1, b2, b3, b4}
    Uuids = {u1, u2}
    UuidOf <- UuidOfBdevs
    CountSlots = 4
    Errors = {}
    MaxPollers = 2
INVARIANTS EveryChannelHasEveryPath
CHECK_DEADLOCK FALSE
