\* The subsystem, its reservations and its controllers, each by itself.
SPECIFICATION Spec
CONSTANTS
    qa = qa  qi = qi  q1 = q1  q2 = q2
    c1 = c1  c2 = c2
    h1 = h1  h2 = h2  h3 = h3
    k1 = k1  k2 = k2
    NumGroups = 2
    Nsids = {n1}
    Qpairs = {qa, qi}
    AdminQpairs = {qa}
    Requests = {r1, r2}
    Changers = {c1, c2}
    ChangerKinds <- Pairs
    Placement <- Place
    CounterMod = 4
    NoNs = NoNs
    Hosts = {h1, h2, h3}
    Clients = {h1, h2}
    HomeCopy <- Copy
    NumCopies = 2
    ResKeys = {k1, k2}
    ResTypes = {1, 4, 5}
    MaxRegistrants = 2
    MaxRestarts = 1
    MaxCommands = 3
    SavedFiles <- Files
    NoHost = NoHost
    AdminQ = qa
    IoQs = {q1, q2}
    Qid <- QueueIds
    GroupOfQ <- QueueGroup
    NumPgs = 2
    CmQs = {qa}
    BusyQs = {q1, q2}
    MaxResets = 1
SYMMETRY Sym
INVARIANTS TargetTypeOK SettledSubsystem PauseAccounting ReservationEnforced ControllerLife
PROPERTIES RemovedQuiet ReservationSteps
CHECK_DEADLOCK FALSE
