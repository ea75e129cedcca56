\* Every transport by itself.
SPECIFICATION Spec
CONSTANTS
    t1 = t1  t2 = t2  a1 = a1  b1 = b1  b2 = b2
    TcpQps = {t1, t2}
    TcpAdmin = {t1}
    TcpSlots <- TcpQueueSlots
    TcpMixes <- TcpMixSet
    TcpPool = 1
    TcpControlMsgs = 1
    TcpParts = 2
    NoTcpReq = NoTcpReq
    q1 = q1  q2 = q2  shared = shared  r1 = r1  r2 = r2  r3 = r3  v1 = v1  v2 = v2  v3 = v3
    RdmaQps = {q1, q2}
    RdmaShared = shared
    RdmaMixes <- RdmaMixSet
    RdmaReqs = {r1, r2, r3}
    RdmaRecvs = {v1, v2, v3}
    RdmaPool = 1
    NoRdma = NoRdma
    VfuCtrlrs = 2
    VfuGroups = 2
    VfuMixes <- VfuMixSet
    VfuIds = 2
    VfuQueueMixes <- QueueMixSet
    RingSize = 4
    RearmAttempts = 3
    DoorbellMixes <- DoorbellMixSet
    s1 = s1  s2 = s2
    FcRports = {s1, s2}
    FcAssocs = 2
    FcPool = 2
    FcMixes <- FcMixSet
    h1 = h1  h2 = h2  x1 = x1  x2 = x2  x3 = x3
    FcHwqps = {h1, h2}
    FcSlots <- FcHwqpSlots
    FcBuffers = 1
    FcAbtsIds = 2
    FcReqMixes <- FcReqMixSet
    Parts = {"tcp", "rdma", "vfio", "queue", "doorbell", "fc", "fcreq"}
INVARIANTS
    TransportTypeOK
    TransportRequests
    VfuLife
    QueueLife
    WakesUp
    FcCommands
CHECK_DEADLOCK FALSE
