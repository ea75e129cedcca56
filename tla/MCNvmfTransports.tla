-------------------------- MODULE MCNvmfTransports --------------------------
(* The transports of the target for model checking.  They share no state:  *)
(* part names the one that moves, the others keep an initial state.        *)
EXTENDS NvmfTcp, NvmfRdma, NvmfVfioUser, NvmfVfioQueue, NvmfVfioDoorbell, NvmfFc, NvmfFcReq, TLC

CONSTANTS
    t1, t2, a1, b1, b2,                         \* TCP queue pairs and their requests
    q1, q2, shared, r1, r2, r3, v1, v2, v3,     \* RDMA queue pairs, requests and receives
    s1, s2, h1, h2, x1, x2, x3,                 \* FC remote ports, hardware queues and commands
    Parts                                       \* the parts to check

VARIABLE part

(* TCP: an admin queue pair with one request, an I/O queue pair with two.  *)
TcpQueueSlots == (t1 :> <<a1>>) @@ (t2 :> <<b1, b2>>)
TcpCommandOf(data, zcopy, fuse) == [data |-> data, zcopy |-> zcopy, fuse |-> fuse]
PlainTcp(data) == TcpCommandOf(data, FALSE, "none")
TcpMix(m, a, n, b) == [max |-> (t1 :> m) @@ (t2 :> n), cmds |-> (t1 :> a) @@ (t2 :> b)]
(* Commands of every kind; waits for the one buffer of the pool across     *)
(* queue pairs; control messages; zero copy; fused commands.               *)
TcpMixSet ==
    {TcpMix(0, {}, 3, {PlainTcp("write"), PlainTcp("icd"), PlainTcp("read")}),
     TcpMix(1, {PlainTcp("read")}, 1, {PlainTcp("bad"), PlainTcp("badicd"), PlainTcp("read")}),
     TcpMix(1, {PlainTcp("big")}, 2, {PlainTcp("big")}),
     TcpMix(0, {}, 2, {TcpCommandOf("read", TRUE, "none"), TcpCommandOf("write", TRUE, "none"), PlainTcp("both")}),
     TcpMix(0, {}, 3, {TcpCommandOf("write", FALSE, "first"), TcpCommandOf("icd", FALSE, "second"),
                       PlainTcp("none")})}

(* RDMA: queue pairs of depth 2 and 1, with their own resources or with    *)
(* two of each on a shared receive queue.                                  *)
RdmaOwn(a, b, c) == (q1 :> a) @@ (q2 :> b) @@ (shared :> c)
RdmaEach(a, b) == (q1 :> a) @@ (q2 :> b)
RdmaCapsule(data, wrs, fuse) == [data |-> data, wrs |-> wrs, fuse |-> fuse]
PlainRdma(data, wrs) == RdmaCapsule(data, wrs, "none")
RdmaMix(srq, a, m, b, n) ==
    [srq   |-> srq,
     reqs  |-> IF srq THEN RdmaOwn(<<>>, <<>>, <<r1, r2>>) ELSE RdmaOwn(<<r1, r2>>, <<r3>>, <<>>),
     recvs |-> IF srq THEN RdmaOwn(<<>>, <<>>, <<v1, v2>>) ELSE RdmaOwn(<<v1, v2>>, <<v3>>, <<>>),
     depth |-> RdmaEach(2, 1), reads |-> RdmaEach(2, 2),
     cmds  |-> RdmaEach(a, b), max |-> RdmaEach(m, n)]
RdmaMixSet ==
    {RdmaMix(FALSE, {PlainRdma("write", 1), PlainRdma("read", 2)}, 3, {}, 0),
     RdmaMix(FALSE, {PlainRdma("write", 2), PlainRdma("icd", 0)}, 2, {}, 0),
     RdmaMix(FALSE, {PlainRdma("write", 3)}, 2, {}, 0),
     RdmaMix(FALSE, {PlainRdma("write", 1)}, 1, {PlainRdma("read", 1)}, 1),
     RdmaMix(FALSE, {}, 0, {PlainRdma("both", 0), PlainRdma("bad", 1), PlainRdma("write", 1)}, 2),
     RdmaMix(FALSE, {RdmaCapsule("write", 1, "first"), RdmaCapsule("icd", 0, "second"),
                     PlainRdma("none", 0)}, 3, {}, 0),
     RdmaMix(TRUE, {}, 0, {PlainRdma("none", 0), PlainRdma("write", 1)}, 2),
     RdmaMix(TRUE, {PlainRdma("none", 0)}, 1, {PlainRdma("none", 0)}, 1)}

(* vfio-user: clients that migrate, RPCs that pause the subsystem, the     *)
(* removal of the listener; queues under resets and losses of the guest,   *)
(* and under removals of its memory; interrupt and polling mode.           *)
VfuMix(c, q, r, f, e) == [ctrlrs |-> c, requests |-> q, rpcs |-> r, faults |-> f, removals |-> e]
VfuMixSet == {VfuMix(2, 3, 0, 0, 0), VfuMix(2, 2, 1, 0, 0), VfuMix(1, 2, 1, 1, 1)}
QueueMix(c, r, m, l, k, f) ==
    [creates |-> c, resets |-> r, removals |-> m, losses |-> l, commands |-> k, faults |-> f]
QueueMixSet == {QueueMix(3, 1, 1, 0, 1, 1), QueueMix(3, 1, 0, 1, 1, 0)}
DoorbellMix(i, c, p, r) == [intr |-> i, commands |-> c, pauses |-> p, creates |-> r]
DoorbellMixSet == {DoorbellMix(TRUE, 5, 1, 0), DoorbellMix(FALSE, 5, 0, 0), DoorbellMix(FALSE, 4, 0, 1)}

(* FC: LS requests, deletions of remote ports and of the local port with   *)
(* failures; commands under ABTS and deletions, with and without queue     *)
(* synchronisation, event requests, exchanges for all commands or for one, *)
(* and a port that dies.                                                   *)
FcMix(r, a, l, i, n, s, c, f) ==
    [rports |-> r, assocs |-> a, ls |-> l, its |-> i, nports |-> n, losses |-> s, commands |-> c, faults |-> f]
FcMixSet == {FcMix(2, 2, 1, 1, 1, 0, 0, 0), FcMix(1, 1, 2, 1, 0, 1, 1, 1), FcMix(3, 1, 0, 1, 2, 0, 0, 1)}
FcHwqpSlots == (h1 :> {x1, x2}) @@ (h2 :> {x3})
FcReqMix(c, m, a, d, f, x, s, g) ==
    [cmds |-> c, max |-> m, abts |-> a, dels |-> d, faults |-> f, dead |-> x, sync |-> s, xchgs |-> g]
FcReqMixSet ==
    {FcReqMix({"read", "write"}, 2, 1, 1, 1, FALSE, TRUE, 2), FcReqMix({"none"}, 2, 2, 0, 0, FALSE, FALSE, 2),
     FcReqMix({"aer", "none"}, 2, 1, 1, 0, FALSE, TRUE, 2), FcReqMix({"aer", "none"}, 2, 1, 1, 0, FALSE, TRUE, 1),
     FcReqMix({"write"}, 1, 1, 1, 0, TRUE, TRUE, 2), FcReqMix({"write"}, 2, 0, 1, 0, TRUE, TRUE, 1)}

vars == <<part, tcp, rdma, vfu, vq, db, fc, fcr>>

(* The initial states of a part, or one of them when another part moves.   *)
Init ==
    /\ part \in Parts
    /\ TcpInit /\ RdmaInit /\ VfuInit /\ QueueInit /\ DoorbellInit /\ FcInit /\ FcReqInit
    /\ part = "tcp"      \/ tcp.mix = CHOOSE mix \in TcpMixes : TRUE
    /\ part = "rdma"     \/ rdma.mix = CHOOSE mix \in RdmaMixes : TRUE
    /\ part = "vfio"     \/ vfu.left = CHOOSE mix \in VfuMixes : TRUE
    /\ part = "queue"    \/ vq.left = CHOOSE mix \in VfuQueueMixes : TRUE
    /\ part = "doorbell" \/ db.left = CHOOSE mix \in DoorbellMixes : TRUE
    /\ part = "fc"       \/ fc.left = CHOOSE mix \in FcMixes : TRUE
    /\ part = "fcreq"    \/ fcr.left = CHOOSE mix \in FcReqMixes : TRUE

Next ==
    \/ part = "tcp" /\ TcpNext /\ UNCHANGED <<part, rdma, vfu, vq, db, fc, fcr>>
    \/ part = "rdma" /\ RdmaNext /\ UNCHANGED <<part, tcp, vfu, vq, db, fc, fcr>>
    \/ part = "vfio" /\ VfuNext /\ UNCHANGED <<part, tcp, rdma, vq, db, fc, fcr>>
    \/ part = "queue" /\ QueueNext /\ UNCHANGED <<part, tcp, rdma, vfu, db, fc, fcr>>
    \/ part = "doorbell" /\ DoorbellNext /\ UNCHANGED <<part, tcp, rdma, vfu, vq, fc, fcr>>
    \/ part = "fc" /\ FcNext /\ UNCHANGED <<part, tcp, rdma, vfu, vq, db, fcr>>
    \/ part = "fcreq" /\ FcReqNext /\ UNCHANGED <<part, tcp, rdma, vfu, vq, db, fc>>

Spec == Init /\ [][Next]_vars

(* The types of every transport, each explained in its module; the parts   *)
(* that do not move keep theirs.                                           *)
TransportTypeOK ==
    /\ part = "tcp"      => TcpTypeOK
    /\ part = "rdma"     => RdmaTypeOK
    /\ part = "vfio"     => VfuTypeOK
    /\ part = "queue"    => QueueTypeOK
    /\ part = "doorbell" => DoorbellTypeOK
    /\ part = "fc"       => FcTypeOK
    /\ part = "fcreq"    => FcReqTypeOK

(* TCP and RDMA account for their requests, buffers and completions; FC    *)
(* ends every deletion of an association it has begun, and answers the LS  *)
(* requests that wait for it.  The parts are explained in NvmfTcp,         *)
(* NvmfRdma and NvmfFc.                                                    *)
TransportRequests ==
    /\ part = "tcp"  => TcpRequests
    /\ part = "rdma" => RdmaRequests
    /\ part = "fc"   => FcLinks
=============================================================================
