------------------------------ MODULE NvmfRdma ------------------------------
(***************************************************************************)
(* The queue pairs of one poller of the RDMA transport (src/nvmf/rdma.c):  *)
(* the receives, the requests, the transfers and what limits them, and the *)
(* end of a queue pair, which waits for the hardware to give everything    *)
(* back.                                                                   *)
(*                                                                         *)
(* A poller is one thread: an action applies the operators from a state of *)
(* the poller to the next that one message, event or completion runs.  The *)
(* hardware completes the requests of a send queue, and the receives, in   *)
(* their order; a poll reaps completions one by one and submits what they  *)
(* have queued at its end.  A queue pair is past the connect command.      *)
(***************************************************************************)
EXTENDS Integers, Sequences, FiniteSets, SequencesExt

CONSTANTS
    RdmaQps,      \* the queue pairs of the poller
    RdmaShared,   \* the resources of a shared receive queue
    RdmaMixes,    \* [srq, reqs, recvs, depth, reads, cmds, max], see RdmaInit
    RdmaReqs,     \* all the requests of the mixes
    RdmaRecvs,    \* all their receives
    RdmaPool,     \* data buffers of the transport
    NoRdma

ASSUME RdmaPoolAssumption == RdmaPool \in Nat
ASSUME RdmaNamesAssumption == NoRdma \notin RdmaReqs \cup RdmaRecvs /\ RdmaShared \notin RdmaQps

VARIABLE rdma   \* the state of the poller, see RdmaInit
rdmaVars == <<rdma>>

(* data: "write", "read" in wrs elements; "icd", in the capsule; "bad", a   *)
(* wrong SGL; "both", a bidirectional opcode; "none".                       *)
NoCapsule == [data |-> "none", wrs |-> 0, fuse |-> "none"]
RdmaOwners == RdmaQps \cup {RdmaShared}

FreeRdmaReq == [st |-> "free", qp |-> NoRdma, cmd |-> NoRdma, recv |-> NoRdma, wrs |-> 0,
                buf |-> FALSE, ok |-> TRUE, xfer |-> "none", pair |-> NoRdma, failed |-> FALSE]
NewRdmaQp == [st |-> "active", ibv |-> "rts", hw |-> "rts", send |-> 0, read |-> 0, recv |-> 0,
              qd |-> 0, readq |-> <<>>, writeq |-> <<>>, sq |-> <<>>, queued |-> <<>>,
              first |-> NoRdma, lastWqe |-> FALSE, sent |-> 0]

(* mix.reqs[o] and mix.recvs[o] belong to a queue pair or are shared; the  *)
(* host sends at most mix.max[t] of the commands in mix.cmds[t] to t.      *)
RdmaInit ==
    \E mix \in RdmaMixes :
        rdma = [mix |-> mix, pool |-> RdmaPool, bufq |-> <<>>,
                req |-> [r \in RdmaReqs |-> FreeRdmaReq],
                recv |-> [v \in RdmaRecvs |-> [cmd |-> NoCapsule, qp |-> NoRdma]],
                free |-> mix.reqs, posted |-> mix.recvs, toPost |-> [o \in RdmaOwners |-> <<>>],
                incoming |-> [o \in RdmaOwners |-> <<>>],
                qp |-> [t \in RdmaQps |-> IF mix.max[t] > 0 THEN NewRdmaQp
                                           ELSE [NewRdmaQp EXCEPT !.st = "freed"]],
                crash |-> "no"]

RdmaAlive == rdma.crash = "no"
RdmaCrash(w, why) == IF w.crash = "no" THEN [w EXCEPT !.crash = why] ELSE w
Owner(w, t) == IF w.mix.srq THEN RdmaShared ELSE t
SendLimit(w, t) == 2 * w.mix.depth[t]
Without(s, x) == SelectSeq(s, LAMBDA y : y # x)
SetRdma(w, r, state) == [w EXCEPT !.req[r].st = state]
Capsule(w, r) == w.recv[w.req[r].cmd].cmd

(* The queue pair is in error, or has left the active state. *)
Dead(w, t) == w.qp[t].ibv = "err" \/ w.qp[t].st # "active"

---------------------------------------------------------------------------
(* The end of a request *)

(* _nvmf_rdma_request_free; the receive is not posted here. *)
FreeRdma(w, r, Kick(_, _)) ==
    LET p == w.req[r].pair
        t == w.req[r].qp
        back == [w EXCEPT !.pool = @ + (IF w.req[r].buf THEN 1 ELSE 0),
                          !.req[r].buf = FALSE, !.req[r].failed = FALSE, !.req[r].wrs = 0]
        kicked == IF p = NoRdma THEN back ELSE Kick([back EXCEPT !.req[p].failed = TRUE], p)
    IN  [kicked EXCEPT !.req[r].pair = NoRdma, !.req[r].st = "free", !.qp[t].qd = @ - 1,
                       !.free[Owner(w, t)] = <<r>> \o @]

(* request_transfer_out: the receive is posted again for the next command. *)
RdmaTransferOut(w, r) ==
    LET t == w.req[r].qp
        v == w.req[r].recv
        data == w.req[r].ok /\ w.req[r].xfer = "read"
        n == IF w.req[r].ok THEN w.req[r].wrs ELSE 0
        wrs == [i \in 1 .. (IF data THEN n ELSE 0) |-> [r |-> r, kind |-> "write"]]
    IN  IF v = NoRdma \/ w.qp[t].recv = 0 THEN RdmaCrash(w, "no receive")
        ELSE [w EXCEPT !.toPost[Owner(w, t)] = Append(@, v),
                       !.req[r] = [@ EXCEPT !.recv = NoRdma, !.wrs = n,
                                            !.st = IF data THEN "c2h" ELSE "completing"],
                       !.qp[t].recv = @ - 1,
                       !.qp[t].send = @ + Len(wrs) + 1,
                       !.qp[t].queued = @ \o Append(wrs, [r |-> r, kind |-> "send"])]
FailRdma(w, r) == RdmaTransferOut([w EXCEPT !.req[r].ok = FALSE], r)

(* A request of a dead queue pair leaves the queue that it waits in. *)
Unqueue(w, r) ==
    LET t == w.req[r].qp IN
    CASE w.req[r].st = "need" -> [w EXCEPT !.bufq = Without(@, r)]
      [] w.req[r].st = "h2cpend" -> [w EXCEPT !.qp[t].readq = Without(@, r)]
      [] w.req[r].st = "c2hpend" -> [w EXCEPT !.qp[t].writeq = Without(@, r)]
      [] w.req[r].st \notin {"need", "h2cpend", "c2hpend"} -> w
FreeDead(w, r, Kick(_, _)) == FreeRdma(SetRdma(Unqueue(w, r), r, "completed"), r, Kick)

---------------------------------------------------------------------------
(* nvmf_rdma_request_process, by the state of the request *)

ExecutePair(w, r) ==
    LET p == w.req[r].pair IN
    IF w.req[p].pair = NoRdma THEN RdmaCrash(w, "fused pair")
    ELSE [SetRdma(SetRdma(w, r, "executing"), p, "executing")
             EXCEPT !.req[r].pair = NoRdma, !.req[p].pair = NoRdma]

RdmaReady(w, r) ==
    LET q == w.req[r]
        in == SetRdma(w, r, "rte")
    IN  CASE Capsule(w, r).fuse = "none" -> SetRdma(w, r, "executing")
          [] Capsule(w, r).fuse # "none" /\ q.failed -> FailRdma(in, r)
          [] Capsule(w, r).fuse # "none" /\ ~q.failed ->
               IF q.pair = NoRdma \/ w.req[q.pair].st # "rte" THEN in ELSE ExecutePair(in, r)

(* The other request of a pair is freed, or fails, when it can go on.      *)
KickRdma(w, p) ==
    CASE w.req[p].st # "rte" -> w
      [] w.req[p].st = "rte" /\ ~Dead(w, w.req[p].qp) -> RdmaReady(w, p)
      [] w.req[p].st = "rte" /\ Dead(w, w.req[p].qp) ->
           FreeDead(w, p, LAMBDA v, x : v)
Release(w, r) == FreeRdma(w, r, KickRdma)

(* DATA_TRANSFER_TO_CONTROLLER_PENDING *)
TransferIn(w, r) ==
    LET t == w.req[r].qp
        n == w.req[r].wrs
        wrs == [i \in 1 .. n |-> [r |-> r, kind |-> "read"]]
        fits == w.qp[t].send + n <= SendLimit(w, t) /\ w.qp[t].read + n <= w.mix.reads[t]
    IN  IF Head(w.qp[t].readq) # r \/ ~fits THEN w
        ELSE [SetRdma(w, r, "h2c") EXCEPT !.qp[t].readq = Tail(@), !.qp[t].send = @ + n,
                                          !.qp[t].read = @ + n, !.qp[t].queued = @ \o wrs]

(* DATA_TRANSFER_TO_HOST_PENDING *)
TransferBack(w, r) ==
    LET t == w.req[r].qp IN
    IF Head(w.qp[t].writeq) # r \/ w.qp[t].send + w.req[r].wrs + 1 > SendLimit(w, t) THEN w
    ELSE RdmaTransferOut([w EXCEPT !.qp[t].writeq = Tail(@)], r)

(* NEED_BUFFER *)
RdmaNeedBuffer(w, r) ==
    LET t == w.req[r].qp
        data == w.req[r].xfer
        out == [w EXCEPT !.bufq = Tail(@)]
        got == [out EXCEPT !.pool = @ - 1, !.req[r].buf = TRUE, !.req[r].wrs = Capsule(w, r).wrs]
    IN  CASE Head(w.bufq) # r -> w
          [] Head(w.bufq) = r /\ data = "bad" -> FailRdma(out, r)
          [] Head(w.bufq) = r /\ data = "icd" -> RdmaReady(out, r)
          [] Head(w.bufq) = r /\ data \in {"read", "write"} ->
               CASE w.pool = 0 -> w
                 [] w.pool > 0 /\ data = "read" -> RdmaReady(got, r)
                 [] w.pool > 0 /\ data = "write" ->
                      TransferIn([SetRdma(got, r, "h2cpend") EXCEPT !.qp[t].readq = Append(@, r)], r)

(* nvmf_rdma_check_fused_ordering: the first command is read again, where  *)
(* the receive lies that held it.                                          *)
RdmaFusedOrdering(w, r) ==
    LET t == w.req[r].qp
        f == w.qp[t].first
        last == IF f = NoRdma THEN "none" ELSE Capsule(w, f).fuse
        next == Capsule(w, r).fuse
        unpaired == [KickRdma([w EXCEPT !.req[f].failed = TRUE], f) EXCEPT !.qp[t].first = NoRdma]
        known == IF last = "first" THEN unpaired ELSE w
    IN  CASE last = "second" -> RdmaCrash(w, "fused order")
          [] last = "first" /\ next = "second" ->
               [w EXCEPT !.req[f].pair = r, !.req[r].pair = f, !.qp[t].first = NoRdma]
          [] last # "second" /\ next = "first" -> [known EXCEPT !.qp[t].first = r]
          [] last = "none" /\ next = "second" ->
               [w EXCEPT !.req[r].failed = TRUE]
          [] last # "second" /\ next = "none" -> known

RdmaOrdered(w, r) ==
    LET data == Capsule(w, r).data IN
    CASE data = "both" -> FailRdma(w, r)
      [] data = "none" -> RdmaReady(w, r)
      [] data \notin {"both", "none"} ->
           RdmaNeedBuffer([SetRdma(w, r, "need") EXCEPT !.bufq = Append(@, r)], r)
NewRdma(w, r) == RdmaOrdered(RdmaFusedOrdering(w, r), r)

(* EXECUTED: a read goes to the queue of the transfers to the host. *)
Executed(w, r) ==
    LET t == w.req[r].qp IN
    IF w.req[r].ok /\ w.req[r].xfer = "read"
    THEN TransferBack([SetRdma(w, r, "c2hpend") EXCEPT !.qp[t].writeq = Append(@, r)], r)
    ELSE RdmaTransferOut(w, r)

ProcessRdma(w, r) ==
    LET st == w.req[r].st IN
    IF Dead(w, w.req[r].qp) THEN FreeDead(w, r, KickRdma)
    ELSE CASE st = "new" -> NewRdma(w, r)
           [] st = "need" -> RdmaNeedBuffer(w, r)
           [] st = "h2cpend" -> TransferIn(w, r)
           [] st = "c2hpend" -> TransferBack(w, r)
           [] st = "rte" -> RdmaReady(w, r)
           [] st = "executed" -> Executed(w, r)
           [] st = "rtc" -> RdmaTransferOut(w, r)
           [] st = "completed" -> Release(w, r)

---------------------------------------------------------------------------
(* nvmf_rdma_qpair_process_pending and nvmf_rdma_destroy_drained_qpair *)

(* A queue is walked until a request makes no progress, or to its end. *)
Walked(v, r, before, drain) == [w |-> v, on |-> drain \/ v.req[r].st # before]
Walk(w, queue, drain) ==
    FoldLeft(LAMBDA s, r :
                 IF s.on THEN Walked(ProcessRdma(s.w, r), r, s.w.req[r].st, drain) ELSE s,
             [w |-> w, on |-> TRUE], queue).w
WalkReads(w, t, drain) == Walk(w, w.qp[t].readq, drain)
WalkWrites(w, t, drain) == Walk(w, w.qp[t].writeq, drain)
WalkBuffers(w, drain) == Walk(w, w.bufq, drain)

(* A free request is taken for the command that came last. *)
TakeIncoming(w, o) ==
    LET r == Head(w.free[o])
        v == Head(w.incoming[o])
        t == IF w.mix.srq THEN w.recv[v].qp ELSE o
        data == w.recv[v].cmd.data
    IN  IF w.free[o] = <<>> \/ w.incoming[o] = <<>> THEN w
        ELSE ProcessRdma([w EXCEPT !.free[o] = Tail(@), !.incoming[o] = Tail(@),
                                   !.req[r] = [@ EXCEPT !.st = "new", !.qp = t, !.recv = v,
                                                        !.cmd = v, !.ok = TRUE, !.xfer = data],
                                   !.qp[t].qd = @ + 1], r)

TakeAll(w, o) == FoldLeft(LAMBDA v, i : TakeIncoming(v, o), w, w.incoming[o])
ProcessPending(w, t, drain) ==
    TakeAll(WalkBuffers(WalkWrites(WalkReads(w, t, drain), t, drain), drain), Owner(w, t))

(* nvmf_rdma_qpair_destroy: the requests that are not free are completed,  *)
(* what has come for the queue pair goes back to the shared queue.         *)
ReturnIncoming(w, t, o) ==
    LET mine == SelectSeq(w.incoming[o], LAMBDA v : w.recv[v].qp = t)
    IN  IF w.qp[t].qd # 0 THEN RdmaCrash(w, "queue depth")
        ELSE [w EXCEPT !.qp[t].st = "freed",
                       !.incoming[o] = SelectSeq(@, LAMBDA v : w.recv[v].qp # t),
                       !.posted[o] = IF w.mix.srq THEN @ \o mine ELSE @]
DestroyRdma(w, t) ==
    LET complete(v, r) == IF v.req[r].qp = t /\ v.req[r].st # "free" THEN ProcessRdma(v, r) ELSE v
    IN  ReturnIncoming(FoldLeft(complete, w, w.mix.reqs[Owner(w, t)]), t, Owner(w, t))

RdmaDrained(w, t) ==
    /\ w.qp[t].st = "error" /\ w.qp[t].send = 0
    /\ IF w.mix.srq THEN w.qp[t].lastWqe ELSE w.qp[t].recv = w.mix.depth[t]
DestroyIfDrained(w, t) == IF RdmaDrained(w, t) THEN DestroyRdma(w, t) ELSE w
DestroyDrained(w, t) == DestroyIfDrained(ProcessPending(w, t, TRUE), t)

(* spdk_nvmf_qpair_disconnect, of a queue pair with a controller. *)
DisconnectRdma(w, t) ==
    IF w.qp[t].st = "active" THEN [w EXCEPT !.qp[t].st = "deactivating"] ELSE w

---------------------------------------------------------------------------
(* Actions: completions.  After one that succeeded, what waits goes on;    *)
(* one that failed ends the connection.                                    *)

AfterCompletion(w, t, ok) ==
    CASE w.qp[t].st # "active" -> DestroyDrained(w, t)
      [] w.qp[t].st = "active" /\ ~ok -> DisconnectRdma(w, t)
      [] w.qp[t].st = "active" /\ ok -> w
Reaped(w, t, ok) ==
    AfterCompletion(IF ok THEN ProcessPending(w, t, FALSE)
                    ELSE [w EXCEPT !.qp[t].ibv = w.qp[t].hw], t, ok)

(* A command of the host.  One beyond the depth of the queue pair ends the *)
(* connection, and its receive is put nowhere.                             *)
RdmaRecv(t, c) ==
    LET o == Owner(rdma, t)
        v == Head(rdma.posted[o])
        in == [rdma EXCEPT !.posted[o] = Tail(@), !.qp[t].sent = @ + 1,
                           !.recv[v] = [cmd |-> c, qp |-> t]]
    IN  /\ RdmaAlive /\ rdma.posted[o] # <<>> /\ rdma.qp[t].hw = "rts"
        /\ rdma.qp[t].st # "freed" /\ rdma.qp[t].sent < rdma.mix.max[t] /\ c \in rdma.mix.cmds[t]
        /\ rdma' = IF rdma.qp[t].recv >= rdma.mix.depth[t]
                   THEN Reaped(DisconnectRdma(in, t), t, TRUE)
                   ELSE Reaped([in EXCEPT !.qp[t].recv = @ + 1, !.incoming[o] = <<v>> \o @], t, TRUE)

(* One for a queue pair that is gone goes back to the shared queue. *)
LateRecv(t) ==
    LET o == RdmaShared IN
    /\ RdmaAlive /\ rdma.mix.srq /\ rdma.qp[t].st = "freed" /\ rdma.qp[t].sent < rdma.mix.max[t]
    /\ rdma.posted[o] # <<>>
    /\ rdma' = [rdma EXCEPT !.posted[o] = Append(Tail(@), Head(@)), !.qp[t].sent = @ + 1]

(* The receives of a queue pair in error are given back. *)
RecvFlushed(t) ==
    LET v == Head(rdma.posted[t])
    IN  /\ RdmaAlive /\ ~rdma.mix.srq /\ rdma.qp[t].hw = "err" /\ rdma.qp[t].st # "freed"
        /\ rdma.posted[t] # <<>>
        /\ rdma' = Reaped([rdma EXCEPT !.posted[t] = Tail(@), !.recv[v].qp = t,
                                       !.qp[t].recv = @ + 1, !.incoming[t] = <<v>> \o @], t, FALSE)

(* The transfers to the host are not signalled when they succeed: the      *)
(* response stands for them.                                               *)
SendDone(w, r, ok) ==
    LET t == w.req[r].qp
        sent == [SetRdma(w, r, "completed") EXCEPT !.qp[t].send = @ - w.req[r].wrs - 1,
                                                   !.req[r].wrs = 0]
    IN  IF ok /\ w.req[r].st \notin {"c2h", "completing"} THEN RdmaCrash(w, "not completing")
        ELSE ProcessRdma(sent, r)
DataDone(w, r, kind, ok) ==
    LET t == w.req[r].qp
        n == w.req[r].wrs - 1
        v == [w EXCEPT !.qp[t].send = @ - 1, !.req[r].wrs = n,
                       !.qp[t].read = @ - (IF kind = "read" THEN 1 ELSE 0)]
    IN  CASE w.req[r].wrs = 0 -> RdmaCrash(w, "no data outstanding")
          [] w.req[r].wrs > 0 /\ (n > 0 \/ kind = "write") -> v
          [] w.req[r].wrs > 0 /\ n = 0 /\ kind = "read" ->
               IF ok THEN ProcessRdma(SetRdma(v, r, "rte"), r) ELSE SetRdma(v, r, "completed")

SendQueue(t, ok) ==
    LET sq == rdma.qp[t].sq
        wr == Head(sq)
        size == SelectInSeq(sq, LAMBDA x : x.kind = "send" /\ x.r = wr.r)
        drop(n) == [rdma EXCEPT !.qp[t].sq = SubSeq(@, n + 1, Len(@))]
    IN  /\ RdmaAlive /\ sq # <<>> /\ (ok <=> rdma.qp[t].hw = "rts")
        /\ \/ wr.kind # "read" /\ size > 0 /\ rdma' = Reaped(SendDone(drop(size), wr.r, ok), t, ok)
           \/ (wr.kind = "read" \/ (wr.kind = "write" /\ ~ok))
              /\ rdma' = Reaped(DataDone(drop(1), wr.r, wr.kind, ok), t, ok)

(* The end of a poll: what is queued is posted.  The hardware may refuse   *)
(* the sends from some place on: _qp_reset_failed_sends.  A response that  *)
(* is queued there, for a refused transfer from the host, puts the queue   *)
(* pair a second time into the list that is being walked.                  *)
SubmitRecvs == [rdma EXCEPT !.posted = [o \in RdmaOwners |-> @[o] \o rdma.toPost[o]],
                            !.toPost = [o \in RdmaOwners |-> <<>>]]
Refused(s, wr) ==
    LET t == s.w.req[wr.r].qp
        w == [s.w EXCEPT !.qp[t].send = @ - 1,
                         !.qp[t].read = @ - (IF wr.kind = "read" THEN 1 ELSE 0)]
        st == s.w.req[wr.r].st
    IN  CASE s.prev = wr.r -> [s EXCEPT !.w = w]
          [] s.prev # wr.r /\ st = "h2c" /\ Dead(w, t) ->
               [prev |-> wr.r, w |-> ProcessRdma(w, wr.r)]
          [] s.prev # wr.r /\ st = "h2c" /\ ~Dead(w, t) ->
               [s EXCEPT !.w = RdmaCrash(w, "endless submission")]
          [] s.prev # wr.r /\ st \in {"c2h", "completing"} ->
               [prev |-> wr.r, w |-> ProcessRdma(SetRdma(w, wr.r, "completed"), wr.r)]
          [] s.prev # wr.r /\ st \notin {"h2c", "c2h", "completing"} -> [s EXCEPT !.w = w]
Submit ==
    /\ RdmaAlive
    /\ rdma' = [SubmitRecvs EXCEPT !.qp = [t \in RdmaQps |->
                  [@[t] EXCEPT !.sq = @ \o rdma.qp[t].queued, !.queued = <<>>]]]
SubmitFails(t, n) ==
    LET wrs == rdma.qp[t].queued
        kept == [rdma EXCEPT !.qp[t].sq = @ \o SubSeq(wrs, 1, n), !.qp[t].queued = <<>>]
    IN  /\ RdmaAlive /\ n < Len(wrs) /\ rdma.qp[t].st # "freed"
        /\ rdma' = DisconnectRdma(FoldLeft(Refused, [w |-> kept, prev |-> NoRdma],
                                           SubSeq(wrs, n + 1, Len(wrs))).w, t)

---------------------------------------------------------------------------
(* Actions: the target, the events of the device and of the connection *)

(* nvmf_rdma_request_complete *)
RdmaComplete(r, ok) ==
    LET w == [rdma EXCEPT !.req[r].ok = ok]
        st == IF rdma.qp[rdma.req[r].qp].ibv = "rts" THEN "executed" ELSE "completed"
    IN  /\ RdmaAlive /\ rdma.req[r].st = "executing"
        /\ rdma' = ProcessRdma(SetRdma(w, r, st), r)

(* nvmf_rdma_request_free: an asynchronous event request, or one queued by *)
(* the target, of a queue pair that is disconnected.                       *)
RdmaFree(r) ==
    LET t == rdma.req[r].qp
        v == rdma.req[r].recv
        w == IF rdma.mix.srq /\ v # NoRdma
             THEN [rdma EXCEPT !.posted[RdmaShared] = Append(@, v), !.req[r].recv = NoRdma] ELSE rdma
    IN  /\ RdmaAlive /\ rdma.req[r].st = "executing" /\ rdma.qp[t].st = "deactivating"
        /\ rdma' = Release(w, r)

(* _nvmf_rdma_qpair_abort_request of a request that waits: nobody          *)
(* processes it.                                                           *)
AbortRdma(r) ==
    /\ RdmaAlive /\ rdma.req[r].st \in {"need", "h2cpend", "c2hpend"}
    /\ rdma.qp[rdma.req[r].qp].st = "active"
    /\ rdma' = [SetRdma(Unqueue(rdma, r), r, "rtc") EXCEPT !.req[r].ok = FALSE]

(* The connection fails; the device tells at some time. *)
HwError(t) ==
    /\ RdmaAlive /\ rdma.qp[t].hw = "rts" /\ rdma.qp[t].st # "freed"
    /\ rdma' = [rdma EXCEPT !.qp[t].hw = "err"]
(* nvmf_process_ib_event, nvmf_process_cm_event *)
QpEvent(t) ==
    /\ RdmaAlive /\ rdma.qp[t].hw = "err" /\ rdma.qp[t].ibv = "rts" /\ rdma.qp[t].st # "freed"
    /\ rdma' = [rdma EXCEPT !.qp[t].ibv = "err"]
DisconnectEvent(t) ==
    /\ RdmaAlive /\ rdma.qp[t].st = "active"
    /\ rdma' = DisconnectRdma([rdma EXCEPT !.qp[t].ibv = rdma.qp[t].hw], t)
(* nvmf_rdma_handle_last_wqe_reached *)
LastWqe(t) ==
    /\ RdmaAlive /\ rdma.mix.srq /\ rdma.qp[t].hw = "err" /\ ~rdma.qp[t].lastWqe
    /\ rdma.qp[t].st # "freed"
    /\ rdma' = DestroyDrained([rdma EXCEPT !.qp[t].lastWqe = TRUE], t)

(* nvmf_rdma_close_qpair, when the target has no request of it left. *)
CloseRdma(t) ==
    /\ RdmaAlive /\ rdma.qp[t].st = "deactivating"
    /\ \A r \in RdmaReqs : rdma.req[r].st = "executing" => rdma.req[r].qp # t
    /\ rdma' = DestroyDrained([rdma EXCEPT !.qp[t].st = "error", !.qp[t].hw = "err"], t)

RdmaNext ==
    \/ \E t \in RdmaQps :
         \/ \E c \in UNION {rdma.mix.cmds[u] : u \in RdmaQps} : RdmaRecv(t, c)
         \/ LateRecv(t) \/ RecvFlushed(t)
         \/ \E ok \in BOOLEAN : SendQueue(t, ok)
         \/ \E n \in 0 .. 2 : SubmitFails(t, n)
         \/ HwError(t) \/ QpEvent(t) \/ DisconnectEvent(t) \/ LastWqe(t) \/ CloseRdma(t)
    \/ \E r \in RdmaReqs :
         \/ \E ok \in BOOLEAN : RdmaComplete(r, ok)
         \/ RdmaFree(r)
         \/ AbortRdma(r)
    \/ Submit

RdmaSpec == RdmaInit /\ [][RdmaNext]_rdmaVars

---------------------------------------------------------------------------
(* Properties *)

(* The state of the poller keeps its type. *)
RdmaTypeOK ==
    /\ rdma.req \in [RdmaReqs -> [st : {"free", "new", "need", "h2cpend", "h2c", "rte", "executing",
                                        "c2hpend", "c2h", "rtc", "completing", "completed"},
                                  qp : RdmaQps \cup {NoRdma}, cmd : RdmaRecvs \cup {NoRdma},
                                  recv : RdmaRecvs \cup {NoRdma}, wrs : Nat, buf : BOOLEAN,
                                  ok : BOOLEAN, pair : RdmaReqs \cup {NoRdma}, failed : BOOLEAN,
                                  xfer : {"none", "read", "write", "icd", "bad", "both"}]]
    /\ \A t \in RdmaQps : /\ rdma.qp[t].st \in {"active", "deactivating", "error", "freed"}
                           /\ rdma.qp[t].send \in Nat /\ rdma.qp[t].recv \in Nat
                           /\ rdma.qp[t].qd \in 0 .. Cardinality(RdmaReqs)
    /\ rdma.pool \in 0 .. RdmaPool

Holds(queue, S) == ToSet(queue) = S /\ Len(queue) = Cardinality(S)
In(st, t) == {r \in RdmaReqs : rdma.req[r].st = st /\ rdma.req[r].qp = t}

(* A request is once in the queue of its state, and in no other, also when *)
(* it is aborted or dropped with its connection; qd counts the requests of *)
(* a queue pair that are not free.                                         *)
RequestsQueued ==
    RdmaAlive =>
        /\ Holds(rdma.bufq, {r \in RdmaReqs : rdma.req[r].st = "need"})
        /\ \A t \in RdmaQps :
             /\ Holds(rdma.qp[t].readq, In("h2cpend", t))
             /\ Holds(rdma.qp[t].writeq, In("c2hpend", t))
             /\ rdma.qp[t].qd = Cardinality({r \in RdmaReqs : rdma.req[r].qp = t} \ In("free", t))
        /\ \A o \in RdmaOwners :
             Holds(rdma.free[o], {r \in ToSet(rdma.mix.reqs[o]) : rdma.req[r].st = "free"})

(* The depths of a queue pair count what the hardware still has of it; the *)
(* limit on reads is kept.  A receive is never in two places, a data       *)
(* buffer never lost, and nothing of a freed queue pair is left.           *)
DepthsAccounted ==
    RdmaAlive =>
        \A t \in RdmaQps :
            LET q == rdma.qp[t]
                wrs == q.sq \o q.queued
            IN  /\ q.send = Len(wrs)
                /\ q.read = Len(SelectSeq(wrs, LAMBDA x : x.kind = "read"))
                /\ q.read <= rdma.mix.reads[t]
                /\ ~rdma.mix.srq /\ rdma.mix.max[t] > 0 => q.recv + Len(rdma.posted[t]) + Len(rdma.toPost[t]) = rdma.mix.depth[t]
                /\ q.st = "freed" => wrs = <<>> /\ q.qd = 0 /\ q.readq = <<>> /\ q.writeq = <<>>
Held == {rdma.req[r].recv : r \in {x \in RdmaReqs : rdma.req[x].st # "free"}} \ {NoRdma}
ReceivesAccounted ==
    RdmaAlive =>
        /\ rdma.pool + Cardinality({r \in RdmaReqs : rdma.req[r].buf}) = RdmaPool
        /\ \A o \in RdmaOwners :
             LET s == rdma.posted[o] \o rdma.toPost[o] \o rdma.incoming[o]
             IN  Len(s) = Cardinality(ToSet(s)) /\ ToSet(s) \cap Held = {}

(* A run ends badly only for a fused command that is read where another    *)
(* one has been received, or after the hardware has refused some sends.    *)
RdmaCrashesHaveCauses ==
    rdma.crash \in {"no", "fused order", "endless submission", "no data outstanding"}

(* A shared receive is held by a request, posted, about to be posted, or   *)
(* waits with its command, as long as no queue pair has failed or been     *)
(* disconnected: the receives of the commands that are then dropped are    *)
(* not posted again.                                                       *)
SharedRecvsReturned ==
    RdmaAlive /\ rdma.mix.srq =>
        LET o == RdmaShared IN
        \/ \E t \in RdmaQps : rdma.mix.max[t] > 0 /\ Dead(rdma, t)
        \/ ToSet(rdma.mix.recvs[o]) =
               Held \cup ToSet(rdma.posted[o] \o rdma.toPost[o] \o rdma.incoming[o])

RdmaRequests ==
    /\ RequestsQueued /\ DepthsAccounted /\ ReceivesAccounted /\ RdmaCrashesHaveCauses
    /\ SharedRecvsReturned
=============================================================================
