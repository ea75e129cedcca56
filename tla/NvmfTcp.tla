------------------------------ MODULE NvmfTcp ------------------------------
(***************************************************************************)
(* The queue pairs of one poll group of the TCP transport                  *)
(* (src/nvmf/tcp.c): the PDUs that a connection receives, the requests     *)
(* they start, the buffers the requests wait for, the PDUs that answer     *)
(* them, and what is left of all this when the connection ends.            *)
(*                                                                         *)
(* A poll group is one thread.  What runs on it without a break is an      *)
(* operator from a state of the group to the next, and an action applies   *)
(* one of them: a PDU is read, a write or a digest is completed, the       *)
(* target completes a command, the group is polled, a timer expires.       *)
(*                                                                         *)
(* A failed assertion or a use of freed memory ends the run: see crash.    *)
(***************************************************************************)
EXTENDS Integers, Sequences, FiniteSets, SequencesExt

CONSTANTS
    TcpQps,          \* the queue pairs of the group
    TcpAdmin,        \* those of them with qid 0
    TcpSlots,        \* TcpSlots[t]: the requests of t, in their first order
    TcpMixes,        \* [cmds, max]: what the hosts may send to each queue pair, and how often
    TcpPool,         \* data buffers of the transport
    TcpControlMsgs,  \* buffers of the control message list
    TcpParts,        \* H2C data PDUs in which a host sends the data of an R2T
    NoTcpReq

TcpReqs == UNION {ToSet(TcpSlots[t]) : t \in TcpQps}
TcpQpOf(r) == CHOOSE t \in TcpQps : r \in ToSet(TcpSlots[t])

ASSUME TcpSlotsAssumption ==
    \A t, u \in TcpQps : t # u => ToSet(TcpSlots[t]) \cap ToSet(TcpSlots[u]) = {}
ASSUME TcpPoolAssumption == TcpPool \in Nat /\ TcpControlMsgs \in Nat
ASSUME NoTcpReqAssumption == NoTcpReq \notin TcpReqs

VARIABLE tcp   \* the state of the group, see TcpInit
tcpVars == <<tcp>>

(* data: "read"; "write", whose data an R2T asks for; "icd", in the capsule; *)
(* "big", in a capsule that needs a control message; "bad", a wrong SGL, and *)
(* "badicd", one of data in a capsule; "both", a bidirectional opcode;       *)
(* "none".                                                                   *)
TcpCommand == [data : {"none", "read", "write", "icd", "big", "bad", "badicd", "both"},
               zcopy : BOOLEAN, fuse : {"none", "first", "second"}]
NoCommand == [data |-> "none", zcopy |-> FALSE, fuse |-> "none"]
InCapsule(c) == c.data \in {"icd", "big", "badicd"}
FromHost(c) == c.data \in {"icd", "big", "badicd", "write"}

FreeTcpReq == [st |-> "free", cmd |-> NoCommand, n |-> 0, inUse |-> "no", after |-> "resp",
               buf |-> "none", err |-> "no", got |-> 0, host |-> 0, pair |-> NoTcpReq, failed |-> FALSE]
EmptyPdu == [type |-> "empty", cmd |-> NoCommand, req |-> NoTcpReq, n |-> 0]
NullPdu == [EmptyPdu EXCEPT !.type = "null"]
NewTcpQp(t) == [st |-> "invalid", recv |-> "ready", pdu |-> EmptyPdu, pdus |-> Len(TcpSlots[t]) - 1,
                idle |-> TcpSlots[t], active |-> TRUE, first |-> NoTcpReq, digest |-> FALSE,
                crc |-> {}, timer |-> FALSE, received |-> 0]

TcpInit ==
    \E mix \in TcpMixes :
      tcp = [req |-> [r \in TcpReqs |-> FreeTcpReq], queue |-> <<>>,
             pool |-> TcpPool, ctl |-> TcpControlMsgs,
             qp |-> [t \in TcpQps |-> IF mix.cmds[t] # {} THEN NewTcpQp(t)
                                      ELSE [NewTcpQp(t) EXCEPT !.st = "freed"]],
             mix |-> mix, sent |-> TRUE, crash |-> "no",
             seen |-> [pairs |-> {}, corrupt |-> FALSE, refused |-> FALSE, late |-> FALSE, stale |-> FALSE]]

TcpCrash(w, why) == IF w.crash = "no" THEN [w EXCEPT !.crash = why] ELSE w
TcpActive(w, r) == w.qp[TcpQpOf(r)].active
SetTcp(w, r, state) == [w EXCEPT !.req[r].st = state]
Dequeue(w, r) == [w EXCEPT !.queue = SelectSeq(@, LAMBDA x : x # r)]
Open(w, t) == w.qp[t].st \in {"invalid", "running", "exiting"}
SetRecv(w, t, recv) == [w EXCEPT !.qp[t].recv = recv]

---------------------------------------------------------------------------
(* What ends a connection *)

(* The target has a request from its execution to its completion, a zero   *)
(* copy one until its buffers are released.                                *)
WithTarget(w, r) ==
    w.req[r].st \in {"executing", "zstart", "zcommit", "zrelease"} \/ w.req[r].buf = "zcopy"

(* nvmf_tcp_req_pdu_init and the write of the PDU of a request: the digest *)
(* of its data is computed elsewhere before the socket takes it.           *)
WriteReqPdu(w, r, after) ==
    IF w.req[r].inUse # "no" THEN TcpCrash(w, "request PDU in use")
    ELSE [w EXCEPT !.req[r].after = after,
                   !.req[r].inUse = IF after = "data" /\ w.qp[TcpQpOf(r)].digest
                                    THEN "digest" ELSE "sock"]

TransferOut(w, r) ==
    WriteReqPdu(SetTcp(w, r, "c2h"), r,
                IF w.req[r].err = "no" /\ w.req[r].cmd.data = "read" THEN "data" ELSE "resp")

(* The buffers of a completed request go back to where they come from. *)
GiveBack(w, r) ==
    [w EXCEPT !.req[r].buf = "none",
              !.pool = @ + (IF w.req[r].buf = "pool" THEN 1 ELSE 0),
              !.ctl  = @ + (IF w.req[r].buf = "control" THEN 1 ELSE 0)]
(* A free request keeps its command, a pointer to it may have been left.   *)
PutTcpReq(w, r) ==
    [w EXCEPT !.req[r] = [FreeTcpReq EXCEPT !.cmd.fuse = w.req[r].cmd.fuse,
                                            !.pair = w.req[r].pair, !.failed = w.req[r].failed],
              !.qp[TcpQpOf(r)].idle = Append(@, r),
              !.seen.stale = @ \/ w.qp[TcpQpOf(r)].first = r]

(* A completed request: a zero copy buffer is released by the target, and  *)
(* a PDU that is still being written is waited for.  The other request of  *)
(* a fused pair is failed; its own pointer to the pair is left as it is.   *)
Completed(w, r, Kick(_, _)) ==
    LET p == w.req[r].pair
        back == GiveBack([w EXCEPT !.req[r].failed = FALSE], r)
        kicked == IF p = NoTcpReq THEN back ELSE Kick([back EXCEPT !.req[p].failed = TRUE], p)
    IN  CASE w.req[r].inUse # "no" ->
               IF w.req[r].cmd.zcopy /\ ~TcpActive(w, r) THEN w
               ELSE TcpCrash(w, IF w.req[r].inUse = "digest" THEN "digest of a freed queue pair"
                                ELSE "request PDU in use")
          [] w.req[r].inUse = "no" /\ w.req[r].buf = "zcopy" -> SetTcp(w, r, "zrelease")
          [] w.req[r].inUse = "no" /\ w.req[r].buf # "zcopy" ->
               PutTcpReq([kicked EXCEPT !.req[r].pair = NoTcpReq], r)
FinishAlone(w, r) == Completed(SetTcp(w, r, "completed"), r, LAMBDA v, p : v)

(* h2c_offset, in PDUs: all of the data have come and been checked. *)
GotAll(w, r) == w.req[r].got = (IF InCapsule(w.req[r].cmd) THEN 1 ELSE TcpParts)

(* spdk_nvmf_request_exec *)
Run(w, r) ==
    [SetTcp(w, r, "executing") EXCEPT
        !.seen.corrupt = @ \/ (FromHost(w.req[r].cmd) /\ (w.req[r].err # "no" \/ ~GotAll(w, r)))]

RunPair(w, a, b) ==
    IF w.req[b].pair # a THEN TcpCrash(w, "fused pair")
    ELSE LET run == Run(Run(w, a), b)
             inOrder == IF w.req[a].cmd.fuse = "first" THEN <<a, b>> ELSE <<b, a>>
         IN  [run EXCEPT !.req[a].pair = NoTcpReq, !.req[b].pair = NoTcpReq,
                         !.seen.pairs = @ \cup {<<w.req[inOrder[1]].n, w.req[inOrder[2]].n>>}]

(* READY_TO_EXECUTE: a fused request waits for the other one of its pair. *)
Ready(w, r) ==
    LET q == w.req[r] IN
    CASE q.cmd.fuse # "none" /\ q.failed -> TransferOut([w EXCEPT !.req[r].err = "missing fused"], r)
      [] q.cmd.fuse # "none" /\ ~q.failed /\ q.pair # NoTcpReq /\ w.req[q.pair].st = "rte" ->
           RunPair(w, r, q.pair)
      [] q.cmd.fuse # "none" /\ ~q.failed /\ (q.pair = NoTcpReq \/ w.req[q.pair].st # "rte") -> w
      [] q.cmd.fuse = "none" /\ q.cmd.zcopy ->
           [SetTcp(w, r, "zcommit") EXCEPT !.seen.corrupt = @ \/ q.err # "no" \/ ~GotAll(w, r)]
      [] q.cmd.fuse = "none" /\ ~q.cmd.zcopy -> Run(w, r)

KickPair(w, p) ==
    CASE w.req[p].st # "rte" -> w
      [] w.req[p].st = "rte" /\ TcpActive(w, p) -> Ready(w, p)
      [] w.req[p].st = "rte" /\ ~TcpActive(w, p) -> FinishAlone(w, p)
Finish(w, r) == Completed(SetTcp(w, r, "completed"), r, KickPair)

(* spdk_nvmf_qpair_disconnect: the zero copy requests that wait for the    *)
(* transport are aborted, for their buffers to be released.                *)
AbortZcopy(w, r) ==
    IF w.req[r].buf = "zcopy" /\ w.req[r].st \notin {"zcommit", "zrelease"}
    THEN Finish([w EXCEPT !.req[r].err = "aborted"], r) ELSE w
Deactivate(w, t) ==
    IF ~w.qp[t].active THEN w
    ELSE FoldLeft(AbortZcopy, [w EXCEPT !.qp[t].active = FALSE], TcpSlots[t])

DisconnectTcp(w, t) ==
    IF w.qp[t].st \notin {"invalid", "running"} THEN w
    ELSE Deactivate([w EXCEPT !.qp[t].st = "exiting", !.qp[t].recv = "error",
                              !.qp[t].timer = FALSE], t)

(* A terminate request is flushed at once, or the connection is broken.    *)
TermReq(w, t) ==
    IF w.sent THEN [SetRecv(w, t, "error") EXCEPT !.qp[t].timer = TRUE]
    ELSE DisconnectTcp(SetRecv(w, t, "error"), t)

(* _nvmf_qpair_destroy follows as soon as the target has no request left.  *)
Closing(w, t) ==
    /\ ~w.qp[t].active /\ Open(w, t)
    /\ \A r \in ToSet(TcpSlots[t]) : ~WithTarget(w, r)
CloseQpair(w) ==
    [w EXCEPT !.sent = TRUE,
              !.qp = [t \in TcpQps |-> IF Closing(w, t) THEN [@[t] EXCEPT !.st = "exited"]
                                       ELSE @[t]]]

---------------------------------------------------------------------------
(* nvmf_tcp_req_process, by the state of the request *)

(* NEED_BUFFER: the queue of the group is served in its order, which a     *)
(* request with its data in the capsule may disregard.  A wrong SGL leaves *)
(* the request where it is.                                                *)
GetControlMsg(w, r) ==
    LET t == TcpQpOf(r)
        taken == [SetTcp(Dequeue(w, r), r, "h2c") EXCEPT !.ctl = @ - 1, !.req[r].buf = "control"]
    IN  CASE w.ctl = 0 -> w
          [] w.ctl > 0 /\ w.qp[t].pdu.type # "cmd" -> TcpCrash(w, "no capsule in progress")
          [] w.ctl > 0 /\ w.qp[t].pdu.type = "cmd" -> SetRecv(taken, t, "payload")

NeedBuffer(w, r) ==
    LET q == w.req[r]
        t == TcpQpOf(r)
        out == Dequeue(w, r)
        pooled == [out EXCEPT !.pool = @ - 1, !.req[r].buf = "pool"]
    IN  CASE ~InCapsule(q.cmd) /\ Head(w.queue) # r -> w
          [] q.cmd.data = "icd" -> SetRecv(SetTcp(out, r, "h2c"), t, "payload")
          [] q.cmd.data = "big" -> GetControlMsg(w, r)
          [] q.cmd.data = "badicd" \/ (q.cmd.data = "bad" /\ Head(w.queue) = r) -> TermReq(w, t)
          [] q.cmd.data \in {"read", "write"} /\ Head(w.queue) = r ->
               CASE q.cmd.zcopy -> SetTcp(out, r, "zstart")
                 [] ~q.cmd.zcopy /\ w.pool = 0 -> w
                 [] ~q.cmd.zcopy /\ w.pool > 0 /\ q.cmd.data = "write" ->
                      WriteReqPdu(SetTcp(pooled, r, "r2t"), r, "r2t")
                 [] ~q.cmd.zcopy /\ w.pool > 0 /\ q.cmd.data = "read" ->
                      Ready(SetTcp(pooled, r, "rte"), r)

(* ZCOPY_START_COMPLETED *)
ZcopyStarted(w, r) ==
    IF w.req[r].err # "no" \/ w.req[r].cmd.data = "read" THEN TransferOut(w, r)
    ELSE WriteReqPdu(SetTcp(w, r, "r2t"), r, "r2t")

(* When its queue pair is not active any more, the request is completed.   *)
ProcessAs(w, r, state) ==
    IF ~TcpActive(w, r) THEN Finish(IF w.req[r].st = "need" THEN Dequeue(w, r) ELSE w, r)
    ELSE LET in == SetTcp(w, r, state) IN
         CASE state = "need" -> NeedBuffer(in, r)
           [] state = "rte" -> Ready(in, r)
           [] state = "rtc" -> TransferOut(in, r)
           [] state = "zstarted" -> ZcopyStarted(in, r)
           [] state = "completed" -> Finish(in, r)

---------------------------------------------------------------------------
(* A command: its capsule is read, and a request taken for it *)

(* nvmf_tcp_check_fused_ordering, when the command of r is known. *)
FusedOrdering(w, r) ==
    LET t == TcpQpOf(r)
        f == w.qp[t].first
        last == IF f = NoTcpReq THEN "none" ELSE w.req[f].cmd.fuse
        next == w.req[r].cmd.fuse
        unpaired == IF f = NoTcpReq THEN w
                    ELSE [KickPair([w EXCEPT !.req[f].failed = TRUE], f)
                             EXCEPT !.qp[t].first = NoTcpReq]
        known == IF last = "first" THEN unpaired ELSE w
    IN  CASE last = "second" -> TcpCrash(w, "fused pair")
          [] last = "first" /\ next = "second" ->
               [w EXCEPT !.req[f].pair = r, !.req[r].pair = f, !.qp[t].first = NoTcpReq]
          [] last # "second" /\ next = "first" -> [known EXCEPT !.qp[t].first = r]
          [] last = "none" /\ next = "second" -> [w EXCEPT !.req[r].failed = TRUE]
          [] last # "second" /\ next = "none" -> known

(* NEW: the PDU is free for the next one unless its data follow. *)
NewRequest(w, r) ==
    LET t == TcpQpOf(r)
        cmd == w.qp[t].pdu.cmd
        ordered == FusedOrdering([w EXCEPT !.req[r].cmd = cmd, !.req[r].n = w.qp[t].pdu.n], r)
        read == [SetRecv(ordered, t, "ready") EXCEPT !.qp[t].pdu = EmptyPdu]
        queued(v) == [SetTcp(v, r, "need") EXCEPT !.queue = Append(@, r)]
    IN  CASE cmd.data = "both" -> TransferOut([read EXCEPT !.req[r].err = "opcode"], r)
          [] cmd.data = "none" -> Ready(SetTcp(read, r, "rte"), r)
          [] InCapsule(cmd) -> NeedBuffer(queued(ordered), r)
          [] cmd.data \in {"read", "write", "bad"} -> NeedBuffer(queued(read), r)

(* nvmf_tcp_capsule_cmd_hdr_handle, called again as long as the queue pair *)
(* awaits a request: the host is entitled to one when all it lacks is the  *)
(* end of the write of a response that it has.                             *)
Alive(w, r) == w.req[r].st # "free"
CapsuleCmd(w, t) ==
    LET r == Head(w.qp[t].idle)
        again == \E x \in ToSet(TcpSlots[t]) : Alive(w, x) /\ w.req[x].n = w.qp[t].pdu.n
        got == [w EXCEPT !.qp[t].idle = Tail(@), !.qp[t].pdu.req = r, !.req[r].st = "new"]
    IN  CASE w.qp[t].idle # <<>> /\ again -> TcpCrash(w, "capsule taken again")
          [] w.qp[t].idle # <<>> /\ ~again ->
               IF w.qp[t].active THEN NewRequest(got, r) ELSE Finish(got, r)
          [] w.qp[t].idle = <<>> ->
               IF \E x \in ToSet(TcpSlots[t]) : w.req[x].st \in {"c2h", "zrelease"} THEN w
               ELSE DisconnectTcp(w, t)

(* _nvmf_tcp_pdu_payload_handle: the data of PDU p are there and checked.  *)
(* Those of an R2T wait for the write of the R2T to be completed.          *)
PayloadHandled(w, t, p, good) ==
    LET r == p.req
        marked == IF good THEN w ELSE [w EXCEPT !.req[r].err = "digest"]
        got == [marked EXCEPT !.req[r].got = @ + 1]
        on == IF marked.req[r].err = "digest" THEN "rtc" ELSE "rte"
        handled == CASE p.type = "cmd" -> ProcessAs(got, r, on)
                     [] p.type = "data" /\ w.req[r].st = "h2c" /\ GotAll(got, r) ->
                            ProcessAs(got, r, on)
                     [] p.type = "data" /\ ~(w.req[r].st = "h2c" /\ GotAll(got, r)) -> got
    IN  [handled EXCEPT !.qp[t].pdus = @ + 1]

---------------------------------------------------------------------------
(* Actions: the socket *)

TcpAlive == tcp.crash = "no"
Sent == {TRUE, FALSE}

(* The next PDU is read into the one in progress or a free one.            *)
CanRead(t) ==
    /\ TcpAlive /\ Open(tcp, t) /\ tcp.qp[t].recv = "ready"
    /\ tcp.qp[t].pdu.type # "null" \/ tcp.qp[t].pdus > 0
Reading(t, pdu) ==
    [tcp EXCEPT !.qp[t].pdu = pdu, !.qp[t].pdus = IF tcp.qp[t].pdu.type = "null" THEN @ - 1 ELSE @]

IcReq(t, digest, sent) ==
    /\ CanRead(t) /\ tcp.qp[t].st = "invalid"
    /\ LET w == [Reading(t, EmptyPdu) EXCEPT !.qp[t].st = "running", !.qp[t].digest = digest]
       IN  tcp' = CloseQpair(IF sent THEN w ELSE DisconnectTcp(w, t))

RecvCommand(t, c) ==
    /\ CanRead(t) /\ tcp.qp[t].st = "running" /\ tcp.qp[t].received < tcp.mix.max[t]
    /\ c \in tcp.mix.cmds[t]
    /\ LET n == tcp.qp[t].received + 1
           pdu == [type |-> "cmd", cmd |-> c, req |-> NoTcpReq, n |-> n]
           w == [SetRecv(Reading(t, pdu), t, "req") EXCEPT !.qp[t].received = n]
       IN  \E sent \in Sent : tcp' = CloseQpair(CapsuleCmd([w EXCEPT !.sent = sent], t))

(* nvmf_tcp_h2c_data_hdr_handle: the R2T may be answered before the target *)
(* knows that it has been written.  The offset of the data must be that of *)
(* the data that have been checked.                                        *)
RecvData(t, r, sent) ==
    LET host == tcp.req[r].host
        w == Reading(t, EmptyPdu)
    IN  /\ CanRead(t) /\ tcp.qp[t].st = "running" /\ r \in ToSet(TcpSlots[t])
        /\ tcp.req[r].cmd.data = "write" /\ host < TcpParts
        /\ tcp.req[r].st \in {"r2t", "h2c"}
        /\ tcp' = IF host = tcp.req[r].got
                  THEN [SetRecv(w, t, "payload") EXCEPT
                          !.req[r].host = @ + 1, !.qp[t].pdu.type = "data", !.qp[t].pdu.req = r]
                  ELSE CloseQpair(TermReq([w EXCEPT !.sent = sent, !.seen.refused = TRUE], t))

(* A PDU that a header check refuses, and a terminate request of the host. *)
RecvBadPdu(t, sent) ==
    /\ CanRead(t)
    /\ tcp' = CloseQpair(TermReq([Reading(t, EmptyPdu) EXCEPT !.sent = sent], t))
RecvTermReq(t) ==
    /\ CanRead(t) /\ tcp.qp[t].st = "running"
    /\ tcp' = SetRecv([Reading(t, EmptyPdu) EXCEPT !.qp[t].pdu.type = "null",
                                                   !.qp[t].pdus = @ + 1], t, "error")

(* The data of the PDU have been read.  Their digest may be computed       *)
(* elsewhere, while the next PDU is read.                                  *)
RecvPayload(t, good) ==
    LET p == tcp.qp[t].pdu
        w == [SetRecv(tcp, t, "ready") EXCEPT !.qp[t].pdu = NullPdu]
    IN  /\ TcpAlive /\ Open(tcp, t) /\ tcp.qp[t].recv = "payload"
        /\ good \/ tcp.qp[t].digest
        /\ IF tcp.qp[t].digest /\ t \notin TcpAdmin
           THEN tcp' = [w EXCEPT !.qp[t].crc = @ \cup {[pdu |-> p, good |-> good]}]
           ELSE tcp' = CloseQpair(PayloadHandled(w, t, p, good))

(* data_crc32_calc_done *)
DigestChecked(t, d) ==
    /\ TcpAlive /\ d \in tcp.qp[t].crc
    /\ LET w == [tcp EXCEPT !.qp[t].crc = @ \ {d}]
       IN  IF tcp.qp[t].st = "freed" THEN tcp' = TcpCrash(w, "digest of a freed queue pair")
           ELSE tcp' = CloseQpair(PayloadHandled(w, t, d.pdu, d.good))

(* Reading fails, or the connection is found closed in the error state.    *)
SocketLost(t) ==
    /\ TcpAlive /\ tcp.qp[t].st \in {"invalid", "running"} /\ tcp.qp[t].recv # "req"
    /\ tcp' = CloseQpair(DisconnectTcp(tcp, t))

(* nvmf_tcp_qpair_handle_timeout *)
TermTimeout(t) ==
    /\ TcpAlive /\ tcp.qp[t].timer
    /\ tcp' = IF tcp.qp[t].recv # "error" THEN TcpCrash(tcp, "timeout")
              ELSE CloseQpair(DisconnectTcp(tcp, t))

---------------------------------------------------------------------------
(* Actions: what was sent *)

(* nvmf_tcp_r2t_complete: what has arrived in the meantime is executed.    *)
R2tWritten(w, r) ==
    LET in == [SetTcp(w, r, "h2c") EXCEPT !.seen.late = @ \/ w.req[r].err # "no"]
    IN  IF GotAll(w, r) THEN ProcessAs(in, r, "rte") ELSE in

(* _req_pdu_write_done, for an R2T, data that do or do not stand for the   *)
(* response too, and a response.                                           *)
WriteDone(w, r, ok, success) ==
    LET q == w.req[r]
        done == [w EXCEPT !.req[r].inUse = "no"]
    IN  CASE q.st = "completed" -> Finish(done, r)
          [] q.st # "completed" /\ ~ok -> DisconnectTcp(done, TcpQpOf(r))
          [] q.st # "completed" /\ ok ->
               CASE q.after = "r2t" -> R2tWritten(done, r)
                 [] q.after = "data" /\ ~success -> WriteReqPdu(done, r, "resp")
                 [] q.after = "resp" \/ (q.after = "data" /\ success) ->
                      ProcessAs(done, r, "completed")
Written(r) ==
    /\ TcpAlive /\ tcp.req[r].inUse = "sock" /\ Open(tcp, TcpQpOf(r))
    /\ \E ok, success \in BOOLEAN : tcp' = CloseQpair(WriteDone(tcp, r, ok, success))

(* data_crc32_accel_done: the PDU is written now, or its write has failed. *)
DigestComputed(r, ok) ==
    /\ TcpAlive /\ tcp.req[r].inUse = "digest"
    /\ tcp' = CASE tcp.qp[TcpQpOf(r)].st = "freed" -> TcpCrash(tcp, "digest of a freed queue pair")
                [] tcp.qp[TcpQpOf(r)].st # "freed" /\ ok -> [tcp EXCEPT !.req[r].inUse = "sock"]
                [] tcp.qp[TcpQpOf(r)].st # "freed" /\ ~ok ->
                     CloseQpair(WriteDone(tcp, r, FALSE, FALSE))

---------------------------------------------------------------------------
(* Actions: the target *)

(* nvmf_tcp_req_complete *)
CompletedByTarget(w, r, err) ==
    LET q == w.req[r]
        result == [w EXCEPT !.req[r].err = err]
        released == [result EXCEPT !.req[r].buf = IF @ = "zcopy" THEN "none" ELSE @]
    IN  CASE q.st = "executing" -> ProcessAs(result, r, "rtc")
          [] q.st = "zcommit" -> ProcessAs(released, r, "rtc")
          [] q.st = "zstart" ->
               ProcessAs([result EXCEPT !.req[r].buf = IF err = "no" THEN "zcopy" ELSE @], r,
                         "zstarted")
          [] q.st = "zrelease" -> Finish(released, r)
TargetCompletes(r, err) ==
    /\ TcpAlive /\ tcp.req[r].st \in {"executing", "zstart", "zcommit", "zrelease"}
    /\ tcp' = CloseQpair(CompletedByTarget(tcp, r, err))

(* The target gives the queue pair up: its controller is gone.             *)
TargetDisconnects(t) ==
    /\ TcpAlive /\ tcp.qp[t].active /\ tcp.qp[t].st = "running"
    /\ tcp' = CloseQpair(Deactivate(tcp, t))

(* _nvmf_tcp_qpair_abort_request, of a request that waits for a buffer: in *)
(* its other states it only waits, or is aborted by the target.            *)
AbortWaiting(r) ==
    /\ TcpAlive /\ tcp.req[r].st = "need" /\ TcpActive(tcp, r)
    /\ tcp' = CloseQpair(TransferOut([Dequeue(tcp, r) EXCEPT !.req[r].err = "aborted"], r))

---------------------------------------------------------------------------
(* Actions: the poll group *)

(* nvmf_tcp_poll_group_poll: the queue is walked until a request makes no  *)
(* progress, then every queue pair that awaits a request tries again.      *)
WalkQueue(s, r) ==
    LET w == ProcessAs(s.w, r, "need") IN
    IF ~s.on THEN s ELSE [w |-> w, on |-> w.req[r].st # "need"]
PollQueue ==
    /\ TcpAlive /\ tcp.queue # <<>>
    /\ \E sent \in Sent :
         tcp' = CloseQpair(FoldLeft(WalkQueue, [w |-> [tcp EXCEPT !.sent = sent], on |-> TRUE],
                                    tcp.queue).w)
PollAwaiting(t) ==
    /\ TcpAlive /\ Open(tcp, t) /\ tcp.qp[t].recv = "req"
    /\ tcp' = CloseQpair(CapsuleCmd(tcp, t))

(* _nvmf_tcp_qpair_destroy: the socket is closed, which ends the writes it *)
(* has taken; the requests of some states are completed, the others leak.  *)
EndWrite(w, r) ==
    IF w.req[r].inUse # "sock" THEN w ELSE WriteDone(w, r, FALSE, FALSE)
DrainedStates == {"c2h", "new", "need", "executing", "h2c", "r2t"}
(* A slip: a request that waits for a buffer stays in the queue. *)
DrainOff(w, r) == IF w.req[r].st \notin DrainedStates THEN w ELSE Finish(w, r)

Drain(w, r) ==
    IF w.req[r].st \notin DrainedStates THEN w
    ELSE Finish(IF w.req[r].st = "need" THEN Dequeue(w, r) ELSE w, r)

Destroy(t) ==
    /\ TcpAlive /\ tcp.qp[t].st = "exited"
    /\ LET closed == FoldLeft(EndWrite, tcp, TcpSlots[t])
       IN  tcp' = [FoldLeft(Drain, closed, TcpSlots[t]) EXCEPT
                     !.qp[t] = [@ EXCEPT !.st = "freed", !.timer = FALSE]]

TcpNext ==
    \/ \E t \in TcpQps :
         \/ \E b, sent \in BOOLEAN : IcReq(t, b, sent)
         \/ \E c \in UNION {tcp.mix.cmds[u] : u \in TcpQps} : RecvCommand(t, c)
         \/ \E r \in TcpReqs, sent \in Sent : RecvData(t, r, sent)
         \/ \E sent \in Sent : RecvBadPdu(t, sent)
         \/ RecvTermReq(t)
         \/ \E good \in BOOLEAN : RecvPayload(t, good)
         \/ \E d \in tcp.qp[t].crc : DigestChecked(t, d)
         \/ SocketLost(t)
         \/ TermTimeout(t)
         \/ TargetDisconnects(t)
         \/ PollAwaiting(t)
         \/ Destroy(t)
    \/ \E r \in TcpReqs :
         \/ \E ok \in BOOLEAN : DigestComputed(r, ok)
         \/ Written(r)
         \/ \E err \in {"no", "io"} : TargetCompletes(r, err)
         \/ AbortWaiting(r)
    \/ PollQueue

TcpSpec == TcpInit /\ [][TcpNext]_tcpVars

---------------------------------------------------------------------------
(* Properties *)

TcpStates == {"free", "new", "need", "zstart", "h2c", "r2t", "rte", "executing", "zcommit",
              "c2h", "zrelease", "completed"}

(* The state of the group keeps its type. *)
TcpTypeOK ==
    /\ tcp.req \in [TcpReqs -> [st : TcpStates, cmd : TcpCommand, n : Nat,
                                inUse : {"no", "digest", "sock"}, after : {"r2t", "data", "resp"},
                                buf : {"none", "pool", "control", "zcopy"},
                                err : {"no", "io", "digest", "aborted", "opcode", "missing fused"},
                                got : 0 .. TcpParts, host : 0 .. TcpParts,
                                pair : TcpReqs \cup {NoTcpReq}, failed : BOOLEAN]]
    /\ \A t \in TcpQps : /\ tcp.qp[t].recv \in {"ready", "req", "payload", "error"}
                         /\ ToSet(tcp.qp[t].idle) \subseteq ToSet(TcpSlots[t])
    /\ tcp.pool \in 0 .. TcpPool /\ tcp.ctl \in 0 .. TcpControlMsgs

(* The queue of the group holds the requests in NEED_BUFFER, each once,    *)
(* also when they are aborted or their connection ends.                    *)
QueueIsNeedBuffer ==
    TcpAlive =>
        /\ ToSet(tcp.queue) = {r \in TcpReqs : tcp.req[r].st = "need"}
        /\ Len(tcp.queue) = Cardinality(ToSet(tcp.queue))

(* The free requests of a queue pair are its idle ones, and hold no buffer *)
(* and no PDU.  No buffer is lost but those of fused requests that waited  *)
(* for the other one of their pair when their queue pair was destroyed.    *)
BuffersAccounted ==
    TcpAlive =>
        LET held(b) == Cardinality({r \in TcpReqs : tcp.req[r].buf = b}) IN
        /\ tcp.pool + held("pool") = TcpPool
        /\ tcp.ctl + held("control") = TcpControlMsgs
        /\ \A t \in TcpQps : \A r \in ToSet(TcpSlots[t]) :
             /\ tcp.req[r].st = "free" <=> r \in ToSet(tcp.qp[t].idle)
             /\ tcp.req[r].st = "free" => tcp.req[r].buf = "none" /\ tcp.req[r].inUse = "no"
             /\ tcp.qp[t].st = "freed" /\ tcp.req[r].st # "free" =>
                  tcp.req[r].st = "rte" /\ tcp.req[r].cmd.fuse # "none"

(* A PDU for receiving is free, in progress, or out for its digest.        *)
PdusAccounted ==
    TcpAlive =>
        \A t \in TcpQps :
            tcp.qp[t].pdus + Cardinality(tcp.qp[t].crc)
              + (IF tcp.qp[t].pdu.type = "null" THEN 0 ELSE 1) = Len(TcpSlots[t])

(* A run ends badly only when the digest of some data was still being      *)
(* computed at the end of their connection, fused commands were mixed up   *)
(* by a request that was used again, or a second request was taken for a   *)
(* capsule whose first one waits for a control message.                    *)
TcpCrashesHaveCauses ==
    tcp.crash \in {"no", "digest of a freed queue pair", "fused pair", "capsule taken again"}

(* A command is executed with all its data, and these are good, unless     *)
(* their digest was found wrong before the R2T that they answer was known  *)
(* to be written: what completes it executes the command.  Data that come  *)
(* in their order are accepted, unless digests are computed elsewhere.     *)
DataChecked ==
    /\ tcp.seen.corrupt => tcp.seen.late
    /\ tcp.seen.refused => \E t \in TcpQps : tcp.qp[t].digest

(* The two commands of a pair that is executed have come one after the     *)
(* other, unless a first command ended before the second one came: its     *)
(* queue pair remembers the request, which may hold another command then.  *)
FusedInSequence ==
    tcp.seen.stale \/ \A pair \in tcp.seen.pairs : pair[2] = pair[1] + 1

TcpRequests ==
    /\ QueueIsNeedBuffer /\ BuffersAccounted /\ PdusAccounted /\ TcpCrashesHaveCauses
    /\ DataChecked /\ FusedInSequence
=============================================================================
