----------------------------- MODULE NvmfFcReq -----------------------------
(***************************************************************************)
(* Commands of the FC transport (src/nvmf/fc.c, fc_ls.c): their states,    *)
(* what they wait for, how they are aborted, and the ABTS frames of the    *)
(* host, which ask every hardware queue (hwqp) of the remote port.         *)
(*                                                                         *)
(* Each hwqp is polled by one thread, which also handles the messages sent *)
(* to it, in order; ABTS frames are handled on the main thread.  The low   *)
(* level driver and its HBA, the library's execution of a command and the  *)
(* host are external.  A command is a slot of its connection's pool and at *)
(* the same time the host's exchange (oxid).                               *)
(***************************************************************************)
EXTENDS Integers, FiniteSets, Sequences, SequencesExt

CONSTANTS
    FcHwqps,       \* the hardware queues, each with one connection of the remote port
    FcSlots,       \* FcSlots[h]: the commands of h's connection
    FcBuffers,     \* the buffers of a poll group
    FcAbtsIds,     \* bound: the ABTS frames, 1 .. FcAbtsIds
    FcReqMixes     \* bounds: [cmds, max, abts, dels, faults, dead, sync, xchgs], see FcReqInit

ASSUME FcReqCountsAssumption == FcBuffers \in Nat /\ FcAbtsIds \in Nat
ASSUME FcSlotsAssumption ==
    /\ IsFiniteSet(FcHwqps) /\ \A h \in FcHwqps : IsFiniteSet(FcSlots[h])
    /\ \A h, k \in FcHwqps : h # k => FcSlots[h] \cap FcSlots[k] = {}
ASSUME FcReqMixesAssumption ==
    FcReqMixes \subseteq [cmds : SUBSET {"none", "read", "write", "aer"}, max : Nat, abts : Nat, dels : Nat, faults : Nat,
                          dead : BOOLEAN, sync : BOOLEAN, xchgs : Nat]

VARIABLE fcr   \* the commands and hwqps, see FcReqInit
fcrVars == <<fcr>>

FcReqs == UNION {FcSlots[h] : h \in FcHwqps}
HwqpOf(r) == CHOOSE h \in FcHwqps : r \in FcSlots[h]
FreeFcReq == [st |-> "free", data |-> "none", xchg |-> FALSE, buf |-> FALSE, aborted |-> FALSE,
              cbs |-> <<>>, del |-> FALSE]
NewAbts == [st |-> "unused", req |-> "none", asked |-> {}, waits |-> 0, handled |-> FALSE, synced |-> FALSE]

(* Who waits for the end of a command: the ABTS frames of cbs, in their    *)
(* order, and the deletion of its connection (del).                        *)
(* air: the frames that the HBA has not delivered.  hw: state of the hwqp, *)
(* its messages, the synchronisations it waits for, its commands without a *)
(* buffer, and the deletion of its connection with the aborts it awaits.   *)
(* left: what the environment may still do, how the ABTS are synchronised, *)
(* and the exchanges of the HBA, per hwqp.                                 *)
(* wrong: answers to ABTS that the state of the command belies.            *)
FcReqInit ==
    \E mix \in FcReqMixes :
    fcr = [req  |-> [r \in FcReqs |-> FreeFcReq],
           hw   |-> [h \in FcHwqps |-> [on |-> TRUE, msgs |-> <<>>, syncs |-> {}, pending |-> <<>>,
                                        conn |-> "created", left |-> 0]],
           abts |-> [i \in 1 .. FcAbtsIds |-> NewAbts],
           main |-> <<>>, air |-> {}, markers |-> {}, dead |-> FALSE,
           left |-> mix, crash |-> "no", wrong |-> {}]

FcReqAlive == fcr.crash = "no"
FcReqCrash(w, why) == IF w.crash = "no" THEN [w EXCEPT !.crash = why] ELSE w
ToHwqp(w, h, msg) == [w EXCEPT !.hw[h].msgs = Append(@, msg)]
TellMain(w, msg) == [w EXCEPT !.main = Append(@, msg)]
SetFcReq(w, r, st) == [w EXCEPT !.req[r].st = st]
Messages(k, s) == [j \in DOMAIN s |-> [k |-> k, r |-> s[j]]]
FcSpend(w, what) == [w EXCEPT !.left[what] = @ - 1]

InBdev == {"read_bdev", "write_bdev", "none_bdev"}
InXfer == {"read_xfer", "read_rsp", "write_xfer", "write_rsp", "none_rsp"}
FcUsed(w, h, what) == Cardinality({r \in FcSlots[h] : w.req[r][what]})
FcInUse(w, h) == {r \in FcSlots[h] : w.req[r].st # "free"}

---------------------------------------------------------------------------
(* Execution                                                               *)

(* _nvmf_fc_request_free; the request is poisoned against a second time. *)
FreeFc(w, r) == IF w.req[r].st = "free" THEN FcReqCrash(w, "freed twice") ELSE [w EXCEPT !.req[r] = FreeFcReq]

(* nvmf_fc_request_execute, when its exchange and buffer are there; fails: *)
(* nvmf_fc_recv_data fails and the command is dropped.                     *)
FcCanExecute(w, r) ==
    /\ FcUsed(w, HwqpOf(r), "xchg") < w.left.xchgs
    /\ w.req[r].data \in {"read", "write"} => FcUsed(w, HwqpOf(r), "buf") < FcBuffers
FcExecute(w, r, fails) ==
    LET data == w.req[r].data
        taken == [w EXCEPT !.req[r] = [@ EXCEPT !.xchg = TRUE, !.buf = data \in {"read", "write"}]]
    IN  CASE data = "write" -> IF fails THEN FreeFc(FcSpend(taken, "faults"), r) ELSE SetFcReq(taken, r, "write_xfer")
          [] data = "read"  -> SetFcReq(taken, r, "read_bdev")
          [] OTHER          -> SetFcReq(taken, r, "none_bdev")

(* nvmf_fc_hwqp_process_pending_reqs: walks on behind a command that       *)
(* cannot be executed.                                                     *)
FcExecutePending(w, r) ==
    IF FcCanExecute(w, r)
    THEN [FcExecute(w, r, FALSE) EXCEPT !.hw[HwqpOf(r)].pending = RemoveFirst(@, r)] ELSE w
PendingExecuted(w, s) ==
    LET after[n \in 0 .. Len(s)] == IF n = 0 THEN w ELSE FcExecutePending(after[n - 1], s[n])
    IN  after[Len(s)]
FcProcessPending(h) ==
    /\ FcReqAlive /\ fcr.hw[h].on /\ \E i \in DOMAIN fcr.hw[h].pending : FcCanExecute(fcr, fcr.hw[h].pending[i])
    /\ fcr' = PendingExecuted(fcr, fcr.hw[h].pending)

(* The host sends a command; nvmf_fc_hwqp_handle_request takes the frame,  *)
(* or drops it when the connection is being deleted.                       *)
FcSend(r, data) ==
    /\ FcReqAlive /\ fcr.left.max > 0 /\ fcr.req[r].st = "free" /\ r \notin fcr.air
    /\ fcr.hw[HwqpOf(r)].conn = "created" /\ \A i \in 1 .. FcAbtsIds : fcr.abts[i].req = r => fcr.abts[i].st = "answered"
    /\ fcr' = [FcSpend(fcr, "max") EXCEPT !.air = @ \cup {r}, !.req[r].data = data]
FcFrame(r) ==
    /\ FcReqAlive /\ r \in fcr.air /\ fcr.hw[HwqpOf(r)].on
    /\ LET h == HwqpOf(r)
           w == [fcr EXCEPT !.air = @ \ {r}]
           waits == [SetFcReq(w, r, "pending") EXCEPT !.hw[h].pending = Append(@, r)]
           busy == fcr.hw[h].pending # <<>> \/ ~FcCanExecute(w, r)
       IN  \/ fcr.hw[h].conn # "created" /\ fcr' = [w EXCEPT !.req[r] = FreeFcReq]
           \/ fcr.hw[h].conn = "created" /\ fcr' = IF busy THEN waits ELSE FcExecute(w, r, FALSE)
           \/ fcr.hw[h].conn = "created" /\ ~busy /\ fcr.left.faults > 0 /\ fcr.req[r].data = "write"
              /\ fcr' = FcExecute(SetFcReq(w, r, "init"), r, TRUE)

---------------------------------------------------------------------------
(* Abort                                                                   *)

AbortMessage(w, r) == ToHwqp(w, HwqpOf(r), [k |-> "aborted", r |-> r])

(* nvmf_fc_request_abort, by a caller that has noted that it waits.  A     *)
(* command in the library runs to its end; the HBA ends a transfer, unless *)
(* the port is dead.                                                       *)
FcAbort(w, r) ==
    LET q == w.req[r]
        h == HwqpOf(r)
        marked == [w EXCEPT !.req[r].aborted = TRUE]
        ended == [w EXCEPT !.req[r] = [@ EXCEPT !.aborted = TRUE, !.st = "aborted"]]
    IN  CASE w.dead /\ q.st \in InXfer       -> AbortMessage(ended, r)
          [] ~w.dead /\ q.st \in InXfer      -> marked
          [] q.st \notin InXfer /\ q.aborted -> w
          [] ~q.aborted /\ q.st \in InBdev   -> ToHwqp(marked, h, [k |-> "bdev_abort", r |-> r])
          [] ~q.aborted /\ q.st = "pending"  ->
                AbortMessage([ended EXCEPT !.hw[h].pending = RemoveFirst(@, r)], r)
          [] OTHER                           -> AbortMessage(ended, r)

(* nvmf_fc_request_free, with which the library frees its event requests:  *)
(* those that are not aborted yet are aborted.                             *)
FcAers(w, h, aborted) ==
    {r \in FcSlots[h] : w.req[r].data = "aer" /\ w.req[r].st = "none_bdev" /\ w.req[r].aborted = aborted}
FreeAers(w, h) ==
    LET aers == FcAers(w, h, FALSE)
    IN  [w EXCEPT !.req = [r \in FcReqs |-> IF r \in aers THEN [@[r] EXCEPT !.st = "aborted", !.aborted = TRUE]
                                            ELSE @[r]],
                  !.hw[h].msgs = @ \o Messages("aborted", SetToSeq(aers))]

(* The connection leaves the lookup data and its queue pair is             *)
(* disconnected, which frees the event requests.                           *)
LeaveHwqp(w, h) == FreeAers([w EXCEPT !.hw[h].conn = "deleted"], h)

(* The callbacks: nvmf_fc_poller_abts_done, nvmf_fc_poller_conn_abort_done *)
AbtsDone(w, h, ids) ==
    [w EXCEPT !.main = @ \o [j \in DOMAIN ids |-> [k |-> "abts", i |-> ids[j], h |-> h, found |-> TRUE]]]
ConnAbortDone(w, h) ==
    LET left == IF w.hw[h].left > 0 THEN w.hw[h].left - 1 ELSE 0
        counted == [w EXCEPT !.hw[h].left = left]
    IN  IF left = 0 THEN LeaveHwqp(counted, h) ELSE counted

(* nvmf_fc_request_abort_complete: everybody who waits is called back. *)
FcAbortComplete(w, r) ==
    LET told == AbtsDone(FreeFc(w, r), HwqpOf(r), w.req[r].cbs)
    IN  IF w.req[r].del THEN ConnAbortDone(told, HwqpOf(r)) ELSE told

(* nvmf_fc_req_bdev_abort: the abort of one event request frees them all;  *)
(* the one that is aborted already is completed at once.                   *)
AbortsCompleted(w, s) ==
    LET after[n \in 0 .. Len(s)] == IF n = 0 THEN w ELSE FcAbortComplete(after[n - 1], s[n])
    IN  after[Len(s)]
FcBdevAbort(w, r) ==
    IF w.req[r].data # "aer" \/ w.req[r].st # "none_bdev" THEN w
    ELSE AbortsCompleted(FreeAers(w, HwqpOf(r)), SetToSeq(FcAers(w, HwqpOf(r), TRUE)))

---------------------------------------------------------------------------
(* Completion                                                              *)

(* nvmf_fc_request_complete and nvmf_fc_handle_rsp. *)
FcRsp(r) == CASE fcr.req[r].data = "write" -> "write_rsp"
              [] fcr.req[r].data = "read"  -> "read_rsp"
              [] OTHER                     -> "none_rsp"
LibraryCompletes(r) ==
    /\ FcReqAlive /\ fcr.req[r].st \in InBdev /\ fcr.req[r].data # "aer"
    /\ IF fcr.req[r].aborted THEN fcr' = AbortMessage(SetFcReq(fcr, r, "aborted"), r)
       ELSE \/ fcr.req[r].data = "read" /\ fcr' = SetFcReq(fcr, r, "read_xfer")
            \/ fcr' = SetFcReq(fcr, r, FcRsp(r))
            \/ fcr.left.faults > 0 /\ fcr' = FreeFc(FcSpend(fcr, "faults"), r)

(* The driver reports the end of a transfer or of its abort; not when the  *)
(* port is dead or the hwqp is not polled.                                 *)
HbaCompletes(r) ==
    /\ FcReqAlive /\ fcr.req[r].st \in InXfer /\ ~fcr.dead /\ fcr.hw[HwqpOf(r)].on
    /\ fcr' = IF fcr.req[r].aborted THEN FcAbortComplete(fcr, r)
              ELSE CASE fcr.req[r].st = "write_xfer" -> SetFcReq(fcr, r, "write_bdev")
                     [] fcr.req[r].st = "read_xfer"  -> SetFcReq(fcr, r, "read_rsp")
                     [] OTHER                        -> FreeFc(fcr, r)

---------------------------------------------------------------------------
(* ABTS                                                                    *)

AskHwqps(w, i, k) ==
    [w EXCEPT !.hw = [h \in FcHwqps |-> IF h \in w.abts[i].asked
                                        THEN [w.hw[h] EXCEPT !.msgs = Append(@, [k |-> k, i |-> i])] ELSE w.hw[h]]]

(* The answer, and whether it is true: a rejected command must not be      *)
(* executed later, an accepted one must be gone.  An event request that    *)
(* waits when its connection is deleted stays in the queue, and is         *)
(* executed later, but no hwqp finds it.                                   *)
AnswerAbts(w, i) ==
    LET r == w.abts[i].req
        runs == \/ w.req[r].st \notin {"free", "aborted"}
                \/ r \in w.air /\ w.hw[HwqpOf(r)].conn = "created"
        said == [w EXCEPT !.abts[i].st = "answered"]
    IN  CASE w.abts[i].handled /\ w.req[r].st # "free" -> [said EXCEPT !.wrong = @ \cup {"accept"}]
          [] ~w.abts[i].handled /\ runs                ->
                [said EXCEPT !.wrong = @ \cup {IF w.req[r].data = "aer" /\ w.hw[HwqpOf(r)].conn = "deleted"
                                               THEN "left behind" ELSE "reject"}]
          [] OTHER                                      -> said

(* nvmf_fc_handle_abts_frame: to every hwqp with a connection of the       *)
(* remote port; the host aborts a command that it has sent.                *)
AbtsFrame(i, r) ==
    /\ FcReqAlive /\ fcr.left.abts > 0 /\ fcr.abts[i].st = "unused"
    /\ \A j \in 1 .. i - 1 : fcr.abts[j].st # "unused"
    /\ fcr.req[r].st # "free" \/ r \in fcr.air
    /\ LET hwqps == {h \in FcHwqps : fcr.hw[h].conn # "deleted"}
           w == [FcSpend(fcr, "abts") EXCEPT
                   !.abts[i] = [@ EXCEPT !.st = "asked", !.req = r, !.asked = hwqps, !.waits = Cardinality(hwqps)]]
       IN  fcr' = IF hwqps = {} THEN AnswerAbts(w, i) ELSE AskHwqps(w, i, "abts")

(* A slip: not found anywhere, an ABTS is rejected at once.                *)
AllAnsweredUnsynced(w, i) == AnswerAbts(w, i)

(* nvmf_fc_abts_handled_cb, nvmf_fc_handle_abts_notfound: not found        *)
(* anywhere, the queues are synchronised once and asked again.  The marker *)
(* goes out after the messages.                                            *)
AllAnswered(w, i) ==
    CASE ~w.abts[i].handled /\ ~w.abts[i].synced /\ w.left.sync ->
            [AskHwqps([w EXCEPT !.abts[i].waits = Cardinality(w.abts[i].asked)], i, "sync") EXCEPT
                !.markers = @ \cup {<<i, h>> : h \in w.abts[i].asked}]
      [] OTHER -> AnswerAbts(w, i)

(* nvmf_fc_queue_synced_cb. *)
AllSynced(w, i) ==
    AskHwqps([w EXCEPT !.abts[i] = [@ EXCEPT !.synced = TRUE, !.handled = FALSE,
                                             !.waits = Cardinality(w.abts[i].asked)]], i, "abts")

FcMainMessage ==
    /\ FcReqAlive /\ fcr.main # <<>>
    /\ LET msg == Head(fcr.main)
           i == msg.i
           w == [fcr EXCEPT !.main = Tail(@), !.abts[i].waits = @ - 1,
                            !.abts[i].handled = (@ \/ (msg.k = "abts" /\ msg.found))]
       IN  \/ w.abts[i].waits > 0 /\ fcr' = w
           \/ w.abts[i].waits = 0 /\ msg.k = "abts" /\ fcr' = AllAnswered(w, i)
           \/ w.abts[i].waits = 0 /\ msg.k = "synced" /\ fcr' = AllSynced(w, i)

(* The marker has come through the hwqp, behind every frame that was ahead *)
(* of it: the driver sends QUEUE_SYNC_DONE.                                *)
Marker(m) ==
    /\ FcReqAlive /\ m \in fcr.markers /\ fcr.hw[m[2]].on /\ ~fcr.dead
    /\ \A r \in fcr.air : HwqpOf(r) # m[2] \/ fcr.abts[m[1]].req # r
    /\ fcr' = ToHwqp([fcr EXCEPT !.markers = @ \ {m}], m[2], [k |-> "sync_done", i |-> m[1]])

---------------------------------------------------------------------------
(* The hwqps' messages                                                     *)

(* nvmf_fc_poller_api_abts_received. *)
AbtsReceived(w, h, i) ==
    LET r == w.abts[i].req
    IN  IF r \in FcInUse(w, h) /\ w.hw[h].conn # "deleted"
        THEN FcAbort([w EXCEPT !.req[r].cbs = Append(@, i)], r)
        ELSE TellMain(w, [k |-> "abts", i |-> i, h |-> h, found |-> FALSE])

(* nvmf_fc_poller_api_queue_sync_done: no answer for an unknown marker. *)
SyncDone(w, h, i) ==
    IF i \in w.hw[h].syncs
    THEN TellMain([w EXCEPT !.hw[h].syncs = @ \ {i}], [k |-> "synced", i |-> i, h |-> h]) ELSE w

(* nvmf_fc_poller_api_del_connection: every command but event requests. *)
DeletionAborts(w, s) ==
    LET after[n \in 0 .. Len(s)] ==
            IF n = 0 THEN w ELSE FcAbort([after[n - 1] EXCEPT !.req[s[n]].del = TRUE], s[n])
    IN  after[Len(s)]
DeleteFcConn(w, h) ==
    LET aborts == {r \in FcInUse(w, h) : w.req[r].data # "aer"}
    IN  IF aborts = {} THEN LeaveHwqp([w EXCEPT !.hw[h].left = 0], h)
        ELSE DeletionAborts([w EXCEPT !.hw[h].left = Cardinality(aborts)], SetToSeq(aborts))

(* nvmf_fc_poller_api_quiesce_queue: the HBA will not end the aborts. *)
QuiesceQueue(w, h) ==
    LET aborts == {r \in FcInUse(w, h) : w.req[r].st \in InXfer /\ w.req[r].aborted}
    IN  [w EXCEPT !.hw[h].msgs = @ \o Messages("aborted", SetToSeq(aborts))]

HwqpMessage(h) ==
    /\ FcReqAlive /\ fcr.hw[h].msgs # <<>>
    /\ LET msg == Head(fcr.hw[h].msgs)
           w == [fcr EXCEPT !.hw[h].msgs = Tail(@)]
       IN  \/ msg.k = "abts"       /\ fcr' = AbtsReceived(w, h, msg.i)
           \/ msg.k = "sync"       /\ fcr' = [w EXCEPT !.hw[h].syncs = @ \cup {msg.i}]
           \/ msg.k = "sync_done"  /\ fcr' = SyncDone(w, h, msg.i)
           \/ msg.k = "aborted"    /\ fcr' = FcAbortComplete(w, msg.r)
           \/ msg.k = "bdev_abort" /\ fcr' = FcBdevAbort(w, msg.r)
           \/ msg.k = "del"        /\ fcr' = DeleteFcConn(w, h)
           \/ msg.k = "quiesce"    /\ fcr' = QuiesceQueue(w, h)

(* The main thread deletes a connection; the port dies; a reset quiesces   *)
(* the hwqps, which are not polled from then on.                           *)
FcDelete(h) ==
    /\ FcReqAlive /\ fcr.left.dels > 0 /\ fcr.hw[h].conn = "created"
    /\ fcr' = ToHwqp([FcSpend(fcr, "dels") EXCEPT !.hw[h].conn = "deleting"], h, [k |-> "del"])
FcDies == FcReqAlive /\ fcr.left.dead /\ ~fcr.dead /\ fcr' = [fcr EXCEPT !.dead = TRUE]
FcQuiesce ==
    /\ FcReqAlive /\ fcr.left.dead /\ \A h \in FcHwqps : fcr.hw[h].on
    /\ fcr' = [fcr EXCEPT !.hw = [h \in FcHwqps |->
                  [fcr.hw[h] EXCEPT !.on = FALSE, !.msgs = Append(@, [k |-> "quiesce"])]]]

FcReqNext ==
    \/ \E r \in FcReqs : \/ \E data \in fcr.left.cmds : FcSend(r, data)
                         \/ FcFrame(r) \/ LibraryCompletes(r) \/ HbaCompletes(r)
                         \/ \E i \in 1 .. FcAbtsIds : AbtsFrame(i, r)
    \/ \E h \in FcHwqps : FcProcessPending(h) \/ HwqpMessage(h) \/ FcDelete(h)
    \/ FcMainMessage \/ FcDies \/ FcQuiesce
    \/ \E m \in fcr.markers : Marker(m)

FcReqSpec == FcReqInit /\ [][FcReqNext]_fcrVars

---------------------------------------------------------------------------
FcReqTypeOK ==
    /\ \A r \in FcReqs :
          /\ fcr.req[r].st \in {"free", "init", "pending", "aborted"} \cup InBdev \cup InXfer
          /\ Len(fcr.req[r].cbs) <= FcAbtsIds
    /\ \A h \in FcHwqps :
          /\ fcr.hw[h].conn \in {"created", "deleting", "deleted"}
          /\ fcr.hw[h].left \in 0 .. Cardinality(FcSlots[h])
    /\ \A i \in 1 .. FcAbtsIds : fcr.abts[i].waits \in 0 .. Cardinality(FcHwqps)

(* A command waits for a buffer exactly while it is in the queue, and no   *)
(* more exchanges and buffers are used than there are.                     *)
FcResources ==
    \A h \in FcHwqps :
        /\ {r \in FcSlots[h] : fcr.req[r].st = "pending"} = ToSet(fcr.hw[h].pending)
        /\ Len(fcr.hw[h].pending) = Cardinality(ToSet(fcr.hw[h].pending))
        /\ FcUsed(fcr, h, "xchg") <= fcr.left.xchgs /\ FcUsed(fcr, h, "buf") <= FcBuffers

(* ABTS is accepted only for a command that is gone; with synchronisation  *)
(* it is rejected only for a command that is not executed any more, or an  *)
(* event request that was left behind.                                     *)
AbtsTruth == "accept" \notin fcr.wrong /\ (fcr.left.sync => "reject" \notin fcr.wrong)

(* When no message is under way, every abort waits for the library or the  *)
(* HBA only, every ABTS whose command is gone was answered, and a          *)
(* connection without commands is deleted.  A dead or quiesced port owes   *)
(* nothing.                                                                *)
AbortsEnd ==
    /\ fcr.main = <<>> /\ \A h \in FcHwqps : fcr.hw[h].msgs = <<>> /\ fcr.hw[h].on
    => /\ \A r \in FcReqs : fcr.req[r].st # "aborted"
       /\ \A i \in 1 .. FcAbtsIds :
             fcr.abts[i].st = "asked" =>
                \/ i \in ToSet(fcr.req[fcr.abts[i].req].cbs)
                \/ \E h \in FcHwqps : <<i, h>> \in fcr.markers
       /\ \A h \in FcHwqps : fcr.hw[h].conn = "deleting" =>
             \E r \in FcInUse(fcr, h) : fcr.req[r].del

(* A command is freed twice only on a dead port, whose quiesced hwqp and   *)
(* whose deletions both end an abort.                                      *)
FcCommands ==
    /\ fcr.crash # "no" => fcr.dead
    /\ FcReqAlive => FcResources /\ AbtsTruth /\ AbortsEnd
=============================================================================
