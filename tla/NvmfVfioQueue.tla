--------------------------- MODULE NvmfVfioQueue ---------------------------
(***************************************************************************)
(* The queues of one controller of the vfio-user transport                 *)
(* (src/nvmf/vfio_user.c): the guest creates and deletes submission and    *)
(* completion queues, resets and shuts down the controller; the client     *)
(* removes and adds the memory that the queues are mapped from, saves the  *)
(* controller for a migration, and goes away.                              *)
(*                                                                         *)
(* The queue pairs of the library connect and disconnect asynchronously on *)
(* the threads of their poll groups, so that everything above may come     *)
(* between two steps of a queue's life.  A guest creates a completion      *)
(* queue before its submission queues, deletes in the other order, waits   *)
(* for the answers, and resets whenever it likes.  The library is external *)
(* here; NvmfCtrlr models it.                                              *)
(***************************************************************************)
EXTENDS Integers, FiniteSets

CONSTANTS
    VfuIds,       \* the I/O queues are 1 .. VfuIds, the admin queues are 0
    VfuQueueMixes \* bounds: [creates, resets, removals, losses, commands, faults], see QueueInit

ASSUME VfuIdsAssumption == VfuIds \in Nat \ {0}
ASSUME VfuQueueMixesAssumption ==
    VfuQueueMixes \subseteq
        [creates : Nat, resets : Nat, removals : Nat, losses : Nat, commands : Nat, faults : Nat]

VARIABLE vq   \* the controller and its queues, see QueueInit
vqVars == <<vq>>

Io == 1 .. VfuIds
AllIds == 0 .. VfuIds
Regions == {"sq", "cq"}   \* the memory of the submission and of the completion queues
DeletedOrUnused == {"unused", "deleted"}

(* qp: the queue pair of the library, "new" until its connect command is   *)
(* handled, "on", "off" while it is being disconnected, "out" when it has  *)
(* left its poll group.                                                    *)
NewSq == [st |-> "unused", size |-> FALSE, mapped |-> FALSE, cq |-> 0, qp |-> "none",
          listed |-> FALSE, busy |-> 0, create |-> FALSE, delete |-> FALSE]
NewCq == [st |-> "unused", size |-> FALSE, mapped |-> FALSE, ref |-> 0]

(* A controller that its guest has just enabled.  host: what the guest     *)
(* knows of its queues.                                                    *)
QueueInit ==
    \E mix \in VfuQueueMixes :
    vq = [sq |-> [q \in AllIds |-> IF q # 0 THEN NewSq
                     ELSE [NewSq EXCEPT !.st = "active", !.size = TRUE, !.mapped = TRUE, !.qp = "on",
                                        !.listed = TRUE]],
          cq |-> [c \in AllIds |-> IF c # 0 THEN NewCq
                     ELSE [NewCq EXCEPT !.size = TRUE, !.mapped = TRUE, !.ref = 1]],
          en |-> TRUE, rdy |-> TRUE, shn |-> FALSE, resetShn |-> FALSE, gone |-> FALSE,
          mem |-> Regions, host |-> [sq |-> [q \in Io |-> "none"], cq |-> [c \in Io |-> FALSE]],
          left |-> mix, lost |-> FALSE, overlap |-> FALSE, crash |-> "no"]

QueueAlive == vq.crash = "no"
QueueCrash(w, why) == IF w.crash = "no" THEN [w EXCEPT !.crash = why] ELSE w

---------------------------------------------------------------------------
(* The operators of the code *)

(* post_completion on the admin completion queue; Told is what the guest   *)
(* then knows.                                                             *)
PostAdmin(w, told) ==
    IF w.cq[0].mapped THEN [w EXCEPT !.host = told] ELSE [w EXCEPT !.lost = TRUE]
HostSq(w, q, state) == [w.host EXCEPT !.sq[q] = state]

(* map_q of a queue whose memory is in region r. *)
MapSq(w, q) == IF w.sq[q].mapped THEN QueueCrash(w, "mapped twice") ELSE [w EXCEPT !.sq[q].mapped = TRUE]
MapCq(w, c) == IF w.cq[c].mapped THEN QueueCrash(w, "mapped twice") ELSE [w EXCEPT !.cq[c].mapped = TRUE]

DeleteCqDone(w, c) == [w EXCEPT !.cq[c] = [@ EXCEPT !.mapped = FALSE, !.size = FALSE, !.st = "deleted"]]

DropReference(w, c) ==
    LET less == [w EXCEPT !.cq[c].ref = @ - 1]
    IN  IF less.cq[c].ref = 0 THEN DeleteCqDone(less, c) ELSE less

(* A slip: every end of a queue drops the reference.                       *)
DeleteSqDoneAlways(w, q) ==
    DropReference([w EXCEPT !.sq[q] = [@ EXCEPT !.mapped = FALSE, !.size = FALSE, !.st = "deleted"]], w.sq[q].cq)
(* delete_sq_done: the end of a controller or its reset drops the          *)
(* reference too, which a deletion by the guest has dropped before.        *)
DeleteSqDone(w, q) ==
    LET c == w.sq[q].cq
        deleted == [w EXCEPT !.sq[q] = [@ EXCEPT !.mapped = FALSE, !.size = FALSE, !.st = "deleted"]]
    IN  CASE ~w.resetShn /\ ~w.gone -> deleted
          [] (w.resetShn \/ w.gone) /\ w.cq[c].ref = 0 -> QueueCrash(w, "reference")
          [] (w.resetShn \/ w.gone) /\ w.cq[c].ref > 0 -> DropReference(deleted, c)

(* disable_ctrlr *)
DisableCtrlr(w) ==
    [w EXCEPT !.sq[0] = [@ EXCEPT !.mapped = FALSE, !.size = FALSE, !.st = "inactive"],
              !.cq[0] = [@ EXCEPT !.mapped = FALSE, !.size = FALSE]]

(* enable_ctrlr *)
EnableCtrlr(w) ==
    LET cq == MapCq([w EXCEPT !.cq[0].size = TRUE], 0)
        sq == MapSq([cq EXCEPT !.sq[0].size = TRUE], 0)
    IN  [sq EXCEPT !.sq[0].st = "active"]

---------------------------------------------------------------------------
(* Admin commands of the guest *)

AdminServed == /\ vq.sq[0].st = "active" /\ vq.sq[0].size /\ vq.cq[0].mapped
               /\ vq.en /\ vq.rdy /\ ~vq.shn /\ ~vq.gone
Exists(st) == st \notin DeletedOrUnused

(* handle_create_io_cq; the queue is mapped, or its address is wrong.      *)
CreateCq(c) ==
    LET w == [vq EXCEPT !.left.creates = @ - 1]
        sized == [w EXCEPT !.cq[c].size = TRUE]
    IN  /\ AdminServed /\ vq.left.creates > 0 /\ ~vq.host.cq[c]
        /\ \/ Exists(vq.cq[c].st) /\ vq' = w
           \/ ~Exists(vq.cq[c].st) /\ vq' = sized
           \/ /\ ~Exists(vq.cq[c].st) /\ "cq" \in vq.mem
              /\ vq' = PostAdmin([MapCq(sized, c) EXCEPT !.cq[c].st = "created"],
                                 [vq.host EXCEPT !.cq[c] = TRUE])

(* handle_create_io_sq; the queue pair then connects, and the completion   *)
(* waits for that.                                                         *)
CreateSq(q, c) ==
    LET w == [vq EXCEPT !.left.creates = @ - 1]
        sized == [w EXCEPT !.sq[q].size = TRUE]
        mapped == MapSq(sized, q)
        noRequests == [mapped EXCEPT !.left.faults = @ - 1]
        created == [mapped EXCEPT !.sq[q] = [@ EXCEPT !.cq = c, !.st = "created", !.qp = "new",
                                                      !.create = TRUE],
                                  !.cq[c].ref = @ + 1, !.host = HostSq(w, q, "creating")]
    IN  /\ AdminServed /\ vq.left.creates > 0 /\ vq.host.sq[q] = "none" /\ vq.host.cq[c]
        /\ \/ (Exists(vq.sq[q].st) \/ ~Exists(vq.cq[c].st)) /\ vq' = w
           \/ /\ ~Exists(vq.sq[q].st) /\ Exists(vq.cq[c].st)
              /\ \/ vq' = sized
                 \/ "sq" \in vq.mem /\ vq.left.faults > 0 /\ vq' = noRequests
                 \/ /\ "sq" \in vq.mem
                    /\ vq' = IF vq.sq[q].qp # "none" THEN QueueCrash(created, "queue pair in use")
                             ELSE created

(* handle_del_io_q *)
DeleteCq(c) ==
    LET told == [vq.host EXCEPT !.cq[c] = FALSE] IN
    /\ AdminServed /\ vq.host.cq[c] /\ \A q \in Io : vq.host.sq[q] # "none" => vq.sq[q].cq # c
    /\ vq' = IF ~Exists(vq.cq[c].st) \/ vq.cq[c].ref > 0 THEN vq ELSE PostAdmin(DeleteCqDone(vq, c), told)
DeleteSq(q) ==
    LET c == vq.sq[q].cq
        off == IF vq.sq[q].qp = "on" THEN "off" ELSE vq.sq[q].qp
        less == [vq EXCEPT !.sq[q] = [@ EXCEPT !.st = "deleted", !.delete = TRUE, !.qp = off],
                           !.cq[c].ref = @ - 1, !.host = HostSq(vq, q, "deleting")]
    IN  /\ AdminServed /\ vq.host.sq[q] = "created" /\ Exists(vq.sq[q].st)
        /\ vq' = IF vq.cq[c].ref = 0 THEN QueueCrash(vq, "reference") ELSE less

(* A command of an I/O queue, and its completion. *)
SubmitIo(q) ==
    /\ vq.sq[q].st = "active" /\ vq.sq[q].size /\ vq.sq[q].qp = "on" /\ vq.host.sq[q] = "created"
    /\ vq.sq[q].busy = 0 /\ vq.left.commands > 0
    /\ vq' = IF ~vq.sq[q].mapped THEN QueueCrash(vq, "unmapped queue")
             ELSE [vq EXCEPT !.sq[q].busy = 1, !.left.commands = @ - 1]
CompleteIo(q) == /\ vq.sq[q].busy > 0
                 /\ vq' = [vq EXCEPT !.sq[q].busy = @ - 1]

---------------------------------------------------------------------------
(* Reset, shutdown and the end *)

Forget == [sq |-> [q \in Io |-> "none"], cq |-> [c \in Io |-> FALSE]]
Deleting == \E q \in Io : vq.sq[q].delete

(* nvmf_vfio_user_prop_req_rsp_set; the library disconnects the I/O queue  *)
(* pairs, and the controller is ready, or not, when that is done.          *)
ResetCtrlr == /\ vq.en /\ ~vq.gone /\ vq.left.resets > 0
              /\ vq' = [DisableCtrlr(vq) EXCEPT !.en = FALSE, !.resetShn = TRUE, !.host = Forget,
                                                !.overlap = @ \/ Deleting, !.left.resets = @ - 1]
Shutdown == /\ vq.en /\ ~vq.shn /\ ~vq.gone /\ vq.left.resets > 0
            /\ vq' = [DisableCtrlr(vq) EXCEPT !.shn = TRUE, !.resetShn = TRUE, !.host = Forget,
                                                !.overlap = @ \/ Deleting]
ResetDone == /\ ~vq.en /\ vq.rdy /\ \A q \in Io : vq.sq[q].qp \notin {"on", "off"}
             /\ vq' = [vq EXCEPT !.rdy = FALSE]
EnableAgain == /\ ~vq.en /\ ~vq.rdy /\ vq.mem = Regions /\ ~vq.gone
               /\ vq' = [EnableCtrlr(vq) EXCEPT !.en = TRUE, !.rdy = TRUE, !.resetShn = FALSE, !.shn = FALSE,
                                              !.overlap = @ \/ \E q \in Io : vq.sq[q].qp = "out"]

(* The client is gone: vfio_user_destroy_ctrlr. *)
LoseGuest == /\ ~vq.gone /\ vq.left.losses > 0
             /\ vq' = [vq EXCEPT !.gone = TRUE, !.overlap = @ \/ Deleting, !.left.losses = @ - 1]
DisconnectQueue(q) == /\ vq.sq[q].qp = "on"
                      /\ (vq.gone /\ vq.sq[q].listed) \/ (q # 0 /\ (~vq.en \/ vq.shn))
                      /\ vq' = [vq EXCEPT !.sq[q].qp = "off"]
LeaveGroup(q) == /\ vq.sq[q].qp = "off" /\ vq.sq[q].busy = 0
                 /\ vq' = [vq EXCEPT !.sq[q].qp = "out"]

(* nvmf_vfio_user_close_qpair, and the answer to the deletion.             *)
CloseQueue(q) ==
    LET closed == [DeleteSqDone(vq, q) EXCEPT !.sq[q].listed = FALSE, !.sq[q].qp = "none",
                                              !.sq[q].delete = FALSE]
        told == IF vq.host.sq[q] = "deleting" THEN HostSq(vq, q, "none") ELSE vq.host
        last == \A p \in AllIds \ {q} : ~vq.sq[p].listed
        pending == \E p \in Io : vq.sq[p].qp = "new"
    IN  /\ vq.sq[q].qp = "out"
        /\ vq' = CASE last /\ pending -> QueueCrash(closed, "freed queue")
                   [] last /\ ~pending -> [closed EXCEPT !.crash = IF @ = "no" THEN "freed" ELSE @]
                   [] ~last /\ vq.sq[q].delete -> PostAdmin(closed, told)
                   [] ~last /\ ~vq.sq[q].delete -> closed

(* handle_queue_connect_rsp: the library refuses a queue pair of a         *)
(* controller that is not enabled or has no admin queue pair any more.     *)
ConnectQueue(q) ==
    LET on == [vq EXCEPT !.sq[q] = [@ EXCEPT !.qp = "on", !.st = "active", !.listed = TRUE,
                                             !.create = FALSE]]
        told == IF vq.host.sq[q] = "creating" THEN HostSq(vq, q, "created") ELSE vq.host
        accepted == vq.en /\ vq.sq[0].listed
    IN  /\ vq.sq[q].qp = "new"
        /\ vq' = CASE ~accepted -> QueueCrash(vq, "refused connect")
                   [] accepted /\ vq.sq[q].create -> PostAdmin(on, told)
                   [] accepted /\ ~vq.sq[q].create -> on

---------------------------------------------------------------------------
(* Memory: the device is quiesced, no request is under way *)

Quiet == \A q \in Io : vq.sq[q].busy = 0
Listed(w) == {q \in AllIds : w.sq[q].listed}

(* memory_region_remove_cb *)
RemoveRegion(r) ==
    /\ r \in vq.mem /\ Quiet /\ ~vq.gone /\ vq.left.removals > 0
    /\ LET w == [vq EXCEPT !.mem = @ \ {r}, !.left.removals = @ - 1]
           used == {w.sq[q].cq : q \in Listed(w)}
       IN  vq' = CASE r = "sq" -> [w EXCEPT !.sq = [q \in AllIds |->
                                     IF q \in Listed(w) /\ w.sq[q].mapped
                                     THEN [w.sq[q] EXCEPT !.mapped = FALSE, !.st = "inactive"]
                                     ELSE w.sq[q]]]
                   [] r = "cq" -> [w EXCEPT !.cq = [c \in AllIds |->
                                     [w.cq[c] EXCEPT !.mapped = @ /\ c \notin used]]]

(* memory_region_add_cb *)
AddRegion(r) ==
    /\ r \in Regions \ vq.mem /\ Quiet /\ ~vq.gone
    /\ LET w == [vq EXCEPT !.mem = @ \cup {r}]
           idle == {q \in Listed(w) : w.sq[q].st = "inactive"}
           cqs == {c \in AllIds : (\E q \in idle : w.sq[q].cq = c) /\ w.cq[c].size /\ "cq" \in w.mem}
           with == {q \in idle : w.cq[w.sq[q].cq].size => w.cq[w.sq[q].cq].mapped \/ w.sq[q].cq \in cqs}
           back == {q \in with : w.sq[q].size => "sq" \in w.mem}
           twice == \E q \in with : w.sq[q].size /\ w.sq[q].mapped
           done == [w EXCEPT !.cq = [c \in AllIds |-> [w.cq[c] EXCEPT !.mapped = @ \/ c \in cqs]],
                             !.sq = [q \in AllIds |-> IF q \notin back THEN w.sq[q]
                                        ELSE [w.sq[q] EXCEPT !.mapped = @ \/ w.sq[q].size, !.st = "active"]]]
       IN  vq' = IF twice THEN QueueCrash(done, "mapped twice") ELSE done

QueueNext ==
    /\ QueueAlive
    /\ \/ ResetCtrlr \/ Shutdown \/ ResetDone \/ EnableAgain \/ LoseGuest
       \/ \E q \in Io : DeleteCq(q) \/ DeleteSq(q) \/ CreateCq(q) \/ SubmitIo(q) \/ CompleteIo(q) \/ ConnectQueue(q)
       \/ \E q \in Io, c \in Io : CreateSq(q, c)
       \/ \E q \in AllIds : DisconnectQueue(q) \/ LeaveGroup(q) \/ CloseQueue(q)
       \/ \E r \in Regions : RemoveRegion(r) \/ AddRegion(r)

QueueSpec == QueueInit /\ [][QueueNext]_vqVars

---------------------------------------------------------------------------
(* Migration *)

(* vfio_user_migr_ctrlr_save_data: an entry for each queue identifier; the *)
(* first as many as there are connected queues are written.                *)
Saved(w) ==
    LET entry(i) == [sq |-> w.sq[i].listed /\ w.sq[i].size,
                     to |-> IF w.sq[i].listed THEN w.sq[i].cq ELSE 0,
                     cq |-> \E q \in Listed(w) : w.sq[q].cq = i /\ w.cq[i].size]
    IN  [i \in AllIds |-> IF i < Cardinality(Listed(w)) THEN entry(i) ELSE [sq |-> FALSE, to |-> 0, cq |-> FALSE]]

(* vfio_user_migr_ctrlr_construct_qps *)
Restorable(s) == \A i \in AllIds : s[i].cq => s[i].to = i
Restored(s) ==
    [sqs |-> {<<i, s[i].to>> : i \in {j \in AllIds : s[j].sq}},
     refs |-> [c \in {i \in AllIds : s[i].cq} |-> Cardinality({i \in AllIds : s[i].sq /\ s[i].to = c})]]

---------------------------------------------------------------------------
(* Properties *)
QueueTypeOK ==
    /\ \A q \in AllIds :
          /\ vq.sq[q].st \in {"unused", "created", "active", "inactive", "deleted"}
          /\ vq.sq[q].cq \in AllIds /\ vq.sq[q].busy \in 0 .. 1
          /\ vq.sq[q].qp \in {"none", "new", "on", "off", "out"}
    /\ \A c \in AllIds : vq.cq[c].ref \in 0 .. VfuIds + 1

Holders(c) ==
    {q \in AllIds : /\ vq.sq[q].st \in {"created", "active", "inactive"}
                    /\ vq.sq[q].cq = c /\ ~vq.sq[q].delete}

(* A completion queue is referenced by the submission queues that complete *)
(* into it and are not deleted, each once.  The exceptions: a submission   *)
(* queue that was being deleted when the guest reset the controller or     *)
(* went away drops its reference twice, and one that is closed only after  *)
(* the guest has enabled the controller again keeps it.                    *)
CqReferences ==
    /\ QueueAlive /\ ~vq.overlap => \A c \in AllIds : vq.cq[c].ref = Cardinality(Holders(c))
    /\ vq.crash = "reference" => vq.overlap

(* A guest that waits for the answer to the creation or the deletion of a  *)
(* submission queue gets it, unless it took away the memory of its admin   *)
(* completion queue.                                                       *)
QueueAnswers ==
    QueueAlive /\ ~vq.lost =>
        \A q \in Io :
            /\ vq.host.sq[q] = "creating" => vq.sq[q].create /\ vq.sq[q].qp = "new"
            /\ vq.host.sq[q] = "deleting" => vq.sq[q].delete

(* A submission queue is mapped when the poll group takes commands from    *)
(* it, and has one queue pair at a time.                                   *)
QueueServed == vq.crash \notin {"unmapped queue", "queue pair in use"}

(* What a migration saves of a controller is what it restores: its queues, *)
(* which complete where they did, and their references; if its connected   *)
(* queues have the first identifiers and complete into their own.  With    *)
(* other identifiers the last queues are not saved, and a shared           *)
(* completion queue fails the restore.                                     *)
MigrationKeepsQueues ==
    LET ids == {q \in Listed(vq) : vq.sq[q].size /\ vq.cq[vq.sq[q].cq].size}
        plain == Listed(vq) = 0 .. Cardinality(Listed(vq)) - 1 /\ \A q \in ids : vq.sq[q].cq = q
    IN  QueueAlive /\ plain =>
            /\ Restorable(Saved(vq))
            /\ {<<q, q>> : q \in ids} \subseteq Restored(Saved(vq)).sqs
            /\ \A c \in ids : Restored(Saved(vq)).refs[c] = 1

QueueLife == CqReferences /\ QueueAnswers /\ QueueServed /\ MigrationKeepsQueues
=============================================================================
