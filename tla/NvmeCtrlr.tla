------------------------------ MODULE NvmeCtrlr ------------------------------
(***************************************************************************)
(* One NVMe controller of src/nvme/bdev_nvme.c: how it is reset,           *)
(* reconnected after a delay, and destructed, while the channels that use  *)
(* it on other SPDK threads come and go.                                   *)
(*                                                                         *)
(* A reset is a chain of handlers on the controller's thread.  Between     *)
(* them it walks over the channels with spdk_for_each_channel, whose steps *)
(* are messages to the channels' threads, and it waits for pollers.  Each  *)
(* chain has a token; its record in task says which handler runs next:     *)
(*   send       the message _bdev_nvme_reset                               *)
(*   destroy    the walk of bdev_nvme_reset_destroy_qpair (ok: towards the *)
(*              reconnect; not ok: undoing a failed creation)              *)
(*   parked     the same walk, waiting for the qpair of thread at          *)
(*   to_destroy, to_reconnect, to_delay                                    *)
(*              disconnected_cb, waiting for the admin queue to go down    *)
(*   reconnect  the reset_detach_poller                                    *)
(*   delay      the reconnect_delay_timer                                  *)
(*   create, complete                                                      *)
(*              the walks that create qpairs and that end pending resets   *)
(* A handler takes the controller's mutex once: one handler is one step.   *)
(* Transport ids are left out: whether a reconnect succeeds is free.       *)
(***************************************************************************)
EXTENDS Integers, FiniteSets, FiniteSetsExt

CONSTANTS
    NumThreads,  \* SPDK threads, in the order in which they are walked
    Namespaces,  \* namespaces of the controller, each with a bdev of its own
    Resets,      \* reset I/Os of those bdevs
    Sequences,   \* tokens: bounds the chains of handlers that coexist
    Options,     \* the kinds of controllers: [fabrics, delay, loss, retry]
    MaxOrphans,  \* bound: qpairs of one thread that outlived their channel
    None

Threads == 1 .. NumThreads
End == NumThreads + 1

OptionsType == [fabrics : BOOLEAN, delay : BOOLEAN, loss : BOOLEAN, retry : BOOLEAN]

ASSUME NumThreadsAssumption == NumThreads \in Nat \ {0}
ASSUME NamespacesAssumption == IsFiniteSet(Namespaces)
ASSUME NoneAssumption == None \notin Resets \cup Sequences
ASSUME MaxOrphansAssumption == MaxOrphans \in Nat
\* bdev_nvme_check_io_error_resiliency_params: a loss timeout needs a delay.
ASSUME OptionsAssumption ==
    /\ Options \subseteq OptionsType
    /\ \A o \in Options : o.loss => o.delay

VARIABLES
    opts,     \* nvme_ctrlr->opts; loss: ctrlr_loss_timeout_sec is positive
    ctrlr,    \* the fields of the nvme_ctrlr that its mutex protects
    lib,      \* the spdk_nvme_ctrlr below it
    task,     \* task[s]: the next handler of chain s
    qpair,    \* qpair[t]: none (no channel), null or live (nvme_qpair->qpair)
    iter,     \* ctrlr_ch->reset_iter: the walk that waits for the qpair
    orphans,  \* nvme_qpairs of thread t whose channel is gone
    pending,  \* ctrlr_ch->pending_resets
    resetIo,  \* where each reset I/O is
    reset_cb, \* the reset I/O to be told of the end of the reset
    ns        \* the namespaces: in the tree, with a bdev, being removed;
              \* late is history: one was populated during the destruction

vars == <<opts, ctrlr, lib, task, qpair, iter, orphans, pending, resetIo, reset_cb, ns>>
channelVars == <<qpair, iter, orphans>>
resetIoVars == <<pending, resetIo, reset_cb>>

Idle == [fn |-> "idle", at |-> 0, ok |-> TRUE]
Waits == {"to_destroy", "to_reconnect", "to_delay"}
Walks == {"destroy", "create", "complete"}
TaskType == [fn : {"idle", "send", "parked", "reconnect", "delay"} \cup Waits \cup Walks,
             at : 0 .. End, ok : BOOLEAN]

Init ==
    /\ opts \in Options
    /\ ctrlr = [destruct |-> FALSE, resetting |-> FALSE, delayed |-> FALSE,
                started |-> FALSE, clearing |-> FALSE, updating |-> FALSE,
                ref |-> 1 + Cardinality(Namespaces), attached |-> TRUE,
                unregisters |-> 0, deleted |-> FALSE, asserted |-> FALSE]
    /\ lib = [resetting |-> FALSE, up |-> TRUE, removed |-> FALSE]
    /\ task = [s \in Sequences |-> Idle]
    /\ qpair = [t \in Threads |-> "none"]
    /\ iter = [t \in Threads |-> None]
    /\ orphans = [t \in Threads |-> 0]
    /\ pending = [t \in Threads |-> {}]
    /\ resetIo = [r \in Resets |-> [at |-> 0, stage |-> "new"]]
    /\ reset_cb = None
    /\ ns = [tree |-> Namespaces, bdev |-> Namespaces, removing |-> {}, late |-> FALSE]

---------------------------------------------------------------------------
(* Life and references *)

(* A failed assertion ends the process. *)
Running == ~ctrlr.asserted

(* A slip: a reset under way is not looked at. *)
CanBeUnregisteredInReset(c) == c.destruct /\ c.ref = 0 /\ ~c.updating /\ ~c.clearing

CanBeUnregistered(c) ==
    /\ c.destruct
    /\ c.ref = 0
    /\ ~c.resetting
    /\ ~c.updating
    /\ ~c.clearing

(* What a handler does once it has changed c: nvme_ctrlr_unregister. *)
UnregisterIfUnused(c) ==
    IF CanBeUnregistered(c) THEN [c EXCEPT !.unregisters = @ + 1] ELSE c

Release(c) == UnregisterIfUnused([c EXCEPT !.ref = @ - 1])

HasChannel(t) == qpair[t] # "none"

(* spdk_for_each_channel visits the threads that have a channel, in order. *)
NextThread(t) == Min({u \in Threads : u > t /\ HasChannel(u)} \cup {End})
Walk(f, success) == [fn |-> f, at |-> NextThread(0), ok |-> success]
Continue(w) == [w EXCEPT !.at = NextThread(w.at)]

(* _bdev_nvme_delete: by RPC, hot removal or a lost controller. *)
Delete ==
    /\ Running
    /\ ~ctrlr.destruct
    /\ ctrlr' = [ctrlr EXCEPT !.destruct = TRUE]
    /\ ns' = [ns EXCEPT !.removing = @ \cup ns.tree]
    /\ UNCHANGED <<opts, lib, task, channelVars, resetIoVars>>

(* An AER says that a namespace is gone, or that there is a new one:       *)
(* nvme_ctrlr_populate_namespaces, which does not look at destruct.        *)
HearsEvents == lib.up /\ ~ctrlr.deleted

NamespaceRemoved(n) ==
    /\ Running /\ HearsEvents
    /\ n \in ns.tree \ ns.removing
    /\ ns' = [ns EXCEPT !.removing = @ \cup {n}]
    /\ UNCHANGED <<opts, ctrlr, lib, task, channelVars, resetIoVars>>

(* One whose population fails leaves the tree in the same handler, and     *)
(* changes nothing: so does one that comes back to its old bdev, when it   *)
(* cannot be shared.                                                       *)
NamespaceAdded(n) ==
    /\ Running /\ HearsEvents
    /\ n \notin ns.tree \cup ns.bdev
    /\ ~ns.late   \* bound: the exception happens once
    /\ ns' = [tree |-> ns.tree \cup {n}, bdev |-> ns.bdev \cup {n},
              removing |-> ns.removing \ {n}, late |-> ns.late \/ ctrlr.destruct]
    /\ ctrlr' = [ctrlr EXCEPT !.ref = @ + 1]
    /\ UNCHANGED <<opts, lib, task, channelVars, resetIoVars>>

(* The end of nvme_ctrlr_depopulate_namespace, which has asked the bdev    *)
(* layer to unregister the bdev; another thread may be ahead of it.        *)
DepopulateDone(n) ==
    /\ Running
    /\ n \in ns.tree \cap ns.removing
    /\ ns' = [ns EXCEPT !.tree = @ \ {n}]
    /\ ctrlr' = IF n \in ns.bdev THEN ctrlr ELSE Release(ctrlr)
    /\ UNCHANGED <<opts, lib, task, channelVars, resetIoVars>>

(* A slip: the bdev's destruction releases whatever the tree holds. *)
BdevDestructReleasing(n) ==
    /\ Running
    /\ n \in ns.bdev \cap ns.removing
    /\ ns.bdev = {n} => \A t \in Threads : ~HasChannel(t)
    /\ ns' = [ns EXCEPT !.bdev = @ \ {n}]
    /\ ctrlr' = Release(ctrlr)
    /\ UNCHANGED <<opts, lib, task, channelVars, resetIoVars>>

(* bdev_nvme_destruct, once the last channel of the bdev is closed. *)
BdevDestruct(n) ==
    /\ Running
    /\ n \in ns.bdev \cap ns.removing
    /\ ns.bdev = {n} => \A t \in Threads : ~HasChannel(t)
    /\ ns' = [ns EXCEPT !.bdev = @ \ {n}]
    /\ ctrlr' = IF n \in ns.tree THEN ctrlr ELSE Release(ctrlr)
    /\ UNCHANGED <<opts, lib, task, channelVars, resetIoVars>>

(* The end of _nvme_ctrlr_destruct: the reference held since attach. *)
DestructRelease ==
    /\ Running
    /\ ctrlr.destruct /\ ctrlr.attached
    /\ ns.tree = {}
    /\ ctrlr' = Release([ctrlr EXCEPT !.attached = FALSE])
    /\ UNCHANGED <<opts, lib, task, channelVars, resetIoVars, ns>>

(* nvme_ctrlr_delete, called when the io_device has no channel and no walk *)
(* left.  It unregisters the delay timer and the admin queue poller.       *)
CtrlrDelete ==
    /\ Running
    /\ ctrlr.unregisters > 0 /\ ~ctrlr.deleted
    /\ \A t \in Threads : ~HasChannel(t)
    /\ \A s \in Sequences : task[s].fn \notin Walks \cup {"parked"}
    /\ ~ctrlr.clearing
    /\ ctrlr' = [ctrlr EXCEPT !.deleted = TRUE]
    /\ UNCHANGED <<opts, lib, task, channelVars, resetIoVars, ns>>

(* The PCIe device disappears under the library. *)
HotRemoved ==
    /\ Running
    /\ ~opts.fabrics /\ ~lib.removed
    /\ lib' = [lib EXCEPT !.removed = TRUE, !.up = FALSE]
    /\ UNCHANGED <<opts, ctrlr, task, channelVars, resetIoVars, ns>>

---------------------------------------------------------------------------
(* Starting a reset *)

(* A slip: the flag resetting is not looked at. *)
MayResetTwice == ~ctrlr.destruct /\ ~ctrlr.delayed

MayReset == ~ctrlr.destruct /\ ~ctrlr.resetting /\ ~ctrlr.delayed

(* The part that bdev_nvme_reset and bdev_nvme_failover share, with its    *)
(* assertion that reset_start_tsc is 0.                                    *)
BeginReset ==
    /\ MayReset
    /\ ctrlr' = [ctrlr EXCEPT !.resetting = TRUE, !.started = TRUE,
                              !.asserted = ctrlr.started]
    /\ \E s \in Sequences :
          /\ task[s] = Idle
          /\ task' = [task EXCEPT ![s] = [Idle EXCEPT !.fn = "send"]]

(* A command timeout, a failed abort, a failed admin queue. *)
ResetRequested ==
    /\ Running
    /\ BeginReset
    /\ UNCHANGED <<opts, lib, channelVars, resetIoVars, ns>>

(* _bdev_nvme_reset_io: a busy controller queues the I/O. *)
SubmitReset(r, t) ==
    /\ Running
    /\ resetIo[r].stage = "new" /\ HasChannel(t)
    /\ \/ /\ ctrlr.destruct
          /\ resetIo' = [resetIo EXCEPT ![r] = [at |-> t, stage |-> "done"]]
          /\ UNCHANGED <<ctrlr, task, pending, reset_cb>>
       \/ /\ BeginReset
          /\ resetIo' = [resetIo EXCEPT ![r] = [at |-> t, stage |-> "started"]]
          /\ reset_cb' = r
          /\ UNCHANGED pending
       \/ /\ ~ctrlr.destruct /\ ~MayReset
          /\ resetIo' = [resetIo EXCEPT ![r] = [at |-> t, stage |-> "pending"]]
          /\ pending' = [pending EXCEPT ![t] = @ \cup {r}]
          /\ UNCHANGED <<ctrlr, task, reset_cb>>
    /\ UNCHANGED <<opts, lib, channelVars, ns>>

---------------------------------------------------------------------------
(* The handlers of a chain *)

(* A slip: a refused disconnect drops the reset. *)
DisconnectOrDrop(s, next) ==
    IF lib.resetting \/ lib.removed
    THEN /\ task' = [task EXCEPT ![s] = Idle]
         /\ UNCHANGED lib
    ELSE /\ task' = [task EXCEPT ![s] = [Idle EXCEPT !.fn = next]]
         /\ lib' = [lib EXCEPT !.resetting = TRUE, !.up = FALSE]

(* nvme_ctrlr_disconnect: the library refuses while it is resetting and    *)
(* when the device is removed; then the reset fails at once.               *)
Disconnect(s, next) ==
    IF lib.resetting \/ lib.removed
    THEN /\ task' = [task EXCEPT ![s] = Walk("complete", FALSE)]
         /\ UNCHANGED lib
    ELSE /\ task' = [task EXCEPT ![s] = [Idle EXCEPT !.fn = next]]
         /\ lib' = [lib EXCEPT !.resetting = TRUE, !.up = FALSE]

ResetSent(s) ==
    /\ Running
    /\ task[s].fn = "send"
    /\ IF opts.fabrics
       THEN task' = [task EXCEPT ![s] = Walk("destroy", TRUE)] /\ UNCHANGED lib
       ELSE Disconnect(s, "to_destroy")
    /\ UNCHANGED <<opts, ctrlr, channelVars, resetIoVars, ns>>

(* bdev_nvme_poll_adminq reports the disconnect and calls disconnected_cb. *)
Disconnected(s) ==
    /\ Running
    /\ ~ctrlr.deleted
    /\ \/ /\ task[s].fn = "to_destroy"
          /\ task' = [task EXCEPT ![s] = Walk("destroy", TRUE)]
          /\ UNCHANGED ctrlr
       \/ /\ task[s].fn = "to_reconnect"
          /\ task' = [task EXCEPT ![s] = [Idle EXCEPT !.fn = "reconnect"]]
          /\ UNCHANGED ctrlr
       \/ /\ task[s].fn = "to_delay"
          /\ task' = [task EXCEPT ![s] = [Idle EXCEPT !.fn = "delay"]]
          /\ ctrlr' = [ctrlr EXCEPT !.delayed = TRUE]
    /\ UNCHANGED <<opts, lib, channelVars, resetIoVars, ns>>

(* A step of a walk whose channel was closed meanwhile. *)
SkipChannel(s) ==
    /\ Running
    /\ task[s].fn \in Walks
    /\ task[s].at \in Threads /\ ~HasChannel(task[s].at)
    /\ task' = [task EXCEPT ![s] = Continue(task[s])]
    /\ UNCHANGED <<opts, ctrlr, lib, channelVars, resetIoVars, ns>>

(* bdev_nvme_reset_destroy_qpair: a live qpair is asked to disconnect. *)
DestroyQpair(s) ==
    LET t == task[s].at IN
    /\ Running
    /\ task[s].fn = "destroy" /\ t \in Threads
    /\ HasChannel(t)
    /\ IF qpair[t] = "live"
       THEN /\ task' = [task EXCEPT ![s].fn = "parked"]
            /\ iter' = [iter EXCEPT ![t] = s]
       ELSE /\ task' = [task EXCEPT ![s] = Continue(task[s])]
            /\ UNCHANGED iter
    /\ UNCHANGED <<opts, ctrlr, lib, qpair, orphans, resetIoVars, ns>>

(* bdev_nvme_reset_ctrlr, or bdev_nvme_reset_create_qpairs_failed. *)
DestroyDone(s) ==
    /\ Running
    /\ task[s].fn = "destroy" /\ task[s].at = End
    /\ CASE ~task[s].ok ->
              task' = [task EXCEPT ![s] = Walk("complete", FALSE)] /\ UNCHANGED lib
         [] task[s].ok /\ opts.fabrics ->
              Disconnect(s, "to_reconnect")
         [] OTHER ->
              task' = [task EXCEPT ![s] = [Idle EXCEPT !.fn = "reconnect"]] /\ UNCHANGED lib
    /\ UNCHANGED <<opts, ctrlr, channelVars, resetIoVars, ns>>

(* bdev_nvme_reconnect_ctrlr_poll, when the library is done.  It first     *)
(* overwrites ctrlr_loss_timeout_sec with 0.                               *)
ReconnectPoll(s) ==
    /\ Running
    /\ task[s].fn = "reconnect"
    /\ opts' = [opts EXCEPT !.loss = FALSE]
    /\ \/ /\ ~lib.removed
          /\ lib' = [lib EXCEPT !.resetting = FALSE, !.up = TRUE]
          /\ task' = [task EXCEPT ![s] = Walk("create", TRUE)]
       \/ /\ lib' = [lib EXCEPT !.resetting = FALSE]
          /\ task' = [task EXCEPT ![s] = Walk("complete", FALSE)]
    /\ UNCHANGED <<ctrlr, channelVars, resetIoVars, ns>>

(* bdev_nvme_reset_create_qpair: the first failure ends the walk. *)
CreateQpair(s) ==
    LET t == task[s].at IN
    /\ Running
    /\ task[s].fn = "create" /\ t \in Threads
    /\ HasChannel(t)
    /\ \/ /\ lib.up
          /\ qpair' = [qpair EXCEPT ![t] = "live"]
          /\ task' = [task EXCEPT ![s] = Continue(task[s])]
       \/ /\ task' = [task EXCEPT ![s] = [fn |-> "create", at |-> End, ok |-> FALSE]]
          /\ UNCHANGED qpair
    /\ UNCHANGED <<opts, ctrlr, lib, iter, orphans, resetIoVars, ns>>

CreateDone(s) ==
    /\ Running
    /\ task[s].fn = "create" /\ task[s].at = End
    /\ task' = [task EXCEPT ![s] = IF task[s].ok THEN Walk("complete", TRUE)
                                   ELSE Walk("destroy", FALSE)]
    /\ UNCHANGED <<opts, ctrlr, lib, channelVars, resetIoVars, ns>>

(* bdev_nvme_complete_pending_resets on one thread. *)
CompletePending(s) ==
    LET t == task[s].at IN
    /\ Running
    /\ task[s].fn = "complete" /\ t \in Threads
    /\ HasChannel(t)
    /\ resetIo' = [r \in Resets |-> IF r \in pending[t]
                                    THEN [resetIo[r] EXCEPT !.stage = "done"]
                                    ELSE resetIo[r]]
    /\ pending' = [pending EXCEPT ![t] = {}]
    /\ task' = [task EXCEPT ![s] = Continue(task[s])]
    /\ UNCHANGED <<opts, ctrlr, lib, channelVars, reset_cb, ns>>

(* reset_cb_fn, which ends the reset I/O that had started the reset. *)
AnswerReset ==
    /\ resetIo' = IF reset_cb = None THEN resetIo
                  ELSE [resetIo EXCEPT ![reset_cb].stage = "done"]
    /\ reset_cb' = None
    /\ UNCHANGED pending

(* bdev_nvme_check_op_after_reset and the operation it chooses. *)
OpAfterReset(s, c) ==
    \/ /\ CanBeUnregistered(c)
       /\ ctrlr' = UnregisterIfUnused(c)
       /\ task' = [task EXCEPT ![s] = Idle]
       /\ UNCHANGED <<lib, ns>>
    \/ /\ ~CanBeUnregistered(c)
       /\ task[s].ok \/ ~opts.delay
       /\ ctrlr' = [c EXCEPT !.started = FALSE]
       /\ task' = [task EXCEPT ![s] = Idle]
       /\ UNCHANGED <<lib, ns>>
    \/ /\ ~CanBeUnregistered(c)
       /\ ~task[s].ok /\ opts.loss
       /\ ctrlr' = [c EXCEPT !.destruct = TRUE]
       /\ ns' = IF c.destruct THEN ns ELSE [ns EXCEPT !.removing = @ \cup ns.tree]
       /\ task' = [task EXCEPT ![s] = Idle]
       /\ UNCHANGED lib
    \/ /\ ~CanBeUnregistered(c)
       /\ ~task[s].ok /\ opts.delay
       /\ ctrlr' = c
       /\ Disconnect(s, "to_delay")
       /\ UNCHANGED ns

(* _bdev_nvme_reset_complete *)
ResetComplete(s) ==
    /\ Running
    /\ task[s].fn = "complete" /\ task[s].at = End
    /\ OpAfterReset(s, [ctrlr EXCEPT !.resetting = FALSE])
    /\ AnswerReset
    /\ UNCHANGED <<opts, channelVars>>

(* bdev_nvme_reconnect_delay_timer_expired *)
DelayTimerExpired(s) ==
    /\ Running
    /\ task[s].fn = "delay" /\ ~ctrlr.deleted
    /\ IF ctrlr.destruct
       THEN /\ ctrlr' = [ctrlr EXCEPT !.delayed = FALSE]
            /\ task' = [task EXCEPT ![s] = Idle]
       ELSE /\ ctrlr' = [ctrlr EXCEPT !.delayed = FALSE, !.resetting = TRUE]
            /\ task' = [task EXCEPT ![s] = [Idle EXCEPT !.fn = "reconnect"]]
    /\ UNCHANGED <<opts, lib, channelVars, resetIoVars, ns>>

---------------------------------------------------------------------------
(* Channels and their qpairs *)

(* bdev_nvme_disconnected_qpair_cb of a qpair that has a channel: a walk   *)
(* that waits for it goes on; otherwise the controller is reset, unless it *)
(* is being reset already or waits for its reconnect.                      *)
QpairDisconnected(t) ==
    /\ Running
    /\ qpair[t] = "live"
    /\ qpair' = [qpair EXCEPT ![t] = "null"]
    /\ IF iter[t] # None
       THEN /\ task' = [task EXCEPT ![iter[t]] = [Continue(@) EXCEPT !.fn = "destroy"]]
            /\ iter' = [iter EXCEPT ![t] = None]
            /\ UNCHANGED ctrlr
       ELSE /\ IF MayReset THEN BeginReset ELSE UNCHANGED <<ctrlr, task>>
            /\ UNCHANGED iter
    /\ UNCHANGED <<opts, lib, orphans, resetIoVars, ns>>

(* The same callback for a qpair whose channel is gone: nvme_qpair_delete. *)
OrphanDisconnected(t) ==
    /\ Running
    /\ orphans[t] > 0
    /\ orphans' = [orphans EXCEPT ![t] = @ - 1]
    /\ ctrlr' = Release(ctrlr)
    /\ UNCHANGED <<opts, lib, task, qpair, iter, resetIoVars, ns>>

(* A slip: the new qpair takes no reference. *)
OpenChannelUncounted(t) ==
    /\ Running
    /\ ~HasChannel(t) /\ ns.bdev # {} /\ ctrlr.unregisters = 0
    /\ lib.up /\ qpair' = [qpair EXCEPT ![t] = "live"]
    /\ UNCHANGED <<opts, ctrlr, lib, task, iter, orphans, resetIoVars, ns>>

(* bdev_nvme_create_ctrlr_channel_cb, for a channel of a bdev.  A failure  *)
(* to create the qpair is ignored when it will be created again later.     *)
OpenChannel(t) ==
    /\ Running
    /\ ~HasChannel(t) /\ ns.bdev # {} /\ ctrlr.unregisters = 0
    /\ \/ lib.up /\ qpair' = [qpair EXCEPT ![t] = "live"]
       \/ opts.delay /\ opts.retry /\ qpair' = [qpair EXCEPT ![t] = "null"]
    /\ ctrlr' = [ctrlr EXCEPT !.ref = @ + 1]
    /\ UNCHANGED <<opts, lib, task, iter, orphans, resetIoVars, ns>>

(* A slip: a walk that waits for the qpair is forgotten. *)
CloseChannelForgetting(t) ==
    /\ Running
    /\ HasChannel(t)
    /\ \A r \in Resets : resetIo[r].at = t => resetIo[r].stage = "done"
    /\ qpair' = [qpair EXCEPT ![t] = "none"]
    /\ iter' = [iter EXCEPT ![t] = None]
    /\ IF qpair[t] = "live"
       THEN /\ orphans[t] < MaxOrphans
            /\ orphans' = [orphans EXCEPT ![t] = @ + 1]
            /\ UNCHANGED ctrlr
       ELSE /\ ctrlr' = Release(ctrlr)
            /\ UNCHANGED orphans
    /\ UNCHANGED <<opts, lib, task, resetIoVars, ns>>

(* bdev_nvme_destroy_ctrlr_channel_cb.  The bdev layer closes a channel    *)
(* when no I/O of it is outstanding.                                       *)
CloseChannel(t) ==
    /\ Running
    /\ HasChannel(t)
    /\ \A r \in Resets : resetIo[r].at = t => resetIo[r].stage = "done"
    /\ qpair' = [qpair EXCEPT ![t] = "none"]
    /\ IF qpair[t] = "live"
       THEN /\ orphans[t] < MaxOrphans
            /\ orphans' = [orphans EXCEPT ![t] = @ + 1]
            /\ task' = IF iter[t] = None THEN task
                       ELSE [task EXCEPT ![iter[t]] = [Continue(@) EXCEPT !.fn = "destroy"]]
            /\ UNCHANGED ctrlr
       ELSE /\ ctrlr' = Release(ctrlr)
            /\ UNCHANGED <<orphans, task>>
    /\ iter' = [iter EXCEPT ![t] = None]
    /\ UNCHANGED <<opts, lib, resetIoVars, ns>>

---------------------------------------------------------------------------
(* Two other users that hold no reference *)

IsAvailable == MayReset

(* bdev_nvme_clear_io_path_caches and its completion *)
ClearCaches ==
    /\ Running
    /\ IsAvailable /\ ~ctrlr.clearing
    /\ ctrlr' = [ctrlr EXCEPT !.clearing = TRUE]
    /\ UNCHANGED <<opts, lib, task, channelVars, resetIoVars, ns>>

(* A slip: the last user of the controller is not noticed. *)
CachesClearedOnly ==
    /\ Running
    /\ ctrlr.clearing
    /\ ctrlr' = [ctrlr EXCEPT !.clearing = FALSE]
    /\ UNCHANGED <<opts, lib, task, channelVars, resetIoVars, ns>>

CachesCleared ==
    /\ Running
    /\ ctrlr.clearing
    /\ ctrlr' = UnregisterIfUnused([ctrlr EXCEPT !.clearing = FALSE])
    /\ UNCHANGED <<opts, lib, task, channelVars, resetIoVars, ns>>

(* nvme_ctrlr_read_ana_log_page and its completion, which clears the       *)
(* caches when the controller lives on.                                    *)
ReadAnaLogPage ==
    /\ Running
    /\ IsAvailable /\ ~ctrlr.updating
    /\ ctrlr' = [ctrlr EXCEPT !.updating = TRUE]
    /\ UNCHANGED <<opts, lib, task, channelVars, resetIoVars, ns>>

AnaLogPageRead ==
    /\ Running
    /\ ctrlr.updating
    /\ \E failed \in BOOLEAN :   \* spdk_nvme_ctrlr_is_failed
          ctrlr' = LET c == [ctrlr EXCEPT !.updating = FALSE]
                   IN  IF CanBeUnregistered(c) THEN UnregisterIfUnused(c)
                       ELSE [c EXCEPT !.clearing = @ \/ (IsAvailable /\ ~failed)]
    /\ UNCHANGED <<opts, lib, task, channelVars, resetIoVars, ns>>

---------------------------------------------------------------------------
Chain(s) ==
    \/ ResetSent(s) \/ Disconnected(s) \/ ReconnectPoll(s) \/ DelayTimerExpired(s)
    \/ SkipChannel(s) \/ DestroyQpair(s) \/ DestroyDone(s)
    \/ CreateQpair(s) \/ CreateDone(s)
    \/ CompletePending(s) \/ ResetComplete(s)

ThreadNext(t) ==
    \/ QpairDisconnected(t) \/ OrphanDisconnected(t)
    \/ OpenChannel(t) \/ CloseChannel(t)
    \/ \E r \in Resets : SubmitReset(r, t)

LifeNext ==
    \/ Delete \/ DestructRelease \/ CtrlrDelete \/ HotRemoved \/ ResetRequested
    \/ ClearCaches \/ CachesCleared \/ ReadAnaLogPage \/ AnaLogPageRead
    \/ \E n \in Namespaces :
          \/ NamespaceRemoved(n) \/ NamespaceAdded(n)
          \/ DepopulateDone(n) \/ BdevDestruct(n)

Next ==
    \/ \E s \in Sequences : Chain(s)
    \/ \E t \in Threads : ThreadNext(t)
    \/ LifeNext

Spec == Init /\ [][Next]_vars

(* Messages are delivered and pollers run; a disconnect that was asked for *)
(* and an admin command that was sent are answered; once the controller is *)
(* being destructed the users of the bdevs close their channels, and do    *)
(* not open new ones for ever.                                             *)
Fairness ==
    /\ \A s \in Sequences : WF_vars(Chain(s))
    /\ \A t \in Threads :
          /\ WF_vars(iter[t] # None /\ QpairDisconnected(t))
          /\ WF_vars(OrphanDisconnected(t))
          /\ WF_vars(ctrlr.destruct /\ CloseChannel(t))
    /\ \A n \in Namespaces : WF_vars(DepopulateDone(n)) /\ SF_vars(BdevDestruct(n))
    /\ WF_vars(DestructRelease) /\ WF_vars(CtrlrDelete)
    /\ WF_vars(CachesCleared) /\ WF_vars(AnaLogPageRead)

FairSpec == Spec /\ Fairness

---------------------------------------------------------------------------
(* Properties *)

(* The variables keep their types; ref and unregisters never go below 0.  *)
TypeOK ==
    /\ opts \in OptionsType
    /\ ctrlr \in [destruct : BOOLEAN, resetting : BOOLEAN, delayed : BOOLEAN,
                  started : BOOLEAN, clearing : BOOLEAN, updating : BOOLEAN,
                  ref : Nat, attached : BOOLEAN, unregisters : Nat, deleted : BOOLEAN,
                  asserted : BOOLEAN]
    /\ lib \in [resetting : BOOLEAN, up : BOOLEAN, removed : BOOLEAN]
    /\ task \in [Sequences -> TaskType]
    /\ qpair \in [Threads -> {"none", "null", "live"}]
    /\ iter \in [Threads -> Sequences \cup {None}]
    /\ orphans \in [Threads -> Nat]
    /\ pending \in [Threads -> SUBSET Resets]
    /\ resetIo \in [Resets -> [at : 0 .. NumThreads,
                               stage : {"new", "started", "pending", "done"}]]
    /\ reset_cb \in Resets \cup {None}
    /\ ns \in [tree : SUBSET Namespaces, bdev : SUBSET Namespaces,
               removing : SUBSET Namespaces, late : BOOLEAN]

Active == {s \in Sequences : task[s] # Idle}

(* ref counts the attachment, the namespaces that are in the tree or have  *)
(* a bdev, and the qpairs, whether or not their channel still exists: each *)
(* is released exactly once, whoever of several comes last.                *)
RefCounts ==
    ctrlr.ref = (IF ctrlr.attached THEN 1 ELSE 0)
                + Cardinality(ns.tree \cup ns.bdev)
                + Cardinality({t \in Threads : HasChannel(t)})
                + MapThenSumSet(LAMBDA t : orphans[t], Threads)

(* One chain of handlers runs at a time, which is what the flag resetting  *)
(* is for; the assertion catches the only exception, which needs a         *)
(* reconnect delay: a reset between a failed one and the delay's start.    *)
OneResetAtATime ==
    IF ctrlr.asserted THEN opts.delay ELSE \A s1, s2 \in Active : s1 = s2

(* A walk that waits for a qpair's disconnect is known to that qpair's     *)
(* channel: it will be continued by the callback or by the channel's       *)
(* destruction, and by one of them only.                                   *)
ParkedIsContinued ==
    /\ \A s \in Sequences : task[s].fn = "parked" => iter[task[s].at] = s
    /\ \A t \in Threads : iter[t] # None => task[iter[t]].fn = "parked" /\ task[iter[t]].at = t

(* The io_device is unregistered when nothing uses the controller any more *)
(* and, unless a removed device refuses the disconnect before a delayed    *)
(* reconnect, once: what is left of a reset is at most a delay, which the  *)
(* deletion of the controller cancels.  The exception is a namespace event *)
(* during the destruction, which populates the controller again.           *)
UnregisteredUnused ==
    ctrlr.unregisters > 0 /\ ~ns.late =>
        /\ ctrlr.destruct /\ ctrlr.ref = 0
        /\ ~ctrlr.clearing /\ ~ctrlr.updating
        /\ ~(lib.removed /\ opts.delay) =>
              /\ ctrlr.unregisters = 1
              /\ \A s \in Active : task[s].fn \in {"to_delay", "delay"}

(* The reset I/O that started a reset is answered.                         *)
StartedResetAnswered ==
    \A r \in Resets : resetIo[r].stage = "started" ~> (resetIo[r].stage = "done" \/ ctrlr.asserted)

(* A controller that is being destructed is deleted, unless a reset I/O    *)
(* waits in a channel or a namespace was populated meanwhile.              *)
DestructedIsDeleted ==
    ctrlr.destruct ~> (ctrlr.deleted \/ ns.late \/ \E t \in Threads : pending[t] # {})

(* "Make sure we clear any pending resets before returning"                *)
(* (bdev_nvme.c:2006): no reset I/O waits when no reset is under way.      *)
PendingResetsCleared ==
    Active = {} => \A t \in Threads : pending[t] = {}

=============================================================================
