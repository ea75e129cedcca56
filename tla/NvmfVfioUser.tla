---------------------------- MODULE NvmfVfioUser ----------------------------
(***************************************************************************)
(* An endpoint of the vfio-user transport (src/nvmf/vfio_user.c) and the   *)
(* controllers that its clients attach to it, one after the other: the     *)
(* quiesce protocol between libvfio-user, the controller and the           *)
(* subsystem, live migration, the loss of a client and the removal of the  *)
(* listener.                                                               *)
(*                                                                         *)
(* The controller's thread, the accept thread, the poll groups and the     *)
(* target's RPC thread run concurrently; they pass messages, which hold    *)
(* the endpoint and look its controller up when they arrive.  libvfio-user *)
(* and the subsystem are external: the first asks to quiesce before a      *)
(* request and keeps it until vfu_device_quiesced, the second pauses and   *)
(* resumes for one caller at a time.                                       *)
(***************************************************************************)
EXTENDS Integers, FiniteSets

CONSTANTS
    VfuCtrlrs,     \* bound: the controllers created at the endpoint, 1 .. VfuCtrlrs
    VfuGroups,     \* the poll groups of the transport
    VfuMixes       \* bounds: [ctrlrs, requests, rpcs, faults, removals], see VfuInit

ASSUME VfuCountsAssumption == VfuCtrlrs \in Nat \ {0} /\ VfuGroups \in Nat \ {0}
ASSUME VfuMixesAssumption ==
    VfuMixes \subseteq [ctrlrs : 1 .. VfuCtrlrs, requests : Nat, rpcs : Nat, faults : Nat, removals : Nat]

VARIABLE vfu   \* the endpoint and its controllers, see VfuInit
vfuVars == <<vfu>>

NoCtrlr == 0
VfuQueues == {0, 1}   \* the admin queue pair and an I/O queue pair
VfuRequestKinds == {"dma", "lost", "precopy", "copying", "stopped", "resuming", "running"}
(* The states that a client may ask for in each migration state (external). *)
NextMigration(mig) ==
    CASE mig = "running" -> {"precopy", "copying", "stopped", "resuming"}
      [] mig = "precopy" -> {"running", "copying", "stopped"}
      [] mig = "copying" -> {"running", "stopped"}
      [] mig \in {"stopped", "resuming"} -> {"running"}

NewVfuCtrlr == [st |-> "none", src |-> FALSE, queued |-> FALSE, pend |-> "none", lost |-> FALSE,
                en |-> FALSE, mig |-> "running", sqs |-> {}, disc |-> {}]

(* seen: which calls have come to nothing so far.                          *)
(* sub: the subsystem, and the caller that is changing its state.  left:    *)
(* what the mix leaves of the controllers, of the clients' requests, of    *)
(* the RPCs that pause the subsystem, of the resumes of the subsystem that *)
(* fail and of the removals of the listener.                               *)
VfuInit ==
    \E mix \in VfuMixes :
    vfu = [ep |-> [st |-> "listed", ctrlr |-> NoCtrlr, poller |-> TRUE, needResume |-> FALSE,
                   needRelisten |-> FALSE, saved |-> FALSE],
           ctl |-> [g \in 1 .. VfuCtrlrs |-> NewVfuCtrlr],
           sub |-> [st |-> "active", busy |-> "none"],
           rpc |-> "none", msgs |-> {}, left |-> mix,
           crash |-> "no", seen |-> {}]

VfuAlive == vfu.crash = "no"
VfuCrash(w, why) == IF w.crash = "no" THEN [w EXCEPT !.crash = why] ELSE w
VfuSend(w, msg) == [w EXCEPT !.msgs = @ \cup {msg}]

(* A message to the thread of the endpoint's controller; the thread is set *)
(* when its admin queue pair is connected.                                 *)
VfuSendCtrlr(w, msg) ==
    IF w.ctl[w.ep.ctrlr].st = "creating" THEN VfuCrash(w, "no thread") ELSE VfuSend(w, msg)
SetVfu(w, g, state) == [w EXCEPT !.ctl[g].st = state]
VfuNote(w, what) == [w EXCEPT !.seen = @ \cup {what}]

---------------------------------------------------------------------------
(* Quiesce: the controller stops, every poll group is visited, and the     *)
(* subsystem is paused                                                     *)

Quiesce(w, g) == VfuSend(SetVfu(w, g, "pausing"), [k |-> "group", n |-> VfuGroups])

(* vfio_user_endpoint_resume_done, for whichever controller is there. *)
ResumeDone(w) == IF w.ep.ctrlr = NoCtrlr THEN VfuNote(w, "late resume")
                 ELSE VfuSendCtrlr(w, [k |-> "resumed"])

(* spdk_nvmf_subsystem_resume: refused when the state is being changed, at *)
(* once when it is the one asked for.                                      *)
Resume(w) ==
    CASE w.sub.busy # "none" -> [ok |-> FALSE, w |-> VfuNote(w, "resume refused")]
      [] w.sub.busy = "none" /\ w.sub.st = "active" -> [ok |-> TRUE, w |-> ResumeDone(w)]
      [] w.sub.busy = "none" /\ w.sub.st # "active" ->
           [ok |-> TRUE, w |-> [w EXCEPT !.sub.busy = "vfu resume"]]
ResumeCtrlr(w, g) ==
    LET r == Resume(SetVfu(w, g, "resuming")) IN
    IF r.ok THEN r.w ELSE SetVfu(r.w, g, "paused")

(* vfio_user_migration_device_state_transition; ok: the client's state.    *)
Migrate(w, g, state) ==
    LET c == w.ctl[g]
        done(v) == [v EXCEPT !.ctl[g].mig = state]
        in == SetVfu(w, g, "migrating")
    IN  CASE state = "copying" -> done([in EXCEPT !.ctl[g].src = TRUE, !.ep.saved = TRUE])
          [] state = "stopped" -> done([in EXCEPT !.ep.needResume = @ \/ c.src])
          [] state = "precopy" -> IF c.st = "paused" THEN done(w) ELSE VfuCrash(w, "not paused")
          [] state = "resuming" ->
               IF c.st # "running" THEN done(w)
               ELSE IF c.src THEN VfuCrash(w, "source") ELSE done(in)
          [] state = "running" /\ c.st # "migrating" -> done(w)
          [] state = "running" /\ c.st = "migrating" /\ ~c.src /\ ~w.ep.saved -> w
          [] state = "running" /\ c.st = "migrating" /\ ~c.src /\ w.ep.saved ->
               done(SetVfu(w, g, "running"))
          [] state = "running" /\ c.st = "migrating" /\ c.src ->
               done([ResumeCtrlr(w, g) EXCEPT !.ctl[g].src = FALSE])

(* libvfio-user runs a request of a quiesced device (external). *)
RunRequest(w, g, kind) ==
    CASE kind = "dma" -> w
      [] kind = "lost" -> [w EXCEPT !.ctl[g].lost = TRUE]
      [] kind \notin {"dma", "lost"} -> Migrate(w, g, kind)

(* vfio_user_quiesce_done *)
QuiesceDone(w) ==
    LET g == w.ep.ctrlr
        kind == w.ctl[g].pend
        paused == [SetVfu(w, g, "paused") EXCEPT !.ctl[g].pend = "none"]
        ran == IF kind = "none" THEN paused ELSE RunRequest(paused, g, kind)
        next == [ran EXCEPT !.ctl[g].queued = FALSE]
    IN  CASE g = NoCtrlr -> w
          [] g # NoCtrlr /\ w.ctl[g].st # "pausing" -> VfuCrash(w, "not pausing")
          [] g # NoCtrlr /\ w.ctl[g].st = "pausing" ->
               IF next.ctl[g].st = "migrating" THEN next ELSE ResumeCtrlr(next, g)

PauseDone(w) == IF w.ep.ctrlr = NoCtrlr THEN w ELSE VfuSendCtrlr(w, [k |-> "quiesced"])

(* vfio_user_quiesce_pg on one poll group; the last pauses the subsystem.  *)
QuiesceGroup(w, n) ==
    CASE w.ep.ctrlr = NoCtrlr -> w
      [] w.ep.ctrlr # NoCtrlr /\ n > 1 -> VfuSend(w, [k |-> "group", n |-> n - 1])
      [] w.ep.ctrlr # NoCtrlr /\ n = 1 /\ w.sub.busy # "none" ->
           VfuNote(SetVfu(w, w.ep.ctrlr, "running"), "pause refused")
      [] w.ep.ctrlr # NoCtrlr /\ n = 1 /\ w.sub.busy = "none" ->
           IF w.sub.st # "active" THEN PauseDone(w) ELSE [w EXCEPT !.sub.busy = "vfu pause"]

(* A slip: a quiesce asked for in the meantime is forgotten. *)
ResumedRunning(w) ==
    LET ready == [w EXCEPT !.ep.needResume = FALSE] IN
    IF w.ep.ctrlr = NoCtrlr THEN ready ELSE SetVfu(ready, w.ep.ctrlr, "running")

(* _vfio_user_endpoint_resume_done_msg *)
Resumed(w) ==
    LET g == w.ep.ctrlr
        ready == [w EXCEPT !.ep.needResume = FALSE]
    IN  IF g = NoCtrlr THEN ready
        ELSE IF w.ctl[g].queued THEN Quiesce(ready, g) ELSE SetVfu(ready, g, "running")

---------------------------------------------------------------------------
(* The end of a controller *)

(* free_ctrlr: the rest runs on the controller's thread, at once when this *)
(* is that thread, the one of the admin queue.                             *)
LastStep(w, g) ==
    LET freed == SetVfu(w, g, "freed") IN
    CASE w.ep.st = "freed" -> VfuCrash(w, "freed endpoint")
      [] w.ep.st = "removed" -> [freed EXCEPT !.ep.st = "freed", !.ep.poller = FALSE]
      [] w.ep.st \in {"listed", "removing"} /\ w.ep.needRelisten -> VfuSend(freed, [k |-> "relisten"])
      [] w.ep.st \in {"listed", "removing"} /\ ~w.ep.needRelisten -> freed
FreeCtrlr(w, g, onThread) ==
    IF w.ctl[g].st = "creating" THEN VfuCrash(w, "no thread")
    ELSE IF onThread THEN LastStep(w, g) ELSE VfuSend(SetVfu(w, g, "freeing"), [k |-> "free", g |-> g])

(* nvmf_vfio_user_close_qpair *)
CloseVfuQpair(w, g, q) ==
    LET closed == [w EXCEPT !.ctl[g].sqs = @ \ {q}, !.ctl[g].disc = @ \ {q}]
        out == [closed EXCEPT !.ep.ctrlr = NoCtrlr]
        resumed == IF w.ctl[g].src /\ w.ep.needResume THEN Resume(out).w ELSE out
    IN  IF closed.ctl[g].sqs # {} THEN closed ELSE FreeCtrlr(resumed, g, q = 0)

(* vfio_user_destroy_ctrlr: a disconnection of each queue is sent.         *)
DestroyCtrlr(w, g) ==
    [w EXCEPT !.ep.needRelisten = TRUE, !.ctl[g].pend = "gone",
              !.msgs = @ \cup {[k |-> "disconnect", g |-> g, q |-> q] : q \in w.ctl[g].sqs}]

---------------------------------------------------------------------------
(* The steps of the threads *)

(* nvmf_vfio_user_accept *)
AcceptVfu ==
    /\ vfu.ep.poller /\ vfu.ep.ctrlr = NoCtrlr /\ ~vfu.ep.needResume
    /\ \E g \in 1 .. VfuCtrlrs :
          /\ g <= vfu.left.ctrlrs /\ vfu.ctl[g].st = "none" /\ \A h \in 1 .. g - 1 : vfu.ctl[h].st # "none"
          /\ vfu' = [SetVfu(vfu, g, "creating") EXCEPT !.ep.ctrlr = g, !.ep.poller = FALSE]

(* The connect command of the admin queue pair is answered.                *)
ConnectVfu(g) ==
    /\ vfu.ctl[g].st = "creating"
    /\ \/ vfu' = [SetVfu(vfu, g, "running") EXCEPT !.ctl[g].sqs = {0}]
       \/ vfu' = FreeCtrlr([vfu EXCEPT !.ep.ctrlr = NoCtrlr], g, FALSE)

(* libvfio-user reads the client only when it waits for no quiesce.        *)
Serves(g) == /\ vfu.ctl[g].st \in {"running", "paused", "resuming", "migrating"}
             /\ vfu.ctl[g].pend = "none" /\ ~vfu.ctl[g].lost /\ vfu.ep.ctrlr = g
Enable(g) == /\ Serves(g) /\ ~vfu.ctl[g].en
             /\ vfu' = [vfu EXCEPT !.ctl[g].en = TRUE]
Disable(g) == /\ Serves(g) /\ vfu.ctl[g].en
              /\ vfu' = [vfu EXCEPT !.ctl[g].en = FALSE]
OpenIoQueue(g) == /\ Serves(g) /\ vfu.ctl[g].en /\ vfu.ctl[g].st = "running"
                  /\ 0 \in vfu.ctl[g].sqs /\ 1 \notin vfu.ctl[g].sqs /\ vfu.ctl[g].disc = {}
                  /\ vfu' = [vfu EXCEPT !.ctl[g].sqs = @ \cup {1}]

(* vfio_user_dev_quiesce_cb, and the request itself when it returns 0.     *)
Request(g, kind) ==
    LET c == vfu.ctl[g]
        w == [vfu EXCEPT !.left.requests = @ - 1]
        run == RunRequest(w, g, kind)
        wait == [w EXCEPT !.ctl[g].pend = kind]
    IN  /\ Serves(g) /\ vfu.left.requests > 0
        /\ kind \in {"dma", "lost"} \cup NextMigration(c.mig)
        /\ vfu' = CASE ~c.en \/ c.st \in {"paused", "migrating"} -> run
                    [] c.en /\ c.st = "running" -> Quiesce(wait, g)
                    [] c.en /\ c.st = "resuming" -> [wait EXCEPT !.ctl[g].queued = TRUE]

(* vfio_user_poll_vfu_ctx finds the connection gone. *)
LoseClient(g) == /\ vfu.ctl[g].lost /\ vfu.ctl[g].pend = "none" /\ vfu.ep.ctrlr = g
                 /\ vfu' = DestroyCtrlr(vfu, g)

(* The queue pairs of a removed listener are disconnected by the library.  *)
RemoveListener ==
    /\ vfu.ep.st = "listed" /\ vfu.left.removals > 0
    /\ LET g == vfu.ep.ctrlr
           w == [vfu EXCEPT !.ep.st = "removing"]
       IN  vfu' = IF g = NoCtrlr THEN w ELSE [w EXCEPT !.ctl[g].disc = w.ctl[g].sqs]

(* nvmf_vfio_user_stop_listen *)
StopListen ==
    /\ vfu.ep.st = "removing"
    /\ vfu' = [vfu EXCEPT !.ep.st = IF vfu.ep.ctrlr = NoCtrlr THEN "freed" ELSE "removed",
                          !.ep.poller = @ /\ vfu.ep.ctrlr # NoCtrlr]

(* A queue pair that is being disconnected is closed when its requests are *)
(* done.                                                                   *)
CloseVfu(g, q) ==
    /\ q \in vfu.ctl[g].disc
    /\ vfu' = CloseVfuQpair(vfu, g, q)

(* A message of the transport is handled. *)
HandleVfu(m) ==
    LET w == [vfu EXCEPT !.msgs = @ \ {m}] IN
    /\ m \in vfu.msgs
    /\ vfu' = CASE m.k \in {"group", "quiesced", "resumed", "relisten"} /\ w.ep.st = "freed" ->
                     VfuCrash(w, "freed endpoint")
                [] m.k = "group" /\ w.ep.st # "freed" -> QuiesceGroup(w, m.n)
                [] m.k = "quiesced" /\ w.ep.st # "freed" -> QuiesceDone(w)
                [] m.k = "resumed" /\ w.ep.st # "freed" -> Resumed(w)
                [] m.k = "relisten" /\ w.ep.st # "freed" ->
                     [w EXCEPT !.ep.poller = TRUE, !.ep.needRelisten = FALSE]
                [] m.k = "free" -> LastStep(w, m.g)
                [] m.k = "disconnect" ->
                     CASE w.ctl[m.g].st = "freed" -> VfuCrash(w, "freed queue")
                       [] w.ctl[m.g].st # "freed" /\ m.q \in w.ctl[m.g].sqs ->
                            [w EXCEPT !.ctl[m.g].disc = @ \cup {m.q}]
                       [] w.ctl[m.g].st # "freed" /\ m.q \notin w.ctl[m.g].sqs -> w

(* The subsystem's change of state ends; a resume may fail on a poll group *)
(* and be undone.                                                          *)
SubsystemChanged(w, state) ==
    LET v == [w EXCEPT !.sub = [st |-> state, busy |-> "none"]] IN
    CASE w.sub.busy \in {"vfu pause", "vfu resume"} /\ w.ep.st = "freed" -> VfuCrash(v, "freed endpoint")
      [] w.sub.busy = "vfu pause" /\ w.ep.st # "freed" -> PauseDone(v)
      [] w.sub.busy = "vfu resume" /\ w.ep.st # "freed" -> ResumeDone(v)
      [] w.sub.busy = "rpc pause" -> [v EXCEPT !.rpc = "paused"]
      [] w.sub.busy = "rpc resume" -> [v EXCEPT !.rpc = "none"]
ChangeSubsystem ==
    \/ vfu.sub.busy \in {"vfu pause", "rpc pause"} /\ vfu' = SubsystemChanged(vfu, "paused")
    \/ vfu.sub.busy \in {"vfu resume", "rpc resume"} /\ vfu' = SubsystemChanged(vfu, "active")
    \/ /\ vfu.sub.busy = "vfu resume" /\ vfu.left.faults > 0
       /\ vfu' = SubsystemChanged([vfu EXCEPT !.left.faults = @ - 1], "undone")

(* An RPC pauses the subsystem for a change of its own, and resumes it.    *)
RpcPause ==
    /\ vfu.rpc = "none" /\ vfu.sub.busy = "none" /\ vfu.left.rpcs > 0
    /\ LET w == [vfu EXCEPT !.left.rpcs = @ - 1] IN
       vfu' = IF w.sub.st = "active" THEN [w EXCEPT !.sub.busy = "rpc pause", !.rpc = "pausing"]
              ELSE [w EXCEPT !.rpc = "paused"]
RpcResume ==
    /\ vfu.rpc = "paused" /\ vfu.sub.busy = "none"
    /\ vfu' = IF vfu.sub.st = "active" THEN [vfu EXCEPT !.rpc = "none"]
              ELSE [vfu EXCEPT !.sub.busy = "rpc resume", !.rpc = "resuming"]

VfuNext ==
    /\ VfuAlive
    /\ \/ AcceptVfu \/ RemoveListener \/ StopListen \/ ChangeSubsystem \/ RpcPause \/ RpcResume
       \/ \E g \in 1 .. VfuCtrlrs :
             \/ ConnectVfu(g) \/ Enable(g) \/ Disable(g) \/ OpenIoQueue(g) \/ LoseClient(g)
             \/ \E kind \in VfuRequestKinds : Request(g, kind)
             \/ \E q \in VfuQueues : CloseVfu(g, q)
       \/ \E m \in vfu.msgs : HandleVfu(m)

VfuSpec == VfuInit /\ [][VfuNext]_vfuVars

---------------------------------------------------------------------------
(* Properties *)

(* The values of the endpoint and of its controllers. *)
VfuTypeOK ==
    /\ vfu.ep.st \in {"listed", "removing", "removed", "freed"}
    /\ vfu.ep.ctrlr \in 0 .. VfuCtrlrs
    /\ \A g \in 1 .. VfuCtrlrs :
          /\ vfu.ctl[g].st \in {"none", "creating", "running", "pausing", "paused", "resuming",
                                "migrating", "freeing", "freed"}
          /\ vfu.ctl[g].disc \subseteq vfu.ctl[g].sqs /\ vfu.ctl[g].sqs \subseteq VfuQueues
    /\ vfu.ep.ctrlr # NoCtrlr => vfu.ctl[vfu.ep.ctrlr].st \notin {"none", "freeing", "freed"}
    /\ vfu.sub.st \in {"active", "paused", "undone"}

VfuQuiescing == (\E m \in vfu.msgs : m.k \in {"group", "quiesced"}) \/ vfu.sub.busy = "vfu pause"
VfuResuming == (\E m \in vfu.msgs : m.k = "resumed") \/ vfu.sub.busy = "vfu resume"
VfuSettled == vfu.msgs = {} /\ vfu.sub.busy = "none"

(* A controller that waits for a quiesce, or for its subsystem to resume,  *)
(* is waited for by a message or by the subsystem.                         *)
WaitsAreAnswered ==
    vfu.ep.ctrlr # NoCtrlr =>
        /\ vfu.ctl[vfu.ep.ctrlr].st = "pausing" => VfuQuiescing
        /\ vfu.ctl[vfu.ep.ctrlr].st = "resuming" => VfuResuming

(* When nothing is under way, an endpoint without a controller accepts the *)
(* next client, and a controller has quiesced for every request and left   *)
(* the paused state again.  The exceptions: the resume of a migrated       *)
(* controller ended after it was gone, so that need_resume stays; the      *)
(* subsystem refused to pause or to resume, since another was changing it. *)
EndpointServes ==
    VfuSettled =>
        /\ vfu.ep.ctrlr = NoCtrlr /\ vfu.ep.st = "listed" =>
              vfu.ep.poller /\ (vfu.ep.needResume => vfu.seen \cap {"late resume", "resume refused"} # {})
        /\ vfu.ep.ctrlr # NoCtrlr =>
              LET c == vfu.ctl[vfu.ep.ctrlr] IN
              /\ c.pend \in {"none", "gone"} \/ "pause refused" \in vfu.seen
              /\ c.st = "paused" => "resume refused" \in vfu.seen

VfuLife == VfuAlive => WaitsAreAnswered /\ EndpointServes
=============================================================================
