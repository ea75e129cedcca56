---------------------------- MODULE NvmeDiscovery ----------------------------
(***************************************************************************)
(* The discovery service client of the NVMe bdev module                    *)
(* (src/nvme/bdev_nvme.c): it connects to a discovery controller, reads    *)
(* its log page, attaches the NVM subsystems it names, removes those that  *)
(* it no longer names, and begins again at every event and reconnect.      *)
(*                                                                         *)
(* Everything runs on the thread of the bdev module; the driver (connect,  *)
(* detach, admin completions) is external.  A subsystem's path stands for  *)
(* its log page entry, its transport id and its name; a controller is as   *)
(* much as the client sees of it, its own life is in NvmeCtrlr.            *)
(***************************************************************************)
EXTENDS Integers, FiniteSets

CONSTANTS
    DiscoveryServices,   \* the services that may be started, by name
    DiscoveredPaths,     \* the paths that a log page may name
    DiscoveryMixes       \* bounds and settings, see DiscoveryInit

ASSUME DiscoveryMixesAssumption ==
    DiscoveryMixes \subseteq [starts : Nat, stops : Nat, finis : Nat, changes : Nat, failures : Nat, timeouts : Nat,
                              losses : Nat, referrals : Nat, there : SUBSET DiscoveredPaths]

VARIABLE dv   \* the services, the log page and the controllers, see DiscoveryInit
dvVars == <<dv>>

(* discovery_ctx: ctrlr is no, up or detaching; spare counts the discovery *)
(* entries that are not in use; nvm are the paths of the NVM entries;      *)
(* reading: a log page was asked for; attach the paths that are being      *)
(* attached, freed those of them whose entry has been freed; start and     *)
(* stop the callbacks that are owed.  The rest is history: an event that   *)
(* is to come, whether a page's attaches have ended, the paths             *)
(* bdev_nvme_create refused, a page that was not read and the last page.   *)
NoService == [st |-> "none", ctrlr |-> "no", probe |-> FALSE, inUse |-> FALSE, spare |-> 0, nvm |-> {},
              rc |-> FALSE, initializing |-> FALSE, inProgress |-> FALSE, pending |-> FALSE, stopped |-> FALSE,
              timed |-> FALSE, reading |-> FALSE, attach |-> {}, freed |-> {}, start |-> FALSE, stop |-> "no",
              event |-> FALSE, attached |-> FALSE, refused |-> {}, unread |-> FALSE, page |-> {}]

(* ctrlr: the NVM controllers of a path, up or being destructed; fini: the *)
(* end of the module; did: the bounded steps that were taken.              *)
DiscoveryInit ==
    \E mix \in DiscoveryMixes :
    dv = [svc |-> [s \in DiscoveryServices |-> NoService], there |-> mix.there,
          ctrlr |-> [e \in DiscoveredPaths |-> "no"], fini |-> "no", left |-> mix, did |-> {}, crash |-> "no"]

DiscoveryAlive == dv.crash = "no"
DiscoveryCrash(w, why) == IF w.crash = "no" THEN [w EXCEPT !.crash = why] ELSE w
DiscoverySpend(w, what) == [w EXCEPT !.left[what] = @ - 1, !.did = @ \cup {what}]
Listed(w) == {s \in DiscoveryServices : w.svc[s].st = "listed"}

---------------------------------------------------------------------------
(* Starting and stopping                                                   *)

(* bdev_nvme_delete of an entry's path: every controller of the path is    *)
(* destructed, whichever service attached it.                              *)
DeletePaths(w, paths) ==
    [w EXCEPT !.ctrlr = [e \in DiscoveredPaths |-> IF e \in paths /\ @[e] = "up" THEN "going" ELSE @[e]]]

(* stop_discovery: the entries are freed, those being attached among them. *)
Stopped(c, owed) ==
    [c EXCEPT !.stopped = TRUE, !.stop = owed, !.freed = c.attach, !.nvm = {}, !.spare = 0, !.inUse = FALSE]
StopService(w, s, owed) == [DeletePaths(w, w.svc[s].nvm) EXCEPT !.svc[s] = Stopped(@, owed)]

(* complete_discovery_start. *)
AnswerStart(w, s, failed) == [w EXCEPT !.svc[s] = [@ EXCEPT !.timed = FALSE, !.rc = failed, !.start = FALSE]]

(* The service has been taken from g_discovery_ctxs, and is freed; its     *)
(* attaches stay.  bdev_nvme_fini_destruct_ctrlrs follows the last one.    *)
FreeService(w, s) ==
    LET c == w.svc[s]
        w1 == [w EXCEPT !.svc[s] = [NoService EXCEPT !.st = "freed", !.attach = c.attach, !.freed = c.attach]]
    IN  [w1 EXCEPT !.fini = IF c.stop = "fini" /\ Listed(w1) = {} THEN "done" ELSE @]

(* get_discovery_log_page. *)
GetLogPage(w, s) ==
    CASE w.svc[s].inProgress                            -> DiscoveryCrash(w, "in progress")
      [] ~w.svc[s].inProgress /\ w.svc[s].ctrlr = "no" -> DiscoveryCrash(w, "no controller")
      [] OTHER -> [w EXCEPT !.svc[s] = [@ EXCEPT !.inProgress = TRUE, !.reading = TRUE]]

(* bdev_nvme_start_discovery; a message puts the service into the list.    *)
StartDiscovery(s) ==
    /\ DiscoveryAlive /\ dv.left.starts > 0 /\ dv.svc[s].st \in {"none", "freed"} /\ dv.svc[s].attach = {}
    /\ dv.fini = "no"
    /\ \E wait, timed \in BOOLEAN :
       dv' = [DiscoverySpend(dv, "starts") EXCEPT
                 !.svc[s] = [NoService EXCEPT !.st = "starting", !.start = wait, !.timed = timed,
                                              !.initializing = TRUE, !.spare = 1]]
StartMessage(s) ==
    /\ DiscoveryAlive /\ dv.svc[s].st = "starting" /\ dv' = [dv EXCEPT !.svc[s].st = "listed"]

(* bdev_nvme_stop_discovery, unless the service is about to stop.          *)
StopDiscovery(s) ==
    /\ DiscoveryAlive /\ dv.left.stops > 0 /\ s \in Listed(dv)
    /\ ~dv.svc[s].stopped /\ ~(dv.svc[s].initializing /\ dv.svc[s].rc)
    /\ dv' = StopService(DiscoverySpend(dv, "stops"), s, "rpc")

(* bdev_nvme_library_fini: takes the stop callback of whoever waits.       *)
LibraryFini ==
    /\ DiscoveryAlive /\ dv.left.finis > 0 /\ dv.fini = "no"
    /\ dv' = [DeletePaths(DiscoverySpend(dv, "finis"), UNION {dv.svc[s].nvm : s \in Listed(dv)}) EXCEPT
                 !.svc = [s \in DiscoveryServices |-> IF s \in Listed(dv) THEN Stopped(@[s], "fini") ELSE @[s]],
                 !.fini = IF Listed(dv) = {} THEN "done" ELSE "waits"]

---------------------------------------------------------------------------
(* The log page                                                            *)

(* Slip: an event that came during a discovery is forgotten. *)
DiscoveryCompleteForgets(w, s) ==
    [w EXCEPT !.svc[s] = [@ EXCEPT !.initializing = FALSE, !.inProgress = FALSE, !.pending = FALSE]]

(* discovery_complete. *)
DiscoveryComplete(w, s) ==
    LET done == [w EXCEPT !.svc[s] = [@ EXCEPT !.initializing = FALSE, !.inProgress = FALSE, !.pending = FALSE]]
    IN  IF w.svc[s].pending THEN GetLogPage(done, s) ELSE done

(* discovery_remove_controllers, with the page log. *)
RemoveControllers(w, s, log) ==
    DiscoveryComplete([DeletePaths(w, w.svc[s].nvm \ log) EXCEPT !.svc[s].nvm = @ \cap log], s)

(* discovery_log_page_cb: a path that a controller has, an old one that is *)
(* not yet gone too, is refused by bdev_nvme_create.  The page is kept for *)
(* the removal, in attach while paths are being attached.                  *)
AttachNew(w, s, log) ==
    LET c == w.svc[s]
        new == log \ c.nvm
        refused == {e \in new : w.ctrlr[e] # "no"}
        taken == new \ refused
        w1 == [w EXCEPT !.svc[s] = [c EXCEPT !.nvm = @ \cup taken, !.refused = refused, !.page = log,
                                             !.attach = @ \cup taken]]
    IN  IF taken = {} THEN RemoveControllers(w1, s, log) ELSE w1
LogPageRead(w, s) ==
    IF w.svc[s].attach # {} THEN DiscoveryCrash(w, "attaching")
    ELSE AttachNew([w EXCEPT !.svc[s] = [@ EXCEPT !.reading = FALSE, !.spare = w.left.referrals]], s, w.there)
LogPageFailed(w, s) == [w EXCEPT !.svc[s] = [@ EXCEPT !.reading = FALSE, !.unread = TRUE]]

(* discovery_aer_cb. *)
DiscoveryAer(w, s) ==
    LET heard == [w EXCEPT !.svc[s].event = FALSE]
    IN  IF w.svc[s].inProgress THEN [heard EXCEPT !.svc[s].pending = TRUE] ELSE GetLogPage(heard, s)

(* bdev_nvme_create has ended (discovery_attach_controller_done), with or  *)
(* without a controller: the entry stays.                                  *)
Attached(c, e) == [c EXCEPT !.attach = @ \ {e}, !.attached = @ \/ c.attach = {e}]
AttachEnds(w, s, e) ==
    LET last == w.svc[s].attach = {e}
        ended == [w EXCEPT !.svc[s] = Attached(@, e)]
    IN  IF e \in w.svc[s].freed THEN DiscoveryCrash(w, "freed entry")
        ELSE CASE ~last -> ended
               [] last /\ w.svc[s].initializing /\ w.svc[s].rc -> StopService(AnswerStart(ended, s, TRUE), s, "no")
               [] OTHER -> RemoveControllers(AnswerStart(ended, s, w.svc[s].rc), s, w.svc[s].page)
AttachDone(s) ==
    /\ DiscoveryAlive
    /\ \E e \in dv.svc[s].attach :
          \/ dv' = AttachEnds([dv EXCEPT !.ctrlr[e] = "up"], s, e)
          \/ dv.left.failures > 0 /\ dv' = AttachEnds(DiscoverySpend(dv, "failures"), s, e)

---------------------------------------------------------------------------
(* discovery_poller, in the order of its branches                          *)

Polls(s) == DiscoveryAlive /\ s \in Listed(dv)
TimesOut(s) == dv.svc[s].timed /\ dv.left.timeouts > 0
TimedOut(s) == AnswerStart(DiscoverySpend(dv, "timeouts"), s, TRUE)

PollDetach(s) ==
    /\ Polls(s) /\ dv.svc[s].ctrlr = "detaching" /\ dv' = [dv EXCEPT !.svc[s].ctrlr = "no"]

PollStop(s) ==
    /\ Polls(s) /\ dv.svc[s].ctrlr # "detaching" /\ dv.svc[s].stopped
    /\ \/ dv.svc[s].ctrlr = "up" /\ dv' = [dv EXCEPT !.svc[s] = [@ EXCEPT !.ctrlr = "detaching", !.reading = FALSE]]
       \/ dv.svc[s].ctrlr = "no"
          /\ dv' = IF dv.svc[s].start THEN DiscoveryCrash(dv, "start owed") ELSE FreeService(dv, s)

(* Nothing is connected: the next discovery entry is tried. *)
PollConnect(s) ==
    /\ Polls(s) /\ ~dv.svc[s].stopped /\ ~dv.svc[s].probe /\ dv.svc[s].ctrlr = "no"
    /\ \/ TimesOut(s)
          /\ dv' = IF dv.svc[s].initializing THEN FreeService(StopService(TimedOut(s), s, "no"), s)
                   ELSE DiscoveryCrash(TimedOut(s), "not initializing")
       \/ dv' = CASE dv.svc[s].inUse -> DiscoveryCrash(dv, "two in use")
                  [] ~dv.svc[s].inUse /\ dv.svc[s].spare = 0 -> DiscoveryCrash(dv, "no entry")
                  [] OTHER -> [dv EXCEPT !.svc[s] = [dv.svc[s] EXCEPT !.probe = TRUE, !.inUse = TRUE, !.spare = @ - 1]]

(* The connect has ended; the driver reports one that failed by the        *)
(* missing call of discovery_attach_cb only.                               *)
ConnectEnded(w, s) ==
    IF ~w.svc[s].rc THEN GetLogPage(w, s)
    ELSE IF w.svc[s].initializing THEN StopService(w, s, "no") ELSE DiscoveryCrash(w, "not initializing")
PollProbe(s) ==
    /\ Polls(s) /\ ~dv.svc[s].stopped /\ dv.svc[s].probe
    /\ \/ TimesOut(s) /\ dv' = TimedOut(s)
       \/ dv' = ConnectEnded([dv EXCEPT !.svc[s] = [@ EXCEPT !.probe = FALSE, !.ctrlr = "up"]], s)
       \/ dv.left.failures > 0 /\ dv' = ConnectEnded(DiscoverySpend(dv, "failures"), s)

(* Connected: completions, or the loss of the controller. *)
PollConnected(s) ==
    /\ Polls(s) /\ ~dv.svc[s].stopped /\ ~dv.svc[s].probe /\ dv.svc[s].ctrlr = "up"
    /\ \/ TimesOut(s)
          /\ dv' = IF dv.svc[s].attach = {} THEN StopService(TimedOut(s), s, "no") ELSE TimedOut(s)
       \/ dv.svc[s].reading /\ dv' = LogPageRead(dv, s)
       \/ dv.svc[s].reading /\ dv.left.failures > 0 /\ dv' = LogPageFailed(DiscoverySpend(dv, "failures"), s)
       \/ dv.svc[s].event /\ dv' = DiscoveryAer(dv, s)
       \/ /\ dv.left.losses > 0
          /\ LET w == IF dv.svc[s].reading THEN LogPageFailed(dv, s) ELSE dv
             IN  \E left \in {"detaching", "no"} :
                 dv' = [DiscoverySpend(w, "losses") EXCEPT
                           !.svc[s] = [w.svc[s] EXCEPT !.ctrlr = left, !.inUse = FALSE, !.spare = @ + 1,
                                                       !.event = FALSE]]

---------------------------------------------------------------------------
(* What the target and the controllers do: a path appears in the log page  *)
(* or leaves it, with an event for every connected client; a controller is *)
(* destructed at last.                                                     *)
LogChange(e) ==
    /\ DiscoveryAlive /\ dv.left.changes > 0
    /\ dv' = [DiscoverySpend(dv, "changes") EXCEPT
                 !.there = IF e \in @ THEN @ \ {e} ELSE @ \cup {e},
                 !.svc = [s \in DiscoveryServices |-> [dv.svc[s] EXCEPT !.event = dv.svc[s].ctrlr = "up"]]]
PathGone(e) == DiscoveryAlive /\ dv.ctrlr[e] = "going" /\ dv' = [dv EXCEPT !.ctrlr[e] = "no"]

DiscoveryNext ==
    \/ \E s \in DiscoveryServices :
          \/ StartDiscovery(s) \/ StartMessage(s) \/ StopDiscovery(s) \/ AttachDone(s)
          \/ PollDetach(s) \/ PollStop(s) \/ PollConnect(s) \/ PollProbe(s) \/ PollConnected(s)
    \/ LibraryFini
    \/ \E e \in DiscoveredPaths : LogChange(e) \/ PathGone(e)

DiscoverySpec == DiscoveryInit /\ [][DiscoveryNext]_dvVars

---------------------------------------------------------------------------
DiscoveryTypeOK ==
    /\ \A s \in DiscoveryServices :
          /\ dv.svc[s].st \in {"none", "starting", "listed", "freed"}
          /\ {dv.svc[s].nvm, dv.svc[s].attach} \subseteq SUBSET DiscoveredPaths
          /\ dv.svc[s].spare \in 0 .. dv.left.referrals + 1
    /\ dv.ctrlr \in [DiscoveredPaths -> {"no", "up", "going"}]

(* A connected client that has nothing under way knows the paths of the    *)
(* log page as it is now, but for those bdev_nvme_create refused; and a    *)
(* discovery in progress has something that ends it, unless a log page     *)
(* could not be read, after which the client hears no event any more.      *)
Current(s) ==
    LET c == dv.svc[s]
    IN  c.st = "listed" /\ ~c.stopped =>
          /\ c.ctrlr = "up" /\ ~c.probe /\ ~c.inProgress /\ ~c.event /\ ~c.rc =>
                ~c.pending /\ c.nvm = dv.there \ c.refused
          /\ c.inProgress => c.reading \/ c.attach # {} \/ c.unread

(* Whoever waits for the start has been told once a page's attaches have   *)
(* ended, but not when the first log page names nothing to attach.         *)
StartAnswered(s) ==
    LET c == dv.svc[s] IN c.st = "listed" /\ ~c.stopped /\ c.start /\ ~c.initializing => ~c.attached

(* A controller belongs to an entry of some service. *)
NoStrayController == \A e \in DiscoveredPaths : dv.ctrlr[e] = "up" => \E s \in DiscoveryServices : e \in dv.svc[s].nvm

(* Why an assertion fails, or freed memory or no controller is used.       *)
DiscoveryFaults ==
    /\ dv.crash \notin {"two in use", "no entry", "attaching"}
    /\ dv.crash = "freed entry" => dv.did \cap {"stops", "finis"} # {} \/ {"losses", "timeouts"} \subseteq dv.did
    /\ dv.crash = "in progress" => "losses" \in dv.did
    /\ dv.crash = "no controller" => dv.did \cap {"losses", "failures"} # {}
    /\ dv.crash = "start owed" => dv.did \cap {"stops", "finis"} # {}
    /\ dv.crash = "not initializing" => "timeouts" \in dv.did

DiscoveryKeeps ==
    /\ DiscoveryAlive => NoStrayController /\ \A s \in DiscoveryServices : Current(s) /\ StartAnswered(s)
    /\ DiscoveryFaults
=============================================================================
