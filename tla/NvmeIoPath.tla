----------------------------- MODULE NvmeIoPath -----------------------------
(***************************************************************************)
(* One channel of a multipath NVMe bdev (src/nvme/bdev_nvme.c): which path *)
(* an I/O takes, what its completion does, the I/Os that wait for a retry, *)
(* and the ANA states, resets and namespaces that change the paths.        *)
(*                                                                         *)
(* The channel belongs to one thread.  A wrapped I/O is one that sump has  *)
(* passed down: the channel of its bdev_io is sump's, whose first fields   *)
(* are a copy of nvme_bdev_channel's (src/sump.h), never initialised.  The *)
(* driver and the bdev layer are external; a controller is here the state  *)
(* that the path choice reads, its own steps are in NvmeCtrlr.             *)
(***************************************************************************)
EXTENDS Integers, FiniteSets, FiniteSetsExt, Sequences, SequencesExt

CONSTANTS
    NvmePaths,     \* the namespaces of the bdev, each with its controller
    NvmeIos,       \* the I/Os of the channel
    NvmeRetries,   \* bdev_retry_count
    RrMinIo,       \* rr_min_io
    MaxTicks,      \* bound: time
    IoPathMixes    \* bounds and settings, see IoPathInit

ASSUME IoPathAssumption == NvmeRetries \in Nat /\ RrMinIo \in Nat \ {0} /\ MaxTicks \in Nat

IoPathPolicies == {"passive", "robin", "depth"}
ASSUME IoPathMixesAssumption ==
    \A mix \in IoPathMixes :
       /\ mix \in [wrapped : BOOLEAN, policy : IoPathPolicies, buffers : BOOLEAN, paths : Seq(NvmePaths), ios : Nat,
                   losses : Nat, anas : Nat, namespaces : Nat, faults : Nat, aborts : Nat, settings : Nat]
       /\ IsInjective(mix.paths)

VARIABLE np   \* the channel with its paths and I/Os, see IoPathInit
npVars == <<np>>

NoIoPath == "none"
FreeIo == [st |-> "free", path |-> NoIoPath, gen |-> 0, tries |-> 0, at |-> 0, abort |-> FALSE]

(* path: gen counts the io_paths of a namespace, to know a freed one; qp   *)
(* is up, lost (the driver knows, its callback is to come) or gone; walk   *)
(* is the clearing of the caches, in front of or behind this channel.      *)
(* ch: io_path_list, current_io_path, rr_counter, retry_io_list and the    *)
(* time of its poller.  stale counts I/Os that failed on a lost path that  *)
(* was cached while another was there.                                     *)
IoPathInit ==
    \E mix \in IoPathMixes :
    np = [path |-> [p \in NvmePaths |-> [in |-> p \in ToSet(mix.paths), gen |-> 0, qp |-> "up", ctrlr |-> "up",
                                         ana |-> "optimized", updating |-> FALSE, reading |-> FALSE, walk |-> "no"]],
          ch   |-> [list |-> mix.paths, cur |-> NoIoPath, rr |-> 0, policy |-> mix.policy,
                    retry |-> <<>>, poll |-> -1],
          io   |-> [i \in NvmeIos |-> FreeIo],
          now  |-> 0, stale |-> 0, left |-> mix, crash |-> "no", seen |-> {}]

IoPathAlive == np.crash = "no"
IoPathCrash(w, why) == IF w.crash = "no" THEN [w EXCEPT !.crash = why] ELSE w
IoPathSpend(w, what) == [w EXCEPT !.left[what] = @ - 1]

---------------------------------------------------------------------------
(* Choice of a path                                                        *)

Connected(w, p) == w.path[p].qp = "up"
Usable(w, p) == Connected(w, p) /\ ~w.path[p].updating /\ w.path[p].ana # "inaccessible"
CtrlrAvailable(w, p) == w.path[p].ctrlr = "up"

(* bdev_nvme_clear_current_io_path, on the channel of the NVMe bdev and on *)
(* the channel of the I/O, which is another one when the I/O is wrapped.   *)
ClearCurrent(w) == [w EXCEPT !.ch.cur = NoIoPath, !.ch.rr = 0]
ClearOfIo(w) == IF w.left.wrapped THEN w ELSE ClearCurrent(w)

(* The list, turned so that it begins behind the current path. *)
Turned(ch) ==
    LET at == {k \in DOMAIN ch.list : ch.list[k] = ch.cur}
        k == IF at = {} THEN 0 ELSE CHOOSE k \in at : TRUE
    IN  SubSeq(ch.list, k + 1, Len(ch.list)) \o SubSeq(ch.list, 1, k)

FirstOf(list, set) ==
    LET hits == {k \in DOMAIN list : list[k] \in set} IN IF hits = {} THEN NoIoPath ELSE list[Min(hits)]

InState(w, ana) == {p \in ToSet(w.ch.list) : Usable(w, p) /\ w.path[p].ana = ana}

(* _bdev_nvme_find_io_path: non-optimized paths are cached for the         *)
(* active-active policy only.                                              *)
FindInTurn(w) ==
    LET optimized == FirstOf(Turned(w.ch), InState(w, "optimized"))
        other == FirstOf(Turned(w.ch), InState(w, "non_optimized"))
        inTurn == IF optimized # NoIoPath THEN optimized ELSE other
    IN  [w |-> IF optimized = NoIoPath /\ w.ch.policy = "passive" THEN w ELSE [w EXCEPT !.ch.cur = inTurn],
         p |-> inTurn]

(* _bdev_nvme_find_io_path_min_qd; of several, the first in the list. *)
Depth(w, p) == Cardinality({i \in NvmeIos : w.io[i].st \in {"out", "verify"} /\ w.io[i].path = p})
Shallowest(w, set) ==
    FirstOf(w.ch.list, {p \in set : \A q \in set : Depth(w, p) <= Depth(w, q)})
FindShallowest(w) ==
    LET optimized == Shallowest(w, InState(w, "optimized"))
    IN  IF optimized # NoIoPath THEN optimized ELSE Shallowest(w, InState(w, "non_optimized"))

(* bdev_nvme_find_io_path: the current path is not looked at again. *)
FindIoPath(w) ==
    LET counted == [w EXCEPT !.ch.rr = @ + 1]
    IN  CASE w.ch.cur # NoIoPath /\ w.ch.policy = "passive" -> [w |-> w, p |-> w.ch.cur]
          [] w.ch.cur # NoIoPath /\ w.ch.policy = "robin" /\ w.ch.rr + 1 < RrMinIo -> [w |-> counted, p |-> w.ch.cur]
          [] w.ch.cur # NoIoPath /\ w.ch.policy = "robin" /\ w.ch.rr + 1 >= RrMinIo ->
                FindInTurn([w EXCEPT !.ch.rr = 0])
          [] w.ch.policy = "depth" -> [w |-> w, p |-> FindShallowest(w)]
          [] OTHER -> FindInTurn(w)

---------------------------------------------------------------------------
(* Answers, and I/Os that wait for a retry                                 *)

AnswerIo(w, i) ==
    IF w.io[i].st = "free" THEN IoPathCrash(w, "answered twice") ELSE [w EXCEPT !.io[i] = FreeIo]

(* Slip: a retry behind others does not look at their times. *)
QueueRetryLast(w, i, delay) ==
    [w EXCEPT !.io[i] = [@ EXCEPT !.st = "retry", !.at = w.now + delay], !.ch.retry = Append(@, i),
              !.ch.poll = IF w.ch.retry = <<>> THEN w.now + delay ELSE @]

(* bdev_nvme_queue_retry_io, ordered by time; a new head sets the poller.  *)
(* The list of sump's channel has never been initialised.                  *)
QueueRetry(w, i, delay) ==
    LET at == w.now + delay
        before == {k \in DOMAIN w.ch.retry : w.io[w.ch.retry[k]].at <= at}
        place == IF before = {} THEN 1 ELSE Max(before) + 1
    IN  IF w.left.wrapped THEN IoPathCrash(w, "no retry list")
        ELSE [w EXCEPT !.io[i] = [@ EXCEPT !.st = "retry", !.at = at],
                       !.ch.retry = InsertAt(@, place, i),
                       !.ch.poll = IF before = {} THEN at ELSE @]

(* bdev_nvme_io_complete: -ENXIO; an I/O without a path is failed at once, *)
(* for any_io_path_may_become_available answers false.                     *)
NoPathForIo(w, i) == AnswerIo(ClearOfIo(w), i)

(* _bdev_nvme_submit_request: the driver refuses a path that is lost. *)
SubmitOn(w, i, p) ==
    LET sent == [w EXCEPT !.io[i] = [@ EXCEPT !.st = "out", !.path = p, !.gen = w.path[p].gen]]
        missed == p = w.ch.cur /\ InState(w, "optimized") # {}
    IN  CASE p = NoIoPath -> NoPathForIo(w, i)
          [] p # NoIoPath /\ ~Connected(w, p) -> NoPathForIo([w EXCEPT !.stale = @ + (IF missed THEN 1 ELSE 0)], i)
          [] OTHER -> sent

(* bdev_nvme_submit_request. *)
SubmitFound(found, i) == SubmitOn(found.w, i, found.p)
SubmitIo(w, i) == SubmitFound(FindIoPath(w), i)

(* bdev_nvme_retry_io reads the path that the I/O had before. *)
Freed(w, i) == w.io[i].path # NoIoPath /\ (~w.path[w.io[i].path].in \/ w.path[w.io[i].path].gen # w.io[i].gen)
RetryIo(w, i) ==
    LET w1 == [w EXCEPT !.ch.retry = RemoveFirst(@, i)]
        same == w.io[i].path # NoIoPath /\ Usable(w, w.io[i].path)
    IN  CASE Freed(w, i)           -> IoPathCrash(w, "freed path")
          [] ~Freed(w, i) /\ same -> SubmitOn(w1, i, w.io[i].path)
          [] OTHER                 -> SubmitIo(w1, i)

(* bdev_nvme_retry_ios: the I/Os in front of the first one that is not due *)
(* are retried one after the other.                                        *)
Rearm(w) == [w EXCEPT !.ch.poll = IF w.ch.retry = <<>> THEN -1 ELSE w.io[Head(w.ch.retry)].at]
Due(w) == {k \in DOMAIN w.ch.retry : \A j \in 1 .. k : w.io[w.ch.retry[j]].at <= w.now}
Retried(w, n) ==
    LET after[k \in 0 .. n] == IF k = 0 THEN w ELSE RetryIo(after[k - 1], w.ch.retry[k]) IN after[n]
RetryPoll ==
    /\ IoPathAlive /\ np.ch.poll >= 0 /\ np.ch.poll <= np.now
    /\ np' = Rearm(Retried(np, Max(Due(np) \cup {0})))

(* The upper layer submits an I/O; a read without a buffer waits for one   *)
(* with its path chosen, which bdev_nvme_get_buf_cb looks at again.        *)
WaitForBuffer(found, i) ==
    [found.w EXCEPT !.io[i] = [FreeIo EXCEPT !.st = "buf", !.path = found.p, !.gen = found.w.path[found.p].gen]]
IoSubmit(i) ==
    /\ IoPathAlive /\ np.left.ios > 0 /\ np.io[i].st = "free"
    /\ LET w == IoPathSpend(np, "ios")
       IN  \/ np' = SubmitIo([w EXCEPT !.io[i] = [FreeIo EXCEPT !.st = "new"]], i)
           \/ np.left.buffers /\ FindIoPath(w).p # NoIoPath /\ np' = WaitForBuffer(FindIoPath(w), i)
GotBuffer(i) ==
    /\ IoPathAlive /\ np.io[i].st = "buf"
    /\ \/ np' = AnswerIo(np, i)
       \/ Freed(np, i) /\ np' = IoPathCrash(np, "freed path")
       \/ ~Freed(np, i) /\ np' = IF Usable(np, np.io[i].path) THEN [np EXCEPT !.io[i].st = "out"]
                                 ELSE NoPathForIo(np, i)

---------------------------------------------------------------------------
(* Completions                                                             *)

(* nvme_ctrlr_read_ana_log_page: refused while one is read. *)
ReadAna(w, p, mark) ==
    IF CtrlrAvailable(w, p) /\ ~w.path[p].reading
    THEN [w EXCEPT !.path[p].reading = TRUE, !.path[p].updating = (@ \/ mark)] ELSE w

(* bdev_nvme_io_complete_nvme_status of an I/O that failed: why is the     *)
(* status: final, for the drive forbids a retry or was asked to abort; of  *)
(* the path; of the ANA state; or any other, which is tried again on the   *)
(* same path, after a delay that the drive asks for.                       *)
IoFailed(w, i, why, delay) ==
    LET p == w.io[i].path
        ofPath == why \in {"path", "ana"} \/ ~Usable(w, p) \/ ~CtrlrAvailable(w, p)
        given == why = "final" \/ w.io[i].tries >= NvmeRetries
    IN  CASE given -> AnswerIo(w, i)
          [] ~given /\ why = "ana" -> AnswerIo(ReadAna(ClearOfIo(w), p, TRUE), i)
          [] ~given /\ why # "ana" /\ ofPath -> AnswerIo(ClearOfIo(w), i)
          [] OTHER -> QueueRetry([w EXCEPT !.io[i] = [w.io[i] EXCEPT !.tries = @ + 1, !.abort = FALSE]],
                                i, delay)

(* A PI error of a read: read again without the check, when the path is    *)
(* usable, and then completed with the first status.                       *)
ReadAgain(w, i) ==
    IF Usable(w, w.io[i].path) THEN [w EXCEPT !.io[i].st = "verify"] ELSE IoFailed(w, i, "other", 0)

(* The driver completes an I/O: every status while the path is up; a lost  *)
(* qpair's I/Os are aborted.  The completion reads the I/O's path.         *)
IoDone(i) ==
    /\ IoPathAlive /\ np.io[i].st \in {"out", "verify"}
    /\ LET p == np.io[i].path
           w == IoPathSpend(np, "faults")
           up == Connected(np, p) \/ Freed(np, i)
       IN  \/ Freed(np, i) /\ np' = IoPathCrash(np, "freed path")
           \/ ~Freed(np, i) /\ np.io[i].st = "out" /\ up /\ np' = AnswerIo(np, i)
           \/ ~Freed(np, i) /\ ~up /\ np' = IoFailed(np, i, "path", 0)
           \/ ~Freed(np, i) /\ np.io[i].st = "out" /\ up /\ np.io[i].abort
              /\ np' = IoFailed(np, i, "final", 0)
           \/ ~Freed(np, i) /\ np.io[i].st = "verify" /\ up /\ np' = IoFailed(np, i, "other", 0)
           \/ ~Freed(np, i) /\ np.io[i].st = "out" /\ up /\ np.left.faults > 0
              /\ \/ \E why \in {"final", "path", "ana"} : np' = IoFailed(w, i, why, 0)
                 \/ \E delay \in 0 .. 1 : np' = IoFailed(w, i, "other", delay)
                 \/ np' = ReadAgain(w, i)

(* bdev_nvme_abort: an I/O that waits is taken from the list, whose poller *)
(* is left alone; another is aborted by the driver, if its path is there.  *)
IoAbort(i) ==
    /\ IoPathAlive /\ np.left.aborts > 0 /\ np.io[i].st \in {"out", "verify", "retry"} /\ ~np.io[i].abort
    /\ LET w == IoPathSpend(np, "aborts")
       IN  \/ np.io[i].st = "retry"
              /\ np' = AnswerIo([w EXCEPT !.ch.retry = RemoveFirst(@, i)], i)
           \/ np.io[i].st # "retry"
              /\ np' = IF Freed(np, i) THEN w ELSE [w EXCEPT !.io[i].abort = TRUE]

---------------------------------------------------------------------------
(* What happens to the paths                                               *)

(* The transport loses the qpair, or a reset of the controller begins:     *)
(* bdev_nvme_reset_destroy_qpair clears the cache at once.                 *)
PathLost(p) ==
    /\ IoPathAlive /\ np.left.losses > 0 /\ np.path[p].in /\ np.path[p].qp = "up"
    /\ LET w == [IoPathSpend(np, "losses") EXCEPT !.path[p].qp = "lost"]
       IN  \/ np' = [w EXCEPT !.stale = 0]
           \/ CtrlrAvailable(np, p) /\ np' = ClearCurrent([w EXCEPT !.path[p].ctrlr = "resetting"])

(* bdev_nvme_disconnected_qpair_cb, when the driver has aborted its I/Os. *)
PathDisconnected(p) ==
    /\ IoPathAlive /\ np.path[p].in /\ np.path[p].qp = "lost" /\ Depth(np, p) = 0
    /\ np' = ClearCurrent([np EXCEPT !.path[p].qp = "gone", !.path[p].ctrlr = "resetting"])

(* The reset creates the qpair again, or fails and may be repeated. *)
PathReset(p) ==
    /\ IoPathAlive /\ np.path[p].in /\ np.path[p].qp = "gone"
    /\ \/ np.path[p].ctrlr # "up" /\ np' = [np EXCEPT !.path[p].ctrlr = "up", !.path[p].qp = "up"]
       \/ np.path[p].ctrlr = "resetting" /\ np' = [np EXCEPT !.path[p].ctrlr = "failed"]

(* An ANA event; the page has been read, which sets the state and clears   *)
(* the caches, unless the clearing of an earlier page is still going on.   *)
AnaEvent(p) ==
    /\ IoPathAlive /\ np.left.anas > 0 /\ np.path[p].in /\ np' = ReadAna(IoPathSpend(np, "anas"), p, FALSE)
AnaRead(p) ==
    /\ IoPathAlive /\ np.path[p].reading
    /\ \E ana \in {"optimized", "non_optimized", "inaccessible"} :
       LET set == [np EXCEPT !.path[p] = [@ EXCEPT !.ana = ana, !.updating = FALSE, !.reading = FALSE]]
       IN  np' = CASE CtrlrAvailable(np, p) /\ np.path[p].walk = "no" -> [set EXCEPT !.path[p].walk = "before"]
                   [] np.path[p].walk = "before" -> set
                   [] OTHER -> [set EXCEPT !.seen = @ \cup {"no clearing"}]
WalkCaches(p) ==
    /\ IoPathAlive
    /\ \/ np.path[p].walk = "before"
          /\ np' = [(IF np.path[p].in THEN ClearCurrent(np) ELSE np) EXCEPT !.path[p].walk = "after"]
       \/ np.path[p].walk = "after" /\ np' = [np EXCEPT !.path[p].walk = "no"]

(* A namespace comes (nvme_bdev_add_ns) or goes                            *)
(* (nvme_ctrlr_depopulate_namespace), not the last one; the io_path is     *)
(* freed whatever is out on it.                                            *)
PathAdded(p) ==
    /\ IoPathAlive /\ np.left.namespaces > 0 /\ ~np.path[p].in /\ np.path[p].ctrlr = "up"
    /\ LET path == [np.path[p] EXCEPT !.in = TRUE, !.gen = @ + 1, !.qp = "up", !.ana = "optimized",
                                      !.updating = FALSE]
       IN  np' = ClearCurrent([IoPathSpend(np, "namespaces") EXCEPT !.path[p] = path, !.ch.list = Append(@, p)])
PathRemoved(p) ==
    /\ IoPathAlive /\ np.left.namespaces > 0 /\ np.path[p].in /\ Len(np.ch.list) > 1
    /\ np' = ClearCurrent([IoPathSpend(np, "namespaces") EXCEPT
                              !.path[p].in = FALSE, !.ch.list = RemoveFirst(@, p)])

(* bdev_nvme_set_preferred_path, bdev_nvme_set_multipath_policy. *)
SetPreferred(p) ==
    /\ IoPathAlive /\ np.left.settings > 0 /\ np.path[p].in
    /\ np' = ClearCurrent([IoPathSpend(np, "settings") EXCEPT !.ch.list = <<p>> \o RemoveFirst(@, p)])
SetPolicy(policy) ==
    /\ IoPathAlive /\ np.left.settings > 0 /\ np' = ClearCurrent([IoPathSpend(np, "settings") EXCEPT !.ch.policy = policy])

IoPathTick == IoPathAlive /\ np.now < MaxTicks /\ np' = [np EXCEPT !.now = @ + 1]

IoPathNext ==
    \/ \E i \in NvmeIos : IoSubmit(i) \/ GotBuffer(i) \/ IoDone(i) \/ IoAbort(i)
    \/ RetryPoll \/ IoPathTick
    \/ \E p \in NvmePaths :
          \/ PathLost(p) \/ PathDisconnected(p) \/ PathReset(p) \/ AnaEvent(p) \/ AnaRead(p) \/ WalkCaches(p)
          \/ PathAdded(p) \/ PathRemoved(p) \/ SetPreferred(p)
    \/ \E policy \in IoPathPolicies : SetPolicy(policy)

IoPathSpec == IoPathInit /\ [][IoPathNext]_npVars

---------------------------------------------------------------------------
IoPathTypeOK ==
    /\ np.ch.list \in Seq(NvmePaths) /\ np.ch.cur \in NvmePaths \cup {NoIoPath}
    /\ np.ch.rr \in 0 .. RrMinIo - 1 /\ np.ch.poll \in -1 .. MaxTicks + 1
    /\ \A i \in NvmeIos :
          np.io[i].st \in {"free", "buf", "out", "verify", "retry"} /\ np.io[i].tries \in 0 .. NvmeRetries

(* An I/O that waits for a retry is in the list, which is ordered by time, *)
(* and the poller comes no later than its head.                            *)
RetriesComeDue ==
    /\ {i \in NvmeIos : np.io[i].st = "retry"} = ToSet(np.ch.retry) /\ IsInjective(np.ch.retry)
    /\ \A k \in 2 .. Len(np.ch.retry) : np.io[np.ch.retry[k - 1]].at <= np.io[np.ch.retry[k]].at
    /\ np.ch.retry # <<>> => np.ch.poll >= 0 /\ np.ch.poll <= np.io[Head(np.ch.retry)].at

(* The cached path is one of the bdev's, and nobody but an I/O whose       *)
(* namespace went away while it was out finds it freed.  An I/O of the     *)
(* bdev's own channel fails once at most on a lost path that is cached; a  *)
(* wrapped one clears the cache of the wrong channel.                      *)
CacheIsCurrent ==
    /\ np.ch.cur = NoIoPath \/ np.ch.cur \in ToSet(np.ch.list)
    /\ np.left.wrapped \/ np.stale <= 1

(* When nothing is under way, the path cached for the active-passive       *)
(* policy is an optimized one, unless a clearing of the caches was left    *)
(* out because another had not ended.                                      *)
CacheSettles ==
    (\A p \in NvmePaths : np.path[p].qp # "lost" /\ np.path[p].walk = "no") /\ np.ch.policy = "passive"
        /\ np.ch.cur # NoIoPath /\ "no clearing" \notin np.seen
    => Connected(np, np.ch.cur) /\ np.path[np.ch.cur].ana = "optimized"

PathIos ==
    /\ IoPathAlive => RetriesComeDue /\ CacheIsCurrent /\ CacheSettles
    /\ np.crash # "answered twice"
    /\ np.crash = "no retry list" => np.left.wrapped
=============================================================================
