-------------------------------- MODULE SumpIo --------------------------------
(***************************************************************************)
(* One ump_bdev_channel: the I/O path of src/sump_data.c and the           *)
(* completion, failover and failback handlers of src/sump_ctrl.c.          *)
(*                                                                         *)
(* Everything here runs on the channel's SPDK thread, so a handler is one  *)
(* step; a completion that submits the I/O again does so by a tail call,   *)
(* and is one step too.  What interleaves is the order of submissions,     *)
(* completions, failback polls and probe completions.                      *)
(***************************************************************************)
EXTENDS SumpSelect

CONSTANTS
    NumPaths,   \* iopaths of the channel (max_id)
    Ios,        \* spdk_bdev_io objects of the upper layer
    Requests,   \* [offset, num, bad]: a bad request fails on every path
    Reliable,   \* paths on which only bad requests fail
    AllocFails, \* whether calloc and malloc may return NULL
    MaxProbes   \* bound: outstanding probes of one path

(* count[] in sump_ctrl.c has four elements, indexed by iopath->id.  A     *)
(* request may have no blocks: num_blocks is a member of a union that      *)
(* resets and passthru commands use for something else.                    *)
ASSUME NumPathsAssumption == NumPaths \in 1 .. 4
ASSUME RequestsAssumption ==
    Requests \subseteq [offset : Nat, num : Nat, bad : BOOLEAN]
ASSUME ReliableAssumption == Reliable \subseteq 0 .. NumPaths - 1
ASSUME AllocFailsAssumption == AllocFails \in BOOLEAN
ASSUME MaxProbesAssumption == MaxProbes \in Nat \ {0}

Paths == PathIds(NumPaths)

VARIABLES
    stage,        \* of each I/O: idle, inflight, or lost (never completed)
    owed,         \* completions the upper layer still waits for
    request,      \* what each I/O asks for
    cb,           \* bdev_io->internal.cb: the upper layer's or ump's
    ctx,          \* the ump_bdev_io_completion_ctx of each I/O
    available,    \* iopath->available
    reconnecting, \* iopath->reconnecting
    poller,       \* iopath->reconnect_poller: none, running, paused
    failback,     \* the ump_failback_ctx of each path
    probes,       \* outstanding submissions of failback[p]'s bdev_io
    channel,      \* open or destroyed
    fault,        \* the undefined behaviour that ended the process
    overlapped,   \* history: a probe was sent while another was outstanding
    relapsed      \* history: paths that failed again after a good probe

ioVars == <<stage, owed, request, cb, ctx>>
pathVars == <<available, reconnecting, poller, failback, probes, overlapped, relapsed>>
vars == <<ioVars, pathVars, channel, fault>>

NoRequest == [offset |-> 0, num |-> 0, bad |-> FALSE]

(* ump_bdev_io_completion_ctx: the wrapped callback and the chosen path.   *)
Callbacks == {"caller", "ump"}
NoCtx == [real |-> "caller", iopath |-> NoPath]
Ctxs == [real : Callbacks, iopath : Paths \cup {NoPath}]

(* ump_failback_ctx: its memory, and the I/O and request that its bdev_io  *)
(* is a memcpy of.                                                         *)
NoFailback == [memory |-> "none"]
Failbacks == [memory : {"live", "freed"}, io : Ios, request : Requests]

Faults == {"none", "null_iopath", "null_ctx", "div_by_zero", "use_after_free"}

-------------------------------------------------------------------------------
(* ump_bdev_channel_create_cb has just run: every path is available.       *)
Init ==
    /\ stage = [i \in Ios |-> "idle"]
    /\ owed = [i \in Ios |-> 0]
    /\ request = [i \in Ios |-> NoRequest]
    /\ cb = [i \in Ios |-> "caller"]
    /\ ctx = [i \in Ios |-> NoCtx]
    /\ available = [p \in Paths |-> TRUE]
    /\ reconnecting = [p \in Paths |-> FALSE]
    /\ poller = [p \in Paths |-> "none"]
    /\ failback = [p \in Paths |-> NoFailback]
    /\ probes = [p \in Paths |-> 0]
    /\ overlapped = FALSE
    /\ relapsed = {}
    /\ channel = "open"
    /\ fault = "none"

Running == fault = "none"

(***************************************************************************)
(* ump_bdev_submit_request for I/O i with request r, with real the         *)
(* callback found in the bdev_io and av the paths' availability.  When     *)
(* the context cannot be allocated, or no path can be chosen, the I/O is   *)
(* left without a completion; the path is dereferenced before it is        *)
(* compared with NULL, and the hash divides by num_blocks.                 *)
(***************************************************************************)
SubmitWithoutCtx(i, real) ==
    /\ AllocFails
    /\ stage' = [stage EXCEPT ![i] = "lost"]
    /\ cb' = [cb EXCEPT ![i] = real]
    /\ UNCHANGED <<ctx, fault>>

SubmitToPath(i, r, av, real) ==
    LET p == IF r.num = 0 THEN NoPath ELSE HashPath(NumPaths, av, r)
    IN  /\ cb' = [cb EXCEPT ![i] = "ump"]
        /\ ctx' = [ctx EXCEPT ![i] = [real |-> real, iopath |-> p]]
        /\ stage' = [stage EXCEPT ![i] = IF p = NoPath THEN "lost" ELSE "inflight"]
        /\ fault' = IF r.num = 0 THEN "div_by_zero"
                    ELSE IF p = NoPath THEN "null_iopath" ELSE fault

SubmitRequest(i, r, av, real) ==
    SubmitWithoutCtx(i, real) \/ SubmitToPath(i, r, av, real)

(* The upper layer submits an I/O, with its own completion callback.       *)
Submit(i) ==
    /\ Running
    /\ channel = "open"
    /\ stage[i] = "idle"
    /\ \E r \in Requests :
        /\ request' = [request EXCEPT ![i] = r]
        /\ SubmitRequest(i, r, available, "caller")
    /\ owed' = [owed EXCEPT ![i] = @ + 1]
    /\ UNCHANGED <<pathVars, channel>>

-------------------------------------------------------------------------------
(* ump_bdev_io_completion_cb, success: the wrapped callback is called.  It *)
(* is the upper layer's unless the I/O was wrapped twice.                  *)
CompleteOk(i) ==
    /\ Running
    /\ stage[i] = "inflight"
    /\ ~request[i].bad
    /\ stage' = [stage EXCEPT ![i] = "idle"]
    /\ owed' = [owed EXCEPT ![i] = IF ctx[i].real = "caller" THEN @ - 1 ELSE @]
    /\ UNCHANGED <<request, cb, ctx, pathVars, channel, fault>>

(* Slip: one failback at a time.                                           *)
FailbackOfOne(p, i) ==
    IF \E q \in Paths : reconnecting[q]
    THEN UNCHANGED <<reconnecting, poller, failback>>
    ELSE /\ reconnecting' = [reconnecting EXCEPT ![p] = TRUE]
         /\ poller' = [poller EXCEPT ![p] = "running"]
         /\ failback' = [failback EXCEPT ![p] =
                [memory |-> "live", io |-> i, request |-> request[i]]]

(* ump_failback: the first failure of a path copies the failed bdev_io and *)
(* starts the path's failback poller.                                      *)
Failback(p, i) ==
    IF reconnecting[p]
    THEN UNCHANGED <<reconnecting, poller, failback>>
    ELSE /\ reconnecting' = [reconnecting EXCEPT ![p] = TRUE]
         /\ poller' = [poller EXCEPT ![p] = "running"]
         /\ failback' = [failback EXCEPT ![p] =
                [memory |-> "live", io |-> i, request |-> request[i]]]

MayFail(i) == request[i].bad \/ ctx[i].iopath \notin Reliable

(* A failure takes path p out of service although a probe had brought it   *)
(* back.                                                                   *)
Relapse(p) ==
    relapsed' = IF available[p] /\ reconnecting[p] THEN relapsed \cup {p} ELSE relapsed

(* The path of a failed I/O is marked and its failback started; the I/O is *)
(* submitted again with callback real, as the paths av are available.      *)
FailOver(i, av, real) ==
    LET p == ctx[i].iopath
    IN  /\ Running
        /\ stage[i] = "inflight"
        /\ MayFail(i)
        /\ available' = [available EXCEPT ![p] = FALSE]
        /\ Failback(p, i)
        /\ Relapse(p)
        /\ SubmitRequest(i, request[i], av, real)
        /\ UNCHANGED <<owed, request, probes, overlapped, channel>>

Marked(i) == [available EXCEPT ![ctx[i].iopath] = FALSE]

(* Slips: the bdev_io keeps ump's callback; the path is chosen before the  *)
(* failed one is marked; the I/O is answered, or dropped, instead of       *)
(* submitted again.                                                        *)
CompleteFailRewrapping(i) == FailOver(i, Marked(i), cb[i])
CompleteFailMarkingLate(i) == FailOver(i, available, ctx[i].real)
CompleteFailEnding(i, end) ==
    /\ Running
    /\ stage[i] = "inflight"
    /\ MayFail(i)
    /\ available' = Marked(i)
    /\ Failback(ctx[i].iopath, i)
    /\ Relapse(ctx[i].iopath)
    /\ stage' = [stage EXCEPT ![i] = end]
    /\ owed' = [owed EXCEPT ![i] = IF end = "idle" THEN @ - 1 ELSE @]
    /\ UNCHANGED <<request, cb, ctx, probes, overlapped, channel, fault>>
CompleteFailAnswering(i) == CompleteFailEnding(i, "idle")
CompleteFailDropping(i) == CompleteFailEnding(i, "lost")

(* ump_bdev_io_completion_cb, failure: the callback is restored before the *)
(* I/O is submitted again.                                                 *)
CompleteFail(i) == FailOver(i, Marked(i), ctx[i].real)

(* The same, when ump_failback's mallocs fail: their results are used      *)
(* unchecked.                                                              *)
CompleteFailWithoutFailback(i) ==
    LET p == ctx[i].iopath
    IN  /\ Running
        /\ AllocFails
        /\ stage[i] = "inflight"
        /\ MayFail(i)
        /\ ~reconnecting[p]
        /\ available' = [available EXCEPT ![p] = FALSE]
        /\ reconnecting' = [reconnecting EXCEPT ![p] = TRUE]
        /\ fault' = "null_ctx"
        /\ UNCHANGED <<ioVars, poller, failback, probes, overlapped, relapsed, channel>>

-------------------------------------------------------------------------------
(* The failback handlers use the iopath, which the channel's destruction   *)
(* frees, and the failback context, which the first good probe frees.      *)
FailbackUsable(p) == channel = "open" /\ failback[p].memory = "live"

(* ump_failback_io_fn: submit the copied bdev_io on the failed path.       *)
FailbackPoll(p) ==
    /\ Running
    /\ poller[p] = "running"
    /\ probes[p] < MaxProbes
    /\ IF FailbackUsable(p)
       THEN /\ probes' = [probes EXCEPT ![p] = @ + 1]
            /\ overlapped' = (overlapped \/ probes[p] > 0)
            /\ UNCHANGED fault
       ELSE /\ fault' = "use_after_free"
            /\ UNCHANGED <<probes, overlapped>>
    /\ UNCHANGED <<ioVars, available, reconnecting, poller, failback, relapsed, channel>>

(* Slips: the poller goes on after a good probe; the path stays out of     *)
(* service after it.                                                       *)
ProbeOkPolling(p) ==
    /\ Running
    /\ probes[p] > 0
    /\ ~failback[p].request.bad
    /\ probes' = [probes EXCEPT ![p] = @ - 1]
    /\ available' = [available EXCEPT ![p] = TRUE]
    /\ failback' = [failback EXCEPT ![p].memory = "freed"]
    /\ UNCHANGED <<ioVars, reconnecting, poller, overlapped, relapsed, channel, fault>>

ProbeOkUnmarked(p) ==
    /\ Running
    /\ probes[p] > 0
    /\ ~failback[p].request.bad
    /\ probes' = [probes EXCEPT ![p] = @ - 1]
    /\ poller' = [poller EXCEPT ![p] = "paused"]
    /\ failback' = [failback EXCEPT ![p].memory = "freed"]
    /\ UNCHANGED <<ioVars, available, reconnecting, overlapped, relapsed, channel, fault>>

(* ump_failback_io_completion_cb, success.                                 *)
ProbeOk(p) ==
    /\ Running
    /\ probes[p] > 0
    /\ ~failback[p].request.bad
    /\ probes' = [probes EXCEPT ![p] = @ - 1]
    /\ IF FailbackUsable(p)
       THEN /\ available' = [available EXCEPT ![p] = TRUE]
            /\ poller' = [poller EXCEPT ![p] = "paused"]
            /\ failback' = [failback EXCEPT ![p].memory = "freed"]
            /\ UNCHANGED fault
       ELSE /\ fault' = "use_after_free"
            /\ UNCHANGED <<available, poller, failback>>
    /\ UNCHANGED <<ioVars, reconnecting, overlapped, relapsed, channel>>

(* ump_failback_io_completion_cb, failure: nothing, but the bdev layer     *)
(* reads the copied bdev_io to get there.                                  *)
ProbeFail(p) ==
    /\ Running
    /\ probes[p] > 0
    /\ failback[p].request.bad \/ p \notin Reliable
    /\ probes' = [probes EXCEPT ![p] = @ - 1]
    /\ fault' = IF failback[p].memory = "live" THEN fault ELSE "use_after_free"
    /\ UNCHANGED <<ioVars, available, reconnecting, poller, failback, overlapped, relapsed, channel>>

(* ump_bdev_channel_destroy_cb: the upper layer drops the channel once it  *)
(* has no I/O outstanding.  Failback pollers are left running.             *)
DestroyChannel ==
    /\ Running
    /\ channel = "open"
    /\ \A i \in Ios : stage[i] = "idle"
    /\ channel' = "destroyed"
    /\ UNCHANGED <<ioVars, pathVars, fault>>

Next ==
    \/ \E i \in Ios :
        Submit(i) \/ CompleteOk(i) \/ CompleteFail(i) \/ CompleteFailWithoutFailback(i)
    \/ \E p \in Paths : FailbackPoll(p) \/ ProbeOk(p) \/ ProbeFail(p)
    \/ DestroyChannel

Spec == Init /\ [][Next]_vars

(***************************************************************************)
(* Fairness: the NVMe layer completes every command it accepted, the SPDK  *)
(* thread keeps running a timed poller, and a link that is probed for ever *)
(* is eventually up for one of the probes.                                 *)
(***************************************************************************)
Fairness ==
    /\ \A i \in Ios : WF_vars(CompleteOk(i) \/ CompleteFail(i))
    /\ \A p \in Paths :
        /\ WF_vars(FailbackPoll(p))
        /\ WF_vars(ProbeOk(p) \/ ProbeFail(p))
        /\ SF_vars(ProbeOk(p))

FairSpec == Spec /\ Fairness
-------------------------------------------------------------------------------
(* Every variable holds a value of its kind.                               *)
TypeOK ==
    /\ stage \in [Ios -> {"idle", "inflight", "lost"}]
    /\ owed \in [Ios -> Nat]
    /\ request \in [Ios -> Requests \cup {NoRequest}]
    /\ cb \in [Ios -> Callbacks]
    /\ ctx \in [Ios -> Ctxs]
    /\ available \in [Paths -> BOOLEAN]
    /\ reconnecting \in [Paths -> BOOLEAN]
    /\ poller \in [Paths -> {"none", "running", "paused"}]
    /\ failback \in [Paths -> Failbacks \cup {NoFailback}]
    /\ probes \in [Paths -> 0 .. MaxProbes]
    /\ overlapped \in BOOLEAN
    /\ relapsed \subseteq Paths
    /\ channel \in {"open", "destroyed"}
    /\ fault \in Faults

(* However often an I/O fails over, the upper layer's callback runs once   *)
(* for it: it is owed exactly while the I/O is not idle.                   *)
ExactlyOnce ==
    \A i \in Ios : owed[i] = IF stage[i] = "idle" THEN 0 ELSE 1

(* An I/O with blocks that was given its completion context is left        *)
(* without a completion only by the NULL path, and the selector returns    *)
(* that only when every path has been marked unavailable.                  *)
LostOnlyWithoutPath ==
    \A i \in Ios :
        stage[i] = "lost" /\ cb[i] = "ump" /\ request[i].num > 0 =>
            fault = "null_iopath" /\ \A p \in Paths : ~available[p]

(* Path p is being brought back: its poller probes it with a live context. *)
Supervised(p) == reconnecting[p] /\ poller[p] = "running" /\ failback[p].memory = "live"

(* Every path out of service is being brought back, until the mallocs of   *)
(* its failback failed, and so end the process, but for a path that had    *)
(* been brought back once and failed again: reconnecting is still set      *)
(* (sump_ctrl.c:490), and nobody probes it.  No path in service is probed. *)
FailedPathsSupervised ==
    \A p \in Paths :
        /\ ~available[p] => Supervised(p) \/ p \in relapsed \/ fault = "null_ctx"
        /\ poller[p] = "running" => ~available[p] /\ p \notin relapsed

(* ump_failback_ctx and the iopath are freed under the feet of the poller  *)
(* and the probes only if a probe outlived a poll period or the channel    *)
(* was destroyed.                                                          *)
FreedOnlyWhenOverlapped ==
    fault = "use_after_free" => overlapped \/ channel = "destroyed"

(* The inductive invariant behind the above.  An I/O is never wrapped      *)
(* twice; an I/O left without a completion has lost its context or ended   *)
(* the process; a failback's state moves from none through a live context  *)
(* with a running poller to a freed one with a paused poller; and while    *)
(* probes have not overlapped, at most one is out, none once freed.        *)
WrappedOnce ==
    \A i \in Ios :
        /\ ctx[i].real = "caller"
        /\ stage[i] = "inflight" => ctx[i].iopath \in Paths /\ request[i] \in Requests

FailbackPhases ==
    \A p \in Paths :
        /\ poller[p] = "none" => failback[p] = NoFailback /\ probes[p] = 0
        /\ poller[p] = "none" /\ fault = "none" => ~reconnecting[p]
        /\ poller[p] # "none" => failback[p] \in Failbacks /\ reconnecting[p]
        /\ poller[p] = "running" => failback[p].memory = "live"
        /\ poller[p] = "paused" => failback[p].memory = "freed"
        /\ poller[p] = "running" => ~available[p]
        /\ poller[p] # "paused" => p \notin relapsed
        /\ poller[p] = "paused" /\ ~available[p] => p \in relapsed
        /\ poller[p] = "none" /\ fault # "null_ctx" => available[p]
        /\ ~overlapped => probes[p] <= 1
        /\ ~overlapped /\ poller[p] = "paused" => probes[p] = 0

IndInv ==
    /\ TypeOK
    /\ ExactlyOnce
    /\ LostOnlyWithoutPath
    /\ FreedOnlyWhenOverlapped
    /\ WrappedOnce
    /\ FailbackPhases

(* A submission, and every failover of an I/O, goes to a path that is      *)
(* available once the step is over: never back to the path that failed.    *)
DispatchedToAvailable ==
    [][\A i \in Ios :
        (Submit(i) \/ CompleteFail(i)) /\ stage'[i] = "inflight"
            => available'[ctx'[i].iopath]]_vars

(* The I/O found no memory for its context, or ump_failback for its own.   *)
NoMemoryFor(i) == (stage[i] = "lost" /\ cb[i] = "caller") \/ fault = "null_ctx"

(* With a path that only bad requests fail on, an accepted I/O is          *)
(* completed to the upper layer, whatever the other paths do, unless an    *)
(* allocation fails.                                                       *)
EveryIoCompletes ==
    \A i \in Ios : stage[i] = "inflight" ~> stage[i] = "idle" \/ NoMemoryFor(i)

(* A path under failback comes back once a probe can succeed.              *)
FailbackRecovers ==
    \A p \in Paths : poller[p] = "running" ~>
        available[p] \/ channel = "destroyed" \/ fault = "null_ctx"

(* The comment "polling has implemented failure recovery" (sump_ctrl.c:43) *)
(* read of every failure: a failed path comes back.                        *)
EveryFailureRecovers ==
    \A p \in Paths : ~available[p] ~> available[p] \/ channel = "destroyed"
===============================================================================
