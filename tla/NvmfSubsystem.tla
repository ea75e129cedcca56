---------------------------- MODULE NvmfSubsystem ----------------------------
(***************************************************************************)
(* One subsystem of the NVMe-oF target (src/nvmf): how it is started,      *)
(* paused, resumed, stopped and destroyed while the poll groups, each on a *)
(* thread of its own, execute the requests of its queue pairs.             *)
(*                                                                         *)
(* A state change walks over the poll groups (spdk_for_each_channel).  A   *)
(* group may keep the walk waiting: a pause until its outstanding requests *)
(* are completed, a removal until its queue pairs are gone.  A walk that   *)
(* fails is reverted by a second one.  Those who change something in a     *)
(* subsystem (RPCs, events of the bdevs) pause it, act in the callback and *)
(* resume it; all of them run on one thread, so that the end of a change   *)
(* and its callback are one step.                                          *)
(*                                                                         *)
(* A failed assertion or a use of freed memory ends the run: see crashed.  *)
(***************************************************************************)
EXTENDS Integers, FiniteSets, FiniteSetsExt

CONSTANTS
    NumGroups,    \* poll groups, in the order in which they are walked
    Nsids,        \* namespace ids: max_nsid of them
    Qpairs,       \* queue pairs, each of which comes and goes once
    AdminQpairs,  \* those that connect with qid 0
    Placement,    \* the poll groups that a queue pair may be given to
    Requests,     \* NVMe-oF requests
    Changers,     \* RPCs and bdev events, each run once
    ChangerKinds, \* what the changers may be: functions
    CounterMod,   \* the counters of outstanding requests wrap around at it
    NoNs

Groups == 1 .. NumGroups
AllNs == "all"     \* SPDK_NVME_GLOBAL_NS_TAG
NoChanger == "nobody"

ASSUME NumGroupsAssumption == NumGroups \in Nat \ {0}
ASSUME NsidsAssumption == IsFiniteSet(Nsids) /\ NoNs \notin Nsids /\ AllNs \notin Nsids
ASSUME AdminQpairsAssumption == AdminQpairs \subseteq Qpairs /\ Qpairs # {}
ASSUME PlacementAssumption == Placement \in [Qpairs -> SUBSET Groups]
\* The counters have 32 bits; fewer requests are outstanding at a time.
ASSUME CounterModAssumption ==
    CounterMod \in Nat /\ IsFiniteSet(Requests) /\ Cardinality(Requests) + 1 < CounterMod
ASSUME ChangersAssumption == NoChanger \notin Changers

VARIABLES
    subsys,     \* state, changing_state, destroying; ns: the bdevs attached
    change,     \* subsystem_state_change_ctx and the position of its walk
    sgroup,     \* sgroup[g]: spdk_nvmf_subsystem_poll_group
    nsInfo,     \* nsInfo[g][n]: spdk_nvmf_subsystem_pg_ns_info
    qp,         \* the queue pairs
    request,    \* the requests and where they are
    changer,    \* the RPCs and events
    crashed,    \* why the process has ended, or "no"
    seen        \* history: what has happened that properties make exception of;
                \* unpaused: the namespaces that were removed in a pause that
                \* was not made for them, or by a resume that failed

subsystemVars == <<subsys, change, sgroup, nsInfo, qp, request, changer, crashed, seen>>

SubsystemStates == {"inactive", "activating", "active", "pausing", "paused",
                    "resuming", "deactivating"}
Kinds == {"connect", "admin", "aer", "io", "opc0c"}
AllKinds == {"hot_remove", "resize", "add_ns", "remove_ns", "listen", "stop", "delete"}
NoRequest == [at |-> "idle", qp |-> CHOOSE q \in Qpairs : TRUE, kind |-> "admin", ns |-> NoNs]
NoQpair == [state |-> "none", group |-> 1, ctrlr |-> FALSE, received |-> FALSE]
NoWalk == [on |-> FALSE, from |-> "inactive", to |-> "active", ns |-> NoNs, at |-> 1,
           failed |-> FALSE, revert |-> FALSE, owner |-> NoChanger]
NoNsInfo == [state |-> "inactive", io |-> 0, channel |-> FALSE]

SubsystemInit ==
    /\ subsys = [state |-> "inactive", changing |-> FALSE, ns |-> Nsids,
                 destroying |-> FALSE, destroyed |-> FALSE]
    /\ change = NoWalk
    /\ sgroup = [g \in Groups |-> [state |-> "inactive", mgmt |-> 0, cb |-> FALSE,
                                   num_ns |-> FALSE, removing |-> FALSE,
                                   inited |-> FALSE]]
    /\ nsInfo = [g \in Groups |-> [n \in Nsids |-> NoNsInfo]]
    /\ qp = [q \in Qpairs |-> NoQpair]
    /\ request = [r \in Requests |-> NoRequest]
    /\ \E kinds \in ChangerKinds :
         changer \in {f \in [Changers -> [kind : AllKinds, ns : Nsids, pc : {"idle"}]] :
                        \A o \in Changers : f[o].kind = kinds[o]}
    /\ crashed = "no"
    /\ seen = [late |-> {}, leaks |-> {}, unpaused |-> {}]

Up == crashed = "no"

---------------------------------------------------------------------------
(* The states of the subsystem *)

Intermediate(current, requested) ==
    CASE requested = "inactive" -> "deactivating"
      [] requested = "active" -> IF current = "paused" THEN "resuming" ELSE "activating"
      [] requested = "paused" -> "pausing"

(* The moves that nvmf_subsystem_set_state lets through. *)
MayMove(old, new) ==
    <<old, new>> \in
        {<<"deactivating", "inactive">>, <<"inactive", "activating">>,
         <<"activating", "active">>, <<"active", "pausing">>, <<"pausing", "paused">>,
         <<"paused", "resuming">>, <<"active", "deactivating">>,
         <<"resuming", "active">>, <<"activating", "deactivating">>,
         <<"resuming", "pausing">>, <<"paused", "deactivating">>}

Busy(s) == s.changing

(* What nvmf_subsystem_state_change answers to a request for a state. *)
Answer(s, to) ==
    CASE Busy(s) -> "busy"
      [] ~Busy(s) /\ s.state = to -> "same"
      [] ~Busy(s) /\ s.state # to ->
            IF MayMove(s.state, Intermediate(s.state, to)) THEN "started" ELSE "assertion"

Started(s, to) == [s EXCEPT !.state = Intermediate(s.state, to), !.changing = TRUE]
WalkTo(s, to, n, owner) ==
    [NoWalk EXCEPT !.on = TRUE, !.from = s.state, !.to = to, !.ns = n, !.owner = owner]

---------------------------------------------------------------------------
(* Requests: counting, queueing, completing *)

Mgmt(r) == request[r].kind \in {"connect", "admin", "aer"}
GroupOf(r) == qp[request[r].qp].group
Outstanding(q) ==
    {r \in Requests : request[r].qp = q /\ request[r].at \in {"retrying", "running", "parked"}}
Queued(g) == {r \in Requests : request[r].at \in {"queued", "stale"} /\ GroupOf(r) = g}

NotReady == subsys.state \in {"inactive", "pausing", "paused", "deactivating"}

(* Where nvmf_check_subsystem_active and spdk_nvmf_request_exec send a     *)
(* request: a rejected one is completed at once, which leaves the counters *)
(* as they were.  An AER and a connect to a subsystem that is not ready    *)
(* are taken out of the count again.                                       *)
Fate(req, sg, infos) ==
    CASE req.kind \in {"connect", "admin", "aer"} ->
            (CASE sg.state # "active" -> "queued"
               [] sg.state = "active" /\ qp[req.qp].state # "active" -> "idle"
               [] sg.state = "active" /\ qp[req.qp].state = "active" ->
                    (CASE req.kind = "aer" -> "parked"
                       [] req.kind = "connect" /\ NotReady -> "retrying"
                       [] OTHER -> "running"))
      [] OTHER ->
            (CASE ~sg.num_ns \/ ~infos[req.ns].channel -> "idle"
               [] infos[req.ns].state # "active" -> "queued"
               [] qp[req.qp].state # "active" -> "idle"
               [] OTHER -> "running")

(* The counters of group g after the requests of R have started in it. *)
CountMgmt(sg, R) ==
    [sg EXCEPT !.mgmt = (@ + Cardinality({r \in R : Mgmt(r)})) % CounterMod]
(* A slip: requests that were queued are not counted when they start. *)
CountIoNone(infos, R) == infos

CountIo(infos, R) ==
    [n \in Nsids |-> [infos[n] EXCEPT !.io =
        (@ + Cardinality({r \in R : ~Mgmt(r) /\ request[r].ns = n})) % CounterMod]]

(* _nvmf_ctrlr_connect: the fields of the queue pair are set; an admin     *)
(* queue gets its controller, an I/O queue only later.                     *)
Connecting(q) ==
    [qp[q] EXCEPT !.received = TRUE, !.ctrlr = @ \/ q \in AdminQpairs]

(* A pause of the group is over: nothing that it waits for is left. *)
Quiet(sg, infos) ==
    /\ sg.mgmt = 0
    /\ \A n \in Nsids : sg.num_ns /\ infos[n].state = "pausing" => infos[n].io = 0

Advance(failed) ==
    [change EXCEPT !.at = IF failed THEN NumGroups + 1 ELSE @ + 1, !.failed = failed]

(* The end of _nvmf_request_complete: the group may have become quiet, and *)
(* the walk that waits for it goes on.                                     *)
AfterCount(g, sg, infos) ==
    /\ nsInfo' = [nsInfo EXCEPT ![g] = infos]
    /\ IF sg.state = "pausing" /\ Quiet(sg, infos)
       THEN /\ sgroup' = [sgroup EXCEPT ![g] = [sg EXCEPT !.state = "paused", !.cb = FALSE]]
            /\ change' = Advance(FALSE)
       ELSE /\ sgroup' = [sgroup EXCEPT ![g] = sg]
            /\ UNCHANGED change

---------------------------------------------------------------------------
(* Queue pairs *)

Live(q) == qp[q].state \in {"active", "deactivating"}

(* spdk_nvmf_poll_group_add *)
AddQpair(q, g) ==
    /\ Up
    /\ qp[q].state = "none"
    /\ g \in Placement[q]
    /\ qp' = [qp EXCEPT ![q] = [NoQpair EXCEPT !.state = "active", !.group = g]]
    /\ UNCHANGED <<subsys, change, sgroup, nsInfo, request, changer, crashed, seen>>

(* _nvmf_qpair_destroy frees the requests of the queue pair that wait in   *)
(* the group, if it has a controller; others stay behind.                  *)
Leftover(r, gone) ==
    IF request[r].at = "queued" /\ request[r].qp \in gone
    THEN IF qp[request[r].qp].ctrlr THEN NoRequest ELSE [request[r] EXCEPT !.at = "stale"]
    ELSE request[r]

(* spdk_nvmf_qpair_disconnect for the active queue pairs of Q: the AERs    *)
(* are freed, and a queue pair without other outstanding requests goes at  *)
(* once.  nvmf_qpair_free_aer takes a queue pair whose connect was not yet *)
(* looked at for an admin queue, and its controller is NULL.               *)
Disconnect(Q) ==
    LET gone == {q \in Q : \A r \in Outstanding(q) : request[r].at = "parked"}
    IN  /\ qp' = [q \in Qpairs |-> CASE q \in gone -> [qp[q] EXCEPT !.state = "freed"]
                                     [] q \in Q \ gone -> [qp[q] EXCEPT !.state = "deactivating"]
                                     [] OTHER -> qp[q]]
        /\ request' = [r \in Requests |->
                IF request[r].at = "parked" /\ request[r].qp \in Q
                THEN NoRequest ELSE Leftover(r, gone)]
        /\ crashed' = IF \E q \in Q : ~qp[q].received /\ Outstanding(q) # {}
                      THEN "aers of no controller" ELSE crashed

(* The transport loses the connection, or the host closes it. *)
LoseQpair(q) ==
    /\ Up
    /\ qp[q].state = "active"
    /\ Disconnect({q})
    /\ UNCHANGED <<subsys, change, sgroup, nsInfo, changer, seen>>

(* A request is done: it leaves, and with it maybe its queue pair          *)
(* (nvmf_qpair_request_cleanup).  q is the queue pair as it is now.        *)
Finish(r, q) ==
    LET last == q.state = "deactivating" /\ Outstanding(request[r].qp) = {r}
    IN  /\ qp' = [qp EXCEPT ![request[r].qp] = IF last THEN [q EXCEPT !.state = "freed"] ELSE q]
        /\ request' = [s \in Requests |->
              IF s = r THEN NoRequest
              ELSE IF last THEN Leftover(s, {request[r].qp}) ELSE request[s]]

---------------------------------------------------------------------------
(* Execution of requests *)

(* spdk_nvmf_request_exec of a request that has arrived. *)
Execute(r, q, k, n) ==
    LET req == [at |-> "idle", qp |-> q, kind |-> k, ns |-> n]
        g == qp[q].group
        fate == Fate(req, sgroup[g], nsInfo[g])
        counted == fate = "running"
    IN  /\ Up
        /\ request[r].at = "idle"
        /\ Live(q)
        /\ IF k = "connect" THEN ~qp[q].ctrlr /\ Outstanding(q) = {} /\ ~qp[q].received
                                 /\ \A s \in Requests : request[s].qp = q => request[s].at # "queued"
                            ELSE qp[q].ctrlr /\ qp[q].received
        /\ k \in {"admin", "aer"} => q \in AdminQpairs
        /\ k \in {"io", "opc0c"} => q \notin AdminQpairs
        /\ k = "opc0c" => seen.leaks = {} /\ \A s \in Requests : request[s].kind # "opc0c"   \* bound
        /\ (n = NoNs) <=> (k \in {"connect", "admin", "aer"})
        /\ ~subsys.destroyed
        /\ fate # "idle"
        /\ request' = [request EXCEPT ![r] = [req EXCEPT !.at = fate]]
        /\ sgroup' = [sgroup EXCEPT ![g].mgmt =
                IF counted /\ n = NoNs THEN (@ + 1) % CounterMod ELSE @]
        /\ nsInfo' = IF counted /\ n # NoNs
                     THEN [nsInfo EXCEPT ![g][n].io = (@ + 1) % CounterMod] ELSE nsInfo
        /\ qp' = IF counted /\ k = "connect" THEN [qp EXCEPT ![q] = Connecting(q)] ELSE qp
        /\ crashed' = IF fate = "queued" /\ ~sgroup[g].inited THEN "queue without a head" ELSE "no"
        /\ UNCHANGED <<subsys, change, changer, seen>>

(* retry_connect: the poller looks again at the subsystem.  After a second *)
(* the connect is given up.                                                *)
RetryConnect(r) ==
    LET g == GroupOf(r)
    IN  /\ Up
        /\ request[r].at = "retrying"
        /\ IF NotReady
           THEN Finish(r, qp[request[r].qp]) /\ UNCHANGED sgroup
           ELSE /\ request' = [request EXCEPT ![r].at = "running"]
                /\ sgroup' = [sgroup EXCEPT ![g].mgmt = (@ + 1) % CounterMod]
                /\ qp' = [qp EXCEPT ![request[r].qp] = Connecting(request[r].qp)]
        /\ UNCHANGED <<subsys, change, nsInfo, changer, crashed, seen>>

(* An I/O queue is accepted while the controller's admin queue is active:  *)
(* nvmf_ctrlr_add_io_qpair.                                                *)
AdminActive == \E a \in AdminQpairs : qp[a].state = "active" /\ qp[a].ctrlr

(* _nvmf_request_complete.  A command with the opcode of an AER is not     *)
(* counted down, on whichever queue it came.                               *)
Complete(r, ok) ==
    LET g == GroupOf(r)
        n == request[r].ns
        q == request[r].qp
        accepted == /\ request[r].kind = "connect"
                    /\ IF q \in AdminQpairs THEN ok ELSE ok /\ AdminActive
        now == IF request[r].kind = "connect" THEN [qp[q] EXCEPT !.ctrlr = accepted] ELSE qp[q]
        sg == IF Mgmt(r) THEN [sgroup[g] EXCEPT !.mgmt = (@ - 1) % CounterMod] ELSE sgroup[g]
        infos == IF request[r].kind = "io" /\ sg.num_ns
                 THEN [nsInfo[g] EXCEPT ![n].io = (@ - 1) % CounterMod] ELSE nsInfo[g]
    IN  /\ Up
        /\ request[r].at = "running"
        /\ request[r].kind # "connect" => ok
        /\ Finish(r, now)
        /\ AfterCount(g, sg, infos)
        /\ seen' = [seen EXCEPT
              !.leaks = @ \cup (IF request[r].kind = "opc0c" THEN {<<g, n>>} ELSE {}),
              !.late = IF accepted /\ sgroup[g].state = "inactive" THEN @ \cup {q} ELSE @ \ {q}]
        /\ UNCHANGED <<subsys, changer, crashed>>

(* An asynchronous event, or the abort of the AER. *)
CompleteAer(r) ==
    /\ Up
    /\ request[r].at = "parked"
    /\ Finish(r, qp[request[r].qp])
    /\ UNCHANGED <<subsys, change, sgroup, nsInfo, changer, crashed, seen>>

---------------------------------------------------------------------------
(* The walk of a state change over the poll groups *)

(* The handler of group g is to run: subsystem_state_change_on_pg. *)
OnGroup(g) ==
    /\ Up
    /\ change.on /\ change.at = g
    /\ ~sgroup[g].cb /\ ~sgroup[g].removing

(* poll_group_update_subsystem, when it has all channels: the slot of a    *)
(* namespace that is gone is zeroed.                                       *)
Updated(infos) ==
    [n \in Nsids |-> IF n \in subsys.ns THEN [infos[n] EXCEPT !.channel = TRUE] ELSE NoNsInfo]

(* A slot that is new in the group: it fails where there is no channel to  *)
(* be had, after the slots before it.                                      *)
NeedsChannels(g) == \E n \in subsys.ns : ~nsInfo[g][n].channel

Activated(infos) == [n \in Nsids |-> [Updated(infos)[n] EXCEPT !.state = "active"]]
Inactivated(g) ==
    IF sgroup[g].num_ns
    THEN [n \in Nsids |-> [nsInfo[g][n] EXCEPT !.state = "inactive"]] ELSE nsInfo[g]

(* nvmf_poll_group_add_subsystem: the list of queued requests is made anew. *)
AddSubsystem(g) ==
    /\ OnGroup(g)
    /\ change.to = "active" /\ subsys.state = "activating"
    /\ sgroup' = [sgroup EXCEPT ![g].state = "active", ![g].num_ns = TRUE, ![g].inited = TRUE]
    /\ nsInfo' = [nsInfo EXCEPT ![g] = Activated(nsInfo[g])]
    /\ request' = [r \in Requests |-> IF r \in Queued(g) THEN [request[r] EXCEPT !.at = "lost"]
                                      ELSE request[r]]
    /\ change' = Advance(FALSE)
    /\ UNCHANGED <<subsys, qp, changer, crashed, seen>>

(* The same without the memory for a channel: the group is cleared again   *)
(* by nvmf_poll_group_remove_subsystem and the walk ends.                  *)
AddSubsystemFails(g) ==
    /\ OnGroup(g)
    /\ change.to = "active" /\ subsys.state = "activating"
    /\ NeedsChannels(g)
    /\ sgroup' = [sgroup EXCEPT ![g].state = "inactive", ![g].num_ns = FALSE, ![g].inited = TRUE]
    /\ nsInfo' = [nsInfo EXCEPT ![g] = [n \in Nsids |-> NoNsInfo]]
    /\ request' = [r \in Requests |-> IF r \in Queued(g) THEN [request[r] EXCEPT !.at = "lost"]
                                      ELSE request[r]]
    /\ change' = Advance(TRUE)
    /\ UNCHANGED <<subsys, qp, changer, crashed, seen>>

(* nvmf_poll_group_pause_subsystem *)
PausedSlots(g) ==
    [n \in Nsids |-> IF sgroup[g].num_ns /\ (change.ns = AllNs \/ n = change.ns)
                     THEN [nsInfo[g][n] EXCEPT !.state = "pausing"] ELSE nsInfo[g][n]]

PauseGroup(g) ==
    /\ OnGroup(g)
    /\ change.to = "paused"
    /\ IF sgroup[g].state = "paused"
       THEN UNCHANGED <<sgroup, nsInfo>> /\ change' = Advance(FALSE)
       ELSE /\ nsInfo' = [nsInfo EXCEPT ![g] = PausedSlots(g)]
            /\ LET waits == \/ sgroup[g].mgmt > 0
                            \/ \E n \in Nsids : /\ sgroup[g].num_ns
                                                /\ change.ns = AllNs \/ n = change.ns
                                                /\ nsInfo[g][n].io > 0
               IN  /\ sgroup' = [sgroup EXCEPT ![g].state = IF waits THEN "pausing" ELSE "paused",
                                               ![g].cb = waits]
                   /\ change' = IF waits THEN change ELSE Advance(FALSE)
    /\ UNCHANGED <<subsys, request, qp, changer, crashed, seen>>

(* nvmf_poll_group_resume_subsystem: the slots are brought up to date and  *)
(* the queued requests are executed.  A request whose queue pair is gone   *)
(* is freed memory.                                                        *)
ResumeGroup(g) ==
    /\ OnGroup(g)
    /\ change.to = "active" /\ subsys.state = "resuming"
    /\ IF sgroup[g].state = "active"
       THEN UNCHANGED <<sgroup, nsInfo, request, qp, crashed>>
       ELSE LET sg == [sgroup[g] EXCEPT !.state = "active", !.num_ns = TRUE]
                infos == Activated(nsInfo[g])
                fate == [r \in Queued(g) |-> Fate(request[r], sg, infos)]
                starts == {r \in Queued(g) : fate[r] = "running"}
            IN  /\ sgroup' = [sgroup EXCEPT ![g] = CountMgmt(sg, starts)]
                /\ nsInfo' = [nsInfo EXCEPT ![g] = CountIo(infos, starts)]
                /\ request' = [r \in Requests |->
                      CASE r \notin Queued(g) -> request[r]
                        [] r \in Queued(g) /\ fate[r] = "idle" -> NoRequest
                        [] r \in Queued(g) /\ fate[r] # "idle" -> [request[r] EXCEPT !.at = fate[r]]]
                /\ qp' = [q \in Qpairs |->
                      IF \E r \in starts : request[r].kind = "connect" /\ request[r].qp = q
                      THEN Connecting(q) ELSE qp[q]]
                /\ crashed' = IF \E r \in Queued(g) : request[r].at = "stale"
                              THEN "request of a freed queue pair" ELSE "no"
    /\ change' = Advance(FALSE)
    /\ UNCHANGED <<subsys, changer, seen>>

(* The same without the memory for a channel: queued requests stay. *)
ResumeGroupFails(g) ==
    /\ OnGroup(g)
    /\ change.to = "active" /\ subsys.state = "resuming"
    /\ sgroup[g].state # "active"
    /\ NeedsChannels(g)
    /\ change' = Advance(TRUE)
    /\ nsInfo' = [nsInfo EXCEPT ![g] = [n \in Nsids |-> IF n \in subsys.ns THEN @[n] ELSE NoNsInfo]]
    /\ UNCHANGED <<subsys, sgroup, request, qp, changer, crashed, seen>>

(* nvmf_poll_group_remove_subsystem *)
RemoveGroup(g) ==
    /\ OnGroup(g)
    /\ change.to = "inactive"
    /\ sgroup' = [sgroup EXCEPT ![g].state = "inactive", ![g].removing = TRUE]
    /\ nsInfo' = [nsInfo EXCEPT ![g] = Inactivated(g)]
    /\ UNCHANGED <<subsys, change, request, qp, changer, crashed, seen>>

Members(g) == {q \in Qpairs : Live(q) /\ qp[q].group = g /\ qp[q].ctrlr}

(* nvmf_poll_group_remove_subsystem_msg: disconnect the queue pairs of the *)
(* subsystem; the message comes again until there is none.                 *)
RemoveQpairs(g) ==
    /\ Up
    /\ sgroup[g].removing
    /\ \E q \in Members(g) : qp[q].state = "active"
    /\ Disconnect({q \in Members(g) : qp[q].state = "active"})
    /\ UNCHANGED <<subsys, change, sgroup, nsInfo, changer, seen>>

RemoveDone(g) ==
    /\ Up
    /\ sgroup[g].removing
    /\ Members(g) = {}
    /\ sgroup' = [sgroup EXCEPT ![g].removing = FALSE, ![g].num_ns = FALSE]
    /\ nsInfo' = [nsInfo EXCEPT ![g] = [n \in Nsids |-> NoNsInfo]]
    /\ change' = Advance(FALSE)
    /\ UNCHANGED <<subsys, request, qp, changer, crashed, seen>>

---------------------------------------------------------------------------
(* Those who change a subsystem *)

IsEvent(k) == k \in {"hot_remove", "resize"}
Kind(o) == IF o = NoChanger THEN "nobody" ELSE changer[o].kind
SetPc(o, p) == [changer EXCEPT ![o].pc = p]

(* A slip: a namespace's own I/O is not waited for. *)
PauseNsidNone(o) == NoNs

(* The namespace id that is paused; a resize pauses none at first, but its *)
(* retry after -EBUSY is nvmf_ns_change_msg, which does.                   *)
PauseNsid(o) ==
    IF changer[o].kind = "listen" \/ (changer[o].kind = "resize" /\ changer[o].pc = "idle")
    THEN NoNs ELSE changer[o].ns

(* The I/O that is outstanding on a namespace, in any group. *)
OutstandingOn(n) == {r \in Requests : request[r].at = "running" /\ request[r].ns = n}

(* What the holder of a paused subsystem does to the namespaces:           *)
(* spdk_nvmf_subsystem_remove_ns, spdk_nvmf_subsystem_add_ns_ext.          *)
Edited(s, o, failed) ==
    CASE Kind(o) \in {"hot_remove", "remove_ns"} -> [s EXCEPT !.ns = @ \ {changer[o].ns}]
      [] Kind(o) = "add_ns" /\ ~failed -> [s EXCEPT !.ns = @ \cup {changer[o].ns}]
      [] OTHER -> s

(* spdk_nvmf_subsystem_resume from a callback, for owner. *)
ResumeFor(s, owner) ==
    /\ subsys' = Started(s, "active")
    /\ change' = WalkTo(s, "active", NoNs, owner)

(* The callback of a pause: an event edits the namespaces and resumes      *)
(* without waiting; an RPC waits for the resume; a listener RPC goes on    *)
(* when the transport has answered.                                        *)
OnPaused(s, o) ==
    CASE Kind(o) = "listen" ->
            subsys' = s /\ change' = NoWalk /\ changer' = SetPc(o, "listening")
      [] IsEvent(Kind(o)) ->
            ResumeFor(Edited(s, o, FALSE), NoChanger) /\ changer' = SetPc(o, "done")
      [] OTHER ->
            ResumeFor(Edited(s, o, FALSE), o) /\ changer' = SetPc(o, "resuming")

(* spdk_nvmf_subsystem_pause by an event or an RPC.  Where somebody else   *)
(* has paused the subsystem, the callback comes at once.                   *)
Pause(o) ==
    /\ Up
    /\ changer[o].pc \in {"idle", "retry"} /\ changer[o].kind \notin {"stop", "delete"}
    /\ changer[o].kind # "add_ns" => changer[o].ns \in subsys.ns \/ changer[o].pc = "retry"
    /\ ~subsys.destroyed
    /\ LET answer == Answer(subsys, "paused")
       IN  \/ /\ answer = "busy"
              /\ changer' = SetPc(o, IF IsEvent(changer[o].kind) THEN "retry" ELSE "done")
              /\ UNCHANGED <<subsys, change, crashed, seen>>
           \/ /\ answer = "same"
              /\ OnPaused(subsys, o)
              /\ seen' = [seen EXCEPT !.unpaused = @ \cup (subsys.ns \ subsys'.ns)]
              /\ UNCHANGED crashed
           \/ /\ answer = "started"
              /\ subsys' = Started(subsys, "paused")
              /\ change' = WalkTo(subsys, "paused", PauseNsid(o), o)
              /\ changer' = SetPc(o, "pausing")
              /\ UNCHANGED <<crashed, seen>>
           \/ /\ answer = "assertion"
              /\ crashed' = "state of the subsystem"
              /\ UNCHANGED <<subsys, change, changer, seen>>
    /\ UNCHANGED <<sgroup, nsInfo, request, qp>>

(* The retry of an event finds the subsystem freed. *)
PauseFreed(o) ==
    /\ Up
    /\ changer[o].pc \in {"retry", "listening"} /\ subsys.destroyed
    /\ crashed' = "freed subsystem"
    /\ UNCHANGED <<subsys, change, sgroup, nsInfo, request, qp, changer, seen>>

(* The transport has answered: nvmf_rpc_subsystem_listen and its likes.  A *)
(* resume that is refused is an error of the RPC.                          *)
Listened(o) ==
    /\ Up
    /\ changer[o].pc = "listening"
    /\ ~subsys.destroyed
    /\ LET answer == Answer(subsys, "active")
       IN  \/ answer \in {"busy", "same"} /\ changer' = SetPc(o, "done")
              /\ UNCHANGED <<subsys, change, crashed>>
           \/ answer = "started" /\ changer' = SetPc(o, "resuming")
              /\ subsys' = Started(subsys, "active")
              /\ change' = WalkTo(subsys, "active", NoNs, o)
              /\ UNCHANGED crashed
    /\ UNCHANGED <<sgroup, nsInfo, request, qp, seen>>

(* spdk_nvmf_subsystem_start and _stop by the application, and             *)
(* rpc_nvmf_delete_subsystem, whose stop is followed by the destruction.   *)
Start ==
    /\ Up
    /\ Answer(subsys, "active") = "started" /\ subsys.state = "inactive"
    /\ ~subsys.destroying
    /\ ResumeFor(subsys, NoChanger)
    /\ UNCHANGED <<sgroup, nsInfo, request, qp, changer, crashed, seen>>

StopFor(owner) ==
    /\ Answer(subsys, "inactive") = "started"
    /\ subsys' = Started(subsys, "inactive")
    /\ change' = WalkTo(subsys, "inactive", NoNs, owner)

Stop(o) ==
    /\ Up
    /\ changer[o].kind \in {"stop", "delete"} /\ changer[o].pc = "idle"
    /\ StopFor(o)
    /\ changer' = SetPc(o, "pausing")
    /\ UNCHANGED <<sgroup, nsInfo, request, qp, crashed, seen>>

---------------------------------------------------------------------------
(* The end of a walk *)

WalkEnded == Up /\ change.on /\ change.at > NumGroups

(* The change is over: what its owner does next.  s is the subsystem, in   *)
(* its new state and free for changes; failed says that it was reverted.   *)
OnResumed(s, o, failed) ==
    IF failed /\ Kind(o) = "add_ns" /\ changer[o].ns \in s.ns
    THEN /\ ResumeFor([s EXCEPT !.ns = @ \ {changer[o].ns}], o)
         /\ UNCHANGED changer
    ELSE /\ subsys' = s
         /\ change' = NoWalk
         /\ changer' = IF o = NoChanger THEN changer ELSE SetPc(o, "done")

Callback(s, o, failed) ==
    IF o # NoChanger /\ changer[o].pc = "pausing" /\ changer[o].kind \notin {"stop", "delete"}
    THEN OnPaused(s, o)
    ELSE OnResumed(IF Kind(o) = "delete" THEN [s EXCEPT !.destroying = TRUE] ELSE s, o, failed)

Settled(state) == [subsys EXCEPT !.state = state, !.changing = FALSE]

(* subsystem_state_change_done *)
ChangeDone ==
    /\ WalkEnded /\ ~change.failed /\ ~change.revert
    /\ Callback(Settled(change.to), change.owner, FALSE)
    /\ crashed' = IF MayMove(subsys.state, change.to) THEN "no" ELSE "state of the subsystem"
    /\ UNCHANGED <<sgroup, nsInfo, request, qp, seen>>

(* A slip: the walk that reverts is left out. *)
NoRevert ==
    /\ WalkEnded /\ change.failed /\ ~change.revert
    /\ subsys' = [subsys EXCEPT !.state = Intermediate(change.to, change.from)]
    /\ change' = [change EXCEPT !.to = change.from, !.failed = FALSE, !.revert = TRUE]
    /\ UNCHANGED <<sgroup, nsInfo, request, qp, changer, crashed, seen>>

(* A failed change is walked back to the state that it came from. *)
Revert ==
    /\ WalkEnded /\ change.failed /\ ~change.revert
    /\ subsys' = [subsys EXCEPT !.state = Intermediate(change.to, change.from)]
    /\ crashed' = IF MayMove(subsys.state, subsys'.state) THEN "no" ELSE "state of the subsystem"
    /\ change' = [change EXCEPT !.to = change.from, !.failed = FALSE, !.revert = TRUE, !.at = 1]
    /\ UNCHANGED <<sgroup, nsInfo, request, qp, changer, seen>>

(* subsystem_state_change_revert_done *)
RevertDone ==
    /\ WalkEnded /\ change.revert
    /\ Callback(Settled(change.to), change.owner, TRUE)
    /\ crashed' = IF MayMove(subsys.state, change.to) THEN "no" ELSE "state of the subsystem"
    /\ seen' = [seen EXCEPT !.unpaused = @ \cup (subsys.ns \ subsys'.ns)]
    /\ UNCHANGED <<sgroup, nsInfo, request, qp>>

(* _nvmf_subsystem_destroy: its message comes again until there are no     *)
(* controllers, and then the namespaces and the subsystem are freed.       *)
Destroyed ==
    /\ Up
    /\ subsys.destroying /\ ~subsys.destroyed
    /\ \A q \in Qpairs : Live(q) => ~qp[q].ctrlr
    /\ subsys' = [subsys EXCEPT !.ns = {}, !.destroyed = TRUE]
    /\ UNCHANGED <<change, sgroup, nsInfo, request, qp, changer, crashed, seen>>

SubsystemNext ==
    \/ \E q \in Qpairs : LoseQpair(q) \/ \E g \in Groups : AddQpair(q, g)
    \/ \E r \in Requests, q \in Qpairs, k \in Kinds, n \in Nsids \cup {NoNs} : Execute(r, q, k, n)
    \/ \E r \in Requests : RetryConnect(r) \/ CompleteAer(r) \/ \E ok \in BOOLEAN : Complete(r, ok)
    \/ \E g \in Groups : AddSubsystem(g) \/ AddSubsystemFails(g) \/ PauseGroup(g)
                         \/ ResumeGroup(g) \/ ResumeGroupFails(g)
                         \/ RemoveGroup(g) \/ RemoveQpairs(g) \/ RemoveDone(g)
    \/ \E o \in Changers : Pause(o) \/ PauseFreed(o) \/ Listened(o) \/ Stop(o)
    \/ Start
    \/ ChangeDone \/ Revert \/ RevertDone \/ Destroyed

SubsystemSpec == SubsystemInit /\ [][SubsystemNext]_subsystemVars

---------------------------------------------------------------------------
(* Properties *)

(* The variables keep their types, and every counter fits. *)
SubsystemTypeOK ==
    /\ subsys \in [state : SubsystemStates, changing : BOOLEAN, ns : SUBSET Nsids,
                   destroying : BOOLEAN, destroyed : BOOLEAN]
    /\ change \in [on : BOOLEAN, from : SubsystemStates, to : SubsystemStates,
                   ns : Nsids \cup {NoNs, AllNs}, at : 1 .. NumGroups + 1, failed : BOOLEAN,
                   revert : BOOLEAN, owner : Changers \cup {NoChanger}]
    /\ sgroup \in [Groups -> [state : SubsystemStates, mgmt : 0 .. CounterMod - 1,
                              cb : BOOLEAN, num_ns : BOOLEAN, removing : BOOLEAN,
                              inited : BOOLEAN]]
    /\ nsInfo \in [Groups -> [Nsids -> [state : SubsystemStates, io : 0 .. CounterMod - 1,
                                        channel : BOOLEAN]]]
    /\ qp \in [Qpairs -> [state : {"none", "active", "deactivating", "freed"}, group : Groups,
                          ctrlr : BOOLEAN, received : BOOLEAN]]
    /\ request \in [Requests -> [at : {"idle", "queued", "stale", "lost", "retrying", "running",
                                       "parked"},
                                 qp : Qpairs, kind : Kinds, ns : Nsids \cup {NoNs}]]
    /\ changer \in [Changers -> [kind : AllKinds, ns : Nsids,
                                 pc : {"idle", "retry", "pausing", "listening", "resuming", "done"}]]
    /\ seen.late \subseteq Qpairs /\ seen.unpaused \subseteq Nsids

(* Once no change is under way, every poll group is in the state of the    *)
(* subsystem, also when the change had failed on one of them and was       *)
(* reverted; groups do not disagree about whether requests may run.        *)
GroupsAgree ==
    Up /\ ~subsys.changing => \A g \in Groups : sgroup[g].state = subsys.state

(* A group that makes a pause wait has something left to wait for, so that *)
(* the last completion ends the pause and no wake-up is missed; and only   *)
(* the group where the walk is makes it wait.                              *)
WaitsForSomething ==
    Up => \A g \in Groups : sgroup[g].cb =>
        /\ sgroup[g].state = "pausing"
        /\ change.on /\ change.at = g
        /\ ~Quiet(sgroup[g], nsInfo[g])

Running(g, K, n) ==
    {r \in Requests : /\ request[r].at = "running" /\ GroupOf(r) = g
                      /\ request[r].kind \in K /\ request[r].ns = n}

(* The counters that pauses wait for are those of the requests that the    *)
(* group has outstanding, over queueing, resumes, disconnects and removals *)
(* of namespaces.  Exceptions: a command with an AER's opcode on an I/O    *)
(* queue stays counted, and a namespace that was not paused when it was    *)
(* removed loses its count.                                                *)
CountersExact ==
    Up => \A g \in Groups :
        /\ sgroup[g].mgmt = Cardinality(Running(g, {"connect", "admin"}, NoNs))
        /\ \A n \in Nsids \ seen.unpaused : <<g, n>> \notin seen.leaks =>
             nsInfo[g][n].io = Cardinality(Running(g, {"io", "opc0c"}, n))

(* A namespace leaves its subsystem, and its bdev is closed, only when no  *)
(* I/O is outstanding on it in any group.  Exceptions: a pause shared with *)
(* somebody else, who has paused other namespaces or none, and the removal *)
(* after a resume that was reverted: the walk back pauses no namespace.    *)
RemovedQuiet ==
    [][\A n \in subsys.ns \ subsys'.ns :
            OutstandingOn(n) = {} \/ n \in seen'.unpaused]_subsystemVars

(* A subsystem that is inactive has no queue pairs, except those whose     *)
(* connect was accepted after their group had removed the subsystem.       *)
InactiveHasNoQpairs ==
    Up /\ subsys.state = "inactive" /\ ~subsys.changing =>
        \A q \in Qpairs : Live(q) /\ qp[q].ctrlr /\ qp[q].received =>
            q \in seen.late \/ \E r \in Requests : /\ request[r].qp = q /\ request[r].at = "running"
                                                /\ request[r].kind = "connect"

(* What holds of a subsystem when no change is under way. *)
SettledSubsystem == GroupsAgree /\ InactiveHasNoQpairs

(* What a pause relies on: exact counters, and something to wait for. *)
PauseAccounting == CountersExact /\ WaitsForSomething
=============================================================================
