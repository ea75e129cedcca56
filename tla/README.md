# sump in TLA+

sump (SPDK userspace multi-path) is a library that is preloaded into an SPDK
application. It replaces `spdk_bdev_register`, groups the bdevs that carry one
uuid into an `ump_bdev`, and sends each I/O to one of their paths, failing over
to another path and failing back when the first recovers. The repository also
carries the two SPDK modules it is used with: `nvme/` (the initiator, with
changes for sump) and `nvmf/` (the target).

This directory holds TLA+ models of that code, the TLC runs that check them and
the TLAPS proofs about them. `PROJECT.json` is the index: components, runs,
mutants, the map from definitions to source lines, findings, hazards, theorems.

## Inventory

| Component | State | Operations | What makes it correct |
|---|---|---|---|
| I/O path (`sump_data.c`, `sump_ctrl.c`) | `bdev_io->internal.cb`, the completion context, `iopath->available` | submit, completion callback | each I/O answered once; dispatch to an available path; lost only without one |
| failback (`sump_ctrl.c`) | `reconnecting`, `reconnect_poller`, the failback context | start, poll, probe completion | a path out of service is being brought back; no use of freed memory; probes leave the data alone |
| selectors and statistics (`sump_ctrl.c`, `sump_util.c`) | round-robin `turn` (one for the process), `io_incomplete`, latency queues | six selectors, latency update, periodic reset | counters count what they claim; policies balance; no path is left out |
| registry and channels (`sump.c`, `sump_ctrl.c`) | `ump_bdev_list`, `g_ump_bdev_channels`, `io_count_poller`, `count[]` | register, add path, create and destroy channel | one ump_bdev per uuid; ids are positions; freed entries are unreachable; every channel's statistics go on being reset |
| NVMe controller (`nvme/bdev_nvme.c`) | `resetting`, `reconnect_is_delayed`, `destruct`, `ref`, trids | reset, failover, delayed reconnect, destruct | one reset at a time; unregistered once, by the last of its users |
| NVMe I/O paths (`nvme/bdev_nvme.c`) | `current_io_path`, `retry_io_list`, ANA states | find path, complete, retry, abort, ANA log page, add and remove paths | the cached path is current; a queued I/O comes due |
| NVMe discovery service (`nvme/bdev_nvme.c`) | `g_discovery_ctxs`, entries, `in_progress`, `pending` | start, stop, poller, log page, attach, AER, end of the module | the attached controllers follow the log page; a start is answered |
| NVMe-oF subsystem (`nvmf/subsystem.c`, `nvmf.c`) | `state`, `changing_state`, per-group copies and counters | start, stop, pause, resume, revert, destroy; namespace and listener RPCs, bdev events | groups agree when nothing changes; a namespace leaves without outstanding I/O |
| NVMe-oF reservations (`nvmf/subsystem.c`) | registrants, holder, type, per-group copies, the power-loss file | register, acquire, preempt, release, clear, restore | what was answered is enforced in every group, and persists |
| NVMe-oF queue pairs and controllers (`nvmf/nvmf.c`, `ctrlr.c`) | qpair state, `disconnect_started`, qid mask, timers | connect, disconnect, CC writes, keep alive, association timer | the mask is what is attached; freed once, when unused |
| TCP and RDMA transports (`nvmf/tcp.c`, `rdma.c`) | request states, buffers, PDUs, receives, queue depths | request state machines, drain, abort | every buffer, PDU and receive comes back |
| FC transport (`nvmf/fc.c`, `fc_ls.c`) | nports, remote ports, associations, connections; exchanges and hardware queues | LS requests, deletions, commands, ABTS, port failure | deletions end and everyone who waits is answered; the answer to an ABTS is true |
| vfio-user transport (`nvmf/vfio_user.c`) | endpoint and controller states, queues, mappings, doorbells | attach, quiesce, migrate, create and delete queues, reset, poll | every pause and loss ends; queue references add up; no command is slept through |

How they interact. The NVMe module calls `spdk_bdev_register` (hijacked) for
each namespace; the bdev layer, or the NVMe-oF target above it, opens a channel
per thread and submits I/Os through `umplib_fn_table`; sump puts its own
completion callback into the I/O and passes the *same* `spdk_bdev_io` to the
NVMe module's `submit_request`; the completion comes back on the same thread,
which either calls the wrapped callback or marks the path, starts the path's
failback poller and submits the I/O again. In the target, a transport builds
requests out of what a host sends and passes them to `ctrlr.c`, which counts
them in the subsystem's poll group and executes or queues them; a subsystem
changes state by a walk over the poll groups that waits for those counts.

Hard behaviours: completions in any order, failures of an I/O on several paths
in turn, late failures after a recovery, probes that outlive their period,
channels destroyed under running pollers, error paths that free what is still
linked, registrations while channels are open, counters that wrap; walks over
threads that meet channels which come and go; state changes that fail half-way;
deletions that meet deletions; hosts and guests that act between two steps of a
handler's message. `PROJECT.json` lists each at its line.

## Modules

| Module | Models | Notes |
|---|---|---|
| `SumpSelect` | the selectors, as operators | paths are named by id; list order is id order |
| `SumpIo` | one channel: submit, complete, fail over, fail back, destroy | extends `SumpSelect` |
| `SumpData` | `SumpIo` with the blocks that I/Os and probes write | extends `SumpIo` |
| `BlockDevice` | the abstract device above the channel | refined by `SumpData` (`DeviceSpec`) |
| `SumpRegistry` | registration, channel lists, the count pollers, over threads | pollers are told apart by thread and number |
| `SumpBalance` | round-robin turn, `io_incomplete`, latency queues of one channel | extends `SumpSelect`; `OtherDispatch` is any other channel's use of the turn |
| `NvmeCtrlr` | one NVMe controller: resets, delayed reconnects, destruction, channels of several threads | |
| `NvmeIoPath` | one channel of a multipath NVMe bdev: path choice, cache, retries, ANA states, and I/Os that sump wraps | sees of a controller what the choice reads |
| `NvmeDiscovery` | the discovery services, their log pages and the controllers they attach | |
| `NvmfSubsystem` | a subsystem, its poll groups, queue pairs and requests, and who changes it | |
| `NvmfReservation` | reservations of a namespace, the groups' copies, the file, power losses | |
| `NvmfCtrlr` | a controller of the target with its queue pairs, on three kinds of threads | |
| `NvmfTcp` | the queue pairs of a TCP poll group | |
| `NvmfRdma` | the queue pairs of an RDMA poller, with own or shared receives | |
| `NvmfFc` | nport, remote ports, associations, connections | |
| `NvmfFcReq` | the commands, exchanges and buffers of the hardware queues | |
| `NvmfVfioUser` | an endpoint, its controller and its clients: quiesce, migration, loss | |
| `NvmfVfioQueue` | the queues of a controller under resets, memory removal and migration | |
| `NvmfVfioDoorbell` | doorbells, event index and interrupts between guest and poll group | |
| `SumFacts`, `SumpIoProofs`, `SumpProofs`, `NvmeProofs`, `NvmfSubsystemProofs`, `NvmfTargetProofs`, `NvmfVfioProofs`, `NvmfFcProofs` | the theorems and the facts they rest on | |
| `MCSump`, `MCNvme`, `MCNvmfTarget`, `MCNvmfTransports` | components that share no state, checked in one run: `part` says which one moves | values for TLC in their `.cfg` |
| `MCSumpIo`, `MCSumpData`, `MCSumpRegistry`, `MCNvmeCtrlr` | values for TLC | |

Correspondence. A handler is one action, because a channel lives on one SPDK
thread and a handler runs to completion; the failover's tail call to
`ump_bdev_submit_request` is part of `CompleteFail`. `stage` is where the I/O is
(`lost`: nobody will complete it), `owed` counts the callbacks the upper layer
still waits for, `cb` and `ctx` are the callback in the bdev_io and the context
it points at, `available`, `reconnecting`, `poller` and `failback` are the
iopath's fields and its failback context, `probes` the submissions of the copied
bdev_io that are out. The undefined behaviour that the code can run into (NULL
path, NULL context, division by zero, use after free) ends the process: `fault`
names it and no action is enabled any more. `overlapped` and `relapsed` (`SumpIo`),
`replayed`, `failed`, `acked` (`SumpData`),
`failures`, `coexisted` and the `poller` of a channel (`SumpRegistry`), `completed`,
`failed` and `waits` (`SumpBalance`) are history variables, read by properties only.

`NvmeCtrlr` is a program of callbacks on several threads. Each handler takes the
controller's mutex once, so it is one step; what happens between handlers
(messages of `spdk_for_each_channel`, pollers, the disconnect of a qpair) is
where the others come in. A reset is a chain of handlers: the token `s` has in
`task[s]` the handler that runs next, the thread it has walked to (`at`) and
whether the reset goes well (`ok`). `qpair[t]` is the channel of thread `t` and
its qpair, `iter[t]` its `reset_iter`, `orphans[t]` the qpairs that outlived
their channel, `ns.tree` and `ns.bdev` the namespaces in the red-black tree and
those with a bdev, `ctrlr` the fields under the mutex. Two fields are no fields of
the code: `ctrlr.asserted` records that the assertion at `bdev_nvme.c:2178` failed,
which ends a process built with assertions (a build without them is not
modelled past that point), and `ns.late` is history.

From here on one thread's state is often one record, so that a function of the
code is an operator from a state to the next, and a handler that calls several
of them is their composition: `np` of `NvmeIoPath`, `dv` of `NvmeDiscovery`,
`tcp`, `rdma`, `vfu`, `vq`, `db`, `fc`, `fcr` of the transports. `left` is what
the environment may still do (I/Os, losses, resets, failures): each value of a
`...Mixes` constant is such an allowance, and an initial state. `crash` names a
failed assertion, a NULL dereference or a use of freed memory, after which
nothing runs; `seen`, `did`, `late`, `lost` and the like are history.

* `NvmeIoPath`: `np.ch` has `io_path_list`, `current_io_path`, `rr_counter`,
  `retry_io_list` and the time its poller is armed for; an I/O is with its upper
  layer, waiting for a buffer, out on a path, being read again, or waiting for a
  retry. `gen` counts the io_paths that a namespace has had, which tells a freed
  one from its successor. `wrapped` says that the I/Os come from sump.
* `NvmeDiscovery`: `in_progress`, `pending`, `initializing`, `attach_in_progress`
  and the callbacks owed are fields of the service's record; the timed poller's
  branches are the `Poll...` actions.
* `NvmfSubsystem`: `change` is the context of a state change and the group that its
  walk visits next; `sgroup[g]` and `nsInfo[g][n]` are the group's copies with
  their counters, which wrap; `changer[c]` is an RPC or a bdev event with the step
  it waits at. A request says where it is: queued, running, answered.
* `NvmfReservation`: `resNs` belongs to the subsystem's thread, `resCopy[g]` to the
  poll groups, `resFile` is the file. A power loss keeps the file only, and may
  tear the one that is being written.
* `NvmfCtrlr`: `toSubsys` and `toCtrlr` are the messages to the two threads, in
  order; `ncWalk` the walks of the keep alive and of a reset. A disconnect on another
  thread is three steps (`moved`): `disconnect_started` is set, cleared with the message
  sent, and the message arrives; while it is set the own thread's disconnect does nothing.
* `NvmfTcp`, `NvmfRdma`: the request's state is the code's enumeration without the
  transient ones; lists are sequences where the code relies on their order.
* `NvmfFc`: pending deletions with the callbacks that they owe; `NvmfFcReq`: a
  command with its exchange, buffer and aborts, and the messages to hardware queues.
* `NvmfVfioUser`: endpoint, controller (`running`, `pausing`, `paused`, `resuming`),
  pending quiesce and free messages; `NvmfVfioQueue`: queue states, mappings,
  reference counts and the library's queue pair; `NvmfVfioDoorbell`: the two
  index pairs, the shadow doorbell and the event index, and where the poll group
  is in its rearm loop.

Definitions commented as *slips* are not the code: each is a mapped definition
with one plausible mistake in it, with which the property it belongs to is
violated. They show that no property holds by the shape of the model.

## Runs

| Run | Result | Shows |
|---|---|---|
| `data_safe` | pass | with every path fallible, failing allocations and overlapping probes: one answer per I/O (`ExactlyOnce`), loss only with no path left (`LostOnlyWithoutPath`), a path out of service is supervised unless it had recovered before and failed again, and none in service is probed (`FailedPathsSupervised`), causes of use after free (`FreedOnlyWhenOverlapped`), dispatch never back to the failed path (`DispatchedToAvailable`); failover loses no acknowledged write (`CurrentUnlessReplayed`), refinement of `BlockDevice` (`DeviceSpec`) |
| `io_live` | pass | with one reliable path, I/Os complete and a path under failback comes back, unless an allocation fails (`EveryIoCompletes`, `FailbackRecovers`) |
| `io_recovery` | violation | a second failure of a path is never recovered: `reconnecting` is not reset |
| `data_probe` | violation | the probe repeats a write over newer acknowledged data |
| `sump` | pass | one ump_bdev per uuid, ids that are positions, distinct replicas (`RegistryShape`); closing a channel unregisters whichever poller `io_count_poller` points at, yet every linked channel keeps a poller of its thread, and pollers are leaked or mistaken only after channels were linked together or a creation failed (`CountPollers`); the causes of each fault (`FaultsHaveCauses`); latency queues describe their lists; queue length balances until a path fails (`QueueLengthBalances`); round robin leaves no path out for a round, but behind a path out of service or while other channels take the turn (`RoundRobinReachesAll`) |
| `incomplete` | violation | `io_incomplete` is not the number of uncompleted I/Os, as `sump.h:226` says: a failure does not decrement it |
| `registry_paths` | violation | a new path reaches the first channel only |
| `ctrlr_safe` | pass | every kind of controller (fabrics or PCIe, with and without reconnect delay and loss timeout), two threads: references add up (`RefCounts`), one chain at a time (`OneResetAtATime`), a parked walk is continued exactly once (`ParkedIsContinued`), the controller is unregistered once and when nothing uses it (`UnregisteredUnused`). A channel's retries are in order and come due, its cached path is current and in the end an optimized one (`PathsServeIos`). Discovery follows the log page, ends what it begins and answers its start, and each fault has one of the named causes (`DiscoveryFollows`) |
| `ctrlr_live` | pass | a reset I/O that started a reset is answered; a destructed controller is deleted, with the exceptions that the property names |
| `ctrlr_pending` | violation | a reset I/O queued behind the walk that ends the pending ones is left in its channel |
| `target` | pass | poll groups agree with the subsystem when nothing changes it, and an inactive one has no queue pairs (`SettledSubsystem`); a group's counters are exact and a pause that waits has something to wait for (`PauseAccounting`); a namespace leaves with no I/O outstanding on it (`RemovedQuiet`); reservations are sound and enforced in every group once answered (`ReservationEnforced`); losers are told and the file restores what was (`ReservationSteps`); a controller's mask is what is attached to it, it is freed when unused, and an expired one leaves nothing (`ControllerLife`); each with the exceptions that it names |
| `transports` | pass | TCP and RDMA: buffers, PDUs, receives and depths are accounted for, queues hold who waits, data is checked, fused commands are in sequence, deletions of FC associations end and are answered (`TransportRequests`); vfio-user: a pause, a migration and a loss end (`VfuLife`), references on completion queues add up, a migration keeps the queues (`QueueLife`), no poll group sleeps over a command (`WakesUp`); FC: ABTS are answered truly, aborts end, resources come back (`FcCommands`) |

The runs of several components are one state space per component, one after
the other: `part` is chosen at the start and the other components keep an
initial state. None of their properties relates two parts.

Bounds, and why they are enough.

* `SumpData_safe`: two paths (failed, other), so that an I/O fails over and then finds
  none left, and a path fails again after its recovery; two I/Os give a late failure and
  a reused buffer; two probes overlap; three writes let an extent be written, failed
  over and written again. Requests: one for each path by hash, one that no path
  serves, one without blocks. I/Os are symmetric. Longer failovers are left to the proofs,
  which hold for up to four paths.
* `SumpIo_live`, `SumpIo_recovery`: no symmetry (liveness); `MaxProbes = 1`
  says that a probe is answered within a poll period.
* `Sump`, registry: two threads, three bdevs of one uuid and one of another, so
  that lists have neighbours and a uuid has company. `CountSlots` is 2 where the
  code has 4, so that three paths overflow; two pollers
  on each thread (`MaxPollers`) let two channels of a thread be linked, on one of which
  the other's poller is unregistered; the bound also stops channels that are opened and
  closed for ever while their pollers leak.
* `Sump`, statistics: three paths, a window of 2 instead of 20, counters modulo 8
  instead of 2^64 with three I/Os, so that windows slide and counters wrap downwards. Another
  channel has up to four paths (`OtherPaths`), one more than this one, so that it
  leaves the turn past this channel's list. `SumpBalance_incomplete`: one failure is enough.
* `Nvme`, controller: two threads, so that a walk has a thread behind it and one in
  front of it when a channel opens, closes or loses its qpair; one namespace, so
  that the last one is removed; one reset I/O next to the resets that anybody may
  request; two tokens, one for the chain and one for the chain that must not be.
  `MaxOrphans = 1` closed channel per thread whose qpair still disconnects.
  `ns.late` lets a namespace be added during the destruction once.
* `Nvme`, I/O paths: two paths, the fewest with a choice, and two I/Os, so that a
  retry list has an order; two retries, so that one is left and none is. Each
  value of `PathMixSet` gives some kinds of events and leaves out others: what
  meets is a loss with an ANA event, a retry with an abort and a setting, a
  buffer with a removal, a wrapped I/O with a loss.
* `Nvme`, discovery: two services on two paths, so that both find the same one;
  up to three changes of the log page, so that one comes while another is
  handled and one while the entries are attached.
* `NvmeCtrlr_live`: one thread (the orders on two are in `ctrlr_safe`; the liveness
  graph of two is too large). `NvmeCtrlr_pending`: two threads, since the walk must
  have left the channel on which the reset I/O arrives.
* `NvmfTarget`, subsystem: two poll groups, so that a walk fails behind a group that
  it has changed; an admin and an I/O queue pair, two requests; four pairs of
  changers out of the seven kinds, chosen so that each meets one that it competes
  with. Counters wrap at 4, more than the requests there are.
* `NvmfTarget`, reservations: three hosts, one of which holds a registration from
  the file only; two groups; room for two registrants, so that there is one too
  many; three commands (register, acquire, preempt), one power loss; types 1, 4
  and 5 stand for the exclusive, registrants-only and all-registrants ones.
* `NvmfTarget`, controller: two I/O queue pairs that ask for the same id, on another
  group than the admin queue; one reset or shutdown.
* `NvmfTransports`: per transport, the fewest actors that compete. TCP: two queue
  pairs, one buffer, one control message; RDMA: queue pairs of depth two and
  one, or two shared receives; vfio-user: two clients one after the other, two
  queues, a ring of four; FC: two remote ports, two associations, two hardware
  queues with one or two exchanges and one buffer each. The mixes are commented in
  `MCNvmfTransports`.

`CHECK_DEADLOCK FALSE` everywhere: the process may have ended (`fault`, `crash`), the
channel may be destroyed, and the bounds stop submissions.

Fairness (`SumpIo!Fairness`). The NVMe module completes each command it
accepted, successfully or not (weak fairness of the completion); the SPDK thread
runs its timed pollers for ever (weak fairness of the poll and of the probe's
answer); a link probed for ever is up for one of the probes (strong fairness of
`ProbeOk`). Nothing is assumed about submissions, and nothing about whether an
I/O succeeds: that it completes follows from the path that does not fail.

`NvmeCtrlr!Fairness`. Messages are delivered and pollers run (weak fairness of each
chain, of the ANA log page's and the cache walk's completion, of the deletion
when the io_device is free); the library reports the disconnect of a qpair that
was asked for it (weak fairness of `QpairDisconnected` under `iter[t] # None`, and
of `OrphanDisconnected`), while a qpair in use need never fail. Of the users above
it is assumed that, once the controller is being destructed, they close their
channels, and do not open new ones so often that the bdev never sees none open
(strong fairness of `BdevDestruct`): the bdev layer tells them of the hot removal.

The other modules state what must not be left behind as an invariant of the
states in which nothing is under way, which needs no fairness.

## What the models show besides

Each of these is reachable in a model, and is named there (as a value of
`crash`, or as the exception that a property makes); the repository states no
wish about most of them, so no run expects a violation.

* `NvmeIoPath`. With sump, an NVMe error that asks for a retry puts the I/O on the
  *ump* channel's `retry_io_list`, which is never initialised; completions of
  wrapped I/Os clear the ump channel's copy of `current_io_path`, so that the NVMe
  channel keeps a lost path cached until the driver reports the disconnect. An io_path whose
  namespace is removed is freed under an I/O that is out, waits for a buffer or
  for a retry. A clearing of the caches that finds another under way is left out.
  `any_io_path_may_become_available` always answers false, so that an I/O without
  a path fails although its controller reconnects.
* `NvmeDiscovery`. Stopping a service while it attaches frees entries that the
  attach still uses. After a log page that could not be read the service is deaf.
  A first page that names nothing to attach never answers the start. When two
  services attached one path, stopping one deletes the controller of both.
* `NvmeCtrlr`. A qpair lost while the reset creates qpairs is not noticed until
  the next reset; a reconnect sets the loss timeout to 0.
* `NvmfSubsystem`. Pauses are not counted: who finds the subsystem paused by somebody
  else gets its callback at once, and may remove a namespace with I/O outstanding.
  A resume by one may restart what another has stopped. Queues that wait are lost
  when a namespace is added; a connect may be accepted after its group has
  removed the subsystem.
* `NvmfReservation`. A preempt without a holder tells nobody. Registrants without
  a reservation, or a holder that replaced its key, make the file impossible to
  restore.
* `NvmfCtrlr`. A connect of an I/O queue, and the timeout of a reset, use the admin
  queue pair after it has gone; a moved disconnect may find its queue pair freed, and
  the expiry of the keep alive timer leaves a queue pair alone whose disconnect another
  thread has begun.
* `NvmfTcp`. A stale pointer to a fused first command pairs it with another; data whose
  digest failed are executed when the R2T's write completes behind them; a request with a wrong SGL that stays at the head of the
  buffer queue. `NvmfRdma`: receives of a dead connection never go back to the shared
  queue; an aborted request is not processed further; several receives put back
  at the head are taken in the wrong order.
* `NvmfFc`, `NvmfFcReq`. A connection that has no hardware queue yet is deleted through
  a NULL pointer; a remote port that logs in late keeps its nport for ever; on a
  dead port a command may be completed twice. An event request that still waits for
  an exchange when its connection is deleted is passed over ("AER will be cleaned by
  spdk_nvmf_qpair_disconnect", `fc_ls.c:1527`, but the library has not got it yet): it
  stays in the hardware queue's pending list, is executed on the deleted connection
  later, and an ABTS for it is rejected meanwhile (`"left behind"` in `wrong`).
* `NvmfVfioUser`, `NvmfVfioQueue`, `NvmfVfioDoorbell`. The endpoint is freed with messages
  to it pending; a refused pause is never answered; a completion queue's reference
  is dropped twice when a reset meets the deletion of its submission queue; a
  suppressed interrupt may never be sent after the indices wrap exactly.

## What is proved

Each module below states theorems about the specification that the runs check,
for every value of its constants that the `ASSUME`s allow. The assumptions are those
that the modules declare; TLC evaluates them in the runs. Where a property is
not inductive, the theorem rests on an invariant that is; what it adds is why the
property holds. Every such invariant was checked by TLC before it was proved (all but
`LoadIsSubmitted`, a sum that TLC cannot evaluate).

| Module | About | Proves |
|---|---|---|
| `SumFacts` | | sums over finite sets and over functions: one element changes, moves, joins or leaves |
| `SumpIoProofs` | `SumpIo`, `SumpData` | `ExactlyOnce`, `LostOnlyWithoutPath`, `FailedPathsSupervised`, `FreedOnlyWhenOverlapped`, `DispatchedToAvailable`; `CurrentUnlessReplayed`; `DataSpec => DeviceSpec` |
| `SumpProofs` | `SumpRegistry`, `SumpBalance`, `MCSump` | `RegistryShape`, `CountPollers`, `FaultsHaveCauses`; `QueuesDescribeTheirLists`, `IncompleteAccounting`, `QueueLengthBalances`, `RoundRobinReachesAll`; `SumpTypeOK` |
| `NvmeProofs` | `NvmeCtrlr`, `NvmeDiscovery`, `NvmeIoPath`, `MCNvme` | `OneResetAtATime`, `ParkedIsContinued`, `RefCounts`, `UnregisteredUnused`, `TypeOK`; `DiscoveryFollows`; `PathsServeIos` |
| `NvmfSubsystemProofs` | `NvmfSubsystem` | `SettledSubsystem`, `PauseAccounting`, `RemovedQuiet` |
| `NvmfTargetProofs` | `NvmfCtrlr`, `NvmfReservation`, `MCNvmfTarget` | `ControllerLife`; `ReservationEnforced`, `ReservationSteps`; `TargetTypeOK` |
| `NvmfVfioProofs` | `NvmfVfioDoorbell`, `NvmfVfioQueue`, `NvmfVfioUser` | `WakesUp`, `QueueLife`, `VfuLife` |
| `NvmfFcProofs` | `NvmfFcReq` | `FcCommands` |

*The I/O path of sump.* For 1 to 4 paths (the size of `count[]`), any set of I/Os
and requests, any bound on probes, with or without failing allocations. `IndInv`
adds `WrappedOnce` (the wrapped callback is always the upper layer's, and an I/O in
flight has a path) and `FailbackPhases` (a failback goes from none through a
live context with a running poller to a freed one with a paused poller, and while
probes have not overlapped at most one is out, none once the context is freed).
Without `WrappedOnce` the completion might call ump's own callback; without
`FailbackPhases` a probe might be out on a freed context. The division in the hash
matters only in that its remainder is a path. Every step of `SumpData` is a step
of `SumpIo`, so this carries over; `CurrentUnlessReplayed` needs `FailbackOfFailed` (a
failback context belongs to a transfer that failed), and the refinement of
`BlockDevice` maps `status = pending` to the I/O being owed, one lemma per action
naming the abstract step.

*The registry.* For any number of threads, bdevs, channels and errors. To
`OneMbdevPerUuid`, the invariant adds `BdevsOnce` (no list names a bdev twice) and, for each
channel, that its paths are bdevs of an allocated `ump_bdev` of its uuid
(`ServedBy`) and distinct (`PathsOnce`): a registration compares the new bdev with the
`ump_bdev` and not with the channel, so that a channel's paths are distinct only
because they come from there. `FreedHasCause` says which error left something freed
in a list, from which `FaultsHaveCauses` follows. The paths of a channel are bdevs
that `ump_bdev_channel_create_cb` could open, `SelectSeq` of a list; what is needed
of it (its elements are the list's, each once) is proved without induction over the list.
`CountPollers` rests on an injection (`PollersSound`): each linked channel can be given a
registered poller of its thread, no two the same one. The close of a channel takes one
away from one of the thread's channels, which may be another's: that one then gets what
the closed channel had. A channel that was never linked beside another has the only poller
(`AloneSound`), from which the causes follow.

*Statistics and selectors.* `IncompleteAccounting` rests on `LoadIsSubmitted` (the sum
over the paths of the I/Os that are out is at most those submitted), so that the
counters that wrap are those of the sum; `QueuesSound` describes a latency queue by
its list for every window; `IncompleteAccounting` says what `io_incomplete` counts
instead of what `sump.h:226` claims (the run `incomplete`): under queue length the I/Os out on a path and
those that ever failed there, under any other policy minus the successes. For
`RoundRobinReachesAll`, the choices a path has waited and those until the turn
comes to it add up to at most `NumPaths` (`WaitsBounded`), wherever another channel leaves the
turn. `Balanced` alone has a hypothesis, `MaxIos < CounterMod`: with a counter
that wraps, queue length does not balance (the code has 2^64).
`PartsImplemented` says that the composition behaves in each part as that
part's module does, so that what is proved of the parts holds of what is run.

*NVMe controllers.* For any number of threads, namespaces, reset I/Os, tokens and
any set of kinds of controllers. `IndInv` holds `OneResetAtATime` and
`ParkedIsContinued` together with `StartedWhileActive` (while a chain runs
`reset_start_tsc` is set, and when it is set without `resetting` on a living
controller, the controller has a reconnect delay), which says where a second
reset can slip in and that the assertion stops it there; `WaitedQpairIsLive` (a
channel that holds a walk has a live qpair), without which closing a channel
whose qpair is gone would forget a walk; `ParkedAtThread`. The handlers are sorted
by what they do to the chains (`ChainStep`, `ChainBegins`, `WalkContinued`, `OtherStep`),
each kind is proved once. `RefCounts` is restated as a sum (`RefIsSum`: the
attachment, the namespaces held, one for each thread's channel or qpair, the orphans),
and each action moves one term: a namespace is held once by the tree and
the bdev together, so the release belongs to whoever leaves last. That a counter
which five places decrement is never negative follows from its being a sum.
`UnregisteredUnused` needs in addition which phase of its life a controller is in.

*Subsystems of the target.* For any number of poll groups, namespaces, queue pairs,
requests and changers, with counters of any width that the requests fit in. The
invariant has four parts. *Control*: where a walk is, what the groups in front of
it and behind it have become, and who waits for it. *Requests*: a request is in one
place, on a queue pair that is connected or connecting. *Counting*: the counters of a group
are the numbers of its requests, a request that runs is of a group that has the
subsystem, and a group that waits has something to wait for; the decrements are by
what a request *was* when it started, so exactness needs that its namespace did not
change meanwhile. *Namespaces*: nothing runs on one that has gone, or that is paused.
`RemovedQuiet` failed to be inductive at first, and rightly: a resume that fails is
reverted to *paused* after the groups have run again, and a namespace removed in
that moment by who paused it may have I/O outstanding. TLC does not meet it with the
placement of the run; the model now records it (`seen.unpaused`) with
the exceptions that were there, and the theorem names them.

*Controllers of the target.* `ControllerLife` rests on what each queue pair has
done and still needs of the admin queue (`QueueInv`), on the messages to the two
threads (`MessagesInv`: each at most once, and the destruction last), on the stages
of the controller, on who may still come for it (`TimersInv`) and on how far the walk
of the keep alive timer has come (`WalkedInv`).

*Reservations.* For any hosts, keys, types, number of groups, registrants and files
to begin with that the code can restore. `CopiesInv`: a group's copy agrees with the
reservation unless the walk of some command is still to come to it; several walks
may be ahead at once, and the last one to arrive takes the newest state. `FileInv`:
the file is the reservation's image unless a write was left out. That a host is
registered once is an invariant of a sequence from which `TAILQ_REMOVE` takes an
element in the middle; `WithoutPosition` says what is left. The power loss keeps the file,
so that `KeptOverPowerLoss` is `FileInv` and what a restoration makes of an image.

*Doorbells of vfio-user.* For any size of the rings from 2 to 65536 (an index has 16
bits), any number of attempts to rearm and any counts of commands, pauses and created
queues. `WakesUp` looks at one state, in which the poll group sleeps and the guest is
at rest; `DbInv` says how that state comes about. Every open command is in the
submission queue, in a poll group's hands or in the completion queue (`Accounted`), so that the
differences of indices that wrap are counts. A guest that has written its tail and has still to read
the event index has put in one command since it last decided (`TailWritten`). The event
index about to be written is not past the tail (`Behind`): it was read from the
doorbell, which moves on meanwhile. A poll group that sleeps has left the event index
at the head of an empty queue, or the guest is about to look from there, or an
interrupt is on its way (`Sleeps`). The order of the code's steps, event index first and
then the tail once more on one side, tail first and then the event index on the other, is
what keeps the last of these.

*Queues of vfio-user.* For any number of queues and any bounds on what guest and
host do. `QueueLife` speaks of what the guest sees and of references; `QueueInv` says why.
A submission queue is described by the state of its queue pair (`IoSound`): one that takes
commands is mapped, and one that is marked deleted while its queue pair is there was deleted
by the guest. `RefsCounted`: the reference count of a completion queue is the number of
submission queues that hold it, those created, active or inactive and not being deleted,
because a deletion by the guest gives the reference back before the queue pair has gone, and
the end of a reset or of the guest when it has. The two meet in one queue pair only
when a reset begins during a deletion; `overlap` records that, and the assertion on
the count fails only then. `PhaseSound` says that outside of resets only deletions disconnect
a queue pair, and that a queue is suspended only while some memory is away. `QueueInv` also proves that no
queue is used unmapped and that no queue pair is reused while one is there.

*The discovery client.* For any sets of services and paths and any mixes.
`DiscoveryKeeps` is about a connected client with nothing under way; `DvInv` says in
every state why it will hold then. Of a service that works: one entry at a time
is in use, exactly while it is connected or connects (`EntrySound`), and a timeout or
a failure gives it back; a discovery in progress reads a page or attaches what the
page names, or a page was not read (`ProgressSound`), and one that outlives its
connection does so by a loss; a failed start has been told (`StartSound`). `PageSound`
relates three copies of the log page: the target's, the one whose paths are
being attached, and the entries. The second is the first unless an event is to
come or is remembered, and the entries are the second but for what is refused
and what is still to be removed; so when the last attach ends, the removal that the same
handler makes leaves what the target names. Of a service that does not work (`RestSound`):
it has no entries, those still being attached were freed by a stop, or by a timeout
after a loss. A step of one service is described by `Moved`: it keeps every
other service, and no controller is left without an entry. `NvmeImplements` carries
all this to the composition that the runs check.

*The paths of a channel.* For any sets of namespaces and I/Os, any `rr_min_io`, number
of retries and mixes whose paths are distinct (`IoPathMixesAssumption`; a bdev has
one io_path for each namespace). `PathIos` speaks of the retry list and of the cache when
nothing is under way; `NpInv` says why both are right in every state. `RetrySound`
orders any two I/Os of the list, not neighbours, so that it survives one that is
taken from the middle (an abort) or put there (`QueueRetry`, behind the last that is due no
later, which is where the code's walk from the tail ends); and the poller is armed for the
head, because only an I/O that becomes the head, or the poller, arms it. The poller
retries a run of I/Os, and a retry may put the I/O back or clear the cache: `Retried` is the state
after each, and a smallest-counterexample argument shows that every one of these is
sound and leaves the rest of the list as it was. `CacheSound` has what `CacheSettles`
says of quiet states, with the reason why the state is not quiet: the qpair of the cached
path is lost and not yet noticed, or the clearing that an ANA change starts has not
reached this channel (`walk` is `before`). It also bounds how often I/Os meet a
lost path that is cached: once an I/O has, the cache names a working path or none,
because that I/O clears the cache, and a search caches only a path that is connected;
a loss that follows starts the count again.

*The endpoint of vfio-user.* For any number of controllers, poll groups, queues and
mixes. `VfuLife` is about an endpoint where nothing is under way; `VfuInv` says in every state
what is. At most one controller has the endpoint, and while one is being freed nobody
is accepted (`CtrlrSound`); the accept poller or the message that listens again are
there only when no controller is, and one of them is there, or a free message is,
whenever the endpoint is without a controller (`EpSound`). A controller that is
pausing, resuming, or has a callback of the client pending is waited for by a message
or by the subsystem's change (`WaitSound`), with the exceptions that `seen` records: a resume or a
pause that the subsystem refused. A controller asks for its resume at most while one of these
is there (`ResumeSound`). `need_relisten` is what keeps the endpoint from
being deaf: it is set whenever queue pairs are still to be disconnected.

*The commands of FC.* For any number of hwqps, commands, buffers and ABTS frames, and any
mixes. `AbortsEnd` speaks of states without messages; `FqInv` says in every state where each
abort, ABTS and deletion is. An aborted command has a message that ends it, one only unless
the hwqp was quiesced on a dead port (`EndAt`); that is where a command may be freed
twice, and the invariant asks nothing more after it. A connection that is being deleted
has its message in the hwqp's queue, or counts the commands whose end it
waits for (`ConnAt`). An ABTS is, for each hwqp that it asked, in exactly one place: a message to the
hwqp, the list of a command that waits for its abort, a marker in the HBA, or a message back
(`PlacesAt`), and `waits` counts these places (`FrameAt`). Why the answers are true is
`TruthAt`: a command that was found is gone when the report is sent; one that was not
found in queues that were synchronised cannot appear, because its frame was ahead
of the marker. The loops over commands (waiting for a buffer, ended by a quiesce, aborted
by a deletion) are walks, whose every turn keeps the invariant by a
smallest-counterexample argument.

How sums are proved: the induction theorems of the library take an operator as
a parameter, which no prover at hand can instantiate. `SumFacts` reasons by a smallest
counterexample instead: the cardinalities of the sets for which a fact fails are a
set of naturals, which has a least member if it has any.

Only model-checked, and why:

* liveness (`io_live`, `ctrlr_live`), which no backend here can prove;
* `TransportTypeOK` and `TransportRequests`: TCP, RDMA and the associations of FC,
  whose properties name the exceptions that the code lets happen.

## What is not modelled

* A channel in `SumpIo` has at least one iopath, and its list does not grow while
  it is used; growth is in `SumpRegistry`. An empty channel behaves like one
  whose paths are all unavailable.
* The bdev layer's own bookkeeping of a `spdk_bdev_io` that is completed more
  than once (its code is not in this repository).
* Reads in `SumpData`: their data is the namespace's; every request is taken for a write.
* Removal of bdevs in sump: it has no code for it. The weighted selector's loop without
  end (`sump_ctrl.c:265`) when no available path has an id below 4: `SumpBalance` keeps
  one path available.
* `NvmeCtrlr`: the list of transport ids (whether a reconnect succeeds is
  free, so it does not matter to which one), the detach poller after the deletion,
  bdevs shared by several controllers. A namespace that cannot be shared does not come back before its old
  bdev is destructed: its population fails (`nvme_bdev_add_ns`), which like every failed one
  is undone in the same handler; the walk that adds a shared one to an old bdev is left out. A handler is one step, so what another thread does between two of its
  mutex holds is left out: between the end of a reset and the deletion of a lost
  controller (`bdev_nvme.c:1972`, `1993`), and between the start of a reset and the
  assignment of `reset_cb_fn` (`2272`), which is taken to precede the reset's end.
* `NvmeIoPath`: compare-and-write (whose second half's failed submission is never
  completed, `bdev_nvme.c:6862`), zone and passthru formatting, out-of-memory
  completions, the comparison of namespaces when a bdev is constructed, and the
  channels of other threads. `fast_io_fail_timedout` is read by one function whose
  one caller is commented out.
* `NvmeDiscovery`: allocation failures, names (one per path), and mDNS.
* `NvmfSubsystem`, `NvmfCtrlr`: hosts and their allow lists, listeners' ANA states,
  asynchronous events and log pages, identify data, zero copy, and custom admin handlers.
  `NvmfReservation`: out-of-memory in the commands themselves.
* TCP sockets and PDU parsing, RDMA connection management events, DIF; the FC adapter's
  driver and the initialisation, link and dump of hardware ports; vfio-user's PRP mapping,
  the layout of migration data, and the assignment of queues to poll groups. libvfio-user,
  the guests and hosts, and the library below a transport are external.
* RPC front ends, the discovery log page's and `transport.c`'s bookkeeping, Opal, CUSE,
  formatting, JSON, logging, scripts and the Makefile are left out for good.

## Plan

Done: 1. sump with the proofs of the I/O path and its data. 2. `NvmeCtrlr`, with
the proof that one reset runs at a time. 3. `NvmeIoPath`, `NvmeDiscovery`. 4. `NvmfSubsystem`,
`NvmfReservation`, `NvmfCtrlr`. 5. the transports. 6. proofs of the registry, the statistics, `NvmeCtrlr`'s references,
the target, vfio-user, the
discovery client, the paths of a channel, and the commands of FC.

Left, in this order:

1. Proofs: the types of the transports, the requests of TCP and RDMA, the associations of FC.
2. `NvmeCtrlr`: the transport ids with failover, and an abstract specification (a
   controller that is up, recovering or gone, unregistered once).
3. `NvmfSubsystem`: an abstract specification in which a state change is atomic.
4. Hosts, listeners and asynchronous events of the target; hardware ports of FC.
