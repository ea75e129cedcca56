----------------------------- MODULE SumpRegistry -----------------------------
(***************************************************************************)
(* The registry of src/sump.c and the channels of src/sump_ctrl.c: which   *)
(* bdevs are aggregated into which ump_bdev, and which iopaths each        *)
(* per-thread ump_bdev_channel holds.                                      *)
(*                                                                         *)
(* Several SPDK threads register bdevs and open and close channels; they   *)
(* share one reactor, so each handler is one step.                         *)
(***************************************************************************)
EXTENDS Integers, Sequences, FiniteSets

CONSTANTS
    Threads,    \* SPDK threads
    Bdevs,      \* the bdevs (NVMe namespaces) that get registered
    Uuids,
    UuidOf,     \* bdev->uuid
    CountSlots, \* elements of the array count[]: 4 in the code
    Errors,     \* which calls may fail: subset of ErrorKinds
    MaxPollers  \* bound: ids of the count pollers of one thread

ErrorKinds == {"calloc_bdev", "calloc_path", "register", "get_io_channel"}

ASSUME UuidOfAssumption == UuidOf \in [Bdevs -> Uuids]
ASSUME CountSlotsAssumption == CountSlots \in Nat \ {0}
ASSUME ErrorsAssumption == Errors \subseteq ErrorKinds
ASSUME MaxPollersAssumption == MaxPollers \in Nat

VARIABLES
    mbdevs,          \* ump_bdev_list: [uuid, memory, bdevs]
    channels,        \* g_ump_bdev_channels: [poller, uuid, memory, paths, max_id]
    pollers,         \* the registered count pollers
    io_count_poller, \* the poller the global points at
    coexisted,       \* history: a channel was opened while another was linked
    failures,        \* history: the kinds of errors met
    fault            \* the undefined behaviour that ended the process

pollerVars == <<pollers, io_count_poller, coexisted>>
vars == <<mbdevs, channels, pollerVars, failures, fault>>

NoThread == "none"
ASSUME NoThreadAssumption == NoThread \notin Threads

(* A poller belongs to the thread that registered it. *)
Pollers == [thread : Threads, id : 0 .. MaxPollers - 1]
NoPoller == [thread |-> NoThread, id |-> 0]

Faults == {"none", "use_after_free", "null_deref", "count_overflow"}
Mbdevs == [uuid : Uuids, memory : {"live", "freed"}, bdevs : Seq(Bdevs)]
PathRecords == [bdev : Bdevs, owner : Threads \cup {NoThread}, id : Nat]

(* poller is history, the code does not keep it: the poller registered     *)
(* with the channel.  Its thread is the channel's.                         *)
Channels == [poller : Pollers, uuid : Uuids, memory : {"live", "freed"},
             paths : Seq(PathRecords), max_id : Nat]

Init ==
    /\ mbdevs = <<>>
    /\ channels = <<>>
    /\ pollers = {}
    /\ io_count_poller = NoPoller
    /\ coexisted = FALSE
    /\ failures = {}
    /\ fault = "none"

Running == fault = "none"
Crash(kind) ==
    /\ fault' = kind
    /\ UNCHANGED <<mbdevs, channels, pollerVars>>

(* TAILQ_FOREACH reads every entry up to the one it stops at. *)
WalkSafe(list, stop) == \A k \in 1 .. stop : list[k].memory = "live"

-------------------------------------------------------------------------------
(* get_ump_bdev_by_uuid: the position of the first ump_bdev of the uuid,   *)
(* one past the end when there is none.                                    *)
PositionOf(uuid) ==
    LET matches == {k \in 1 .. Len(mbdevs) : mbdevs[k].uuid = uuid}
    IN  IF matches = {} THEN Len(mbdevs) + 1
        ELSE CHOOSE k \in matches : \A j \in matches : k <= j

(* ump_bdev_construct: the allocations fail cleanly, but a failure of the  *)
(* real spdk_bdev_register frees the ump_bdev and leaves it in the list.   *)
Construct(b) ==
    \/ /\ "calloc_bdev" \in Errors
       /\ failures' = failures \cup {"calloc_bdev"}
       /\ UNCHANGED mbdevs
    \/ /\ mbdevs' = Append(mbdevs,
              [uuid |-> UuidOf[b], memory |-> "live", bdevs |-> <<b>>])
       /\ UNCHANGED failures
    \/ /\ "register" \in Errors
       /\ mbdevs' = Append(mbdevs,
              [uuid |-> UuidOf[b], memory |-> "freed", bdevs |-> <<b>>])
       /\ failures' = failures \cup {"register"}

(* Slip: any channel that has iopaths, of whatever uuid.                   *)
ChannelsWithPaths(uuid) == {c \in 1 .. Len(channels) : channels[c].paths # <<>>}

(* The first channel that has an iopath to a bdev of the uuid.             *)
ChannelsServing(uuid) ==
    {c \in 1 .. Len(channels) :
        \E k \in 1 .. Len(channels[c].paths) : UuidOf[channels[c].paths[k].bdev] = uuid}

FirstServing(uuid) ==
    CHOOSE c \in ChannelsServing(uuid) : \A d \in ChannelsServing(uuid) : c <= d

(* The iopath that thread t adds: the io_channel is t's, or NULL. *)
NewPath(c, b, owner) ==
    [channels EXCEPT ![c].paths =
         Append(@, [bdev |-> b, owner |-> owner, id |-> channels[c].max_id]),
     ![c].max_id = @ + 1]

(* ump_bdev_add_bdev on thread t, for the ump_bdev at position m. *)
AddBdev(m, b, t) ==
    LET grown == [mbdevs EXCEPT ![m].bdevs = Append(@, b)]
        serving == ChannelsServing(UuidOf[b])
        stop == IF serving = {} THEN Len(channels) ELSE FirstServing(UuidOf[b])
    IN  \/ /\ "calloc_bdev" \in Errors
           /\ failures' = failures \cup {"calloc_bdev"}
           /\ UNCHANGED <<mbdevs, channels, fault>>
        \/ /\ ~WalkSafe(channels, stop)
           /\ mbdevs' = grown
           /\ fault' = "use_after_free"
           /\ UNCHANGED <<channels, failures>>
        \/ /\ WalkSafe(channels, stop)
           /\ serving = {}
           /\ mbdevs' = grown
           /\ UNCHANGED <<channels, failures, fault>>
        \/ /\ WalkSafe(channels, stop)
           /\ serving # {}
           /\ mbdevs' = grown
           /\ \/ channels' = NewPath(stop, b, t) /\ UNCHANGED <<failures, fault>>
              \/ /\ "get_io_channel" \in Errors
                 /\ channels' = NewPath(stop, b, NoThread)
                 /\ failures' = failures \cup {"get_io_channel"}
                 /\ UNCHANGED fault
              \/ /\ "calloc_path" \in Errors
                 /\ fault' = "null_deref"
                 /\ failures' = failures \cup {"calloc_path"}
                 /\ UNCHANGED channels

Aggregated == {b \in Bdevs : \E m \in 1 .. Len(mbdevs) :
    mbdevs[m].memory = "live" /\ \E k \in 1 .. Len(mbdevs[m].bdevs) : mbdevs[m].bdevs[k] = b}

(* spdk_bdev_register, as the LD_PRELOAD library defines it, called on     *)
(* thread t; the NVMe layer registers a bdev only while it is not.         *)
Register(b, t) ==
    LET m == PositionOf(UuidOf[b])
    IN  /\ Running
        /\ b \notin Aggregated
        /\ \/ /\ ~WalkSafe(mbdevs, IF m > Len(mbdevs) THEN m - 1 ELSE m)
              /\ Crash("use_after_free")
              /\ UNCHANGED failures
           \/ /\ m > Len(mbdevs)
              /\ WalkSafe(mbdevs, m - 1)
              /\ Construct(b)
              /\ UNCHANGED <<channels, pollerVars, fault>>
           \/ /\ m <= Len(mbdevs)
              /\ WalkSafe(mbdevs, m)
              /\ AddBdev(m, b, t)
              /\ UNCHANGED pollerVars

-------------------------------------------------------------------------------
(* ump_bdev_channel_create_cb on thread t.  A bdev without an io_channel   *)
(* is skipped.  When an iopath cannot be allocated the call fails, and the *)
(* freed channel stays in the list and its count poller registered.        *)
(* Inserting after a freed channel writes to its memory.                   *)
OpenPaths(bdevs, t) ==
    [k \in 1 .. Len(bdevs) |-> [bdev |-> bdevs[k], owner |-> t, id |-> k - 1]]

NewChannel(q, uuid, bdevs) ==
    [poller |-> q, uuid |-> uuid, memory |-> "live",
     paths |-> OpenPaths(bdevs, q.thread), max_id |-> Len(bdevs)]

(* The bdevs whose io_channel could be had, in the order of the list. *)
Opened(bdevs) ==
    {opened \in UNION {[1 .. n -> Bdevs] : n \in 0 .. Len(bdevs)} :
        \E at \in [DOMAIN opened -> 1 .. Len(bdevs)] : \A i, j \in DOMAIN opened :
            opened[i] = bdevs[at[i]] /\ (i < j => at[i] < at[j])}

FreedChannel(q, uuid) == [NewChannel(q, uuid, <<>>) EXCEPT !.memory = "freed"]

IsOpen(t, uuid) == \E c \in 1 .. Len(channels) :
    /\ channels[c].poller.thread = t
    /\ channels[c].uuid = uuid
    /\ channels[c].memory = "live"

(* spdk_poller_register returns a poller that no linked channel was given; *)
(* of those the one with the least id.                                     *)
Unused(q) == q \notin pollers /\ \A c \in 1 .. Len(channels) : channels[c].poller # q
Allocated(q) == Unused(q) /\ \A id \in 0 .. q.id - 1 : ~Unused([thread |-> q.thread, id |-> id])

(* The channel is opened; the pollers are then live, and the global points *)
(* at pointer.                                                             *)
Open(q, m, live, pointer) ==
    /\ Running
    /\ mbdevs[m].memory = "live"
    /\ ~IsOpen(q.thread, mbdevs[m].uuid)
    /\ channels # <<>> => channels[Len(channels)].memory = "live"
    /\ Allocated(q)
    /\ pollers' = live
    /\ io_count_poller' = pointer
    /\ coexisted' = (coexisted \/ channels # <<>>)
    /\ \E opened \in Opened(mbdevs[m].bdevs) :
        /\ opened # mbdevs[m].bdevs => "get_io_channel" \in Errors
        /\ \/ /\ channels' = Append(channels, NewChannel(q, mbdevs[m].uuid, opened))
              /\ fault' = IF Len(opened) > CountSlots THEN "count_overflow" ELSE fault
              /\ UNCHANGED failures
           \/ /\ "calloc_path" \in Errors
              /\ opened # <<>>
              /\ channels' = Append(channels, FreedChannel(q, mbdevs[m].uuid))
              /\ failures' = failures \cup {"calloc_path"}
              /\ UNCHANGED fault
    /\ UNCHANGED mbdevs

(* Slip: a poller is registered only while the global points at none.      *)
OpenChannelSharing(q, m) ==
    IF io_count_poller = NoPoller THEN Open(q, m, pollers \cup {q}, q)
    ELSE Open(q, m, pollers, io_count_poller)

OpenChannel(q, m) == Open(q, m, pollers \cup {q}, q)

OpenAfterFreedChannel(t, m) ==
    /\ Running
    /\ mbdevs[m].memory = "live"
    /\ ~IsOpen(t, mbdevs[m].uuid)
    /\ channels # <<>>
    /\ channels[Len(channels)].memory = "freed"
    /\ Crash("use_after_free")
    /\ UNCHANGED failures

Neighbours(c) == {c - 1, c + 1} \cap (1 .. Len(channels))

Removed(c) ==
    [d \in 1 .. Len(channels) - 1 |-> IF d < c THEN channels[d] ELSE channels[d + 1]]

(* A channel is closed: list is what is left, and live the count pollers.  *)
Close(c, list, live) ==
    LET safe == \A d \in Neighbours(c) : channels[d].memory = "live"
        puttable == \A k \in 1 .. Len(channels[c].paths) : channels[c].paths[k].owner # NoThread
    IN  /\ Running
        /\ channels[c].memory = "live"
        /\ IF safe /\ puttable
           THEN /\ channels' = list
                /\ pollers' = live
                /\ io_count_poller' = NoPoller
                /\ UNCHANGED <<mbdevs, coexisted, fault>>
           ELSE Crash(IF safe THEN "null_deref" ELSE "use_after_free")
        /\ UNCHANGED failures

(* spdk_poller_unregister of the global on thread t: it clears the global, *)
(* and leaves a poller of another thread alone.                            *)
Unregistered(t) ==
    IF io_count_poller.thread = t THEN pollers \ {io_count_poller} ELSE pollers

(* Slip: the freed channel stays in the list.                              *)
CloseLinked(c) ==
    Close(c, [channels EXCEPT ![c].memory = "freed"], Unregistered(channels[c].poller.thread))

(* ump_bdev_channel_destroy_cb.  The poller unregistered is the one the    *)
(* global points at, whichever channel registered it.  Unlinking writes to *)
(* the neighbours in the list, and an iopath without io_channel has        *)
(* nothing to put.                                                         *)
CloseChannel(c) == Close(c, Removed(c), Unregistered(channels[c].poller.thread))

(* ump_io_count_fn walks every channel; what it does to the iopaths is in  *)
(* SumpBalance.                                                            *)
CountTick ==
    /\ Running
    /\ pollers # {}
    /\ ~WalkSafe(channels, Len(channels))
    /\ Crash("use_after_free")
    /\ UNCHANGED failures

(* ump_bdev_submit_request adds to count[iopath->id].                      *)
CountIo(c) ==
    /\ Running
    /\ \E k \in 1 .. Len(channels[c].paths) : channels[c].paths[k].id >= CountSlots
    /\ Crash("count_overflow")
    /\ UNCHANGED failures

Next ==
    \/ \E t \in Threads :
        \/ \E b \in Bdevs : Register(b, t)
        \/ \E m \in 1 .. Len(mbdevs) : OpenAfterFreedChannel(t, m)
    \/ \E q \in Pollers, m \in 1 .. Len(mbdevs) : OpenChannel(q, m)
    \/ CountTick
    \/ \E c \in 1 .. Len(channels) : CloseChannel(c) \/ CountIo(c)

Spec == Init /\ [][Next]_vars

-------------------------------------------------------------------------------
(* Every variable holds a value of its kind.                               *)
TypeOK ==
    /\ mbdevs \in Seq(Mbdevs)
    /\ channels \in Seq(Channels)
    /\ pollers \subseteq Pollers
    /\ io_count_poller \in Pollers \cup {NoPoller}
    /\ coexisted \in BOOLEAN
    /\ failures \subseteq ErrorKinds
    /\ fault \in Faults

(* Bdevs of one uuid are aggregated into one ump_bdev, in whatever order   *)
(* they are registered, and a bdev is aggregated only by its uuid.         *)
OneMbdevPerUuid ==
    \A m, n \in 1 .. Len(mbdevs) :
        /\ mbdevs[m].uuid = mbdevs[n].uuid => m = n
        /\ \A k \in 1 .. Len(mbdevs[m].bdevs) : UuidOf[mbdevs[m].bdevs[k]] = mbdevs[m].uuid

(* The ids of a channel's iopaths are their positions in its list, also    *)
(* for paths added after it was opened: every selector picks by id.        *)
IdsArePositions(channel) ==
    /\ channel.max_id = Len(channel.paths)
    /\ \A k \in 1 .. Len(channel.paths) : channel.paths[k].id = k - 1

(* A channel's iopaths lead to bdevs of its ump_bdev's uuid, each once.    *)
PathsAreDistinctReplicas(channel) ==
    \A k, l \in 1 .. Len(channel.paths) :
        /\ UuidOf[channel.paths[k].bdev] = channel.uuid
        /\ channel.paths[k].bdev = channel.paths[l].bdev => k = l

(* The registry keeps its shape through registrations on any thread while  *)
(* channels are opened and closed: one ump_bdev per uuid, and channels     *)
(* whose paths have their ids and are distinct replicas of its namespace.  *)
RegistryShape ==
    /\ OneMbdevPerUuid
    /\ \A c \in 1 .. Len(channels) : IdsArePositions(channels[c]) /\ PathsAreDistinctReplicas(channels[c])

(* The global never dangles: what it points at is registered, and for a    *)
(* channel that is still linked.                                           *)
GlobalPointsAtLinked ==
    io_count_poller # NoPoller =>
        /\ io_count_poller \in pollers
        /\ \E c \in 1 .. Len(channels) : channels[c].poller = io_count_poller

(* Each linked channel can be given a poller of its thread for itself.     *)
EveryChannelTicked ==
    \E ticker \in [1 .. Len(channels) -> pollers] : \A c, d \in 1 .. Len(channels) :
        /\ ticker[c].thread = channels[c].poller.thread
        /\ ticker[c] = ticker[d] => c = d

(* No poller has outlived its channel, and no channel lost its poller.     *)
OwnPollersOnly == pollers = {channels[c].poller : c \in 1 .. Len(channels)}

(* Closing a channel may unregister another channel's count poller, or     *)
(* none (sump_ctrl.c:358, 439).  Still the global never dangles and a      *)
(* thread keeps a poller for each of its channels, whose statistics thus   *)
(* go on being reset; and a poller outlives its channel, or a channel      *)
(* loses its own, only if channels were linked at the same time or the     *)
(* creation of one failed.                                                 *)
CountPollers ==
    /\ GlobalPointsAtLinked
    /\ EveryChannelTicked
    /\ OwnPollersOnly \/ coexisted \/ "calloc_path" \in failures

(* Freed registry entries come only from a failed spdk_bdev_register or a  *)
(* failed iopath allocation, NULL pointers from a failed allocation or     *)
(* get_io_channel, and count[] overflows only with more bdevs of one uuid  *)
(* than it has elements.                                                   *)
FaultsHaveCauses ==
    /\ fault = "use_after_free" => failures \cap {"register", "calloc_path"} # {}
    /\ fault = "null_deref" => failures \cap {"get_io_channel", "calloc_path"} # {}
    /\ fault = "count_overflow" =>
        \E m \in 1 .. Len(mbdevs) : Len(mbdevs[m].bdevs) > CountSlots

(* The comments of spdk_bdev_register (sump.c:98) and ump_bdev_add_bdev    *)
(* (sump.c:241) have a new path added to the ump_bdev and its channels:    *)
(* every channel has every path of its ump_bdev.                           *)
EveryChannelHasEveryPath ==
    \A c \in 1 .. Len(channels), m \in 1 .. Len(mbdevs) :
        channels[c].uuid = mbdevs[m].uuid =>
            \A k \in 1 .. Len(mbdevs[m].bdevs) :
                \E l \in 1 .. Len(channels[c].paths) :
                    channels[c].paths[l].bdev = mbdevs[m].bdevs[k]
===============================================================================
