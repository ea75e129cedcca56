------------------------------ MODULE SumpProofs ------------------------------
(***************************************************************************)
(* Proofs about SumpRegistry: the registry keeps its shape, the count      *)
(* pollers stay as many as the channels need, and undefined behaviour has  *)
(* its causes, for every number of threads, bdevs and uuids; about         *)
(* SumpBalance: the latency queues describe their lists, what the load     *)
(* counters count, and which paths the selectors that read them choose,    *)
(* for every number of paths, window, counter width and bound on the I/Os; *)
(* and about the two together.                                             *)
(***************************************************************************)
EXTENDS MCSump, SumFacts

-------------------------------------------------------------------------------
(* The registry *)

(* No bdev is twice in its ump_bdev. *)
BdevsOnce ==
    \A m \in 1 .. Len(mbdevs) : \A k, l \in 1 .. Len(mbdevs[m].bdevs) :
        mbdevs[m].bdevs[k] = mbdevs[m].bdevs[l] => k = l

(* A channel's iopaths lead to bdevs of an ump_bdev of its uuid, which is
   allocated and has at least as many. *)
ServedBy(channel, mbdev) ==
    /\ mbdev.memory = "live"
    /\ mbdev.uuid = channel.uuid
    /\ Len(channel.paths) <= Len(mbdev.bdevs)
    /\ \A k \in 1 .. Len(channel.paths) : \E l \in 1 .. Len(mbdev.bdevs) :
          channel.paths[k].bdev = mbdev.bdevs[l]

PathsOnce(channel) ==
    \A k, l \in 1 .. Len(channel.paths) :
        channel.paths[k].bdev = channel.paths[l].bdev => k = l

ChannelSound(channel, list) ==
    /\ IdsArePositions(channel)
    /\ PathsOnce(channel)
    /\ \E m \in 1 .. Len(list) : ServedBy(channel, list[m])

ChannelsSound == \A c \in 1 .. Len(channels) : ChannelSound(channels[c], mbdevs)

(* What is freed and still linked, and an iopath without io_channel, come
   from a failed call. *)
FreedHasCause ==
    /\ \A m \in 1 .. Len(mbdevs) : mbdevs[m].memory = "freed" => "register" \in failures
    /\ \A c \in 1 .. Len(channels) :
          /\ channels[c].memory = "freed" => "calloc_path" \in failures
          /\ \A k \in 1 .. Len(channels[c].paths) :
                channels[c].paths[k].owner = NoThread => "get_io_channel" \in failures

(* The channels of the list are given pollers of their threads for
   themselves. *)
Ticked(ticker, list) == \A c, d \in 1 .. Len(list) :
    /\ ticker[c].thread = list[c].poller.thread
    /\ ticker[c] = ticker[d] => c = d

(* A channel that was never linked beside another has the only poller, and
   the global points at it. *)
AloneSound ==
    \/ coexisted
    \/ "calloc_path" \in failures
    \/ /\ Len(channels) <= 1
       /\ OwnPollersOnly
       /\ \A c \in 1 .. Len(channels) : channels[c].poller = io_count_poller

PollersSound == GlobalPointsAtLinked /\ EveryChannelTicked /\ AloneSound

IndInv ==
    /\ TypeOK
    /\ OneMbdevPerUuid
    /\ BdevsOnce
    /\ ChannelsSound
    /\ PollersSound
    /\ FreedHasCause
    /\ FaultsHaveCauses

---------------------------------------------------------------------------
(* Lists *)

(* A function on 1 .. n is a sequence of length n. *)
LEMMA FunctionIsSequence ==
    ASSUME NEW S, NEW n \in Nat, NEW f \in [1 .. n -> S]
    PROVE  f \in Seq(S) /\ Len(f) = n
<1>1. f \in Seq(S)
  BY SeqDef
<1> QED BY <1>1, LenProperties

(* What changing one element of a list does. *)
LEMMA ReplacedElement ==
    ASSUME NEW S, NEW list \in Seq(S), NEW i \in 1 .. Len(list), NEW e \in S
    PROVE  LET new == [list EXCEPT ![i] = e]
           IN  /\ new \in Seq(S) /\ Len(new) = Len(list)
               /\ new[i] = e
               /\ \A j \in 1 .. Len(list) : j # i => new[j] = list[j]
  BY ExceptSeq

(* The list of ump_bdevs when bdev b has joined the one at position m. *)
Grown(m, b) == [mbdevs EXCEPT ![m].bdevs = Append(@, b)]

(* A bdev that joins changes one entry of the list. *)
LEMMA GrownList ==
    ASSUME mbdevs \in Seq(Mbdevs), NEW m \in 1 .. Len(mbdevs), NEW b \in Bdevs
    PROVE  /\ Grown(m, b) \in Seq(Mbdevs) /\ Len(Grown(m, b)) = Len(mbdevs)
           /\ Grown(m, b)[m].uuid = mbdevs[m].uuid
           /\ Grown(m, b)[m].memory = mbdevs[m].memory
           /\ Grown(m, b)[m].bdevs = Append(mbdevs[m].bdevs, b)
           /\ \A n \in 1 .. Len(mbdevs) : n # m => Grown(m, b)[n] = mbdevs[n]
<1> DEFINE e == [mbdevs[m] EXCEPT !.bdevs = Append(mbdevs[m].bdevs, b)]
<1>1. mbdevs[m] \in Mbdevs
  BY ElementOfSeq
<1>2. e \in Mbdevs /\ e.uuid = mbdevs[m].uuid /\ e.memory = mbdevs[m].memory
      /\ e.bdevs = Append(mbdevs[m].bdevs, b)
  BY <1>1, AppendProperties DEF Mbdevs
<1>3. Grown(m, b) = [mbdevs EXCEPT ![m] = e]
  BY DEF Grown
<1> HIDE DEF e
<1> QED BY <1>2, <1>3, ReplacedElement

(* The list of channels when the one at position c has a path more. *)
LEMMA NewPathList ==
    ASSUME channels \in Seq(Channels), NEW c \in 1 .. Len(channels), NEW b \in Bdevs,
           NEW owner \in Threads \cup {NoThread}
    PROVE  LET list == NewPath(c, b, owner)
               path == [bdev |-> b, owner |-> owner, id |-> channels[c].max_id]
           IN  /\ list \in Seq(Channels) /\ Len(list) = Len(channels)
               /\ list[c].poller = channels[c].poller
               /\ list[c].uuid = channels[c].uuid
               /\ list[c].memory = channels[c].memory
               /\ list[c].paths = Append(channels[c].paths, path)
               /\ list[c].max_id = channels[c].max_id + 1
               /\ \A d \in 1 .. Len(channels) : d # c => list[d] = channels[d]
<1> DEFINE path == [bdev |-> b, owner |-> owner, id |-> channels[c].max_id]
           p == Append(channels[c].paths, path)
           n == channels[c].max_id + 1
           e == [channels[c] EXCEPT !.paths = p, !.max_id = n]
<1>1. channels[c] \in Channels
  BY ElementOfSeq
<1>2. path \in PathRecords
  BY <1>1 DEF Channels, PathRecords
<1>3. p \in Seq(PathRecords) /\ n \in Nat
  BY <1>1, <1>2, AppendProperties DEF Channels
<1>4. NewPath(c, b, owner) = [channels EXCEPT ![c] = e]
  BY DEF NewPath
<1> HIDE DEF p, n
<1>5. e \in Channels /\ e.poller = channels[c].poller /\ e.uuid = channels[c].uuid
      /\ e.memory = channels[c].memory /\ e.paths = p /\ e.max_id = n
  BY <1>1, <1>3 DEF Channels
<1> HIDE DEF e
<1>6. /\ NewPath(c, b, owner) \in Seq(Channels)
      /\ Len(NewPath(c, b, owner)) = Len(channels)
      /\ NewPath(c, b, owner)[c] = e
      /\ \A d \in 1 .. Len(channels) : d # c => NewPath(c, b, owner)[d] = channels[d]
  BY <1>4, <1>5, ReplacedElement
<1> QED BY <1>5, <1>6 DEF p, n

(* Where the channel was that is at position d when c has been unlinked. *)
Kept(d, c) == IF d < c THEN d ELSE d + 1

(* What unlinking a channel leaves of the list. *)
LEMMA RemovedList ==
    ASSUME channels \in Seq(Channels), NEW c \in 1 .. Len(channels)
    PROVE  /\ Removed(c) \in Seq(Channels) /\ Len(Removed(c)) = Len(channels) - 1
           /\ \A d \in 1 .. Len(Removed(c)) :
                 /\ Kept(d, c) \in 1 .. Len(channels) /\ Kept(d, c) # c
                 /\ Removed(c)[d] = channels[Kept(d, c)]
<1>1. Len(channels) \in Nat /\ Len(channels) - 1 \in Nat
  BY LenProperties
<1>2. \A d \in 1 .. Len(channels) - 1 :
          /\ Kept(d, c) \in 1 .. Len(channels) /\ Kept(d, c) # c
          /\ (IF d < c THEN channels[d] ELSE channels[d + 1]) = channels[Kept(d, c)]
  BY <1>1 DEF Kept
<1>3. \A e \in 1 .. Len(channels) : channels[e] \in Channels
  BY ElementOfSeq
<1>4. Removed(c) \in [1 .. Len(channels) - 1 -> Channels]
  BY <1>1, <1>3 DEF Removed
<1>5. Removed(c) \in Seq(Channels) /\ Len(Removed(c)) = Len(channels) - 1
  BY <1>1, <1>4, FunctionIsSequence
<1> QED BY <1>2, <1>5 DEF Removed

---------------------------------------------------------------------------
(* What the operations do to the lists *)

(* What is linked is allocated or freed. *)
LEMMA MemoryKinds ==
    ASSUME IndInv
    PROVE  /\ \A m \in 1 .. Len(mbdevs) : mbdevs[m].memory \in {"live", "freed"}
           /\ \A c \in 1 .. Len(channels) : channels[c].memory \in {"live", "freed"}
<1>1. \A m \in 1 .. Len(mbdevs) : mbdevs[m] \in Mbdevs
  BY ElementOfSeq DEF IndInv, TypeOK
<1>2. \A c \in 1 .. Len(channels) : channels[c] \in Channels
  BY ElementOfSeq DEF IndInv, TypeOK
<1> QED BY <1>1, <1>2 DEF Mbdevs, Channels

(* get_ump_bdev_by_uuid finds the only ump_bdev of the uuid, if there is. *)
LEMMA FindsByUuid ==
    ASSUME IndInv, NEW uuid
    PROVE  \/ /\ PositionOf(uuid) = Len(mbdevs) + 1
              /\ \A m \in 1 .. Len(mbdevs) : mbdevs[m].uuid # uuid
           \/ /\ PositionOf(uuid) \in 1 .. Len(mbdevs)
              /\ mbdevs[PositionOf(uuid)].uuid = uuid
<1> DEFINE matches == {k \in 1 .. Len(mbdevs) : mbdevs[k].uuid = uuid}
<1>1. Len(mbdevs) \in Nat
  BY LenProperties DEF IndInv, TypeOK
<1>2. PositionOf(uuid) = IF matches = {} THEN Len(mbdevs) + 1
                         ELSE CHOOSE k \in matches : \A j \in matches : k <= j
  BY DEF PositionOf
<1>3. \A m : m \in matches <=> m \in 1 .. Len(mbdevs) /\ mbdevs[m].uuid = uuid
  OBVIOUS
<1> HIDE DEF matches
<1>4. matches # {} => \E k \in matches : \A j \in matches : k <= j
  BY <1>1, <1>3, LeastNumber
<1> QED BY <1>2, <1>3, <1>4

(* The channel that gets the new path serves the uuid. *)
LEMMA FirstServes ==
    ASSUME channels \in Seq(Channels), NEW uuid, ChannelsServing(uuid) # {}
    PROVE  FirstServing(uuid) \in ChannelsServing(uuid)
<1>1. ChannelsServing(uuid) \subseteq Nat
  BY LenProperties DEF ChannelsServing
<1>2. \E c \in ChannelsServing(uuid) : \A d \in ChannelsServing(uuid) : c <= d
  BY <1>1, LeastNumber
<1> QED BY <1>2 DEF FirstServing

(* A step that neither opens nor closes a channel. *)
LEMMA PollersStay ==
    ASSUME IndInv, UNCHANGED pollerVars, failures \subseteq failures',
           Len(channels') = Len(channels),
           \A c \in 1 .. Len(channels) : channels'[c].poller = channels[c].poller
    PROVE  PollersSound'
<1>1. UNCHANGED <<pollers, io_count_poller, coexisted>> /\ PollersSound
  BY DEF IndInv, pollerVars
<1>2. GlobalPointsAtLinked'
  BY <1>1 DEF PollersSound, GlobalPointsAtLinked
<1>3. EveryChannelTicked'
  BY <1>1 DEF PollersSound, EveryChannelTicked
<1>4. AloneSound'
  <2>1. OwnPollersOnly => OwnPollersOnly'
    BY <1>1 DEF OwnPollersOnly
  <2> QED BY <1>1, <2>1 DEF PollersSound, AloneSound
<1> QED BY <1>2, <1>3, <1>4 DEF PollersSound

(* A step that leaves both lists alone. *)
LEMMA ListsStay ==
    ASSUME IndInv, UNCHANGED <<mbdevs, channels, pollerVars>>,
           failures' \subseteq ErrorKinds, failures \subseteq failures',
           fault' \in Faults, FaultsHaveCauses'
    PROVE  IndInv'
<1>1. TypeOK' /\ OneMbdevPerUuid' /\ BdevsOnce' /\ ChannelsSound'
  BY DEF IndInv, TypeOK, OneMbdevPerUuid, BdevsOnce, ChannelsSound, pollerVars
<1>2. FreedHasCause'
  BY DEF IndInv, FreedHasCause
<1>3. PollersSound'
  BY PollersStay
<1> QED BY <1>1, <1>2, <1>3 DEF IndInv

(* The process ends by undefined behaviour, which has a cause. *)
LEMMA CrashHasCause ==
    ASSUME IndInv, NEW kind \in Faults, Crash(kind), UNCHANGED failures,
           kind = "use_after_free" =>
               \/ \E m \in 1 .. Len(mbdevs) : mbdevs[m].memory = "freed"
               \/ \E c \in 1 .. Len(channels) : channels[c].memory = "freed",
           kind = "null_deref" => \E c \in 1 .. Len(channels) :
               \E k \in 1 .. Len(channels[c].paths) : channels[c].paths[k].owner = NoThread,
           kind = "count_overflow" =>
               \E c \in 1 .. Len(channels) : Len(channels[c].paths) > CountSlots
    PROVE  IndInv'
<1>1. UNCHANGED <<mbdevs, channels, pollerVars, failures>> /\ fault' = kind
  BY DEF Crash
<1>2. FaultsHaveCauses'
  <2>1. kind = "use_after_free" => failures \cap {"register", "calloc_path"} # {}
    BY DEF IndInv, FreedHasCause
  <2>2. kind = "null_deref" => failures \cap {"get_io_channel", "calloc_path"} # {}
    BY DEF IndInv, FreedHasCause
  <2>3. ASSUME NEW c \in 1 .. Len(channels), Len(channels[c].paths) > CountSlots
        PROVE  \E m \in 1 .. Len(mbdevs) : Len(mbdevs[m].bdevs) > CountSlots
    <3>1. PICK m \in 1 .. Len(mbdevs) : ServedBy(channels[c], mbdevs[m])
      BY DEF IndInv, ChannelsSound, ChannelSound
    <3>2. channels[c] \in Channels /\ mbdevs[m] \in Mbdevs
      BY ElementOfSeq DEF IndInv, TypeOK
    <3>3. Len(channels[c].paths) \in Nat /\ Len(mbdevs[m].bdevs) \in Nat
      BY <3>2, LenProperties DEF Mbdevs, Channels
    <3> QED BY <2>3, <3>1, <3>3, CountSlotsAssumption DEF ServedBy
  <2> QED BY <1>1, <2>1, <2>2, <2>3 DEF FaultsHaveCauses
<1> QED BY <1>1, <1>2, ListsStay DEF IndInv, TypeOK

(* A channel stays sound while ump_bdevs are added and grow. *)
LEMMA ServedByLonger ==
    ASSUME mbdevs \in Seq(Mbdevs), mbdevs' \in Seq(Mbdevs), Len(mbdevs) <= Len(mbdevs'),
           \A m \in 1 .. Len(mbdevs) :
               /\ mbdevs'[m].uuid = mbdevs[m].uuid /\ mbdevs'[m].memory = mbdevs[m].memory
               /\ Len(mbdevs[m].bdevs) <= Len(mbdevs'[m].bdevs)
               /\ \A l \in 1 .. Len(mbdevs[m].bdevs) : mbdevs'[m].bdevs[l] = mbdevs[m].bdevs[l],
           NEW channel \in Channels, ChannelSound(channel, mbdevs)
    PROVE  ChannelSound(channel, mbdevs')
<1>1. PICK m \in 1 .. Len(mbdevs) : ServedBy(channel, mbdevs[m])
  BY DEF ChannelSound
<1>2. m \in 1 .. Len(mbdevs')
  BY LenProperties
<1>3. mbdevs[m] \in Mbdevs /\ mbdevs'[m] \in Mbdevs
  BY <1>2, ElementOfSeq
<1>4. Len(channel.paths) \in Nat /\ Len(mbdevs[m].bdevs) \in Nat /\ Len(mbdevs'[m].bdevs) \in Nat
  BY <1>3, LenProperties DEF Mbdevs, Channels
<1>5. ServedBy(channel, mbdevs'[m])
  <2>1. /\ mbdevs[m].memory = "live" /\ mbdevs[m].uuid = channel.uuid
        /\ Len(channel.paths) <= Len(mbdevs[m].bdevs)
        /\ \A k \in 1 .. Len(channel.paths) : \E l \in 1 .. Len(mbdevs[m].bdevs) :
              channel.paths[k].bdev = mbdevs[m].bdevs[l]
    BY <1>1 DEF ServedBy
  <2>2. /\ mbdevs'[m].memory = "live" /\ mbdevs'[m].uuid = channel.uuid
        /\ Len(channel.paths) <= Len(mbdevs'[m].bdevs)
    BY <1>4, <2>1
  <2>3. ASSUME NEW k \in 1 .. Len(channel.paths)
        PROVE  \E l \in 1 .. Len(mbdevs'[m].bdevs) : channel.paths[k].bdev = mbdevs'[m].bdevs[l]
    <3>1. PICK l \in 1 .. Len(mbdevs[m].bdevs) : channel.paths[k].bdev = mbdevs[m].bdevs[l]
      BY <2>1
    <3>2. mbdevs'[m].bdevs[l] = mbdevs[m].bdevs[l] /\ l \in 1 .. Len(mbdevs'[m].bdevs)
      BY <1>4, <3>1
    <3> QED BY <3>1, <3>2
  <2> QED BY <2>2, <2>3 DEF ServedBy
<1> QED BY <1>2, <1>5 DEF ChannelSound

(* ump_bdev_construct of a uuid that no ump_bdev has. *)
LEMMA NewMbdev ==
    ASSUME IndInv, Running, NEW b \in Bdevs, NEW memory \in {"live", "freed"},
           \A m \in 1 .. Len(mbdevs) : mbdevs[m].uuid # UuidOf[b],
           mbdevs' = Append(mbdevs, [uuid |-> UuidOf[b], memory |-> memory, bdevs |-> <<b>>]),
           UNCHANGED <<channels, pollerVars, fault>>,
           failures \subseteq failures', failures' \subseteq ErrorKinds,
           memory = "freed" => "register" \in failures'
    PROVE  IndInv'
<1> DEFINE new == [uuid |-> UuidOf[b], memory |-> memory, bdevs |-> <<b>>]
<1>1. new \in Mbdevs /\ new.uuid = UuidOf[b] /\ new.memory = memory
      /\ new.bdevs = <<b>> /\ Len(new.bdevs) = 1 /\ new.bdevs[1] = b
  BY UuidOfAssumption DEF Mbdevs
<1> HIDE DEF new
<1>2. /\ mbdevs \in Seq(Mbdevs) /\ mbdevs' \in Seq(Mbdevs) /\ Len(mbdevs) \in Nat
      /\ Len(mbdevs') = Len(mbdevs) + 1
      /\ mbdevs'[Len(mbdevs) + 1] = new
      /\ \A m \in 1 .. Len(mbdevs) : mbdevs'[m] = mbdevs[m]
  <2>1. mbdevs \in Seq(Mbdevs) /\ mbdevs' = Append(mbdevs, new)
    BY DEF IndInv, TypeOK, new
  <2> QED BY <1>1, <2>1, AppendProperties, LenProperties
<1>3. TypeOK'
  BY <1>2 DEF IndInv, TypeOK, pollerVars
<1>4. OneMbdevPerUuid' /\ BdevsOnce'
  <2>1. OneMbdevPerUuid /\ BdevsOnce
    BY DEF IndInv
  <2>2. OneMbdevPerUuid'
    BY <1>1, <1>2, <2>1 DEF OneMbdevPerUuid
  <2>3. BdevsOnce'
    BY <1>1, <1>2, <2>1 DEF BdevsOnce
  <2> QED BY <2>2, <2>3
<1>5. \A m \in 1 .. Len(mbdevs) : Len(mbdevs[m].bdevs) <= Len(mbdevs[m].bdevs)
  BY <1>2, ElementOfSeq, LenProperties DEF Mbdevs
<1>6. ChannelsSound'
  <2>1. ASSUME NEW c \in 1 .. Len(channels)
        PROVE  ChannelSound(channels[c], mbdevs')
    <3>1. channels[c] \in Channels /\ ChannelSound(channels[c], mbdevs)
      BY ElementOfSeq DEF IndInv, TypeOK, ChannelsSound
    <3> QED BY <1>2, <1>5, <3>1, ServedByLonger
  <2> QED BY <2>1 DEF ChannelsSound
<1>7. FreedHasCause'
  BY <1>1, <1>2 DEF IndInv, FreedHasCause
<1>8. PollersSound' /\ FaultsHaveCauses'
  BY PollersStay DEF FaultsHaveCauses, Running
<1> QED BY <1>3, <1>4, <1>6, <1>7, <1>8 DEF IndInv

(* A bdev that is not in the registry joins the ump_bdev of its uuid. *)
LEMMA BdevJoins ==
    ASSUME IndInv, NEW m \in 1 .. Len(mbdevs), NEW b \in Bdevs,
           mbdevs[m].memory = "live", mbdevs[m].uuid = UuidOf[b], b \notin Aggregated,
           mbdevs' = Grown(m, b)
    PROVE  /\ mbdevs' \in Seq(Mbdevs) /\ Len(mbdevs') = Len(mbdevs)
           /\ OneMbdevPerUuid' /\ BdevsOnce'
           /\ \A n \in 1 .. Len(mbdevs) : mbdevs'[n].memory = mbdevs[n].memory
           /\ \A channel \in Channels :
                 ChannelSound(channel, mbdevs) => ChannelSound(channel, mbdevs')
           /\ \A channel \in Channels : ServedBy(channel, mbdevs[m]) =>
                 /\ \A k \in 1 .. Len(channel.paths) : channel.paths[k].bdev # b
                 /\ mbdevs'[m].memory = "live" /\ mbdevs'[m].uuid = channel.uuid
                 /\ Len(channel.paths) + 1 <= Len(mbdevs'[m].bdevs)
                 /\ \E l \in 1 .. Len(mbdevs'[m].bdevs) : mbdevs'[m].bdevs[l] = b
                 /\ \A k \in 1 .. Len(channel.paths) : \E l \in 1 .. Len(mbdevs'[m].bdevs) :
                       channel.paths[k].bdev = mbdevs'[m].bdevs[l]
<1>1. mbdevs \in Seq(Mbdevs) /\ Len(mbdevs) \in Nat
  BY LenProperties DEF IndInv, TypeOK
<1>2. ASSUME NEW n \in 1 .. Len(mbdevs)
      PROVE  mbdevs[n].bdevs \in Seq(Bdevs) /\ Len(mbdevs[n].bdevs) \in Nat
  <2>1. mbdevs[n] \in Mbdevs
    BY <1>1, ElementOfSeq
  <2> QED BY <2>1, LenProperties DEF Mbdevs
<1>3. /\ mbdevs' \in Seq(Mbdevs) /\ Len(mbdevs') = Len(mbdevs)
      /\ mbdevs'[m].uuid = mbdevs[m].uuid /\ mbdevs'[m].memory = mbdevs[m].memory
      /\ mbdevs'[m].bdevs = Append(mbdevs[m].bdevs, b)
      /\ \A n \in 1 .. Len(mbdevs) : n # m => mbdevs'[n] = mbdevs[n]
  BY <1>1, GrownList
<1>4. /\ Len(mbdevs'[m].bdevs) = Len(mbdevs[m].bdevs) + 1
      /\ mbdevs'[m].bdevs[Len(mbdevs[m].bdevs) + 1] = b
      /\ \A l \in 1 .. Len(mbdevs[m].bdevs) : mbdevs'[m].bdevs[l] = mbdevs[m].bdevs[l]
  BY <1>2, <1>3, AppendProperties
<1>5. \A l \in 1 .. Len(mbdevs[m].bdevs) : mbdevs[m].bdevs[l] # b
  BY DEF Aggregated
<1>6. OneMbdevPerUuid'
  <2>1. \A n, o \in 1 .. Len(mbdevs) : mbdevs'[n].uuid = mbdevs'[o].uuid => n = o
    BY <1>3 DEF IndInv, OneMbdevPerUuid
  <2>2. \A n \in 1 .. Len(mbdevs) : \A k \in 1 .. Len(mbdevs'[n].bdevs) :
            UuidOf[mbdevs'[n].bdevs[k]] = mbdevs'[n].uuid
    <3>1. ASSUME NEW n \in 1 .. Len(mbdevs), n # m
          PROVE  \A k \in 1 .. Len(mbdevs'[n].bdevs) : UuidOf[mbdevs'[n].bdevs[k]] = mbdevs'[n].uuid
      BY <1>3, <3>1 DEF IndInv, OneMbdevPerUuid
    <3>2. \A k \in 1 .. Len(mbdevs'[m].bdevs) :
              k \in 1 .. Len(mbdevs[m].bdevs) \/ k = Len(mbdevs[m].bdevs) + 1
      BY <1>2, <1>4
    <3>3. \A k \in 1 .. Len(mbdevs'[m].bdevs) : UuidOf[mbdevs'[m].bdevs[k]] = mbdevs'[m].uuid
      BY <1>3, <1>4, <3>2 DEF IndInv, OneMbdevPerUuid
    <3> QED BY <3>1, <3>3
  <2> QED BY <1>3, <2>1, <2>2 DEF OneMbdevPerUuid
<1>7. BdevsOnce'
  <2>1. ASSUME NEW n \in 1 .. Len(mbdevs), n # m
        PROVE  \A k, l \in 1 .. Len(mbdevs'[n].bdevs) :
                   mbdevs'[n].bdevs[k] = mbdevs'[n].bdevs[l] => k = l
    <3>1. mbdevs'[n] = mbdevs[n] BY <1>3, <2>1
    <3>2. BdevsOnce BY DEF IndInv
    <3> QED BY <3>1, <3>2 DEF BdevsOnce
  <2>2. ASSUME NEW k \in 1 .. Len(mbdevs'[m].bdevs), NEW l \in 1 .. Len(mbdevs'[m].bdevs),
               mbdevs'[m].bdevs[k] = mbdevs'[m].bdevs[l]
        PROVE  k = l
    <3>1. \A i \in 1 .. Len(mbdevs'[m].bdevs) :
              IF i = Len(mbdevs[m].bdevs) + 1 THEN mbdevs'[m].bdevs[i] = b
              ELSE i \in 1 .. Len(mbdevs[m].bdevs) /\ mbdevs'[m].bdevs[i] = mbdevs[m].bdevs[i]
      <4>1. ASSUME NEW i \in 1 .. Len(mbdevs'[m].bdevs), i # Len(mbdevs[m].bdevs) + 1
            PROVE  i \in 1 .. Len(mbdevs[m].bdevs)
        BY <1>2, <1>4, <4>1
      <4> QED BY <1>4, <4>1
    <3>2. CASE mbdevs'[m].bdevs[k] = b
      BY <1>5, <2>2, <3>1, <3>2
    <3>3. CASE mbdevs'[m].bdevs[k] # b
      <4>1. /\ k \in 1 .. Len(mbdevs[m].bdevs) /\ l \in 1 .. Len(mbdevs[m].bdevs)
            /\ mbdevs[m].bdevs[k] = mbdevs[m].bdevs[l]
        BY <2>2, <3>1, <3>3
      <4> QED BY <4>1 DEF IndInv, BdevsOnce
    <3> QED BY <3>2, <3>3
  <2>3. ASSUME NEW n \in 1 .. Len(mbdevs)
        PROVE  \A k, l \in 1 .. Len(mbdevs'[n].bdevs) :
                   mbdevs'[n].bdevs[k] = mbdevs'[n].bdevs[l] => k = l
    <3>1. CASE n = m
      BY <2>2, <3>1
    <3> QED BY <2>1, <3>1
  <2> QED BY <1>3, <2>3 DEF BdevsOnce
<1>8. ASSUME NEW n \in 1 .. Len(mbdevs)
      PROVE  /\ mbdevs'[n].uuid = mbdevs[n].uuid /\ mbdevs'[n].memory = mbdevs[n].memory
             /\ Len(mbdevs[n].bdevs) <= Len(mbdevs'[n].bdevs)
             /\ \A l \in 1 .. Len(mbdevs[n].bdevs) : mbdevs'[n].bdevs[l] = mbdevs[n].bdevs[l]
  <2>1. CASE n = m
    <3>1. Len(mbdevs[m].bdevs) <= Len(mbdevs'[m].bdevs) BY <1>2, <1>4
    <3>2. \A l \in 1 .. Len(mbdevs[m].bdevs) : mbdevs'[m].bdevs[l] = mbdevs[m].bdevs[l]
      BY <1>4
    <3> QED BY <1>3, <2>1, <3>1, <3>2
  <2>2. CASE n # m
    <3>1. mbdevs'[n] = mbdevs[n] /\ mbdevs[n] \in Mbdevs
      BY <1>3, <2>2, ElementOfSeq DEF IndInv, TypeOK
    <3>2. Len(mbdevs[n].bdevs) \in Nat BY <3>1, LenProperties DEF Mbdevs
    <3> QED BY <3>1, <3>2
  <2> QED BY <2>1, <2>2
<1>9. \A channel \in Channels : ChannelSound(channel, mbdevs) => ChannelSound(channel, mbdevs')
  <2>1. Len(mbdevs) <= Len(mbdevs')
    BY <1>1, <1>3
  <2> QED BY <1>1, <1>3, <1>8, <2>1, ServedByLonger
<1>10. ASSUME NEW channel \in Channels, ServedBy(channel, mbdevs[m])
       PROVE  /\ \A k \in 1 .. Len(channel.paths) : channel.paths[k].bdev # b
              /\ mbdevs'[m].memory = "live" /\ mbdevs'[m].uuid = channel.uuid
              /\ Len(channel.paths) + 1 <= Len(mbdevs'[m].bdevs)
              /\ \E l \in 1 .. Len(mbdevs'[m].bdevs) : mbdevs'[m].bdevs[l] = b
              /\ \A k \in 1 .. Len(channel.paths) : \E l \in 1 .. Len(mbdevs'[m].bdevs) :
                    channel.paths[k].bdev = mbdevs'[m].bdevs[l]
  <2>1. Len(channel.paths) \in Nat
    BY LenProperties DEF Channels
  <2>2. \A k \in 1 .. Len(channel.paths) : channel.paths[k].bdev # b
    BY <1>5, <1>10 DEF ServedBy
  <2>3. mbdevs'[m].memory = "live" /\ mbdevs'[m].uuid = channel.uuid
        /\ Len(channel.paths) + 1 <= Len(mbdevs'[m].bdevs)
    BY <1>2, <1>3, <1>4, <1>10, <2>1 DEF ServedBy
  <2>4. \A l \in 1 .. Len(mbdevs[m].bdevs) : l \in 1 .. Len(mbdevs'[m].bdevs)
    BY <1>2, <1>4
  <2>5. \A k \in 1 .. Len(channel.paths) : \E l \in 1 .. Len(mbdevs'[m].bdevs) :
            channel.paths[k].bdev = mbdevs'[m].bdevs[l]
    BY <1>4, <1>10, <2>4 DEF ServedBy
  <2>6. Len(mbdevs[m].bdevs) + 1 \in 1 .. Len(mbdevs'[m].bdevs)
    BY <1>2, <1>4
  <2> QED BY <1>4, <2>2, <2>3, <2>5, <2>6
<1> QED BY <1>3, <1>6, <1>7, <1>8, <1>9, <1>10

(* The first channel that serves the uuid gets an iopath to the new bdev. *)
LEMMA PathJoins ==
    ASSUME IndInv, NEW m \in 1 .. Len(mbdevs), NEW b \in Bdevs,
           mbdevs[m].memory = "live", mbdevs[m].uuid = UuidOf[b], b \notin Aggregated,
           mbdevs' = Grown(m, b),
           NEW c \in ChannelsServing(UuidOf[b]), NEW owner \in Threads \cup {NoThread},
           channels' = NewPath(c, b, owner)
    PROVE  /\ channels' \in Seq(Channels) /\ Len(channels') = Len(channels)
           /\ ChannelsSound'
           /\ \A d \in 1 .. Len(channels) :
                 /\ channels'[d].memory = channels[d].memory
                 /\ channels'[d].poller = channels[d].poller
                 /\ \A k \in 1 .. Len(channels'[d].paths) :
                       \/ channels'[d].paths[k].owner = owner
                       \/ \E l \in 1 .. Len(channels[d].paths) :
                             channels'[d].paths[k].owner = channels[d].paths[l].owner
<1> DEFINE old == channels[c]
           path == [bdev |-> b, owner |-> owner, id |-> channels[c].max_id]
<1>1. c \in 1 .. Len(channels) /\ channels \in Seq(Channels) /\ old \in Channels
  BY ElementOfSeq DEF IndInv, TypeOK, ChannelsServing
<1>2. /\ channels' \in Seq(Channels) /\ Len(channels') = Len(channels)
      /\ channels'[c].uuid = old.uuid /\ channels'[c].memory = old.memory
      /\ channels'[c].poller = old.poller
      /\ channels'[c].paths = Append(old.paths, path)
      /\ channels'[c].max_id = old.max_id + 1
      /\ \A d \in 1 .. Len(channels) : d # c => channels'[d] = channels[d]
  BY <1>1, NewPathList
<1>3. path \in PathRecords /\ path.bdev = b /\ path.owner = owner /\ path.id = old.max_id
  BY <1>1 DEF PathRecords, Channels
<1>4. old.paths \in Seq(PathRecords) /\ Len(old.paths) \in Nat
  BY <1>1, LenProperties DEF Channels
<1> HIDE DEF path
<1>5. /\ Len(channels'[c].paths) = Len(old.paths) + 1
      /\ channels'[c].paths[Len(old.paths) + 1] = path
      /\ \A k \in 1 .. Len(old.paths) : channels'[c].paths[k] = old.paths[k]
  BY <1>2, <1>3, <1>4, AppendProperties
<1>6. \A k \in 1 .. Len(channels'[c].paths) :
          IF k = Len(old.paths) + 1 THEN channels'[c].paths[k] = path
          ELSE k \in 1 .. Len(old.paths) /\ channels'[c].paths[k] = old.paths[k]
  <2>1. ASSUME NEW k \in 1 .. Len(channels'[c].paths), k # Len(old.paths) + 1
        PROVE  k \in 1 .. Len(old.paths)
    BY <1>4, <1>5, <2>1
  <2> QED BY <1>5, <2>1
<1>7. ChannelSound(old, mbdevs)
  BY <1>1 DEF IndInv, ChannelsSound
<1>8. ServedBy(old, mbdevs[m])
  <2>1. PICK n \in 1 .. Len(mbdevs) : ServedBy(old, mbdevs[n])
    BY <1>7 DEF ChannelSound
  <2>2. mbdevs[n].uuid = UuidOf[b]
    <3>1. PICK k \in 1 .. Len(old.paths) : UuidOf[old.paths[k].bdev] = UuidOf[b]
      BY DEF ChannelsServing
    <3>2. PICK l \in 1 .. Len(mbdevs[n].bdevs) : old.paths[k].bdev = mbdevs[n].bdevs[l]
      BY <2>1, <3>1 DEF ServedBy
    <3>3. UuidOf[mbdevs[n].bdevs[l]] = mbdevs[n].uuid BY DEF IndInv, OneMbdevPerUuid
    <3> QED BY <3>1, <3>2, <3>3
  <2>3. n = m
    <3>1. OneMbdevPerUuid /\ mbdevs[n].uuid = mbdevs[m].uuid BY <2>2 DEF IndInv
    <3> QED BY <3>1 DEF OneMbdevPerUuid
  <2> QED BY <2>1, <2>3
<1>9. /\ \A k \in 1 .. Len(old.paths) : old.paths[k].bdev # b
      /\ mbdevs'[m].memory = "live" /\ mbdevs'[m].uuid = old.uuid
      /\ Len(old.paths) + 1 <= Len(mbdevs'[m].bdevs)
      /\ \E l \in 1 .. Len(mbdevs'[m].bdevs) : mbdevs'[m].bdevs[l] = b
      /\ \A k \in 1 .. Len(old.paths) : \E l \in 1 .. Len(mbdevs'[m].bdevs) :
            old.paths[k].bdev = mbdevs'[m].bdevs[l]
  BY <1>1, <1>8, BdevJoins
<1>10. Len(mbdevs') = Len(mbdevs)
       /\ \A channel \in Channels : ChannelSound(channel, mbdevs) => ChannelSound(channel, mbdevs')
  BY BdevJoins
<1>11. ChannelSound(channels'[c], mbdevs')
  <2>1. IdsArePositions(channels'[c])
    <3>1. old.max_id = Len(old.paths) /\ \A k \in 1 .. Len(old.paths) : old.paths[k].id = k - 1
      BY <1>7 DEF IdsArePositions, ChannelSound
    <3>2. channels'[c].max_id = Len(channels'[c].paths) BY <1>2, <1>5, <3>1
    <3>3. ASSUME NEW k \in 1 .. Len(channels'[c].paths) PROVE channels'[c].paths[k].id = k - 1
      <4>1. CASE k = Len(old.paths) + 1
        BY <1>3, <1>4, <1>6, <3>1, <4>1
      <4>2. CASE k # Len(old.paths) + 1
        BY <1>6, <3>1, <4>2
      <4> QED BY <4>1, <4>2
    <3> QED BY <3>2, <3>3 DEF IdsArePositions
  <2>2. ASSUME NEW k \in 1 .. Len(channels'[c].paths), NEW l \in 1 .. Len(channels'[c].paths),
               channels'[c].paths[k].bdev = channels'[c].paths[l].bdev
        PROVE  k = l
    <3>1. CASE channels'[c].paths[k].bdev = b
      BY <1>6, <1>9, <2>2, <3>1
    <3>2. CASE channels'[c].paths[k].bdev # b
      <4>1. /\ k \in 1 .. Len(old.paths) /\ l \in 1 .. Len(old.paths)
            /\ old.paths[k].bdev = old.paths[l].bdev
        BY <1>3, <1>6, <2>2, <3>2
      <4> QED BY <1>7, <4>1 DEF ChannelSound, PathsOnce
    <3> QED BY <3>1, <3>2
  <2>3. ServedBy(channels'[c], mbdevs'[m])
    <3>1. ASSUME NEW k \in 1 .. Len(channels'[c].paths)
          PROVE  \E l \in 1 .. Len(mbdevs'[m].bdevs) :
                     channels'[c].paths[k].bdev = mbdevs'[m].bdevs[l]
      <4>1. CASE k = Len(old.paths) + 1
        BY <1>3, <1>6, <1>9, <4>1
      <4>2. CASE k # Len(old.paths) + 1
        <5>1. k \in 1 .. Len(old.paths) /\ channels'[c].paths[k] = old.paths[k]
          BY <1>6, <4>2
        <5>2. \E l \in 1 .. Len(mbdevs'[m].bdevs) : old.paths[k].bdev = mbdevs'[m].bdevs[l]
          BY <1>9, <5>1
        <5> QED BY <5>1, <5>2
      <4> QED BY <4>1, <4>2
    <3> QED BY <1>2, <1>5, <1>9, <3>1 DEF ServedBy
  <2> QED BY <1>10, <2>1, <2>2, <2>3 DEF ChannelSound, PathsOnce
<1>12. ChannelsSound'
  <2>1. ASSUME NEW d \in 1 .. Len(channels), d # c
        PROVE  ChannelSound(channels'[d], mbdevs')
    <3>1. channels[d] \in Channels /\ ChannelSound(channels[d], mbdevs)
      BY <1>1, ElementOfSeq DEF IndInv, ChannelsSound
    <3> QED BY <1>2, <1>10, <2>1, <3>1
  <2> QED BY <1>2, <1>11, <2>1 DEF ChannelsSound
<1>13. ASSUME NEW d \in 1 .. Len(channels), NEW k \in 1 .. Len(channels'[d].paths)
       PROVE  \/ channels'[d].paths[k].owner = owner
              \/ \E l \in 1 .. Len(channels[d].paths) :
                    channels'[d].paths[k].owner = channels[d].paths[l].owner
  <2>1. CASE d = c
    BY <1>3, <1>6, <2>1
  <2>2. CASE d # c
    BY <1>2, <2>2
  <2> QED BY <2>1, <2>2
<1> QED BY <1>2, <1>12, <1>13

---------------------------------------------------------------------------
(* The steps *)

(* spdk_bdev_register keeps the invariant. *)
LEMMA RegisterStep ==
    ASSUME IndInv, NEW b \in Bdevs, NEW t \in Threads, Register(b, t)
    PROVE  IndInv'
<1> DEFINE m == PositionOf(UuidOf[b])
<1>1. Len(mbdevs) \in Nat /\ Len(channels) \in Nat
  BY LenProperties DEF IndInv, TypeOK
<1>2. \/ m = Len(mbdevs) + 1 /\ \A n \in 1 .. Len(mbdevs) : mbdevs[n].uuid # UuidOf[b]
      \/ m \in 1 .. Len(mbdevs) /\ mbdevs[m].uuid = UuidOf[b]
  BY FindsByUuid
<1> HIDE DEF m
<1>3. CASE ~WalkSafe(mbdevs, IF m > Len(mbdevs) THEN m - 1 ELSE m)
           /\ Crash("use_after_free") /\ UNCHANGED failures
  <2>1. \E n \in 1 .. Len(mbdevs) : mbdevs[n].memory = "freed"
    <3> DEFINE final == IF m > Len(mbdevs) THEN m - 1 ELSE m
    <3>1. final \in 0 .. Len(mbdevs) BY <1>1, <1>2
    <3> HIDE DEF final
    <3> QED BY <1>1, <1>3, <3>1, MemoryKinds DEF WalkSafe, final
  <2> QED BY <1>3, <2>1, CrashHasCause DEF Faults
<1>4. CASE m > Len(mbdevs) /\ Construct(b) /\ UNCHANGED <<channels, pollerVars, fault>>
  <2>1. \A n \in 1 .. Len(mbdevs) : mbdevs[n].uuid # UuidOf[b]
    BY <1>1, <1>2, <1>4
  <2>2. CASE UNCHANGED mbdevs /\ failures' = failures \cup {"calloc_bdev"}
    BY <1>4, <2>2, ListsStay DEF IndInv, TypeOK, FaultsHaveCauses, ErrorKinds, Register, Running
  <2>3. CASE /\ mbdevs' = Append(mbdevs, [uuid |-> UuidOf[b], memory |-> "live", bdevs |-> <<b>>])
             /\ UNCHANGED failures
    BY <1>4, <2>1, <2>3, NewMbdev DEF Register, IndInv, TypeOK
  <2>4. CASE /\ mbdevs' = Append(mbdevs, [uuid |-> UuidOf[b], memory |-> "freed", bdevs |-> <<b>>])
             /\ failures' = failures \cup {"register"}
    <3>1. failures \subseteq failures' /\ failures' \subseteq ErrorKinds /\ "register" \in failures'
      BY <2>4 DEF IndInv, TypeOK, ErrorKinds
    <3> QED BY <1>4, <2>1, <2>4, <3>1, NewMbdev DEF Register
  <2> QED BY <1>4, <2>2, <2>3, <2>4 DEF Construct
<1>5. CASE m <= Len(mbdevs) /\ WalkSafe(mbdevs, m) /\ AddBdev(m, b, t)
           /\ UNCHANGED pollerVars
  <2> DEFINE serving == ChannelsServing(UuidOf[b])
             stop == IF serving = {} THEN Len(channels) ELSE FirstServing(UuidOf[b])
  <2>1. m \in 1 .. Len(mbdevs) /\ mbdevs[m].uuid = UuidOf[b] /\ mbdevs[m].memory = "live"
    BY <1>1, <1>2, <1>5 DEF WalkSafe
  <2>2. b \notin Aggregated /\ fault = "none"
    BY DEF Register, Running
  <2>3. serving # {} => stop \in serving
    BY FirstServes DEF IndInv, TypeOK
  <2>4. serving \subseteq 1 .. Len(channels) /\ stop \in 0 .. Len(channels)
    BY <1>1, <2>3 DEF ChannelsServing
  <2> HIDE DEF serving, stop
  <2>5. CASE UNCHANGED <<mbdevs, channels, fault>> /\ failures' = failures \cup {"calloc_bdev"}
    BY <1>5, <2>2, <2>5, ListsStay DEF IndInv, TypeOK, FaultsHaveCauses, ErrorKinds
  <2> DEFINE Grows == mbdevs' = Grown(m, b)
             Fails == failures \subseteq failures' /\ failures' \subseteq ErrorKinds
             Faulty == \/ fault' = "none"
                       \/ fault' = "null_deref" /\ "calloc_path" \in failures'
                       \/ fault' = "use_after_free" /\ ~WalkSafe(channels, stop)
             Gains == \E owner \in Threads \cup {NoThread} :
                  /\ channels' = NewPath(stop, b, owner)
                  /\ owner = NoThread => "get_io_channel" \in failures'
             Joins == UNCHANGED channels \/ (stop \in serving /\ Gains)
  <2>6. CASE Grows /\ Fails /\ Faulty /\ Joins
    <3>1. /\ mbdevs' \in Seq(Mbdevs) /\ Len(mbdevs') = Len(mbdevs)
          /\ OneMbdevPerUuid' /\ BdevsOnce'
          /\ \A n \in 1 .. Len(mbdevs) : mbdevs'[n].memory = mbdevs[n].memory
          /\ \A channel \in Channels :
                ChannelSound(channel, mbdevs) => ChannelSound(channel, mbdevs')
      BY <2>1, <2>2, <2>6, BdevJoins
    <3>2. /\ channels' \in Seq(Channels) /\ Len(channels') = Len(channels)
          /\ ChannelsSound'
          /\ \A d \in 1 .. Len(channels) :
                /\ channels'[d].memory = channels[d].memory
                /\ channels'[d].poller = channels[d].poller
                /\ \A k \in 1 .. Len(channels'[d].paths) :
                      channels'[d].paths[k].owner = NoThread => "get_io_channel" \in failures'
      <4>1. CASE UNCHANGED channels
        <5>1. ChannelsSound' BY <3>1, <4>1, ElementOfSeq DEF IndInv, TypeOK, ChannelsSound
        <5> QED BY <2>6, <4>1, <5>1 DEF IndInv, TypeOK, FreedHasCause
      <4>2. CASE stop \in serving /\ Gains
        <5>1. PICK owner \in Threads \cup {NoThread} :
                  /\ channels' = NewPath(stop, b, owner)
                  /\ owner = NoThread => "get_io_channel" \in failures'
          BY <4>2
        <5>2. stop \in ChannelsServing(UuidOf[b]) /\ mbdevs' = Grown(m, b)
          BY <2>6, <4>2 DEF serving
        <5>3. /\ channels' \in Seq(Channels) /\ Len(channels') = Len(channels)
              /\ ChannelsSound'
              /\ \A d \in 1 .. Len(channels) :
                    /\ channels'[d].memory = channels[d].memory
                    /\ channels'[d].poller = channels[d].poller
                    /\ \A k \in 1 .. Len(channels'[d].paths) :
                          \/ channels'[d].paths[k].owner = owner
                          \/ \E l \in 1 .. Len(channels[d].paths) :
                                channels'[d].paths[k].owner = channels[d].paths[l].owner
          BY <2>1, <2>2, <5>1, <5>2, PathJoins
        <5>4. FreedHasCause /\ failures \subseteq failures' BY <2>6 DEF IndInv
        <5>5. ASSUME NEW d \in 1 .. Len(channels), NEW k \in 1 .. Len(channels'[d].paths),
                     channels'[d].paths[k].owner = NoThread
              PROVE  "get_io_channel" \in failures'
          BY <5>1, <5>3, <5>4, <5>5 DEF FreedHasCause
        <5> QED BY <5>3, <5>5
      <4> QED BY <2>6, <4>1, <4>2
    <3>3. TypeOK' BY <1>5, <2>6, <3>1, <3>2 DEF IndInv, TypeOK, Faults, pollerVars
    <3>4. FreedHasCause' BY <2>6, <3>1, <3>2 DEF IndInv, FreedHasCause
    <3>5. FaultsHaveCauses'
      <4>1. ~WalkSafe(channels, stop) => "calloc_path" \in failures
        BY <1>1, <2>4, MemoryKinds DEF WalkSafe, IndInv, FreedHasCause
      <4> QED BY <2>6, <4>1 DEF FaultsHaveCauses
    <3>6. PollersSound' BY <1>5, <2>6, <3>2, PollersStay
    <3> QED BY <3>1, <3>2, <3>3, <3>4, <3>5, <3>6 DEF IndInv
  <2> QED
    <3>1. failures \subseteq ErrorKinds BY DEF IndInv, TypeOK
    <3>2. CASE failures' = failures \cup {"calloc_bdev"} /\ UNCHANGED <<mbdevs, channels, fault>>
      BY <2>5, <3>2
    <3>3. CASE /\ ~WalkSafe(channels, stop) /\ mbdevs' = Grown(m, b)
               /\ fault' = "use_after_free" /\ UNCHANGED <<channels, failures>>
      <4>1. Grows /\ Fails /\ Faulty /\ Joins BY <3>1, <3>3
      <4> QED BY <2>6, <4>1
    <3>4. CASE mbdevs' = Grown(m, b) /\ UNCHANGED <<channels, failures, fault>>
      <4>1. Grows /\ Fails /\ Faulty /\ Joins BY <2>2, <3>1, <3>4
      <4> QED BY <2>6, <4>1
    <3>5. CASE /\ stop \in serving /\ mbdevs' = Grown(m, b) /\ channels' = NewPath(stop, b, t)
               /\ UNCHANGED <<failures, fault>>
      <4>1. Grows /\ Fails /\ Faulty BY <2>2, <3>1, <3>5
      <4>2. Joins BY <3>5, NoThreadAssumption
      <4> QED BY <2>6, <4>1, <4>2
    <3>6. CASE /\ stop \in serving /\ mbdevs' = Grown(m, b) /\ channels' = NewPath(stop, b, NoThread)
               /\ failures' = failures \cup {"get_io_channel"} /\ UNCHANGED fault
      <4>1. Grows /\ Fails /\ Faulty BY <2>2, <3>1, <3>6 DEF ErrorKinds
      <4>2. Joins BY <3>6
      <4> QED BY <2>6, <4>1, <4>2
    <3>7. CASE /\ mbdevs' = Grown(m, b) /\ fault' = "null_deref"
               /\ failures' = failures \cup {"calloc_path"} /\ UNCHANGED channels
      <4>1. Grows /\ Fails /\ Faulty /\ Joins BY <3>1, <3>7 DEF ErrorKinds
      <4> QED BY <2>6, <4>1
    <3> QED
      BY <1>5, <2>3, <3>2, <3>3, <3>4, <3>5, <3>6, <3>7 DEF AddBdev, Grown, serving, stop
<1> QED BY <1>3, <1>4, <1>5 DEF Register, m

OwnersKnown(channel) ==
    \A k \in 1 .. Len(channel.paths) : channel.paths[k].owner # NoThread

(* ump_bdev_channel_create_cb: what a new channel is like. *)
LEMMA OpenedChannel ==
    ASSUME IndInv, NEW q \in Pollers, NEW m \in 1 .. Len(mbdevs), mbdevs[m].memory = "live",
           NEW opened \in Opened(mbdevs[m].bdevs)
    PROVE  /\ NewChannel(q, mbdevs[m].uuid, opened) \in Channels
           /\ ChannelSound(NewChannel(q, mbdevs[m].uuid, opened), mbdevs)
           /\ NewChannel(q, mbdevs[m].uuid, opened).memory = "live"
           /\ NewChannel(q, mbdevs[m].uuid, opened).poller = q
           /\ OwnersKnown(NewChannel(q, mbdevs[m].uuid, opened))
           /\ Len(opened) <= Len(mbdevs[m].bdevs) /\ Len(opened) \in Nat
<1> DEFINE bdevs == mbdevs[m].bdevs
           paths == OpenPaths(opened, q.thread)
           channel == NewChannel(q, mbdevs[m].uuid, opened)
<1>1. mbdevs[m] \in Mbdevs /\ mbdevs[m].uuid \in Uuids
  <2>1. mbdevs[m] \in Mbdevs
    BY ElementOfSeq DEF IndInv, TypeOK
  <2> QED BY <2>1 DEF Mbdevs
<1>2. Len(bdevs) \in Nat
  BY <1>1, LenProperties DEF Mbdevs
<1>3. PICK n \in 0 .. Len(bdevs) : opened \in [1 .. n -> Bdevs]
  BY DEF Opened
<1>4. opened \in Seq(Bdevs) /\ Len(opened) = n /\ DOMAIN opened = 1 .. n
  BY <1>2, <1>3, FunctionIsSequence
<1>5. PICK at \in [1 .. n -> 1 .. Len(bdevs)] : \A i, j \in 1 .. n :
          opened[i] = bdevs[at[i]] /\ (i < j => at[i] < at[j])
  BY <1>4 DEF Opened
<1>6. paths = [k \in 1 .. n |-> [bdev |-> opened[k], owner |-> q.thread, id |-> k - 1]]
  BY <1>4 DEF OpenPaths
<1>7. q.thread \in Threads /\ \A k \in 1 .. n :
          [bdev |-> opened[k], owner |-> q.thread, id |-> k - 1] \in PathRecords
  <2>1. q.thread \in Threads
    BY DEF Pollers
  <2> QED BY <1>2, <1>3, <2>1 DEF PathRecords
<1>8. paths \in [1 .. n -> PathRecords]
  BY <1>6, <1>7
<1>9. /\ paths \in Seq(PathRecords) /\ Len(paths) = n
      /\ \A k \in 1 .. n : /\ paths[k].bdev = opened[k] /\ paths[k].id = k - 1
                          /\ paths[k].owner = q.thread
  BY <1>2, <1>6, <1>8, FunctionIsSequence
<1>10. channel = [poller |-> q, uuid |-> mbdevs[m].uuid, memory |-> "live",
                  paths |-> paths, max_id |-> n]
  BY <1>4 DEF NewChannel
<1> HIDE DEF paths, channel
<1>11. channel \in Channels /\ channel.paths = paths /\ channel.max_id = n
       /\ channel.uuid = mbdevs[m].uuid /\ channel.memory = "live" /\ channel.poller = q
  BY <1>1, <1>2, <1>9, <1>10 DEF Channels
<1>12. IdsArePositions(channel)
  BY <1>9, <1>11 DEF IdsArePositions
<1>13. PathsOnce(channel)
  <2>1. ASSUME NEW k \in 1 .. n, NEW l \in 1 .. n, opened[k] = opened[l]
        PROVE  k = l
    <3>1. bdevs[at[k]] = bdevs[at[l]] /\ at[k] \in 1 .. Len(bdevs) /\ at[l] \in 1 .. Len(bdevs)
      BY <1>5, <2>1
    <3>2. at[k] = at[l] BY <3>1 DEF IndInv, BdevsOnce
    <3>3. (k < l => at[k] < at[l]) /\ (l < k => at[l] < at[k]) BY <1>5
    <3> QED BY <1>2, <3>1, <3>2, <3>3
  <2> QED BY <1>9, <1>11, <2>1 DEF PathsOnce
<1>14. ServedBy(channel, mbdevs[m])
  <2>1. ASSUME NEW k \in 1 .. n
        PROVE  \E l \in 1 .. Len(bdevs) : paths[k].bdev = bdevs[l]
    <3>1. paths[k].bdev = bdevs[at[k]] /\ at[k] \in 1 .. Len(bdevs) BY <1>5, <1>9
    <3> QED BY <3>1
  <2>2. Len(channel.paths) = n /\ n <= Len(bdevs)
    BY <1>2, <1>3, <1>9, <1>11
  <2>3. \A k \in 1 .. Len(channel.paths) : \E l \in 1 .. Len(mbdevs[m].bdevs) :
            channel.paths[k].bdev = mbdevs[m].bdevs[l]
    BY <1>11, <2>1, <2>2
  <2> QED BY <1>11, <2>2, <2>3 DEF ServedBy
<1>15. OwnersKnown(channel)
  BY <1>7, <1>9, <1>11, NoThreadAssumption DEF OwnersKnown
<1> QED BY <1>2, <1>4, <1>11, <1>12, <1>13, <1>14, <1>15 DEF ChannelSound, channel

(* A channel is put at the end of the list. *)
LEMMA ChannelAdded ==
    ASSUME IndInv, NEW channel \in Channels, ChannelSound(channel, mbdevs), OwnersKnown(channel),
           channels' = Append(channels, channel), UNCHANGED mbdevs,
           failures \subseteq failures', failures' \subseteq ErrorKinds,
           channel.memory = "freed" => "calloc_path" \in failures',
           pollers' = pollers \cup {channel.poller},
           io_count_poller' = channel.poller, Unused(channel.poller),
           coexisted' = (coexisted \/ channels # <<>>),
           fault' \in Faults, FaultsHaveCauses'
    PROVE  IndInv'
<1> DEFINE n == Len(channels)
           q == channel.poller
<1>1. /\ channels \in Seq(Channels) /\ channels' \in Seq(Channels)
      /\ Len(channels') = n + 1 /\ n \in Nat
      /\ channels'[n + 1] = channel
      /\ \A c \in 1 .. n : channels'[c] = channels[c]
  BY AppendProperties, LenProperties DEF IndInv, TypeOK
<1>2. \A c \in 1 .. Len(channels') :
          (c \in 1 .. n /\ channels'[c] = channels[c]) \/ (c = n + 1 /\ channels'[c] = channel)
  BY <1>1
<1>3. ChannelsSound'
  BY <1>2 DEF IndInv, ChannelsSound
<1>4. FreedHasCause'
  BY <1>2 DEF IndInv, FreedHasCause, OwnersKnown
<1>5. TypeOK'
  BY <1>1 DEF IndInv, TypeOK, Channels
<1>6. OneMbdevPerUuid' /\ BdevsOnce'
  <2>1. OneMbdevPerUuid /\ BdevsOnce /\ mbdevs' = mbdevs
    BY DEF IndInv
  <2> QED BY <2>1 DEF OneMbdevPerUuid, BdevsOnce
<1>7. GlobalPointsAtLinked'
  <2>1. n + 1 \in 1 .. Len(channels')
    BY <1>1
  <2> QED BY <1>1, <2>1 DEF GlobalPointsAtLinked
<1>8. EveryChannelTicked'
  <2>1. PICK ticker \in [1 .. n -> pollers] : Ticked(ticker, channels)
    BY DEF IndInv, PollersSound, EveryChannelTicked, Ticked
  <2> DEFINE new == [c \in 1 .. Len(channels') |-> IF c \in 1 .. n THEN ticker[c] ELSE q]
  <2>2. new \in [1 .. Len(channels') -> pollers']
    BY <2>1
  <2>3. \A c \in 1 .. Len(channels') :
            \/ c \in 1 .. n /\ new[c] = ticker[c] /\ new[c] # q /\ channels'[c] = channels[c]
            \/ c = n + 1 /\ new[c] = q /\ channels'[c] = channel
    <3>1. q \notin pollers BY DEF Unused
    <3>2. n + 1 \notin 1 .. n BY <1>1
    <3> QED BY <1>2, <2>1, <3>1, <3>2
  <2> HIDE DEF new
  <2>4. Ticked(new, channels')
    BY <2>1, <2>3 DEF Ticked
  <2> QED BY <2>2, <2>4 DEF EveryChannelTicked, Ticked
<1>9. AloneSound'
  <2>1. CASE coexisted' \/ "calloc_path" \in failures'
    BY <2>1 DEF AloneSound
  <2>2. CASE ~(coexisted' \/ "calloc_path" \in failures')
    <3>1. channels = <<>> /\ n = 0 BY <2>2, EmptySeq
    <3>2. Len(channels') = 1 /\ channels'[1] = channel BY <1>1, <3>1
    <3>3. pollers = {}
      <4>1. OwnPollersOnly BY <2>2 DEF IndInv, PollersSound, AloneSound
      <4> QED BY <3>1, <4>1 DEF OwnPollersOnly
    <3>4. \A c \in 1 .. Len(channels') : channels'[c] = channel BY <3>2
    <3>5. OwnPollersOnly' BY <3>2, <3>3, <3>4 DEF OwnPollersOnly
    <3> QED BY <3>2, <3>4, <3>5 DEF AloneSound
  <2> QED BY <2>1, <2>2
<1> QED BY <1>3, <1>4, <1>5, <1>6, <1>7, <1>8, <1>9 DEF IndInv, PollersSound

(* A channel that is opened keeps the invariant. *)
LEMMA OpenStep ==
    ASSUME IndInv, NEW q \in Pollers, NEW m \in 1 .. Len(mbdevs), OpenChannel(q, m)
    PROVE  IndInv'
<1>1. PICK opened \in Opened(mbdevs[m].bdevs) :
          \/ /\ channels' = Append(channels, NewChannel(q, mbdevs[m].uuid, opened))
             /\ fault' = IF Len(opened) > CountSlots THEN "count_overflow" ELSE fault
             /\ UNCHANGED failures
          \/ /\ channels' = Append(channels, FreedChannel(q, mbdevs[m].uuid))
             /\ failures' = failures \cup {"calloc_path"}
             /\ UNCHANGED fault
  BY DEF OpenChannel, Open
<1>2. /\ Running /\ UNCHANGED mbdevs /\ mbdevs[m].memory = "live" /\ Unused(q)
      /\ pollers' = pollers \cup {q} /\ io_count_poller' = q
      /\ coexisted' = (coexisted \/ channels # <<>>)
  BY DEF OpenChannel, Open, Allocated
<1>3. failures \subseteq ErrorKinds
  BY DEF IndInv, TypeOK
<1>4. CASE /\ channels' = Append(channels, NewChannel(q, mbdevs[m].uuid, opened))
           /\ fault' = IF Len(opened) > CountSlots THEN "count_overflow" ELSE fault
           /\ UNCHANGED failures
  <2> DEFINE channel == NewChannel(q, mbdevs[m].uuid, opened)
  <2>1. /\ channel \in Channels /\ ChannelSound(channel, mbdevs) /\ channel.memory = "live"
        /\ channel.poller = q /\ OwnersKnown(channel)
        /\ Len(opened) <= Len(mbdevs[m].bdevs) /\ Len(opened) \in Nat
    BY <1>2, OpenedChannel
  <2>2. mbdevs[m] \in Mbdevs
    BY ElementOfSeq DEF IndInv, TypeOK
  <2>3. Len(mbdevs[m].bdevs) \in Nat
    BY <2>2, LenProperties DEF Mbdevs
  <2>4. FaultsHaveCauses' /\ fault' \in Faults
    BY <1>2, <1>4, <2>1, <2>3, CountSlotsAssumption DEF FaultsHaveCauses, Running, Faults
  <2> HIDE DEF channel
  <2>5. channels' = Append(channels, channel)
    BY <1>4 DEF channel
  <2> QED BY <1>2, <1>3, <1>4, <2>1, <2>4, <2>5, ChannelAdded
<1>5. CASE /\ channels' = Append(channels, FreedChannel(q, mbdevs[m].uuid))
           /\ failures' = failures \cup {"calloc_path"}
           /\ UNCHANGED fault
  <2> DEFINE channel == FreedChannel(q, mbdevs[m].uuid)
             live == NewChannel(q, mbdevs[m].uuid, <<>>)
  <2>1. <<>> \in Opened(mbdevs[m].bdevs)
    <3>1. mbdevs[m] \in Mbdevs BY ElementOfSeq DEF IndInv, TypeOK
    <3>2. Len(mbdevs[m].bdevs) \in Nat BY <3>1, LenProperties DEF Mbdevs
    <3>3. <<>> \in [1 .. 0 -> Bdevs] /\ DOMAIN <<>> = {} /\ 0 \in 0 .. Len(mbdevs[m].bdevs)
      BY <3>2
    <3>4. <<>> \in [DOMAIN <<>> -> 1 .. Len(mbdevs[m].bdevs)] BY <3>3
    <3> QED BY <3>3, <3>4 DEF Opened
  <2>2. live \in Channels /\ ChannelSound(live, mbdevs) /\ live.poller = q /\ OwnersKnown(live)
    BY <1>2, <2>1, OpenedChannel
  <2>3. /\ channel \in Channels /\ channel.memory = "freed" /\ channel.poller = live.poller
        /\ channel.uuid = live.uuid /\ channel.paths = live.paths
        /\ channel.max_id = live.max_id
    BY <2>2 DEF FreedChannel, Channels
  <2> HIDE DEF channel, live
  <2>4. ChannelSound(channel, mbdevs) /\ OwnersKnown(channel)
    <3>1. IdsArePositions(channel) /\ PathsOnce(channel) /\ OwnersKnown(channel)
      BY <2>2, <2>3 DEF ChannelSound, IdsArePositions, PathsOnce, OwnersKnown
    <3>2. PICK n \in 1 .. Len(mbdevs) : ServedBy(live, mbdevs[n])
      BY <2>2 DEF ChannelSound
    <3>3. ServedBy(channel, mbdevs[n]) BY <2>3, <3>2 DEF ServedBy
    <3> QED BY <3>1, <3>3 DEF ChannelSound
  <2>5. channels' = Append(channels, channel)
    BY <1>5 DEF channel
  <2>6. FaultsHaveCauses' /\ fault' \in Faults
    BY <1>2, <1>5 DEF FaultsHaveCauses, Running, Faults
  <2>7. failures \subseteq failures' /\ failures' \subseteq ErrorKinds /\ "calloc_path" \in failures'
    BY <1>3, <1>5 DEF ErrorKinds
  <2> QED BY <1>2, <2>2, <2>3, <2>4, <2>5, <2>6, <2>7, ChannelAdded
<1> QED BY <1>1, <1>4, <1>5

(* A channel is unlinked: whichever of its thread's pollers is unregistered,
   what is left is enough for the channels that are left. *)
LEMMA PollersLeft ==
    ASSUME IndInv, NEW c \in 1 .. Len(channels), channels' = Removed(c),
           pollers' = Unregistered(channels[c].poller.thread), io_count_poller' = NoPoller,
           UNCHANGED <<coexisted, failures>>
    PROVE  PollersSound'
<1> DEFINE n == Len(channels)
           q == io_count_poller
           t == channels[c].poller.thread
<1>1. /\ channels \in Seq(Channels) /\ n \in Nat /\ Len(channels') = n - 1
      /\ \A d \in 1 .. Len(channels') :
            Kept(d, c) \in 1 .. n /\ Kept(d, c) # c /\ channels'[d] = channels[Kept(d, c)]
  BY RemovedList, LenProperties DEF IndInv, TypeOK
<1>2. EveryChannelTicked'
  <2>1. PICK ticker \in [1 .. n -> pollers] : Ticked(ticker, channels)
    BY DEF IndInv, PollersSound, EveryChannelTicked, Ticked
  <2> DEFINE gone == q.thread = t
             new == [d \in 1 .. Len(channels') |->
                        IF gone /\ ticker[Kept(d, c)] = q THEN ticker[c] ELSE ticker[Kept(d, c)]]
  <2>2. pollers' = IF gone THEN pollers \ {q} ELSE pollers
    BY DEF Unregistered
  <2> HIDE DEF gone
  <2>3. /\ \A d \in 1 .. n : ticker[d] \in pollers /\ ticker[d].thread = channels[d].poller.thread
        /\ \A d, e \in 1 .. n : ticker[d] = ticker[e] => d = e
    BY <2>1 DEF Ticked
  <2>4. ASSUME NEW d \in 1 .. Len(channels')
        PROVE  /\ new[d] \in pollers'
               /\ new[d].thread = channels'[d].poller.thread
    <3>1. CASE gone /\ ticker[Kept(d, c)] = q
      <4>1. new[d] = ticker[c] /\ ticker[c] # q /\ ticker[c] \in pollers
        BY <1>1, <2>3, <3>1
      <4>2. ticker[c].thread = t /\ channels'[d].poller.thread = q.thread
        BY <1>1, <2>3, <3>1
      <4> QED BY <2>2, <3>1, <4>1, <4>2 DEF gone
    <3>2. CASE ~(gone /\ ticker[Kept(d, c)] = q)
      BY <1>1, <2>2, <2>3, <3>2
    <3> QED BY <3>1, <3>2
  <2>5. ASSUME NEW d \in 1 .. Len(channels'), NEW e \in 1 .. Len(channels'), new[d] = new[e]
        PROVE  d = e
    <3>1. Kept(d, c) = Kept(e, c) BY <1>1, <2>3, <2>5
    <3> QED BY <1>1, <3>1 DEF Kept
  <2>6. new \in [1 .. Len(channels') -> pollers']
    BY <2>4
  <2> HIDE DEF new
  <2> QED BY <2>4, <2>5, <2>6 DEF EveryChannelTicked
<1>3. AloneSound'
  <2>1. CASE coexisted \/ "calloc_path" \in failures
    BY <2>1 DEF AloneSound
  <2>2. CASE ~(coexisted \/ "calloc_path" \in failures)
    <3>1. n <= 1 /\ OwnPollersOnly /\ \A d \in 1 .. n : channels[d].poller = q
      BY <2>2 DEF IndInv, PollersSound, AloneSound
    <3>2. Len(channels') = 0 /\ \A d \in 1 .. Len(channels') : FALSE BY <1>1, <3>1
    <3>3. pollers' = {} BY <3>1 DEF OwnPollersOnly, Unregistered
    <3>4. OwnPollersOnly' BY <3>2, <3>3 DEF OwnPollersOnly
    <3> QED BY <3>2, <3>4 DEF AloneSound
  <2> QED BY <2>1, <2>2
<1> QED BY <1>2, <1>3 DEF PollersSound, GlobalPointsAtLinked

(* ump_bdev_channel_destroy_cb: the channel leaves the list, or the
   process ends. *)
LEMMA CloseStep ==
    ASSUME IndInv, NEW c \in 1 .. Len(channels), CloseChannel(c)
    PROVE  IndInv'
<1> DEFINE safe == \A d \in Neighbours(c) : channels[d].memory = "live"
           puttable == \A k \in 1 .. Len(channels[c].paths) : channels[c].paths[k].owner # NoThread
<1>1. Running /\ UNCHANGED failures
  BY DEF CloseChannel, Close
<1>2. CASE /\ channels' = Removed(c) /\ pollers' = Unregistered(channels[c].poller.thread)
           /\ io_count_poller' = NoPoller /\ UNCHANGED <<mbdevs, coexisted, fault>>
  <2>1. channels \in Seq(Channels)
    BY DEF IndInv, TypeOK
  <2>2. /\ channels' \in Seq(Channels)
        /\ \A d \in 1 .. Len(channels') : \E e \in 1 .. Len(channels) : channels'[d] = channels[e]
    BY <1>2, <2>1, RemovedList
  <2>3. pollers' \subseteq Pollers
    BY <1>2 DEF IndInv, TypeOK, Unregistered
  <2>4. TypeOK'
    BY <1>1, <1>2, <2>2, <2>3 DEF IndInv, TypeOK
  <2>5. ChannelsSound'
    BY <1>2, <2>2 DEF IndInv, ChannelsSound
  <2>6. FreedHasCause'
    BY <1>1, <1>2, <2>2 DEF IndInv, FreedHasCause
  <2>7. PollersSound' /\ FaultsHaveCauses'
    BY <1>1, <1>2, PollersLeft DEF FaultsHaveCauses, Running
  <2>8. OneMbdevPerUuid' /\ BdevsOnce'
    BY <1>2 DEF IndInv, OneMbdevPerUuid, BdevsOnce
  <2> QED BY <2>4, <2>5, <2>6, <2>7, <2>8 DEF IndInv
<1>3. CASE safe /\ ~puttable /\ Crash("null_deref")
  BY <1>1, <1>3, CrashHasCause DEF Faults
<1>4. CASE ~safe /\ Crash("use_after_free")
  <2>1. \E d \in 1 .. Len(channels) : channels[d].memory = "freed"
    BY <1>4, MemoryKinds DEF Neighbours
  <2> QED BY <1>1, <1>4, <2>1, CrashHasCause DEF Faults
<1> QED BY <1>2, <1>3, <1>4 DEF CloseChannel, Close

(* The other ways in which the process ends. *)
LEMMA OtherSteps ==
    ASSUME IndInv,
           \/ CountTick
           \/ \E t \in Threads, m \in 1 .. Len(mbdevs) : OpenAfterFreedChannel(t, m)
           \/ \E c \in 1 .. Len(channels) : CountIo(c)
    PROVE  IndInv'
<1>1. channels \in Seq(Channels) /\ Len(channels) \in Nat
  BY LenProperties DEF IndInv, TypeOK
<1>2. CASE CountTick
  <2>1. /\ ~WalkSafe(channels, Len(channels)) /\ Crash("use_after_free") /\ UNCHANGED failures
    BY <1>2 DEF CountTick
  <2>2. \E c \in 1 .. Len(channels) : channels[c].memory = "freed"
    BY <2>1, MemoryKinds DEF WalkSafe
  <2> QED BY <2>1, <2>2, CrashHasCause DEF Faults
<1>3. CASE \E t \in Threads, m \in 1 .. Len(mbdevs) : OpenAfterFreedChannel(t, m)
  <2>1. /\ channels # <<>> /\ channels[Len(channels)].memory = "freed"
        /\ Crash("use_after_free") /\ UNCHANGED failures
    BY <1>3 DEF OpenAfterFreedChannel
  <2>2. Len(channels) \in 1 .. Len(channels)
    BY <1>1, <2>1, EmptySeq
  <2> QED BY <2>1, <2>2, CrashHasCause DEF Faults
<1>4. CASE \E c \in 1 .. Len(channels) : CountIo(c)
  <2>1. PICK c \in 1 .. Len(channels) : CountIo(c)
    BY <1>4
  <2>2. PICK k \in 1 .. Len(channels[c].paths) : channels[c].paths[k].id >= CountSlots
    BY <2>1 DEF CountIo
  <2>3. channels[c].paths[k].id = k - 1
    BY DEF IndInv, ChannelsSound, ChannelSound, IdsArePositions
  <2>4. Len(channels[c].paths) \in Nat
    <3>1. channels[c] \in Channels BY <1>1, ElementOfSeq
    <3> QED BY <3>1, LenProperties DEF Channels
  <2>5. Len(channels[c].paths) > CountSlots
    BY <2>2, <2>3, <2>4, CountSlotsAssumption
  <2> QED BY <2>1, <2>5, CrashHasCause DEF CountIo, Faults
<1> QED BY <1>2, <1>3, <1>4

---------------------------------------------------------------------------
(* The theorems *)

(* The invariant holds in every state of the registry. *)
LEMMA Invariance == Spec => []IndInv
<1>1. Init => IndInv
  <2> SUFFICES ASSUME Init PROVE IndInv
    OBVIOUS
  <2>1. mbdevs \in Seq(Mbdevs) /\ Len(mbdevs) = 0 /\ channels \in Seq(Channels) /\ Len(channels) = 0
    BY EmptySeq DEF Init
  <2>2. TypeOK
    BY <2>1 DEF Init, TypeOK, Faults
  <2>3. PollersSound
    <3>1. GlobalPointsAtLinked /\ AloneSound
      BY <2>1 DEF Init, GlobalPointsAtLinked, AloneSound, OwnPollersOnly
    <3>2. <<>> \in [1 .. Len(channels) -> pollers] /\ \A c \in 1 .. Len(channels) : FALSE
      BY <2>1
    <3> QED BY <3>1, <3>2 DEF PollersSound, EveryChannelTicked
  <2> QED
    BY <2>1, <2>2, <2>3 DEF Init, IndInv, OneMbdevPerUuid, BdevsOnce, ChannelsSound,
                            FreedHasCause, FaultsHaveCauses
<1>2. IndInv /\ [Next]_vars => IndInv'
  <2> SUFFICES ASSUME IndInv, [Next]_vars PROVE IndInv'
    OBVIOUS
  <2>1. CASE UNCHANGED vars
    BY <2>1, ListsStay DEF vars, IndInv, TypeOK, FaultsHaveCauses
  <2>2. ASSUME NEW t \in Threads, NEW b \in Bdevs, Register(b, t) PROVE IndInv'
    BY <2>2, RegisterStep
  <2>3. ASSUME NEW q \in Pollers, NEW m \in 1 .. Len(mbdevs), OpenChannel(q, m) PROVE IndInv'
    BY <2>3, OpenStep
  <2>4. ASSUME NEW c \in 1 .. Len(channels), CloseChannel(c) PROVE IndInv'
    BY <2>4, CloseStep
  <2> QED BY <2>1, <2>2, <2>3, <2>4, OtherSteps DEF Next
<1> QED BY <1>1, <1>2, PTL DEF Spec

(* Every variable of the registry keeps its type. *)
THEOREM RegistryTyping == Spec => []TypeOK
<1>1. IndInv => TypeOK
  BY DEF IndInv
<1> QED BY <1>1, Invariance, PTL

(* The registry keeps its shape through registrations on any thread while
   channels are opened and closed: one ump_bdev per uuid, and channels
   whose paths have their ids and are distinct replicas of its namespace. *)
THEOREM ShapeKept == Spec => []RegistryShape
<1>1. IndInv => RegistryShape
  <2> SUFFICES ASSUME IndInv, NEW c \in 1 .. Len(channels)
               PROVE  IdsArePositions(channels[c]) /\ PathsAreDistinctReplicas(channels[c])
    BY DEF RegistryShape, IndInv
  <2>1. IdsArePositions(channels[c]) /\ PathsOnce(channels[c])
    BY DEF IndInv, ChannelsSound, ChannelSound
  <2>2. PICK m \in 1 .. Len(mbdevs) : ServedBy(channels[c], mbdevs[m])
    BY DEF IndInv, ChannelsSound, ChannelSound
  <2>3. \A k \in 1 .. Len(channels[c].paths) : UuidOf[channels[c].paths[k].bdev] = channels[c].uuid
    <3>1. \A l \in 1 .. Len(mbdevs[m].bdevs) : UuidOf[mbdevs[m].bdevs[l]] = mbdevs[m].uuid
      BY DEF IndInv, OneMbdevPerUuid
    <3> QED BY <2>2, <3>1 DEF ServedBy
  <2> QED BY <2>1, <2>3 DEF PathsOnce, PathsAreDistinctReplicas
<1> QED BY <1>1, Invariance, PTL

(* Closing a channel may unregister another channel's count poller, or
   none.  Still the global never dangles and a thread keeps a poller for
   each of its channels; and a poller outlives its channel, or a channel
   loses its own, only if channels were linked at the same time or the
   creation of one failed. *)
THEOREM PollersCounted == Spec => []CountPollers
<1>1. IndInv => CountPollers
  BY DEF IndInv, PollersSound, AloneSound, CountPollers
<1> QED BY <1>1, Invariance, PTL

(* Accesses to freed memory come only from a failed spdk_bdev_register or
   a failed iopath allocation, NULL pointers from a failed allocation or
   get_io_channel, and count[] overflows only with more bdevs of one uuid
   than it has elements. *)
THEOREM Causes == Spec => []FaultsHaveCauses
<1>1. IndInv => FaultsHaveCauses
  BY DEF IndInv
<1> QED BY <1>1, Invariance, PTL

-------------------------------------------------------------------------------
(* The statistics *)

LoadOf(out) == [p \in Paths |-> out[p]["read"] + out[p]["write"]]

(* Every I/O that is out was submitted once. *)
LoadIsSubmitted == Total(LoadOf(inflight), Paths) <= submitted

SomeAvailable == AvailablePaths(NumPaths, available) # {}

QueueRecords == [list : Seq(Nat), len : Nat, all : Nat, avg : Nat]

QueueSound(q) ==
    /\ q \in QueueRecords
    /\ q.len = Len(q.list) /\ q.len <= Window
    /\ q.all = SumFunction(q.list)
    /\ q.len > 0 => q.avg = q.all \div q.len

QueuesSound ==
    /\ times \in [Paths -> [Kinds -> QueueRecords]]
    /\ \A p \in Paths, k \in Kinds : QueueSound(times[p][k])

(* For how many choices of its channel, this one included, round robin may
   still pass path p by when nothing sets the turn back. *)
Left(t, p) ==
    IF t <= p THEN p - t + 1 ELSE IF t <= NumPaths THEN NumPaths - t + p + 1 ELSE p + 1

(* How long a path has waited and how long it may still have to. *)
WaitsBounded == \A p \in Paths : waits[p] + Left(turn, p) <= NumPaths

TurnSound ==
    /\ turn \in Nat /\ (turn <= NumPaths \/ turn <= OtherPaths)
    /\ waits \in [Paths -> Nat]
    /\ WaitsBounded

(* A path is out of use only because an I/O failed on it. *)
MarkedHasFailed == \A p \in Paths : ~available[p] => failed[p] > 0

BalanceInv ==
    /\ BalanceTypeOK
    /\ SomeAvailable
    /\ LoadIsSubmitted
    /\ QueuesSound
    /\ IncompleteAccounting
    /\ WaitsBounded
    /\ MarkedHasFailed

-------------------------------------------------------------------------------
(* The selectors *)

(* The paths are numbered from 0. *)
LEMMA PathsAreNumbers ==
    /\ Paths \subseteq Nat /\ IsFiniteSet(Paths) /\ NumPaths \in 1 .. 4
    /\ Paths = 0 .. NumPaths - 1
<1>1. NumPaths \in 1 .. 4 /\ Paths = 0 .. NumPaths - 1
  BY NumPathsAssumption DEF Paths, PathIds
<1> QED BY <1>1, FS_Interval

(* The first available path is one, and none before it is. *)
LEMMA FirstAvailableIsFirst ==
    ASSUME NEW n \in Nat, NEW av, AvailablePaths(n, av) # {}
    PROVE  /\ FirstAvailable(n, av) \in AvailablePaths(n, av)
           /\ \A q \in AvailablePaths(n, av) : FirstAvailable(n, av) <= q
<1> DEFINE A == AvailablePaths(n, av)
<1>1. A \subseteq Nat
  BY DEF AvailablePaths, PathIds
<1> HIDE DEF A
<1>2. \E p \in A : \A q \in A : p <= q
  BY <1>1, LeastNumber DEF A
<1>3. FirstAvailable(n, av) = CHOOSE p \in A : \A q \in A : p <= q
  BY DEF FirstAvailable, A
<1>4. FirstAvailable(n, av) \in A /\ \A q \in A : FirstAvailable(n, av) <= q
  BY <1>2, <1>3
<1> QED BY <1>4 DEF A

(* The cheapest path is available and none is cheaper. *)
LEMMA CheapestIsCheapest ==
    ASSUME NEW av, AvailablePaths(NumPaths, av) # {},
           NEW cost, \A p \in Paths : cost[p] \in Nat
    PROVE  LET c == CheapestPath(NumPaths, av, cost)
           IN  /\ c \in AvailablePaths(NumPaths, av)
               /\ \A q \in AvailablePaths(NumPaths, av) : cost[c] <= cost[q]
<1> DEFINE A == AvailablePaths(NumPaths, av)
           costs == {cost[p] : p \in A}
           cheapest == {p \in A : \A q \in A : cost[p] <= cost[q]}
<1>1. A \subseteq Paths /\ A \subseteq Nat
  BY PathsAreNumbers DEF AvailablePaths, Paths
<1>2. PICK least \in costs : \A c \in costs : least <= c
  <2>1. costs \subseteq Nat /\ costs # {}
    BY <1>1
  <2> HIDE DEF costs
  <2> QED BY <2>1, LeastNumber
<1>3. cheapest # {} /\ cheapest \subseteq Nat
  BY <1>1, <1>2
<1>4. \E p \in cheapest : \A q \in cheapest : p <= q
  <2> HIDE DEF cheapest
  <2> QED BY <1>3, LeastNumber
<1>5. CheapestPath(NumPaths, av, cost) = CHOOSE p \in cheapest : \A q \in cheapest : p <= q
  BY DEF CheapestPath
<1>6. CheapestPath(NumPaths, av, cost) \in cheapest
  <2> HIDE DEF cheapest
  <2> QED BY <1>4, <1>5
<1> QED BY <1>6

(* Every selector chooses an available path; round robin leaves its turn
   after it. *)
LEMMA ChosenIsAvailable ==
    ASSUME BalanceTypeOK, QueuesSound,
           NEW av \in [Paths -> BOOLEAN], AvailablePaths(NumPaths, av) # {},
           NEW kind \in Kinds, NEW offset \in Offsets,
           NEW p \in Selectable(av, kind, offset)
    PROVE  /\ p \in Paths /\ av[p]
           /\ policy = "round_robin" => /\ p = RoundRobin(NumPaths, av, turn).path
                                        /\ RoundRobin(NumPaths, av, turn).turn = p + 1
<1> DEFINE A == AvailablePaths(NumPaths, av)
<1>1. A \subseteq Paths /\ \A q \in A : av[q]
  BY DEF AvailablePaths, Paths
<1>2. FirstAvailable(NumPaths, av) \in A
  BY FirstAvailableIsFirst, PathsAreNumbers
<1>3. CASE policy = "hash"
  <2>1. offset \in Nat /\ NumPaths \in Nat \ {0}
    BY OffsetsAssumption, NumPathsAssumption
  <2> DEFINE chosen == (offset \div 1) % NumPaths
  <2>2. chosen \in Paths
    BY <2>1, PathsAreNumbers
  <2>3. p = IF av[chosen] THEN chosen ELSE FirstAvailable(NumPaths, av)
    BY <1>3 DEF Selectable, HashPath
  <2> HIDE DEF chosen
  <2> QED BY <1>1, <1>2, <1>3, <2>2, <2>3
<1>4. CASE policy = "round_robin"
  <2>1. p = RoundRobin(NumPaths, av, turn).path
    BY <1>4 DEF Selectable
  <2>2. CASE turn \in PathIds(NumPaths) /\ av[turn]
    BY <2>1, <2>2 DEF RoundRobin, Paths
  <2>3. CASE ~(turn \in PathIds(NumPaths) /\ av[turn])
    BY <1>1, <1>2, <2>1, <2>3 DEF RoundRobin
  <2> QED BY <2>2, <2>3
<1>5. CASE policy = "service_time"
  <2> DEFINE cost == [q \in Paths |-> times[q][kind].avg]
  <2>1. \A q \in Paths : cost[q] \in Nat
    BY DEF QueuesSound, QueueRecords
  <2>2. p = CheapestPath(NumPaths, av, cost)
    BY <1>5 DEF Selectable
  <2> HIDE DEF cost
  <2>3. p \in A
    BY <2>1, <2>2, CheapestIsCheapest
  <2> QED BY <1>1, <1>5, <2>3
<1>6. CASE policy = "queue_length"
  <2>1. \A q \in Paths : io_incomplete[q] \in Nat
    BY CounterModAssumption DEF BalanceTypeOK
  <2>2. p = CheapestPath(NumPaths, av, io_incomplete)
    BY <1>6 DEF Selectable
  <2>3. p \in A
    BY <2>1, <2>2, CheapestIsCheapest
  <2> QED BY <1>1, <1>6, <2>3
<1>7. CASE policy = "random"
  BY <1>1, <1>7 DEF Selectable, RandomPaths
<1>8. CASE policy = "weighted"
  BY <1>1, <1>8 DEF Selectable, WeightedPaths
<1>9. policy \in AllPolicies
  BY PoliciesAssumption DEF BalanceTypeOK
<1> QED BY <1>3, <1>4, <1>5, <1>6, <1>7, <1>8, <1>9 DEF AllPolicies

-------------------------------------------------------------------------------
(* The load *)

Loads == [Paths -> [Kinds -> Nat]]

(* No path has more I/Os out than all of them. *)
LEMMA LoadOfOnePath ==
    ASSUME NEW out \in Loads, NEW p \in Paths
    PROVE  /\ LoadOf(out) \in [Paths -> Nat] /\ Total(LoadOf(out), Paths) \in Nat
           /\ \A k \in Kinds : out[p][k] <= Total(LoadOf(out), Paths)
<1> DEFINE load == LoadOf(out)
<1>1. load \in [Paths -> Nat] /\ load[p] = out[p]["read"] + out[p]["write"]
  BY DEF Loads, LoadOf, Kinds
<1>2. out[p]["read"] \in Nat /\ out[p]["write"] \in Nat
  BY DEF Loads, Kinds
<1> HIDE DEF load
<1>3. IsFiniteSet(Paths) /\ IsFiniteSet(Paths \ {p})
  BY PathsAreNumbers, FS_RemoveElement
<1>4. Total(load, Paths) = load[p] + Total(load, Paths \ {p})
  BY <1>1, <1>3, TotalWithout
<1>5. Total(load, Paths) \in Nat /\ Total(load, Paths \ {p}) \in Nat
  BY <1>1, <1>3, TotalNat
<1>6. \A k \in Kinds : out[p][k] <= Total(load, Paths)
  BY <1>1, <1>2, <1>4, <1>5 DEF Kinds
<1> QED BY <1>1, <1>5, <1>6 DEF load

(* The I/Os of one kind out on one path change. *)
LEMMA LoadChanged ==
    ASSUME NEW out \in Loads, NEW p \in Paths, NEW k \in Kinds, NEW new \in Loads,
           \A q \in Paths, l \in Kinds : q # p \/ l # k => new[q][l] = out[q][l]
    PROVE  LET d == new[p][k] - out[p][k]
           IN  /\ Total(LoadOf(new), Paths) = Total(LoadOf(out), Paths) + d
               /\ LoadOf(new)[p] = LoadOf(out)[p] + d
               /\ \A q \in Paths : q # p => LoadOf(new)[q] = LoadOf(out)[q]
<1> DEFINE d == new[p][k] - out[p][k]
<1>1. LoadOf(new)[p] = LoadOf(out)[p] + d
  BY DEF Loads, LoadOf, Kinds
<1>2. \A q \in Paths : q # p => LoadOf(new)[q] = LoadOf(out)[q]
  BY DEF Loads, LoadOf, Kinds
<1>3. LoadOf(out) \in [Paths -> Nat] /\ LoadOf(new) \in [Paths -> Nat] /\ IsFiniteSet(Paths)
  BY LoadOfOnePath, PathsAreNumbers
<1>4. Total(LoadOf(new), Paths) = Total(LoadOf(out), Paths) + (LoadOf(new)[p] - LoadOf(out)[p])
  BY <1>2, <1>3, TotalChanged
<1>5. LoadOf(new)[p] - LoadOf(out)[p] = d
  <2>1. d \in Int
    BY DEF Loads
  <2> QED BY <1>1, <1>3, <2>1
<1> QED BY <1>1, <1>2, <1>4, <1>5

-------------------------------------------------------------------------------
(* The latency queues *)

(* An empty latency queue describes its list. *)
LEMMA EmptyQueueSound == QueueSound(EmptyQueue) /\ EmptyQueue \in QueueRecords
<1>1. <<>> \in Seq(Nat) /\ Len(<<>>) = 0
  OBVIOUS
<1> QED BY <1>1, SumOfEmpty, WindowAssumption DEF QueueSound, QueueRecords, EmptyQueue

(* update_io_time_detail keeps a queue's counters those of its list. *)
LEMMA RecordKeepsSound ==
    ASSUME NEW q, QueueSound(q), NEW time \in Nat
    PROVE  QueueSound(Record(q, time)) /\ Record(q, time) \in QueueRecords
<1> DEFINE list == Append(q.list, time)
           all == q.all + time
<1>1. /\ q.list \in Seq(Nat) /\ q.len \in Nat /\ q.all \in Nat
      /\ q.len = Len(q.list) /\ q.len <= Window /\ q.all = SumFunction(q.list)
  BY DEF QueueSound, QueueRecords
<1>2. /\ list \in Seq(Nat) /\ Len(list) = q.len + 1 /\ list # <<>>
      /\ SumFunction(list) = all
  <2>1. q.list \in Seq(Int) /\ time \in Int
    BY <1>1
  <2>2. SumFunction(list) = SumFunction(q.list) + time
    BY <2>1, SumOfAppend
  <2>3. list \in Seq(Nat) /\ Len(list) = Len(q.list) + 1 /\ list # <<>>
    BY <1>1, AppendProperties
  <2> QED BY <1>1, <2>2, <2>3
<1>3. all \in Nat
  BY <1>1
<1> HIDE DEF list, all
<1>4. CASE q.len < Window
  <2> DEFINE n == q.len + 1
             avg == all \div n
  <2>0. n \in Nat /\ n > 0 /\ n <= Window
    BY <1>1, <1>4, WindowAssumption
  <2>1. avg \in Nat
    BY <1>3, <2>0
  <2>2. Record(q, time) = [list |-> list, len |-> n, all |-> all, avg |-> avg]
    BY <1>4 DEF Record, list, all
  <2> HIDE DEF avg
  <2>3. Len(list) = n
    BY <1>2
  <2> HIDE DEF n
  <2>4. avg = all \div n
    BY DEF avg, n
  <2> QED BY <1>2, <1>3, <2>0, <2>1, <2>2, <2>3, <2>4 DEF QueueSound, QueueRecords
<1>5. CASE ~(q.len < Window)
  <2> DEFINE tail == Tail(list)
             rest == all - Head(list)
             n == q.len
             avg == rest \div n
  <2>1. q.len = Window /\ n \in Nat /\ n > 0
    BY <1>1, <1>5, WindowAssumption
  <2>2. tail \in Seq(Nat) /\ Len(tail) = n
    BY <1>1, <1>2, HeadTailProperties
  <2>3. SumFunction(tail) = rest
    BY <1>2, SumOfTail, SumOfNaturals
  <2>4. rest \in Nat
    BY <2>2, <2>3, SumOfNaturals
  <2>5. avg \in Nat
    BY <2>1, <2>4
  <2>6. Record(q, time) = [list |-> tail, len |-> n, all |-> rest, avg |-> avg]
    BY <1>5 DEF Record, list, all
  <2>7. avg = rest \div n
    OBVIOUS
  <2> HIDE DEF tail, rest, n, avg
  <2>8. n <= Window
    BY <2>1, WindowAssumption DEF n
  <2> QED BY <2>1, <2>2, <2>3, <2>4, <2>5, <2>6, <2>7, <2>8 DEF QueueSound, QueueRecords
<1> QED BY <1>4, <1>5

-------------------------------------------------------------------------------
(* What a dispatch and the other parts of an action keep *)

(* The I/Os out on any path fit the bound. *)
LEMMA InflightFits ==
    ASSUME NEW out \in Loads, NEW n \in 0 .. MaxIos, Total(LoadOf(out), Paths) <= n
    PROVE  out \in [Paths -> [Kinds -> 0 .. MaxIos]]
<1>1. ASSUME NEW p \in Paths, NEW k \in Kinds PROVE out[p][k] \in 0 .. MaxIos
  <2>1. out[p][k] \in Nat
    BY DEF Loads
  <2>2. Total(LoadOf(out), Paths) \in Nat /\ out[p][k] <= Total(LoadOf(out), Paths)
    BY LoadOfOnePath
  <2> QED BY <2>1, <2>2, MaxIosAssumption
<1> QED BY <1>1 DEF Loads

(* The count of path p, from what it counts. *)
Counted(out, done, lost, p) ==
    (IF policy = "queue_length" THEN LoadOf(out)[p] + lost[p] ELSE 0 - done[p]) % CounterMod

(* The accounting of each path, by what it counts under the policy. *)
LEMMA AccountingRestated ==
    IncompleteAccounting <=>
        \A p \in Paths : io_incomplete[p] = Counted(inflight, completed, failed, p)
  BY DEF IncompleteAccounting, Counted, LoadOf, Outstanding

(* No path may still have to wait for more than a round. *)
LEMMA LeftBounded ==
    ASSUME NEW t \in Nat, NEW p \in Paths
    PROVE  Left(t, p) \in 1 .. NumPaths
<1>1. p \in 0 .. NumPaths - 1 /\ NumPaths \in Nat
  BY PathsAreNumbers
<1> QED BY <1>1 DEF Left

(* A choice brings the turn nearer to each path that it passes by, unless
   the path is behind a gap. *)
LEMMA TurnNearer ==
    ASSUME NEW t \in Nat, NEW av \in [Paths -> BOOLEAN], AvailablePaths(NumPaths, av) # {},
           NEW q \in Paths, q # RoundRobin(NumPaths, av, t).path, av[q], ~BehindGap(q, av)
    PROVE  Left(RoundRobin(NumPaths, av, t).turn, q) + 1 <= Left(t, q)
<1> DEFINE n == NumPaths
           first == FirstAvailable(n, av)
<1>1. Paths = 0 .. n - 1 /\ n \in Nat /\ PathIds(n) = Paths
  BY PathsAreNumbers DEF Paths
<1>2. CASE t \in Paths /\ av[t]
  <2>1. RoundRobin(n, av, t) = [path |-> t, turn |-> t + 1]
    BY <1>1, <1>2 DEF RoundRobin
  <2>2. q # t /\ RoundRobin(n, av, t).turn = t + 1
    BY <2>1
  <2>3. Left(t + 1, q) + 1 <= Left(t, q)
    BY <1>1, <1>2, <2>2 DEF Left
  <2> QED BY <2>2, <2>3
<1>3. CASE ~(t \in Paths /\ av[t])
  <2>1. RoundRobin(n, av, t) = [path |-> first, turn |-> first + 1]
    BY <1>1, <1>3 DEF RoundRobin
  <2>2. q # first /\ RoundRobin(n, av, t).turn = first + 1
    BY <2>1
  <2>3. /\ first \in Paths /\ av[first]
        /\ \A p \in Paths : av[p] => first <= p
    BY <1>1, FirstAvailableIsFirst DEF AvailablePaths
  <2> HIDE DEF first
  <2>4. first < q
    BY <1>1, <2>2, <2>3
  <2>5. t < q => t < first
    <3>1. ASSUME t < q, first < t PROVE FALSE
      <4>1. t \in 0 .. q - 1 /\ first \in 0 .. t - 1 /\ ~av[t] BY <1>1, <1>3, <2>3, <3>1
      <4> QED BY <2>3, <4>1 DEF BehindGap
    <3>2. t < q => t # first BY <1>1, <1>3, <2>3
    <3> QED BY <1>1, <2>3, <3>1, <3>2
  <2>6. t # q
    BY <1>3
  <2>7. Left(first + 1, q) + 1 <= Left(t, q)
    BY <1>1, <2>3, <2>4, <2>5, <2>6 DEF Left
  <2> QED BY <2>2, <2>7
<1> QED BY <1>2, <1>3

(* A choice keeps the bound on how long the paths wait. *)
LEMMA TurnKept ==
    ASSUME TurnSound, NEW av \in [Paths -> BOOLEAN], AvailablePaths(NumPaths, av) # {},
           NEW p \in Paths,
           policy = "round_robin" =>
               p = RoundRobin(NumPaths, av, turn).path /\ RoundRobin(NumPaths, av, turn).turn = p + 1,
           TakeTurn(p, av)
    PROVE  TurnSound'
<1>1. CASE policy = "round_robin"
  <2>1. turn' = p + 1 /\ waits' = Waited(p, av) /\ turn \in Nat /\ waits \in [Paths -> Nat]
    BY <1>1 DEF TakeTurn, TurnSound
  <2>2. turn' \in Nat /\ turn' <= NumPaths
    BY <2>1, PathsAreNumbers
  <2>3. waits' \in [Paths -> Nat]
    BY <2>1 DEF Waited
  <2>4. ASSUME NEW q \in Paths PROVE waits'[q] + Left(turn', q) <= NumPaths
    <3>1. Left(turn', q) \in 1 .. NumPaths /\ Left(turn, q) \in 1 .. NumPaths
      BY <2>1, <2>2, LeftBounded
    <3>2. CASE q = p \/ ~av[q] \/ BehindGap(q, av)
      <4>1. waits'[q] = 0 BY <2>1, <3>2 DEF Waited
      <4> QED BY <3>1, <4>1
    <3>3. CASE ~(q = p \/ ~av[q] \/ BehindGap(q, av))
      <4>1. waits'[q] = waits[q] + 1 BY <2>1, <3>3 DEF Waited
      <4>2. Left(turn', q) + 1 <= Left(turn, q) BY <1>1, <2>1, <3>3, TurnNearer
      <4>3. waits[q] + Left(turn, q) <= NumPaths /\ waits[q] \in Nat
        BY <2>1 DEF TurnSound, WaitsBounded
      <4> QED BY <3>1, <4>1, <4>2, <4>3, PathsAreNumbers
    <3> QED BY <3>2, <3>3
  <2> QED BY <2>2, <2>3, <2>4 DEF TurnSound, WaitsBounded
<1>2. CASE policy # "round_robin"
  BY <1>2 DEF TakeTurn, TurnSound, WaitsBounded
<1> QED BY <1>1, <1>2

(* What a selector's choice does to the turn, the load and the count. *)
LEMMA DispatchKeeps ==
    ASSUME BalanceInv, NEW av \in [Paths -> BOOLEAN], AvailablePaths(NumPaths, av) # {},
           NEW kind \in Kinds, NEW offset \in Offsets,
           NEW p \in Selectable(av, kind, offset), NEW out \in Loads,
           NEW lost \in [Paths -> Nat],
           \A q \in Paths : io_incomplete[q] = Counted(out, completed, lost, q),
           Dispatch(p, av, kind, out), policy' = policy
    PROVE  /\ TurnSound'
           /\ io_incomplete' \in [Paths -> 0 .. CounterMod - 1]
           /\ inflight' \in Loads
           /\ Total(LoadOf(inflight'), Paths) = Total(LoadOf(out), Paths) + 1
           /\ \A q \in Paths : io_incomplete'[q] = Counted(inflight', completed, lost, q)
           /\ p \in Paths /\ av[p]
<1>1. /\ p \in Paths /\ av[p]
      /\ policy = "round_robin" => /\ p = RoundRobin(NumPaths, av, turn).path
                                   /\ RoundRobin(NumPaths, av, turn).turn = p + 1
  BY ChosenIsAvailable DEF BalanceInv
<1>2. TurnSound'
  <2>1. TurnSound /\ TakeTurn(p, av)
    BY DEF BalanceInv, BalanceTypeOK, TurnSound, Dispatch
  <2> QED BY <1>1, <2>1, TurnKept
<1>3. /\ inflight' \in Loads /\ inflight'[p][kind] = out[p][kind] + 1 /\ out[p][kind] \in Nat
      /\ \A q \in Paths, l \in Kinds : q # p \/ l # kind => inflight'[q][l] = out[q][l]
  BY <1>1 DEF Dispatch, Loads
<1>4. /\ Total(LoadOf(inflight'), Paths) = Total(LoadOf(out), Paths) + 1
      /\ LoadOf(inflight')[p] = LoadOf(out)[p] + 1
      /\ \A q \in Paths : q # p => LoadOf(inflight')[q] = LoadOf(out)[q]
  <2>1. inflight'[p][kind] - out[p][kind] = 1
    BY <1>3
  <2> QED BY <1>1, <1>3, <2>1, LoadChanged
<1>5. LoadOf(out) \in [Paths -> Nat] /\ completed \in [Paths -> Nat]
  BY <1>1, LoadOfOnePath DEF BalanceInv, BalanceTypeOK
<1>6. ASSUME NEW q \in Paths
      PROVE  io_incomplete'[q] = Counted(inflight', completed, lost, q)
             /\ io_incomplete'[q] \in 0 .. CounterMod - 1
  <2>1. io_incomplete[q] \in 0 .. CounterMod - 1 /\ io_incomplete \in [Paths -> 0 .. CounterMod - 1]
    BY DEF BalanceInv, BalanceTypeOK
  <2>2. CASE policy = "queue_length" /\ q = p
    <3> DEFINE a == LoadOf(out)[p] + lost[p]
    <3>1. a \in Int /\ LoadOf(inflight')[p] + lost[p] = a + 1 BY <1>1, <1>4, <1>5
    <3>2. io_incomplete[p] = a % CounterMod BY <1>1, <2>2 DEF Counted
    <3>3. io_incomplete'[p] = (io_incomplete[p] + 1) % CounterMod
      BY <1>1, <2>1, <2>2 DEF Dispatch
    <3>4. Counted(inflight', completed, lost, p) = (a + 1) % CounterMod
      BY <2>2, <3>1 DEF Counted
    <3> HIDE DEF a
    <3>5. 1 \in Int OBVIOUS
    <3>6. ((a % CounterMod) + 1) % CounterMod = (a + 1) % CounterMod
          /\ (a + 1) % CounterMod \in 0 .. CounterMod - 1
      BY <3>1, <3>5, RemainderOfSum, CounterModAssumption, Zenon
    <3> QED BY <2>2, <3>2, <3>3, <3>4, <3>6
  <2>3. CASE policy = "queue_length" /\ q # p
    BY <1>1, <1>4, <2>1, <2>3 DEF Dispatch, Counted
  <2>4. CASE policy # "queue_length"
    BY <2>1, <2>4 DEF Dispatch, Counted
  <2> QED BY <2>2, <2>3, <2>4
<1>7. io_incomplete' \in [Paths -> 0 .. CounterMod - 1]
  <2>1. DOMAIN io_incomplete' = Paths /\ io_incomplete' = [q \in Paths |-> io_incomplete'[q]]
    BY DEF Dispatch, BalanceInv, BalanceTypeOK
  <2> QED BY <1>6, <2>1
<1> QED BY <1>1, <1>2, <1>3, <1>4, <1>6, <1>7

-------------------------------------------------------------------------------
(* The invariant *)

(* The invariant holds when the channel is created. *)
LEMMA BalanceStarts == BalanceInit => BalanceInv
<1> SUFFICES ASSUME BalanceInit PROVE BalanceInv
  OBVIOUS
<1>1. BalanceTypeOK
  <2>1. 0 \in 0 .. CounterMod - 1 /\ 0 \in 0 .. MaxIos /\ 0 \in 0 .. MaxFailures
    BY CounterModAssumption, MaxIosAssumption, MaxFailuresAssumption
  <2> QED BY <2>1, PathsAreNumbers DEF BalanceInit, BalanceTypeOK, Kinds
<1>2. SomeAvailable
  <2>1. 0 \in PathIds(NumPaths) /\ 0 \in Paths
    BY PathsAreNumbers DEF Paths
  <2> QED BY <2>1 DEF BalanceInit, SomeAvailable, AvailablePaths
<1>3. inflight \in Loads /\ \A p \in Paths : LoadOf(inflight)[p] = 0
  BY DEF BalanceInit, LoadOf, Loads, Kinds
<1>4. LoadIsSubmitted
  <2>1. Total(LoadOf(inflight), Paths) = 0
    BY <1>3, PathsAreNumbers, TotalZero
  <2> QED BY <2>1 DEF BalanceInit, LoadIsSubmitted
<1>5. QueuesSound
  BY EmptyQueueSound DEF BalanceInit, QueuesSound
<1>6. IncompleteAccounting
  <2>1. 0 % CounterMod = 0
    BY CounterModAssumption, RemainderOfSmall
  <2>2. \A p \in Paths : io_incomplete[p] = 0 /\ failed[p] = 0 /\ completed[p] = 0
    BY DEF BalanceInit
  <2>3. \A p \in Paths : LoadOf(inflight)[p] + failed[p] = 0 /\ 0 - completed[p] = 0
    BY <1>3, <2>2
  <2>4. \A p \in Paths : Counted(inflight, completed, failed, p) = 0
    BY <2>1, <2>3 DEF Counted
  <2> QED BY <2>2, <2>4, AccountingRestated
<1>7. WaitsBounded /\ MarkedHasFailed
  BY PathsAreNumbers DEF BalanceInit, WaitsBounded, Left, MarkedHasFailed
<1> QED BY <1>1, <1>2, <1>4, <1>5, <1>6, <1>7 DEF BalanceInv

(* The parts of the invariant in the form the actions need them. *)
LEMMA InvariantParts ==
    ASSUME BalanceInv
    PROVE  /\ inflight \in Loads /\ completed \in [Paths -> Nat] /\ failed \in [Paths -> Nat]
           /\ \A p \in Paths : io_incomplete[p] = Counted(inflight, completed, failed, p)
           /\ Total(LoadOf(inflight), Paths) \in Nat /\ submitted \in Nat
           /\ LoadOf(inflight) \in [Paths -> Nat]
<1>1. inflight \in Loads /\ completed \in [Paths -> Nat] /\ failed \in [Paths -> Nat]
  BY MaxIosAssumption, MaxFailuresAssumption DEF BalanceInv, BalanceTypeOK, Loads
<1>2. 0 \in Paths
  BY PathsAreNumbers
<1>3. submitted \in Nat
  BY MaxIosAssumption DEF BalanceInv, BalanceTypeOK
<1> QED BY <1>1, <1>2, <1>3, LoadOfOnePath, AccountingRestated DEF BalanceInv

(* Submit keeps the invariant. *)
LEMMA SubmitKeeps ==
    ASSUME BalanceInv, NEW kind \in Kinds, NEW offset \in Offsets, Submit(kind, offset)
    PROVE  BalanceInv'
<1>1. /\ inflight \in Loads /\ completed \in [Paths -> Nat] /\ failed \in [Paths -> Nat]
      /\ \A q \in Paths : io_incomplete[q] = Counted(inflight, completed, failed, q)
      /\ Total(LoadOf(inflight), Paths) \in Nat /\ submitted \in Nat
  BY InvariantParts
<1>2. PICK p \in Selectable(available, kind, offset) : Dispatch(p, available, kind, inflight)
  BY DEF Submit
<1>3. available \in [Paths -> BOOLEAN] /\ AvailablePaths(NumPaths, available) # {}
  BY DEF BalanceInv, BalanceTypeOK, SomeAvailable
<1>4. UNCHANGED <<policy, available, times, completed, failed>> /\ submitted' = submitted + 1
      /\ submitted < MaxIos
  BY DEF Submit
<1>5. /\ TurnSound'
      /\ io_incomplete' \in [Paths -> 0 .. CounterMod - 1]
      /\ inflight' \in Loads
      /\ Total(LoadOf(inflight'), Paths) = Total(LoadOf(inflight), Paths) + 1
      /\ \A q \in Paths : io_incomplete'[q] = Counted(inflight', completed, failed, q)
  BY <1>1, <1>2, <1>3, <1>4, DispatchKeeps
<1>6. submitted' \in 0 .. MaxIos /\ Total(LoadOf(inflight'), Paths) <= submitted'
  BY <1>1, <1>4, <1>5, MaxIosAssumption DEF BalanceInv, LoadIsSubmitted
<1>7. inflight' \in [Paths -> [Kinds -> 0 .. MaxIos]]
  BY <1>5, <1>6, InflightFits
<1>8. BalanceTypeOK'
  BY <1>4, <1>5, <1>6, <1>7 DEF BalanceInv, BalanceTypeOK, TurnSound
<1>9. IncompleteAccounting'
  BY <1>4, <1>5 DEF IncompleteAccounting, Counted, LoadOf, Outstanding
<1> QED
  BY <1>4, <1>5, <1>6, <1>8, <1>9
     DEF BalanceInv, LoadIsSubmitted, SomeAvailable, QueuesSound, MarkedHasFailed, TurnSound

(* CompleteFail keeps the invariant. *)
LEMMA CompleteFailKeeps ==
    ASSUME BalanceInv, NEW p \in Paths, NEW kind \in Kinds, NEW offset \in Offsets,
           CompleteFail(p, kind, offset)
    PROVE  BalanceInv'
<1> DEFINE marked == [available EXCEPT ![p] = FALSE]
           out == [inflight EXCEPT ![p][kind] = @ - 1]
<1>1. /\ inflight \in Loads /\ completed \in [Paths -> Nat] /\ failed \in [Paths -> Nat]
      /\ \A q \in Paths : io_incomplete[q] = Counted(inflight, completed, failed, q)
      /\ Total(LoadOf(inflight), Paths) \in Nat /\ submitted \in Nat
      /\ LoadOf(inflight) \in [Paths -> Nat]
  BY InvariantParts
<1>2. PICK q \in Selectable(marked, kind, offset) : Dispatch(q, marked, kind, out)
  BY DEF CompleteFail
<1>3. /\ marked \in [Paths -> BOOLEAN] /\ AvailablePaths(NumPaths, marked) # {}
      /\ available' = marked
  BY DEF CompleteFail, BalanceInv, BalanceTypeOK
<1>4. UNCHANGED <<policy, times, submitted, completed>> /\ failed[p] < MaxFailures
      /\ failed' = [failed EXCEPT ![p] = @ + 1] /\ inflight[p][kind] > 0
  BY DEF CompleteFail
<1>5. /\ failed' \in [Paths -> 0 .. MaxFailures] /\ failed' \in [Paths -> Nat]
      /\ failed'[p] = failed[p] + 1 /\ \A r \in Paths : r # p => failed'[r] = failed[r]
  BY <1>1, <1>4, MaxFailuresAssumption DEF BalanceInv, BalanceTypeOK
<1>6. /\ out \in Loads /\ out[p][kind] - inflight[p][kind] = -1
      /\ \A r \in Paths, l \in Kinds : r # p \/ l # kind => out[r][l] = inflight[r][l]
  BY <1>1, <1>4 DEF Loads
<1> HIDE DEF marked, out
<1>7. /\ Total(LoadOf(out), Paths) = Total(LoadOf(inflight), Paths) - 1
      /\ LoadOf(out)[p] = LoadOf(inflight)[p] - 1
      /\ \A r \in Paths : r # p => LoadOf(out)[r] = LoadOf(inflight)[r]
  BY <1>1, <1>6, LoadChanged
<1>8. ASSUME NEW r \in Paths
      PROVE  io_incomplete[r] = Counted(out, completed, failed', r)
  <2>1. LoadOf(out)[r] + failed'[r] = LoadOf(inflight)[r] + failed[r]
    BY <1>1, <1>5, <1>7
  <2> QED BY <1>1, <2>1 DEF Counted
<1>9. /\ TurnSound'
      /\ io_incomplete' \in [Paths -> 0 .. CounterMod - 1]
      /\ inflight' \in Loads
      /\ Total(LoadOf(inflight'), Paths) = Total(LoadOf(out), Paths) + 1
      /\ \A r \in Paths : io_incomplete'[r] = Counted(inflight', completed, failed', r)
  <2>1. policy' = policy
    BY <1>4
  <2> DEFINE lost == failed'
  <2>2. \A r \in Paths : io_incomplete[r] = Counted(out, completed, lost, r)
    BY <1>8
  <2>3. lost \in [Paths -> Nat]
    BY <1>5
  <2>4. AvailablePaths(NumPaths, marked) # {} /\ marked \in [Paths -> BOOLEAN]
    BY <1>3
  <2>5. out \in Loads
    BY <1>6
  <2> HIDE DEF lost
  <2>6. /\ TurnSound'
        /\ io_incomplete' \in [Paths -> 0 .. CounterMod - 1]
        /\ inflight' \in Loads
        /\ Total(LoadOf(inflight'), Paths) = Total(LoadOf(out), Paths) + 1
        /\ \A r \in Paths : io_incomplete'[r] = Counted(inflight', completed, lost, r)
    BY <1>2, <2>1, <2>2, <2>3, <2>4, <2>5, DispatchKeeps
  <2> QED BY <2>6 DEF lost
<1>10. Total(LoadOf(inflight'), Paths) <= submitted'
  BY <1>1, <1>4, <1>7, <1>9 DEF BalanceInv, LoadIsSubmitted
<1>11. submitted' \in 0 .. MaxIos
  BY <1>4 DEF BalanceInv, BalanceTypeOK
<1>12. inflight' \in [Paths -> [Kinds -> 0 .. MaxIos]]
  BY <1>9, <1>10, <1>11, InflightFits
<1>13. BalanceTypeOK'
  BY <1>3, <1>4, <1>5, <1>9, <1>11, <1>12 DEF BalanceInv, BalanceTypeOK, TurnSound
<1>14. IncompleteAccounting'
  BY <1>4, <1>9 DEF IncompleteAccounting, Counted, LoadOf, Outstanding
<1>15. MarkedHasFailed'
  <2>1. ASSUME NEW r \in Paths, ~available'[r] PROVE failed'[r] > 0
    <3>1. CASE r = p
      BY <1>1, <1>5, <3>1
    <3>2. CASE r # p
      BY <1>3, <1>5, <2>1, <3>2 DEF marked, BalanceInv, BalanceTypeOK, MarkedHasFailed
    <3> QED BY <3>1, <3>2
  <2> QED BY <2>1 DEF MarkedHasFailed
<1> QED
  BY <1>3, <1>4, <1>9, <1>10, <1>13, <1>14, <1>15
     DEF BalanceInv, LoadIsSubmitted, SomeAvailable, QueuesSound, TurnSound

(* CompleteOk keeps the invariant. *)
LEMMA CompleteOkKeeps ==
    ASSUME BalanceInv, NEW p \in Paths, NEW kind \in Kinds, NEW latency \in Latencies,
           CompleteOk(p, kind, latency)
    PROVE  BalanceInv'
<1>1. /\ inflight \in Loads /\ completed \in [Paths -> Nat] /\ failed \in [Paths -> Nat]
      /\ \A q \in Paths : io_incomplete[q] = Counted(inflight, completed, failed, q)
      /\ Total(LoadOf(inflight), Paths) \in Nat /\ submitted \in Nat
      /\ LoadOf(inflight) \in [Paths -> Nat]
  BY InvariantParts
<1>2. UNCHANGED <<policy, available, turn, waits, submitted, failed>>
  BY DEF CompleteOk
<1>3. /\ inflight' \in Loads /\ inflight'[p][kind] - inflight[p][kind] = -1
      /\ \A q \in Paths, l \in Kinds : q # p \/ l # kind => inflight'[q][l] = inflight[q][l]
  BY <1>1 DEF CompleteOk, Loads
<1>4. /\ Total(LoadOf(inflight'), Paths) = Total(LoadOf(inflight), Paths) - 1
      /\ LoadOf(inflight')[p] = LoadOf(inflight)[p] - 1
      /\ \A q \in Paths : q # p => LoadOf(inflight')[q] = LoadOf(inflight)[q]
  BY <1>1, <1>3, LoadChanged
<1>5. /\ completed' \in [Paths -> Nat] /\ completed'[p] = completed[p] + 1
      /\ \A q \in Paths : q # p => completed'[q] = completed[q]
  BY <1>1 DEF CompleteOk
<1>6. ASSUME NEW q \in Paths
      PROVE  io_incomplete'[q] = Counted(inflight', completed', failed, q)
             /\ io_incomplete'[q] \in 0 .. CounterMod - 1
  <2>1. io_incomplete[q] \in 0 .. CounterMod - 1 /\ io_incomplete \in [Paths -> 0 .. CounterMod - 1]
    BY DEF BalanceInv, BalanceTypeOK
  <2>2. CASE q = p
    <3> DEFINE a == IF policy = "queue_length" THEN LoadOf(inflight)[p] + failed[p]
                    ELSE 0 - completed[p]
               one == -1
    <3>1. a \in Int /\ one \in Int BY <1>1
    <3>2. io_incomplete[p] = a % CounterMod BY <1>1 DEF Counted
    <3>3. io_incomplete'[p] = (io_incomplete[p] + one) % CounterMod
      <4>1. io_incomplete'[p] = (io_incomplete[p] - 1) % CounterMod BY <2>1 DEF CompleteOk
      <4>2. io_incomplete[p] - 1 = io_incomplete[p] + one BY <2>1, <2>2
      <4> QED BY <4>1, <4>2
    <3>4. Counted(inflight', completed', failed, p) = (a + one) % CounterMod
      <4>1. CASE policy = "queue_length"
        <5>1. LoadOf(inflight')[p] + failed[p] = a + one BY <1>1, <1>4, <4>1
        <5> QED BY <1>2, <4>1, <5>1 DEF Counted
      <4>2. CASE policy # "queue_length"
        <5>1. 0 - completed'[p] = a + one BY <1>1, <1>5, <4>2
        <5> QED BY <1>2, <4>2, <5>1 DEF Counted
      <4> QED BY <4>1, <4>2
    <3> HIDE DEF a, one
    <3>5. ((a % CounterMod) + one) % CounterMod = (a + one) % CounterMod
          /\ (a + one) % CounterMod \in 0 .. CounterMod - 1
      BY <3>1, RemainderOfSum, CounterModAssumption, Zenon
    <3> QED BY <2>2, <3>2, <3>3, <3>4, <3>5
  <2>3. CASE q # p
    <3>1. io_incomplete'[q] = io_incomplete[q] BY <2>1, <2>3 DEF CompleteOk
    <3> QED BY <1>1, <1>2, <1>4, <1>5, <2>1, <2>3, <3>1 DEF Counted
  <2> QED BY <2>2, <2>3
<1>7. io_incomplete' \in [Paths -> 0 .. CounterMod - 1]
  <2>1. io_incomplete' = [q \in Paths |-> io_incomplete'[q]]
    BY DEF CompleteOk, BalanceInv, BalanceTypeOK
  <2> QED BY <1>6, <2>1
<1>8. Total(LoadOf(inflight'), Paths) <= submitted'
  BY <1>1, <1>2, <1>4 DEF BalanceInv, LoadIsSubmitted
<1>9. submitted' \in 0 .. MaxIos
  BY <1>2 DEF BalanceInv, BalanceTypeOK
<1>10. inflight' \in [Paths -> [Kinds -> 0 .. MaxIos]]
  BY <1>3, <1>8, <1>9, InflightFits
<1>11. BalanceTypeOK'
  BY <1>2, <1>5, <1>7, <1>9, <1>10 DEF BalanceInv, BalanceTypeOK
<1>12. IncompleteAccounting'
  BY <1>2, <1>6 DEF IncompleteAccounting, Counted, LoadOf, Outstanding
<1>13. QueuesSound'
  <2>1. latency \in Nat
    BY LatenciesAssumption
  <2>2. QueueSound(Record(times[p][kind], latency)) /\ Record(times[p][kind], latency) \in QueueRecords
    BY <2>1, RecordKeepsSound DEF BalanceInv, QueuesSound
  <2> DEFINE new == Record(times[p][kind], latency)
  <2>3. times' = [times EXCEPT ![p][kind] = new] \/ times' = times
    BY DEF CompleteOk
  <2> HIDE DEF new
  <2>4. new \in QueueRecords /\ QueueSound(new)
    BY <2>2 DEF new
  <2>5. times' \in [Paths -> [Kinds -> QueueRecords]]
    BY <2>3, <2>4 DEF BalanceInv, QueuesSound
  <2>6. ASSUME NEW q \in Paths, NEW l \in Kinds PROVE QueueSound(times'[q][l])
    <3>1. times'[q][l] = new \/ times'[q][l] = times[q][l]
      BY <2>3 DEF BalanceInv, QueuesSound
    <3> QED BY <2>4, <3>1 DEF BalanceInv, QueuesSound
  <2> QED BY <2>5, <2>6 DEF QueuesSound, QueueSound
<1> QED
  BY <1>2, <1>8, <1>11, <1>12, <1>13
     DEF BalanceInv, LoadIsSubmitted, SomeAvailable, WaitsBounded, MarkedHasFailed

(* Failback keeps the invariant. *)
LEMMA FailbackKeeps ==
    ASSUME BalanceInv, NEW p \in Paths, Failback(p)
    PROVE  BalanceInv'
<1>1. available' = [available EXCEPT ![p] = TRUE] /\ available' \in [Paths -> BOOLEAN]
  BY DEF Failback, BalanceInv, BalanceTypeOK
<1>2. UNCHANGED <<policy, turn, waits, io_incomplete, times, inflight, submitted, completed, failed>>
  BY DEF Failback
<1>3. \A q \in Paths : available[q] => available'[q]
  BY <1>1 DEF BalanceInv, BalanceTypeOK
<1>4. SomeAvailable'
  BY <1>3 DEF BalanceInv, SomeAvailable, AvailablePaths, Paths
<1>5. MarkedHasFailed'
  BY <1>2, <1>3 DEF BalanceInv, MarkedHasFailed
<1>6. BalanceTypeOK'
  BY <1>1, <1>2 DEF BalanceInv, BalanceTypeOK
<1> QED
  BY <1>2, <1>4, <1>5, <1>6
     DEF BalanceInv, LoadIsSubmitted, QueuesSound, IncompleteAccounting, Outstanding, WaitsBounded

(* ResetTimes keeps the invariant. *)
LEMMA ResetTimesKeeps ==
    ASSUME BalanceInv, ResetTimes
    PROVE  BalanceInv'
<1>1. UNCHANGED <<policy, available, turn, waits, io_incomplete, inflight, submitted, completed, failed>>
  BY DEF ResetTimes
<1>2. times' = [p \in Paths |-> [k \in Kinds |-> EmptyQueue]]
  BY DEF ResetTimes
<1>3. QueuesSound'
  BY <1>2, EmptyQueueSound DEF QueuesSound, QueueSound
<1> QED
  BY <1>1, <1>3 DEF BalanceInv, BalanceTypeOK, LoadIsSubmitted, SomeAvailable, IncompleteAccounting,
         Outstanding, WaitsBounded, MarkedHasFailed

(* OtherDispatch keeps the invariant. *)
LEMMA OtherDispatchKeeps ==
    ASSUME BalanceInv, OtherDispatch
    PROVE  BalanceInv'
<1> PICK n \in 1 .. OtherPaths :
        \E av \in [PathIds(n) -> BOOLEAN] :
            AvailablePaths(n, av) # {} /\ turn' = RoundRobin(n, av, turn).turn
  BY DEF OtherDispatch
<1>1. PICK av \in [PathIds(n) -> BOOLEAN] :
          AvailablePaths(n, av) # {} /\ turn' = RoundRobin(n, av, turn).turn
  OBVIOUS
<1>2. /\ waits' = [p \in Paths |-> 0]
      /\ UNCHANGED <<policy, available, io_incomplete, times, inflight, submitted, completed, failed>>
  BY DEF OtherDispatch
<1>3. n \in Nat /\ n <= OtherPaths
  BY OtherPathsAssumption
<1>4. FirstAvailable(n, av) \in 0 .. n - 1
  BY <1>1, <1>3, FirstAvailableIsFirst DEF AvailablePaths, PathIds
<1>5. turn' \in 1 .. n
  <2>1. CASE turn \in PathIds(n) /\ av[turn]
    BY <1>1, <1>3, <2>1 DEF RoundRobin, PathIds
  <2>2. CASE ~(turn \in PathIds(n) /\ av[turn])
    BY <1>1, <1>3, <1>4, <2>2 DEF RoundRobin
  <2> QED BY <2>1, <2>2
<1>6. turn' \in Nat /\ turn' <= OtherPaths
  BY <1>3, <1>5, OtherPathsAssumption
<1>7. BalanceTypeOK'
  BY <1>2, <1>6 DEF BalanceInv, BalanceTypeOK
<1>8. WaitsBounded'
  <2>1. ASSUME NEW p \in Paths PROVE waits'[p] + Left(turn', p) <= NumPaths
    <3>1. Left(turn', p) \in 1 .. NumPaths /\ waits'[p] = 0 BY <1>2, <1>6, LeftBounded
    <3> QED BY <3>1, PathsAreNumbers
  <2> QED BY <2>1 DEF WaitsBounded
<1> QED
  BY <1>2, <1>7, <1>8 DEF BalanceInv, LoadIsSubmitted, SomeAvailable, QueuesSound, IncompleteAccounting,
         Outstanding, MarkedHasFailed

(* Every step keeps the invariant. *)
LEMMA BalanceKept == BalanceInv /\ [BalanceNext]_balanceVars => BalanceInv'
<1> SUFFICES ASSUME BalanceInv, [BalanceNext]_balanceVars PROVE BalanceInv'
  OBVIOUS
<1>1. ASSUME NEW kind \in Kinds, NEW offset \in Offsets, Submit(kind, offset) PROVE BalanceInv'
  BY <1>1, SubmitKeeps
<1>2. ASSUME NEW kind \in Kinds, NEW offset \in Offsets, NEW p \in Paths,
             CompleteFail(p, kind, offset)
      PROVE  BalanceInv'
  BY <1>2, CompleteFailKeeps
<1>3. ASSUME NEW p \in Paths, Failback(p) PROVE BalanceInv'
  BY <1>3, FailbackKeeps
<1>4. ASSUME NEW p \in Paths, NEW kind \in Kinds, NEW latency \in Latencies,
             CompleteOk(p, kind, latency)
      PROVE  BalanceInv'
  BY <1>4, CompleteOkKeeps
<1>5. CASE ResetTimes
  BY <1>5, ResetTimesKeeps
<1>6. CASE OtherDispatch
  BY <1>6, OtherDispatchKeeps
<1>7. CASE UNCHANGED balanceVars
  BY <1>7 DEF balanceVars, BalanceInv, BalanceTypeOK, LoadIsSubmitted, SomeAvailable, QueuesSound,
         IncompleteAccounting, Outstanding, WaitsBounded, MarkedHasFailed
<1> QED BY <1>1, <1>2, <1>3, <1>4, <1>5, <1>6, <1>7 DEF BalanceNext

(* BalanceInv holds in every reachable state. *)
THEOREM BalanceInvariance == BalanceSpec => []BalanceInv
<1>1. BalanceInit => BalanceInv
  BY BalanceStarts
<1>2. BalanceInv /\ [BalanceNext]_balanceVars => BalanceInv'
  BY BalanceKept
<1> QED BY <1>1, <1>2, PTL DEF BalanceSpec

(* The statistics keep their types; no path has more I/Os out than were
   submitted. *)
THEOREM BalanceTyping == BalanceSpec => []BalanceTypeOK
<1>1. BalanceInv => BalanceTypeOK
  BY DEF BalanceInv
<1> QED BY <1>1, BalanceInvariance, PTL

(* update_io_time_detail and the periodic reset keep the counters of every
   latency queue those of its list, for every window. *)
THEOREM LatencyQueues == BalanceSpec => []QueuesDescribeTheirLists
<1>1. BalanceInv => QueuesDescribeTheirLists
  BY DEF BalanceInv, QueuesSound, QueueSound, QueuesDescribeTheirLists
<1> QED BY <1>1, BalanceInvariance, PTL

(* io_incomplete is not the number of a path's I/Os that are out, as its
   comment says (sump.h:226), but what IncompleteAccounting says, at every
   width of the counter: one more for every failure under the queue-length
   policy, and no number of I/Os that are out under any other. *)
THEOREM Accounting == BalanceSpec => []IncompleteAccounting
<1>1. BalanceInv => IncompleteAccounting
  BY DEF BalanceInv
<1> QED BY <1>1, BalanceInvariance, PTL

-------------------------------------------------------------------------------
(* Where an I/O goes *)

(* Only a submission submits, and to one path. *)
LEMMA ChosenBySubmit ==
    ASSUME BalanceInv, [BalanceNext]_balanceVars, NEW p \in Paths, ChosenFor(p)
    PROVE  \E kind \in Kinds, offset \in Offsets :
              /\ Submit(kind, offset)
              /\ p \in Selectable(available, kind, offset)
              /\ Dispatch(p, available, kind, inflight)
<1>1. submitted \in Nat /\ submitted' # submitted
  BY InvariantParts DEF ChosenFor
<1>2. PICK kind \in Kinds, offset \in Offsets : Submit(kind, offset)
  BY <1>1 DEF BalanceNext, balanceVars, CompleteFail, CompleteOk, Failback, ResetTimes, OtherDispatch
<1>3. PICK q \in Selectable(available, kind, offset) : Dispatch(q, available, kind, inflight)
  BY <1>2 DEF Submit
<1>4. q = p
  <2>1. SUFFICES ASSUME q # p PROVE FALSE
    OBVIOUS
  <2>2. inflight \in Loads
    BY InvariantParts
  <2>3. inflight'[p] = inflight[p]
    BY <1>3, <2>1, <2>2 DEF Dispatch, Loads
  <2>4. inflight[p]["read"] \in Nat /\ inflight[p]["write"] \in Nat
    BY <2>2 DEF Loads, Kinds
  <2> QED BY <2>3, <2>4 DEF ChosenFor, Outstanding
<1> QED BY <1>2, <1>3, <1>4

(* Under the queue-length policy, as long as no path has failed, an I/O
   goes to a path with the fewest I/Os out.  The counter must be wide
   enough not to wrap around: 2^64 in the code. *)
THEOREM Balanced ==
    ASSUME MaxIos < CounterMod
    PROVE  BalanceSpec => QueueLengthBalances
<1>1. ASSUME BalanceInv, [BalanceNext]_balanceVars, NEW p \in Paths, NEW q \in Paths,
             policy = "queue_length", failed = [r \in Paths |-> 0], ChosenFor(p)
      PROVE  Outstanding(p) <= Outstanding(q)
  <2>1. PICK kind \in Kinds, offset \in Offsets : p \in Selectable(available, kind, offset)
    BY <1>1, ChosenBySubmit
  <2>2. \A r \in Paths : available[r]
    BY <1>1 DEF BalanceInv, MarkedHasFailed
  <2>3. AvailablePaths(NumPaths, available) = Paths
    BY <2>2 DEF AvailablePaths, Paths
  <2>4. ASSUME NEW r \in Paths PROVE io_incomplete[r] = Outstanding(r) /\ Outstanding(r) \in Nat
    <3> DEFINE load == LoadOf(inflight)
    <3>1. load[r] = Outstanding(r) BY DEF LoadOf, Outstanding
    <3>2. load \in [Paths -> Nat] /\ IsFiniteSet(Paths) /\ Total(load, Paths) <= MaxIos
          /\ Total(load, Paths) \in Nat
      <4>1. load \in [Paths -> Nat] /\ Total(load, Paths) \in Nat BY <1>1, InvariantParts
      <4>2. Total(load, Paths) <= submitted /\ submitted \in 0 .. MaxIos
        BY <1>1 DEF BalanceInv, LoadIsSubmitted, BalanceTypeOK
      <4> QED BY <4>1, <4>2, PathsAreNumbers, MaxIosAssumption
    <3> HIDE DEF load
    <3>3. IsFiniteSet(Paths \ {r}) /\ Total(load, Paths) = load[r] + Total(load, Paths \ {r})
      BY <3>2, TotalWithout, FS_RemoveElement
    <3>4. Total(load, Paths \ {r}) \in Nat BY <3>2, <3>3, TotalNat
    <3>5. load[r] \in 0 .. CounterMod - 1
      BY <3>2, <3>3, <3>4, MaxIosAssumption, CounterModAssumption
    <3>6. load[r] + failed[r] = load[r] BY <1>1, <3>5
    <3>7. io_incomplete[r] = load[r] % CounterMod
      BY <1>1, <3>6, InvariantParts DEF Counted, load
    <3>8. load[r] % CounterMod = load[r] BY <3>5, CounterModAssumption, RemainderOfSmall
    <3> QED BY <3>1, <3>5, <3>7, <3>8
  <2>5. p = CheapestPath(NumPaths, available, io_incomplete)
    BY <1>1, <2>1 DEF Selectable
  <2>6. io_incomplete[p] <= io_incomplete[q]
    BY <2>3, <2>4, <2>5, CheapestIsCheapest
  <2> QED BY <2>4, <2>6
<1>2. BalanceInv /\ [BalanceNext]_balanceVars =>
        [\A p, q \in Paths :
            policy = "queue_length" /\ failed = [r \in Paths |-> 0] /\ ChosenFor(p)
                => Outstanding(p) <= Outstanding(q)]_balanceVars
  BY <1>1
<1> QED BY <1>2, BalanceInvariance, PTL DEF BalanceSpec, QueueLengthBalances

(* Round robin passes a path by for less than a round of its channel's
   choices, wherever failures, recoveries and other channels left the
   turn, unless a path before it is out of service or other channels move
   the turn in between. *)
THEOREM ReachesAll == BalanceSpec => []RoundRobinReachesAll
<1>1. ASSUME BalanceInv, NEW p \in Paths PROVE waits[p] < NumPaths
  <2>1. turn \in Nat /\ waits[p] \in Nat /\ waits[p] + Left(turn, p) <= NumPaths
    BY <1>1 DEF BalanceInv, BalanceTypeOK, WaitsBounded
  <2>2. Left(turn, p) \in 1 .. NumPaths
    BY <2>1, LeftBounded
  <2> QED BY <2>1, <2>2, PathsAreNumbers
<1>2. BalanceInv => RoundRobinReachesAll
  BY <1>1 DEF RoundRobinReachesAll
<1> QED BY <1>2, BalanceInvariance, PTL

-------------------------------------------------------------------------------
(* The two parts together *)

(* The composition that is model-checked behaves in each part as the
   module of that part says, so that what is proved of the parts holds. *)
THEOREM PartsImplemented == SumpSpec => Spec /\ BalanceSpec
<1>1. SumpInit => Init /\ BalanceInit
  BY DEF SumpInit
<1>2. [SumpNext]_sumpVars => [Next]_vars /\ [BalanceNext]_balanceVars
  BY DEF SumpNext, sumpVars
<1> QED BY <1>1, <1>2, PTL DEF SumpSpec, Spec, BalanceSpec

(* Registry, channels and statistics keep their types. *)
THEOREM SumpTyping == SumpSpec => []SumpTypeOK
<1>1. TypeOK /\ BalanceTypeOK => SumpTypeOK
  BY DEF SumpTypeOK
<1> QED BY <1>1, PartsImplemented, RegistryTyping, BalanceTyping, PTL

===============================================================================
