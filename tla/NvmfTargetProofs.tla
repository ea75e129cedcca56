--------------------------- MODULE NvmfTargetProofs ---------------------------
(***************************************************************************)
(* Proofs about the target.  NvmfCtrlr, for all queue pairs, ids and       *)
(* placements: the mask holds the ids of the queues that are attached, a   *)
(* freed controller is not used any more, an expired keep alive timer      *)
(* leaves no queue active, and every crash has one of the listed causes.   *)
(* NvmfReservation, for every number of hosts, poll groups, keys and       *)
(* registrants: the holder of a reservation is a registrant, what has been *)
(* answered is enforced in every poll group, losers are told, and what     *)
(* persists over a power loss is the reservation as it was.  At the end,   *)
(* the composition of the three parts in MCNvmfTarget.                     *)
(***************************************************************************)
EXTENDS MCNvmfTarget, NvmfSubsystemProofs, SumFacts

-------------------------------------------------------------------------------
(* The controller and its queues *)

---------------------------------------------------------------------------
(* Types *)

CtrlrType == [state : {"none", "created", "listed", "removed", "freed"}, mask : SUBSET Nat,
              admin : BOOLEAN, en : BOOLEAN, cfs : BOOLEAN, destruct : BOOLEAN,
              progress : BOOLEAN, shn : BOOLEAN, keep_alive : BOOLEAN, association : BOOLEAN,
              cc_timer : BOOLEAN, cc_timeout : BOOLEAN]
QType == [state : {"none", "active", "deactivating", "closing", "freed"},
          ctrlr : BOOLEAN, io : BOOLEAN, moved : {"no", "started", "sent"},
          connect : {"no", "subsystem", "controller", "answered", "done"}]
SubsysMsg == [f : {"add_ctrlr", "add_io", "destruct"}, q : Qs]
CtrlrMsg == [f : {"add_admin", "add_io", "free", "destruct"}, q : Qs]
CtrlrSeenType == [crash : Crashes, late : SUBSET Qs, expired : BOOLEAN, resets : Nat]

CtrlrTypes ==
    /\ nc \in CtrlrType
    /\ nq \in [Qs -> QType]
    /\ toSubsys \in Seq(SubsysMsg)
    /\ toCtrlr \in Seq(CtrlrMsg)
    /\ ncWalk \in [Walks -> 0 .. NumPgs + 1]
    /\ ncSeen \in CtrlrSeenType

---------------------------------------------------------------------------
(* The messages of a queue: each is sent once *)

Sent(s) == {s[i] : i \in DOMAIN s}
Once(s) == \A i, j \in DOMAIN s : s[i] = s[j] => i = j
DestructLast(s) == \A i \in DOMAIN s : s[i].f = "destruct" => i = Len(s)

---------------------------------------------------------------------------
(* The inductive invariant *)

Adm == nq[AdminQ]

(* What a queue pair has done, and what it needs of the admin queue. *)
QueueInv(q) ==
    /\ nq[q].state = "none" => ~nq[q].ctrlr /\ nq[q].connect = "no" /\ ~nq[q].io
    /\ Pending(nq[q]) => nq[q].state \in {"active", "deactivating"}
    /\ nq[q].ctrlr => nq[q].connect # "no" /\ Adm.ctrlr
    /\ nq[q].connect = "controller" => nq[q].ctrlr
    /\ q # AdminQ /\ nq[q].connect # "no" => Adm.connect = "done"
    /\ q # AdminQ /\ nq[q].connect = "subsystem" => ~nq[q].ctrlr

(* The messages under way say how far connects and the end have come. *)
MessagesOf(q) ==
    /\ Message("add_ctrlr", q) \in Sent(toSubsys) <=> q = AdminQ /\ Adm.connect = "subsystem"
    /\ Message("add_io", q) \in Sent(toSubsys) <=> q # AdminQ /\ nq[q].connect = "subsystem"
    /\ Message("destruct", q) \in Sent(toSubsys) <=>
          q = AdminQ /\ nc.destruct /\ nc.state = "listed"
    /\ Message("add_admin", q) \in Sent(toCtrlr) <=> q = AdminQ /\ Adm.connect = "controller"
    /\ Message("add_io", q) \in Sent(toCtrlr) <=> q # AdminQ /\ nq[q].connect = "controller"
    /\ Message("destruct", q) \in Sent(toCtrlr) <=> q = AdminQ /\ nc.state = "removed"
    /\ Message("free", q) \in Sent(toCtrlr) =>
          nq[q].state = "freed" /\ nq[q].ctrlr /\ nq[q].connect = "done"

MessagesInv ==
    /\ Once(toSubsys) /\ Once(toCtrlr) /\ DestructLast(toCtrlr)
    /\ \A q \in Qs : MessagesOf(q)

(* The controller and its admin queue. *)
StagesInv ==
    /\ nc.state = "none" <=> Adm.connect = "no"
    /\ nc.state = "created" <=> Adm.connect = "subsystem"
    /\ Adm.connect = "controller" => nc.state = "listed"
    /\ nc.state \in {"created", "listed", "removed"} => Adm.ctrlr
    /\ nc.destruct => nc.mask = {} /\ Adm.connect = "done"
    /\ nc.state = "removed" => nc.destruct
    /\ nc.admin <=> Adm.ctrlr /\ Adm.connect \in {"answered", "done"} /\ Adm.state # "freed"

(* Who may still come for the controller. *)
TimersInv ==
    /\ nc.progress \/ nc.association => Adm.ctrlr /\ Adm.connect = "done"
    /\ nc.cc_timer \/ nc.cc_timeout \/ ncWalk["reset"] # NoWalkOn => nc.progress
    /\ nc.keep_alive \/ ncWalk["keep_alive"] # NoWalkOn \/ ncSeen.expired =>
          Adm.ctrlr /\ Adm.connect \in {"answered", "done"}
    /\ nc.state = "freed" => ~nc.keep_alive /\ ~nc.association /\ ~nc.progress

(* A queue pair is active and no disconnect is on its way to it. *)
InService(q) == nq[q].state = "active" /\ nq[q].moved = "no"

(* Where the walk of the keep alive timer has been. *)
Walked(g) == ncSeen.expired \/ (ncWalk["keep_alive"] # NoWalkOn /\ g < ncWalk["keep_alive"])
WalkedInv ==
    \A q \in Qs : Walked(GroupOfQ[q]) =>
        /\ Attached(q) => ~InService(q) \/ q \in ncSeen.late
        /\ q = AdminQ => nq[q].state # "none" /\ ~InService(q)

CtrlrRuns ==
    /\ \A q \in Qs : QueueInv(q)
    /\ MessagesInv /\ StagesInv /\ TimersInv
    /\ MaskIsAttached /\ FreedUnused /\ WalkedInv

CtrlrInv == CtrlrTypes /\ CrashesHaveCauses /\ (Alive => CtrlrRuns)

---------------------------------------------------------------------------
(* Lemmas about the constants, the messages and the queue pairs *)

(* There is a group, and only the admin queue has the id 0. *)
LEMMA PlacementFacts ==
    /\ NumPgs \in Nat /\ NumPgs >= 1 /\ Pgs = 1 .. NumPgs
    /\ AdminQ \in Qs
    /\ \A q \in Qs : GroupOfQ[q] \in Pgs /\ Qid[q] \in Nat
<1>1. AdminQ \in Qs
  BY DEF Qs
<1>2. GroupOfQ[AdminQ] \in 1 .. NumPgs /\ NumPgs \in Nat
  BY <1>1, GroupOfQAssumption DEF Pgs
<1> QED BY <1>1, <1>2, GroupOfQAssumption, QidAssumption DEF Pgs

(* A message that is appended is sent besides those before it. *)
LEMMA AppendSends ==
    ASSUME NEW S, NEW s \in Seq(S), NEW m \in S
    PROVE  /\ Append(s, m) \in Seq(S)
           /\ \A x : x \in Sent(Append(s, m)) <=> x \in Sent(s) \/ x = m
           /\ Once(s) /\ m \notin Sent(s) => Once(Append(s, m))
           /\ (\A x \in Sent(s) : x.f # "destruct") => DestructLast(Append(s, m))
<1> DEFINE t == Append(s, m)
<1>1. t \in Seq(S) /\ Len(t) = Len(s) + 1 /\ t[Len(s) + 1] = m
  OBVIOUS
<1>2. \A i \in 1 .. Len(s) : t[i] = s[i]
  OBVIOUS
<1>3. DOMAIN s = 1 .. Len(s) /\ DOMAIN t = 1 .. Len(s) + 1 /\ Len(s) \in Nat
  BY <1>1
<1> HIDE DEF t
<1>4. \A x : x \in Sent(t) <=> x \in Sent(s) \/ x = m
  BY <1>1, <1>2, <1>3 DEF Sent
<1>5. Once(s) /\ m \notin Sent(s) => Once(t)
  <2> SUFFICES ASSUME Once(s), m \notin Sent(s), NEW i \in DOMAIN t, NEW j \in DOMAIN t,
                      t[i] = t[j]
               PROVE  i = j
    BY DEF Once
  <2>1. CASE i \in 1 .. Len(s) /\ j \in 1 .. Len(s)
    BY <2>1, <1>2, <1>3 DEF Once
  <2>2. CASE i = Len(s) + 1 /\ j \in 1 .. Len(s)
    BY <2>2, <1>1, <1>2, <1>3 DEF Sent
  <2>3. CASE i \in 1 .. Len(s) /\ j = Len(s) + 1
    BY <2>3, <1>1, <1>2, <1>3 DEF Sent
  <2> QED BY <2>1, <2>2, <2>3, <1>3
<1>6. (\A x \in Sent(s) : x.f # "destruct") => DestructLast(t)
  BY <1>1, <1>2, <1>3 DEF Sent, DestructLast
<1> QED BY <1>1, <1>4, <1>5, <1>6 DEF t

(* The message that is handled was sent and, as each is sent once, is gone. *)
LEMMA TailHandles ==
    ASSUME NEW S, NEW s \in Seq(S), s # <<>>, Once(s)
    PROVE  /\ Tail(s) \in Seq(S)
           /\ Head(s) \in S /\ Head(s) \in Sent(s)
           /\ \A x : x \in Sent(Tail(s)) <=> x \in Sent(s) /\ x # Head(s)
           /\ Once(Tail(s))
           /\ DestructLast(s) => DestructLast(Tail(s))
           /\ DestructLast(s) /\ Head(s).f = "destruct" => Tail(s) = <<>>
<1> DEFINE t == Tail(s)
<1>1. t \in Seq(S) /\ Len(t) = Len(s) - 1 /\ Len(s) \in Nat /\ Len(s) >= 1 /\ Head(s) = s[1]
  OBVIOUS
<1>2. \A i \in 1 .. Len(s) - 1 : t[i] = s[i + 1]
  OBVIOUS
<1>3. DOMAIN s = 1 .. Len(s) /\ DOMAIN t = 1 .. Len(s) - 1
  BY <1>1
<1>4. Head(s) \in S
  OBVIOUS
<1>e. Len(t) = 0 => t = <<>>
  BY <1>1, EmptySeq
<1> HIDE DEF t
<1>5. Head(s) \in Sent(s)
  BY <1>1, <1>3 DEF Sent
<1>6. ASSUME NEW x PROVE x \in Sent(t) <=> x \in Sent(s) /\ x # Head(s)
  <2>1. ASSUME x \in Sent(t) PROVE x \in Sent(s) /\ x # Head(s)
    <3>1. PICK i \in 1 .. Len(s) - 1 : x = s[i + 1]
      BY <2>1, <1>2, <1>3 DEF Sent
    <3>2. i + 1 \in DOMAIN s /\ 1 \in DOMAIN s /\ i + 1 # 1 BY <1>1, <1>3
    <3> QED BY <3>1, <3>2, <1>1 DEF Sent, Once
  <2>2. ASSUME x \in Sent(s), x # Head(s) PROVE x \in Sent(t)
    <3>1. PICK i \in 1 .. Len(s) : x = s[i]
      BY <2>2, <1>3 DEF Sent
    <3>2. i # 1 /\ i - 1 \in 1 .. Len(s) - 1 /\ (i - 1) + 1 = i BY <3>1, <2>2, <1>1
    <3>3. t[i - 1] = x BY <3>1, <3>2, <1>2
    <3> QED BY <3>2, <3>3, <1>3 DEF Sent
  <2> QED BY <2>1, <2>2
<1>7. Once(t)
  <2> SUFFICES ASSUME NEW i \in 1 .. Len(s) - 1, NEW j \in 1 .. Len(s) - 1, t[i] = t[j]
               PROVE  i = j
    BY <1>3 DEF Once
  <2>1. s[i + 1] = s[j + 1] /\ i + 1 \in DOMAIN s /\ j + 1 \in DOMAIN s
    BY <1>1, <1>2, <1>3
  <2>2. i + 1 = j + 1
    BY <2>1 DEF Once
  <2> QED BY <2>2
<1>8. DestructLast(s) => DestructLast(t)
  <2> SUFFICES ASSUME DestructLast(s), NEW i \in 1 .. Len(s) - 1, t[i].f = "destruct"
               PROVE  i = Len(t)
    BY <1>3 DEF DestructLast
  <2>1. s[i + 1].f = "destruct" /\ i + 1 \in DOMAIN s
    BY <1>1, <1>2, <1>3
  <2>2. i + 1 = Len(s)
    BY <2>1 DEF DestructLast
  <2> QED BY <2>2, <1>1
<1>9. DestructLast(s) /\ Head(s).f = "destruct" => t = <<>>
  BY <1>1, <1>3, <1>e DEF DestructLast
<1> QED BY <1>1, <1>4, <1>5, <1>6, <1>7, <1>8, <1>9 DEF t

(* A message of release is on its way if it has been sent. *)
LEMMA FreeingSent ==
    ASSUME NEW q PROVE Freeing(q) <=> Message("free", q) \in Sent(toCtrlr)
  BY DEF Freeing, Sent

(* Messages are records of a handler and a queue pair. *)
LEMMA MessageFacts ==
    ASSUME NEW f, NEW q
    PROVE  /\ Message(f, q).f = f /\ Message(f, q).q = q
           /\ q \in Qs /\ f \in {"add_ctrlr", "add_io", "destruct"} => Message(f, q) \in SubsysMsg
           /\ q \in Qs /\ f \in {"add_admin", "add_io", "free", "destruct"} =>
                 Message(f, q) \in CtrlrMsg
           /\ \A g, p : Message(f, q) = Message(g, p) <=> f = g /\ q = p
  BY DEF Message, SubsysMsg, CtrlrMsg

(* A message of a thread is the message of its parts. *)
LEMMA MessageParts ==
    ASSUME NEW m \in SubsysMsg \cup CtrlrMsg PROVE m = Message(m.f, m.q) /\ m.q \in Qs
  BY DEF Message, SubsysMsg, CtrlrMsg

(* A queue pair that drains or is disconnected changes its state only. *)
LEMMA DrainedFacts ==
    ASSUME NEW r \in QType
    PROVE  /\ Drained(r) \in QType
           /\ Drained(r).ctrlr = r.ctrlr /\ Drained(r).connect = r.connect
           /\ Drained(r).io = r.io /\ Drained(r).moved = r.moved
           /\ Drained(r).state = IF r.state = "deactivating" /\ ~Pending(r) THEN "closing"
                                 ELSE r.state
  BY DEF QType, Drained, Pending

(* A disconnect of a queue pair that is not active finds nothing to do. *)
LEMMA DisconnectedFacts ==
    ASSUME NEW r \in QType
    PROVE  /\ Disconnected(r) \in QType
           /\ Disconnected(r).ctrlr = r.ctrlr /\ Disconnected(r).connect = r.connect
           /\ Disconnected(r).io = r.io /\ Disconnected(r).moved = r.moved
           /\ Disconnected(r).state =
                 IF r.state = "active" /\ r.moved # "started"
                 THEN IF Pending(r) THEN "deactivating" ELSE "closing"
                 ELSE r.state
<1> DEFINE d == [r EXCEPT !.state = "deactivating"]
<1>1. d \in QType /\ d.state = "deactivating" /\ (Pending(d) <=> Pending(r))
  BY DEF QType, Pending
<1>2. d.ctrlr = r.ctrlr /\ d.connect = r.connect /\ d.io = r.io /\ d.moved = r.moved
  BY DEF QType
<1>3. Disconnected(r) = IF r.state = "active" /\ r.moved # "started" THEN Drained(d) ELSE r
  BY DEF Disconnected
<1> HIDE DEF d
<1> QED BY <1>1, <1>2, <1>3, DrainedFacts

(* What becomes of the queue pairs when one of them changes. *)
LEMMA SetQ ==
    ASSUME CtrlrTypes, NEW q \in Qs, NEW r \in QType, nq' = [nq EXCEPT ![q] = r]
    PROVE  nq' \in [Qs -> QType] /\ nq'[q] = r /\ \A p \in Qs : p # q => nq'[p] = nq[p]
  BY DEF CtrlrTypes

---------------------------------------------------------------------------
(* Steps that leave the messages and the attachments alone *)

(* Queue pairs go towards their end, each with the same controller and the
   same connect. *)
QueueMoves(q) ==
    /\ nq'[q].ctrlr = nq[q].ctrlr /\ nq'[q].connect = nq[q].connect
    /\ (nq'[q].state = "freed") <=> (nq[q].state = "freed")
    /\ nq'[q].state = "none" => nq[q].state = "none" /\ nq'[q].io = nq[q].io
    /\ nq'[q].state = "active" => nq[q].state \in {"none", "active"}
    /\ InService(q)' => InService(q) \/ nq[q].state = "none"
    /\ Pending(nq'[q]) => nq'[q].state \in {"active", "deactivating"}

QueuesMove == nq' \in [Qs -> QType] /\ \A q \in Qs : QueueMoves(q)

SameCtrlr ==
    /\ nc' \in CtrlrType
    /\ nc'.state = nc.state /\ nc'.mask = nc.mask
    /\ nc'.admin = nc.admin /\ nc'.destruct = nc.destruct

(* Of such steps the timers and the walks alone remain to be looked at. *)
LEMMA MovesKeep ==
    ASSUME CtrlrInv, Alive, QueuesMove, SameCtrlr, UNCHANGED <<toSubsys, toCtrlr>>,
           Alive' => TimersInv' /\ WalkedInv'
    PROVE  Alive' => CtrlrRuns'
<1> SUFFICES ASSUME Alive' PROVE CtrlrRuns'
  OBVIOUS
<1> USE DEF CtrlrInv
<1>1. CtrlrRuns /\ CtrlrTypes
  OBVIOUS
<1>2. ASSUME NEW q \in Qs PROVE QueueInv(q)'
  <2>1. QueueMoves(q) /\ QueueMoves(AdminQ) /\ QueueInv(q)
    BY <1>1, PlacementFacts DEF QueuesMove, CtrlrRuns
  <2> QED BY <2>1, PlacementFacts DEF QueueInv, QueueMoves, Adm
<1>3. \A q \in Qs : QueueMoves(q)
  BY DEF QueuesMove
<1>4. QueueMoves(AdminQ)
  BY <1>3, PlacementFacts
<1>5. MessagesInv'
  <2>1. Once(toSubsys)' /\ Once(toCtrlr)' /\ DestructLast(toCtrlr)'
    BY <1>1 DEF CtrlrRuns, MessagesInv, Once, DestructLast
  <2>2. Sent(toSubsys)' = Sent(toSubsys) /\ Sent(toCtrlr)' = Sent(toCtrlr)
    BY DEF Sent
  <2> QED
    BY <2>1, <2>2, <1>1, <1>3, <1>4 DEF CtrlrRuns, MessagesInv, MessagesOf, Adm, QueueMoves, SameCtrlr, Message
<1>6. StagesInv'
  BY <1>1, <1>4 DEF CtrlrRuns, StagesInv, Adm, QueueMoves, SameCtrlr
<1>7. \A q \in Qs : Freeing(q)' <=> Freeing(q)
  BY DEF Freeing, Message
<1>8. \A q \in Qs : Attached(q)' <=> Attached(q)
  <2> SUFFICES ASSUME NEW q \in Qs PROVE Attached(q)' <=> Attached(q)
    OBVIOUS
  <2>1. QueueMoves(q) /\ (Freeing(q)' <=> Freeing(q))
    BY <1>3, <1>7
  <2> QED BY <2>1 DEF Attached, QueueMoves
<1>9. MaskIsAttached'
  <2>1. {Qid[q] : q \in {p \in Qs : Attached(p)}}' = {Qid[q] : q \in {p \in Qs : Attached(p)}}
    BY <1>8
  <2> QED BY <2>1, <1>1, <1>8 DEF MaskIsAttached, CtrlrRuns, SameCtrlr
<1>10. FreedUnused'
  <2> SUFFICES ASSUME nc'.state = "freed" PROVE FreedUnused'
    BY DEF FreedUnused
  <2>1. TimersInv'
    OBVIOUS
  <2>2. ~nc'.keep_alive /\ ~nc'.association /\ ~nc'.cc_timer /\ ~nc'.cc_timeout
        /\ ncWalk'["reset"] = NoWalkOn
    BY <2>1 DEF TimersInv
  <2>3. FreedUnused /\ nc.state = "freed"
    BY <1>1 DEF CtrlrRuns, SameCtrlr
  <2>4. ASSUME NEW q \in Qs
        PROVE  /\ nq'[q].ctrlr => nq'[q].state = "freed" /\ ~Freeing(q)'
               /\ nq'[q].connect # "controller"
    <3>1. QueueMoves(q) /\ (Freeing(q)' <=> Freeing(q)) BY <1>3, <1>7
    <3> QED BY <3>1, <2>3 DEF FreedUnused, QueueMoves
  <2> QED BY <2>2, <2>4 DEF FreedUnused
<1> QED BY <1>2, <1>5, <1>6, <1>9, <1>10 DEF CtrlrRuns

(* A step that leaves a queue pair alone moves it, trivially. *)
LEMMA StandingMoves ==
    ASSUME CtrlrInv, Alive, NEW q \in Qs, nq'[q] = nq[q] PROVE QueueMoves(q)
<1>1. QueueInv(q)
  BY DEF CtrlrInv, CtrlrRuns
<1> QED BY <1>1 DEF QueueMoves, QueueInv, Pending, InService

(* Nor do the walks notice, if they stand still. *)
LEMMA StandingWalks ==
    ASSUME CtrlrInv, Alive, QueuesMove, UNCHANGED <<toCtrlr, ncWalk>>,
           nc'.state = nc.state, nc'.keep_alive => nc.keep_alive,
           nc'.progress = nc.progress, nc'.association => nc.association,
           nc'.cc_timer => nc.cc_timer, nc'.cc_timeout => nc.cc_timeout,
           ncSeen'.expired = ncSeen.expired, ncSeen'.late = ncSeen.late
    PROVE  TimersInv' /\ WalkedInv'
<1>1. CtrlrRuns /\ QueueMoves(AdminQ)
  BY PlacementFacts DEF CtrlrInv, QueuesMove
<1>2. TimersInv'
  BY <1>1 DEF CtrlrRuns, TimersInv, Adm, QueueMoves
<1>3. ASSUME NEW q \in Qs, Walked(GroupOfQ[q])'
      PROVE  /\ Attached(q)' => ~InService(q)' \/ q \in ncSeen'.late
             /\ q = AdminQ => nq'[q].state # "none" /\ ~InService(q)'
  <2>1. Walked(GroupOfQ[q])
    BY <1>3 DEF Walked
  <2>2. QueueMoves(q) /\ QueueInv(q) /\ (Attached(q)' <=> Attached(q))
    BY <1>1 DEF QueuesMove, CtrlrRuns, Attached, QueueMoves, Freeing, Message
  <2>3. /\ Attached(q) => ~InService(q) \/ q \in ncSeen.late
        /\ q = AdminQ => nq[q].state # "none" /\ ~InService(q)
    BY <2>1, <1>1 DEF CtrlrRuns, WalkedInv
  <2>4. Attached(q) => nq[q].state # "none"
    BY <2>2 DEF Attached, QueueInv
  <2> QED BY <2>2, <2>3, <2>4 DEF QueueMoves
<1> QED BY <1>2, <1>3 DEF WalkedInv

---------------------------------------------------------------------------
(* Steps of one queue pair, of the host and of the timers *)

(* A crash that has nothing to do with the admin queue needs no cause. *)
LEMMA CauseKept ==
    ASSUME Alive, ncSeen'.crash \in {"no", "freed queue pair"} PROVE CrashesHaveCauses'
  BY DEF CrashesHaveCauses, Crashes

(* One queue pair moves. *)
LEMMA QueueStep ==
    ASSUME CtrlrInv, Alive, NEW q \in Qs, NEW r \in QType, nq' = [nq EXCEPT ![q] = r],
           r.ctrlr = nq[q].ctrlr, r.connect = nq[q].connect,
           (r.state = "freed") <=> (nq[q].state = "freed"),
           r.state = "none" => nq[q].state = "none" /\ r.io = nq[q].io,
           r.state = "active" => nq[q].state \in {"none", "active"},
           r.state = "active" /\ r.moved = "no" => InService(q) \/ nq[q].state = "none",
           Pending(r) => r.state \in {"active", "deactivating"},
           UNCHANGED <<toSubsys, toCtrlr, ncWalk>>,
           nc' \in {nc, [nc EXCEPT !.association = FALSE]},
           ncSeen' \in {ncSeen, [ncSeen EXCEPT !.crash = "freed queue pair"]}
    PROVE  CtrlrInv'
<1>1. CtrlrTypes /\ CtrlrRuns
  BY DEF CtrlrInv
<1>2. nq' \in [Qs -> QType] /\ nq'[q] = r /\ \A p \in Qs : p # q => nq'[p] = nq[p]
  BY <1>1, SetQ
<1>3. QueueMoves(q)
  BY <1>2 DEF QueueMoves, InService
<1>4. QueuesMove
  BY <1>2, <1>3, StandingMoves DEF QueuesMove
<1>5. /\ SameCtrlr /\ (nc'.association => nc.association)
      /\ nc'.progress = nc.progress /\ nc'.keep_alive = nc.keep_alive
      /\ nc'.cc_timer = nc.cc_timer /\ nc'.cc_timeout = nc.cc_timeout
  BY <1>1 DEF SameCtrlr, CtrlrTypes, CtrlrType
<1>6. /\ ncSeen' \in CtrlrSeenType /\ ncSeen'.crash \in {ncSeen.crash, "freed queue pair"}
      /\ ncSeen'.expired = ncSeen.expired /\ ncSeen'.late = ncSeen.late
  BY <1>1 DEF CtrlrTypes, CtrlrSeenType, Crashes
<1>7. CtrlrTypes'
  BY <1>1, <1>2, <1>5, <1>6 DEF CtrlrTypes, SameCtrlr
<1>8. CrashesHaveCauses'
  BY <1>6, CauseKept DEF Alive
<1>9. TimersInv' /\ WalkedInv'
  BY <1>4, <1>5, <1>6, StandingWalks DEF SameCtrlr
<1>10. Alive' => CtrlrRuns'
  BY <1>4, <1>5, <1>9, MovesKeep
<1> QED BY <1>7, <1>8, <1>10 DEF CtrlrInv

(* NewQpair keeps the invariant. *)
LEMMA NewQpairKeeps ==
    ASSUME CtrlrInv, NEW q \in Qs, NewQpair(q) PROVE CtrlrInv'
<1> DEFINE r == [nq[q] EXCEPT !.state = "active"]
<1>1. nq[q] \in QType /\ nq[q].state = "none" /\ Alive
  BY DEF NewQpair, CtrlrInv, CtrlrTypes
<1>2. /\ r \in QType /\ r.ctrlr = nq[q].ctrlr /\ r.connect = nq[q].connect
      /\ r.state = "active"
  BY <1>1 DEF QType
<1>3. nq' = [nq EXCEPT ![q] = r]
  BY DEF NewQpair
<1> HIDE DEF r
<1> QED BY <1>1, <1>2, <1>3, QueueStep DEF NewQpair

(* A disconnect moves the queue pair towards its end. *)
LEMMA DisconnectStep ==
    ASSUME CtrlrInv, Alive, NEW q \in Qs, NEW d \in QType,
           d.ctrlr = nq[q].ctrlr, d.connect = nq[q].connect, d.io = nq[q].io,
           d.state = nq[q].state,
           nq' = [nq EXCEPT ![q] = Disconnected(d)],
           UNCHANGED <<toSubsys, toCtrlr, ncWalk>>,
           nc' \in {nc, [nc EXCEPT !.association = FALSE]},
           ncSeen' \in {ncSeen, [ncSeen EXCEPT !.crash = "freed queue pair"]}
    PROVE  CtrlrInv'
<1> DEFINE r == Disconnected(d)
<1>1. QueueInv(q)
  BY DEF CtrlrInv, CtrlrRuns
<1>2. /\ r \in QType /\ r.ctrlr = d.ctrlr /\ r.connect = d.connect /\ r.io = d.io
      /\ r.moved = d.moved
      /\ r.state = IF d.state = "active" /\ d.moved # "started"
                   THEN IF Pending(d) THEN "deactivating" ELSE "closing"
                   ELSE d.state
  BY DisconnectedFacts
<1>3. nq' = [nq EXCEPT ![q] = r]
  OBVIOUS
<1> HIDE DEF r
<1>4. (Pending(r) <=> Pending(nq[q])) /\ (Pending(d) <=> Pending(nq[q]))
  BY <1>2 DEF Pending
<1>5. Pending(r) => r.state \in {"active", "deactivating"}
  BY <1>1, <1>2, <1>4 DEF QueueInv
<1>6. d.state \in {"none", "active", "deactivating", "closing", "freed"}
  BY DEF QType
<1>7. ((r.state = "active") => d.state = "active" /\ r.moved = "started")
      /\ ((r.state = "freed") <=> (nq[q].state = "freed"))
      /\ (r.state = "none" => nq[q].state = "none" /\ r.io = nq[q].io)
  BY <1>2, <1>6
<1>8. r \in QType /\ r.ctrlr = nq[q].ctrlr /\ r.connect = nq[q].connect
  BY <1>2
<1>9. r.state = "active" => nq[q].state \in {"none", "active"}
  BY <1>7
<1> QED BY <1>3, <1>5, <1>7, <1>8, <1>9, QueueStep

(* TransportDisconnect keeps the invariant. *)
LEMMA TransportDisconnectKeeps ==
    ASSUME CtrlrInv, NEW q \in Qs, TransportDisconnect(q) PROVE CtrlrInv'
<1>1. nq[q] \in QType /\ Alive
  BY DEF TransportDisconnect, CtrlrInv, CtrlrTypes
<1>2. nq' = [nq EXCEPT ![q] = Disconnected(nq[q])]
  BY DEF TransportDisconnect
<1> QED BY <1>1, <1>2, DisconnectStep DEF TransportDisconnect

(* DisconnectElsewhere keeps the invariant. *)
LEMMA DisconnectElsewhereKeeps ==
    ASSUME CtrlrInv, NEW q \in Qs, DisconnectElsewhere(q) PROVE CtrlrInv'
<1> DEFINE r == [nq[q] EXCEPT !.moved = "started"]
<1>1. nq[q] \in QType /\ nq[q].state = "active" /\ Alive
  BY DEF DisconnectElsewhere, CtrlrInv, CtrlrTypes
<1>2. /\ r \in QType /\ r.ctrlr = nq[q].ctrlr /\ r.connect = nq[q].connect
      /\ r.state = nq[q].state
  BY <1>1 DEF QType
<1>3. nq' = [nq EXCEPT ![q] = r]
  BY DEF DisconnectElsewhere
<1> HIDE DEF r
<1> QED BY <1>1, <1>2, <1>3, QueueStep DEF DisconnectElsewhere, InService

(* MoveDisconnect keeps the invariant. *)
LEMMA MoveDisconnectKeeps ==
    ASSUME CtrlrInv, NEW q \in Qs, MoveDisconnect(q) PROVE CtrlrInv'
<1> DEFINE r == [nq[q] EXCEPT !.moved = "sent"]
<1>1. nq[q] \in QType /\ Alive /\ QueueInv(q) /\ nq[q].moved = "started"
  BY DEF MoveDisconnect, CtrlrInv, CtrlrTypes, CtrlrRuns
<1>2. /\ r \in QType /\ r.ctrlr = nq[q].ctrlr /\ r.connect = nq[q].connect
      /\ r.state = nq[q].state /\ r.io = nq[q].io /\ r.moved = "sent"
  BY <1>1 DEF QType
<1>3. nq' = [nq EXCEPT ![q] = r]
  BY DEF MoveDisconnect
<1> HIDE DEF r
<1>4. Pending(r) => r.state \in {"active", "deactivating"}
  BY <1>1, <1>2 DEF QueueInv, Pending
<1>5. /\ ~(r.state = "active" /\ r.moved = "no")
      /\ (r.state = "freed") <=> (nq[q].state = "freed")
      /\ r.state = "none" => nq[q].state = "none" /\ r.io = nq[q].io
      /\ r.state = "active" => nq[q].state \in {"none", "active"}
  BY <1>2
<1> QED BY <1>1, <1>2, <1>3, <1>4, <1>5, QueueStep DEF MoveDisconnect

(* DisconnectMoved keeps the invariant. *)
LEMMA DisconnectMovedKeeps ==
    ASSUME CtrlrInv, NEW q \in Qs, DisconnectMoved(q) PROVE CtrlrInv'
<1> DEFINE d == [nq[q] EXCEPT !.moved = "no"]
<1>1. nq[q] \in QType /\ Alive /\ ncSeen \in CtrlrSeenType
  BY DEF DisconnectMoved, CtrlrInv, CtrlrTypes
<1>2. /\ d \in QType /\ d.ctrlr = nq[q].ctrlr /\ d.connect = nq[q].connect
      /\ d.io = nq[q].io /\ d.state = nq[q].state
  BY <1>1 DEF QType
<1>3. nq' = [nq EXCEPT ![q] = Disconnected(d)]
  BY DEF DisconnectMoved
<1>4. ncSeen' \in {ncSeen, [ncSeen EXCEPT !.crash = "freed queue pair"]}
  BY <1>1 DEF DisconnectMoved, CtrlrSeenType
<1> HIDE DEF d
<1> QED BY <1>1, <1>2, <1>3, <1>4, DisconnectStep DEF DisconnectMoved

(* StartIo keeps the invariant. *)
LEMMA StartIoKeeps ==
    ASSUME CtrlrInv, NEW q \in Qs, StartIo(q) PROVE CtrlrInv'
<1> DEFINE r == [nq[q] EXCEPT !.io = TRUE]
<1>1. nq[q] \in QType /\ nq[q].state = "active" /\ Alive
  BY DEF StartIo, CtrlrInv, CtrlrTypes
<1>2. /\ r \in QType /\ r.ctrlr = nq[q].ctrlr /\ r.connect = nq[q].connect
      /\ r.state = nq[q].state /\ r.moved = nq[q].moved
  BY <1>1 DEF QType
<1>3. nq' = [nq EXCEPT ![q] = r]
  BY DEF StartIo
<1> HIDE DEF r
<1>4. /\ r.state = "active" /\ r.moved = "no" => InService(q)
      /\ r.state = "active" /\ nq[q].state = "active"
  BY <1>1, <1>2 DEF InService
<1> QED BY <1>1, <1>2, <1>3, <1>4, QueueStep DEF StartIo

(* IoDone keeps the invariant. *)
LEMMA IoDoneKeeps ==
    ASSUME CtrlrInv, NEW q \in Qs, IoDone(q) PROVE CtrlrInv'
<1> DEFINE d == [nq[q] EXCEPT !.io = FALSE]
           r == Drained(d)
<1>1. nq[q] \in QType /\ nq[q].io /\ Alive /\ QueueInv(q)
  BY DEF IoDone, CtrlrInv, CtrlrTypes, CtrlrRuns
<1>2. /\ d \in QType /\ d.ctrlr = nq[q].ctrlr /\ d.connect = nq[q].connect
      /\ d.state = nq[q].state /\ d.moved = nq[q].moved
  BY <1>1 DEF QType
<1> HIDE DEF d
<1>3. /\ r \in QType /\ r.ctrlr = d.ctrlr /\ r.connect = d.connect /\ r.io = d.io
      /\ r.moved = nq[q].moved
      /\ r.state = IF d.state = "deactivating" /\ ~Pending(d) THEN "closing" ELSE d.state
  BY <1>2, DrainedFacts
<1>4. nq' = [nq EXCEPT ![q] = r]
  BY DEF IoDone, d
<1> HIDE DEF r
<1>5. nq[q].state \in {"active", "deactivating"}
  BY <1>1 DEF QueueInv, Pending
<1>6. (Pending(r) <=> Pending(d))
  BY <1>3 DEF Pending
<1>7. /\ Pending(r) => r.state \in {"active", "deactivating"}
      /\ r.state \notin {"none", "freed"} /\ (r.state = "active" => nq[q].state = "active")
  BY <1>2, <1>3, <1>5, <1>6
<1>8. r \in QType /\ r.ctrlr = nq[q].ctrlr /\ r.connect = nq[q].connect
  BY <1>2, <1>3
<1>9. /\ UNCHANGED <<toSubsys, toCtrlr, ncWalk>>
      /\ nc' \in {nc, [nc EXCEPT !.association = FALSE]}
      /\ ncSeen' \in {ncSeen, [ncSeen EXCEPT !.crash = "freed queue pair"]}
  BY DEF IoDone
<1> QED BY <1>1, <1>2, <1>3, <1>8, <1>4, <1>5, <1>7, <1>9, QueueStep DEF InService

(* AssociationExpired keeps the invariant. *)
LEMMA AssociationExpiredKeeps ==
    ASSUME CtrlrInv, AssociationExpired PROVE CtrlrInv'
<1>1. nq \in [Qs -> QType] /\ Alive /\ AdminQ \in Qs /\ nc' = [nc EXCEPT !.association = FALSE]
  BY PlacementFacts DEF AssociationExpired, CtrlrInv, CtrlrTypes
<1>2. nq[AdminQ] \in QType /\ QueueInv(AdminQ)
  BY <1>1 DEF CtrlrInv, CtrlrRuns
<1>3. CASE nq' = [nq EXCEPT ![AdminQ] = Disconnected(nq[AdminQ])]
  BY <1>1, <1>2, <1>3, DisconnectStep DEF AssociationExpired
<1>4. CASE nq' = nq
  <2>1. nq' = [nq EXCEPT ![AdminQ] = nq[AdminQ]]
    BY <1>4, <1>1
  <2> QED BY <2>1, <1>1, <1>2, QueueStep DEF AssociationExpired, QueueInv, InService
<1> QED BY <1>3, <1>4 DEF AssociationExpired

(* The queue pairs stand still. *)
LEMMA TimerStep ==
    ASSUME CtrlrInv, Alive, UNCHANGED <<nq, toSubsys, toCtrlr>>, SameCtrlr,
           ncWalk' \in [Walks -> 0 .. NumPgs + 1], ncSeen' \in CtrlrSeenType,
           CrashesHaveCauses', Alive' => TimersInv' /\ WalkedInv'
    PROVE  CtrlrInv'
<1>1. CtrlrTypes'
  BY DEF CtrlrInv, CtrlrTypes, SameCtrlr
<1>2. QueuesMove
  BY StandingMoves DEF QueuesMove, CtrlrInv, CtrlrTypes
<1>3. Alive' => CtrlrRuns'
  BY <1>2, MovesKeep
<1> QED BY <1>1, <1>3 DEF CtrlrInv

(* While the queue pairs and the walk of the keep alive timer stand still,
   so does what it has reached. *)
LEMMA WalkStands ==
    ASSUME CtrlrInv, Alive, UNCHANGED <<nq, toCtrlr>>,
           ncWalk'["keep_alive"] = ncWalk["keep_alive"],
           ncSeen'.expired = ncSeen.expired, ncSeen'.late = ncSeen.late
    PROVE  WalkedInv'
<1>1. WalkedInv
  BY DEF CtrlrInv, CtrlrRuns
<1>2. \A q \in Qs : Attached(q)' <=> Attached(q)
  BY DEF Attached, Freeing, Message
<1>3. \A q \in Qs : Walked(GroupOfQ[q])' <=> Walked(GroupOfQ[q])
  BY DEF Walked
<1> QED BY <1>1, <1>2, <1>3 DEF WalkedInv, InService

(* Enable keeps the invariant. *)
LEMMA EnableKeeps ==
    ASSUME CtrlrInv, Enable PROVE CtrlrInv'
<1>1. CtrlrTypes /\ TimersInv /\ Alive /\ CrashesHaveCauses
  BY DEF Enable, HostCommands, CtrlrInv, CtrlrRuns
<1>2. /\ SameCtrlr /\ ~nc'.association /\ nc'.progress = nc.progress
      /\ nc'.keep_alive = nc.keep_alive
      /\ nc'.cc_timer = nc.cc_timer /\ nc'.cc_timeout = nc.cc_timeout
  BY <1>1 DEF Enable, SameCtrlr, CtrlrTypes, CtrlrType
<1>3. CrashesHaveCauses'
  BY <1>1 DEF CrashesHaveCauses, Enable
<1>4. TimersInv'
  BY <1>1, <1>2 DEF TimersInv, Enable, SameCtrlr, Adm
<1>5. WalkedInv'
  BY <1>1, WalkStands DEF Enable
<1> QED BY <1>1, <1>2, <1>3, <1>4, <1>5, TimerStep DEF Enable, CtrlrTypes

(* ResetOrShutDown keeps the invariant. *)
LEMMA ResetOrShutDownKeeps ==
    ASSUME CtrlrInv, NEW b \in BOOLEAN, ResetOrShutDown(b) PROVE CtrlrInv'
<1>1. /\ CtrlrTypes /\ TimersInv /\ Alive /\ CrashesHaveCauses /\ FreedUnused
      /\ Adm.state = "active" /\ Adm.connect = "done" /\ Adm.ctrlr
  BY DEF ResetOrShutDown, HostCommands, AdminUsable, CtrlrInv, CtrlrRuns, Adm
<1>2. nc.state # "freed"
  BY <1>1, PlacementFacts DEF FreedUnused, Adm
<1>3. SameCtrlr /\ nc'.progress /\ nc'.association = nc.association
      /\ (nc'.keep_alive => nc.keep_alive) /\ nc'.cc_timer = nc.cc_timer
  <2> DEFINE en == IF b THEN nc.en ELSE FALSE
             alive == nc.keep_alive /\ ~b
  <2>1. en \in BOOLEAN /\ alive \in BOOLEAN /\ (alive => nc.keep_alive)
    BY <1>1 DEF CtrlrTypes, CtrlrType
  <2>2. nc' = [nc EXCEPT !.en = en, !.shn = b, !.progress = TRUE,
                         !.cc_timeout = TRUE, !.keep_alive = alive]
    BY DEF ResetOrShutDown
  <2> HIDE DEF en, alive
  <2> QED
    <3>1. nc \in CtrlrType BY <1>1 DEF CtrlrTypes
    <3>2. /\ nc' \in CtrlrType
          /\ nc'.en = en /\ nc'.shn = b /\ nc'.progress = TRUE /\ nc'.cc_timeout = TRUE
          /\ nc'.keep_alive = alive /\ nc'.state = nc.state /\ nc'.mask = nc.mask
          /\ nc'.admin = nc.admin /\ nc'.destruct = nc.destruct
          /\ nc'.association = nc.association /\ nc'.cc_timer = nc.cc_timer
      <4>1. nc' = [state |-> nc.state, mask |-> nc.mask, admin |-> nc.admin, en |-> en,
                   cfs |-> nc.cfs, destruct |-> nc.destruct, progress |-> TRUE, shn |-> b,
                   keep_alive |-> alive, association |-> nc.association,
                   cc_timer |-> nc.cc_timer, cc_timeout |-> TRUE]
        BY <2>2, <3>1 DEF CtrlrType
      <4> QED BY <2>1, <3>1, <4>1 DEF CtrlrType
    <3> QED BY <2>1, <3>2 DEF SameCtrlr
<1>4. /\ ncWalk' \in [Walks -> 0 .. NumPgs + 1]
      /\ ncWalk'["keep_alive"] = ncWalk["keep_alive"]
  BY <1>1, PlacementFacts DEF ResetOrShutDown, CtrlrTypes, Walks
<1>5. /\ ncSeen' \in CtrlrSeenType /\ ncSeen'.crash = ncSeen.crash
      /\ ncSeen'.expired = ncSeen.expired /\ ncSeen'.late = ncSeen.late
  <2> DEFINE n == ncSeen.resets + 1
  <2>1. n \in Nat /\ ncSeen \in CtrlrSeenType
    BY <1>1 DEF CtrlrTypes, CtrlrSeenType
  <2>2. ncSeen' = [ncSeen EXCEPT !.resets = n]
    BY DEF ResetOrShutDown
  <2> HIDE DEF n
  <2> QED BY <2>1, <2>2 DEF CtrlrSeenType
<1>6. CrashesHaveCauses' /\ nq' = nq
  BY <1>1, <1>5 DEF CrashesHaveCauses, ResetOrShutDown
<1>7. TimersInv'
  BY <1>1, <1>2, <1>3, <1>4, <1>5, <1>6 DEF TimersInv, SameCtrlr, Adm
<1>8. WalkedInv'
  BY <1>1, <1>4, <1>5, WalkStands DEF ResetOrShutDown
<1> QED BY <1>1, <1>3, <1>4, <1>5, <1>6, <1>7, <1>8, TimerStep DEF ResetOrShutDown

(* KeepAliveExpired keeps the invariant. *)
LEMMA KeepAliveExpiredKeeps ==
    ASSUME CtrlrInv, KeepAliveExpired PROVE CtrlrInv'
<1>1. CtrlrTypes /\ TimersInv /\ Alive /\ CrashesHaveCauses /\ WalkedInv /\ nc.keep_alive
  BY DEF KeepAliveExpired, CtrlrInv, CtrlrRuns
<1>2. /\ SameCtrlr /\ nc'.association = nc.association /\ nc'.progress = nc.progress
      /\ nc'.cc_timer = nc.cc_timer /\ nc'.cc_timeout = nc.cc_timeout
  BY <1>1 DEF KeepAliveExpired, SameCtrlr, CtrlrTypes, CtrlrType
<1>3. /\ ncWalk' \in [Walks -> 0 .. NumPgs + 1] /\ ncWalk'["reset"] = ncWalk["reset"]
      /\ ncWalk["keep_alive"] = NoWalkOn
      /\ ncWalk'["keep_alive"] \in {0, 1}
  BY <1>1, PlacementFacts DEF KeepAliveExpired, CtrlrTypes, Walks, NoWalkOn
<1>4. UNCHANGED <<nq, toSubsys, toCtrlr, ncSeen>>
  BY DEF KeepAliveExpired
<1>5. CrashesHaveCauses'
  BY <1>1, <1>4 DEF CrashesHaveCauses
<1>6. nc.state # "freed"
  BY <1>1 DEF TimersInv
<1>7. TimersInv'
  BY <1>1, <1>2, <1>3, <1>4, <1>6 DEF TimersInv, SameCtrlr, Adm
<1>8. ASSUME NEW q \in Qs, Walked(GroupOfQ[q])' PROVE Walked(GroupOfQ[q])
  BY <1>3, <1>4, <1>8, PlacementFacts DEF Walked, NoWalkOn
<1>9. \A q \in Qs : Attached(q)' <=> Attached(q)
  BY <1>4 DEF Attached, Freeing, Message
<1>10. WalkedInv'
  BY <1>1, <1>4, <1>8, <1>9 DEF WalkedInv, InService
<1> QED BY <1>1, <1>2, <1>3, <1>4, <1>5, <1>7, <1>10, TimerStep DEF CtrlrTypes

(* KeepAliveWalked keeps the invariant. *)
LEMMA KeepAliveWalkedKeeps ==
    ASSUME CtrlrInv, KeepAliveWalked PROVE CtrlrInv'
<1>1. CtrlrTypes /\ TimersInv /\ Alive /\ CrashesHaveCauses /\ WalkedInv
  BY DEF KeepAliveWalked, CtrlrInv, CtrlrRuns
<1>2. /\ ncWalk' \in [Walks -> 0 .. NumPgs + 1] /\ ncWalk'["reset"] = ncWalk["reset"]
      /\ ncWalk["keep_alive"] \in Nat /\ ncWalk["keep_alive"] > NumPgs
      /\ ncWalk["keep_alive"] # NoWalkOn
  BY <1>1, PlacementFacts DEF KeepAliveWalked, CtrlrTypes, Walks, NoWalkOn
<1>3. /\ ncSeen' \in CtrlrSeenType /\ ncSeen'.crash = ncSeen.crash
      /\ ncSeen'.late = ncSeen.late
  BY <1>1 DEF KeepAliveWalked, CtrlrTypes, CtrlrSeenType
<1>4. UNCHANGED <<nc, nq, toSubsys, toCtrlr>>
  BY DEF KeepAliveWalked
<1>5. CrashesHaveCauses' /\ SameCtrlr
  BY <1>1, <1>3, <1>4 DEF CrashesHaveCauses, SameCtrlr, CtrlrTypes
<1>6. TimersInv'
  BY <1>1, <1>2, <1>4 DEF TimersInv, Adm
<1>7. ASSUME NEW q \in Qs PROVE Walked(GroupOfQ[q])
  BY <1>2, PlacementFacts DEF Walked
<1>8. \A q \in Qs : Attached(q)' <=> Attached(q)
  BY <1>4 DEF Attached, Freeing, Message
<1>9. WalkedInv'
  BY <1>1, <1>3, <1>4, <1>7, <1>8 DEF WalkedInv, InService
<1> QED BY <1>1, <1>2, <1>3, <1>4, <1>5, <1>6, <1>9, TimerStep

(* ResetWalked keeps the invariant. *)
LEMMA ResetWalkedKeeps ==
    ASSUME CtrlrInv, NEW b \in BOOLEAN, ResetWalked(b) PROVE CtrlrInv'
<1>1. CtrlrTypes /\ TimersInv /\ Alive /\ CrashesHaveCauses
  BY DEF ResetWalked, CtrlrInv, CtrlrRuns
<1>2. ncWalk["reset"] \in Nat /\ (ncWalk["reset"] > NumPgs => ncWalk["reset"] # NoWalkOn)
  BY <1>1, PlacementFacts DEF CtrlrTypes, Walks, NoWalkOn
<1>3. nc.progress /\ Adm.ctrlr /\ Adm.connect = "done" /\ nc.state # "freed"
  BY <1>1, <1>2 DEF ResetWalked, TimersInv
<1>4. /\ SameCtrlr /\ nc'.keep_alive = nc.keep_alive
      /\ nc'.progress \/ (~nc'.progress /\ ~nc'.cc_timer /\ ~nc'.cc_timeout)
  <2>1. nc \in CtrlrType
    BY <1>1 DEF CtrlrTypes
  <2>2. CASE nc' = [nc EXCEPT !.cc_timer = TRUE]
    BY <2>1, <2>2, <1>3 DEF SameCtrlr, CtrlrType
  <2>3. CASE nc' = Reset([nc EXCEPT !.cfs = @ \/ b])
    <3> DEFINE c == [nc EXCEPT !.cfs = @ \/ b]
    <3>1. /\ c \in CtrlrType /\ c.state = nc.state /\ c.mask = nc.mask /\ c.admin = nc.admin
          /\ c.destruct = nc.destruct /\ c.keep_alive = nc.keep_alive
      BY <2>1 DEF CtrlrType
    <3>2. nc' = Reset(c) BY <2>3
    <3> HIDE DEF c
    <3> DEFINE en == c.en /\ c.shn
               cfs == c.cfs /\ c.shn
    <3>3. en \in BOOLEAN /\ cfs \in BOOLEAN BY <3>1 DEF CtrlrType
    <3>4. nc' = [c EXCEPT !.cc_timer = FALSE, !.cc_timeout = FALSE, !.progress = FALSE,
                          !.shn = FALSE, !.association = TRUE, !.en = en, !.cfs = cfs]
      BY <3>2 DEF Reset
    <3> HIDE DEF en, cfs
    <3> QED
      <4>1. nc' = [state |-> c.state, mask |-> c.mask, admin |-> c.admin, en |-> en,
                   cfs |-> cfs, destruct |-> c.destruct, progress |-> FALSE, shn |-> FALSE,
                   keep_alive |-> c.keep_alive, association |-> TRUE,
                   cc_timer |-> FALSE, cc_timeout |-> FALSE]
        BY <3>1, <3>4 DEF CtrlrType
      <4>2. c.state = nc.state /\ c.mask = nc.mask /\ c.admin = nc.admin
            /\ c.destruct = nc.destruct /\ c.keep_alive = nc.keep_alive
        BY <3>1
      <4>3. nc' \in CtrlrType BY <3>1, <3>3, <4>1 DEF CtrlrType
      <4> QED BY <4>1, <4>2, <4>3 DEF SameCtrlr
  <2> QED BY <2>2, <2>3 DEF ResetWalked
<1>5. /\ ncWalk' \in [Walks -> 0 .. NumPgs + 1] /\ ncWalk'["reset"] = NoWalkOn
      /\ ncWalk'["keep_alive"] = ncWalk["keep_alive"]
  BY <1>1, PlacementFacts DEF ResetWalked, CtrlrTypes, Walks, NoWalkOn
<1>6. UNCHANGED <<nq, toSubsys, toCtrlr, ncSeen>>
  BY DEF ResetWalked
<1>7. CrashesHaveCauses'
  BY <1>1, <1>6 DEF CrashesHaveCauses
<1>8. TimersInv'
  BY <1>1, <1>3, <1>4, <1>5, <1>6 DEF TimersInv, SameCtrlr, Adm
<1>9. WalkedInv'
  BY <1>1, <1>5, <1>6, WalkStands
<1> QED BY <1>1, <1>4, <1>5, <1>6, <1>7, <1>8, <1>9, TimerStep DEF CtrlrTypes

(* CcTimeout keeps the invariant. *)
LEMMA CcTimeoutKeeps ==
    ASSUME CtrlrInv, CcTimeout PROVE CtrlrInv'
<1>1. CtrlrTypes /\ TimersInv /\ StagesInv /\ Alive /\ nc.cc_timeout
  BY DEF CcTimeout, CtrlrInv, CtrlrRuns
<1>2. /\ SameCtrlr /\ ~nc'.cc_timeout /\ nc'.progress = nc.progress
      /\ nc'.keep_alive = nc.keep_alive /\ nc'.association = nc.association
      /\ nc'.cc_timer = nc.cc_timer
  BY <1>1 DEF CcTimeout, SameCtrlr, CtrlrTypes, CtrlrType
<1>3. /\ ncSeen' \in CtrlrSeenType
      /\ ncSeen'.expired = ncSeen.expired /\ ncSeen'.late = ncSeen.late
      /\ \/ ncSeen'.crash = "no"
         \/ ~nc.admin \/ Adm.state \in {"closing", "freed"}
  BY <1>1 DEF CcTimeout, CtrlrTypes, CtrlrSeenType, Crashes, Alive, Adm
<1>4. Adm.ctrlr /\ Adm.connect = "done"
  BY <1>1 DEF TimersInv
<1>5. ~nc.admin => Adm.state = "freed"
  BY <1>1, <1>4 DEF StagesInv
<1>6. UNCHANGED <<nq, toSubsys, toCtrlr, ncWalk>>
  BY DEF CcTimeout
<1>7. ncSeen'.crash = "no" \/ nq'[AdminQ].state \in {"closing", "freed"}
  BY <1>3, <1>5, <1>6 DEF Adm
<1>8. CrashesHaveCauses'
  BY <1>3, <1>7 DEF CrashesHaveCauses, CtrlrSeenType
<1>9. TimersInv'
  BY <1>1, <1>2, <1>3, <1>6 DEF TimersInv, SameCtrlr, Adm
<1>10. WalkedInv'
  BY <1>1, <1>3, <1>6, WalkStands
<1> QED BY <1>1, <1>2, <1>3, <1>6, <1>8, <1>9, <1>10, TimerStep DEF CtrlrTypes

(* A walk disconnects the queues of one group. *)
LEMMA WalkGroupKeeps ==
    ASSUME CtrlrInv, NEW w \in Walks, WalkGroup(w) PROVE CtrlrInv'
<1>1. /\ CtrlrTypes /\ TimersInv /\ Alive /\ CrashesHaveCauses /\ WalkedInv
      /\ \A q \in Qs : QueueInv(q)
  BY DEF WalkGroup, CtrlrInv, CtrlrRuns
<1> DEFINE g == ncWalk[w]
<1>2. /\ ncWalk' \in [Walks -> 0 .. NumPgs + 1] /\ g \in 1 .. NumPgs /\ g # NoWalkOn
      /\ ncWalk'[w] = g + 1 /\ \A v \in Walks : v # w => ncWalk'[v] = ncWalk[v]
  BY <1>1, PlacementFacts DEF WalkGroup, CtrlrTypes, NoWalkOn
<1>3. UNCHANGED <<nc, toSubsys, toCtrlr, ncSeen>>
  BY DEF WalkGroup
<1>4. ASSUME NEW q \in Qs
      PROVE  /\ nq'[q] = IF q \in ToDisconnect(w, g) THEN Disconnected(nq[q]) ELSE nq[q]
             /\ nq'[q] \in QType /\ QueueMoves(q)
             /\ q \in ToDisconnect(w, g) => ~InService(q)'
             /\ InService(q)' => InService(q) \/ nq[q].state = "none"
             /\ nq[q].state # "none" => nq'[q].state # "none"
  <2>1. nq'[q] = IF q \in ToDisconnect(w, g) THEN Disconnected(nq[q]) ELSE nq[q]
    BY DEF WalkGroup
  <2>2. nq[q] \in QType /\ QueueInv(q)
    BY <1>1 DEF CtrlrTypes
  <2>3. CASE q \notin ToDisconnect(w, g)
    <3>1. nq'[q] = nq[q] BY <2>1, <2>3
    <3> QED BY <3>1, <2>1, <2>2, <2>3, <1>1, StandingMoves DEF InService
  <2>4. CASE q \in ToDisconnect(w, g)
    <3> DEFINE d == nq[q]
               r == Disconnected(d)
    <3>1. nq'[q] = r BY <2>1, <2>4
    <3>2. /\ r \in QType /\ r.ctrlr = d.ctrlr /\ r.connect = d.connect /\ r.io = d.io
          /\ r.moved = d.moved
          /\ r.state = IF d.state = "active" /\ d.moved # "started"
                       THEN IF Pending(d) THEN "deactivating" ELSE "closing"
                       ELSE d.state
      BY <2>2, DisconnectedFacts
    <3> HIDE DEF r
    <3>3. Pending(r) <=> Pending(d) BY <3>2 DEF Pending
    <3>4. QueueMoves(q)
      BY <3>1, <3>2, <3>3, <2>2 DEF QueueMoves, QueueInv, QType, InService
    <3> QED BY <3>1, <3>2, <3>4, <2>1 DEF InService
  <2> QED BY <2>3, <2>4
<1>5. QueuesMove
  <2>1. nq' \in [Qs -> QType]
    BY <1>4 DEF WalkGroup
  <2> QED BY <2>1, <1>4 DEF QueuesMove
<1>6. CtrlrTypes' /\ SameCtrlr
  BY <1>1, <1>2, <1>3, <1>5 DEF CtrlrTypes, QueuesMove, SameCtrlr
<1>7. CrashesHaveCauses'
  <2>1. ncSeen.crash = "no" /\ ncSeen'.crash = "no"
    BY <1>1, <1>3 DEF Alive
  <2> QED BY <2>1 DEF CrashesHaveCauses, Crashes
<1>8. TimersInv'
  <2>1. QueueMoves(AdminQ)
    BY <1>4, PlacementFacts
  <2>2. ASSUME NEW v \in Walks PROVE ncWalk'[v] # NoWalkOn => ncWalk[v] # NoWalkOn
    BY <1>2
  <2>3. /\ ncWalk'["keep_alive"] # NoWalkOn => ncWalk["keep_alive"] # NoWalkOn
        /\ ncWalk'["reset"] # NoWalkOn => ncWalk["reset"] # NoWalkOn
    BY <2>2 DEF Walks
  <2> QED BY <2>1, <2>3, <1>1, <1>3 DEF TimersInv, QueueMoves, Adm
<1>9. WalkedInv'
  <2> SUFFICES ASSUME NEW q \in Qs, Walked(GroupOfQ[q])'
               PROVE  /\ Attached(q)' => ~InService(q)' \/ q \in ncSeen'.late
                      /\ q = AdminQ => nq'[q].state # "none" /\ ~InService(q)'
    BY DEF WalkedInv
  <2>1. Attached(q)' <=> Attached(q)
    BY <1>3, <1>4 DEF Attached, QueueMoves, Freeing, Message
  <2>2. CASE Walked(GroupOfQ[q])
    <3>1. /\ Attached(q) => ~InService(q) \/ q \in ncSeen.late
          /\ q = AdminQ => nq[q].state # "none" /\ ~InService(q)
      BY <2>2, <1>1 DEF WalkedInv
    <3> QED BY <3>1, <2>1, <1>3, <1>4 DEF InService
  <2>3. CASE ~Walked(GroupOfQ[q])
    <3>1. w = "keep_alive" /\ GroupOfQ[q] = g
      <4>1. GroupOfQ[q] \in 1 .. NumPgs BY PlacementFacts
      <4>2. ~ncSeen'.expired /\ ~ncSeen.expired BY <2>3, <1>3 DEF Walked
      <4>3. GroupOfQ[q] < ncWalk'["keep_alive"] /\ ncWalk'["keep_alive"] # NoWalkOn
        BY <4>2 DEF Walked
      <4>4. w = "keep_alive" BY <4>2, <4>3, <2>3, <1>2 DEF Walked, Walks
      <4>5. ~(GroupOfQ[q] < g) BY <4>4, <2>3, <1>2 DEF Walked
      <4> QED BY <4>1, <4>3, <4>4, <4>5, <1>2
    <3>2. ncWalk["keep_alive"] # NoWalkOn BY <3>1, <1>2
    <3>3. Adm.ctrlr BY <3>2, <1>1 DEF TimersInv
    <3>4. Attached(q) \/ q = AdminQ => q \in ToDisconnect(w, g) /\ nq[q].state # "none"
      BY <3>1, <3>3, <1>1 DEF Attached, ToDisconnect, Adm, QueueInv
    <3> QED BY <3>4, <2>1, <1>4
  <2> QED BY <2>2, <2>3
<1>10. Alive' => CtrlrRuns'
  BY <1>1, <1>3, <1>5, <1>6, <1>8, <1>9, MovesKeep
<1> QED BY <1>6, <1>7, <1>10 DEF CtrlrInv

---------------------------------------------------------------------------
(* Steps that send or handle messages *)

(* The subsystem's thread takes the next message. *)
LEMMA TakenBySubsys ==
    ASSUME CtrlrInv, Alive, NEW f, At(toSubsys, f), toSubsys' = Tail(toSubsys)
    PROVE  \E q \in Qs :
             /\ Head(toSubsys) = Message(f, q) /\ Head(toSubsys).q = q
             /\ Message(f, q) \in Sent(toSubsys)
             /\ toSubsys' \in Seq(SubsysMsg) /\ Once(toSubsys)'
             /\ \A x : x \in Sent(toSubsys)' <=> x \in Sent(toSubsys) /\ x # Message(f, q)
<1>1. toSubsys \in Seq(SubsysMsg) /\ Once(toSubsys) /\ toSubsys # <<>>
  BY DEF CtrlrInv, CtrlrTypes, CtrlrRuns, MessagesInv, At
<1>2. Head(toSubsys).f = f
  BY DEF At
<1>3. /\ Tail(toSubsys) \in Seq(SubsysMsg)
      /\ Head(toSubsys) \in SubsysMsg /\ Head(toSubsys) \in Sent(toSubsys)
      /\ \A x : x \in Sent(Tail(toSubsys)) <=> x \in Sent(toSubsys) /\ x # Head(toSubsys)
      /\ Once(Tail(toSubsys))
  BY <1>1, TailHandles
<1>4. Head(toSubsys) = Message(f, Head(toSubsys).q) /\ Head(toSubsys).q \in Qs
  BY <1>2, <1>3, MessageParts
<1>5. Once(toSubsys)' /\ \A x : x \in Sent(toSubsys)' <=> x \in Sent(Tail(toSubsys))
  BY <1>3 DEF Once, Sent
<1> QED BY <1>3, <1>4, <1>5

(* The controller's thread takes the next message, and may answer with
   none. *)
LEMMA TakenByCtrlr ==
    ASSUME CtrlrInv, Alive, NEW f, At(toCtrlr, f), toCtrlr' = Tail(toCtrlr)
    PROVE  \E q \in Qs :
             /\ Head(toCtrlr) = Message(f, q) /\ Head(toCtrlr).q = q
             /\ Message(f, q) \in Sent(toCtrlr)
             /\ toCtrlr' \in Seq(CtrlrMsg) /\ Once(toCtrlr)' /\ DestructLast(toCtrlr)'
             /\ \A x : x \in Sent(toCtrlr)' <=> x \in Sent(toCtrlr) /\ x # Message(f, q)
             /\ f = "destruct" => toCtrlr' = <<>>
<1>1. toCtrlr \in Seq(CtrlrMsg) /\ Once(toCtrlr) /\ DestructLast(toCtrlr) /\ toCtrlr # <<>>
  BY DEF CtrlrInv, CtrlrTypes, CtrlrRuns, MessagesInv, At
<1>2. Head(toCtrlr).f = f
  BY DEF At
<1>3. /\ Tail(toCtrlr) \in Seq(CtrlrMsg)
      /\ Head(toCtrlr) \in CtrlrMsg /\ Head(toCtrlr) \in Sent(toCtrlr)
      /\ \A x : x \in Sent(Tail(toCtrlr)) <=> x \in Sent(toCtrlr) /\ x # Head(toCtrlr)
      /\ Once(Tail(toCtrlr)) /\ DestructLast(Tail(toCtrlr))
      /\ f = "destruct" => Tail(toCtrlr) = <<>>
  BY <1>1, <1>2, TailHandles
<1>4. Head(toCtrlr) = Message(f, Head(toCtrlr).q) /\ Head(toCtrlr).q \in Qs
  BY <1>2, <1>3, MessageParts
<1>5. /\ Once(toCtrlr)' /\ DestructLast(toCtrlr)'
      /\ \A x : x \in Sent(toCtrlr)' <=> x \in Sent(Tail(toCtrlr))
  BY <1>3 DEF Once, Sent, DestructLast
<1> QED BY <1>3, <1>4, <1>5

(* A message goes to the subsystem's thread. *)
LEMMA SentToSubsys ==
    ASSUME NEW s \in Seq(SubsysMsg), Once(s), NEW f \in {"add_ctrlr", "add_io", "destruct"},
           NEW q \in Qs, Message(f, q) \notin Sent(s), toSubsys' = Append(s, Message(f, q))
    PROVE  /\ toSubsys' \in Seq(SubsysMsg) /\ Once(toSubsys)'
           /\ \A x : x \in Sent(toSubsys)' <=> x \in Sent(s) \/ x = Message(f, q)
<1> DEFINE m == Message(f, q)
<1>1. m \in SubsysMsg
  BY MessageFacts
<1> HIDE DEF m
<1>2. /\ Append(s, m) \in Seq(SubsysMsg) /\ Once(Append(s, m))
      /\ \A x : x \in Sent(Append(s, m)) <=> x \in Sent(s) \/ x = m
  BY <1>1, AppendSends DEF m
<1>3. toSubsys' = Append(s, m)
  BY DEF m
<1> QED BY <1>2, <1>3 DEF Once, Sent, m

(* A message goes to the controller's thread, before the last one. *)
LEMMA SentToCtrlr ==
    ASSUME NEW s \in Seq(CtrlrMsg), Once(s),
           NEW f \in {"add_admin", "add_io", "free", "destruct"},
           NEW q \in Qs, Message(f, q) \notin Sent(s), toCtrlr' = Append(s, Message(f, q)),
           \A x \in Sent(s) : x.f # "destruct"
    PROVE  /\ toCtrlr' \in Seq(CtrlrMsg) /\ Once(toCtrlr)' /\ DestructLast(toCtrlr)'
           /\ \A x : x \in Sent(toCtrlr)' <=> x \in Sent(s) \/ x = Message(f, q)
<1> DEFINE m == Message(f, q)
<1>1. m \in CtrlrMsg
  BY MessageFacts
<1> HIDE DEF m
<1>2. /\ Append(s, m) \in Seq(CtrlrMsg) /\ Once(Append(s, m)) /\ DestructLast(Append(s, m))
      /\ \A x : x \in Sent(Append(s, m)) <=> x \in Sent(s) \/ x = m
  BY <1>1, AppendSends DEF m
<1>3. toCtrlr' = Append(s, m)
  BY DEF m
<1> QED BY <1>2, <1>3 DEF Once, Sent, DestructLast, m

(* Until the controller is removed its thread is not told to end it. *)
LEMMA NoDestructYet ==
    ASSUME CtrlrInv, Alive, nc.state # "removed"
    PROVE  \A x \in Sent(toCtrlr) : x.f # "destruct"
<1> SUFFICES ASSUME NEW x \in Sent(toCtrlr), x.f = "destruct" PROVE FALSE
  OBVIOUS
<1>1. x \in CtrlrMsg
  BY DEF CtrlrInv, CtrlrTypes, Sent
<1>2. x = Message("destruct", x.q) /\ x.q \in Qs
  BY <1>1, MessageParts
<1> QED BY <1>2 DEF CtrlrInv, CtrlrRuns, MessagesInv, MessagesOf

(* While a queue pair is attached the controller is listed and has no end
   in sight. *)
LEMMA AttachedListed ==
    ASSUME CtrlrInv, Alive, NEW q \in Qs, Attached(q)
    PROVE  nc.state = "listed" /\ ~nc.destruct /\ Qid[q] \in nc.mask
<1>1. QueueInv(q) /\ QueueInv(AdminQ) /\ StagesInv /\ MaskIsAttached /\ FreedUnused
  BY PlacementFacts DEF CtrlrInv, CtrlrRuns
<1>2. Qid[q] \in nc.mask
  BY <1>1 DEF MaskIsAttached
<1>3. ~nc.destruct
  BY <1>1, <1>2 DEF StagesInv
<1>4. nq[q].ctrlr /\ nq[q].connect \in {"answered", "done"} /\ (nq[q].state = "freed" => Freeing(q))
  BY DEF Attached
<1>5. Adm.connect \in {"answered", "done"}
  BY <1>1, <1>4 DEF QueueInv, Adm
<1>6. nc.state \notin {"none", "created", "removed"}
  BY <1>1, <1>3, <1>5 DEF StagesInv
<1>7. nc.state # "freed"
  BY <1>1, <1>4 DEF FreedUnused
<1>8. nc.state \in {"none", "created", "listed", "removed", "freed"}
  BY DEF CtrlrInv, CtrlrTypes, CtrlrType
<1> QED BY <1>2, <1>3, <1>6, <1>7, <1>8

(* FiniComplete keeps the invariant. *)
LEMMA FiniCompleteKeeps ==
    ASSUME CtrlrInv, NEW q \in Qs, FiniComplete(q) PROVE CtrlrInv'
<1> DEFINE r == [nq[q] EXCEPT !.state = "freed"]
           has == nq[q].ctrlr
<1>1. CtrlrTypes /\ CtrlrRuns /\ Alive /\ nq[q] \in QType /\ QueueInv(q) /\ AdminQ \in Qs
  BY PlacementFacts DEF FiniComplete, CtrlrInv, CtrlrTypes, CtrlrRuns
<1>2. nq[q].state = "closing" /\ nq' = [nq EXCEPT ![q] = r]
  BY DEF FiniComplete
<1>3. /\ r \in QType /\ r.state = "freed" /\ r.ctrlr = has /\ r.connect = nq[q].connect
      /\ r.io = nq[q].io
  BY <1>1 DEF QType
<1> HIDE DEF r
<1>4. nq' \in [Qs -> QType] /\ nq'[q] = r /\ \A p \in Qs : p # q => nq'[p] = nq[p]
  BY <1>1, <1>2, <1>3, SetQ
<1>5. ~Pending(nq[q]) /\ nq[q].connect \in {"no", "done"} /\ (has => nq[q].connect = "done")
  BY <1>1, <1>2 DEF QueueInv, Pending, QType
<1>6. has => Attached(q) /\ nc.state = "listed" /\ ~nc.destruct
  BY <1>1, <1>2, <1>5, AttachedListed DEF Attached
<1>7. /\ nc' \in CtrlrType
      /\ nc'.state = nc.state /\ nc'.mask = nc.mask /\ nc'.destruct = nc.destruct
      /\ nc'.progress = nc.progress /\ nc'.keep_alive = nc.keep_alive
      /\ nc'.association = nc.association
      /\ nc'.cc_timer = nc.cc_timer /\ nc'.cc_timeout = nc.cc_timeout
      /\ nc'.admin = (nc.admin /\ ~(has /\ q = AdminQ))
  BY <1>1 DEF FiniComplete, CtrlrTypes, CtrlrType
<1>8. Message("free", q) \notin Sent(toCtrlr)
  BY <1>1, <1>2 DEF CtrlrRuns, MessagesInv, MessagesOf
<1>9. /\ toCtrlr' \in Seq(CtrlrMsg) /\ Once(toCtrlr)' /\ DestructLast(toCtrlr)'
      /\ \A x : x \in Sent(toCtrlr)' <=> x \in Sent(toCtrlr) \/ (has /\ x = Message("free", q))
  <2>1. toCtrlr \in Seq(CtrlrMsg) /\ Once(toCtrlr) /\ DestructLast(toCtrlr)
    BY <1>1 DEF CtrlrTypes, CtrlrRuns, MessagesInv
  <2>2. CASE has
    <3>1. toCtrlr' = Append(toCtrlr, Message("free", q)) BY <2>2 DEF FiniComplete
    <3>2. \A x \in Sent(toCtrlr) : x.f # "destruct" BY <2>2, <1>1, <1>6, NoDestructYet
    <3> HIDE DEF has
    <3> QED BY <2>1, <2>2, <3>1, <3>2, <1>8, SentToCtrlr
  <2>3. CASE ~has
    <3>1. toCtrlr' = toCtrlr BY <2>3 DEF FiniComplete
    <3> HIDE DEF has
    <3> QED BY <2>1, <2>3, <3>1 DEF Once, DestructLast, Sent
  <2> QED BY <2>2, <2>3
<1>10. UNCHANGED <<toSubsys, ncWalk, ncSeen>> /\ Sent(toSubsys)' = Sent(toSubsys)
       /\ Once(toSubsys)'
  BY <1>1 DEF FiniComplete, Sent, Once, CtrlrRuns, MessagesInv
<1>11. \A p \in Qs : /\ nq'[p].ctrlr = nq[p].ctrlr /\ nq'[p].connect = nq[p].connect
                     /\ nq'[p].io = nq[p].io
                     /\ nq'[p].state = IF p = q THEN "freed" ELSE nq[p].state
  BY <1>3, <1>4
<1> HIDE DEF has
<1>12. CtrlrTypes'
  BY <1>1, <1>4, <1>7, <1>9, <1>10 DEF CtrlrTypes
<1>13. CrashesHaveCauses'
  BY <1>1, <1>10 DEF CrashesHaveCauses, Crashes, Alive
<1>14. ASSUME NEW p \in Qs PROVE QueueInv(p)'
  <2>1. QueueInv(p)
    BY <1>1 DEF CtrlrRuns
  <2> QED BY <2>1, <1>1, <1>5, <1>11 DEF QueueInv, Adm, Pending
<1>15. MessagesInv'
  <2> SUFFICES ASSUME NEW p \in Qs PROVE MessagesOf(p)'
    BY <1>9, <1>10 DEF MessagesInv
  <2>1. \A f : Message(f, p) \in Sent(toCtrlr)' <=>
               Message(f, p) \in Sent(toCtrlr) \/ (has /\ f = "free" /\ p = q)
    BY <1>9, MessageFacts
  <2> QED
    BY <2>1, <1>1, <1>3, <1>4, <1>5, <1>7, <1>10, <1>11 DEF CtrlrRuns, MessagesInv, MessagesOf, Adm, Message
<1>16. StagesInv'
  BY <1>1, <1>2, <1>3, <1>4, <1>7, <1>11 DEF CtrlrRuns, StagesInv, Adm
<1>17. TimersInv'
  BY <1>1, <1>7, <1>10, <1>11 DEF CtrlrRuns, TimersInv, Adm
<1>18. \A p \in Qs : Freeing(p)' <=> Freeing(p) \/ (has /\ p = q)
  <2> SUFFICES ASSUME NEW p \in Qs PROVE Freeing(p)' <=> Freeing(p) \/ (has /\ p = q)
    OBVIOUS
  <2>1. Freeing(p)' <=> Message("free", p) \in Sent(toCtrlr)'
    BY DEF Freeing, Sent, Message
  <2> QED BY <2>1, <1>9, FreeingSent, MessageFacts
<1>19. \A p \in Qs : Attached(p)' <=> Attached(p)
  BY <1>2, <1>3, <1>4, <1>11, <1>18 DEF Attached
<1>20. MaskIsAttached'
  <2>1. {Qid[p] : p \in {o \in Qs : Attached(o)}}' = {Qid[p] : p \in {o \in Qs : Attached(o)}}
    BY <1>19
  <2> QED BY <2>1, <1>1, <1>7, <1>19 DEF MaskIsAttached, CtrlrRuns
<1>21. FreedUnused'
  <2>1. FreedUnused
    BY <1>1 DEF CtrlrRuns
  <2>2. nc.state = "freed" => ~has
    BY <1>6
  <2> QED BY <2>1, <2>2, <1>1, <1>7, <1>10, <1>11, <1>18 DEF FreedUnused
<1>22. WalkedInv'
  <2> SUFFICES ASSUME NEW p \in Qs, Walked(GroupOfQ[p])'
               PROVE  /\ Attached(p)' => ~InService(p)' \/ p \in ncSeen'.late
                      /\ p = AdminQ => nq'[p].state # "none" /\ ~InService(p)'
    BY DEF WalkedInv
  <2>1. Walked(GroupOfQ[p])
    BY <1>10 DEF Walked
  <2>2. /\ Attached(p) => ~InService(p) \/ p \in ncSeen.late
        /\ p = AdminQ => nq[p].state # "none" /\ ~InService(p)
    BY <2>1, <1>1 DEF CtrlrRuns, WalkedInv
  <2>3. (InService(p)' => InService(p)) /\ (nq[p].state # "none" => nq'[p].state # "none")
    BY <1>3, <1>4 DEF InService
  <2>4. (Attached(p)' <=> Attached(p)) /\ ncSeen' = ncSeen
    BY <1>10, <1>19
  <2> QED BY <2>2, <2>3, <2>4
<1> QED
  BY <1>12, <1>13, <1>14, <1>15, <1>16, <1>17, <1>20, <1>21, <1>22 DEF CtrlrInv, CtrlrRuns

(* The same of the next state. *)
LEMMA FreeingNext ==
    ASSUME NEW q PROVE Freeing(q)' <=> Message("free", q) \in Sent(toCtrlr)'
  BY DEF Freeing, Sent, Message

(* AnswerConnect keeps the invariant. *)
LEMMA AnswerConnectKeeps ==
    ASSUME CtrlrInv, NEW q \in Qs, AnswerConnect(q) PROVE CtrlrInv'
<1> DEFINE d == [nq[q] EXCEPT !.connect = "done"]
           r == Drained(d)
<1>1. CtrlrTypes /\ CtrlrRuns /\ Alive /\ nq[q] \in QType /\ QueueInv(q) /\ AdminQ \in Qs
  BY PlacementFacts DEF AnswerConnect, CtrlrInv, CtrlrTypes, CtrlrRuns
<1>2. nq[q].connect = "answered" /\ nq' = [nq EXCEPT ![q] = r]
  BY DEF AnswerConnect
<1>3. /\ d \in QType /\ d.ctrlr = nq[q].ctrlr /\ d.connect = "done" /\ d.io = nq[q].io
      /\ d.state = nq[q].state /\ d.moved = nq[q].moved
  BY <1>1 DEF QType
<1> HIDE DEF d
<1>4. /\ r \in QType /\ r.ctrlr = nq[q].ctrlr /\ r.connect = "done" /\ r.io = nq[q].io
      /\ r.moved = nq[q].moved
      /\ r.state = IF d.state = "deactivating" /\ ~Pending(d) THEN "closing" ELSE d.state
  BY <1>3, DrainedFacts
<1> HIDE DEF r
<1>5. nq' \in [Qs -> QType] /\ nq'[q] = r /\ \A p \in Qs : p # q => nq'[p] = nq[p]
  BY <1>1, <1>2, <1>4, SetQ
<1>6. nq[q].state \in {"active", "deactivating"}
  BY <1>1, <1>2 DEF QueueInv, Pending
<1>7. /\ r.state \in {"active", "deactivating", "closing"}
      /\ (r.state = "active") <=> (nq[q].state = "active")
      /\ Pending(r) => r.state \in {"active", "deactivating"}
  BY <1>3, <1>4, <1>6 DEF Pending
<1>8. UNCHANGED <<nc, toSubsys, toCtrlr, ncWalk, ncSeen>>
  BY DEF AnswerConnect
<1>9. /\ Sent(toSubsys)' = Sent(toSubsys) /\ Once(toSubsys)'
      /\ Sent(toCtrlr)' = Sent(toCtrlr) /\ Once(toCtrlr)' /\ DestructLast(toCtrlr)'
  BY <1>1, <1>8 DEF Sent, Once, DestructLast, CtrlrRuns, MessagesInv
<1>10. /\ CtrlrTypes' /\ CrashesHaveCauses'
  BY <1>1, <1>5, <1>8 DEF CtrlrTypes, CrashesHaveCauses, Crashes, Alive
<1>11. ASSUME NEW p \in Qs PROVE QueueInv(p)'
  <2>1. QueueInv(p)
    BY <1>1 DEF CtrlrRuns
  <2> QED BY <2>1, <1>1, <1>2, <1>4, <1>5, <1>7 DEF QueueInv, Adm, Pending
<1>12. ASSUME NEW p \in Qs PROVE MessagesOf(p)'
  <2>1. MessagesOf(p) /\ MessagesOf(q)
    BY <1>1 DEF CtrlrRuns, MessagesInv
  <2> QED BY <2>1, <1>1, <1>2, <1>4, <1>5, <1>6, <1>8, <1>9 DEF MessagesOf, Adm, Message
<1>13. MessagesInv'
  BY <1>9, <1>12 DEF MessagesInv
<1>14. StagesInv'
  BY <1>1, <1>2, <1>4, <1>5, <1>6, <1>7, <1>8 DEF CtrlrRuns, StagesInv, Adm
<1>15. TimersInv'
  BY <1>1, <1>2, <1>4, <1>5, <1>8 DEF CtrlrRuns, TimersInv, Adm
<1>16. \A p \in Qs : Freeing(p)' <=> Freeing(p)
  BY <1>9, FreeingSent, FreeingNext
<1>17. \A p \in Qs : Attached(p)' <=> Attached(p)
  BY <1>2, <1>4, <1>5, <1>6, <1>7, <1>16 DEF Attached
<1>18. MaskIsAttached'
  <2>1. {Qid[p] : p \in {o \in Qs : Attached(o)}}' = {Qid[p] : p \in {o \in Qs : Attached(o)}}
    BY <1>17
  <2> QED BY <2>1, <1>1, <1>8, <1>17 DEF MaskIsAttached, CtrlrRuns
<1>19. FreedUnused'
  BY <1>1, <1>2, <1>4, <1>5, <1>6, <1>8, <1>16 DEF CtrlrRuns, FreedUnused
<1>20. WalkedInv'
  <2> SUFFICES ASSUME NEW p \in Qs, Walked(GroupOfQ[p])'
               PROVE  /\ Attached(p)' => ~InService(p)' \/ p \in ncSeen'.late
                      /\ p = AdminQ => nq'[p].state # "none" /\ ~InService(p)'
    BY DEF WalkedInv
  <2>1. Walked(GroupOfQ[p])
    BY <1>8 DEF Walked
  <2>2. /\ Attached(p) => ~InService(p) \/ p \in ncSeen.late
        /\ p = AdminQ => nq[p].state # "none" /\ ~InService(p)
    BY <2>1, <1>1 DEF CtrlrRuns, WalkedInv
  <2> QED BY <2>2, <1>4, <1>5, <1>6, <1>7, <1>8, <1>17 DEF InService
<1> QED BY <1>10, <1>11, <1>13, <1>14, <1>15, <1>18, <1>19, <1>20 DEF CtrlrInv, CtrlrRuns

(* Connect keeps the invariant. *)
LEMMA ConnectKeeps ==
    ASSUME CtrlrInv, NEW q \in Qs, Connect(q) PROVE CtrlrInv'
<1> DEFINE adm == (q = AdminQ)
           r == [nq[q] EXCEPT !.connect = "subsystem", !.ctrlr = adm]
           f == IF adm THEN "add_ctrlr" ELSE "add_io"
<1>1. CtrlrTypes /\ CtrlrRuns /\ Alive /\ nq[q] \in QType /\ QueueInv(q) /\ AdminQ \in Qs
  BY PlacementFacts DEF Connect, CtrlrInv, CtrlrTypes, CtrlrRuns
<1>2. nq[q].state = "active" /\ nq[q].connect = "no" /\ ~nq[q].ctrlr
  BY <1>1 DEF Connect, QueueInv
<1>3. adm \in BOOLEAN /\ f \in {"add_ctrlr", "add_io"}
  OBVIOUS
<1>4. nq' = [nq EXCEPT ![q] = r]
  <2>1. nq' = [nq EXCEPT ![q].connect = "subsystem", ![q].ctrlr = adm]
    BY DEF Connect
  <2> HIDE DEF adm
  <2> QED BY <2>1, <1>1 DEF CtrlrTypes
<1>5. /\ adm => nc.state = "none" /\ Adm.connect = "no"
      /\ ~adm => Adm.connect = "done" /\ nc.state # "none"
  BY <1>2 DEF Connect, Adm
<1>6. toSubsys' = Append(toSubsys, Message(f, q))
  BY DEF Connect
<1>7. /\ nc' \in CtrlrType
      /\ nc'.mask = nc.mask /\ nc'.destruct = nc.destruct /\ nc'.admin = nc.admin
      /\ nc'.progress = nc.progress /\ nc'.keep_alive = nc.keep_alive
      /\ nc'.association = nc.association
      /\ nc'.cc_timer = nc.cc_timer /\ nc'.cc_timeout = nc.cc_timeout
      /\ nc'.state = IF adm THEN "created" ELSE nc.state
  BY <1>1 DEF Connect, CtrlrTypes, CtrlrType
<1>8. UNCHANGED <<toCtrlr, ncWalk, ncSeen>>
  BY DEF Connect
<1> HIDE DEF adm
<1>9. /\ r \in QType /\ r.ctrlr = adm /\ r.connect = "subsystem" /\ r.io = nq[q].io
      /\ r.state = "active" /\ r.moved = nq[q].moved
  BY <1>1, <1>2, <1>3 DEF QType
<1> HIDE DEF r
<1>10. nq' \in [Qs -> QType] /\ nq'[q] = r /\ \A p \in Qs : p # q => nq'[p] = nq[p]
  BY <1>1, <1>4, <1>9, SetQ
<1>11. \A p \in Qs : MessagesOf(p)
  BY <1>1 DEF CtrlrRuns, MessagesInv
<1>12. Message("add_ctrlr", q) \notin Sent(toSubsys) /\ Message("add_io", q) \notin Sent(toSubsys)
  BY <1>2, <1>11 DEF MessagesOf, Adm
<1> HIDE DEF f
<1>13. /\ toSubsys' \in Seq(SubsysMsg) /\ Once(toSubsys)'
       /\ \A x : x \in Sent(toSubsys)' <=> x \in Sent(toSubsys) \/ x = Message(f, q)
  <2>1. toSubsys \in Seq(SubsysMsg) /\ Once(toSubsys) /\ Message(f, q) \notin Sent(toSubsys)
    BY <1>1, <1>3, <1>12 DEF CtrlrTypes, CtrlrRuns, MessagesInv
  <2> QED BY <2>1, <1>3, <1>6, SentToSubsys
<1>14. /\ Sent(toCtrlr)' = Sent(toCtrlr) /\ Once(toCtrlr)' /\ DestructLast(toCtrlr)'
  BY <1>1, <1>8 DEF Sent, Once, DestructLast, CtrlrRuns, MessagesInv
<1>15. /\ CtrlrTypes' /\ CrashesHaveCauses'
  BY <1>1, <1>7, <1>8, <1>10, <1>13 DEF CtrlrTypes, CrashesHaveCauses, Crashes, Alive
<1>16. ASSUME NEW p \in Qs PROVE QueueInv(p)'
  <2>1. QueueInv(p)
    BY <1>1 DEF CtrlrRuns
  <2> QED BY <2>1, <1>1, <1>2, <1>5, <1>9, <1>10 DEF QueueInv, Adm, Pending, adm
<1>17. ASSUME NEW p \in Qs PROVE MessagesOf(p)'
  <2>1. MessagesOf(p) /\ MessagesOf(q)
    BY <1>11
  <2>2. \A g : Message(g, p) \in Sent(toSubsys)' <=>
               Message(g, p) \in Sent(toSubsys) \/ (g = f /\ p = q)
    BY <1>13, MessageFacts
  <2>3. StagesInv
    BY <1>1 DEF CtrlrRuns
  <2> QED
    BY <2>1, <2>2, <2>3, <1>1, <1>2, <1>5, <1>7, <1>8, <1>9, <1>10, <1>14
    DEF MessagesOf, StagesInv, Adm, Message, adm, f
<1>18. MessagesInv'
  BY <1>13, <1>14, <1>17 DEF MessagesInv
<1>19. StagesInv'
  BY <1>1, <1>2, <1>5, <1>7, <1>8, <1>9, <1>10 DEF CtrlrRuns, StagesInv, Adm, adm
<1>20. TimersInv'
  BY <1>1, <1>2, <1>5, <1>7, <1>8, <1>9, <1>10 DEF CtrlrRuns, TimersInv, Adm, adm
<1>21. \A p \in Qs : Freeing(p)' <=> Freeing(p)
  BY <1>14, FreeingSent, FreeingNext
<1>22. \A p \in Qs : Attached(p)' <=> Attached(p)
  BY <1>2, <1>9, <1>10, <1>21 DEF Attached
<1>23. MaskIsAttached'
  <2>1. {Qid[p] : p \in {o \in Qs : Attached(o)}}' = {Qid[p] : p \in {o \in Qs : Attached(o)}}
    BY <1>22
  <2> QED BY <2>1, <1>1, <1>7, <1>22 DEF MaskIsAttached, CtrlrRuns
<1>24. FreedUnused'
  BY <1>1, <1>5, <1>7, <1>8, <1>9, <1>10, <1>21 DEF CtrlrRuns, FreedUnused
<1>25. WalkedInv'
  <2> SUFFICES ASSUME NEW p \in Qs, Walked(GroupOfQ[p])'
               PROVE  /\ Attached(p)' => ~InService(p)' \/ p \in ncSeen'.late
                      /\ p = AdminQ => nq'[p].state # "none" /\ ~InService(p)'
    BY DEF WalkedInv
  <2>1. Walked(GroupOfQ[p])
    BY <1>8 DEF Walked
  <2>2. /\ Attached(p) => ~InService(p) \/ p \in ncSeen.late
        /\ p = AdminQ => nq[p].state # "none" /\ ~InService(p)
    BY <2>1, <1>1 DEF CtrlrRuns, WalkedInv
  <2> QED BY <2>2, <1>2, <1>8, <1>9, <1>10, <1>22 DEF InService
<1> QED BY <1>15, <1>16, <1>18, <1>19, <1>20, <1>23, <1>24, <1>25 DEF CtrlrInv, CtrlrRuns

(* The subsystem's thread lists the controller, and sends it its admin
   queue, or frees it. *)
LEMMA AddCtrlrKeeps ==
    ASSUME CtrlrInv, AddCtrlr PROVE CtrlrInv'
<1> DEFINE listed == nc'.state = "listed"
           r == nq'[AdminQ]
<1>1. CtrlrTypes /\ CtrlrRuns /\ Alive /\ nq[AdminQ] \in QType /\ AdminQ \in Qs /\ ncSeen.crash = "no"
  BY PlacementFacts DEF AddCtrlr, CtrlrInv, CtrlrTypes, Alive
<1>2. \A p \in Qs : MessagesOf(p) /\ QueueInv(p)
  BY <1>1 DEF CtrlrRuns, MessagesInv
<1>3. /\ Message("add_ctrlr", AdminQ) \in Sent(toSubsys)
      /\ toSubsys' \in Seq(SubsysMsg) /\ Once(toSubsys)'
      /\ \A x : x \in Sent(toSubsys)' <=> x \in Sent(toSubsys) /\ x # Message("add_ctrlr", AdminQ)
  <2>1. PICK q \in Qs :
             /\ Message("add_ctrlr", q) \in Sent(toSubsys)
             /\ toSubsys' \in Seq(SubsysMsg) /\ Once(toSubsys)'
             /\ \A x : x \in Sent(toSubsys)' <=> x \in Sent(toSubsys) /\ x # Message("add_ctrlr", q)
    BY <1>1, TakenBySubsys DEF AddCtrlr
  <2>2. q = AdminQ
    BY <1>2, <2>1 DEF MessagesOf
  <2> QED BY <2>1, <2>2
<1>4. Adm.connect = "subsystem" /\ nc.state = "created" /\ Adm.ctrlr /\ ~nc.destruct /\ ~nc.admin
  BY <1>1, <1>2, <1>3 DEF MessagesOf, CtrlrRuns, StagesInv
<1>5. /\ r \in QType /\ r.state = Adm.state /\ r.io = Adm.io
      /\ r.connect = IF listed THEN "controller" ELSE "answered"
      /\ r.ctrlr = listed
      /\ nq' \in [Qs -> QType] /\ \A p \in Qs : p # AdminQ => nq'[p] = nq[p]
      /\ nc' \in CtrlrType
      /\ nc'.mask = nc.mask /\ nc'.destruct = nc.destruct /\ nc'.admin = nc.admin
      /\ nc'.progress = nc.progress /\ nc'.keep_alive = nc.keep_alive
      /\ nc'.association = nc.association
      /\ nc'.cc_timer = nc.cc_timer /\ nc'.cc_timeout = nc.cc_timeout
      /\ nc'.state \in {"listed", "freed"}
  <2>1. CASE /\ nc' = [nc EXCEPT !.state = "listed"]
             /\ nq' = [nq EXCEPT ![AdminQ].connect = "controller"]
    BY <2>1, <1>1, <1>4 DEF CtrlrTypes, CtrlrType, QType, Adm
  <2>2. CASE /\ nc' = [nc EXCEPT !.state = "freed"]
             /\ nq' = [nq EXCEPT ![AdminQ].connect = "answered", ![AdminQ].ctrlr = FALSE]
    BY <2>2, <1>1, <1>4 DEF CtrlrTypes, CtrlrType, QType, Adm
  <2> QED BY <2>1, <2>2 DEF AddCtrlr
<1>6. /\ toCtrlr' \in Seq(CtrlrMsg) /\ Once(toCtrlr)' /\ DestructLast(toCtrlr)'
      /\ \A x : x \in Sent(toCtrlr)' <=>
                x \in Sent(toCtrlr) \/ (listed /\ x = Message("add_admin", AdminQ))
  <2>1. toCtrlr \in Seq(CtrlrMsg) /\ Once(toCtrlr) /\ DestructLast(toCtrlr)
    BY <1>1 DEF CtrlrTypes, CtrlrRuns, MessagesInv
  <2>2. CASE listed
    <3>1. toCtrlr' = Append(toCtrlr, Message("add_admin", AdminQ))
      BY <2>2, <1>1 DEF AddCtrlr, CtrlrTypes, CtrlrType
    <3>2. \A x \in Sent(toCtrlr) : x.f # "destruct" BY <1>1, <1>4, NoDestructYet
    <3>3. Message("add_admin", AdminQ) \notin Sent(toCtrlr)
      BY <1>1, <1>2, <1>4 DEF MessagesOf
    <3> HIDE DEF listed
    <3> QED BY <2>1, <2>2, <3>1, <3>2, <3>3, <1>1, SentToCtrlr
  <2>3. CASE ~listed
    <3>1. toCtrlr' = toCtrlr BY <2>3, <1>1 DEF AddCtrlr, CtrlrTypes, CtrlrType
    <3> HIDE DEF listed
    <3> QED BY <2>1, <2>3, <3>1 DEF Once, DestructLast, Sent
  <2> QED BY <2>2, <2>3
<1>7. UNCHANGED <<ncWalk, ncSeen>>
  BY DEF AddCtrlr
<1>8. listed <=> nc'.state = "listed"
  OBVIOUS
<1>9. nq'[AdminQ] = r
  OBVIOUS
<1> HIDE DEF listed, r
<1>10. CtrlrTypes' /\ CrashesHaveCauses'
  BY <1>1, <1>3, <1>5, <1>6, <1>7 DEF CtrlrTypes, CrashesHaveCauses, Crashes
<1>11. \A p \in Qs : p # AdminQ => ~nq[p].ctrlr /\ nq[p].connect = "no"
  BY <1>2, <1>4 DEF QueueInv
<1>12. ASSUME NEW p \in Qs PROVE QueueInv(p)'
  BY <1>2, <1>4, <1>5, <1>8, <1>9, <1>11 DEF QueueInv, Adm, Pending
<1>13. ASSUME NEW p \in Qs PROVE MessagesOf(p)'
  <2>1. MessagesOf(p)
    BY <1>2
  <2>2. \A g : /\ Message(g, p) \in Sent(toSubsys)' <=>
                     Message(g, p) \in Sent(toSubsys) /\ ~(g = "add_ctrlr" /\ p = AdminQ)
               /\ Message(g, p) \in Sent(toCtrlr)' <=>
                     Message(g, p) \in Sent(toCtrlr) \/ (listed /\ g = "add_admin" /\ p = AdminQ)
    BY <1>3, <1>6, MessageFacts
  <2> QED BY <2>1, <2>2, <1>1, <1>4, <1>5, <1>8, <1>9, <1>11 DEF MessagesOf, Adm, Message
<1>14. MessagesInv'
  BY <1>3, <1>6, <1>13 DEF MessagesInv
<1>15. StagesInv'
  BY <1>1, <1>4, <1>5, <1>8, <1>9 DEF CtrlrRuns, StagesInv, Adm
<1>16. /\ ~nc.progress /\ ~nc.association /\ ~nc.cc_timer /\ ~nc.cc_timeout /\ ~nc.keep_alive
       /\ ncWalk["reset"] = NoWalkOn /\ ncWalk["keep_alive"] = NoWalkOn /\ ~ncSeen.expired
  BY <1>1, <1>4 DEF CtrlrRuns, TimersInv
<1>17. TimersInv'
  BY <1>5, <1>7, <1>16 DEF TimersInv
<1>18. \A p \in Qs : Freeing(p)' <=> Freeing(p)
  BY <1>6, FreeingSent, FreeingNext, MessageFacts
<1>19. \A p \in Qs : ~Attached(p) /\ ~Attached(p)'
  BY <1>4, <1>5, <1>8, <1>9, <1>11 DEF Attached, Adm
<1>20. MaskIsAttached'
  <2>1. {Qid[p] : p \in {o \in Qs : Attached(o)}}' = {Qid[p] : p \in {o \in Qs : Attached(o)}}
    BY <1>19
  <2> QED BY <2>1, <1>1, <1>5, <1>19 DEF MaskIsAttached, CtrlrRuns
<1>21. FreedUnused'
  BY <1>5, <1>7, <1>8, <1>9, <1>11, <1>16 DEF FreedUnused
<1>22. WalkedInv'
  BY <1>7, <1>16 DEF WalkedInv, Walked
<1> QED BY <1>10, <1>12, <1>14, <1>15, <1>17, <1>20, <1>21, <1>22 DEF CtrlrInv, CtrlrRuns

(* The controller's thread attaches the admin queue. *)
LEMMA AddAdminQpairKeeps ==
    ASSUME CtrlrInv, AddAdminQpair PROVE CtrlrInv'
<1> DEFINE r == nq'[AdminQ]
<1>1. CtrlrTypes /\ CtrlrRuns /\ Alive /\ nq[AdminQ] \in QType /\ AdminQ \in Qs /\ ncSeen.crash = "no"
  BY PlacementFacts DEF AddAdminQpair, CtrlrInv, CtrlrTypes, Alive
<1>2. \A p \in Qs : MessagesOf(p) /\ QueueInv(p)
  BY <1>1 DEF CtrlrRuns, MessagesInv
<1>3. /\ Message("add_admin", AdminQ) \in Sent(toCtrlr)
      /\ toCtrlr' \in Seq(CtrlrMsg) /\ Once(toCtrlr)' /\ DestructLast(toCtrlr)'
      /\ \A x : x \in Sent(toCtrlr)' <=> x \in Sent(toCtrlr) /\ x # Message("add_admin", AdminQ)
  <2>1. PICK q \in Qs :
             /\ Message("add_admin", q) \in Sent(toCtrlr)
             /\ toCtrlr' \in Seq(CtrlrMsg) /\ Once(toCtrlr)' /\ DestructLast(toCtrlr)'
             /\ \A x : x \in Sent(toCtrlr)' <=> x \in Sent(toCtrlr) /\ x # Message("add_admin", q)
    BY <1>1, TakenByCtrlr DEF AddAdminQpair
  <2>2. q = AdminQ
    BY <1>2, <2>1 DEF MessagesOf
  <2> QED BY <2>1, <2>2
<1>4. /\ Adm.connect = "controller" /\ nc.state = "listed" /\ Adm.ctrlr /\ ~nc.destruct
      /\ Adm.state \in {"active", "deactivating"}
  BY <1>1, <1>2, <1>3 DEF MessagesOf, CtrlrRuns, StagesInv, QueueInv, Pending, Adm
<1>5. /\ r \in QType /\ r.state = Adm.state /\ r.io = Adm.io
      /\ r.connect = "answered" /\ r.ctrlr
      /\ nq' \in [Qs -> QType] /\ \A p \in Qs : p # AdminQ => nq'[p] = nq[p]
  BY <1>1, <1>4 DEF AddAdminQpair, CtrlrTypes, QType, Adm
<1>6. /\ nc' \in CtrlrType
      /\ nc'.mask = nc.mask \cup {0} /\ nc'.destruct = nc.destruct /\ nc'.admin
      /\ nc'.progress = nc.progress /\ nc'.keep_alive
      /\ nc'.association = nc.association
      /\ nc'.cc_timer = nc.cc_timer /\ nc'.cc_timeout = nc.cc_timeout
      /\ nc'.state = "listed"
  <2> DEFINE mask == nc.mask \cup {0}
  <2>1. mask \in SUBSET Nat /\ nc \in CtrlrType
    BY <1>1 DEF CtrlrTypes, CtrlrType
  <2>2. nc' = [nc EXCEPT !.admin = TRUE, !.keep_alive = TRUE, !.mask = mask]
    BY DEF AddAdminQpair
  <2>3. mask = nc.mask \cup {0}
    OBVIOUS
  <2> HIDE DEF mask
  <2> QED BY <2>1, <2>2, <2>3, <1>4 DEF CtrlrType
<1>7. UNCHANGED <<toSubsys, ncWalk, ncSeen>> /\ Sent(toSubsys)' = Sent(toSubsys) /\ Once(toSubsys)'
  BY <1>1 DEF AddAdminQpair, Sent, Once, CtrlrRuns, MessagesInv
<1>8. nq'[AdminQ] = r
  OBVIOUS
<1> HIDE DEF r
<1>9. CtrlrTypes' /\ CrashesHaveCauses'
  BY <1>1, <1>3, <1>5, <1>6, <1>7 DEF CtrlrTypes, CrashesHaveCauses, Crashes
<1>10. \A p \in Qs : p # AdminQ => ~nq[p].ctrlr /\ nq[p].connect = "no"
  BY <1>2, <1>4 DEF QueueInv
<1>11. ASSUME NEW p \in Qs PROVE QueueInv(p)'
  BY <1>2, <1>4, <1>5, <1>8, <1>10 DEF QueueInv, Adm, Pending
<1>12. ASSUME NEW p \in Qs PROVE MessagesOf(p)'
  <2>1. MessagesOf(p)
    BY <1>2
  <2>2. \A g : Message(g, p) \in Sent(toCtrlr)' <=>
                  Message(g, p) \in Sent(toCtrlr) /\ ~(g = "add_admin" /\ p = AdminQ)
    BY <1>3, MessageFacts
  <2> QED
    BY <2>1, <2>2, <1>1, <1>4, <1>5, <1>6, <1>7, <1>8, <1>10 DEF MessagesOf, Adm, Message
<1>13. MessagesInv'
  BY <1>3, <1>7, <1>12 DEF MessagesInv
<1>14. StagesInv'
  BY <1>1, <1>4, <1>5, <1>6, <1>8 DEF CtrlrRuns, StagesInv, Adm
<1>15. TimersInv'
  BY <1>1, <1>4, <1>5, <1>6, <1>7, <1>8 DEF CtrlrRuns, TimersInv, Adm
<1>16. \A p \in Qs : Attached(p)' <=> p = AdminQ
  BY <1>4, <1>5, <1>8, <1>10 DEF Attached, Adm
<1>17. \A p \in Qs : ~Attached(p)
  BY <1>4, <1>10 DEF Attached, Adm
<1>18. nc'.mask = {0} /\ Qid[AdminQ] = 0
  <2>1. nc.mask = {}
    BY <1>1, <1>17 DEF CtrlrRuns, MaskIsAttached
  <2> QED BY <2>1, <1>1, <1>6, QidAssumption
<1>19. MaskIsAttached'
  <2>1. {Qid[p] : p \in {o \in Qs : Attached(o)}}' = {0}
    BY <1>1, <1>16, <1>18
  <2> QED BY <2>1, <1>16, <1>18 DEF MaskIsAttached
<1>20. FreedUnused'
  BY <1>6 DEF FreedUnused
<1>21. WalkedInv'
  BY <1>1, <1>4, <1>7 DEF WalkedInv, Walked, CtrlrRuns, TimersInv
<1> QED BY <1>9, <1>11, <1>13, <1>14, <1>15, <1>19, <1>20, <1>21 DEF CtrlrInv, CtrlrRuns

(* The subsystem's thread passes the connect of an I/O queue on, answers
   it, or crashes for want of the admin queue. *)
LEMMA LookUpCtrlrKeeps ==
    ASSUME CtrlrInv, LookUpCtrlr PROVE CtrlrInv'
<1>1. CtrlrTypes /\ CtrlrRuns /\ Alive /\ AdminQ \in Qs /\ ncSeen.crash = "no"
  BY PlacementFacts DEF LookUpCtrlr, CtrlrInv, CtrlrTypes, Alive
<1>2. \A p \in Qs : MessagesOf(p) /\ QueueInv(p)
  BY <1>1 DEF CtrlrRuns, MessagesInv
<1>3. PICK q \in Qs :
         /\ Head(toSubsys).q = q
         /\ Message("add_io", q) \in Sent(toSubsys)
         /\ toSubsys' \in Seq(SubsysMsg) /\ Once(toSubsys)'
         /\ \A x : x \in Sent(toSubsys)' <=> x \in Sent(toSubsys) /\ x # Message("add_io", q)
  BY <1>1, TakenBySubsys DEF LookUpCtrlr
<1> DEFINE found == nc.state = "listed" /\ ~nc.destruct
           passed == found /\ nc.admin /\ AdminUsable
           r == [nq[q] EXCEPT !.connect = IF passed THEN "controller" ELSE "answered",
                              !.ctrlr = passed]
<1>4. q # AdminQ /\ nq[q].connect = "subsystem" /\ ~nq[q].ctrlr /\ Adm.connect = "done"
      /\ nq[q] \in QType /\ nq[q].state \in {"active", "deactivating"}
  BY <1>1, <1>2, <1>3 DEF MessagesOf, QueueInv, Pending, CtrlrTypes
<1>5. /\ UNCHANGED <<nc, ncWalk>>
      /\ ncSeen' = [ncSeen EXCEPT !.crash =
            IF found /\ ~nc.admin THEN "no admin queue at connect" ELSE @]
      /\ toCtrlr' = IF passed THEN Append(toCtrlr, Message("add_io", q)) ELSE toCtrlr
      /\ nq' = [nq EXCEPT ![q].connect = IF passed THEN "controller" ELSE "answered",
                          ![q].ctrlr = passed]
  BY <1>3 DEF LookUpCtrlr
<1>6. passed \in BOOLEAN /\ (passed => found /\ nc.admin) /\ (found => nc.state = "listed")
  OBVIOUS
<1> HIDE DEF passed
<1>7. nq' = [nq EXCEPT ![q] = r]
  BY <1>1, <1>5 DEF CtrlrTypes
<1>8. /\ r \in QType /\ r.ctrlr = passed /\ r.io = nq[q].io /\ r.state = nq[q].state
      /\ r.connect = IF passed THEN "controller" ELSE "answered"
      /\ r.moved = nq[q].moved
  BY <1>4, <1>6 DEF QType
<1> HIDE DEF r
<1>9. nq' \in [Qs -> QType] /\ nq'[q] = r /\ \A p \in Qs : p # q => nq'[p] = nq[p]
  BY <1>1, <1>7, <1>8, SetQ
<1>10. /\ ncSeen' \in CtrlrSeenType /\ ncSeen'.late = ncSeen.late
       /\ ncSeen'.expired = ncSeen.expired
       /\ ncSeen'.crash = IF found /\ ~nc.admin THEN "no admin queue at connect" ELSE "no"
  BY <1>1, <1>5 DEF CtrlrTypes, CtrlrSeenType, Crashes
<1>11. /\ toCtrlr' \in Seq(CtrlrMsg) /\ Once(toCtrlr)' /\ DestructLast(toCtrlr)'
       /\ \A x : x \in Sent(toCtrlr)' <=>
                 x \in Sent(toCtrlr) \/ (passed /\ x = Message("add_io", q))
  <2>1. toCtrlr \in Seq(CtrlrMsg) /\ Once(toCtrlr) /\ DestructLast(toCtrlr)
    BY <1>1 DEF CtrlrTypes, CtrlrRuns, MessagesInv
  <2>2. CASE passed
    <3>1. toCtrlr' = Append(toCtrlr, Message("add_io", q)) /\ nc.state # "removed"
      BY <2>2, <1>5, <1>6
    <3>2. \A x \in Sent(toCtrlr) : x.f # "destruct" BY <3>1, <1>1, NoDestructYet
    <3>3. Message("add_io", q) \notin Sent(toCtrlr) BY <1>2, <1>4 DEF MessagesOf
    <3> QED BY <2>1, <2>2, <3>1, <3>2, <3>3, SentToCtrlr
  <2>3. CASE ~passed
    <3>1. toCtrlr' = toCtrlr BY <2>3, <1>5
    <3> QED BY <2>1, <2>3, <3>1 DEF Once, DestructLast, Sent
  <2> QED BY <2>2, <2>3
<1> HIDE DEF found
<1>12. CrashesHaveCauses'
  <2>1. CASE found /\ ~nc.admin
    <3>1. StagesInv /\ Adm.ctrlr BY <2>1, <1>1, <1>6 DEF CtrlrRuns, StagesInv
    <3>2. Adm.state = "freed" BY <3>1, <2>1, <1>4 DEF StagesInv
    <3>3. nq'[AdminQ].state = "freed" BY <3>2, <1>1, <1>4, <1>9 DEF Adm
    <3> QED BY <3>3, <1>10 DEF CrashesHaveCauses, CtrlrSeenType
  <2>2. CASE ~(found /\ ~nc.admin)
    BY <2>2, <1>10 DEF CrashesHaveCauses, Crashes
  <2> QED BY <2>1, <2>2
<1>13. CtrlrTypes'
  BY <1>1, <1>3, <1>5, <1>9, <1>10, <1>11 DEF CtrlrTypes
<1>14. passed => Adm.ctrlr /\ nc.state = "listed"
  BY <1>1, <1>6 DEF CtrlrRuns, StagesInv
<1>15. ASSUME NEW p \in Qs PROVE QueueInv(p)'
  <2>1. QueueInv(p)
    BY <1>2
  <2> QED BY <2>1, <1>1, <1>4, <1>8, <1>9, <1>14 DEF QueueInv, Adm, Pending
<1>16. ASSUME NEW p \in Qs PROVE MessagesOf(p)'
  <2>1. MessagesOf(p)
    BY <1>2
  <2>2. \A g : /\ Message(g, p) \in Sent(toSubsys)' <=>
                     Message(g, p) \in Sent(toSubsys) /\ ~(g = "add_io" /\ p = q)
               /\ Message(g, p) \in Sent(toCtrlr)' <=>
                     Message(g, p) \in Sent(toCtrlr) \/ (passed /\ g = "add_io" /\ p = q)
    BY <1>3, <1>11, MessageFacts
  <2>3. nc' = nc /\ nq'[AdminQ] = nq[AdminQ]
    BY <1>1, <1>4, <1>5, <1>9
  <2>4. MessagesOf(q) /\ nq'[q].connect = IF passed THEN "controller" ELSE "answered"
    BY <1>2, <1>8, <1>9
  <2>5. CASE p = q
    BY <2>1, <2>2, <2>3, <2>4, <2>5, <1>4, <1>8, <1>9 DEF MessagesOf, Adm, Message
  <2>6. CASE p # q
    <3>1. nq'[p] = nq[p] BY <2>6, <1>9
    <3> QED BY <3>1, <2>1, <2>2, <2>3, <2>6 DEF MessagesOf, Adm, Message
  <2> QED BY <2>5, <2>6
<1>17. MessagesInv'
  BY <1>3, <1>11, <1>16 DEF MessagesInv
<1>18. StagesInv' /\ TimersInv'
  BY <1>1, <1>4, <1>5, <1>9, <1>10 DEF CtrlrRuns, StagesInv, TimersInv, Adm
<1>19. \A p \in Qs : Freeing(p)' <=> Freeing(p)
  BY <1>11, FreeingSent, FreeingNext, MessageFacts
<1>20. \A p \in Qs : Attached(p)' <=> Attached(p)
  BY <1>4, <1>8, <1>9, <1>19 DEF Attached
<1>21. MaskIsAttached'
  <2>1. {Qid[p] : p \in {o \in Qs : Attached(o)}}' = {Qid[p] : p \in {o \in Qs : Attached(o)}}
    BY <1>20
  <2> QED BY <2>1, <1>1, <1>5, <1>20 DEF MaskIsAttached, CtrlrRuns
<1>22. FreedUnused'
  BY <1>1, <1>5, <1>8, <1>9, <1>14, <1>19 DEF CtrlrRuns, FreedUnused
<1>23. WalkedInv'
  <2> SUFFICES ASSUME NEW p \in Qs, Walked(GroupOfQ[p])'
               PROVE  /\ Attached(p)' => ~InService(p)' \/ p \in ncSeen'.late
                      /\ p = AdminQ => nq'[p].state # "none" /\ ~InService(p)'
    BY DEF WalkedInv
  <2>1. Walked(GroupOfQ[p])
    BY <1>5, <1>10 DEF Walked
  <2>2. /\ Attached(p) => ~InService(p) \/ p \in ncSeen.late
        /\ p = AdminQ => nq[p].state # "none" /\ ~InService(p)
    BY <2>1, <1>1 DEF CtrlrRuns, WalkedInv
  <2> QED BY <2>2, <1>4, <1>8, <1>9, <1>10, <1>20 DEF InService
<1> QED BY <1>12, <1>13, <1>15, <1>17, <1>18, <1>21, <1>22, <1>23 DEF CtrlrInv, CtrlrRuns

(* The controller's thread attaches an I/O queue, unless the id is taken. *)
LEMMA AddIoQpairKeeps ==
    ASSUME CtrlrInv, AddIoQpair PROVE CtrlrInv'
<1>1. CtrlrTypes /\ CtrlrRuns /\ Alive /\ AdminQ \in Qs /\ ncSeen.crash = "no"
  BY PlacementFacts DEF AddIoQpair, CtrlrInv, CtrlrTypes, Alive
<1>2. \A p \in Qs : MessagesOf(p) /\ QueueInv(p)
  BY <1>1 DEF CtrlrRuns, MessagesInv
<1>3. PICK q \in Qs :
         /\ Head(toCtrlr).q = q
         /\ Message("add_io", q) \in Sent(toCtrlr)
         /\ toCtrlr' \in Seq(CtrlrMsg) /\ Once(toCtrlr)' /\ DestructLast(toCtrlr)'
         /\ \A x : x \in Sent(toCtrlr)' <=> x \in Sent(toCtrlr) /\ x # Message("add_io", q)
  BY <1>1, TakenByCtrlr DEF AddIoQpair
<1> DEFINE usable == ~nc.destruct /\ nc.en
           added == usable /\ nc.admin /\ AdminUsable /\ Qid[q] \notin nc.mask
           r == [nq[q] EXCEPT !.connect = "answered", !.ctrlr = added]
           mask == IF added THEN nc.mask \cup {Qid[q]} ELSE nc.mask
           late == IF added /\ (ncWalk["keep_alive"] # NoWalkOn \/ ncSeen.expired)
                   THEN ncSeen.late \cup {q} ELSE ncSeen.late
           crash == IF usable /\ ~nc.admin THEN "no admin queue at connect" ELSE ncSeen.crash
<1>4. q # AdminQ /\ nq[q].connect = "controller" /\ nq[q].ctrlr /\ Adm.connect = "done" /\ Adm.ctrlr
      /\ nq[q] \in QType /\ nq[q].state \in {"active", "deactivating"}
  BY <1>1, <1>2, <1>3 DEF MessagesOf, QueueInv, Pending, CtrlrTypes
<1>5. /\ UNCHANGED <<toSubsys, ncWalk>>
      /\ nc' = IF added THEN [nc EXCEPT !.mask = @ \cup {Qid[q]}] ELSE nc
      /\ ncSeen' = [ncSeen EXCEPT !.crash = crash, !.late = late]
      /\ nq' = [nq EXCEPT ![q].connect = "answered", ![q].ctrlr = added]
  BY <1>1, <1>3 DEF AddIoQpair, CtrlrTypes, CtrlrSeenType
<1>6. added \in BOOLEAN /\ (added => ~nc.destruct /\ Qid[q] \notin nc.mask /\ Adm.state = "active")
  BY DEF Adm, AdminUsable
<1>7. /\ mask \in SUBSET Nat /\ late \in SUBSET Qs /\ ncSeen.late \subseteq late
      /\ mask = IF added THEN nc.mask \cup {Qid[q]} ELSE nc.mask
      /\ added /\ (ncWalk["keep_alive"] # NoWalkOn \/ ncSeen.expired) => q \in late
  BY <1>1, PlacementFacts DEF CtrlrTypes, CtrlrType, CtrlrSeenType
<1>8. crash \in Crashes /\ (crash = "no" \/ ~nc.admin)
  BY <1>1 DEF Crashes
<1>9. /\ nc' \in CtrlrType /\ nc'.mask = mask
      /\ nc'.destruct = nc.destruct /\ nc'.admin = nc.admin
      /\ nc'.progress = nc.progress /\ nc'.keep_alive = nc.keep_alive
      /\ nc'.association = nc.association
      /\ nc'.cc_timer = nc.cc_timer /\ nc'.cc_timeout = nc.cc_timeout
      /\ nc'.state = nc.state
  <2>1. nc' = [nc EXCEPT !.mask = mask] /\ nc \in CtrlrType
    BY <1>1, <1>5 DEF CtrlrTypes, CtrlrType
  <2> HIDE DEF mask
  <2> QED BY <2>1, <1>7 DEF CtrlrType
<1> HIDE DEF added, mask, late, crash
<1>10. nq' = [nq EXCEPT ![q] = r]
  BY <1>1, <1>5 DEF CtrlrTypes
<1>11. /\ r \in QType /\ r.ctrlr = added /\ r.io = nq[q].io /\ r.state = nq[q].state
       /\ r.connect = "answered" /\ r.moved = nq[q].moved
  BY <1>4, <1>6 DEF QType
<1> HIDE DEF r
<1>12. nq' \in [Qs -> QType] /\ nq'[q] = r /\ \A p \in Qs : p # q => nq'[p] = nq[p]
  BY <1>1, <1>10, <1>11, SetQ
<1>13. /\ ncSeen' \in CtrlrSeenType /\ ncSeen'.late = late
       /\ ncSeen'.expired = ncSeen.expired /\ ncSeen'.crash = crash
  BY <1>1, <1>5, <1>7, <1>8 DEF CtrlrTypes, CtrlrSeenType
<1>14. CrashesHaveCauses'
  <2>1. CASE ~nc.admin
    <3>1. Adm.state = "freed" BY <2>1, <1>1, <1>4 DEF CtrlrRuns, StagesInv
    <3>2. nq'[AdminQ].state = "freed" BY <3>1, <1>1, <1>4, <1>12 DEF Adm
    <3> QED BY <3>2, <1>8, <1>13 DEF CrashesHaveCauses
  <2>2. CASE nc.admin
    BY <2>2, <1>8, <1>13 DEF CrashesHaveCauses
  <2> QED BY <2>1, <2>2
<1>15. CtrlrTypes'
  BY <1>1, <1>3, <1>5, <1>9, <1>12, <1>13 DEF CtrlrTypes
<1>16. ASSUME NEW p \in Qs PROVE QueueInv(p)'
  <2>1. QueueInv(p)
    BY <1>2
  <2> QED BY <2>1, <1>1, <1>4, <1>11, <1>12 DEF QueueInv, Adm, Pending
<1>17. ASSUME NEW p \in Qs PROVE MessagesOf(p)'
  <2>1. MessagesOf(p)
    BY <1>2
  <2>2. \A g : Message(g, p) \in Sent(toCtrlr)' <=>
                  Message(g, p) \in Sent(toCtrlr) /\ ~(g = "add_io" /\ p = q)
    BY <1>3, MessageFacts
  <2>3. Sent(toSubsys)' = Sent(toSubsys)
    BY <1>5 DEF Sent
  <2> QED BY <2>1, <2>2, <2>3, <1>1, <1>4, <1>9, <1>11, <1>12 DEF MessagesOf, Adm, Message
<1>18. MessagesInv'
  BY <1>1, <1>3, <1>5, <1>17 DEF CtrlrRuns, MessagesInv, Once
<1>19. StagesInv'
  BY <1>1, <1>4, <1>6, <1>7, <1>9, <1>12 DEF CtrlrRuns, StagesInv, Adm
<1>20. TimersInv'
  BY <1>1, <1>4, <1>5, <1>9, <1>12, <1>13 DEF CtrlrRuns, TimersInv, Adm
<1>21. \A p \in Qs : Freeing(p)' <=> Freeing(p)
  BY <1>3, FreeingSent, FreeingNext, MessageFacts
<1>22. \A p \in Qs : Attached(p)' <=> Attached(p) \/ (added /\ p = q)
  BY <1>4, <1>11, <1>12, <1>21 DEF Attached
<1>23. MaskIsAttached'
  <2>1. MaskIsAttached
    BY <1>1 DEF CtrlrRuns
  <2>2. nc.mask = {Qid[p] : p \in {o \in Qs : Attached(o)}}
    BY <2>1, <1>1 DEF MaskIsAttached
  <2>3. {Qid[p] : p \in {o \in Qs : Attached(o)}}' = mask
    BY <2>2, <1>7, <1>22
  <2>4. ASSUME NEW o \in Qs, NEW p \in Qs, Attached(o)', Attached(p)', Qid[o] = Qid[p]
        PROVE  o = p
    BY <2>1, <2>2, <2>4, <1>1, <1>6, <1>22 DEF MaskIsAttached
  <2> QED BY <2>3, <2>4, <1>9 DEF MaskIsAttached
<1>24. FreedUnused'
  BY <1>1, <1>4, <1>9 DEF CtrlrRuns, FreedUnused
<1>25. WalkedInv'
  <2> SUFFICES ASSUME NEW p \in Qs, Walked(GroupOfQ[p])'
               PROVE  /\ Attached(p)' => ~InService(p)' \/ p \in ncSeen'.late
                      /\ p = AdminQ => nq'[p].state # "none" /\ ~InService(p)'
    BY DEF WalkedInv
  <2>1. Walked(GroupOfQ[p])
    BY <1>5, <1>13 DEF Walked
  <2>2. WalkedInv
    BY <1>1 DEF CtrlrRuns
  <2>3. /\ Attached(p) => ~InService(p) \/ p \in ncSeen.late
        /\ p = AdminQ => nq[p].state # "none" /\ ~InService(p)
    BY <2>1, <2>2 DEF WalkedInv
  <2>4. added => q \in late
    BY <2>1, <1>7 DEF Walked
  <2> QED BY <2>3, <2>4, <1>4, <1>7, <1>11, <1>12, <1>13, <1>22 DEF InService
<1> QED
  BY <1>14, <1>15, <1>16, <1>18, <1>19, <1>20, <1>23, <1>24, <1>25 DEF CtrlrInv, CtrlrRuns

(* The message of release of the last queue pair in the mask begins the
   end of the controller, once. *)
LEMMA FreeFromQpairKeeps ==
    ASSUME CtrlrInv, FreeFromQpair PROVE CtrlrInv'
<1>1. CtrlrTypes /\ CtrlrRuns /\ Alive /\ AdminQ \in Qs /\ ncSeen.crash = "no"
  BY PlacementFacts DEF FreeFromQpair, CtrlrInv, CtrlrTypes, Alive
<1>2. \A p \in Qs : MessagesOf(p) /\ QueueInv(p)
  BY <1>1 DEF CtrlrRuns, MessagesInv
<1>3. PICK q \in Qs :
         /\ Head(toCtrlr).q = q
         /\ Message("free", q) \in Sent(toCtrlr)
         /\ toCtrlr' \in Seq(CtrlrMsg) /\ Once(toCtrlr)' /\ DestructLast(toCtrlr)'
         /\ \A x : x \in Sent(toCtrlr)' <=> x \in Sent(toCtrlr) /\ x # Message("free", q)
  BY <1>1, TakenByCtrlr DEF FreeFromQpair
<1> DEFINE mask == nc.mask \ {Qid[q]}
           last == mask = {}
<1>4. nq[q].state = "freed" /\ nq[q].ctrlr /\ nq[q].connect = "done"
  BY <1>2, <1>3 DEF MessagesOf
<1>5. Attached(q)
  BY <1>3, <1>4, FreeingSent DEF Attached
<1>6. nc.state = "listed" /\ ~nc.destruct /\ Qid[q] \in nc.mask
  BY <1>1, <1>5, AttachedListed
<1>7. Adm.connect = "done" /\ Adm.ctrlr
  BY <1>2, <1>4 DEF QueueInv, Adm
<1>8. /\ nc' = [nc EXCEPT !.mask = mask, !.destruct = @ \/ last]
      /\ toSubsys' = IF last THEN Append(toSubsys, Message("destruct", AdminQ)) ELSE toSubsys
      /\ UNCHANGED <<nq, ncWalk>>
  BY <1>3 DEF FreeFromQpair
<1>9. ncSeen' = ncSeen
  BY <1>1, <1>6 DEF FreeFromQpair, CtrlrTypes, CtrlrSeenType
<1>10. mask \in SUBSET Nat /\ last \in BOOLEAN
  BY <1>1 DEF CtrlrTypes, CtrlrType
<1>11. /\ nc' \in CtrlrType /\ nc'.mask = mask /\ nc'.destruct = last
       /\ nc'.admin = nc.admin
       /\ nc'.progress = nc.progress /\ nc'.keep_alive = nc.keep_alive
       /\ nc'.association = nc.association
       /\ nc'.cc_timer = nc.cc_timer /\ nc'.cc_timeout = nc.cc_timeout
       /\ nc'.state = "listed"
  <2>1. nc' = [nc EXCEPT !.mask = mask, !.destruct = last] /\ nc \in CtrlrType
    <3>1. nc \in CtrlrType BY <1>1 DEF CtrlrTypes
    <3>2. (nc.destruct \/ last) = last BY <1>6
    <3> QED BY <1>8, <3>1, <3>2
  <2> HIDE DEF mask, last
  <2> QED BY <2>1, <1>6, <1>10 DEF CtrlrType
<1>12. (last => nc'.mask = {}) /\ mask = nc.mask \ {Qid[q]}
  BY <1>11
<1> HIDE DEF mask, last
<1>13. /\ toSubsys' \in Seq(SubsysMsg) /\ Once(toSubsys)'
       /\ \A x : x \in Sent(toSubsys)' <=>
                 x \in Sent(toSubsys) \/ (last /\ x = Message("destruct", AdminQ))
  <2>1. toSubsys \in Seq(SubsysMsg) /\ Once(toSubsys) /\ Message("destruct", AdminQ) \notin Sent(toSubsys)
    BY <1>1, <1>2, <1>6 DEF CtrlrTypes, CtrlrRuns, MessagesInv, MessagesOf
  <2>2. CASE last
    <3>1. toSubsys' = Append(toSubsys, Message("destruct", AdminQ)) BY <2>2, <1>8
    <3> QED BY <2>1, <2>2, <3>1, <1>1, SentToSubsys
  <2>3. CASE ~last
    <3>1. toSubsys' = toSubsys BY <2>3, <1>8
    <3> QED BY <2>1, <2>3, <3>1 DEF Once, Sent
  <2> QED BY <2>2, <2>3
<1>14. CtrlrTypes' /\ CrashesHaveCauses'
  BY <1>1, <1>3, <1>8, <1>9, <1>11, <1>13 DEF CtrlrTypes, CrashesHaveCauses, Crashes
<1>15. nq' = nq
  BY <1>8
<1>16. ASSUME NEW p \in Qs PROVE QueueInv(p)'
  BY <1>2, <1>15 DEF QueueInv, Adm, Pending
<1>17. ASSUME NEW p \in Qs PROVE MessagesOf(p)'
  <2>1. MessagesOf(p)
    BY <1>2
  <2>2. \A g : /\ Message(g, p) \in Sent(toSubsys)' <=>
                     Message(g, p) \in Sent(toSubsys) \/ (last /\ g = "destruct" /\ p = AdminQ)
               /\ Message(g, p) \in Sent(toCtrlr)' <=>
                     Message(g, p) \in Sent(toCtrlr) /\ ~(g = "free" /\ p = q)
    BY <1>3, <1>13, MessageFacts
  <2> QED BY <2>1, <2>2, <1>6, <1>11, <1>15 DEF MessagesOf, Adm, Message
<1>18. MessagesInv'
  BY <1>3, <1>13, <1>17 DEF MessagesInv
<1>19. StagesInv'
  BY <1>1, <1>6, <1>7, <1>11, <1>12, <1>15 DEF CtrlrRuns, StagesInv, Adm
<1>20. TimersInv'
  BY <1>1, <1>6, <1>8, <1>9, <1>11, <1>15 DEF CtrlrRuns, TimersInv, Adm
<1>21. \A p \in Qs : Freeing(p)' <=> Freeing(p) /\ p # q
  BY <1>3, FreeingSent, FreeingNext, MessageFacts
<1>22. \A p \in Qs : Attached(p)' <=> Attached(p) /\ p # q
  BY <1>4, <1>15, <1>21 DEF Attached
<1>23. MaskIsAttached'
  <2>1. MaskIsAttached
    BY <1>1 DEF CtrlrRuns
  <2>2. /\ nc.mask = {Qid[p] : p \in {o \in Qs : Attached(o)}}
        /\ \A o, p \in Qs : Attached(o) /\ Attached(p) /\ Qid[o] = Qid[p] => o = p
    BY <2>1, <1>1 DEF MaskIsAttached
  <2>3. {Qid[p] : p \in {o \in Qs : Attached(o)}}' = {Qid[p] : p \in {o \in Qs : Attached(o) /\ o # q}}
    BY <1>22
  <2>4. {Qid[p] : p \in {o \in Qs : Attached(o) /\ o # q}} = mask
    BY <2>2, <1>5, <1>12
  <2> QED BY <2>2, <2>3, <2>4, <1>11, <1>22 DEF MaskIsAttached
<1>24. FreedUnused'
  BY <1>11 DEF FreedUnused
<1>25. WalkedInv'
  BY <1>1, <1>8, <1>9, <1>15, <1>22 DEF CtrlrRuns, WalkedInv, Walked, InService
<1> QED BY <1>14, <1>16, <1>18, <1>19, <1>20, <1>23, <1>24, <1>25 DEF CtrlrInv, CtrlrRuns

(* The subsystem's thread removes the controller from its list. *)
LEMMA RemoveCtrlrKeeps ==
    ASSUME CtrlrInv, RemoveCtrlr PROVE CtrlrInv'
<1>1. CtrlrTypes /\ CtrlrRuns /\ Alive /\ AdminQ \in Qs /\ ncSeen.crash = "no"
  BY PlacementFacts DEF RemoveCtrlr, CtrlrInv, CtrlrTypes, Alive
<1>2. \A p \in Qs : MessagesOf(p) /\ QueueInv(p)
  BY <1>1 DEF CtrlrRuns, MessagesInv
<1>3. /\ Message("destruct", AdminQ) \in Sent(toSubsys)
      /\ toSubsys' \in Seq(SubsysMsg) /\ Once(toSubsys)'
      /\ \A x : x \in Sent(toSubsys)' <=> x \in Sent(toSubsys) /\ x # Message("destruct", AdminQ)
  <2>1. PICK q \in Qs :
             /\ Message("destruct", q) \in Sent(toSubsys)
             /\ toSubsys' \in Seq(SubsysMsg) /\ Once(toSubsys)'
             /\ \A x : x \in Sent(toSubsys)' <=> x \in Sent(toSubsys) /\ x # Message("destruct", q)
    BY <1>1, TakenBySubsys DEF RemoveCtrlr
  <2>2. q = AdminQ
    BY <1>2, <2>1 DEF MessagesOf
  <2> QED BY <2>1, <2>2
<1>4. nc.state = "listed" /\ nc.destruct /\ Adm.connect = "done" /\ Adm.ctrlr
  BY <1>1, <1>2, <1>3 DEF MessagesOf, CtrlrRuns, StagesInv
<1>5. /\ nc' \in CtrlrType /\ nc'.mask = nc.mask /\ nc'.destruct = nc.destruct
      /\ nc'.admin = nc.admin
      /\ nc'.progress = nc.progress /\ nc'.keep_alive = nc.keep_alive
      /\ nc'.association = nc.association
      /\ nc'.cc_timer = nc.cc_timer /\ nc'.cc_timeout = nc.cc_timeout
      /\ nc'.state = "removed"
  BY <1>1 DEF RemoveCtrlr, CtrlrTypes, CtrlrType
<1>6. UNCHANGED <<nq, ncWalk, ncSeen>> /\ toCtrlr' = Append(toCtrlr, Message("destruct", AdminQ))
  BY DEF RemoveCtrlr
<1>7. /\ toCtrlr' \in Seq(CtrlrMsg) /\ Once(toCtrlr)' /\ DestructLast(toCtrlr)'
      /\ \A x : x \in Sent(toCtrlr)' <=> x \in Sent(toCtrlr) \/ x = Message("destruct", AdminQ)
  <2>1. /\ toCtrlr \in Seq(CtrlrMsg) /\ Once(toCtrlr)
        /\ Message("destruct", AdminQ) \notin Sent(toCtrlr)
    BY <1>1, <1>2, <1>4 DEF CtrlrTypes, CtrlrRuns, MessagesInv, MessagesOf
  <2>2. \A x \in Sent(toCtrlr) : x.f # "destruct"
    BY <1>1, <1>4, NoDestructYet
  <2> QED BY <2>1, <2>2, <1>1, <1>6, SentToCtrlr
<1>8. CtrlrTypes' /\ CrashesHaveCauses'
  BY <1>1, <1>3, <1>5, <1>6, <1>7 DEF CtrlrTypes, CrashesHaveCauses, Crashes
<1>9. ASSUME NEW p \in Qs PROVE QueueInv(p)'
  BY <1>2, <1>6 DEF QueueInv, Adm, Pending
<1>10. ASSUME NEW p \in Qs PROVE MessagesOf(p)'
  <2>1. MessagesOf(p)
    BY <1>2
  <2>2. \A g : /\ Message(g, p) \in Sent(toSubsys)' <=>
                     Message(g, p) \in Sent(toSubsys) /\ ~(g = "destruct" /\ p = AdminQ)
               /\ Message(g, p) \in Sent(toCtrlr)' <=>
                     Message(g, p) \in Sent(toCtrlr) \/ (g = "destruct" /\ p = AdminQ)
    BY <1>3, <1>7, MessageFacts
  <2> QED BY <2>1, <2>2, <1>4, <1>5, <1>6 DEF MessagesOf, Adm, Message
<1>11. MessagesInv'
  BY <1>3, <1>7, <1>10 DEF MessagesInv
<1>12. StagesInv'
  BY <1>1, <1>4, <1>5, <1>6 DEF CtrlrRuns, StagesInv, Adm
<1>13. TimersInv'
  BY <1>1, <1>4, <1>5, <1>6 DEF CtrlrRuns, TimersInv, Adm
<1>14. \A p \in Qs : Freeing(p)' <=> Freeing(p)
  BY <1>7, FreeingSent, FreeingNext, MessageFacts
<1>15. \A p \in Qs : Attached(p)' <=> Attached(p)
  BY <1>6, <1>14 DEF Attached
<1>16. MaskIsAttached'
  <2>1. {Qid[p] : p \in {o \in Qs : Attached(o)}}' = {Qid[p] : p \in {o \in Qs : Attached(o)}}
    BY <1>15
  <2> QED BY <2>1, <1>1, <1>5, <1>15 DEF MaskIsAttached, CtrlrRuns
<1>17. FreedUnused'
  BY <1>5 DEF FreedUnused
<1>18. WalkedInv'
  BY <1>1, <1>6, <1>15 DEF CtrlrRuns, WalkedInv, Walked, InService
<1> QED BY <1>8, <1>9, <1>11, <1>12, <1>13, <1>16, <1>17, <1>18 DEF CtrlrInv, CtrlrRuns

(* The controller is freed when nothing is left, or the message is sent
   again. *)
LEMMA DestructCtrlrKeeps ==
    ASSUME CtrlrInv, DestructCtrlr PROVE CtrlrInv'
<1>1. CtrlrTypes /\ CtrlrRuns /\ Alive /\ AdminQ \in Qs /\ ncSeen.crash = "no"
  BY PlacementFacts DEF DestructCtrlr, CtrlrInv, CtrlrTypes, Alive
<1>2. \A p \in Qs : MessagesOf(p) /\ QueueInv(p)
  BY <1>1 DEF CtrlrRuns, MessagesInv
<1>3. /\ toCtrlr \in Seq(CtrlrMsg) /\ Once(toCtrlr) /\ DestructLast(toCtrlr) /\ toCtrlr # <<>>
      /\ Head(toCtrlr).f = "destruct"
  BY <1>1 DEF CtrlrTypes, CtrlrRuns, MessagesInv, DestructCtrlr, At
<1>4. /\ Tail(toCtrlr) = <<>> /\ Head(toCtrlr) \in CtrlrMsg /\ Head(toCtrlr) \in Sent(toCtrlr)
      /\ \A x \in Sent(toCtrlr) : x = Head(toCtrlr)
  <2>1. /\ Tail(toCtrlr) = <<>> /\ Head(toCtrlr) \in CtrlrMsg /\ Head(toCtrlr) \in Sent(toCtrlr)
        /\ \A x : x \in Sent(Tail(toCtrlr)) <=> x \in Sent(toCtrlr) /\ x # Head(toCtrlr)
    BY <1>3, TailHandles
  <2>2. Sent(<<>>) = {}
    BY DEF Sent
  <2> QED BY <2>1, <2>2
<1>5. Head(toCtrlr) = Message("destruct", AdminQ)
  <2>1. Head(toCtrlr) = Message("destruct", Head(toCtrlr).q) /\ Head(toCtrlr).q \in Qs
    BY <1>3, <1>4, MessageParts
  <2> QED BY <2>1, <1>2, <1>4 DEF MessagesOf
<1>6. nc.state = "removed" /\ nc.destruct /\ nc.mask = {} /\ Adm.connect = "done" /\ Adm.ctrlr
  BY <1>1, <1>2, <1>4, <1>5 DEF MessagesOf, CtrlrRuns, StagesInv
<1>7. CASE nc.progress
  <2>1. toCtrlr' = Append(<<>>, Head(toCtrlr)) /\ UNCHANGED <<nc, nq, toSubsys, ncWalk, ncSeen>>
    BY <1>4, <1>7 DEF DestructCtrlr
  <2>2. Len(toCtrlr) = 1
    <3>1. Len(Tail(toCtrlr)) = Len(toCtrlr) - 1 /\ Len(toCtrlr) \in Nat
      BY <1>3, HeadTailProperties, EmptySeq
    <3>2. Len(Tail(toCtrlr)) = 0 BY <1>4, EmptySeq
    <3> QED BY <3>1, <3>2
  <2>3. toCtrlr' = toCtrlr
    <3>1. toCtrlr' = <<Head(toCtrlr)>> BY <2>1
    <3> QED BY <3>1, <2>2, <1>3
  <2>4. UNCHANGED ctrlrVars
    BY <2>1, <2>3 DEF ctrlrVars
  <2>5. QueuesMove /\ SameCtrlr
    BY <2>4, <1>1, StandingMoves DEF QueuesMove, SameCtrlr, CtrlrTypes, ctrlrVars
  <2>6. TimersInv' /\ WalkedInv'
    BY <2>4, <2>5, <1>1, StandingWalks DEF ctrlrVars
  <2>7. Alive' => CtrlrRuns'
    BY <2>4, <2>5, <2>6, <1>1, MovesKeep DEF ctrlrVars
  <2>8. CtrlrTypes' /\ CrashesHaveCauses'
    BY <2>4, <1>1 DEF ctrlrVars, CtrlrTypes, CrashesHaveCauses, Crashes
  <2> QED BY <2>7, <2>8 DEF CtrlrInv
<1>8. CASE ~nc.progress
  <2>1. toCtrlr' = <<>> /\ UNCHANGED <<nq, toSubsys, ncWalk, ncSeen>>
    BY <1>4, <1>8 DEF DestructCtrlr
  <2>2. /\ nc' \in CtrlrType /\ nc'.mask = nc.mask /\ nc'.destruct = nc.destruct
        /\ nc'.admin = nc.admin /\ ~nc'.progress /\ ~nc'.keep_alive /\ ~nc'.association
        /\ nc'.cc_timer = nc.cc_timer /\ nc'.cc_timeout = nc.cc_timeout
        /\ nc'.state = "freed"
    BY <1>1, <1>8 DEF DestructCtrlr, CtrlrTypes, CtrlrType
  <2>3. /\ toCtrlr' \in Seq(CtrlrMsg) /\ Once(toCtrlr)' /\ DestructLast(toCtrlr)'
        /\ Sent(toCtrlr)' = {}
    BY <2>1 DEF Once, DestructLast, Sent
  <2>4. Once(toSubsys)' /\ Sent(toSubsys)' = Sent(toSubsys)
    BY <2>1, <1>1 DEF CtrlrRuns, MessagesInv, Once, Sent
  <2>5. CtrlrTypes' /\ CrashesHaveCauses'
    BY <1>1, <2>1, <2>2, <2>3 DEF CtrlrTypes, CrashesHaveCauses, Crashes
  <2>6. ASSUME NEW p \in Qs PROVE QueueInv(p)'
    BY <1>2, <2>1 DEF QueueInv, Adm, Pending
  <2>7. \A p \in Qs : nq[p].connect # "controller" /\ ~Freeing(p) /\ ~Freeing(p)'
    <3> SUFFICES ASSUME NEW p \in Qs
                 PROVE  nq[p].connect # "controller" /\ ~Freeing(p) /\ ~Freeing(p)'
      OBVIOUS
    <3>1. \A f : Message(f, p) \in Sent(toCtrlr) => f = "destruct"
      BY <1>4, <1>5, MessageFacts
    <3>2. MessagesOf(p) BY <1>2
    <3> QED BY <3>1, <3>2, <2>3, <1>6, FreeingSent, FreeingNext DEF MessagesOf, Adm
  <2>8. ASSUME NEW p \in Qs PROVE MessagesOf(p)'
    <3>1. MessagesOf(p) BY <1>2
    <3> QED BY <3>1, <2>1, <2>2, <2>3, <2>4, <2>7, <1>6 DEF MessagesOf, Adm, Message
  <2>9. MessagesInv'
    BY <2>3, <2>4, <2>8 DEF MessagesInv
  <2>10. StagesInv'
    BY <1>1, <1>6, <2>1, <2>2 DEF CtrlrRuns, StagesInv, Adm
  <2>11. ~nc.cc_timer /\ ~nc.cc_timeout /\ ncWalk["reset"] = NoWalkOn
    BY <1>1, <1>8 DEF CtrlrRuns, TimersInv
  <2>12. TimersInv'
    BY <1>1, <1>6, <2>1, <2>2, <2>11 DEF CtrlrRuns, TimersInv, Adm
  <2>13. \A p \in Qs : Attached(p)' <=> Attached(p)
    BY <2>1, <2>7 DEF Attached
  <2>14. \A p \in Qs : ~Attached(p)
    BY <1>1, <1>6 DEF CtrlrRuns, MaskIsAttached
  <2>15. MaskIsAttached'
    <3>1. {Qid[p] : p \in {o \in Qs : Attached(o)}}' = {} BY <2>13, <2>14
    <3> QED BY <3>1, <2>2, <2>13, <2>14, <1>6 DEF MaskIsAttached
  <2>16. ASSUME NEW p \in Qs, nq[p].ctrlr PROVE nq[p].state = "freed"
    <3>1. nq[p].connect \in {"answered", "done"}
      <4>1. QueueInv(p) /\ nq[p] \in QType BY <1>1, <1>2 DEF CtrlrTypes
      <4>2. nq[p].connect # "subsystem" BY <4>1, <2>16, <1>6 DEF QueueInv, Adm
      <4> QED BY <4>1, <4>2, <2>7, <2>16 DEF QueueInv, QType
    <3> QED BY <3>1, <2>14, <2>16 DEF Attached
  <2>17. FreedUnused'
    BY <2>1, <2>2, <2>7, <2>11, <2>16 DEF FreedUnused
  <2>18. WalkedInv'
    BY <1>1, <2>1, <2>13 DEF CtrlrRuns, WalkedInv, Walked, InService
  <2> QED BY <2>5, <2>6, <2>9, <2>10, <2>12, <2>15, <2>17, <2>18 DEF CtrlrInv, CtrlrRuns
<1> QED BY <1>7, <1>8

---------------------------------------------------------------------------
(* The theorems *)

(* No queue pair and no controller yet. *)
LEMMA CtrlrStarts == CtrlrInit => CtrlrInv
<1> SUFFICES ASSUME CtrlrInit PROVE CtrlrInv
  OBVIOUS
<1>1. AdminQ \in Qs /\ NumPgs \in Nat
  BY PlacementFacts
<1>2. /\ nc.state = "none" /\ nc.mask = {} /\ ~nc.admin /\ ~nc.destruct /\ ~nc.progress
      /\ ~nc.keep_alive /\ ~nc.association /\ ~nc.cc_timer /\ ~nc.cc_timeout
      /\ \A q \in Qs : nq[q] = FreshQ
      /\ toSubsys = <<>> /\ toCtrlr = <<>>
      /\ ncWalk["keep_alive"] = NoWalkOn /\ ncWalk["reset"] = NoWalkOn
      /\ ncSeen.crash = "no" /\ ~ncSeen.expired
  BY DEF CtrlrInit, Walks
<1>3. FreshQ \in QType
  BY DEF FreshQ, QType
<1>4. CtrlrTypes
  <2>1. nc \in CtrlrType
    BY DEF CtrlrInit, CtrlrType
  <2>2. nq \in [Qs -> QType]
    BY <1>3 DEF CtrlrInit
  <2>3. toSubsys \in Seq(SubsysMsg) /\ toCtrlr \in Seq(CtrlrMsg)
    BY <1>2, EmptySeq
  <2>4. ncWalk \in [Walks -> 0 .. NumPgs + 1]
    BY <1>1 DEF CtrlrInit, NoWalkOn
  <2>5. ncSeen \in CtrlrSeenType
    BY DEF CtrlrInit, CtrlrSeenType, Crashes
  <2> QED BY <2>1, <2>2, <2>3, <2>4, <2>5 DEF CtrlrTypes
<1>5. CrashesHaveCauses
  BY <1>2 DEF CrashesHaveCauses, Crashes
<1>6. \A q \in Qs : QueueInv(q)
  BY <1>1, <1>2 DEF QueueInv, FreshQ, Pending, Adm
<1>7. Sent(toSubsys) = {} /\ Sent(toCtrlr) = {}
  BY <1>2 DEF Sent
<1>8. Once(toSubsys) /\ Once(toCtrlr) /\ DestructLast(toCtrlr)
  BY <1>2 DEF Once, DestructLast
<1>9. MessagesInv
  BY <1>1, <1>2, <1>7, <1>8 DEF MessagesInv, MessagesOf, FreshQ, Adm
<1>10. StagesInv /\ TimersInv
  BY <1>1, <1>2 DEF StagesInv, TimersInv, FreshQ, Adm
<1>11. \A q \in Qs : ~Attached(q)
  BY <1>2 DEF Attached, FreshQ
<1>12. MaskIsAttached /\ FreedUnused
  BY <1>2, <1>11 DEF MaskIsAttached, FreedUnused
<1>13. WalkedInv
  BY <1>2 DEF WalkedInv, Walked
<1> QED BY <1>4, <1>5, <1>6, <1>9, <1>10, <1>12, <1>13 DEF CtrlrInv, CtrlrRuns

(* The invariant speaks of the variables only. *)
LEMMA CtrlrStutters == CtrlrInv /\ UNCHANGED ctrlrVars => CtrlrInv'
<1> SUFFICES ASSUME CtrlrInv, UNCHANGED ctrlrVars PROVE CtrlrInv'
  OBVIOUS
<1>1. CtrlrTypes' /\ CrashesHaveCauses' /\ (Alive' <=> Alive)
  BY DEF CtrlrInv, ctrlrVars, CtrlrTypes, CrashesHaveCauses, Crashes, Alive
<1>2. CASE ~Alive
  BY <1>1, <1>2 DEF CtrlrInv
<1>3. CASE Alive
  <2>1. QueuesMove /\ SameCtrlr
    BY <1>3, StandingMoves DEF QueuesMove, SameCtrlr, CtrlrInv, CtrlrTypes, ctrlrVars
  <2>2. TimersInv' /\ WalkedInv'
    BY <2>1, <1>3, StandingWalks DEF ctrlrVars
  <2> QED BY <2>1, <2>2, <1>1, <1>3, MovesKeep DEF ctrlrVars, CtrlrInv
<1> QED BY <1>2, <1>3

(* Every step keeps the invariant. *)
LEMMA CtrlrKept == CtrlrInv /\ [CtrlrNext]_ctrlrVars => CtrlrInv'
<1> SUFFICES ASSUME CtrlrInv, CtrlrNext PROVE CtrlrInv'
  BY CtrlrStutters
<1>1. ASSUME NEW q \in Qs,
             \/ NewQpair(q) \/ TransportDisconnect(q) \/ DisconnectElsewhere(q)
             \/ MoveDisconnect(q) \/ DisconnectMoved(q) \/ FiniComplete(q) \/ StartIo(q) \/ IoDone(q)
             \/ Connect(q) \/ AnswerConnect(q)
      PROVE  CtrlrInv'
  BY <1>1, NewQpairKeeps, TransportDisconnectKeeps, DisconnectElsewhereKeeps,
     MoveDisconnectKeeps, DisconnectMovedKeeps, FiniCompleteKeeps, StartIoKeeps, IoDoneKeeps, ConnectKeeps,
     AnswerConnectKeeps
<1>2. ASSUME \/ AddCtrlr \/ AddAdminQpair \/ LookUpCtrlr \/ AddIoQpair
             \/ FreeFromQpair \/ RemoveCtrlr \/ DestructCtrlr
      PROVE  CtrlrInv'
  BY <1>2, AddCtrlrKeeps, AddAdminQpairKeeps, LookUpCtrlrKeeps, AddIoQpairKeeps,
     FreeFromQpairKeeps, RemoveCtrlrKeeps, DestructCtrlrKeeps
<1>3. ASSUME \/ Enable \/ KeepAliveExpired \/ KeepAliveWalked \/ CcTimeout \/ AssociationExpired
      PROVE  CtrlrInv'
  BY <1>3, EnableKeeps, KeepAliveExpiredKeeps, KeepAliveWalkedKeeps, CcTimeoutKeeps,
     AssociationExpiredKeeps
<1>4. ASSUME NEW b \in BOOLEAN, ResetOrShutDown(b) \/ ResetWalked(b) PROVE CtrlrInv'
  BY <1>4, ResetOrShutDownKeeps, ResetWalkedKeeps
<1>5. ASSUME NEW w \in Walks, WalkGroup(w) PROVE CtrlrInv'
  BY <1>5, WalkGroupKeeps
<1> QED BY <1>1, <1>2, <1>3, <1>4, <1>5 DEF CtrlrNext

(* The inductive invariant of the controller and its queue pairs. *)
THEOREM CtrlrInvariance == CtrlrSpec => []CtrlrInv
  BY CtrlrStarts, CtrlrKept, PTL DEF CtrlrSpec

(* The variables of NvmfCtrlr keep their types. *)
THEOREM NvmfCtrlrTyping == CtrlrSpec => []CtrlrTypeOK
<1>1. CtrlrInv => CtrlrTypeOK
  BY DEF CtrlrInv, CtrlrTypes, CtrlrTypeOK, CtrlrType, QType
<1> QED BY <1>1, CtrlrInvariance, PTL

(* The mask holds exactly the ids of the queues that are attached, so the
   controller goes with the last of them and once; nobody has it when it
   is freed; an expired keep alive timer leaves no queue active but the
   late ones and those whose disconnect another thread has begun; and
   every crash has a listed cause. *)
THEOREM LivesAndEnds == CtrlrSpec => []ControllerLife
<1>1. CtrlrInv => ControllerLife
  <2> SUFFICES ASSUME CtrlrInv PROVE ControllerLife
    OBVIOUS
  <2>1. MaskIsAttached /\ FreedUnused /\ CrashesHaveCauses
    BY DEF CtrlrInv, CtrlrRuns, MaskIsAttached, FreedUnused
  <2>2. ExpiredLeavesNone
    BY DEF CtrlrInv, CtrlrRuns, WalkedInv, Walked, ExpiredLeavesNone, InService
  <2> QED BY <2>1, <2>2 DEF ControllerLife
<1> QED BY <1>1, CtrlrInvariance, PTL

-------------------------------------------------------------------------------
(* The list of registrants *)

(* What is left of a list without the element at a position. *)
LEMMA WithoutPosition ==
    ASSUME NEW S, NEW s \in Seq(S), NEW i \in DOMAIN s
    PROVE  /\ RemoveAt(s, i) \in Seq(S)
           /\ Len(RemoveAt(s, i)) = Len(s) - 1
           /\ \A j \in 1 .. Len(s) - 1 : RemoveAt(s, i)[j] = IF j < i THEN s[j] ELSE s[j + 1]
<1> DEFINE before == SubSeq(s, 1, i - 1)
           after == SubSeq(s, i + 1, Len(s))
<1>1. i \in Nat /\ 1 <= i /\ i <= Len(s) /\ Len(s) \in Nat
  BY LenProperties
<1>2. /\ before \in Seq(S)
      /\ Len(before) = i - 1
      /\ \A j \in 1 .. i - 1 : before[j] = s[1 + j - 1]
  BY <1>1, SubSeqProperties, ElementOfSeq
<1>3. /\ after \in Seq(S)
      /\ Len(after) = Len(s) - i
      /\ \A j \in 1 .. Len(s) - i : after[j] = s[i + 1 + j - 1]
  BY <1>1, SubSeqProperties, ElementOfSeq
<1> HIDE DEF before, after
<1>4. before \o after \in Seq(S) /\ Len(before \o after) = Len(s) - 1
  BY <1>1, <1>2, <1>3, ConcatProperties
<1>6. \A j \in 1 .. Len(s) - 1 :
        (before \o after)[j] = IF j <= i - 1 THEN before[j] ELSE after[j - (i - 1)]
  <2>1. \A j \in 1 .. Len(before) + Len(after) :
          (before \o after)[j] = IF j <= Len(before) THEN before[j] ELSE after[j - Len(before)]
    BY <1>2, <1>3, ConcatProperties
  <2>2. Len(before) = i - 1 /\ Len(before) + Len(after) = Len(s) - 1
    BY <1>1, <1>2, <1>3
  <2> QED BY <2>1, <2>2
<1>5. ASSUME NEW j \in 1 .. Len(s) - 1
      PROVE  (before \o after)[j] = IF j < i THEN s[j] ELSE s[j + 1]
  <2>1. CASE j < i
    <3>1. j <= i - 1 BY <1>1, <2>1
    <3>2. (before \o after)[j] = before[j] BY <1>6, <3>1
    <3>3. before[j] = s[1 + j - 1] /\ 1 + j - 1 = j BY <1>1, <1>2, <3>1
    <3> QED BY <2>1, <3>2, <3>3
  <2>2. CASE i <= j
    <3>1. (before \o after)[j] = after[j - (i - 1)]
      <4>1. ~(j <= i - 1) BY <1>1, <2>2
      <4> QED BY <1>6, <4>1
    <3>2. j - (i - 1) \in 1 .. Len(s) - i /\ i + 1 + (j - (i - 1)) - 1 = j + 1
      BY <1>1, <2>2
    <3>3. after[j - (i - 1)] = s[j + 1] BY <1>3, <3>2
    <3> QED BY <1>1, <2>2, <3>1, <3>3
  <2>3. j < i \/ i <= j
    BY <1>1
  <2> QED BY <2>1, <2>2, <2>3
<1> QED BY <1>4, <1>5 DEF RemoveAt, before, after

(* A namespace whose registrants fit together. *)
Fits(s) == NamespaceType(s) /\ RegistrantsFit(s)

(* A registrant's position in the list. *)
LEMMA PositionOfRegistrant ==
    ASSUME NEW s, NEW h \in RegHosts(s)
    PROVE  Position(s, h) \in DOMAIN s.regs /\ s.regs[Position(s, h)].host = h
<1>1. \E i \in DOMAIN s.regs : s.regs[i].host = h
  BY DEF RegHosts
<1> QED BY <1>1, Zenon DEF Position

(* The list that one registrant leaves. *)
LEMMA RegistrantRemoved ==
    ASSUME NEW s, Fits(s), NEW h \in RegHosts(s)
    PROVE  /\ Removed(s, h).regs \in Seq([host : Hosts, key : ResKeys])
           /\ RegHosts(Removed(s, h)) = RegHosts(s) \ {h}
           /\ \A i, j \in DOMAIN Removed(s, h).regs :
                Removed(s, h).regs[i].host = Removed(s, h).regs[j].host => i = j
           /\ Removed(s, h) = [s EXCEPT !.regs = Removed(s, h).regs]
<1> DEFINE R == [host : Hosts, key : ResKeys]
           p == Position(s, h)
           rest == RemoveAt(s.regs, p)
           n == Len(s.regs)
<1>1. s.regs \in Seq(R) /\ n \in Nat /\ DOMAIN s.regs = 1 .. n
  BY LenProperties DEF Fits, NamespaceType
<1>2. p \in 1 .. n /\ s.regs[p].host = h
  BY <1>1, PositionOfRegistrant
<1>3. /\ rest \in Seq(R)
      /\ Len(rest) = n - 1
      /\ \A j \in 1 .. n - 1 : rest[j] = IF j < p THEN s.regs[j] ELSE s.regs[j + 1]
  <2>1. \A t \in Seq(R) : \A i \in DOMAIN t :
          /\ RemoveAt(t, i) \in Seq(R)
          /\ Len(RemoveAt(t, i)) = Len(t) - 1
          /\ \A j \in 1 .. Len(t) - 1 : RemoveAt(t, i)[j] = IF j < i THEN t[j] ELSE t[j + 1]
    BY WithoutPosition
  <2>2. s.regs \in Seq(R) /\ p \in DOMAIN s.regs
    BY <1>1, <1>2
  <2> HIDE DEF R, p
  <2> QED BY <2>1, <2>2, Zenon
<1>4. DOMAIN rest = 1 .. n - 1
  BY <1>3, LenProperties
<1>5. Removed(s, h) = [s EXCEPT !.regs = rest]
  BY DEF Removed
<1> HIDE DEF rest, p
<1>6. Removed(s, h).regs = rest
  BY <1>5 DEF Fits, NamespaceType
<1>7. \A i, j \in 1 .. n : s.regs[i].host = s.regs[j].host => i = j
  BY <1>1 DEF Fits, RegistrantsFit
<1>8. ASSUME NEW i \in 1 .. n - 1, NEW j \in 1 .. n - 1, rest[i].host = rest[j].host
      PROVE  i = j
  <2> DEFINE at(k) == IF k < p THEN k ELSE k + 1
  <2>1. at(i) \in 1 .. n /\ at(j) \in 1 .. n
    BY <1>1, <1>2
  <2>2. rest[i] = s.regs[at(i)] /\ rest[j] = s.regs[at(j)]
    BY <1>3
  <2>3. at(i) = at(j)
    <3> HIDE DEF at
    <3> QED BY <1>7, <1>8, <2>1, <2>2
  <2> QED BY <1>2, <2>3
<1>9. ASSUME NEW x \in RegHosts(s) \ {h} PROVE \E j \in 1 .. n - 1 : rest[j].host = x
  <2>1. PICK i \in 1 .. n : s.regs[i].host = x
    BY <1>1 DEF RegHosts
  <2>2. i # p
    BY <1>2, <1>9, <2>1
  <2>3. CASE i < p
    <3>1. i \in 1 .. n - 1 BY <1>1, <1>2, <2>3
    <3>2. rest[i] = s.regs[i] BY <1>3, <2>3, <3>1
    <3> QED BY <2>1, <3>1, <3>2
  <2>4. CASE p < i
    <3>1. i - 1 \in 1 .. n - 1 /\ ~(i - 1 < p) /\ (i - 1) + 1 = i BY <1>1, <1>2, <2>4
    <3>2. rest[i - 1] = s.regs[i] BY <1>3, <3>1
    <3> QED BY <2>1, <3>1, <3>2
  <2> QED BY <1>2, <2>2, <2>3, <2>4
<1>10. ASSUME NEW j \in 1 .. n - 1 PROVE rest[j].host \in RegHosts(s) \ {h}
  <2> DEFINE i == IF j < p THEN j ELSE j + 1
  <2>1. i \in 1 .. n /\ i # p
    BY <1>1, <1>2
  <2>2. rest[j] = s.regs[i]
    BY <1>3
  <2> HIDE DEF i
  <2>3. s.regs[i].host # h
    BY <1>2, <1>7, <2>1
  <2> QED BY <1>1, <2>1, <2>2, <2>3 DEF RegHosts
<1>11. RegHosts(Removed(s, h)) = {rest[j].host : j \in 1 .. n - 1}
  BY <1>4, <1>6 DEF RegHosts
<1>12. RegHosts(Removed(s, h)) = RegHosts(s) \ {h}
  BY <1>9, <1>10, <1>11
<1> QED BY <1>3, <1>4, <1>5, <1>6, <1>8, <1>12

(* What the removal of one registrant leaves, and what becomes of the
   holder. *)
LEMMA RegistrantLeaves ==
    ASSUME NEW s, Fits(s), NEW h \in RegHosts(s), NEW t, t = WithoutRegistrant(s, h)
    PROVE  /\ Fits(t)
           /\ RegHosts(t) = RegHosts(s) \ {h}
           /\ t.up = s.up /\ t.ptpl = s.ptpl
           /\ s.holder = NoHost => t.holder = NoHost
           /\ s.holder = h /\ ~ForAllRegs(s) => t.holder = NoHost
           /\ s.holder # NoHost /\ ForAllRegs(s) /\ RegHosts(t) # {} =>
                t.holder # NoHost /\ t.rtype = s.rtype
<1> DEFINE u == Removed(s, h)
           R == [host : Hosts, key : ResKeys]
<1>1. /\ u.regs \in Seq(R)
      /\ RegHosts(u) = RegHosts(s) \ {h}
      /\ \A i, j \in DOMAIN u.regs : u.regs[i].host = u.regs[j].host => i = j
      /\ u = [s EXCEPT !.regs = u.regs]
  BY RegistrantRemoved
<1>2. NamespaceType(s) /\ RegistrantsFit(s) /\ NoHost \notin Hosts
  BY HostsAssumption DEF Fits
<1>3. t = CASE s.holder # NoHost /\ ForAllRegs(s) /\ u.regs # <<>> ->
                 [u EXCEPT !.holder = u.regs[1].host]
            [] s.holder # NoHost /\ IsHolder(s, h) /\ ~(ForAllRegs(s) /\ u.regs # <<>>) -> Released(u)
            [] OTHER -> u
  BY DEF WithoutRegistrant
<1> HIDE DEF u
<1>4. NamespaceType(u)
  BY <1>1, <1>2 DEF NamespaceType
<1>5. /\ u.holder = s.holder /\ u.rtype = s.rtype /\ u.crkey = s.crkey
      /\ u.up = s.up /\ u.ptpl = s.ptpl
  BY <1>1, <1>2 DEF NamespaceType
<1>6. u.regs # <<>> => 1 \in DOMAIN u.regs /\ u.regs[1].host \in RegHosts(u) /\ u.regs[1].host \in Hosts
  <2>1. u.regs # <<>> => 1 \in 1 .. Len(u.regs)
    BY <1>1, EmptySeq, LenProperties
  <2>2. u.regs # <<>> => 1 \in DOMAIN u.regs /\ u.regs[1] \in R
    BY <1>1, <2>1, LenProperties, ElementOfSeq
  <2> QED BY <2>2 DEF RegHosts
<1>7. u.regs = <<>> => RegHosts(u) = {}
  BY EmptySeq DEF RegHosts
<1>8. CASE s.holder # NoHost /\ ForAllRegs(s) /\ u.regs # <<>>
  <2>1. t = [u EXCEPT !.holder = u.regs[1].host]
    BY <1>3, <1>8
  <2>2. NamespaceType(t)
    BY <1>4, <1>6, <1>8, <2>1 DEF NamespaceType
  <2>3. t.regs = u.regs /\ t.holder = u.regs[1].host /\ t.rtype = s.rtype
        /\ t.up = s.up /\ t.ptpl = s.ptpl
    BY <1>4, <1>5, <2>1 DEF NamespaceType
  <2>4. RegHosts(t) = RegHosts(u)
    BY <2>3 DEF RegHosts
  <2>5. RegistrantsFit(t)
    BY <1>1, <1>2, <1>6, <1>8, <2>3, <2>4 DEF RegistrantsFit
  <2> QED BY <1>1, <1>2, <1>6, <1>8, <2>2, <2>3, <2>4, <2>5 DEF Fits
<1>9. CASE s.holder # NoHost /\ IsHolder(s, h) /\ ~(ForAllRegs(s) /\ u.regs # <<>>)
  <2>1. t = Released(u)
    BY <1>3, <1>9
  <2>2. NamespaceType(t)
    <3>1. t = [up |-> u.up, regs |-> u.regs, holder |-> NoHost, rtype |-> 0, crkey |-> 0,
               ptpl |-> u.ptpl]
      BY <1>4, <2>1 DEF NamespaceType, Released
    <3>2. u.up \in BOOLEAN /\ u.ptpl \in BOOLEAN /\ 0 \in AnyKey
      BY <1>4 DEF NamespaceType, AnyKey
    <3> QED BY <1>1, <3>1, <3>2 DEF NamespaceType
  <2>3. t.regs = u.regs /\ t.holder = NoHost /\ t.rtype = 0 /\ t.crkey = 0
        /\ t.up = s.up /\ t.ptpl = s.ptpl
    BY <1>4, <1>5, <2>1 DEF NamespaceType, Released
  <2>4. RegHosts(t) = RegHosts(u)
    BY <2>3 DEF RegHosts
  <2>5. RegistrantsFit(t)
    BY <1>1, <2>3 DEF RegistrantsFit
  <2> QED BY <1>1, <1>7, <1>9, <2>2, <2>3, <2>4, <2>5 DEF Fits
<1>10. CASE /\ ~(s.holder # NoHost /\ ForAllRegs(s) /\ u.regs # <<>>)
            /\ ~(s.holder # NoHost /\ IsHolder(s, h) /\ ~(ForAllRegs(s) /\ u.regs # <<>>))
  <2>1. t = u
    BY <1>3, <1>10
  <2>2. s.holder # NoHost => s.holder # h
    BY <1>10 DEF IsHolder
  <2>3. RegistrantsFit(u)
    BY <1>1, <1>2, <1>5, <2>2 DEF RegistrantsFit
  <2>4. s.holder # NoHost /\ ForAllRegs(s) => u.regs = <<>>
    BY <1>10
  <2> QED BY <1>1, <1>2, <1>4, <1>5, <1>7, <2>1, <2>2, <2>3, <2>4 DEF Fits
<1> QED BY <1>8, <1>9, <1>10

-------------------------------------------------------------------------------
(* The fold over the list: one registrant after the other *)

(* One registrant leaves if its host is among those to remove. *)
Leave(t, r, H) == IF r.host \in H THEN WithoutRegistrant(t, r.host) ELSE t

(* g gives, for every set of positions in D, what the removal of the hosts
   in H at those positions leaves. *)
Leaves(g, s, H, D) ==
    g = [S \in SUBSET D |-> IF S = {} THEN s ELSE Leave(g[S \ {Max(S)}], s.regs[Max(S)], H)]

Left(s, H, D) == (CHOOSE g : Leaves(g, s, H, D))[D]

LeftUnfolds(s, H, D) ==
    Left(s, H, D) = IF D = {} THEN s ELSE Leave(Left(s, H, D \ {Max(D)}), s.regs[Max(D)], H)

(* The removal of several registrants is that of the hosts at all
   positions. *)
LEMMA RemovalIsLeft ==
    ASSUME NEW s, NEW H
    PROVE  WithoutRegistrants(s, H) = Left(s, H, DOMAIN s.regs)
  BY Zenon DEF WithoutRegistrants, FoldLeft, MapThenFoldSet, Left, Leaves, Leave

(* Positions in some list. *)
ListPositions(D) == \E n \in Nat : D \subseteq 1 .. n

(* A set of positions is finite, its subsets are such sets, and it has a
   greatest element. *)
LEMMA GreatestPosition ==
    ASSUME NEW S, ListPositions(S)
    PROVE  /\ IsFiniteSet(S)
           /\ \A R \in SUBSET S : ListPositions(R)
           /\ S # {} => Max(S) \in S /\ \A y \in S : Max(S) >= y
<1>1. PICK n \in Nat : S \subseteq 1 .. n
  BY DEF ListPositions
<1>2. IsFiniteSet(S)
  <2>1. IsFiniteSet(1 .. n)
    BY FS_Interval
  <2> QED BY <1>1, <2>1, FS_Subset
<1>3. ASSUME NEW R \in SUBSET S PROVE ListPositions(R)
  BY <1>1 DEF ListPositions
<1>4. ASSUME S # {} PROVE Max(S) \in S /\ \A y \in S : Max(S) >= y
  <2> DEFINE Below == {n - y : y \in S}
  <2>1. Below \subseteq Nat /\ Below # {}
    <3>1. \A y \in S : n - y \in Nat BY <1>1
    <3> QED BY <1>4, <3>1
  <2>2. PICK b \in Below : \A c \in Below : b <= c
    BY <2>1, LeastNumber
  <2>3. PICK x \in S : b = n - x
    BY <2>2
  <2>4. \A y \in S : n - y \in Below
    OBVIOUS
  <2>5. ASSUME NEW y \in S PROVE x >= y
    <3>1. b <= n - y BY <2>2, <2>4
    <3>2. x \in Int /\ y \in Int BY <1>1
    <3> QED BY <2>3, <3>1, <3>2
  <2>6. \E z \in S : \A y \in S : z >= y
    BY <2>5
  <2> QED BY <2>6, Zenon DEF Max
<1> QED BY <1>2, <1>3, <1>4

(* Two such functions agree where both are defined. *)
LEMMA LeavesAgree ==
    ASSUME NEW D1, NEW D2, NEW s, NEW H, NEW g1, NEW g2, ListPositions(D1),
           Leaves(g1, s, H, D1), Leaves(g2, s, H, D2)
    PROVE  \A S \in (SUBSET D1) \cap (SUBSET D2) : g1[S] = g2[S]
<1> DEFINE Bad == {S \in (SUBSET D1) \cap (SUBSET D2) : g1[S] # g2[S]}
<1> SUFFICES ASSUME Bad # {} PROVE FALSE
  OBVIOUS
<1>1. PICK B \in Bad : \A R \in SUBSET B : R # B => R \notin Bad
  <2>1. Bad \subseteq SUBSET D1 /\ IsFiniteSet(D1)
    BY GreatestPosition
  <2> HIDE DEF Bad
  <2> QED BY <2>1, MinimalSubset
<1>2. B \in SUBSET D1 /\ B \in SUBSET D2 /\ g1[B] # g2[B]
  BY <1>1
<1>3. /\ g1[B] = IF B = {} THEN s ELSE Leave(g1[B \ {Max(B)}], s.regs[Max(B)], H)
      /\ g2[B] = IF B = {} THEN s ELSE Leave(g2[B \ {Max(B)}], s.regs[Max(B)], H)
  BY <1>2, Zenon DEF Leaves
<1>4. B # {}
  BY <1>2, <1>3
<1>5. Max(B) \in B
  BY <1>2, <1>4, GreatestPosition
<1>6. g1[B \ {Max(B)}] = g2[B \ {Max(B)}]
  BY <1>1, <1>2, <1>5
<1> QED BY <1>2, <1>3, <1>4, <1>6

(* There is one. *)
LEMMA LeavesExists ==
    ASSUME NEW D, ListPositions(D), NEW s, NEW H
    PROVE  \E g : Leaves(g, s, H, D)
<1> DEFINE Bad == {S \in SUBSET D : ~\E g : Leaves(g, s, H, S)}
<1> SUFFICES ASSUME Bad # {} PROVE FALSE
  OBVIOUS
<1>1. PICK B \in Bad : \A R \in SUBSET B : R # B => R \notin Bad
  <2>1. Bad \subseteq SUBSET D /\ IsFiniteSet(D)
    BY GreatestPosition
  <2> HIDE DEF Bad
  <2> QED BY <2>1, MinimalSubset
<1> DEFINE Rest(S) == S \ {Max(S)}
           G(S) == CHOOSE g : Leaves(g, s, H, S)
           h == [S \in SUBSET B |-> IF S = {} THEN s
                                    ELSE Leave(Left(s, H, Rest(S)), s.regs[Max(S)], H)]
<1>2. ASSUME NEW R \in SUBSET B, R # B
      PROVE  Leaves(G(R), s, H, R)
  <2>1. \E g : Leaves(g, s, H, R)
    BY <1>1, <1>2
  <2> QED BY <2>1
<1>3. ASSUME NEW S \in SUBSET B, S # {}
      PROVE  h[Rest(S)] = Left(s, H, Rest(S))
  <2> DEFINE R == Rest(S)
  <2>0. ListPositions(S)
    BY <1>1, GreatestPosition
  <2>1. R \in SUBSET B /\ R # B /\ ListPositions(R)
    BY <1>3, <2>0, GreatestPosition
  <2>2. Leaves(G(R), s, H, R)
    BY <1>2, <2>1
  <2>3. G(R)[R] = IF R = {} THEN s ELSE Leave(G(R)[Rest(R)], s.regs[Max(R)], H)
    BY <2>2, Zenon DEF Leaves
  <2>4. CASE R = {}
    BY <2>1, <2>3, <2>4 DEF Left
  <2>5. CASE R # {}
    <3>1. Rest(R) \in SUBSET R /\ Rest(R) \in SUBSET B /\ Rest(R) # B
      BY <2>1, <2>5, GreatestPosition
    <3>2. Leaves(G(Rest(R)), s, H, Rest(R)) BY <1>2, <3>1
    <3>4. G(R)[Rest(R)] = G(Rest(R))[Rest(R)] BY <2>1, <2>2, <3>1, <3>2, LeavesAgree
    <3> QED BY <2>1, <2>3, <2>5, <3>4 DEF Left
  <2> QED BY <2>4, <2>5
<1>4. Leaves(h, s, H, B)
  <2>1. \A S \in SUBSET B : S # {} => h[Rest(S)] = Left(s, H, Rest(S))
    BY <1>3
  <2>2. h = [S \in SUBSET B |-> IF S = {} THEN s ELSE Leave(h[Rest(S)], s.regs[Max(S)], H)]
    BY <2>1
  <2> QED BY <2>2 DEF Leaves
<1> QED BY <1>1, <1>4

(* The last of the positions is removed last. *)
LEMMA LeftUnfolded ==
    ASSUME NEW D, ListPositions(D), NEW s, NEW H
    PROVE  LeftUnfolds(s, H, D)
<1> DEFINE G(S) == CHOOSE g : Leaves(g, s, H, S)
           Rest == D \ {Max(D)}
<1>1. Leaves(G(D), s, H, D)
  BY LeavesExists
<1>2. G(D)[D] = IF D = {} THEN s ELSE Leave(G(D)[Rest], s.regs[Max(D)], H)
  BY <1>1, Zenon DEF Leaves
<1>3. ASSUME D # {} PROVE G(D)[Rest] = G(Rest)[Rest]
  <2>1. ListPositions(Rest)
    BY GreatestPosition
  <2>2. Leaves(G(Rest), s, H, Rest)
    BY <2>1, LeavesExists
  <2> QED BY <1>1, <2>2, LeavesAgree
<1> QED BY <1>2, <1>3 DEF LeftUnfolds, Left

(* The registrants at the first m positions that are to be removed. *)
Gone(s, H, m) == H \cap {s.regs[i].host : i \in 1 .. m}

(* What holds of t once some of s's registrants have left. *)
LeftOf(t, s, gone) ==
    /\ Fits(t)
    /\ RegHosts(t) = RegHosts(s) \ gone
    /\ t.up = s.up /\ t.ptpl = s.ptpl
    /\ s.holder # NoHost /\ ForAllRegs(s) /\ RegHosts(t) # {} => t.holder # NoHost /\ t.rtype = s.rtype

(* One more registrant leaves. *)
LEMMA OneMoreLeaves ==
    ASSUME NEW s, Fits(s), NEW H, NEW m \in 1 .. Len(s.regs), NEW t, LeftOf(t, s, Gone(s, H, m - 1)),
           NEW u, u = Leave(t, s.regs[m], H)
    PROVE  LeftOf(u, s, Gone(s, H, m))
<1> DEFINE h == s.regs[m].host
<1>0. s.regs \in Seq([host : Hosts, key : ResKeys]) /\ Len(s.regs) \in Nat /\ DOMAIN s.regs = 1 .. Len(s.regs)
  BY LenProperties DEF Fits, NamespaceType
<1>1. h \in RegHosts(s)
  BY <1>0 DEF RegHosts
<1>2. h \notin Gone(s, H, m - 1)
  <2>1. \A i \in 1 .. m - 1 : s.regs[i].host # h
    BY <1>0 DEF Fits, RegistrantsFit
  <2> QED BY <2>1 DEF Gone
<1>3. Gone(s, H, m) = Gone(s, H, m - 1) \cup (H \cap {h})
  <2>1. \A i \in 1 .. m : i \in 1 .. m - 1 \/ i = m
    BY <1>0
  <2>2. \A i \in 1 .. m - 1 : i \in 1 .. m
    BY <1>0
  <2>3. m \in 1 .. m
    BY <1>0
  <2> QED BY <2>1, <2>2, <2>3 DEF Gone
<1>4. CASE h \in H
  <2>1. u = WithoutRegistrant(t, h)
    BY <1>4 DEF Leave
  <2>2. h \in RegHosts(t) /\ Fits(t)
    BY <1>1, <1>2 DEF LeftOf
  <2>3. /\ Fits(u)
        /\ RegHosts(u) = RegHosts(t) \ {h}
        /\ u.up = t.up /\ u.ptpl = t.ptpl
        /\ t.holder # NoHost /\ ForAllRegs(t) /\ RegHosts(u) # {} => u.holder # NoHost /\ u.rtype = t.rtype
    BY <2>1, <2>2, RegistrantLeaves
  <2>4. RegHosts(u) = RegHosts(s) \ Gone(s, H, m)
    BY <1>3, <1>4, <2>3 DEF LeftOf
  <2>5. RegHosts(u) # {} => RegHosts(t) # {}
    BY <2>3
  <2> QED BY <2>3, <2>4, <2>5 DEF LeftOf, ForAllRegs
<1>5. CASE h \notin H
  <2>1. u = t
    BY <1>5 DEF Leave
  <2>2. Gone(s, H, m) = Gone(s, H, m - 1)
    BY <1>3, <1>5
  <2> QED BY <2>1, <2>2
<1> QED BY <1>4, <1>5

(* What the removal of several registrants leaves. *)
LEMMA RegistrantsLeave ==
    ASSUME NEW s, Fits(s), NEW H, NEW t, t = WithoutRegistrants(s, H)
    PROVE  LeftOf(t, s, H)
<1> DEFINE n == Len(s.regs)
           Upto(m) == Left(s, H, 1 .. m)
           Bad == {m \in 0 .. n : ~LeftOf(Upto(m), s, Gone(s, H, m))}
<1>0. s.regs \in Seq([host : Hosts, key : ResKeys]) /\ n \in Nat /\ DOMAIN s.regs = 1 .. n
  BY LenProperties DEF Fits, NamespaceType
<1>1. ASSUME NEW m \in Nat PROVE LeftUnfolds(s, H, 1 .. m)
  <2>1. ListPositions(1 .. m)
    BY DEF ListPositions
  <2> QED BY <2>1, LeftUnfolded
<1>2. Bad = {}
  <2> SUFFICES ASSUME Bad # {} PROVE FALSE
    OBVIOUS
  <2>1. PICK m \in Bad : \A k \in Bad : m <= k
    <3>1. Bad \subseteq Nat BY <1>0
    <3> HIDE DEF Bad
    <3> QED BY <3>1, LeastNumber
  <2>2. m \in 0 .. n /\ ~LeftOf(Upto(m), s, Gone(s, H, m))
    BY <2>1
  <2>3. CASE m = 0
    <3>1. 1 .. m = {} BY <2>3
    <3>2. Upto(m) = s BY <1>1, <3>1, <2>3 DEF LeftUnfolds
    <3>3. Gone(s, H, m) = {} BY <3>1 DEF Gone
    <3> QED BY <2>2, <3>2, <3>3 DEF LeftOf
  <2>4. CASE m # 0
    <3>1. m \in 1 .. n /\ m - 1 \in 0 .. n /\ m - 1 \in Nat /\ 1 .. m # {} /\ m \in Nat
      BY <1>0, <2>2, <2>4
    <3>2. LeftOf(Upto(m - 1), s, Gone(s, H, m - 1))
      <4>1. m - 1 \notin Bad BY <2>1, <3>1
      <4> QED BY <3>1, <4>1
    <3>3. Max(1 .. m) = m
      <4>1. ListPositions(1 .. m) BY <3>1 DEF ListPositions
      <4>2. Max(1 .. m) \in 1 .. m /\ \A y \in 1 .. m : Max(1 .. m) >= y
        BY <3>1, <4>1, GreatestPosition
      <4> QED BY <3>1, <4>2
    <3>4. (1 .. m) \ {m} = 1 .. m - 1 BY <3>1
    <3>5. Upto(m) = Leave(Upto(m - 1), s.regs[m], H)
      BY <1>1, <3>1, <3>3, <3>4 DEF LeftUnfolds
    <3> HIDE DEF Upto
    <3> QED BY <1>0, <2>2, <3>1, <3>2, <3>5, OneMoreLeaves
  <2> QED BY <2>3, <2>4
<1>3. LeftOf(Upto(n), s, Gone(s, H, n))
  <2>1. n \in 0 .. n
    BY <1>0
  <2> QED BY <1>2, <2>1
<1>4. t = Upto(n)
  BY <1>0, RemovalIsLeft
<1>5. RegHosts(s) \ Gone(s, H, n) = RegHosts(s) \ H
  BY <1>0 DEF Gone, RegHosts
<1> HIDE DEF Upto
<1> QED BY <1>3, <1>4, <1>5 DEF LeftOf

-------------------------------------------------------------------------------
(* The commands *)

NoticeTypes == {"released", "preempted", "reservation preempted"}

(* Those that another's command unregisters are told. *)
TellsLosers(s, u, h, to) ==
    \A x \in RegHosts(s) \ (RegHosts(u) \cup {h}) :
        s.holder = NoHost \/ \E type \in {"preempted", "reservation preempted"} : <<x, type>> \in to

(* What holds of the effect of a command that host h sends. *)
EffectFits(s, h, e) ==
    /\ Fits(e.ns) /\ e.ns.up = s.up
    /\ e.sane = TRUE /\ e.update \in BOOLEAN
    /\ ~e.update => e.ns = s
    /\ e.to \subseteq Hosts \X NoticeTypes
    /\ TellsLosers(s, e.ns, h, e.to)

(* An effect is described by its parts. *)
LEMMA MadeOfParts ==
    ASSUME NEW s, NEW h, NEW u, NEW update \in BOOLEAN, NEW to, NEW e, e = Effect(u, update, to),
           Fits(u), u.up = s.up, ~update => u = s, to \subseteq Hosts \X NoticeTypes,
           TellsLosers(s, u, h, to)
    PROVE  EffectFits(s, h, e)
<1>1. e.ns = u /\ e.update = update /\ e.to = to /\ e.sane = TRUE
  BY DEF Effect
<1> QED BY <1>1 DEF EffectFits

(* The parts of a namespace that fits. *)
LEMMA PartsOfNamespace ==
    ASSUME NEW s, Fits(s)
    PROVE  /\ s.regs \in Seq([host : Hosts, key : ResKeys])
           /\ Len(s.regs) \in Nat /\ DOMAIN s.regs = 1 .. Len(s.regs)
           /\ RegHosts(s) \subseteq Hosts
           /\ \A h, k : HasKey(s, h, k) => h \in RegHosts(s) /\ s.regs # <<>>
<1>1. s.regs \in Seq([host : Hosts, key : ResKeys]) /\ Len(s.regs) \in Nat /\ DOMAIN s.regs = 1 .. Len(s.regs)
  BY LenProperties DEF Fits, NamespaceType
<1>2. \A i \in DOMAIN s.regs : s.regs[i] \in [host : Hosts, key : ResKeys]
  BY <1>1, ElementOfSeq
<1>3. RegHosts(s) \subseteq Hosts
  BY <1>2 DEF RegHosts
<1>4. ASSUME NEW h, NEW k, HasKey(s, h, k) PROVE h \in RegHosts(s) /\ s.regs # <<>>
  <2>1. PICK i \in DOMAIN s.regs : s.regs[i] = [host |-> h, key |-> k]
    BY <1>4 DEF HasKey
  <2>2. s.regs # <<>>
    BY <1>1, <2>1, EmptySeq
  <2> QED BY <2>1, <2>2 DEF RegHosts
<1> QED BY <1>1, <1>3, <1>4

(* A registrant more. *)
LEMMA RegistrantComes ==
    ASSUME NEW s, Fits(s), NEW h \in Hosts \ RegHosts(s), NEW k \in ResKeys, NEW u, u = WithRegistrant(s, h, k)
    PROVE  Fits(u) /\ u.up = s.up /\ u.ptpl = s.ptpl /\ RegHosts(u) = RegHosts(s) \cup {h}
<1> DEFINE R == [host : Hosts, key : ResKeys]
           new == [host |-> h, key |-> k]
           regs == Append(s.regs, new)
           n == Len(s.regs)
<1>1. s.regs \in Seq(R) /\ n \in Nat /\ DOMAIN s.regs = 1 .. n /\ new \in R
  BY PartsOfNamespace
<1>2. /\ regs \in Seq(R) /\ Len(regs) = n + 1
      /\ \A i \in 1 .. n : regs[i] = s.regs[i]
      /\ regs[n + 1] = new
  BY <1>1, AppendProperties
<1>3. u = [s EXCEPT !.regs = regs]
  BY DEF WithRegistrant
<1> HIDE DEF regs
<1>4. DOMAIN regs = 1 .. n + 1
  BY <1>2, LenProperties
<1>5. NamespaceType(u)
  BY <1>2, <1>3 DEF Fits, NamespaceType
<1>6. u.regs = regs /\ u.up = s.up /\ u.ptpl = s.ptpl /\ u.holder = s.holder /\ u.rtype = s.rtype /\ u.crkey = s.crkey
  BY <1>3 DEF Fits, NamespaceType
<1>7. RegHosts(u) = RegHosts(s) \cup {h}
  <2>1. \A i \in 1 .. n + 1 : i \in 1 .. n \/ i = n + 1
    BY <1>1
  <2>2. \A i \in 1 .. n : i \in 1 .. n + 1
    BY <1>1
  <2>3. n + 1 \in 1 .. n + 1 /\ new.host = h
    BY <1>1
  <2> QED BY <1>1, <1>2, <1>4, <1>6, <2>1, <2>2, <2>3 DEF RegHosts
<1>8. \A i, j \in 1 .. n + 1 : regs[i].host = regs[j].host => i = j
  <2> SUFFICES ASSUME NEW i \in 1 .. n + 1, NEW j \in 1 .. n + 1, regs[i].host = regs[j].host
               PROVE  i = j
    OBVIOUS
  <2>1. \A a \in 1 .. n : s.regs[a].host # h
    BY <1>1 DEF RegHosts
  <2>2. (i \in 1 .. n \/ i = n + 1) /\ (j \in 1 .. n \/ j = n + 1)
    BY <1>1
  <2>3. CASE i \in 1 .. n /\ j \in 1 .. n
    BY <1>1, <1>2, <2>3 DEF Fits, RegistrantsFit
  <2>4. CASE i \in 1 .. n /\ j = n + 1
    BY <1>2, <2>1, <2>4
  <2>5. CASE i = n + 1 /\ j \in 1 .. n
    BY <1>2, <2>1, <2>5
  <2> QED BY <2>2, <2>3, <2>4, <2>5
<1>9. RegistrantsFit(u)
  BY <1>4, <1>6, <1>7, <1>8 DEF Fits, RegistrantsFit
<1> QED BY <1>5, <1>6, <1>7, <1>9 DEF Fits

(* A registrant with another key. *)
LEMMA RegistrantRekeyed ==
    ASSUME NEW s, Fits(s), NEW h \in Hosts, NEW k \in ResKeys, NEW u, u = Rekeyed(s, h, k)
    PROVE  Fits(u) /\ u.up = s.up /\ u.ptpl = s.ptpl /\ RegHosts(u) = RegHosts(s)
<1> DEFINE R == [host : Hosts, key : ResKeys]
           n == Len(s.regs)
           regs == [i \in 1 .. n |-> IF s.regs[i].host = h THEN [s.regs[i] EXCEPT !.key = k] ELSE s.regs[i]]
<1>1. s.regs \in Seq(R) /\ n \in Nat /\ DOMAIN s.regs = 1 .. n
  BY PartsOfNamespace
<1>2. \A i \in 1 .. n : s.regs[i] \in R
  BY <1>1, ElementOfSeq
<1>3. \A i \in 1 .. n : regs[i] \in R /\ regs[i].host = s.regs[i].host
  BY <1>2
<1>4. u = [s EXCEPT !.regs = regs]
  BY <1>1 DEF Rekeyed
<1>5. regs \in Seq(R) /\ DOMAIN regs = 1 .. n
  <2>1. regs \in [1 .. n -> R]
    BY <1>3
  <2> QED BY <1>1, <2>1, SeqDef
<1> HIDE DEF regs
<1>6. NamespaceType(u)
  BY <1>4, <1>5 DEF Fits, NamespaceType
<1>7. u.regs = regs /\ u.up = s.up /\ u.ptpl = s.ptpl /\ u.holder = s.holder /\ u.rtype = s.rtype /\ u.crkey = s.crkey
  BY <1>4 DEF Fits, NamespaceType
<1>8. RegHosts(u) = RegHosts(s)
  BY <1>1, <1>3, <1>5, <1>7 DEF RegHosts
<1>9. RegistrantsFit(u)
  BY <1>1, <1>3, <1>5, <1>7, <1>8 DEF Fits, RegistrantsFit
<1> QED BY <1>6, <1>7, <1>8, <1>9 DEF Fits

(* The CPTPL field changes what persists, and nothing else. *)
LEMMA PersistenceChanges ==
    ASSUME NEW s, Fits(s), NEW c \in {"keep", "clear", "persist"}, NEW t, t = Persisting(s, c)
    PROVE  /\ Fits(t) /\ t.up = s.up /\ t.regs = s.regs /\ t.holder = s.holder
           /\ RegHosts(t) = RegHosts(s)
           /\ ~(t.ptpl # s.ptpl) => t = s
<1> DEFINE p == CASE c = "clear" -> FALSE [] c = "persist" -> TRUE [] c = "keep" -> s.ptpl
<1>1. t = [s EXCEPT !.ptpl = p]
  BY DEF Persisting
<1>2. p \in BOOLEAN
  BY DEF Fits, NamespaceType
<1> HIDE DEF p
<1>3. NamespaceType(t)
  BY <1>1, <1>2 DEF Fits, NamespaceType
<1>4. /\ t.up = s.up /\ t.regs = s.regs /\ t.holder = s.holder /\ t.rtype = s.rtype
      /\ t.crkey = s.crkey /\ t.ptpl = p
  BY <1>1 DEF Fits, NamespaceType
<1>5. RegHosts(t) = RegHosts(s)
  BY <1>4 DEF RegHosts
<1>6. RegistrantsFit(t)
  BY <1>4, <1>5 DEF Fits, RegistrantsFit
<1>7. ~(t.ptpl # s.ptpl) => t = s
  BY <1>3, <1>4 DEF Fits, NamespaceType
<1> QED BY <1>3, <1>4, <1>5, <1>6, <1>7 DEF Fits

(* Register commands. *)
LEMMA RegisterFits ==
    ASSUME NEW s, Fits(s), NEW h \in Hosts, NEW e \in RegisterEffects(s, h)
    PROVE  EffectFits(s, h, e)
<1> DEFINE Chosen(c) ==
        LET t == Persisting(s, c)
            changed == t.ptpl # s.ptpl
        IN  {RegisterKey(t, h, k, changed) : k \in AnyKey}
            \cup {Unregister(t, h, k, ie, changed) : k \in AnyKey, ie \in BOOLEAN}
            \cup {ReplaceKey(t, h, k, new, ie, changed) : k \in AnyKey, new \in AnyKey, ie \in BOOLEAN}
<1>0. PICK c \in {"keep", "clear", "persist"} : e \in Chosen(c)
  <2>1. RegisterEffects(s, h) = UNION {Chosen(c) : c \in {"keep", "clear", "persist"}}
    BY DEF RegisterEffects
  <2> HIDE DEF Chosen
  <2> QED BY <2>1
<1> DEFINE t == Persisting(s, c)
           changed == t.ptpl # s.ptpl
<1>1. \/ \E k \in AnyKey : e = RegisterKey(t, h, k, changed)
      \/ \E k \in AnyKey, ie \in BOOLEAN : e = Unregister(t, h, k, ie, changed)
      \/ \E k \in AnyKey, new \in AnyKey, ie \in BOOLEAN : e = ReplaceKey(t, h, k, new, ie, changed)
  <2>1. e \in {RegisterKey(t, h, k, changed) : k \in AnyKey}
              \cup {Unregister(t, h, k, ie, changed) : k \in AnyKey, ie \in BOOLEAN}
              \cup {ReplaceKey(t, h, k, new, ie, changed) : k \in AnyKey, new \in AnyKey, ie \in BOOLEAN}
    BY <1>0
  <2> HIDE DEF t, changed
  <2> QED BY <2>1
<1>2. /\ Fits(t) /\ t.up = s.up /\ t.regs = s.regs /\ t.holder = s.holder
      /\ RegHosts(t) = RegHosts(s)
      /\ ~changed => t = s
  BY PersistenceChanges
<1>3. PICK same : same = Effect(t, changed, {})
  OBVIOUS
<1>4. EffectFits(s, h, same)
  <2>1. TellsLosers(s, t, h, {})
    BY <1>2 DEF TellsLosers
  <2>2. changed \in BOOLEAN /\ {} \subseteq Hosts \X NoticeTypes
    OBVIOUS
  <2> HIDE DEF t, changed
  <2> QED BY <1>2, <1>3, <2>1, <2>2, MadeOfParts
<1>5. ASSUME NEW k \in ResKeys, h \notin RegHosts(t)
      PROVE  EffectFits(s, h, Effect(WithRegistrant(t, h, k), TRUE, {}))
  <2> DEFINE u == WithRegistrant(t, h, k)
  <2> HIDE DEF t
  <2>1. Fits(u) /\ u.up = t.up /\ RegHosts(u) = RegHosts(t) \cup {h}
    BY <1>2, <1>5, RegistrantComes
  <2> HIDE DEF u
  <2>2. TellsLosers(s, u, h, {})
    BY <1>2, <2>1 DEF TellsLosers
  <2>3. EffectFits(s, h, Effect(u, TRUE, {}))
    BY <1>2, <2>1, <2>2, MadeOfParts
  <2> QED BY <2>3 DEF u
<1>6. CASE \E k \in AnyKey : e = RegisterKey(t, h, k, changed)
  <2>1. PICK k \in AnyKey : e = RegisterKey(t, h, k, changed)
    BY <1>6
  <2> HIDE DEF t, changed
  <2>2. CASE h \notin RegHosts(t) /\ k # 0
    <3>1. k \in ResKeys BY <2>2 DEF AnyKey
    <3> QED BY <1>5, <2>1, <2>2, <3>1 DEF RegisterKey
  <2>3. CASE ~(h \notin RegHosts(t) /\ k # 0)
    BY <1>3, <1>4, <2>1, <2>3 DEF RegisterKey
  <2> QED BY <2>2, <2>3
<1>7. CASE \E k \in AnyKey, ie \in BOOLEAN : e = Unregister(t, h, k, ie, changed)
  <2>1. PICK k \in AnyKey, ie \in BOOLEAN : e = Unregister(t, h, k, ie, changed)
    BY <1>7
  <2> HIDE DEF t, changed
  <2>2. CASE h \in RegHosts(t) /\ (ie \/ HasKey(t, h, k))
    <3> DEFINE u == WithoutRegistrant(t, h)
               to == IF u.rtype = 0 /\ t.rtype \in RegistrantsOnly THEN Notices(Others(t, h), "released") ELSE {}
    <3>1. e = Effect(u, TRUE, to) BY <2>1, <2>2 DEF Unregister
    <3>2. Fits(u) /\ u.up = t.up /\ RegHosts(u) = RegHosts(t) \ {h}
      BY <1>2, <2>2, RegistrantLeaves
    <3>3. to \subseteq Hosts \X NoticeTypes
      BY <1>2, PartsOfNamespace DEF Notices, Others, NoticeTypes
    <3> HIDE DEF u, to
    <3>4. TellsLosers(s, u, h, to) BY <1>2, <3>2 DEF TellsLosers
    <3> QED BY <1>2, <3>1, <3>2, <3>3, <3>4, MadeOfParts
  <2>3. CASE ~(h \in RegHosts(t) /\ (ie \/ HasKey(t, h, k)))
    BY <1>3, <1>4, <2>1, <2>3 DEF Unregister
  <2> QED BY <2>2, <2>3
<1>8. CASE \E k \in AnyKey, new \in AnyKey, ie \in BOOLEAN : e = ReplaceKey(t, h, k, new, ie, changed)
  <2>1. PICK k \in AnyKey, new \in AnyKey, ie \in BOOLEAN : e = ReplaceKey(t, h, k, new, ie, changed)
    BY <1>8
  <2> HIDE DEF t, changed
  <2> DEFINE rekeys == new # 0 /\ h \in RegHosts(t) /\ (ie \/ HasKey(t, h, k)) /\ ~HasKey(t, h, new)
             comes == new # 0 /\ h \notin RegHosts(t) /\ ie
  <2>2. CASE rekeys
    <3> DEFINE u == Rekeyed(t, h, new)
    <3>1. e = Effect(u, TRUE, {}) BY <2>1, <2>2 DEF ReplaceKey
    <3>2. Fits(u) /\ u.up = t.up /\ RegHosts(u) = RegHosts(t)
      <4>1. new \in ResKeys BY <2>2 DEF AnyKey
      <4> QED BY <1>2, <4>1, RegistrantRekeyed
    <3> HIDE DEF u
    <3>3. TellsLosers(s, u, h, {}) BY <1>2, <3>2 DEF TellsLosers
    <3> QED BY <1>2, <3>1, <3>2, <3>3, MadeOfParts
  <2>3. CASE comes
    <3>1. new \in ResKeys BY <2>3 DEF AnyKey
    <3>2. e = Effect(WithRegistrant(t, h, new), TRUE, {}) BY <2>1, <2>3 DEF ReplaceKey
    <3> QED BY <1>5, <2>3, <3>1, <3>2
  <2>4. CASE ~rekeys /\ ~comes
    BY <1>3, <1>4, <2>1, <2>4 DEF ReplaceKey
  <2> QED BY <2>2, <2>3, <2>4
<1> QED BY <1>1, <1>6, <1>7, <1>8

(* What the effect of a command of a registrant leaves alone. *)
KeepsPersistence(s, e) == e.ns.ptpl = s.ptpl /\ (e.ns = s \/ s.regs # <<>>)

(* A reservation that a registrant takes. *)
Taken(s, h, k, type) == [s EXCEPT !.rtype = type, !.crkey = k, !.holder = h]

(* A namespace that is taken by a registrant fits. *)
LEMMA ReservationTaken ==
    ASSUME NEW s, Fits(s), NEW h \in RegHosts(s), NEW k \in AnyKey, NEW type \in ResTypes,
           NEW u, u = Taken(s, h, k, type)
    PROVE  /\ Fits(u) /\ u.up = s.up /\ u.ptpl = s.ptpl /\ RegHosts(u) = RegHosts(s)
<1>1. h \in Hosts /\ type \in 0 .. 6 /\ h # NoHost
  BY PartsOfNamespace, ResTypesAssumption, HostsAssumption
<1>2. u = [up |-> s.up, regs |-> s.regs, holder |-> h, rtype |-> type, crkey |-> k, ptpl |-> s.ptpl]
  BY DEF Fits, NamespaceType, Taken
<1>3. s.up \in BOOLEAN /\ s.ptpl \in BOOLEAN /\ s.regs \in Seq([host : Hosts, key : ResKeys])
  BY DEF Fits, NamespaceType
<1>4. NamespaceType(u)
  BY <1>1, <1>2, <1>3 DEF NamespaceType
<1>5. /\ u.up = s.up /\ u.ptpl = s.ptpl /\ u.regs = s.regs
      /\ u.holder = h
  BY <1>2
<1>6. RegHosts(u) = RegHosts(s)
  BY <1>5 DEF RegHosts
<1>7. RegistrantsFit(u)
  BY <1>1, <1>5, <1>6 DEF Fits, RegistrantsFit
<1> QED BY <1>4, <1>5, <1>6, <1>7 DEF Fits

(* A reservation that is released. *)
LEMMA ReservationReleased ==
    ASSUME NEW s, Fits(s), NEW u, u = Released(s)
    PROVE  /\ Fits(u) /\ u.up = s.up /\ u.ptpl = s.ptpl /\ RegHosts(u) = RegHosts(s)
<1>2. u = [up |-> s.up, regs |-> s.regs, holder |-> NoHost, rtype |-> 0, crkey |-> 0, ptpl |-> s.ptpl]
  BY DEF Fits, NamespaceType, Released
<1>3. s.up \in BOOLEAN /\ s.ptpl \in BOOLEAN /\ s.regs \in Seq([host : Hosts, key : ResKeys])
  BY DEF Fits, NamespaceType
<1>4. NamespaceType(u)
  BY <1>2, <1>3 DEF NamespaceType, AnyKey
<1>5. /\ u.up = s.up /\ u.ptpl = s.ptpl /\ u.regs = s.regs
      /\ u.holder = NoHost /\ u.rtype = 0 /\ u.crkey = 0
  BY <1>2
<1>6. RegHosts(u) = RegHosts(s)
  BY <1>5 DEF RegHosts
<1>7. RegistrantsFit(u)
  BY <1>5 DEF Fits, RegistrantsFit
<1> QED BY <1>4, <1>5, <1>6, <1>7 DEF Fits

(* A reservation that changes its type, not its holder. *)
LEMMA ReservationRetyped ==
    ASSUME NEW s, Fits(s), s.holder # NoHost, NEW type \in ResTypes, NEW u, u = [s EXCEPT !.rtype = type]
    PROVE  /\ Fits(u) /\ u.up = s.up /\ u.ptpl = s.ptpl /\ RegHosts(u) = RegHosts(s)
<1>1. type \in 0 .. 6
  BY ResTypesAssumption
<1>2. NamespaceType(u)
  BY <1>1 DEF Fits, NamespaceType
<1>3. /\ u.up = s.up /\ u.ptpl = s.ptpl /\ u.regs = s.regs
      /\ u.holder = s.holder /\ u.crkey = s.crkey
  BY DEF Fits, NamespaceType
<1>4. RegHosts(u) = RegHosts(s)
  BY <1>3 DEF RegHosts
<1>5. RegistrantsFit(u)
  BY <1>3, <1>4 DEF Fits, RegistrantsFit
<1> QED BY <1>2, <1>3, <1>4, <1>5 DEF Fits

(* The notices of a preempt command reach the losers. *)
LEMMA PreemptTells ==
    ASSUME NEW s, Fits(s), NEW u, Fits(u), NEW h, NEW passed \in BOOLEAN, NEW to,
           to = PreemptNotices(s, u, h, passed)
    PROVE  to \subseteq Hosts \X NoticeTypes /\ TellsLosers(s, u, h, to)
<1>1. RegHosts(s) \subseteq Hosts /\ RegHosts(u) \subseteq Hosts
  BY PartsOfNamespace
<1>2. to \subseteq Hosts \X NoticeTypes
  BY <1>1 DEF PreemptNotices, Notices, Others, NoticeTypes
<1>3. ASSUME NEW x \in RegHosts(s) \ (RegHosts(u) \cup {h}) PROVE <<x, "preempted">> \in to
  BY <1>3 DEF PreemptNotices, Notices, Others
<1> QED BY <1>2, <1>3 DEF TellsLosers

(* Preempt commands. *)
LEMMA PreemptFits ==
    ASSUME NEW s, Fits(s), NEW h \in RegHosts(s), NEW k \in AnyKey, NEW pk \in AnyKey, NEW type \in ResTypes,
           NEW e, e = Preempt(s, h, k, pk, type), s.regs # <<>>
    PROVE  EffectFits(s, h, e) /\ KeepsPersistence(s, e)
<1> DEFINE keyed == WithoutRegistrants(s, Keyed(s, pk))
           rest == WithoutRegistrant(s, s.holder)
           taken == [rest EXCEPT !.rtype = type, !.crkey = k, !.holder = h]
           retyped == [s EXCEPT !.rtype = type]
           alone == WithoutRegistrants(s, Others(s, h))
           sole == s.holder # NoHost /\ ~ForAllRegs(s) /\ s.crkey = pk
           allOthers == s.holder # NoHost /\ ForAllRegs(s) /\ pk = 0
           byKey == s.holder # NoHost /\ pk # 0 /\ (IF ForAllRegs(s) THEN Keyed(s, pk) # {} ELSE s.crkey # pk)
<1>1. e = CASE s.holder = NoHost -> Effect(keyed, TRUE, {})
            [] sole /\ s.holder = h -> Effect(retyped, TRUE, PreemptNotices(s, retyped, h, TRUE))
            [] sole /\ s.holder # h ->
                [Effect(taken, TRUE, PreemptNotices(s, taken, h, TRUE)) EXCEPT !.sane = rest.holder = NoHost]
            [] allOthers ->
                [Effect(alone, TRUE, PreemptNotices(s, alone, h, FALSE)) EXCEPT !.sane = alone.holder = h]
            [] byKey -> Effect(keyed, TRUE, PreemptNotices(s, keyed, h, FALSE))
            [] OTHER -> Effect(s, FALSE, {})
  BY Zenon DEF Preempt
<1>2. s.holder # NoHost => s.holder \in RegHosts(s)
  BY DEF Fits, RegistrantsFit
<1>3. LeftOf(keyed, s, Keyed(s, pk)) /\ LeftOf(alone, s, Others(s, h))
  BY RegistrantsLeave
<1> HIDE DEF keyed, alone
<1>4. CASE s.holder = NoHost
  <2>1. e = Effect(keyed, TRUE, {})
    BY <1>1, <1>4
  <2>2. TellsLosers(s, keyed, h, {})
    BY <1>4 DEF TellsLosers
  <2>3. EffectFits(s, h, e)
    BY <1>3, <2>1, <2>2, MadeOfParts DEF LeftOf
  <2> QED BY <1>3, <2>1, <2>3 DEF LeftOf, KeepsPersistence, Effect
<1>5. CASE sole /\ s.holder = h
  <2>1. e = Effect(retyped, TRUE, PreemptNotices(s, retyped, h, TRUE))
    BY <1>1, <1>5
  <2>2. Fits(retyped) /\ retyped.up = s.up /\ retyped.ptpl = s.ptpl
    BY <1>5, ReservationRetyped
  <2> HIDE DEF retyped
  <2>3. EffectFits(s, h, e)
    BY <2>1, <2>2, PreemptTells, MadeOfParts
  <2> QED BY <2>1, <2>2, <2>3 DEF KeepsPersistence, Effect
<1>6. CASE sole /\ s.holder # h
  <2>1. e = [Effect(taken, TRUE, PreemptNotices(s, taken, h, TRUE)) EXCEPT !.sane = rest.holder = NoHost]
    BY <1>1, <1>6
  <2>2. /\ Fits(rest) /\ rest.up = s.up /\ rest.ptpl = s.ptpl
        /\ RegHosts(rest) = RegHosts(s) \ {s.holder}
        /\ rest.holder = NoHost
    BY <1>2, <1>6, RegistrantLeaves
  <2>6. taken = Taken(rest, h, k, type)
    BY DEF Taken
  <2>7. h \in RegHosts(rest)
    BY <1>6, <2>2
  <2> HIDE DEF rest, taken
  <2>3. Fits(taken) /\ taken.up = rest.up /\ taken.ptpl = rest.ptpl
    BY <2>2, <2>6, <2>7, ReservationTaken
  <2>4. e = Effect(taken, TRUE, PreemptNotices(s, taken, h, TRUE))
    BY <2>1, <2>2 DEF Effect
  <2>5. EffectFits(s, h, e)
    BY <2>2, <2>3, <2>4, PreemptTells, MadeOfParts
  <2> QED BY <2>2, <2>3, <2>4, <2>5 DEF KeepsPersistence, Effect
<1>7. CASE allOthers
  <2>1. e = [Effect(alone, TRUE, PreemptNotices(s, alone, h, FALSE)) EXCEPT !.sane = alone.holder = h]
    BY <1>1, <1>7
  <2>2. RegHosts(alone) = {h}
    BY <1>3 DEF LeftOf, Others
  <2>3. alone.holder = h
    BY <1>3, <1>7, <2>2 DEF LeftOf, Fits, RegistrantsFit
  <2>4. e = Effect(alone, TRUE, PreemptNotices(s, alone, h, FALSE))
    BY <2>1, <2>3 DEF Effect
  <2>5. EffectFits(s, h, e)
    BY <1>3, <2>4, PreemptTells, MadeOfParts DEF LeftOf
  <2> QED BY <1>3, <2>4, <2>5 DEF LeftOf, KeepsPersistence, Effect
<1>8. CASE byKey /\ ~sole
  <2>1. e = Effect(keyed, TRUE, PreemptNotices(s, keyed, h, FALSE))
    BY <1>1, <1>8
  <2>2. EffectFits(s, h, e)
    BY <1>3, <2>1, PreemptTells, MadeOfParts DEF LeftOf
  <2> QED BY <1>3, <2>1, <2>2 DEF LeftOf, KeepsPersistence, Effect
<1>9. CASE s.holder # NoHost /\ ~sole /\ ~allOthers /\ ~byKey
  <2>1. e = Effect(s, FALSE, {})
    BY <1>1, <1>9
  <2>2. TellsLosers(s, s, h, {})
    BY DEF TellsLosers
  <2>3. EffectFits(s, h, e)
    BY <2>1, <2>2, MadeOfParts
  <2> QED BY <2>1, <2>3 DEF KeepsPersistence, Effect
<1> QED BY <1>4, <1>5, <1>6, <1>7, <1>8, <1>9

(* The commands of registrants. *)
LEMMA HolderFits ==
    ASSUME NEW s, Fits(s), NEW h \in Hosts, NEW kind, NEW e \in HolderEffects(s, h, kind)
    PROVE  EffectFits(s, h, e) /\ KeepsPersistence(s, e)
<1> DEFINE Chosen(k) ==
        IF kind = "acquire" THEN {Acquire(s, h, k, type) : type \in ResTypes}
        ELSE {Preempt(s, h, k, pk, type) : pk \in AnyKey, type \in ResTypes}
             \cup {Release(s, h, type) : type \in ResTypes} \cup {Clear(s, h)}
<1>1. \/ \E update \in BOOLEAN : e = Effect(s, update, {})
      \/ \E k \in AnyKey : HasKey(s, h, k) /\ e \in Chosen(k)
  <2>1. HolderEffects(s, h, kind) = {Effect(s, update, {}) : update \in BOOLEAN}
                                    \cup UNION {Chosen(k) : k \in {key \in AnyKey : HasKey(s, h, key)}}
    BY DEF HolderEffects
  <2> HIDE DEF Chosen
  <2> QED BY <2>1
<1>2. ASSUME NEW update \in BOOLEAN, e = Effect(s, update, {})
      PROVE  EffectFits(s, h, e) /\ KeepsPersistence(s, e)
  <2>1. TellsLosers(s, s, h, {})
    BY DEF TellsLosers
  <2>2. EffectFits(s, h, e)
    BY <1>2, <2>1, MadeOfParts
  <2> QED BY <1>2, <2>2 DEF KeepsPersistence, Effect
<1>3. ASSUME NEW k \in AnyKey, HasKey(s, h, k), e \in Chosen(k)
      PROVE  EffectFits(s, h, e) /\ KeepsPersistence(s, e)
  <2>1. h \in RegHosts(s) /\ s.regs # <<>> /\ RegHosts(s) \subseteq Hosts
    BY <1>3, PartsOfNamespace
  <2>2. ASSUME NEW type \in ResTypes, e = Acquire(s, h, k, type)
        PROVE  EffectFits(s, h, e) /\ KeepsPersistence(s, e)
    <3>1. CASE s.holder = NoHost
      <4> DEFINE u == [s EXCEPT !.rtype = type, !.crkey = k, !.holder = h]
      <4>1. e = Effect(u, TRUE, {}) BY <2>2, <3>1 DEF Acquire
      <4>5. u = Taken(s, h, k, type) BY DEF Taken
      <4>3. TellsLosers(s, u, h, {}) BY <3>1 DEF TellsLosers
      <4> HIDE DEF u
      <4>2. Fits(u) /\ u.up = s.up /\ u.ptpl = s.ptpl BY <2>1, <4>5, ReservationTaken
      <4>4. EffectFits(s, h, e) BY <4>1, <4>2, <4>3, MadeOfParts
      <4> QED BY <2>1, <4>1, <4>2, <4>4 DEF KeepsPersistence, Effect
    <3>2. CASE s.holder # NoHost
      BY <1>2, <2>2, <3>2 DEF Acquire
    <3> QED BY <3>1, <3>2
  <2>3. ASSUME NEW pk \in AnyKey, NEW type \in ResTypes, e = Preempt(s, h, k, pk, type)
        PROVE  EffectFits(s, h, e) /\ KeepsPersistence(s, e)
    BY <2>1, <2>3, PreemptFits
  <2>4. ASSUME NEW type \in ResTypes, e = Release(s, h, type)
        PROVE  EffectFits(s, h, e) /\ KeepsPersistence(s, e)
    <3> DEFINE u == Released(s)
               to == IF type \in ExclusiveTypes THEN {} ELSE Notices(Others(s, h), "released")
    <3>1. CASE s.holder # NoHost /\ s.rtype = type /\ IsHolder(s, h)
      <4>1. e = Effect(u, TRUE, to) BY <2>4, <3>1 DEF Release
      <4>2. Fits(u) /\ u.up = s.up /\ u.ptpl = s.ptpl /\ RegHosts(u) = RegHosts(s)
        BY ReservationReleased
      <4>3. to \subseteq Hosts \X NoticeTypes BY <2>1 DEF Notices, Others, NoticeTypes
      <4> HIDE DEF u, to
      <4>4. TellsLosers(s, u, h, to) BY <4>2 DEF TellsLosers
      <4>5. EffectFits(s, h, e) BY <4>1, <4>2, <4>3, <4>4, MadeOfParts
      <4> QED BY <2>1, <4>1, <4>2, <4>5 DEF KeepsPersistence, Effect
    <3>2. CASE ~(s.holder # NoHost /\ s.rtype = type /\ IsHolder(s, h))
      <4>1. e = Effect(s, FALSE, {}) BY <2>4, <3>2 DEF Release
      <4> QED BY <1>2, <4>1
    <3> QED BY <3>1, <3>2
  <2>5. ASSUME e = Clear(s, h)
        PROVE  EffectFits(s, h, e) /\ KeepsPersistence(s, e)
    <3> DEFINE u == WithoutRegistrants(s, RegHosts(s))
               to == Notices(Others(s, h), "reservation preempted")
    <3>1. e = Effect(u, TRUE, to) BY <2>5 DEF Clear
    <3>2. LeftOf(u, s, RegHosts(s)) BY RegistrantsLeave
    <3> HIDE DEF u
    <3>3. to \subseteq Hosts \X NoticeTypes BY <2>1 DEF Notices, Others, NoticeTypes
    <3>4. TellsLosers(s, u, h, to) BY DEF TellsLosers, Notices, Others
    <3> HIDE DEF to
    <3>5. EffectFits(s, h, e) BY <3>1, <3>2, <3>3, <3>4, MadeOfParts DEF LeftOf
    <3> QED BY <2>1, <3>1, <3>2, <3>5 DEF LeftOf, KeepsPersistence, Effect
  <2>6. \/ \E type \in ResTypes : e = Acquire(s, h, k, type)
        \/ \E pk \in AnyKey, type \in ResTypes : e = Preempt(s, h, k, pk, type)
        \/ \E type \in ResTypes : e = Release(s, h, type)
        \/ e = Clear(s, h)
    BY <1>3
  <2> QED BY <2>2, <2>3, <2>4, <2>5, <2>6
<1> QED BY <1>1, <1>2, <1>3

-------------------------------------------------------------------------------
(* The file *)

(* A namespace without registrants fits. *)
LEMMA FreshFits ==
    Fits(FreshNs) /\ Fits([FreshNs EXCEPT !.up = FALSE])
<1> DEFINE R == [host : Hosts, key : ResKeys]
<1>1. <<>> \in Seq(R) /\ DOMAIN (<<>>) = {}
  BY EmptySeq
<1>2. ASSUME NEW up \in BOOLEAN, NEW s,
             s = [up |-> up, regs |-> <<>>, holder |-> NoHost, rtype |-> 0, crkey |-> 0, ptpl |-> FALSE]
      PROVE  Fits(s)
  <2>1. /\ s.up = up /\ s.regs = <<>> /\ s.holder = NoHost /\ s.rtype = 0 /\ s.crkey = 0
        /\ s.ptpl = FALSE
    BY <1>2
  <2>2. NamespaceType(s)
    <3>1. 0 \in AnyKey /\ 0 \in 0 .. 6 BY DEF AnyKey
    <3> HIDE DEF R
    <3> QED BY <1>1, <1>2, <3>1 DEF NamespaceType, R
  <2>3. RegistrantsFit(s)
    BY <1>1, <2>1 DEF RegistrantsFit
  <2> QED BY <2>2, <2>3 DEF Fits
<1>3. [FreshNs EXCEPT !.up = FALSE] =
        [up |-> FALSE, regs |-> <<>>, holder |-> NoHost, rtype |-> 0, crkey |-> 0, ptpl |-> FALSE]
  <2>1. \A list, a, b, c :
            [[up |-> a, regs |-> list, holder |-> NoHost, rtype |-> 0, crkey |-> 0, ptpl |-> c] EXCEPT !.up = b]
                = [up |-> b, regs |-> list, holder |-> NoHost, rtype |-> 0, crkey |-> 0, ptpl |-> c]
    OBVIOUS
  <2> QED BY <2>1, Zenon DEF FreshNs
<1> QED BY <1>2, <1>3 DEF FreshNs

(* The file of a namespace that fits, and what is restored from it. *)
LEMMA ImageFits ==
    ASSUME NEW s, Fits(s), NEW f, f = Image(s)
    PROVE  /\ FitFile(f)
           /\ ~s.ptpl \/ s.regs = <<>> => Restorable(f) /\ Restored(f) = FreshNs
           /\ s.ptpl /\ s.regs # <<>> =>
                /\ Restorable(f) <=> s.rtype # 0 /\ s.crkey \in RegKeys(s)
                /\ Restored(f).regs = s.regs /\ Restored(f).rtype = s.rtype
                /\ s.rtype # 0 => /\ Restored(f).crkey = s.crkey
                                  /\ \A h \in Hosts : IsHolder(Restored(f), h) <=> IsHolder(s, h)
<1> DEFINE R == [host : Hosts, key : ResKeys]
<1>0. /\ s.regs \in Seq(R) /\ DOMAIN s.regs = 1 .. Len(s.regs) /\ Len(s.regs) \in Nat
      /\ RegHosts(s) \subseteq Hosts
  BY PartsOfNamespace
<1>1. /\ s.ptpl \in BOOLEAN /\ s.rtype \in 0 .. 6 /\ s.crkey \in AnyKey
      /\ s.holder \in Hosts \cup {NoHost} /\ s.up \in BOOLEAN
  BY DEF Fits, NamespaceType
<1>2. /\ \A i, j \in DOMAIN s.regs : s.regs[i].host = s.regs[j].host => i = j
      /\ s.holder # NoHost => s.holder \in RegHosts(s)
      /\ s.rtype # 0 => s.holder # NoHost
      /\ s.holder = NoHost => s.crkey = 0
  BY DEF Fits, RegistrantsFit
<1>3. <<>> \in Seq(R) /\ DOMAIN (<<>>) = {}
  BY EmptySeq
<1>4. Fits(FreshNs)
  BY FreshFits
<1>5. Image(FreshNs) = NoFile
  BY DEF Image, FreshNs
<1>6. CASE ~s.ptpl
  <2>1. f = NoFile
    BY <1>6 DEF Image
  <2>2. Restored(f) = FreshNs /\ Restorable(f)
    BY <2>1 DEF Restored, Restorable, NoFile
  <2> QED BY <1>4, <1>5, <1>6, <2>1, <2>2 DEF FitFile, Fits
<1>7. CASE s.ptpl /\ s.regs = <<>>
  <2>1. RegHosts(s) = {}
    BY <1>3, <1>7 DEF RegHosts
  <2>2. s.holder = NoHost /\ s.rtype = 0 /\ s.crkey = 0
    BY <1>2, <2>1
  <2>3. f = [NoFile EXCEPT !.ptpl = TRUE]
    <3>1. f = [ptpl |-> TRUE, regs |-> s.regs, rtype |-> s.rtype, crkey |-> 0, holder |-> NoHost]
      BY <1>7, <2>2 DEF Image
    <3>2. [NoFile EXCEPT !.ptpl = TRUE] = [ptpl |-> TRUE, rtype |-> 0, crkey |-> 0, holder |-> NoHost,
                                           regs |-> <<>>]
      <4>1. \A list, a, b :
                [[ptpl |-> a, rtype |-> 0, crkey |-> 0, holder |-> NoHost, regs |-> list] EXCEPT !.ptpl = b]
                    = [ptpl |-> b, rtype |-> 0, crkey |-> 0, holder |-> NoHost, regs |-> list]
        OBVIOUS
      <4> QED BY <4>1, Zenon DEF NoFile
    <3> QED BY <1>7, <2>2, <3>1, <3>2
  <2>4. Restored(f) = FreshNs /\ Restorable(f)
    BY <2>3 DEF Restored, Restorable, NoFile
  <2> QED BY <1>4, <1>7, <2>3, <2>4 DEF FitFile, Fits
<1>8. CASE s.ptpl /\ s.regs # <<>>
  <2> DEFINE key == IF s.rtype = 0 THEN 0 ELSE s.crkey
             saved == IF s.rtype = 0 \/ ForAllRegs(s) THEN NoHost ELSE s.holder
             holder == IF ForAllRegs(s) THEN s.regs[1].host ELSE saved
             t == Restored(f)
  <2>1. f = [ptpl |-> TRUE, regs |-> s.regs, rtype |-> s.rtype, crkey |-> key, holder |-> saved]
    BY <1>8 DEF Image
  <2>2. t = [up |-> TRUE, regs |-> s.regs, rtype |-> s.rtype, crkey |-> key, ptpl |-> TRUE,
             holder |-> holder]
    BY <1>8, <2>1 DEF Restored, ForAllRegs
  <2>3. 1 \in DOMAIN s.regs /\ s.regs[1] \in R /\ s.regs[1].host \in RegHosts(s)
    <3>1. 1 \in 1 .. Len(s.regs) BY <1>0, <1>8, EmptySeq, LenProperties
    <3> QED BY <1>0, <3>1, ElementOfSeq DEF RegHosts
  <2>4. ForAllRegs(s) => s.rtype # 0
    BY DEF ForAllRegs, AllRegistrants
  <2>5. holder \in Hosts \cup {NoHost} /\ key \in AnyKey /\ NoHost \notin Hosts
        /\ (s.rtype # 0 => holder \in RegHosts(s)) /\ (s.rtype = 0 => holder = NoHost)
    BY <1>0, <1>1, <1>2, <2>3, <2>4, HostsAssumption DEF AnyKey
  <2>6. \A h \in Hosts : s.rtype # 0 /\ h \in RegHosts(s) => (ForAllRegs(s) \/ holder = h <=> ForAllRegs(s) \/ s.holder = h)
    BY <2>4
  <2>7. Restorable(f) <=> s.rtype # 0 /\ s.crkey \in RegKeys(s)
    <3>1. RegKeys(s) \subseteq ResKeys
      <4>1. \A i \in DOMAIN s.regs : s.regs[i] \in R BY <1>0, ElementOfSeq
      <4> QED BY <4>1 DEF RegKeys
    <3>2. Restorable(f) <=> key \in RegKeys(s) BY <1>8, <2>1 DEF Restorable, RegKeys
    <3> QED BY <3>1, <3>2, ResKeysAssumption
  <2> HIDE DEF holder, t
  <2>8. RegHosts(t) = RegHosts(s)
    BY <2>2 DEF RegHosts
  <2>9. NamespaceType(t)
    BY <1>0, <1>1, <2>2, <2>5 DEF NamespaceType
  <2>10. RegistrantsFit(t)
    <3>1. s.rtype # 0 => holder # NoHost BY <1>0, <2>5
    <3> QED BY <1>2, <2>2, <2>5, <2>8, <3>1 DEF RegistrantsFit
  <2>11. Image(t) = f
    BY <1>8, <2>1, <2>2, <2>4 DEF Image, ForAllRegs, holder
  <2>12. \A h \in Hosts : s.rtype # 0 => (IsHolder(t, h) <=> IsHolder(s, h))
    BY <2>2, <2>6, <2>8 DEF IsHolder, ForAllRegs
  <2>13. FitFile(f)
    BY <2>9, <2>10, <2>11 DEF FitFile, t
  <2>14. t.regs = s.regs /\ t.rtype = s.rtype /\ (s.rtype # 0 => t.crkey = s.crkey)
    BY <2>2
  <2> QED BY <1>8, <2>7, <2>12, <2>13, <2>14 DEF t
<1> QED BY <1>1, <1>6, <1>7, <1>8

(* Nothing is found in no file, nor in one without registrants. *)
LEMMA EmptyFiles ==
    /\ FitFile(NoFile) /\ Restorable(NoFile) /\ Restored(NoFile) = FreshNs
    /\ Restorable([NoFile EXCEPT !.ptpl = TRUE]) /\ Restored([NoFile EXCEPT !.ptpl = TRUE]) = FreshNs
    /\ Fits(FreshNs) /\ Fits([FreshNs EXCEPT !.up = FALSE]) /\ Image(FreshNs) = NoFile
<1>1. \A R : <<>> \in Seq(R) /\ DOMAIN (<<>>) = {}
  BY EmptySeq
<1>2. Fits(FreshNs) /\ Fits([FreshNs EXCEPT !.up = FALSE])
  BY FreshFits
<1>4. /\ Restorable(NoFile) /\ Restored(NoFile) = FreshNs
      /\ Restorable([NoFile EXCEPT !.ptpl = TRUE]) /\ Restored([NoFile EXCEPT !.ptpl = TRUE]) = FreshNs
  BY DEF Restorable, Restored, NoFile
<1>5. Image(FreshNs) = NoFile
  BY DEF Image, FreshNs
<1> QED BY <1>2, <1>4, <1>5 DEF FitFile, Fits

-------------------------------------------------------------------------------
(* The inductive invariant *)

CopyType == [rtype : 0 .. 6, holder : Hosts \cup {NoHost}, regs : SUBSET Hosts]
RequestTypeOf == [at : {"idle", "sent", "walking"}, kind : CommandKinds, pos : Copies]
ReservationSeen == [unsaved : BOOLEAN, lost : BOOLEAN, torn : BOOLEAN, crashed : BOOLEAN,
             restarts : Nat, commands : Nat]

ReservationTypes ==
    /\ resCopy \in [Copies -> CopyType]
    /\ resReq \in [Clients -> RequestTypeOf]
    /\ resTold \in [by : Hosts \cup {NoHost}, to : SUBSET (Hosts \X NoticeTypes)]
    /\ resSeen \in ReservationSeen

(* A copy is that of the reservation; the holder does not matter where
   there is no reservation. *)
Agrees(c, s) ==
    /\ c.rtype = s.rtype /\ c.regs = RegHosts(s)
    /\ s.rtype # 0 => c.holder = s.holder

(* A walk has still to come to the copy. *)
Behind(g) == \E h \in Clients : resReq[h].at = "walking" /\ resReq[h].pos <= g

CopiesInv ==
    /\ \A h \in Clients : resReq[h].at # "walking" => resReq[h].pos = 1
    /\ resNs.up /\ ~resSeen.lost => \A g \in Copies : Behind(g) \/ Agrees(resCopy[g], resNs)

(* What the file holds of the reservation, unless a write was left out or
   failed.  A file without registrants stays until there are any. *)
FileIsCurrent(s, f) ==
    f = Image(s) \/ (s = FreshNs /\ f = [NoFile EXCEPT !.ptpl = TRUE])

FileInv ==
    /\ FitFile(resFile)
    /\ resNs.up /\ ~resSeen.unsaved => FileIsCurrent(resNs, resFile)

CrashInv == resSeen.crashed => Len(resNs.regs) > MaxRegistrants

ReservationInv == Fits(resNs) /\ ReservationTypes /\ CopiesInv /\ FileInv /\ CrashInv

(* A renewed copy agrees with the reservation. *)
LEMMA RenewedAgrees ==
    ASSUME NEW s, Fits(s), NEW old \in CopyType
    PROVE  CopyOf(s, old) \in CopyType /\ Agrees(CopyOf(s, old), s)
<1>1. s.rtype \in 0 .. 6 /\ s.holder \in Hosts \cup {NoHost} /\ RegHosts(s) \subseteq Hosts
  BY PartsOfNamespace DEF Fits, NamespaceType
<1>2. s.rtype # 0 => s.holder # NoHost
  BY DEF Fits, RegistrantsFit
<1> QED BY <1>1, <1>2 DEF CopyOf, CopyType, Agrees

(* No copy is one. *)
LEMMA NoCopyTyped == NoCopy \in CopyType
  BY DEF NoCopy, CopyType

(* What is restored from a file that fits: the namespace of the file, or
   one that cannot be used. *)
LEMMA RestoredFits ==
    ASSUME NEW f, FitFile(f), Restorable(f)
    PROVE  Fits(Restored(f)) /\ FileIsCurrent(Restored(f), f)
<1>1. CASE f = Image(Restored(f))
  BY <1>1 DEF FitFile, Fits, FileIsCurrent
<1>2. CASE f = [NoFile EXCEPT !.ptpl = TRUE]
  BY <1>2, EmptyFiles DEF FitFile, Fits, FileIsCurrent
<1> QED BY <1>1, <1>2 DEF FitFile

(* A namespace is added with what its file holds. *)
LEMMA InitReservation == ReservationInit => ReservationInv
<1> SUFFICES ASSUME ReservationInit PROVE ReservationInv
  OBVIOUS
<1>1. FitFile(resFile) /\ Restorable(resFile) /\ resNs = Restored(resFile)
  BY SavedFilesAssumption DEF ReservationInit
<1>2. Fits(resNs) /\ FileIsCurrent(resNs, resFile)
  BY <1>1, RestoredFits
<1>3. resCopy = [g \in Copies |-> CopyOf(resNs, NoCopy)] /\ resReq = [h \in Clients |-> NoCommand]
  BY DEF ReservationInit
<1>4. CopyOf(resNs, NoCopy) \in CopyType /\ Agrees(CopyOf(resNs, NoCopy), resNs)
  BY <1>2, NoCopyTyped, RenewedAgrees
<1>5. NoCommand \in RequestTypeOf
  BY HomeAssumption DEF NoCommand, RequestTypeOf, CommandKinds, Copies
<1>6. resSeen \in ReservationSeen /\ resSeen.crashed = FALSE
  BY DEF ReservationInit, ReservationSeen
<1>7. resTold \in [by : Hosts \cup {NoHost}, to : SUBSET (Hosts \X NoticeTypes)]
  BY DEF ReservationInit, NoNotices
<1>8. ReservationTypes
  BY <1>3, <1>4, <1>5, <1>6, <1>7 DEF ReservationTypes
<1>9. CopiesInv
  BY <1>3, <1>4 DEF CopiesInv, NoCommand
<1> QED BY <1>1, <1>2, <1>6, <1>8, <1>9 DEF ReservationInv, FileInv, CrashInv

(* A command that is sent has no walk yet. *)
LEMMA KeptBySubmit ==
    ASSUME ReservationInv, NEW h \in Clients, NEW kind \in CommandKinds, SubmitCommand(h, kind)
    PROVE  ReservationInv'
<1> DEFINE new == [at |-> "sent", kind |-> kind, pos |-> 1]
           noted == [resSeen EXCEPT !.commands = @ + 1]
<1>1. /\ resReq' = [resReq EXCEPT ![h] = new] /\ resReq[h].at = "idle"
      /\ resTold' = NoNotices /\ resSeen' = noted
      /\ UNCHANGED <<resNs, resCopy, resFile>>
  BY DEF SubmitCommand
<1>2. ReservationTypes /\ CopiesInv /\ FileInv /\ CrashInv /\ Fits(resNs)
  BY DEF ReservationInv
<1>3. noted \in ReservationSeen /\ noted.lost = resSeen.lost /\ noted.crashed = resSeen.crashed
      /\ noted.unsaved = resSeen.unsaved
  BY <1>2 DEF ReservationTypes, ReservationSeen
<1>4. new \in RequestTypeOf /\ new.at = "sent" /\ new.pos = 1
  <2>1. 1 \in Copies
    BY HomeAssumption DEF Copies
  <2> QED BY <2>1 DEF RequestTypeOf
<1> HIDE DEF new, noted
<1>5. ReservationTypes'
  <2>1. resTold' \in [by : Hosts \cup {NoHost}, to : SUBSET (Hosts \X NoticeTypes)]
    BY <1>1 DEF NoNotices
  <2>2. resReq' \in [Clients -> RequestTypeOf]
    BY <1>1, <1>2, <1>4 DEF ReservationTypes
  <2> QED BY <1>1, <1>2, <1>3, <2>1, <2>2 DEF ReservationTypes
<1>6. \A x \in Clients : resReq'[x] = IF x = h THEN new ELSE resReq[x]
  BY <1>1, <1>2 DEF ReservationTypes
<1>7. CopiesInv'
  <2>1. ASSUME NEW x \in Clients PROVE resReq'[x].at # "walking" => resReq'[x].pos = 1
    BY <1>2, <1>4, <1>6 DEF CopiesInv
  <2>2. ASSUME NEW g \in Copies, Behind(g) PROVE Behind(g)'
    BY <1>1, <1>6, <2>2 DEF Behind
  <2> QED BY <1>1, <1>2, <1>3, <2>1, <2>2 DEF CopiesInv
<1> QED BY <1>1, <1>2, <1>3, <1>5, <1>7 DEF ReservationInv, FileInv, CrashInv

(* The effect of a command that is handled. *)
LEMMA HandledFits ==
    ASSUME NEW s, Fits(s), NEW h \in Hosts, NEW kind \in CommandKinds, NEW e \in Effects(s, h, kind)
    PROVE  EffectFits(s, h, e) /\ (kind # "register" => KeepsPersistence(s, e))
<1>1. CASE kind = "register"
  BY <1>1, RegisterFits DEF Effects
<1>2. CASE kind # "register"
  BY <1>2, HolderFits DEF Effects
<1> QED BY <1>1, <1>2

(* A handled command leaves a namespace that fits, the file as it is to
   be or the mark that it is not, and a walk ahead of all copies. *)
LEMMA KeptByHandle ==
    ASSUME ReservationInv, NEW h \in Clients, HandleCommand(h)
    PROVE  ReservationInv'
<1>1. PICK e \in Effects(resNs, h, resReq[h].kind), written \in BOOLEAN, walks \in BOOLEAN :
        LET writes == e.update /\ (resReq[h].kind = "register" \/ e.ns.ptpl)
        IN  /\ ~written => writes
            /\ ~walks => e.update
            /\ resNs' = e.ns
            /\ resTold' = [by |-> h, to |-> e.to]
            /\ IF ~writes THEN UNCHANGED resFile
               ELSE resFile' \in IF written THEN {Image(e.ns)} ELSE {resFile, NoFile}
            /\ resReq' = [resReq EXCEPT ![h] =
                  IF e.update /\ walks THEN [@ EXCEPT !.at = "walking"] ELSE NoCommand]
            /\ resSeen' = [resSeen EXCEPT
                  !.unsaved = IF writes THEN ~written ELSE @,
                  !.lost = IF ~walks THEN TRUE ELSE @,
                  !.crashed = \/ ~e.sane
                              \/ writes /\ Len(e.ns.regs) > MaxRegistrants
                              \/ writes /\ e.ns.rtype \notin AllRegistrants \cup {0}
                                        /\ e.ns.holder = NoHost]
  BY DEF HandleCommand
<1> DEFINE kind == resReq[h].kind
           writes == e.update /\ (kind = "register" \/ e.ns.ptpl)
           new == IF e.update /\ walks THEN [resReq[h] EXCEPT !.at = "walking"] ELSE NoCommand
           unsaved == IF writes THEN ~written ELSE resSeen.unsaved
           lost == IF ~walks THEN TRUE ELSE resSeen.lost
           crashes == \/ ~e.sane
                      \/ writes /\ Len(e.ns.regs) > MaxRegistrants
                      \/ writes /\ e.ns.rtype \notin AllRegistrants \cup {0} /\ e.ns.holder = NoHost
<1>2. ReservationTypes /\ CopiesInv /\ FileInv /\ CrashInv /\ Fits(resNs)
  BY DEF ReservationInv
<1>3. h \in Hosts /\ kind \in CommandKinds /\ resReq[h] \in RequestTypeOf
  BY <1>2, HostsAssumption DEF ReservationTypes, RequestTypeOf
<1>4. ResUp /\ resReq[h].at = "sent" /\ resCopy' = resCopy
  BY DEF HandleCommand
<1>5. EffectFits(resNs, h, e) /\ (kind # "register" => KeepsPersistence(resNs, e))
  BY <1>2, <1>3, HandledFits
<1>6. /\ Fits(e.ns) /\ e.ns.up = resNs.up /\ e.sane = TRUE /\ e.update \in BOOLEAN
      /\ ~e.update => e.ns = resNs
      /\ e.to \subseteq Hosts \X NoticeTypes
  BY <1>5 DEF EffectFits
<1>7. e.ns.ptpl \in BOOLEAN /\ resSeen \in ReservationSeen
  BY <1>2, <1>6 DEF Fits, NamespaceType, ReservationTypes
<1>8. writes \in BOOLEAN /\ unsaved \in BOOLEAN /\ lost \in BOOLEAN /\ crashes \in BOOLEAN
  BY <1>6, <1>7 DEF ReservationSeen
<1>9. resSeen' = [resSeen EXCEPT !.unsaved = unsaved, !.lost = lost, !.crashed = crashes]
  BY <1>1, Zenon
<1>10. resReq' = [resReq EXCEPT ![h] = new]
  BY <1>1
<1>11. new \in RequestTypeOf /\ new.pos = 1 /\ (new.at = "walking" <=> e.update /\ walks)
  <2>1. 1 \in Copies /\ resReq[h].pos = 1
    BY <1>2, <1>4, HomeAssumption DEF Copies, CopiesInv
  <2>2. NoCommand \in RequestTypeOf /\ NoCommand.pos = 1 /\ NoCommand.at = "idle"
    BY <2>1 DEF NoCommand, RequestTypeOf, CommandKinds
  <2>3. CASE e.update /\ walks
    BY <1>3, <2>1, <2>3 DEF RequestTypeOf
  <2>4. CASE ~(e.update /\ walks)
    BY <2>2, <2>4
  <2> QED BY <2>3, <2>4
<1>12. IF ~writes THEN resFile' = resFile ELSE resFile' \in IF written THEN {Image(e.ns)} ELSE {resFile, NoFile}
  BY <1>1
<1>13. crashes => Len(e.ns.regs) > MaxRegistrants
  <2>1. e.ns.rtype # 0 => e.ns.holder # NoHost
    BY <1>6 DEF Fits, RegistrantsFit
  <2> QED BY <1>6, <2>1
<1>14. /\ ~written => writes
       /\ ~walks => e.update
       /\ resNs' = e.ns /\ resTold' = [by |-> h, to |-> e.to]
  BY <1>1
<1> HIDE DEF new, unsaved, lost, crashes, kind
<1>15. /\ resSeen' \in ReservationSeen /\ resSeen'.unsaved = unsaved /\ resSeen'.lost = lost
       /\ resSeen'.crashed = crashes
  <2>1. resSeen' = [unsaved |-> unsaved, lost |-> lost, torn |-> resSeen.torn, crashed |-> crashes,
                    restarts |-> resSeen.restarts, commands |-> resSeen.commands]
    BY <1>7, <1>9 DEF ReservationSeen
  <2>2. resSeen.torn \in BOOLEAN /\ resSeen.restarts \in Nat /\ resSeen.commands \in Nat
    BY <1>7 DEF ReservationSeen
  <2> QED BY <1>8, <2>1, <2>2 DEF ReservationSeen
<1>16. \A x \in Clients : resReq'[x] = IF x = h THEN new ELSE resReq[x]
  BY <1>2, <1>10 DEF ReservationTypes
<1>17. ReservationTypes'
  <2>1. resReq' \in [Clients -> RequestTypeOf]
    BY <1>2, <1>10, <1>11 DEF ReservationTypes
  <2>2. resTold' \in [by : Hosts \cup {NoHost}, to : SUBSET (Hosts \X NoticeTypes)]
    BY <1>3, <1>6, <1>14
  <2> QED BY <1>2, <1>4, <1>15, <2>1, <2>2 DEF ReservationTypes
<1>18. CopiesInv'
  <2>1. ASSUME NEW x \in Clients PROVE resReq'[x].at # "walking" => resReq'[x].pos = 1
    BY <1>2, <1>11, <1>16 DEF CopiesInv
  <2>2. ASSUME NEW g \in Copies, resNs'.up, ~resSeen'.lost PROVE Behind(g)' \/ Agrees(resCopy[g], e.ns)
    <3>1. walks /\ ~resSeen.lost BY <1>7, <1>8, <1>15, <2>2 DEF lost, ReservationSeen
    <3>2. CASE e.update
      <4>1. resReq'[h].at = "walking" /\ resReq'[h].pos <= g
        BY <1>11, <1>16, <3>1, <3>2 DEF Copies
      <4> QED BY <4>1 DEF Behind
    <3>3. CASE ~e.update
      <4>1. e.ns = resNs BY <1>6, <3>3
      <4>2. CASE Behind(g)
        BY <1>4, <1>16, <4>2 DEF Behind
      <4>3. CASE ~Behind(g)
        BY <1>2, <1>4, <3>1, <4>1, <4>3 DEF CopiesInv, ResUp
      <4> QED BY <4>2, <4>3
    <3> QED BY <1>6, <3>2, <3>3
  <2> QED BY <1>4, <1>14, <2>1, <2>2 DEF CopiesInv
<1>19. FileInv'
  <2>1. FitFile(resFile')
    <3>1. FitFile(Image(e.ns)) /\ FitFile(NoFile) /\ FitFile(resFile)
      BY <1>2, <1>6, ImageFits, EmptyFiles DEF FileInv
    <3> QED BY <1>12, <3>1
  <2>2. ASSUME resNs'.up, ~resSeen'.unsaved PROVE FileIsCurrent(e.ns, resFile')
    <3>1. CASE writes
      <4>1. written BY <1>15, <2>2, <3>1 DEF unsaved
      <4> QED BY <1>12, <3>1, <4>1 DEF FileIsCurrent
    <3>2. CASE ~writes
      <4>1. resFile' = resFile /\ FileIsCurrent(resNs, resFile)
        BY <1>2, <1>4, <1>12, <1>15, <2>2, <3>2 DEF unsaved, FileInv, ResUp
      <4>2. CASE ~e.update
        BY <1>6, <4>1, <4>2
      <4>3. CASE e.update
        <5>1. kind # "register" /\ ~e.ns.ptpl BY <3>2, <4>3
        <5>2. ~resNs.ptpl /\ (e.ns = resNs \/ resNs.regs # <<>>)
          BY <1>5, <5>1 DEF KeepsPersistence
        <5>3. Image(e.ns) = NoFile /\ Image(resNs) = NoFile BY <5>1, <5>2 DEF Image
        <5>4. FreshNs.regs = <<>> BY DEF FreshNs
        <5>5. CASE e.ns = resNs
          BY <4>1, <5>5
        <5>6. CASE resNs.regs # <<>>
          BY <4>1, <5>3, <5>4, <5>6 DEF FileIsCurrent
        <5> QED BY <5>2, <5>5, <5>6
      <4> QED BY <1>6, <4>2, <4>3
    <3> QED BY <3>1, <3>2
  <2> QED BY <1>14, <2>1, <2>2 DEF FileInv
<1>20. CrashInv'
  BY <1>13, <1>14, <1>15 DEF CrashInv
<1> QED BY <1>6, <1>14, <1>17, <1>18, <1>19, <1>20 DEF ReservationInv

(* A renewed copy agrees, and the walk is still ahead of those after it. *)
LEMMA KeptByUpdate ==
    ASSUME ReservationInv, NEW h \in Clients, UpdateCopy(h)
    PROVE  ReservationInv'
<1> DEFINE g == resReq[h].pos
           copy == CopyOf(resNs, resCopy[g])
           new == IF g = NumCopies THEN NoCommand ELSE [resReq[h] EXCEPT !.pos = g + 1]
<1>1. /\ resNs.up /\ resReq[h].at = "walking"
      /\ resCopy' = [resCopy EXCEPT ![g] = copy]
      /\ resReq' = [resReq EXCEPT ![h] = new]
      /\ resTold' = NoNotices
      /\ UNCHANGED <<resNs, resFile, resSeen>>
  BY DEF UpdateCopy, ResUp
<1>2. ReservationTypes /\ CopiesInv /\ FileInv /\ CrashInv /\ Fits(resNs)
  BY DEF ReservationInv
<1>3. g \in Copies /\ resCopy[g] \in CopyType /\ resReq[h] \in RequestTypeOf
  BY <1>2 DEF ReservationTypes, RequestTypeOf
<1>4. copy \in CopyType /\ Agrees(copy, resNs)
  BY <1>2, <1>3, RenewedAgrees
<1>5. /\ new \in RequestTypeOf
      /\ new.at # "walking" => new.pos = 1
      /\ \A x \in Copies : g < x => new.at = "walking" /\ new.pos <= x
  <2>1. g \in 1 .. NumCopies /\ NumCopies \in Nat \ {0}
    BY <1>3, HomeAssumption DEF Copies
  <2>2. CASE g = NumCopies
    <3>1. NoCommand \in RequestTypeOf /\ NoCommand.pos = 1
      BY <2>1 DEF NoCommand, RequestTypeOf, CommandKinds, Copies
    <3> QED BY <2>1, <2>2, <3>1 DEF Copies
  <2>3. CASE g # NumCopies
    <3>1. new = [resReq[h] EXCEPT !.pos = g + 1] BY <2>3
    <3>2. g + 1 \in Copies BY <2>1, <2>3 DEF Copies
    <3>3. new \in RequestTypeOf /\ new.at = "walking" /\ new.pos = g + 1
      BY <1>1, <1>3, <3>1, <3>2 DEF RequestTypeOf
    <3> QED BY <2>1, <3>3 DEF Copies
  <2> QED BY <2>2, <2>3
<1> HIDE DEF copy, new
<1>6. ReservationTypes'
  <2>1. resTold' \in [by : Hosts \cup {NoHost}, to : SUBSET (Hosts \X NoticeTypes)]
    BY <1>1 DEF NoNotices
  <2>2. resReq' \in [Clients -> RequestTypeOf] /\ resCopy' \in [Copies -> CopyType]
    BY <1>1, <1>2, <1>3, <1>4, <1>5 DEF ReservationTypes
  <2> QED BY <1>1, <1>2, <2>1, <2>2 DEF ReservationTypes
<1>7. \A x \in Clients : resReq'[x] = IF x = h THEN new ELSE resReq[x]
  BY <1>1, <1>2 DEF ReservationTypes
<1>8. \A x \in Copies : resCopy'[x] = IF x = g THEN copy ELSE resCopy[x]
  BY <1>1, <1>2 DEF ReservationTypes
<1>9. CopiesInv'
  <2>1. ASSUME NEW x \in Clients PROVE resReq'[x].at # "walking" => resReq'[x].pos = 1
    BY <1>2, <1>5, <1>7 DEF CopiesInv
  <2>2. ASSUME ~resSeen.lost, NEW x \in Copies PROVE Behind(x)' \/ Agrees(resCopy'[x], resNs)
    <3>1. CASE x = g
      BY <1>4, <1>8, <3>1
    <3>2. CASE x # g /\ ~Behind(x)
      BY <1>1, <1>2, <1>8, <2>2, <3>2 DEF CopiesInv
    <3>3. CASE x # g /\ Behind(x)
      <4>1. PICK y \in Clients : resReq[y].at = "walking" /\ resReq[y].pos <= x
        BY <3>3 DEF Behind
      <4>2. CASE y # h
        BY <1>7, <4>1, <4>2 DEF Behind
      <4>3. CASE y = h
        <5>1. g < x BY <1>3, <3>3, <4>1, <4>3 DEF Copies
        <5>2. resReq'[h].at = "walking" /\ resReq'[h].pos <= x BY <1>5, <1>7, <5>1
        <5> QED BY <5>2 DEF Behind
      <4> QED BY <4>2, <4>3
    <3> QED BY <3>1, <3>2, <3>3
  <2> QED BY <1>1, <2>1, <2>2 DEF CopiesInv
<1> QED BY <1>1, <1>2, <1>6, <1>9 DEF ReservationInv, FileInv, CrashInv

(* Set Features marks the file as out of date and leaves the copies. *)
LEMMA KeptBySetPersistence ==
    ASSUME ReservationInv, NEW on \in BOOLEAN, SetPersistence(on)
    PROVE  ReservationInv'
<1> DEFINE noted == [resSeen EXCEPT !.unsaved = TRUE, !.commands = @ + 1]
           s == [resNs EXCEPT !.ptpl = on]
<1>1. /\ resNs' = s /\ resSeen' = noted /\ resTold' = NoNotices
      /\ UNCHANGED <<resCopy, resFile, resReq>>
  BY DEF SetPersistence
<1>2. ReservationTypes /\ CopiesInv /\ FileInv /\ CrashInv /\ Fits(resNs)
  BY DEF ReservationInv
<1>3. /\ noted \in ReservationSeen /\ noted.lost = resSeen.lost /\ noted.crashed = resSeen.crashed
      /\ noted.unsaved = TRUE
  <2>1. resSeen \in ReservationSeen
    BY <1>2 DEF ReservationTypes
  <2>2. noted = [unsaved |-> TRUE, lost |-> resSeen.lost, torn |-> resSeen.torn, crashed |-> resSeen.crashed,
                restarts |-> resSeen.restarts, commands |-> resSeen.commands + 1]
    <3>1. ASSUME NEW a, NEW n, NEW x, x = [resSeen EXCEPT !.unsaved = a, !.commands = n]
          PROVE  x = [unsaved |-> a, lost |-> resSeen.lost, torn |-> resSeen.torn,
                      crashed |-> resSeen.crashed, restarts |-> resSeen.restarts, commands |-> n]
      BY <2>1, <3>1 DEF ReservationSeen
    <3> QED BY <3>1, Zenon
  <2>3. /\ resSeen.lost \in BOOLEAN /\ resSeen.torn \in BOOLEAN /\ resSeen.crashed \in BOOLEAN
        /\ resSeen.restarts \in Nat /\ resSeen.commands + 1 \in Nat
    BY <2>1 DEF ReservationSeen
  <2> HIDE DEF noted
  <2> QED BY <2>2, <2>3 DEF ReservationSeen
<1>4. /\ s.up = resNs.up /\ s.regs = resNs.regs /\ s.holder = resNs.holder
      /\ s.rtype = resNs.rtype /\ s.crkey = resNs.crkey
  BY <1>2 DEF Fits, NamespaceType
<1>5. Fits(s)
  <2>1. NamespaceType(s)
    BY <1>2 DEF Fits, NamespaceType
  <2> HIDE DEF s
  <2> QED BY <1>2, <1>4, <2>1 DEF Fits, RegistrantsFit, RegHosts
<1> HIDE DEF noted, s
<1>6. ReservationTypes'
  <2>1. resTold' \in [by : Hosts \cup {NoHost}, to : SUBSET (Hosts \X NoticeTypes)]
    BY <1>1 DEF NoNotices
  <2> QED BY <1>1, <1>2, <1>3, <2>1 DEF ReservationTypes
<1>7. CopiesInv'
  <2>1. \A g \in Copies : Behind(g) => Behind(g)'
    BY <1>1 DEF Behind
  <2>2. \A g \in Copies : Agrees(resCopy[g], resNs) => Agrees(resCopy[g], s)
    BY <1>4 DEF Agrees, RegHosts
  <2> QED BY <1>1, <1>2, <1>3, <1>4, <2>1, <2>2 DEF CopiesInv
<1> QED BY <1>1, <1>2, <1>3, <1>4, <1>5, <1>6, <1>7 DEF ReservationInv, FileInv, CrashInv

(* After a start no command is under way. *)
LEMMA RestartKeeps ==
    ASSUME Fits(resNs'), FileInv', resSeen' \in ReservationSeen, resSeen'.crashed = FALSE,
           resCopy' \in [Copies -> CopyType], resNs'.up => \A g \in Copies : Agrees(resCopy'[g], resNs'),
           resReq' = [h \in Clients |-> NoCommand], resTold' = NoNotices
    PROVE  ReservationInv'
<1>1. NoCommand \in RequestTypeOf /\ NoCommand.pos = 1
  BY HomeAssumption DEF NoCommand, RequestTypeOf, CommandKinds, Copies
<1>2. resTold' \in [by : Hosts \cup {NoHost}, to : SUBSET (Hosts \X NoticeTypes)]
  BY DEF NoNotices
<1>3. ReservationTypes'
  BY <1>1, <1>2 DEF ReservationTypes
<1>4. CopiesInv'
  BY <1>1 DEF CopiesInv
<1> QED BY <1>3, <1>4 DEF ReservationInv, CrashInv

(* A start from a file that fits. *)
LEMMA KeptByRestart ==
    ASSUME ReservationInv, NEW f, FitFile(f), RestartFrom(f), resSeen' \in ReservationSeen,
           ~resSeen.crashed, resSeen'.crashed = FALSE
    PROVE  ReservationInv'
<1>1. /\ resFile' = f
      /\ resNs' = IF Restorable(f) THEN Restored(f) ELSE [FreshNs EXCEPT !.up = FALSE]
      /\ resCopy' = [g \in Copies |-> IF Restorable(f) THEN CopyOf(resNs', NoCopy) ELSE NoCopy]
      /\ resReq' = [h \in Clients |-> NoCommand]
      /\ resTold' = NoNotices
  BY DEF RestartFrom
<1>2. CASE Restorable(f)
  <2>1. resNs' = Restored(f)
    BY <1>1, <1>2
  <2>2. Fits(resNs') /\ FileIsCurrent(resNs', f)
    BY <1>2, <2>1, RestoredFits
  <2>3. \A g \in Copies : resCopy'[g] = CopyOf(resNs', NoCopy)
    BY <1>1, <1>2
  <2>4. CopyOf(resNs', NoCopy) \in CopyType /\ Agrees(CopyOf(resNs', NoCopy), resNs')
    BY <2>2, NoCopyTyped, RenewedAgrees
  <2>5. resCopy' \in [Copies -> CopyType] /\ \A g \in Copies : Agrees(resCopy'[g], resNs')
    BY <1>1, <1>2, <2>3, <2>4
  <2> QED BY <1>1, <2>2, <2>5, RestartKeeps DEF FileInv
<1>3. CASE ~Restorable(f)
  <2>1. resNs' = [FreshNs EXCEPT !.up = FALSE]
    BY <1>1, <1>3
  <2>2. Fits(resNs') /\ resNs'.up = FALSE
    BY <2>1, EmptyFiles DEF FreshNs
  <2>3. resCopy' \in [Copies -> CopyType]
    BY <1>1, <1>3, NoCopyTyped
  <2> QED BY <1>1, <2>2, <2>3, RestartKeeps DEF FileInv
<1> QED BY <1>2, <1>3

(* After a power loss the namespace is as its file. *)
LEMMA KeptByPowerLoss ==
    ASSUME ReservationInv, PowerLoss
    PROVE  ReservationInv' /\ resSeen'.unsaved = FALSE /\ resSeen'.torn = resSeen.torn
<1> DEFINE noted == [resSeen EXCEPT !.restarts = @ + 1, !.lost = FALSE, !.unsaved = FALSE]
<1>1. resSeen \in ReservationSeen /\ FitFile(resFile) /\ ~resSeen.crashed
  BY DEF PowerLoss, ResUp, ReservationInv, ReservationTypes, FileInv
<1>2. RestartFrom(resFile) /\ resSeen' = noted
  BY DEF PowerLoss
<1>3. noted = [unsaved |-> FALSE, lost |-> FALSE, torn |-> resSeen.torn, crashed |-> resSeen.crashed,
              restarts |-> resSeen.restarts + 1, commands |-> resSeen.commands]
  <2>1. ASSUME NEW a, NEW b, NEW n, NEW x,
               x = [resSeen EXCEPT !.restarts = n, !.lost = a, !.unsaved = b]
        PROVE  x = [unsaved |-> b, lost |-> a, torn |-> resSeen.torn, crashed |-> resSeen.crashed,
                    restarts |-> n, commands |-> resSeen.commands]
    BY <1>1, <2>1 DEF ReservationSeen
  <2> QED BY <2>1, Zenon
<1> HIDE DEF noted
<1>4. /\ resSeen.torn \in BOOLEAN /\ resSeen.crashed = FALSE
      /\ resSeen.restarts + 1 \in Nat /\ resSeen.commands \in Nat
  BY <1>1 DEF ReservationSeen
<1>5. /\ noted \in ReservationSeen /\ noted.crashed = FALSE /\ noted.unsaved = FALSE
      /\ noted.torn = resSeen.torn
  BY <1>3, <1>4 DEF ReservationSeen
<1> QED BY <1>1, <1>2, <1>5, KeptByRestart

(* A file that is cut short counts as none. *)
LEMMA KeptByPowerLossInWrite ==
    ASSUME ReservationInv, NEW h \in Clients, PowerLossInWrite(h)
    PROVE  ReservationInv' /\ resSeen'.torn = TRUE
<1> DEFINE noted == [resSeen EXCEPT !.restarts = @ + 1, !.torn = TRUE, !.lost = FALSE,
                                   !.unsaved = FALSE]
<1>1. resSeen \in ReservationSeen /\ ~resSeen.crashed
  BY DEF PowerLossInWrite, ResUp, ReservationInv, ReservationTypes
<1>2. RestartFrom(NoFile) /\ resSeen' = noted
  BY DEF PowerLossInWrite
<1>3. noted = [unsaved |-> FALSE, lost |-> FALSE, torn |-> TRUE, crashed |-> resSeen.crashed,
              restarts |-> resSeen.restarts + 1, commands |-> resSeen.commands]
  <2>1. ASSUME NEW a, NEW b, NEW c, NEW n, NEW x,
               x = [resSeen EXCEPT !.restarts = n, !.torn = c, !.lost = a, !.unsaved = b]
        PROVE  x = [unsaved |-> b, lost |-> a, torn |-> c, crashed |-> resSeen.crashed,
                    restarts |-> n, commands |-> resSeen.commands]
    BY <1>1, <2>1 DEF ReservationSeen
  <2> QED BY <2>1, Zenon
<1> HIDE DEF noted
<1>4. resSeen.crashed = FALSE /\ resSeen.restarts + 1 \in Nat /\ resSeen.commands \in Nat
  BY <1>1 DEF ReservationSeen
<1>5. noted \in ReservationSeen /\ noted.crashed = FALSE /\ noted.torn = TRUE
  BY <1>3, <1>4 DEF ReservationSeen
<1> QED BY <1>1, <1>2, <1>5, EmptyFiles, KeptByRestart

(* The invariant is inductive. *)
LEMMA NextReservation == ReservationInv /\ [ReservationNext]_reservationVars => ReservationInv'
<1> SUFFICES ASSUME ReservationInv, [ReservationNext]_reservationVars PROVE ReservationInv'
  OBVIOUS
<1>1. ASSUME NEW h \in Clients, NEW kind \in CommandKinds, SubmitCommand(h, kind)
      PROVE  ReservationInv'
  BY <1>1, KeptBySubmit
<1>2. ASSUME NEW h \in Clients, HandleCommand(h) PROVE ReservationInv'
  BY <1>2, KeptByHandle
<1>3. ASSUME NEW h \in Clients, UpdateCopy(h) PROVE ReservationInv'
  BY <1>3, KeptByUpdate
<1>4. ASSUME NEW h \in Clients, PowerLossInWrite(h) PROVE ReservationInv'
  BY <1>4, KeptByPowerLossInWrite
<1>5. ASSUME NEW on \in BOOLEAN, SetPersistence(on) PROVE ReservationInv'
  BY <1>5, KeptBySetPersistence
<1>6. CASE PowerLoss
  BY <1>6, KeptByPowerLoss
<1>7. CASE UNCHANGED reservationVars
  <2>1. /\ resNs' = resNs /\ resCopy' = resCopy /\ resFile' = resFile /\ resReq' = resReq
        /\ resTold' = resTold /\ resSeen' = resSeen
    BY <1>7 DEF reservationVars
  <2>2. Fits(resNs) /\ ReservationTypes /\ CopiesInv /\ FileInv /\ CrashInv
    BY DEF ReservationInv
  <2>3. Fits(resNs') /\ ReservationTypes' /\ FileInv' /\ CrashInv'
    BY <2>1, <2>2 DEF ReservationTypes, FileInv, CrashInv
  <2>4. CopiesInv'
    BY <2>1, <2>2 DEF CopiesInv, Behind
  <2> QED BY <2>3, <2>4 DEF ReservationInv
<1> QED BY <1>1, <1>2, <1>3, <1>4, <1>5, <1>6, <1>7 DEF ReservationNext

(* The registrants, the holder and the type fit together, a copy agrees
   with the reservation unless a walk is still ahead of it, and the file
   holds the reservation unless a write was left out. *)
THEOREM ReservationInvariance == ReservationSpec => []ReservationInv
<1>1. ReservationInit => ReservationInv
  BY InitReservation
<1>2. ReservationInv /\ [ReservationNext]_reservationVars => ReservationInv'
  BY NextReservation
<1> QED BY <1>1, <1>2, PTL DEF ReservationSpec

(* The variables keep their types. *)
THEOREM ReservationTyping == ReservationSpec => []ReservationTypeOK
<1>1. ReservationInv => ReservationTypeOK
  <2> SUFFICES ASSUME ReservationInv PROVE ReservationTypeOK
    OBVIOUS
  <2> QED
    BY DEF ReservationInv, ReservationTypes, ReservationTypeOK, Fits, CopyType, RequestTypeOf,
           NoticeTypes
<1> QED BY <1>1, ReservationInvariance, PTL

(* A copy that agrees with the reservation lets the same through. *)
LEMMA CopyEnforces ==
    ASSUME NEW s, Fits(s), NEW c, Agrees(c, s), NEW h \in Hosts
    PROVE  /\ Refuses(c, h, "write") <=> ~MayWrite(s, h)
           /\ Refuses(c, h, "read") <=> ~MayRead(s, h)
<1>1. s.rtype \in 0 .. 6 /\ (s.rtype # 0 => s.holder # NoHost)
      /\ (s.holder # NoHost => s.holder \in RegHosts(s))
  BY DEF Fits, NamespaceType, RegistrantsFit
<1> QED
  BY <1>1 DEF Agrees, Refuses, MayWrite, MayRead, IsHolder, ForAllRegs, ExclusiveTypes, AllRegistrants

(* A copy with no walk ahead of it agrees with the reservation and so lets
   the same requests through. *)
LEMMA EnforcedByInvariant == ReservationInv => ReservationEnforced
<1> SUFFICES ASSUME ReservationInv PROVE ReservationEnforced
  OBVIOUS
<1>1. Fits(resNs) /\ CopiesInv /\ CrashInv
  BY DEF ReservationInv
<1>2. ReservationSound
  BY <1>1 DEF ReservationSound, Fits, CrashInv
<1>3. ASSUME ResUp, NEW g \in Copies, ~resSeen.lost, ~Behind(g)
      PROVE  \A h \in Hosts : /\ Refuses(resCopy[g], h, "write") <=> ~MayWrite(resNs, h)
                              /\ Refuses(resCopy[g], h, "read") <=> ~MayRead(resNs, h)
  <2>1. Agrees(resCopy[g], resNs)
    BY <1>1, <1>3 DEF CopiesInv, ResUp
  <2> QED BY <1>1, <2>1, CopyEnforces
<1>4. AnsweredIsEnforced
  BY <1>3 DEF AnsweredIsEnforced, Behind
<1> QED BY <1>2, <1>4 DEF ReservationEnforced

(* Whatever the hosts send, the holder is a registrant, nobody is
   registered twice, the assertions of the code hold, and every poll group
   without an update ahead of it lets exactly the reads and writes pass
   that the reservation allows (nvmf_ns_reservation_request_check). *)
THEOREM Enforced == ReservationSpec => []ReservationEnforced
  BY ReservationInvariance, EnforcedByInvariant, PTL

(* The losers of a command are told. *)
LEMMA HandleTellsLosers ==
    ASSUME ReservationInv, NEW h \in Clients, HandleCommand(h)
    PROVE  LosersAreTold /\ resSeen'.restarts = resSeen.restarts
<1>1. PICK e \in Effects(resNs, h, resReq[h].kind), written \in BOOLEAN, walks \in BOOLEAN :
        LET writes == e.update /\ (resReq[h].kind = "register" \/ e.ns.ptpl)
        IN  /\ resNs' = e.ns
            /\ resTold' = [by |-> h, to |-> e.to]
            /\ resSeen' = [resSeen EXCEPT
                  !.unsaved = IF writes THEN ~written ELSE @,
                  !.lost = IF ~walks THEN TRUE ELSE @,
                  !.crashed = \/ ~e.sane
                              \/ writes /\ Len(e.ns.regs) > MaxRegistrants
                              \/ writes /\ e.ns.rtype \notin AllRegistrants \cup {0}
                                        /\ e.ns.holder = NoHost]
  BY DEF HandleCommand
<1> DEFINE writes == e.update /\ (resReq[h].kind = "register" \/ e.ns.ptpl)
           unsaved == IF writes THEN ~written ELSE resSeen.unsaved
           lost == IF ~walks THEN TRUE ELSE resSeen.lost
           crashes == \/ ~e.sane
                      \/ writes /\ Len(e.ns.regs) > MaxRegistrants
                      \/ writes /\ e.ns.rtype \notin AllRegistrants \cup {0} /\ e.ns.holder = NoHost
<1>2. h \in Hosts /\ resReq[h].kind \in CommandKinds /\ Fits(resNs) /\ resSeen \in ReservationSeen
  BY HostsAssumption DEF ReservationInv, ReservationTypes, RequestTypeOf
<1>3. TellsLosers(resNs, e.ns, h, e.to)
  BY <1>2, HandledFits DEF EffectFits
<1>4. resTold'.by = h /\ resTold'.to = e.to /\ resNs' = e.ns
  BY <1>1
<1>5. LosersAreTold
  <2>1. SUFFICES ASSUME NEW x \in RegHosts(resNs) \ (RegHosts(resNs') \cup {resTold'.by})
                 PROVE  resNs.holder = NoHost \/ \E type \in {"preempted", "reservation preempted"} :
                                                    <<x, type>> \in resTold'.to
    BY DEF LosersAreTold
  <2>2. x \in RegHosts(resNs) \ (RegHosts(e.ns) \cup {h})
    BY <1>4, <2>1
  <2>3. resNs.holder = NoHost \/ \E type \in {"preempted", "reservation preempted"} :
                                    <<x, type>> \in e.to
    BY <1>3, <2>2 DEF TellsLosers
  <2> QED BY <1>4, <2>3
<1>6. resSeen' = [resSeen EXCEPT !.unsaved = unsaved, !.lost = lost, !.crashed = crashes]
  BY <1>1, Zenon
<1> HIDE DEF unsaved, lost, crashes
<1>7. resSeen'.restarts = resSeen.restarts
  BY <1>2, <1>6 DEF ReservationSeen
<1> QED BY <1>5, <1>7

(* What a power loss keeps. *)
LEMMA PowerLossKeeps ==
    ASSUME ReservationInv, PowerLoss
    PROVE  KeptOverPowerLoss
<1>1. SUFFICES ASSUME ~resSeen.unsaved
               PROVE  CASE ~resNs.ptpl -> resNs' = FreshNs
                        [] resNs.ptpl /\ resNs.regs = <<>> -> resNs' = FreshNs
                        [] resNs.ptpl /\ resNs.regs # <<>>
                           /\ (resNs.rtype = 0 \/ resNs.crkey \notin RegKeys(resNs)) -> ~resNs'.up
                        [] OTHER -> /\ resNs'.regs = resNs.regs
                                    /\ resNs'.rtype = resNs.rtype
                                    /\ resNs'.crkey = resNs.crkey
                                    /\ \A h \in Hosts : IsHolder(resNs', h) <=> IsHolder(resNs, h)
  BY DEF KeptOverPowerLoss
<1>2. Fits(resNs) /\ resNs.up /\ FileIsCurrent(resNs, resFile)
  BY <1>1 DEF ReservationInv, FileInv, PowerLoss, ResUp
<1>3. resNs' = IF Restorable(resFile) THEN Restored(resFile) ELSE [FreshNs EXCEPT !.up = FALSE]
  BY DEF PowerLoss, RestartFrom
<1>4. CASE resFile = Image(resNs)
  <2>1. /\ ~resNs.ptpl \/ resNs.regs = <<>> =>
            Restorable(resFile) /\ Restored(resFile) = FreshNs
        /\ resNs.ptpl /\ resNs.regs # <<>> =>
            /\ Restorable(resFile) <=> resNs.rtype # 0 /\ resNs.crkey \in RegKeys(resNs)
            /\ resNs.rtype # 0 /\ resNs.crkey \in RegKeys(resNs) =>
                  /\ Restored(resFile).regs = resNs.regs
                  /\ Restored(resFile).rtype = resNs.rtype
                  /\ Restored(resFile).crkey = resNs.crkey
                  /\ \A h \in Hosts : IsHolder(Restored(resFile), h) <=> IsHolder(resNs, h)
    BY <1>2, <1>4, ImageFits
  <2>2. [FreshNs EXCEPT !.up = FALSE].up = FALSE
    BY DEF FreshNs
  <2>3. resNs.ptpl \in BOOLEAN
    BY <1>2 DEF Fits, NamespaceType
  <2>4. CASE ~resNs.ptpl
    BY <1>3, <2>1, <2>4
  <2>5. CASE resNs.ptpl /\ resNs.regs = <<>>
    BY <1>3, <2>1, <2>5
  <2>6. CASE resNs.ptpl /\ resNs.regs # <<>> /\ (resNs.rtype = 0 \/ resNs.crkey \notin RegKeys(resNs))
    BY <1>3, <2>1, <2>2, <2>6
  <2>7. CASE resNs.ptpl /\ resNs.regs # <<>> /\ resNs.rtype # 0 /\ resNs.crkey \in RegKeys(resNs)
    <3>1. resNs' = Restored(resFile) BY <1>3, <2>1, <2>7
    <3> QED BY <2>1, <2>7, <3>1
  <2> QED BY <2>3, <2>4, <2>5, <2>6, <2>7
<1>5. CASE resNs = FreshNs /\ resFile = [NoFile EXCEPT !.ptpl = TRUE]
  <2>1. resNs' = FreshNs
    BY <1>3, <1>5, EmptyFiles
  <2>2. ~resNs.ptpl
    BY <1>5 DEF FreshNs
  <2> QED BY <2>1, <2>2
<1> QED BY <1>2, <1>4, <1>5 DEF FileIsCurrent

(* No step leaves a loser untold or loses what is to persist. *)
LEMMA StepKept ==
    ReservationInv /\ [ReservationNext]_reservationVars => 
        [LosersAreTold /\ KeptOverPowerLoss]_reservationVars
<1> SUFFICES ASSUME ReservationInv, [ReservationNext]_reservationVars
             PROVE  [LosersAreTold /\ KeptOverPowerLoss]_reservationVars
  OBVIOUS
<1>1. resTold' = NoNotices => LosersAreTold
  BY DEF LosersAreTold
<1>2. resSeen'.restarts = resSeen.restarts => KeptOverPowerLoss
  BY DEF KeptOverPowerLoss
<1>3. resSeen \in ReservationSeen
  BY DEF ReservationInv, ReservationTypes
<1>4. ASSUME NEW h \in Clients, NEW kind \in CommandKinds, SubmitCommand(h, kind)
      PROVE  LosersAreTold /\ KeptOverPowerLoss
  <2>1. resTold' = NoNotices /\ resSeen' = [resSeen EXCEPT !.commands = @ + 1]
    BY <1>4 DEF SubmitCommand
  <2>2. resSeen'.restarts = resSeen.restarts
    BY <1>3, <2>1 DEF ReservationSeen
  <2> QED BY <1>1, <1>2, <2>1, <2>2
<1>5. ASSUME NEW h \in Clients, HandleCommand(h) PROVE LosersAreTold /\ KeptOverPowerLoss
  BY <1>2, <1>5, HandleTellsLosers
<1>6. ASSUME NEW h \in Clients, UpdateCopy(h) PROVE LosersAreTold /\ KeptOverPowerLoss
  <2>1. resTold' = NoNotices /\ resSeen' = resSeen
    BY <1>6 DEF UpdateCopy
  <2> QED BY <1>1, <1>2, <2>1
<1>7. ASSUME NEW h \in Clients, PowerLossInWrite(h) PROVE LosersAreTold /\ KeptOverPowerLoss
  <2>1. resTold' = NoNotices
    BY <1>7 DEF PowerLossInWrite, RestartFrom
  <2>2. resSeen'.torn = TRUE
    BY <1>7, KeptByPowerLossInWrite
  <2>3. KeptOverPowerLoss
    BY <2>2 DEF KeptOverPowerLoss
  <2> QED BY <1>1, <2>1, <2>3
<1>8. ASSUME NEW on \in BOOLEAN, SetPersistence(on) PROVE LosersAreTold /\ KeptOverPowerLoss
  <2>1. resTold' = NoNotices
        /\ \E a, n : resSeen' = [resSeen EXCEPT !.unsaved = a, !.commands = n]
    BY <1>8, Zenon DEF SetPersistence
  <2>2. resSeen'.restarts = resSeen.restarts
    BY <1>3, <2>1 DEF ReservationSeen
  <2> QED BY <1>1, <1>2, <2>1, <2>2
<1>9. CASE PowerLoss
  <2>1. resTold' = NoNotices
    BY <1>9 DEF PowerLoss, RestartFrom
  <2> QED BY <1>1, <1>9, <2>1, PowerLossKeeps
<1> QED BY <1>4, <1>5, <1>6, <1>7, <1>8, <1>9 DEF ReservationNext

(* A host that another's command unregisters is told, and what persists
   over a power loss is the reservation as it was
   (nvmf_ns_reservation_restore), with the exceptions that are named. *)
THEOREM StepsKept == ReservationSpec => ReservationSteps
<1>1. ReservationInv /\ [ReservationNext]_reservationVars =>
        [LosersAreTold /\ KeptOverPowerLoss]_reservationVars
  BY StepKept
<1> QED BY <1>1, ReservationInvariance, PTL DEF ReservationSpec, ReservationSteps

-------------------------------------------------------------------------------
(* The target *)

(* The three parts of the target implement their specifications. *)
THEOREM PartsOfTarget == Spec => SubsystemSpec /\ ReservationSpec /\ CtrlrSpec
<1>1. Init => SubsystemInit /\ ReservationInit /\ CtrlrInit
  BY DEF Init
<1>2. [Next]_vars => /\ [SubsystemNext]_subsystemVars
                     /\ [ReservationNext]_reservationVars
                     /\ [CtrlrNext]_ctrlrVars
  BY DEF Next, vars
<1> QED BY <1>1, <1>2, PTL DEF Spec, SubsystemSpec, ReservationSpec, CtrlrSpec

(* Subsystem, reservations and controllers keep their types. *)
THEOREM TargetTyping == Spec => []TargetTypeOK
<1>1. SubsystemTypeOK /\ ReservationTypeOK /\ CtrlrTypeOK => TargetTypeOK
  BY DEF TargetTypeOK
<1> QED BY <1>1, PartsOfTarget, SubsystemTyping, ReservationTyping, NvmfCtrlrTyping, PTL
===============================================================================
