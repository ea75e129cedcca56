------------------------------- MODULE NvmfCtrlr -------------------------------
(***************************************************************************)
(* The life of one controller of the NVMe-oF target (src/nvmf/ctrlr.c,     *)
(* nvmf.c): its queue pairs connect on the threads of their poll groups,   *)
(* are attached on the controller's thread by way of the subsystem's, and  *)
(* are disconnected by the transport, by the keep alive and association    *)
(* timers and by resets and shutdowns.  The last queue pair to go takes    *)
(* the controller with it.                                                 *)
(*                                                                         *)
(* A thread's messages arrive in the order in which they were sent.  The   *)
(* controller's thread is that of the admin queue's group.                 *)
(***************************************************************************)
EXTENDS Integers, Sequences, FiniteSets

CONSTANTS
    AdminQ,       \* the admin queue pair
    IoQs,         \* I/O queue pairs
    Qid,          \* the queue id that a queue pair asks for; 0 for AdminQ
    GroupOfQ,     \* its poll group
    NumPgs,       \* poll groups, in the order in which they are walked
    BusyQs,       \* I/O queue pairs that may have a request outstanding
    CmQs,         \* queue pairs that another thread may disconnect (RDMA's events)
    MaxResets     \* bound: resets and shutdowns

Qs == IoQs \cup {AdminQ}
Pgs == 1 .. NumPgs

ASSUME AdminQAssumption == AdminQ \notin IoQs /\ CmQs \subseteq Qs /\ BusyQs \subseteq IoQs
ASSUME QidAssumption == Qid \in [Qs -> Nat] /\ \A q \in Qs : Qid[q] = 0 <=> q = AdminQ
ASSUME GroupOfQAssumption == NumPgs \in Nat /\ GroupOfQ \in [Qs -> Pgs] /\ MaxResets \in Nat

VARIABLES
    nc,        \* the controller
    nq,        \* nq[q]: the queue pairs
    toSubsys,  \* messages to the subsystem's thread
    toCtrlr,   \* messages to the controller's thread
    ncWalk,    \* ncWalk[w]: the group that a walk is to visit, 0 if there is none
    ncSeen     \* history: crash, late, expired, resets

ctrlrVars == <<nc, nq, toSubsys, toCtrlr, ncWalk, ncSeen>>

Walks == {"keep_alive", "reset"}
NoWalkOn == 0
FreshQ == [state |-> "none", ctrlr |-> FALSE, connect |-> "no", io |-> FALSE, moved |-> "no"]

CtrlrInit ==
    /\ nc = [state |-> "none", admin |-> FALSE, en |-> FALSE, cfs |-> FALSE, mask |-> {},
             destruct |-> FALSE, progress |-> FALSE, shn |-> FALSE, keep_alive |-> FALSE,
             association |-> FALSE, cc_timer |-> FALSE, cc_timeout |-> FALSE]
    /\ nq = [q \in Qs |-> FreshQ]
    /\ toSubsys = <<>> /\ toCtrlr = <<>>
    /\ ncWalk = [w \in Walks |-> NoWalkOn]
    /\ ncSeen = [crash |-> "no", late |-> {}, expired |-> FALSE, resets |-> 0]

Alive == ncSeen.crash = "no"
Message(f, q) == [f |-> f, q |-> q]
AdminUsable == nq[AdminQ].state = "active"

---------------------------------------------------------------------------
(* Queue pairs *)

(* Outstanding requests keep a queue pair from being destroyed. *)
Pending(r) == r.io \/ r.connect \in {"subsystem", "controller", "answered"}

(* _nvmf_qpair_destroy, once nothing is outstanding: the queue pair leaves *)
(* its group and the transport closes it.                                  *)
Drained(r) == IF r.state = "deactivating" /\ ~Pending(r) THEN [r EXCEPT !.state = "closing"] ELSE r

(* spdk_nvmf_qpair_disconnect on the thread of the group.  Nothing is done *)
(* while disconnect_started is set: of a queue pair that is active, by who *)
(* is about to move the disconnect here.                                   *)
Disconnected(r) ==
    IF r.state = "active" /\ r.moved # "started"
    THEN Drained([r EXCEPT !.state = "deactivating"])
    ELSE r

NewQpair(q) ==
    /\ Alive
    /\ nq[q].state = "none"
    /\ nq' = [nq EXCEPT ![q].state = "active"]
    /\ UNCHANGED <<nc, toSubsys, toCtrlr, ncWalk, ncSeen>>

TransportDisconnect(q) ==
    /\ Alive
    /\ nq[q].state = "active"
    /\ nq' = [nq EXCEPT ![q] = Disconnected(@)]
    /\ UNCHANGED <<nc, toSubsys, toCtrlr, ncWalk, ncSeen>>

(* The same on another thread: it sets disconnect_started, finds that the  *)
(* queue pair is not its own, and clears it again to send the disconnect   *)
(* to the thread of the group.  One at a time of a queue pair.             *)
DisconnectElsewhere(q) ==
    /\ Alive
    /\ q \in CmQs /\ nq[q].state = "active" /\ nq[q].moved = "no"
    /\ nq' = [nq EXCEPT ![q].moved = "started"]
    /\ UNCHANGED <<nc, toSubsys, toCtrlr, ncWalk, ncSeen>>

MoveDisconnect(q) ==
    /\ Alive
    /\ nq[q].moved = "started"
    /\ nq' = [nq EXCEPT ![q].moved = "sent"]
    /\ UNCHANGED <<nc, toSubsys, toCtrlr, ncWalk, ncSeen>>

DisconnectMoved(q) ==
    /\ Alive
    /\ nq[q].moved = "sent"
    /\ nq' = [nq EXCEPT ![q] = Disconnected([@ EXCEPT !.moved = "no"])]
    /\ ncSeen' = [ncSeen EXCEPT !.crash =
          IF nq[q].state = "freed" THEN "freed queue pair" ELSE @]
    /\ UNCHANGED <<nc, toSubsys, toCtrlr, ncWalk>>

(* _nvmf_transport_qpair_fini_complete *)
FiniComplete(q) ==
    /\ Alive
    /\ nq[q].state = "closing"
    /\ nq' = [nq EXCEPT ![q].state = "freed"]
    /\ toCtrlr' = IF nq[q].ctrlr THEN Append(toCtrlr, Message("free", q)) ELSE toCtrlr
    /\ nc' = IF nq[q].ctrlr /\ q = AdminQ THEN [nc EXCEPT !.admin = FALSE] ELSE nc
    /\ UNCHANGED <<toSubsys, ncWalk, ncSeen>>

(* A request of an I/O queue that stays with its bdev for a while.         *)
StartIo(q) ==
    /\ Alive
    /\ q \in BusyQs /\ nq[q].state = "active" /\ nq[q].connect = "done" /\ nq[q].ctrlr /\ ~nq[q].io
    /\ nq' = [nq EXCEPT ![q].io = TRUE]
    /\ UNCHANGED <<nc, toSubsys, toCtrlr, ncWalk, ncSeen>>

IoDone(q) ==
    /\ Alive
    /\ nq[q].io
    /\ nq' = [nq EXCEPT ![q] = Drained([@ EXCEPT !.io = FALSE])]
    /\ UNCHANGED <<nc, toSubsys, toCtrlr, ncWalk, ncSeen>>

---------------------------------------------------------------------------
(* Connecting *)

(* _nvmf_ctrlr_connect.  A host connects its I/O queues when it has been   *)
(* told the controller's id.                                               *)
Connect(q) ==
    /\ Alive
    /\ nq[q].state = "active" /\ nq[q].connect = "no"
    /\ q = AdminQ => nc.state = "none"
    /\ q # AdminQ => nq[AdminQ].connect = "done" /\ nc.state # "none"
    /\ nq' = [nq EXCEPT ![q].connect = "subsystem", ![q].ctrlr = q = AdminQ]
    /\ nc' = IF q = AdminQ THEN [nc EXCEPT !.state = "created"] ELSE nc
    /\ toSubsys' = Append(toSubsys, Message(IF q = AdminQ THEN "add_ctrlr" ELSE "add_io", q))
    /\ UNCHANGED <<toCtrlr, ncWalk, ncSeen>>

At(s, f) == s # <<>> /\ Head(s).f = f

(* _nvmf_subsystem_add_ctrlr; without a controller id to be had the        *)
(* controller is freed.                                                    *)
AddCtrlr ==
    /\ Alive
    /\ At(toSubsys, "add_ctrlr")
    /\ toSubsys' = Tail(toSubsys)
    /\ \/ /\ nc' = [nc EXCEPT !.state = "listed"]
          /\ nq' = [nq EXCEPT ![AdminQ].connect = "controller"]
          /\ toCtrlr' = Append(toCtrlr, Message("add_admin", AdminQ))
       \/ /\ nc' = [nc EXCEPT !.state = "freed"]
          /\ nq' = [nq EXCEPT ![AdminQ].connect = "answered", ![AdminQ].ctrlr = FALSE]
          /\ UNCHANGED toCtrlr
    /\ UNCHANGED <<ncWalk, ncSeen>>

(* _nvmf_ctrlr_add_admin_qpair *)
AddAdminQpair ==
    /\ Alive
    /\ At(toCtrlr, "add_admin")
    /\ toCtrlr' = Tail(toCtrlr)
    /\ nc' = [nc EXCEPT !.admin = TRUE, !.keep_alive = TRUE, !.mask = @ \cup {0}]
    /\ nq' = [nq EXCEPT ![AdminQ].connect = "answered"]
    /\ UNCHANGED <<toSubsys, ncWalk, ncSeen>>

(* _nvmf_ctrlr_add_io_qpair, on the subsystem's thread: it reads the       *)
(* controller's admin queue, which is NULL once that is gone.              *)
LookUpCtrlr ==
    /\ Alive
    /\ At(toSubsys, "add_io")
    /\ toSubsys' = Tail(toSubsys)
    /\ LET q == Head(toSubsys).q
           found == nc.state = "listed" /\ ~nc.destruct
           passed == found /\ nc.admin /\ AdminUsable
       IN  /\ ncSeen' = [ncSeen EXCEPT !.crash =
                 IF found /\ ~nc.admin THEN "no admin queue at connect" ELSE @]
           /\ nq' = [nq EXCEPT ![q].connect = IF passed THEN "controller" ELSE "answered",
                               ![q].ctrlr = passed]
           /\ toCtrlr' = IF passed THEN Append(toCtrlr, Message("add_io", q)) ELSE toCtrlr
    /\ UNCHANGED <<nc, ncWalk>>

(* nvmf_ctrlr_add_io_qpair, on the controller's thread *)
AddIoQpair ==
    /\ Alive
    /\ At(toCtrlr, "add_io")
    /\ toCtrlr' = Tail(toCtrlr)
    /\ LET q == Head(toCtrlr).q
           usable == ~nc.destruct /\ nc.en
           added == usable /\ nc.admin /\ AdminUsable /\ Qid[q] \notin nc.mask
       IN  /\ nc' = IF added THEN [nc EXCEPT !.mask = @ \cup {Qid[q]}] ELSE nc
           /\ nq' = [nq EXCEPT ![q].connect = "answered", ![q].ctrlr = added]
           /\ ncSeen' = [ncSeen EXCEPT
                 !.crash = IF usable /\ ~nc.admin THEN "no admin queue at connect" ELSE @,
                 !.late = IF added /\ (ncWalk["keep_alive"] # NoWalkOn \/ ncSeen.expired) THEN @ \cup {q} ELSE @]
    /\ UNCHANGED <<toSubsys, ncWalk>>

(* _nvmf_request_complete of the connect, on the queue pair's thread. *)
AnswerConnect(q) ==
    /\ Alive
    /\ nq[q].connect = "answered"
    /\ nq' = [nq EXCEPT ![q] = Drained([@ EXCEPT !.connect = "done"])]
    /\ UNCHANGED <<nc, toSubsys, toCtrlr, ncWalk, ncSeen>>

---------------------------------------------------------------------------
(* The end of the controller *)

(* A slip: the release of the admin queue ends the controller, though the  *)
(* I/O queues may follow.                                                  *)
FreeFromQpairEarly ==
    /\ Alive
    /\ At(toCtrlr, "free")
    /\ toCtrlr' = Tail(toCtrlr)
    /\ LET last == Head(toCtrlr).q = AdminQ
       IN  /\ nc' = [nc EXCEPT !.mask = @ \ {Qid[Head(toCtrlr).q]}, !.destruct = @ \/ last]
           /\ toSubsys' = IF last THEN Append(toSubsys, Message("destruct", AdminQ)) ELSE toSubsys
           /\ ncSeen' = [ncSeen EXCEPT !.crash = IF last /\ nc.destruct THEN "in_destruct" ELSE @]
    /\ UNCHANGED <<nq, ncWalk>>

(* _nvmf_ctrlr_free_from_qpair *)
FreeFromQpair ==
    /\ Alive
    /\ At(toCtrlr, "free")
    /\ toCtrlr' = Tail(toCtrlr)
    /\ LET mask == nc.mask \ {Qid[Head(toCtrlr).q]}
           last == mask = {}
       IN  /\ nc' = [nc EXCEPT !.mask = mask, !.destruct = @ \/ last]
           /\ toSubsys' = IF last THEN Append(toSubsys, Message("destruct", AdminQ)) ELSE toSubsys
           /\ ncSeen' = [ncSeen EXCEPT !.crash = IF last /\ nc.destruct THEN "in_destruct" ELSE @]
    /\ UNCHANGED <<nq, ncWalk>>

(* nvmf_ctrlr_destruct *)
RemoveCtrlr ==
    /\ Alive
    /\ At(toSubsys, "destruct")
    /\ toSubsys' = Tail(toSubsys)
    /\ toCtrlr' = Append(toCtrlr, Message("destruct", AdminQ))
    /\ nc' = [nc EXCEPT !.state = "removed"]
    /\ UNCHANGED <<nq, ncWalk, ncSeen>>

(* _nvmf_ctrlr_destruct: it comes again while a reset is under way. *)
DestructCtrlr ==
    /\ Alive
    /\ At(toCtrlr, "destruct")
    /\ IF nc.progress
       THEN toCtrlr' = Append(Tail(toCtrlr), Head(toCtrlr)) /\ UNCHANGED nc
       ELSE /\ toCtrlr' = Tail(toCtrlr)
            /\ nc' = [nc EXCEPT !.state = "freed", !.keep_alive = FALSE, !.association = FALSE]
    /\ UNCHANGED <<nq, toSubsys, ncWalk, ncSeen>>

---------------------------------------------------------------------------
(* Configuration, timers and walks *)

HostCommands == Alive /\ AdminUsable /\ nq[AdminQ].connect = "done" /\ nq[AdminQ].ctrlr

(* nvmf_prop_set_cc *)
Enable ==
    /\ HostCommands
    /\ ~nc.en
    /\ nc' = [nc EXCEPT !.en = TRUE, !.association = FALSE]
    /\ UNCHANGED <<nq, toSubsys, toCtrlr, ncWalk, ncSeen>>

(* A reset or shutdown that comes while one is under way is dropped. *)
ResetOrShutDown(shn) ==
    /\ HostCommands
    /\ shn \/ nc.en
    /\ ~nc.progress
    /\ ncSeen.resets < MaxResets
    /\ nc' = [nc EXCEPT !.en = IF shn THEN @ ELSE FALSE, !.shn = shn, !.progress = TRUE,
                        !.cc_timeout = TRUE, !.keep_alive = @ /\ ~shn]
    /\ ncWalk' = [ncWalk EXCEPT !["reset"] = 1]
    /\ ncSeen' = [ncSeen EXCEPT !.resets = @ + 1]
    /\ UNCHANGED <<nq, toSubsys, toCtrlr>>

(* nvmf_ctrlr_keep_alive_poll *)
KeepAliveExpired ==
    /\ Alive
    /\ nc.keep_alive /\ ncWalk["keep_alive"] = NoWalkOn
    /\ IF nc.destruct
       THEN nc' = [nc EXCEPT !.keep_alive = FALSE] /\ UNCHANGED ncWalk
       ELSE /\ ~nc.cfs
            /\ nc' = [nc EXCEPT !.cfs = TRUE]
            /\ ncWalk' = [ncWalk EXCEPT !["keep_alive"] = 1]
    /\ UNCHANGED <<nq, toSubsys, toCtrlr, ncSeen>>

(* _nvmf_ctrlr_disconnect_qpairs_on_pg *)
ToDisconnect(w, g) ==
    {q \in Qs : GroupOfQ[q] = g /\ nq[q].ctrlr /\ (w = "keep_alive" \/ q # AdminQ)}

(* A slip: a walk does not end behind the last group. *)
WalkGroupPast(w) ==
    /\ Alive
    /\ ncWalk[w] # NoWalkOn
    /\ ncWalk' = [ncWalk EXCEPT ![w] = @ + 1]
    /\ UNCHANGED <<nc, nq, toSubsys, toCtrlr, ncSeen>>

WalkGroup(w) ==
    /\ Alive
    /\ ncWalk[w] \in Pgs
    /\ nq' = [q \in Qs |-> IF q \in ToDisconnect(w, ncWalk[w]) THEN Disconnected(nq[q]) ELSE nq[q]]
    /\ ncWalk' = [ncWalk EXCEPT ![w] = @ + 1]
    /\ UNCHANGED <<nc, toSubsys, toCtrlr, ncSeen>>

KeepAliveWalked ==
    /\ Alive
    /\ ncWalk["keep_alive"] > NumPgs
    /\ ncWalk' = [ncWalk EXCEPT !["keep_alive"] = NoWalkOn]
    /\ ncSeen' = [ncSeen EXCEPT !.expired = TRUE]
    /\ UNCHANGED <<nc, nq, toSubsys, toCtrlr>>

(* The last part of _nvmf_ctrlr_cc_reset_shn_done: a reset clears CC and   *)
(* CSTS, whatever the host has written since.                              *)
Reset(c) ==
    [c EXCEPT !.cc_timer = FALSE, !.cc_timeout = FALSE, !.progress = FALSE, !.shn = FALSE,
              !.association = TRUE, !.en = @ /\ c.shn, !.cfs = @ /\ c.shn]

(* _nvmf_ctrlr_cc_reset_shn_done, after the walk or from its poller.  It   *)
(* gives up waiting for the I/O queues after the time for a reset.         *)
ResetWalked(gives_up) ==
    /\ Alive
    /\ ncWalk["reset"] > NumPgs \/ nc.cc_timer
    /\ gives_up => Cardinality(nc.mask) > 1 /\ ~nc.cc_timeout
    /\ nc' = IF Cardinality(nc.mask) > 1 /\ ~gives_up THEN [nc EXCEPT !.cc_timer = TRUE]
             ELSE Reset([nc EXCEPT !.cfs = @ \/ gives_up])
    /\ ncWalk' = [ncWalk EXCEPT !["reset"] = NoWalkOn]
    /\ UNCHANGED <<nq, toSubsys, toCtrlr, ncSeen>>

(* nvmf_ctrlr_cc_timeout: the bdevs are reset by way of the admin queue's  *)
(* group, which need not be there any more.                                *)
CcTimeout ==
    /\ Alive
    /\ nc.cc_timeout
    /\ nc' = [nc EXCEPT !.cc_timeout = FALSE]
    /\ ncSeen' = [ncSeen EXCEPT !.crash =
          IF ~nc.admin \/ nq[AdminQ].state \in {"closing", "freed"}
          THEN "no admin queue at reset timeout" ELSE @]
    /\ UNCHANGED <<nq, toSubsys, toCtrlr, ncWalk>>

(* nvmf_ctrlr_association_remove *)
AssociationExpired ==
    /\ Alive
    /\ nc.association
    /\ nc' = [nc EXCEPT !.association = FALSE]
    /\ nq' = IF ~nc.destruct /\ nc.admin THEN [nq EXCEPT ![AdminQ] = Disconnected(@)] ELSE nq
    /\ UNCHANGED <<toSubsys, toCtrlr, ncWalk, ncSeen>>

CtrlrNext ==
    \/ \E q \in Qs : \/ NewQpair(q) \/ TransportDisconnect(q) \/ DisconnectElsewhere(q)
                     \/ MoveDisconnect(q) \/ DisconnectMoved(q) \/ FiniComplete(q) \/ StartIo(q) \/ IoDone(q)
                     \/ Connect(q) \/ AnswerConnect(q)
    \/ AddCtrlr \/ AddAdminQpair \/ LookUpCtrlr \/ AddIoQpair
    \/ FreeFromQpair \/ RemoveCtrlr \/ DestructCtrlr
    \/ Enable \/ KeepAliveExpired \/ KeepAliveWalked \/ CcTimeout \/ AssociationExpired
    \/ \E b \in BOOLEAN : ResetOrShutDown(b) \/ ResetWalked(b)
    \/ \E w \in Walks : WalkGroup(w)

CtrlrSpec == CtrlrInit /\ [][CtrlrNext]_ctrlrVars

---------------------------------------------------------------------------
(* Properties *)

Crashes == {"no", "no admin queue at connect", "no admin queue at reset timeout",
            "freed queue pair"}

(* The variables keep their types. *)
CtrlrTypeOK ==
    /\ nc \in [state : {"none", "created", "listed", "removed", "freed"}, mask : SUBSET Nat,
               admin : BOOLEAN, en : BOOLEAN, cfs : BOOLEAN, destruct : BOOLEAN,
               progress : BOOLEAN, shn : BOOLEAN, keep_alive : BOOLEAN, association : BOOLEAN,
               cc_timer : BOOLEAN, cc_timeout : BOOLEAN]
    /\ nq \in [Qs -> [state : {"none", "active", "deactivating", "closing", "freed"},
                      ctrlr : BOOLEAN, io : BOOLEAN, moved : {"no", "started", "sent"},
                      connect : {"no", "subsystem", "controller", "answered", "done"}]]
    /\ ncWalk \in [Walks -> 0 .. NumPgs + 1]

Freeing(q) == \E i \in DOMAIN toCtrlr : toCtrlr[i] = Message("free", q)

(* The mask of the controller holds the ids of the queues that it has, one *)
(* queue each, from their connect until their message of release, so that  *)
(* the one that empties it is the last.                                    *)
Attached(q) ==
    /\ nq[q].ctrlr
    /\ nq[q].connect \in {"answered", "done"}
    /\ nq[q].state # "freed" \/ Freeing(q)

MaskIsAttached ==
    Alive => /\ nc.mask = {Qid[q] : q \in {p \in Qs : Attached(p)}}
             /\ \A p, q \in Qs : Attached(p) /\ Attached(q) /\ Qid[p] = Qid[q] => p = q

(* A controller that is freed is not used any more: no queue pair, message *)
(* or timer has it, and no reset is under way.                             *)
FreedUnused ==
    Alive /\ nc.state = "freed" =>
        /\ \A q \in Qs : nq[q].ctrlr => nq[q].state = "freed" /\ ~Freeing(q)
        /\ \A q \in Qs : nq[q].connect # "controller"
        /\ ~nc.keep_alive /\ ~nc.association /\ ~nc.cc_timer /\ ~nc.cc_timeout
        /\ ncWalk["reset"] = NoWalkOn

(* When the keep alive timer has expired and its walk is over, no queue of *)
(* the controller is left active.  Exceptions: one whose disconnect is on  *)
(* its way from another thread, for which the walk does nothing, and an    *)
(* I/O queue whose connect was behind the walk, be it that it was under    *)
(* way, or that the admin queue has still to be disconnected.              *)
ExpiredLeavesNone ==
    Alive /\ ncSeen.expired =>
        \A q \in Qs : Attached(q) => nq[q].state # "active" \/ q \in ncSeen.late \/ nq[q].moved # "no"

(* The controller of a run that ends badly had lost its admin queue, or a  *)
(* disconnect that was moved to another thread found its queue pair freed. *)
CrashesHaveCauses ==
    /\ ncSeen.crash \in Crashes
    /\ ncSeen.crash \in {"no admin queue at connect", "no admin queue at reset timeout"} =>
         nq[AdminQ].state \in {"closing", "freed"}

(* A controller and its queue pairs from the connect of the admin queue to *)
(* their end.                                                              *)
ControllerLife == MaskIsAttached /\ FreedUnused /\ ExpiredLeavesNone /\ CrashesHaveCauses
=============================================================================
