----------------------------- MODULE MCNvmfTarget -----------------------------
(* The subsystem, its reservations and its controllers for model checking. *)
(* They share no state: part names the one that moves, the others keep one *)
(* of their initial states.                                                *)
EXTENDS NvmfSubsystem, NvmfReservation, NvmfCtrlr, TLC

CONSTANTS
    qa, qi, q1, q2,     \* queue pairs: qa is the admin queue
    c1, c2,             \* RPCs and bdev events that change the subsystem
    h1, h2, h3,         \* hosts: h3 has no controller
    k1, k2              \* reservation keys

VARIABLE part

(* Subsystem: pairs of changes that meet, on two poll groups: the admin    *)
(* queue is on the first, an I/O queue on the second.                      *)
Pair(a, b) == (c1 :> a) @@ (c2 :> b)
Pairs == {Pair("hot_remove", "delete"), Pair("resize", "listen"), Pair("add_ns", "remove_ns"),
          Pair("listen", "stop")}
Place == (qa :> {1}) @@ (qi :> {2})

(* Reservations: a poll group per client, and the files found at start:    *)
(* write exclusive, registrants only, and all registrants.                 *)
Copy == (h1 :> 1) @@ (h2 :> 2)
File(t, holder, other) ==
    [ptpl |-> TRUE, rtype |-> t, crkey |-> k1, holder |-> holder,
     regs |-> <<[host |-> h1, key |-> k1], [host |-> other, key |-> k2]>>]
Files == {NoFile, File(1, h1, h2), File(4, h1, h2), File(5, NoHost, h3)}

(* Controllers: two I/O queues with the same id, on another poll group     *)
(* than the admin queue.                                                   *)
QueueIds == (qa :> 0) @@ (q1 :> 1) @@ (q2 :> 1)
QueueGroup == (qa :> 2) @@ (q1 :> 1) @@ (q2 :> 1)

(* Requests are alike, and so are the two I/O queues. *)
Sym == Permutations(Requests) \cup Permutations(IoQs)

vars == <<part, subsystemVars, reservationVars, ctrlrVars>>

Init ==
    /\ part \in {"subsystem", "reservation", "controller"}
    /\ SubsystemInit /\ ReservationInit /\ CtrlrInit
    /\ part = "subsystem"   \/ changer[c1].kind = "hot_remove"
    /\ part = "reservation" \/ resFile = NoFile

Next ==
    \/ part = "subsystem" /\ SubsystemNext /\ UNCHANGED <<part, reservationVars, ctrlrVars>>
    \/ part = "reservation" /\ ReservationNext /\ UNCHANGED <<part, subsystemVars, ctrlrVars>>
    \/ part = "controller" /\ CtrlrNext /\ UNCHANGED <<part, subsystemVars, reservationVars>>

Spec == Init /\ [][Next]_vars

(* The types of the three parts, each explained in its module. *)
TargetTypeOK == SubsystemTypeOK /\ ReservationTypeOK /\ CtrlrTypeOK
===============================================================================
