----------------------------- MODULE SumpIoProofs -----------------------------
(***************************************************************************)
(* Proofs about SumpIo: its safety properties, for every number of paths,  *)
(* I/Os, requests and outstanding probes; and about SumpData: it keeps     *)
(* every property of SumpIo, loses no acknowledged write to failover, and  *)
(* implements BlockDevice.                                                 *)
(***************************************************************************)
EXTENDS SumpData, TLAPS

(* The first available path, when there is one. *)
LEMMA FirstAvailableChoice ==
    ASSUME NEW n \in 1 .. 4, NEW av \in [PathIds(n) -> BOOLEAN],
           AvailablePaths(n, av) # {}
    PROVE  FirstAvailable(n, av) \in AvailablePaths(n, av)
<1> DEFINE A == AvailablePaths(n, av)
<1>1. A \in SUBSET (0 .. 3)
  BY DEF AvailablePaths, PathIds
<1>2. \E p \in A : \A q \in A : p <= q
    <2>1. CASE 0 \in A
      BY <1>1, <2>1
    <2>2. CASE 0 \notin A /\ 1 \in A
      BY <1>1, <2>2
    <2>3. CASE 0 \notin A /\ 1 \notin A /\ 2 \in A
      BY <1>1, <2>3
    <2>4. CASE 0 \notin A /\ 1 \notin A /\ 2 \notin A
        <3>1. A = {3} BY <1>1, <2>4
        <3> QED BY <3>1
    <2> QED BY <2>1, <2>2, <2>3, <2>4
<1> QED BY <1>2 DEF FirstAvailable

(* The hash selector returns an available path, or NULL when none is. *)
LEMMA HashPathChoice ==
    ASSUME NEW n \in 1 .. 4, NEW av \in [PathIds(n) -> BOOLEAN],
           NEW r \in [offset : Nat, num : Nat, bad : BOOLEAN], r.num > 0
    PROVE  \/ HashPath(n, av, r) \in AvailablePaths(n, av)
           \/ HashPath(n, av, r) = NoPath /\ AvailablePaths(n, av) = {}
<1> DEFINE quotient == r.offset \div r.num
           chosen == quotient % n
<1>1. quotient \in Int
  OBVIOUS
<1>2. chosen \in PathIds(n)
    <2> HIDE DEF quotient
    <2> QED BY <1>1 DEF PathIds
<1> HIDE DEF chosen
<1>3. CASE av[chosen]
  BY <1>2, <1>3 DEF HashPath, AvailablePaths, chosen
<1>4. CASE ~av[chosen]
    <2>1. HashPath(n, av, r) = FirstAvailable(n, av)
      BY <1>4 DEF HashPath, chosen
    <2> QED BY <2>1, FirstAvailableChoice DEF FirstAvailable
<1> QED BY <1>3, <1>4

-------------------------------------------------------------------------------
(* What ump_bdev_submit_request does to an I/O, whichever of its ways out
   it takes: only that I/O is touched, and if it is in flight afterwards
   it is on a path that av says is available. *)
LEMMA SubmitRequestEffect ==
    ASSUME TypeOK, Running, NEW i \in Ios, NEW r \in Requests,
           NEW av \in [Paths -> BOOLEAN], ctx[i].real = "caller",
           SubmitRequest(i, r, av, "caller")
    PROVE  /\ stage' \in [Ios -> {"idle", "inflight", "lost"}]
           /\ cb' \in [Ios -> Callbacks]
           /\ ctx' \in [Ios -> Ctxs]
           /\ fault' \in Faults \ {"use_after_free"}
           /\ \A j \in Ios \ {i} :
                stage'[j] = stage[j] /\ cb'[j] = cb[j] /\ ctx'[j] = ctx[j]
           /\ stage'[i] \in {"inflight", "lost"}
           /\ ctx'[i].real = "caller"
           /\ stage'[i] = "inflight" =>
                ctx'[i].iopath \in Paths /\ av[ctx'[i].iopath]
           /\ stage'[i] = "lost" /\ cb'[i] = "ump" /\ r.num > 0 =>
                fault' = "null_iopath" /\ \A p \in Paths : ~av[p]
<1>1. CASE SubmitWithoutCtx(i, "caller")
  BY <1>1 DEF SubmitWithoutCtx, TypeOK, Callbacks, Running, Faults
<1>2. CASE SubmitToPath(i, r, av, "caller")
    <2> DEFINE p == IF r.num = 0 THEN NoPath ELSE HashPath(NumPaths, av, r)
    <2>1. r \in [offset : Nat, num : Nat, bad : BOOLEAN]
      BY RequestsAssumption
    <2>2. \/ p \in Paths /\ av[p]
          \/ p = NoPath /\ (r.num > 0 => \A q \in Paths : ~av[q])
        <3>1. CASE r.num = 0
          BY <3>1
        <3>2. CASE r.num > 0
          BY <2>1, <3>2, HashPathChoice, NumPathsAssumption DEF Paths, AvailablePaths
        <3> QED BY <2>1, <3>1, <3>2
    <2>3. NoPath \notin Paths
      BY NumPathsAssumption DEF NoPath, Paths, PathIds
    <2>4. /\ cb' = [cb EXCEPT ![i] = "ump"]
          /\ ctx' = [ctx EXCEPT ![i] = [real |-> "caller", iopath |-> p]]
          /\ stage' = [stage EXCEPT ![i] = IF p = NoPath THEN "lost" ELSE "inflight"]
          /\ fault' = IF r.num = 0 THEN "div_by_zero"
                      ELSE IF p = NoPath THEN "null_iopath" ELSE fault
      BY <1>2 DEF SubmitToPath
    <2> HIDE DEF p
    <2> QED BY <2>1, <2>2, <2>3, <2>4 DEF TypeOK, Callbacks, Ctxs, Running, Faults
<1> QED BY <1>1, <1>2 DEF SubmitRequest

-------------------------------------------------------------------------------

(* The invariant holds at first. *)
LEMMA InitEstablishesIndInv == Init => IndInv
<1> SUFFICES ASSUME Init PROVE IndInv
  OBVIOUS
<1>1. TypeOK
    <2>1. NoCtx \in Ctxs /\ 0 \in 0 .. MaxProbes
      BY MaxProbesAssumption DEF NoCtx, Ctxs, Callbacks
    <2> QED BY <2>1 DEF Init, TypeOK, Callbacks, Faults
<1>2. WrappedOnce
  BY DEF Init, WrappedOnce, NoCtx
<1>3. FailbackPhases
  BY DEF Init, FailbackPhases
<1>4. ExactlyOnce /\ LostOnlyWithoutPath /\ FreedOnlyWhenOverlapped
  BY DEF Init, ExactlyOnce, LostOnlyWithoutPath, FreedOnlyWhenOverlapped
<1> QED BY <1>1, <1>2, <1>3, <1>4 DEF IndInv

(* Submit keeps the invariant. *)
LEMMA SubmitKeepsIndInv ==
    ASSUME IndInv, NEW i \in Ios, Submit(i)
    PROVE  IndInv'
<1> USE DEF IndInv
<1>1. PICK r \in Requests :
        /\ request' = [request EXCEPT ![i] = r]
        /\ SubmitRequest(i, r, available, "caller")
  BY DEF Submit
<1>2. /\ Running /\ channel = "open" /\ stage[i] = "idle"
      /\ owed' = [owed EXCEPT ![i] = @ + 1]
      /\ UNCHANGED <<pathVars, channel>>
  BY DEF Submit
<1>3. available \in [Paths -> BOOLEAN] /\ ctx[i].real = "caller"
  BY DEF TypeOK, WrappedOnce
<1>4. /\ stage' \in [Ios -> {"idle", "inflight", "lost"}]
      /\ cb' \in [Ios -> Callbacks]
      /\ ctx' \in [Ios -> Ctxs]
      /\ fault' \in Faults \ {"use_after_free"}
      /\ \A j \in Ios \ {i} :
            stage'[j] = stage[j] /\ cb'[j] = cb[j] /\ ctx'[j] = ctx[j]
      /\ stage'[i] \in {"inflight", "lost"}
      /\ ctx'[i].real = "caller"
      /\ stage'[i] = "inflight" => ctx'[i].iopath \in Paths
      /\ stage'[i] = "lost" /\ cb'[i] = "ump" /\ r.num > 0 =>
            fault' = "null_iopath" /\ \A p \in Paths : ~available[p]
  BY <1>1, <1>2, <1>3, SubmitRequestEffect
<1>5. TypeOK'
    <2>1. owed' \in [Ios -> Nat] /\ request' \in [Ios -> Requests \cup {NoRequest}]
      BY <1>1, <1>2 DEF TypeOK
    <2> QED BY <1>2, <1>4, <2>1 DEF TypeOK, pathVars
<1>6. ExactlyOnce'
  BY <1>2, <1>4 DEF ExactlyOnce, TypeOK
<1>7. LostOnlyWithoutPath'
  BY <1>1, <1>2, <1>4 DEF LostOnlyWithoutPath, TypeOK, Running, pathVars
<1>9. FreedOnlyWhenOverlapped'
  BY <1>4 DEF FreedOnlyWhenOverlapped
<1>10. WrappedOnce'
  BY <1>1, <1>4 DEF WrappedOnce, TypeOK
<1>11. FailbackPhases'
  BY <1>2 DEF FailbackPhases, pathVars, Running
<1> QED BY <1>5, <1>6, <1>7, <1>9, <1>10, <1>11

(* CompleteOk keeps the invariant. *)
LEMMA CompleteOkKeepsIndInv ==
    ASSUME IndInv, NEW i \in Ios, CompleteOk(i)
    PROVE  IndInv'
<1> USE DEF IndInv, CompleteOk, ioVars, pathVars
<1>1. TypeOK'
  BY DEF TypeOK, WrappedOnce, ExactlyOnce
<1>2. ExactlyOnce'
  BY DEF ExactlyOnce, TypeOK, WrappedOnce
<1>3. LostOnlyWithoutPath' /\ FreedOnlyWhenOverlapped'
  BY DEF LostOnlyWithoutPath, FreedOnlyWhenOverlapped, TypeOK
<1>4. WrappedOnce'
  BY DEF WrappedOnce, TypeOK
<1>5. FailbackPhases'
  BY DEF FailbackPhases
<1> QED BY <1>1, <1>2, <1>3, <1>4, <1>5

(* What ump_failback does: nothing to a path already handed over, and
   otherwise a live context and a running poller for the path. *)
LEMMA FailbackEffect ==
    ASSUME IndInv, Running, NEW i \in Ios, NEW p \in Paths,
           request[i] \in Requests, Failback(p, i)
    PROVE  /\ reconnecting' = [reconnecting EXCEPT ![p] = TRUE]
           /\ poller' \in [Paths -> {"none", "running", "paused"}]
           /\ failback' \in [Paths -> Failbacks \cup {NoFailback}]
           /\ \A q \in Paths : q # p => poller'[q] = poller[q] /\ failback'[q] = failback[q]
           /\ \/ poller[p] # "none" /\ poller'[p] = poller[p] /\ failback'[p] = failback[p]
              \/ /\ poller[p] = "none" /\ probes[p] = 0
                 /\ poller'[p] = "running"
                 /\ failback'[p] \in Failbacks /\ failback'[p].memory = "live"
<1> USE DEF IndInv
<1>1. CASE reconnecting[p]
  BY <1>1 DEF Failback, TypeOK, FailbackPhases, Running
<1>2. CASE ~reconnecting[p]
    <2> DEFINE live == [memory |-> "live", io |-> i, request |-> request[i]]
    <2>1. live \in Failbacks /\ live.memory = "live"
      BY DEF Failbacks
    <2>2. /\ reconnecting' = [reconnecting EXCEPT ![p] = TRUE]
          /\ poller' = [poller EXCEPT ![p] = "running"]
          /\ failback' = [failback EXCEPT ![p] = live]
      BY <1>2 DEF Failback
    <2>3. poller[p] = "none" /\ probes[p] = 0
      BY <1>2 DEF FailbackPhases, TypeOK
    <2> HIDE DEF live
    <2> QED BY <2>1, <2>2, <2>3 DEF TypeOK
<1> QED BY <1>1, <1>2

(* CompleteFail keeps the invariant. *)
LEMMA CompleteFailKeepsIndInv ==
    ASSUME IndInv, NEW i \in Ios, CompleteFail(i)
    PROVE  IndInv'
<1> USE DEF IndInv
<1> DEFINE p == ctx[i].iopath
<1>1. /\ Running /\ stage[i] = "inflight"
      /\ p \in Paths /\ request[i] \in Requests /\ ctx[i].real = "caller"
  BY DEF CompleteFail, FailOver, WrappedOnce
<1>2. /\ available' = [available EXCEPT ![p] = FALSE]
      /\ Failback(p, i)
      /\ SubmitRequest(i, request[i], available', "caller")
      /\ Relapse(p)
      /\ UNCHANGED <<owed, request, probes, overlapped, channel>>
  BY <1>1 DEF CompleteFail, FailOver, Marked
<1>3. available' \in [Paths -> BOOLEAN]
  BY <1>2 DEF TypeOK
<1> HIDE DEF p
<1>4. /\ stage' \in [Ios -> {"idle", "inflight", "lost"}]
      /\ cb' \in [Ios -> Callbacks]
      /\ ctx' \in [Ios -> Ctxs]
      /\ fault' \in Faults \ {"use_after_free"}
      /\ \A j \in Ios \ {i} :
            stage'[j] = stage[j] /\ cb'[j] = cb[j] /\ ctx'[j] = ctx[j]
      /\ stage'[i] \in {"inflight", "lost"}
      /\ ctx'[i].real = "caller"
      /\ stage'[i] = "inflight" => ctx'[i].iopath \in Paths
      /\ stage'[i] = "lost" /\ cb'[i] = "ump" /\ request[i].num > 0 =>
            fault' = "null_iopath" /\ \A q \in Paths : ~available'[q]
  BY <1>1, <1>2, <1>3, SubmitRequestEffect
<1>5. /\ reconnecting' = [reconnecting EXCEPT ![p] = TRUE]
      /\ poller' \in [Paths -> {"none", "running", "paused"}]
      /\ failback' \in [Paths -> Failbacks \cup {NoFailback}]
      /\ \A q \in Paths : q # p => poller'[q] = poller[q] /\ failback'[q] = failback[q]
      /\ \/ poller[p] # "none" /\ poller'[p] = poller[p] /\ failback'[p] = failback[p]
         \/ /\ poller[p] = "none" /\ probes[p] = 0
            /\ poller'[p] = "running"
            /\ failback'[p] \in Failbacks /\ failback'[p].memory = "live"
  BY <1>1, <1>2, FailbackEffect
<1>6. TypeOK'
  <2>1. relapsed' \subseteq Paths
    BY <1>1, <1>2 DEF Relapse, TypeOK
  <2> QED BY <1>2, <1>3, <1>4, <1>5, <2>1 DEF TypeOK
<1>7. ExactlyOnce'
  BY <1>1, <1>2, <1>4 DEF ExactlyOnce
<1>8. LostOnlyWithoutPath'
  BY <1>1, <1>2, <1>4 DEF LostOnlyWithoutPath, Running
<1>10. FreedOnlyWhenOverlapped'
  BY <1>4 DEF FreedOnlyWhenOverlapped
<1>11. WrappedOnce'
  BY <1>1, <1>2, <1>4 DEF WrappedOnce
<1>12. FailbackPhases'
  <2>1. ~available'[p] /\ \A q \in Paths : q # p =>
            available'[q] = available[q] /\ (q \in relapsed' <=> q \in relapsed)
    BY <1>1, <1>2 DEF Relapse, TypeOK
  <2>2. poller[p] = "paused" => p \in relapsed'
    BY <1>1, <1>2 DEF Relapse, FailbackPhases
  <2>3. poller[p] # "paused" => p \notin relapsed'
    BY <1>1, <1>2, <1>5 DEF Relapse, FailbackPhases, Running
  <2> QED BY <1>1, <1>2, <1>5, <2>1, <2>2, <2>3 DEF FailbackPhases, TypeOK, Running
<1> QED BY <1>6, <1>7, <1>8, <1>10, <1>11, <1>12

(* CompleteFailWithoutFailback keeps the invariant. *)
LEMMA CompleteFailWithoutFailbackKeepsIndInv ==
    ASSUME IndInv, NEW i \in Ios, CompleteFailWithoutFailback(i)
    PROVE  IndInv'
<1> USE DEF IndInv, ioVars
<1> DEFINE p == ctx[i].iopath
<1>1. /\ Running /\ p \in Paths /\ ~reconnecting[p]
      /\ available' = [available EXCEPT ![p] = FALSE]
      /\ reconnecting' = [reconnecting EXCEPT ![p] = TRUE]
      /\ fault' = "null_ctx"
      /\ UNCHANGED <<ioVars, poller, failback, probes, overlapped, relapsed, channel>>
  BY DEF CompleteFailWithoutFailback, WrappedOnce
<1> HIDE DEF p
<1>2. TypeOK'
  BY <1>1 DEF TypeOK, Faults
<1>3. ExactlyOnce' /\ WrappedOnce' /\ FreedOnlyWhenOverlapped'
  BY <1>1 DEF ExactlyOnce, WrappedOnce, FreedOnlyWhenOverlapped
<1>4. LostOnlyWithoutPath'
  BY <1>1 DEF LostOnlyWithoutPath, Running
<1>6. FailbackPhases'
  BY <1>1 DEF FailbackPhases, TypeOK
<1> QED BY <1>2, <1>3, <1>4, <1>6

(* FailbackPoll keeps the invariant. *)
LEMMA FailbackPollKeepsIndInv ==
    ASSUME IndInv, NEW p \in Paths, FailbackPoll(p)
    PROVE  IndInv'
<1> USE DEF IndInv, ioVars
<1>1. /\ Running /\ poller[p] = "running" /\ probes[p] < MaxProbes
      /\ failback[p].memory = "live"
      /\ UNCHANGED <<ioVars, available, reconnecting, poller, failback, relapsed, channel>>
  BY DEF FailbackPoll, FailbackPhases
<1>2. CASE channel = "open"
    <2>1. /\ probes' = [probes EXCEPT ![p] = @ + 1]
          /\ overlapped' = (overlapped \/ probes[p] > 0)
          /\ fault' = fault
      BY <1>1, <1>2 DEF FailbackPoll, FailbackUsable
    <2>2. TypeOK'
      BY <1>1, <2>1, MaxProbesAssumption DEF TypeOK
    <2>3. FailbackPhases'
      BY <1>1, <2>1 DEF FailbackPhases, TypeOK
    <2>4. ExactlyOnce' /\ WrappedOnce' /\ LostOnlyWithoutPath'
      BY <1>1, <2>1 DEF ExactlyOnce, WrappedOnce, LostOnlyWithoutPath
    <2>5. FreedOnlyWhenOverlapped'
      BY <1>1, <2>1 DEF FreedOnlyWhenOverlapped, Running
    <2> QED BY <2>2, <2>3, <2>4, <2>5
<1>3. CASE channel # "open"
    <2>1. fault' = "use_after_free" /\ UNCHANGED <<probes, overlapped>>
      BY <1>1, <1>3 DEF FailbackPoll, FailbackUsable
    <2>2. channel' = "destroyed"
      BY <1>1, <1>3 DEF TypeOK
    <2>3. TypeOK' /\ FailbackPhases'
      BY <1>1, <2>1 DEF TypeOK, FailbackPhases, Faults, Running
    <2>4. ExactlyOnce' /\ WrappedOnce' /\ FreedOnlyWhenOverlapped'
      BY <1>1, <2>1, <2>2 DEF ExactlyOnce, WrappedOnce, FreedOnlyWhenOverlapped
    <2>5. LostOnlyWithoutPath'
      BY <1>1 DEF LostOnlyWithoutPath, Running
    <2> QED BY <2>3, <2>4, <2>5
<1> QED BY <1>2, <1>3

(* A probe that ends finds its context gone only if it overlapped another. *)
LEMMA ProbeContext ==
    ASSUME IndInv, Running, NEW p \in Paths, probes[p] > 0
    PROVE  /\ poller[p] # "none" /\ failback[p] \in Failbacks
           /\ failback[p].memory # "live" => overlapped
           /\ failback[p].memory = "live" => poller[p] = "running"
  BY DEF IndInv, FailbackPhases, TypeOK, Failbacks

(* An answered probe is one fewer out. *)
LEMMA OneProbeLess ==
    ASSUME TypeOK, NEW p \in Paths, probes[p] > 0,
           probes' = [probes EXCEPT ![p] = @ - 1]
    PROVE  probes' \in [Paths -> 0 .. MaxProbes]
<1>1. probes[p] - 1 \in 0 .. MaxProbes
  BY MaxProbesAssumption DEF TypeOK
<1> QED BY <1>1 DEF TypeOK

(* ProbeOk keeps the invariant. *)
LEMMA ProbeOkKeepsIndInv ==
    ASSUME IndInv, NEW p \in Paths, ProbeOk(p)
    PROVE  IndInv'
<1> USE DEF IndInv, ioVars
<1>1. /\ Running /\ probes[p] > 0
      /\ probes' = [probes EXCEPT ![p] = @ - 1]
      /\ UNCHANGED <<ioVars, reconnecting, overlapped, relapsed, channel>>
  BY DEF ProbeOk
<1>2. /\ poller[p] # "none" /\ failback[p] \in Failbacks
      /\ failback[p].memory # "live" => overlapped
      /\ failback[p].memory = "live" => poller[p] = "running"
  BY <1>1, ProbeContext
<1>3. CASE FailbackUsable(p)
    <2> DEFINE freed == [failback[p] EXCEPT !.memory = "freed"]
    <2>1. freed \in Failbacks /\ freed.memory = "freed"
      BY <1>2 DEF Failbacks
    <2>2. /\ available' = [available EXCEPT ![p] = TRUE]
          /\ poller' = [poller EXCEPT ![p] = "paused"]
          /\ failback' = [failback EXCEPT ![p] = freed]
          /\ fault' = fault
      BY <1>3 DEF ProbeOk
    <2> HIDE DEF freed
    <2>3. TypeOK'
      BY <1>1, <2>1, <2>2, OneProbeLess DEF TypeOK
    <2>4. FailbackPhases'
      BY <1>1, <1>2, <2>1, <2>2 DEF FailbackPhases, TypeOK
    <2>6. ExactlyOnce' /\ WrappedOnce' /\ FreedOnlyWhenOverlapped'
      BY <1>1, <2>2 DEF ExactlyOnce, WrappedOnce, FreedOnlyWhenOverlapped
    <2>7. LostOnlyWithoutPath'
      BY <1>1, <2>2 DEF LostOnlyWithoutPath, Running
    <2> QED BY <2>3, <2>4, <2>6, <2>7
<1>4. CASE ~FailbackUsable(p)
    <2>1. fault' = "use_after_free" /\ UNCHANGED <<available, poller, failback>>
      BY <1>4 DEF ProbeOk
    <2>2. overlapped' \/ channel' = "destroyed"
      BY <1>1, <1>2, <1>4 DEF FailbackUsable, TypeOK
    <2>3. TypeOK'
      BY <1>1, <2>1, OneProbeLess DEF TypeOK, Faults
    <2>4. FailbackPhases'
      BY <1>1, <1>2, <2>1 DEF FailbackPhases, TypeOK, Running
    <2>5. ExactlyOnce' /\ WrappedOnce' /\ FreedOnlyWhenOverlapped'
      BY <1>1, <2>1, <2>2 DEF ExactlyOnce, WrappedOnce, FreedOnlyWhenOverlapped
    <2>6. LostOnlyWithoutPath'
      BY <1>1 DEF LostOnlyWithoutPath, Running
    <2> QED BY <2>3, <2>4, <2>5, <2>6
<1> QED BY <1>3, <1>4

(* ProbeFail keeps the invariant. *)
LEMMA ProbeFailKeepsIndInv ==
    ASSUME IndInv, NEW p \in Paths, ProbeFail(p)
    PROVE  IndInv'
<1> USE DEF IndInv, ioVars
<1>1. /\ Running /\ probes[p] > 0
      /\ probes' = [probes EXCEPT ![p] = @ - 1]
      /\ fault' = IF failback[p].memory = "live" THEN fault ELSE "use_after_free"
      /\ UNCHANGED <<ioVars, available, reconnecting, poller, failback, overlapped, relapsed, channel>>
  BY DEF ProbeFail
<1>2. poller[p] # "none" /\ (failback[p].memory # "live" => overlapped)
  BY <1>1, ProbeContext
<1>3. TypeOK'
  BY <1>1, OneProbeLess DEF TypeOK, Faults
<1>4. FailbackPhases'
  BY <1>1, <1>2 DEF FailbackPhases, TypeOK, Running
<1>5. ExactlyOnce' /\ WrappedOnce'
  BY <1>1 DEF ExactlyOnce, WrappedOnce
<1>6. LostOnlyWithoutPath' /\ FreedOnlyWhenOverlapped'
  BY <1>1, <1>2 DEF LostOnlyWithoutPath, FreedOnlyWhenOverlapped, Running
<1> QED BY <1>3, <1>4, <1>5, <1>6

(* Rest keeps the invariant. *)
LEMMA RestKeepsIndInv ==
    ASSUME IndInv, DestroyChannel \/ UNCHANGED vars
    PROVE  IndInv'
<1>1. UNCHANGED <<ioVars, pathVars, fault>> /\ channel' \in {channel, "destroyed"}
  BY DEF DestroyChannel, vars
<1> QED
  BY <1>1 DEF IndInv, ioVars, pathVars, TypeOK, ExactlyOnce, LostOnlyWithoutPath,
      FreedOnlyWhenOverlapped, WrappedOnce, FailbackPhases

(* IndInv is inductive. *)
LEMMA NextKeepsIndInv == IndInv /\ [Next]_vars => IndInv'
<1> SUFFICES ASSUME IndInv, [Next]_vars PROVE IndInv'
  OBVIOUS
<1>1. ASSUME NEW i \in Ios, Submit(i) PROVE IndInv'
  BY <1>1, SubmitKeepsIndInv
<1>2. ASSUME NEW i \in Ios, CompleteOk(i) PROVE IndInv'
  BY <1>2, CompleteOkKeepsIndInv
<1>3. ASSUME NEW i \in Ios, CompleteFail(i) PROVE IndInv'
  BY <1>3, CompleteFailKeepsIndInv
<1>4. ASSUME NEW i \in Ios, CompleteFailWithoutFailback(i) PROVE IndInv'
  BY <1>4, CompleteFailWithoutFailbackKeepsIndInv
<1>5. ASSUME NEW p \in Paths, FailbackPoll(p) PROVE IndInv'
  BY <1>5, FailbackPollKeepsIndInv
<1>6. ASSUME NEW p \in Paths, ProbeOk(p) PROVE IndInv'
  BY <1>6, ProbeOkKeepsIndInv
<1>7. ASSUME NEW p \in Paths, ProbeFail(p) PROVE IndInv'
  BY <1>7, ProbeFailKeepsIndInv
<1>8. CASE DestroyChannel \/ UNCHANGED vars
  BY <1>8, RestKeepsIndInv
<1> QED BY <1>1, <1>2, <1>3, <1>4, <1>5, <1>6, <1>7, <1>8 DEF Next

(* So it always holds. *)
LEMMA IndInvAlways == Spec => []IndInv
  BY InitEstablishesIndInv, NextKeepsIndInv, PTL DEF Spec

-------------------------------------------------------------------------------
(* Every variable always holds a value of its kind. *)
THEOREM Typing == Spec => []TypeOK
<1>1. IndInv => TypeOK
  BY DEF IndInv
<1> QED BY <1>1, IndInvAlways, PTL

(* However often its paths fail, an I/O is answered once: the completion
   callback is restored before every resubmission. *)
THEOREM AnsweredOnce == Spec => []ExactlyOnce
<1>1. IndInv => ExactlyOnce
  BY DEF IndInv
<1> QED BY <1>1, IndInvAlways, PTL

(* An I/O with blocks and a context is lost only to the NULL path, with
   every path of the channel marked unavailable. *)
THEOREM LostToNullPath == Spec => []LostOnlyWithoutPath
<1>1. IndInv => LostOnlyWithoutPath
  BY DEF IndInv
<1> QED BY <1>1, IndInvAlways, PTL

(* Every path out of service is being brought back by its poller on a live
   context, but for a path that failed again after a good probe; no path in
   service is probed. *)
THEOREM Supervision == Spec => []FailedPathsSupervised
<1>1. IndInv => FailedPathsSupervised
  BY DEF IndInv, TypeOK, FailbackPhases, FailedPathsSupervised, Supervised
<1> QED BY <1>1, IndInvAlways, PTL

(* Failback touches freed memory only after probes overlapped or the
   channel was destroyed. *)
THEOREM FreedUse == Spec => []FreedOnlyWhenOverlapped
<1>1. IndInv => FreedOnlyWhenOverlapped
  BY DEF IndInv
<1> QED BY <1>1, IndInvAlways, PTL

(* Every submission and every failover goes to an available path. *)
THEOREM Dispatch == Spec => DispatchedToAvailable
<1>1. ASSUME IndInv, NEW i \in Ios, Submit(i), stage'[i] = "inflight"
      PROVE  available'[ctx'[i].iopath]
    <2>1. PICK r \in Requests : SubmitRequest(i, r, available, "caller")
      BY <1>1 DEF Submit
    <2>2. TypeOK /\ Running /\ available' = available /\ available \in [Paths -> BOOLEAN]
          /\ ctx[i].real = "caller"
      BY <1>1 DEF Submit, pathVars, IndInv, TypeOK, WrappedOnce
    <2> QED BY <1>1, <2>1, <2>2, SubmitRequestEffect
<1>2. ASSUME IndInv, NEW i \in Ios, CompleteFail(i), stage'[i] = "inflight"
      PROVE  available'[ctx'[i].iopath]
    <2>1. TypeOK /\ Running /\ request[i] \in Requests /\ ctx[i].real = "caller"
      BY <1>2 DEF CompleteFail, FailOver, IndInv, WrappedOnce
    <2>2. available' \in [Paths -> BOOLEAN] /\ SubmitRequest(i, request[i], available', "caller")
      BY <1>2, <2>1 DEF CompleteFail, FailOver, Marked, TypeOK
    <2> QED BY <1>2, <2>1, <2>2, SubmitRequestEffect
<1>3. IndInv /\ [Next]_vars =>
        [\A i \in Ios :
            (Submit(i) \/ CompleteFail(i)) /\ stage'[i] = "inflight"
                => available'[ctx'[i].iopath]]_vars
  BY <1>1, <1>2
<1> QED BY <1>3, IndInvAlways, PTL DEF Spec, DispatchedToAvailable

-------------------------------------------------------------------------------
(* The channel with its data *)

(* Each step of SumpData is a step of SumpIo, or leaves it alone. *)
LEMMA DataStep == [DataNext]_allVars => [Next]_vars
<1>1. ASSUME NEW i \in Ios, DataSubmit(i) \/ DataCompleteOk(i) \/ DataCompleteFail(i)
      PROVE  Next
  BY <1>1 DEF DataSubmit, DataCompleteOk, DataCompleteFail, Next
<1>2. ASSUME NEW p \in Paths, DataProbe(p) \/ FailbackPoll(p)
      PROVE  Next
  BY <1>2 DEF DataProbe, Next
<1>3. DestroyChannel => Next
  BY DEF Next
<1>4. UNCHANGED allVars => UNCHANGED vars
  BY DEF allVars
<1> QED BY <1>1, <1>2, <1>3, <1>4 DEF DataNext

(* The invariant of SumpIo holds of the channel with its data. *)
LEMMA DataIndInvAlways == DataSpec => []IndInv
<1>1. DataInit => Init
  BY DEF DataInit
<1>2. DataSpec => Spec
  BY <1>1, DataStep, PTL DEF DataSpec, Spec
<1> QED BY <1>2, IndInvAlways, PTL

-------------------------------------------------------------------------------
(* The invariant of the data.  Besides the types: an extent nobody writes
   is current unless a probe was executed, and a failback context belongs
   to a transfer that failed. *)
FailbackOfFailed ==
    \A p \in Paths : failback[p] # NoFailback =>
        <<failback[p].io, failback[p].request.offset>> \in failed

DataInv ==
    /\ IndInv
    /\ DataTypeOK
    /\ CurrentUnlessReplayed
    /\ FailbackOfFailed

(* Requests address extents. *)
LEMMA OffsetsAreExtents ==
    /\ \A r \in Requests : r.offset \in Extents
    /\ TypeOK => \A i \in Ios : request[i].offset \in Extents
<1>1. \A r \in Requests : r.offset \in Extents
  BY DEF Extents
<1>2. NoRequest.offset \in Extents
  BY DEF Extents
<1> QED BY <1>1, <1>2 DEF TypeOK

(* The invariant holds at first. *)
LEMMA DataInitEstablishes == DataInit => DataInv
<1> SUFFICES ASSUME DataInit PROVE DataInv
  OBVIOUS
<1>1. IndInv
  BY InitEstablishesIndInv DEF DataInit
<1>2. DataTypeOK
    <2>1. 0 \in 0 .. MaxWrites
      BY MaxWritesAssumption
    <2> QED BY <1>1, <2>1 DEF DataInit, DataTypeOK, IndInv
<1>3. CurrentUnlessReplayed
  BY DEF DataInit, CurrentUnlessReplayed
<1>4. FailbackOfFailed
  BY DEF DataInit, Init, FailbackOfFailed
<1> QED BY <1>1, <1>2, <1>3, <1>4 DEF DataInv

(* DataSubmit keeps the invariant. *)
LEMMA DataSubmitKeeps ==
    ASSUME DataInv, IndInv', NEW i \in Ios, DataSubmit(i)
    PROVE  DataInv'
<1>1. PICK r \in Requests : request' = [request EXCEPT ![i] = r]
  BY DEF DataSubmit, Submit
<1>2. /\ owed' = [owed EXCEPT ![i] = @ + 1] /\ owed[i] = 0
      /\ failback' = failback
      /\ written < MaxWrites /\ written' = written + 1
      /\ buffer' = [buffer EXCEPT ![i] = written + 1]
      /\ UNCHANGED <<disk, acked, failed, replayed>>
  BY DEF DataSubmit, Submit, pathVars, DataInv, IndInv, ExactlyOnce
<1>3. DataTypeOK'
    <2>1. written' \in 0 .. MaxWrites
      BY <1>2, MaxWritesAssumption DEF DataInv, DataTypeOK
    <2> QED BY <1>2, <2>1 DEF DataInv, DataTypeOK, IndInv
<1>4. CurrentUnlessReplayed'
    <2> SUFFICES ASSUME ~replayed, NEW e \in Extents, Quiet(e)'
                 PROVE  disk[e] = acked[e]
      BY <1>2 DEF CurrentUnlessReplayed
    <2>1. Quiet(e)
      BY <1>1, <1>2 DEF Quiet, DataInv, IndInv, TypeOK
    <2> QED BY <2>1 DEF DataInv, CurrentUnlessReplayed
<1>5. FailbackOfFailed'
  BY <1>2 DEF DataInv, FailbackOfFailed
<1> QED BY <1>3, <1>4, <1>5 DEF DataInv

(* DataCompleteOk keeps the invariant. *)
LEMMA DataCompleteOkKeeps ==
    ASSUME DataInv, IndInv', NEW i \in Ios, DataCompleteOk(i)
    PROVE  DataInv'
<1> DEFINE o == request[i].offset
<1>1. /\ o \in Extents
      /\ disk' = [disk EXCEPT ![o] = buffer[i]]
      /\ acked' = [acked EXCEPT ![o] = buffer[i]]
      /\ owed' = [owed EXCEPT ![i] = @ - 1]
      /\ request' = request /\ failback' = failback
      /\ UNCHANGED <<buffer, written, failed, replayed>>
  BY OffsetsAreExtents DEF DataCompleteOk, CompleteOk, pathVars, Written, DataInv, IndInv, WrappedOnce
<1>2. DataTypeOK'
  BY <1>1 DEF DataInv, DataTypeOK, IndInv
<1>3. CurrentUnlessReplayed'
    <2> SUFFICES ASSUME ~replayed, NEW e \in Extents, Quiet(e)'
                 PROVE  disk'[e] = acked'[e]
      BY <1>1 DEF CurrentUnlessReplayed
    <2>1. CASE e = o
      BY <1>1, <2>1 DEF DataInv, DataTypeOK
    <2>2. CASE e # o
        <3>1. Quiet(e) BY <1>1, <2>2 DEF Quiet, DataInv, IndInv, TypeOK
        <3> QED BY <1>1, <2>2, <3>1 DEF DataInv, DataTypeOK, CurrentUnlessReplayed
    <2> QED BY <2>1, <2>2
<1>4. FailbackOfFailed'
  BY <1>1 DEF DataInv, FailbackOfFailed
<1> QED BY <1>2, <1>3, <1>4 DEF DataInv

(* DataCompleteFail keeps the invariant. *)
LEMMA DataCompleteFailKeeps ==
    ASSUME DataInv, IndInv', NEW i \in Ios, DataCompleteFail(i)
    PROVE  DataInv'
<1> DEFINE o == request[i].offset
           p == ctx[i].iopath
<1>1. /\ o \in Extents /\ p \in Paths /\ owed[i] = 1
      /\ disk' \in {disk, [disk EXCEPT ![o] = buffer[i]]}
      /\ failed' = failed \cup {<<i, o>>}
      /\ UNCHANGED <<owed, request, buffer, written, acked, replayed>>
  BY OffsetsAreExtents DEF DataCompleteFail, CompleteFail, FailOver, CompleteFailWithoutFailback,
      ioVars, Written, DataInv, IndInv, WrappedOnce, ExactlyOnce
<1>2. \/ failback' = failback
      \/ failback' = [failback EXCEPT ![p] = [memory |-> "live", io |-> i, request |-> request[i]]]
  BY DEF DataCompleteFail, CompleteFail, FailOver, CompleteFailWithoutFailback, Failback
<1>3. DataTypeOK'
  BY <1>1 DEF DataInv, DataTypeOK, IndInv
<1>4. CurrentUnlessReplayed'
    <2> SUFFICES ASSUME ~replayed, NEW e \in Extents, Quiet(e)'
                 PROVE  disk'[e] = acked'[e]
      BY <1>1 DEF CurrentUnlessReplayed
    <2>1. e # o /\ Quiet(e)
      BY <1>1 DEF Quiet
    <2> QED BY <1>1, <2>1 DEF DataInv, DataTypeOK, CurrentUnlessReplayed
<1>5. FailbackOfFailed'
  BY <1>1, <1>2 DEF DataInv, FailbackOfFailed, IndInv, TypeOK
<1> QED BY <1>3, <1>4, <1>5 DEF DataInv

(* A probe rewrites the extent of a transfer that failed, or nothing. *)
LEMMA DataProbeEffect ==
    ASSUME DataInv, NEW p \in Paths, DataProbe(p)
    PROVE  \E i \in Ios, e \in Extents :
              /\ <<i, e>> \in failed
              /\ \/ disk' = [disk EXCEPT ![e] = buffer[i]]
                 \/ disk' = disk /\ replayed' = replayed
              /\ disk' = [disk EXCEPT ![e] = buffer[i]] => replayed' = TRUE
              /\ disk' # [disk EXCEPT ![e] = buffer[i]] => replayed' = replayed
<1>1. Running /\ probes[p] > 0
  BY DEF DataProbe, ProbeOk, ProbeFail
<1>2. failback[p] \in Failbacks
  BY <1>1, ProbeContext DEF DataInv
<1>3. /\ failback[p].io \in Ios /\ failback[p].request.offset \in Extents
      /\ failback[p] # NoFailback
  BY <1>2, OffsetsAreExtents DEF Failbacks, NoFailback
<1>4. <<failback[p].io, failback[p].request.offset>> \in failed
  BY <1>3 DEF DataInv, FailbackOfFailed
<1>5. replayed \in BOOLEAN
  BY DEF DataInv, DataTypeOK
<1> QED BY <1>3, <1>4, <1>5 DEF DataProbe

(* DataProbe keeps the invariant. *)
LEMMA DataProbeKeeps ==
    ASSUME DataInv, IndInv', NEW p \in Paths, DataProbe(p)
    PROVE  DataInv'
<1>1. PICK i \in Ios, e \in Extents :
        /\ <<i, e>> \in failed
        /\ \/ disk' = [disk EXCEPT ![e] = buffer[i]]
           \/ disk' = disk /\ replayed' = replayed
        /\ disk' = [disk EXCEPT ![e] = buffer[i]] => replayed' = TRUE
        /\ disk' # [disk EXCEPT ![e] = buffer[i]] => replayed' = replayed
  BY DataProbeEffect
<1>2. UNCHANGED <<owed, request, buffer, written, acked, failed>>
  BY DEF DataProbe, ProbeOk, ProbeFail, ioVars
<1>3. \/ failback' = failback
      \/ failback[p] # NoFailback /\ failback' = [failback EXCEPT ![p].memory = "freed"]
    <2>1. CASE ProbeFail(p)
      BY <2>1 DEF ProbeFail
    <2>2. CASE ProbeOk(p)
      BY <2>2 DEF ProbeOk, FailbackUsable, NoFailback
    <2> QED BY <2>1, <2>2 DEF DataProbe
<1>4. DataTypeOK'
  BY <1>1, <1>2 DEF DataInv, DataTypeOK, IndInv
<1>5. CurrentUnlessReplayed'
  BY <1>1, <1>2 DEF DataInv, CurrentUnlessReplayed, Quiet
<1>6. FailbackOfFailed'
    <2>1. CASE failback' = failback
      BY <1>2, <2>1 DEF DataInv, FailbackOfFailed
    <2>2. CASE failback[p] # NoFailback /\ failback' = [failback EXCEPT ![p].memory = "freed"]
        <3>1. failback[p] \in Failbacks BY <2>2 DEF DataInv, IndInv, TypeOK
        <3>2. failback'[p].io = failback[p].io /\ failback'[p].request = failback[p].request
          BY <2>2, <3>1 DEF Failbacks, DataInv, IndInv, TypeOK
        <3>3. \A q \in Paths \ {p} : failback'[q] = failback[q]
          BY <2>2 DEF DataInv, IndInv, TypeOK
        <3> QED BY <1>2, <2>2, <3>2, <3>3 DEF DataInv, FailbackOfFailed
    <2> QED BY <1>3, <2>1, <2>2
<1> QED BY <1>4, <1>5, <1>6 DEF DataInv

(* The steps that touch no data keep the invariant. *)
LEMMA DataRestKeeps ==
    ASSUME DataInv, IndInv',
           \/ \E p \in Paths : FailbackPoll(p) /\ UNCHANGED dataVars
           \/ DestroyChannel /\ UNCHANGED dataVars
           \/ UNCHANGED allVars
    PROVE  DataInv'
<1>1. UNCHANGED <<owed, request, failback, dataVars>>
  BY DEF FailbackPoll, DestroyChannel, allVars, vars, ioVars, pathVars
<1> QED
  BY <1>1 DEF DataInv, DataTypeOK, IndInv, CurrentUnlessReplayed, Quiet, FailbackOfFailed, dataVars

(* Every step keeps it. *)
LEMMA DataNextKeeps == DataInv /\ [DataNext]_allVars => DataInv'
<1> SUFFICES ASSUME DataInv, [DataNext]_allVars PROVE DataInv'
  OBVIOUS
<1>1. IndInv'
  BY DataStep, NextKeepsIndInv DEF DataInv
<1> QED
  BY <1>1, DataSubmitKeeps, DataCompleteOkKeeps, DataCompleteFailKeeps, DataProbeKeeps,
     DataRestKeeps DEF DataNext

(* So it always holds. *)
LEMMA DataInvAlways == DataSpec => []DataInv
  BY DataInitEstablishes, DataNextKeeps, PTL DEF DataSpec

(* Every variable of SumpData always holds a value of its kind. *)
THEOREM DataTyping == DataSpec => []DataTypeOK
<1>1. DataInv => DataTypeOK
  BY DEF DataInv
<1> QED BY <1>1, DataInvAlways, PTL

(* Without a probe, no failover makes an extent go back behind the write
   that was acknowledged for it last. *)
THEOREM AcknowledgedWritesStay == DataSpec => []CurrentUnlessReplayed
<1>1. DataInv => CurrentUnlessReplayed
  BY DEF DataInv
<1> QED BY <1>1, DataInvAlways, PTL

-------------------------------------------------------------------------------
(* The refinement, action by action. *)
LEMMA SubmitWrites ==
    ASSUME DataInv, DataInv', NEW i \in Ios, DataSubmit(i)
    PROVE  Device!Next
<1> DEFINE Status == [j \in Ios |-> IF owed[j] = 0 THEN "idle" ELSE "pending"]
           At == [j \in Ios |-> request[j].offset]
<1>1. PICK r \in Requests : request' = [request EXCEPT ![i] = r]
  BY DEF DataSubmit, Submit
<1>2. owed[i] = 0 /\ owed' = [owed EXCEPT ![i] = owed[i] + 1]
  BY DEF DataSubmit, Submit, DataInv, IndInv, ExactlyOnce
<1>3. owed \in [Ios -> Nat] /\ request \in [Ios -> Requests \cup {NoRequest}]
  BY DEF DataInv, IndInv, TypeOK
<1>4. Status[i] = "idle" /\ Status' = [Status EXCEPT ![i] = "pending"]
    <2>1. owed'[i] # 0 /\ \A j \in Ios \ {i} : owed'[j] = owed[j]
      BY <1>2, <1>3
    <2>2. \A j \in Ios : Status'[j] = [Status EXCEPT ![i] = "pending"][j]
      BY <2>1
    <2>3. Status[i] = "idle"
      BY <1>2
    <2> QED BY <2>2, <2>3
<1>5. At' = [At EXCEPT ![i] = r.offset]
  BY <1>1, <1>3
<1>6. /\ \E v \in 0 .. MaxWrites : buffer' = [buffer EXCEPT ![i] = v]
      /\ UNCHANGED <<disk, failed>>
  BY MaxWritesAssumption DEF DataSubmit, DataInv, DataTypeOK
<1>7. r.offset \in Extents
  BY OffsetsAreExtents
<1>8. Device!Write(i, r.offset)
  BY <1>4, <1>5, <1>6 DEF Device!Write
<1> QED BY <1>7, <1>8 DEF Device!Next

(* A success is the device's answer. *)
LEMMA CompleteOkAnswers ==
    ASSUME DataInv, NEW i \in Ios, DataCompleteOk(i)
    PROVE  Device!Next
<1> DEFINE Status == [j \in Ios |-> IF owed[j] = 0 THEN "idle" ELSE "pending"]
           At == [j \in Ios |-> request[j].offset]
<1>1. owed[i] = 1 /\ owed' = [owed EXCEPT ![i] = owed[i] - 1] /\ request' = request
  BY DEF DataCompleteOk, CompleteOk, DataInv, IndInv, ExactlyOnce, WrappedOnce
<1>2. owed \in [Ios -> Nat]
  BY DEF DataInv, IndInv, TypeOK
<1>3. Status[i] = "pending" /\ Status' = [Status EXCEPT ![i] = "idle"]
    <2>1. owed'[i] = 0 /\ \A j \in Ios \ {i} : owed'[j] = owed[j]
      BY <1>1, <1>2
    <2>2. \A j \in Ios : Status'[j] = [Status EXCEPT ![i] = "idle"][j]
      BY <2>1
    <2>3. Status[i] = "pending"
      BY <1>1
    <2> QED BY <2>2, <2>3
<1>4. At' = At /\ At[i] = request[i].offset
  BY <1>1
<1>5. /\ disk' = [disk EXCEPT ![request[i].offset] = buffer[i]]
      /\ UNCHANGED <<buffer, failed>>
  BY DEF DataCompleteOk, Written
<1>6. Device!Answer(i)
  BY <1>3, <1>4, <1>5 DEF Device!Answer
<1> QED BY <1>6 DEF Device!Next

(* A failure is the device's failed transfer. *)
LEMMA CompleteFailFails ==
    ASSUME DataInv, NEW i \in Ios, DataCompleteFail(i)
    PROVE  Device!Next
<1>1. /\ owed[i] = 1
      /\ disk' \in {disk, [disk EXCEPT ![request[i].offset] = buffer[i]]}
      /\ failed' = failed \cup {<<i, request[i].offset>>}
      /\ UNCHANGED <<owed, request, buffer>>
  BY DEF DataCompleteFail, CompleteFail, FailOver, CompleteFailWithoutFailback, ioVars,
      Written, DataInv, IndInv, ExactlyOnce
<1>2. Device!FailTransfer(i)
  BY <1>1 DEF Device!FailTransfer
<1> QED BY <1>2 DEF Device!Next

(* A probe is the device's replay. *)
LEMMA ProbeReplays ==
    ASSUME DataInv, NEW p \in Paths, DataProbe(p)
    PROVE  Device!Next \/ UNCHANGED Device!vars
<1>1. PICK i \in Ios, e \in Extents :
        <<i, e>> \in failed /\ (disk' = [disk EXCEPT ![e] = buffer[i]] \/ disk' = disk)
  BY DataProbeEffect
<1>2. UNCHANGED <<owed, request, buffer, failed>>
  BY DEF DataProbe, ProbeOk, ProbeFail, ioVars
<1>3. CASE disk' = [disk EXCEPT ![e] = buffer[i]]
    <2>1. Device!Replay(i, e)
      BY <1>1, <1>2, <1>3 DEF Device!Replay
    <2> QED BY <2>1 DEF Device!Next
<1>4. CASE disk' = disk
  BY <1>2, <1>4 DEF Device!vars
<1> QED BY <1>1, <1>3, <1>4

(* The device does not notice the other steps. *)
LEMMA RestStutters ==
    ASSUME \/ \E p \in Paths : FailbackPoll(p) /\ UNCHANGED dataVars
           \/ DestroyChannel /\ UNCHANGED dataVars
           \/ UNCHANGED allVars
    PROVE  UNCHANGED Device!vars
<1>1. UNCHANGED <<owed, request, dataVars>>
  BY DEF FailbackPoll, DestroyChannel, allVars, vars, ioVars
<1> QED BY <1>1 DEF Device!vars, dataVars

(* The channel implements the abstract block device: each write is
   answered once and is then on the disk, and nothing else reaches the
   disk but transfers that failed on a path. *)
THEOREM ImplementsDevice == DataSpec => DeviceSpec
<1>1. DataInit => Device!Init
    <2> SUFFICES ASSUME DataInit PROVE Device!Init
      OBVIOUS
    <2>1. 0 \in 0 .. MaxWrites /\ NoRequest.offset \in Extents
      BY MaxWritesAssumption DEF Extents
    <2> QED BY <2>1 DEF DataInit, Init, Device!Init
<1>2. DataInv /\ DataInv' /\ [DataNext]_allVars => [Device!Next]_(Device!vars)
    <2> SUFFICES ASSUME DataInv, DataInv', [DataNext]_allVars
                 PROVE  Device!Next \/ UNCHANGED Device!vars
      OBVIOUS
    <2> QED
      BY SubmitWrites, CompleteOkAnswers, CompleteFailFails, ProbeReplays, RestStutters DEF DataNext
<1> QED BY <1>1, <1>2, DataInvAlways, PTL DEF DataSpec, DeviceSpec, Device!Spec
===============================================================================
