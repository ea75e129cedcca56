------------------------- MODULE NvmfSubsystemProofs -------------------------
(***************************************************************************)
(* Proofs about NvmfSubsystem, for every number of poll groups, namespaces,*)
(* queue pairs, requests and changers, and every placement: the poll       *)
(* groups follow the subsystem, the counters that a pause waits for are    *)
(* exact, and a namespace leaves without I/O on it.                        *)
(***************************************************************************)
EXTENDS NvmfSubsystem, FiniteSetTheorems, TLAPS

---------------------------------------------------------------------------
(* Types *)

SubsysType == [state : SubsystemStates, changing : BOOLEAN, ns : SUBSET Nsids,
               destroying : BOOLEAN, destroyed : BOOLEAN]
ChangeType == [on : BOOLEAN, from : SubsystemStates, to : SubsystemStates,
               ns : Nsids \cup {NoNs, AllNs}, at : 1 .. NumGroups + 1, failed : BOOLEAN,
               revert : BOOLEAN, owner : Changers \cup {NoChanger}]
GroupType == [state : SubsystemStates, mgmt : 0 .. CounterMod - 1, cb : BOOLEAN,
              num_ns : BOOLEAN, removing : BOOLEAN, inited : BOOLEAN]
SlotType == [state : SubsystemStates, io : 0 .. CounterMod - 1, channel : BOOLEAN]
QpairType == [state : {"none", "active", "deactivating", "freed"}, group : Groups,
              ctrlr : BOOLEAN, received : BOOLEAN]
Places == {"idle", "queued", "stale", "lost", "retrying", "running", "parked"}
RequestType == [at : Places, qp : Qpairs, kind : Kinds, ns : Nsids \cup {NoNs}]
ChangerType == [kind : AllKinds, ns : Nsids,
                pc : {"idle", "retry", "pausing", "listening", "resuming", "done"}]
SeenType == [late : SUBSET Qpairs, leaks : SUBSET (Groups \X (Nsids \cup {NoNs})),
             unpaused : SUBSET Nsids]

Types ==
    /\ subsys \in SubsysType
    /\ change \in ChangeType
    /\ sgroup \in [Groups -> GroupType]
    /\ nsInfo \in [Groups -> [Nsids -> SlotType]]
    /\ qp \in [Qpairs -> QpairType]
    /\ request \in [Requests -> RequestType]
    /\ changer \in [Changers -> ChangerType]
    /\ seen \in SeenType

(* The type invariant of the runs follows. *)
LEMMA TypesSuffice == Types => SubsystemTypeOK
  BY DEF Types, SubsystemTypeOK, SubsysType, ChangeType, GroupType, SlotType, QpairType, Places,
         RequestType, ChangerType, SeenType

(* There is a poll group, the counters can count, and what stands for
   nothing has its type. *)
LEMMA ConstantFacts ==
    /\ NumGroups \in Nat /\ NumGroups >= 1 /\ Groups = 1 .. NumGroups /\ 1 \in Groups
    /\ CounterMod \in Nat /\ CounterMod > 0
    /\ \A i \in Int : (i % CounterMod) \in 0 .. CounterMod - 1
    /\ NoRequest \in RequestType /\ NoRequest.at = "idle" /\ NoRequest.kind = "admin"
    /\ NoRequest.ns = NoNs
    /\ NoQpair \in QpairType /\ NoWalk \in ChangeType /\ NoNsInfo \in SlotType
    /\ ~NoWalk.on /\ NoWalk.at = 1 /\ ~NoWalk.failed /\ ~NoWalk.revert
<1>1. NumGroups \in Nat /\ NumGroups >= 1 /\ Groups = 1 .. NumGroups /\ 1 \in Groups
  BY NumGroupsAssumption DEF Groups
<1>2. CounterMod \in Nat /\ CounterMod > 0
  BY CounterModAssumption, FS_CardinalityType
<1>3. \A i \in Int : (i % CounterMod) \in 0 .. CounterMod - 1
  BY <1>2
<1>4. (CHOOSE q \in Qpairs : TRUE) \in Qpairs
  BY AdminQpairsAssumption
<1>5. NoRequest \in RequestType /\ NoRequest.at = "idle" /\ NoRequest.kind = "admin"
      /\ NoRequest.ns = NoNs
  BY <1>4 DEF NoRequest, RequestType, Places, Kinds
<1>6. NoQpair \in QpairType
  BY <1>1 DEF NoQpair, QpairType
<1>7. NoWalk \in ChangeType
  BY <1>1 DEF NoWalk, ChangeType, SubsystemStates
<1>8. NoNsInfo \in SlotType
  BY <1>2 DEF NoNsInfo, SlotType, SubsystemStates
<1>9. ~NoWalk.on /\ NoWalk.at = 1 /\ ~NoWalk.failed /\ ~NoWalk.revert
  BY DEF NoWalk
<1> QED BY <1>1, <1>2, <1>3, <1>5, <1>6, <1>7, <1>8, <1>9

(* The walk goes on by a group, or to its end. *)
LEMMA AdvanceType ==
    ASSUME Types, NEW failed \in BOOLEAN, change.at \in Groups
    PROVE  /\ Advance(failed) \in ChangeType
           /\ Advance(failed).at = IF failed THEN NumGroups + 1 ELSE change.at + 1
           /\ Advance(failed).failed = failed
           /\ Advance(failed).on = change.on /\ Advance(failed).from = change.from
           /\ Advance(failed).to = change.to /\ Advance(failed).ns = change.ns
           /\ Advance(failed).revert = change.revert /\ Advance(failed).owner = change.owner
<1>1. change \in ChangeType /\ change.at + 1 \in 1 .. NumGroups + 1 /\ NumGroups + 1 \in 1 .. NumGroups + 1
  BY ConstantFacts DEF Types
<1>2. CASE failed
  BY <1>1, <1>2 DEF Advance, ChangeType
<1>3. CASE ~failed
  BY <1>1, <1>3 DEF Advance, ChangeType
<1> QED BY <1>2, <1>3

(* One counter of a group is changed, and nothing else. *)
LEMMA SetMgmt ==
    ASSUME NEW F \in [Groups -> GroupType], NEW g \in Groups, NEW m \in 0 .. CounterMod - 1
    PROVE  LET G == [F EXCEPT ![g].mgmt = m] IN
           /\ G \in [Groups -> GroupType]
           /\ G[g] \in GroupType /\ G[g].mgmt = m
           /\ G[g].state = F[g].state /\ G[g].cb = F[g].cb /\ G[g].num_ns = F[g].num_ns
           /\ G[g].removing = F[g].removing /\ G[g].inited = F[g].inited
           /\ \A h \in Groups \ {g} : G[h] = F[h]
<1>1. F[g] \in GroupType
  OBVIOUS
<1> DEFINE s == [F[g] EXCEPT !.mgmt = m]
<1>2. /\ s \in GroupType /\ s.mgmt = m
      /\ s.state = F[g].state /\ s.cb = F[g].cb /\ s.num_ns = F[g].num_ns
      /\ s.removing = F[g].removing /\ s.inited = F[g].inited
  BY <1>1 DEF GroupType
<1>3. [F EXCEPT ![g].mgmt = m] = [F EXCEPT ![g] = s]
  OBVIOUS
<1> HIDE DEF s
<1> QED BY <1>2, <1>3

(* A namespace's counter is set in one group's slots. *)
LEMMA SetSlot ==
    ASSUME NEW t \in [Nsids -> SlotType], NEW n \in Nsids, NEW c \in 0 .. CounterMod - 1
    PROVE  LET u == [t EXCEPT ![n].io = c] IN
           /\ u \in [Nsids -> SlotType]
           /\ u[n].io = c /\ u[n].state = t[n].state /\ u[n].channel = t[n].channel
           /\ \A m \in Nsids \ {n} : u[m] = t[m]
<1> DEFINE i == [t[n] EXCEPT !.io = c]
<1>1. t[n] \in SlotType
  OBVIOUS
<1>2. i \in SlotType /\ i.io = c /\ i.state = t[n].state /\ i.channel = t[n].channel
  BY <1>1 DEF SlotType
<1>3. [t EXCEPT ![n].io = c] = [t EXCEPT ![n] = i]
  OBVIOUS
<1> HIDE DEF i
<1> QED BY <1>2, <1>3

(* A namespace's counter is set in one group. *)
LEMMA SetIo ==
    ASSUME NEW F \in [Groups -> [Nsids -> SlotType]], NEW g \in Groups, NEW n \in Nsids,
           NEW c \in 0 .. CounterMod - 1
    PROVE  LET G == [F EXCEPT ![g][n].io = c] IN
           /\ G \in [Groups -> [Nsids -> SlotType]]
           /\ G[g][n].io = c /\ G[g][n].state = F[g][n].state /\ G[g][n].channel = F[g][n].channel
           /\ \A m \in Nsids \ {n} : G[g][m] = F[g][m]
           /\ \A h \in Groups \ {g} : G[h] = F[h]
<1>1. F[g] \in [Nsids -> SlotType] /\ F[g][n] \in SlotType
  OBVIOUS
<1> DEFINE i == [F[g][n] EXCEPT !.io = c]
           t == [F[g] EXCEPT ![n] = i]
<1>2. i \in SlotType /\ i.io = c /\ i.state = F[g][n].state /\ i.channel = F[g][n].channel
  BY <1>1 DEF SlotType
<1>3. [F EXCEPT ![g][n].io = c] = [F EXCEPT ![g] = t]
  OBVIOUS
<1> HIDE DEF i
<1>4. t \in [Nsids -> SlotType] /\ t[n] = i /\ \A m \in Nsids \ {n} : t[m] = F[g][m]
  BY <1>1, <1>2
<1> HIDE DEF t
<1> QED BY <1>2, <1>3, <1>4

(* What may become of a request that has arrived or was queued. *)
LEMMA FateFacts ==
    ASSUME NEW req, NEW sg, NEW infos
    PROVE  LET fate == Fate(req, sg, infos)
               mgmt == req.kind \in {"connect", "admin", "aer"} IN
           /\ fate \in {"idle", "queued", "retrying", "running", "parked"}
           /\ fate = "parked" => req.kind = "aer" /\ qp[req.qp].state = "active"
           /\ fate = "retrying" => req.kind = "connect" /\ qp[req.qp].state = "active"
           /\ fate = "running" => req.kind # "aer" /\ qp[req.qp].state = "active"
           /\ fate = "running" /\ mgmt => sg.state = "active"
           /\ fate = "running" /\ ~mgmt =>
                sg.num_ns /\ infos[req.ns].channel /\ infos[req.ns].state = "active"
           /\ fate = "queued" /\ ~mgmt => infos[req.ns].state # "active"
  BY DEF Fate

---------------------------------------------------------------------------
(* The variables keep their types *)

(* The counters of a group after some of its requests have started. *)
LEMMA CountType ==
    ASSUME NEW sg \in GroupType, NEW infos \in [Nsids -> SlotType], NEW R \in SUBSET Requests
    PROVE  /\ CountMgmt(sg, R) \in GroupType
           /\ CountIo(infos, R) \in [Nsids -> SlotType]
<1>1. \A S \in SUBSET Requests : Cardinality(S) \in Nat
  BY CounterModAssumption, FS_Subset, FS_CardinalityType
<1>2. \A S \in SUBSET Requests, i \in 0 .. CounterMod - 1 :
        ((i + Cardinality(S)) % CounterMod) \in 0 .. CounterMod - 1
  BY <1>1, ConstantFacts
<1>3. CountMgmt(sg, R) \in GroupType
  <2> DEFINE S == {r \in R : Mgmt(r)}
  <2>1. S \in SUBSET Requests /\ sg.mgmt \in 0 .. CounterMod - 1
    BY DEF GroupType
  <2>2. CountMgmt(sg, R) = [sg EXCEPT !.mgmt = (@ + Cardinality(S)) % CounterMod]
    BY DEF CountMgmt
  <2> HIDE DEF S
  <2> QED BY <1>2, <2>1, <2>2 DEF GroupType
<1>4. ASSUME NEW n \in Nsids
      PROVE  [infos[n] EXCEPT !.io =
               (@ + Cardinality({r \in R : ~Mgmt(r) /\ request[r].ns = n})) % CounterMod] \in SlotType
  <2> DEFINE S == {r \in R : ~Mgmt(r) /\ request[r].ns = n}
  <2>1. S \in SUBSET Requests /\ infos[n] \in SlotType /\ infos[n].io \in 0 .. CounterMod - 1
    BY DEF SlotType
  <2> HIDE DEF S
  <2>2. [infos[n] EXCEPT !.io = (@ + Cardinality(S)) % CounterMod] \in SlotType
    BY <1>2, <2>1 DEF SlotType
  <2> QED BY <2>2 DEF S
<1> QED BY <1>3, <1>4 DEF CountIo

(* A queue pair that is lost, and a request that ends, keep the types. *)
LEMMA DisconnectType ==
    ASSUME Types, NEW Q \in SUBSET Qpairs, Disconnect(Q)
    PROVE  qp' \in [Qpairs -> QpairType] /\ request' \in [Requests -> RequestType]
<1>1. \A q \in Qpairs : /\ [qp[q] EXCEPT !.state = "freed"] \in QpairType
                        /\ [qp[q] EXCEPT !.state = "deactivating"] \in QpairType
  BY DEF Types, QpairType
<1>2. \A r \in Requests, gone \in SUBSET Qpairs : Leftover(r, gone) \in RequestType
  BY ConstantFacts DEF Leftover, Types, RequestType, Places
<1> DEFINE gone == {q \in Q : \A r \in Outstanding(q) : request[r].at = "parked"}
<1>3. gone \in SUBSET Qpairs
  OBVIOUS
<1>4. /\ qp' = [q \in Qpairs |-> CASE q \in gone -> [qp[q] EXCEPT !.state = "freed"]
                                   [] q \in Q \ gone -> [qp[q] EXCEPT !.state = "deactivating"]
                                   [] OTHER -> qp[q]]
      /\ request' = [r \in Requests |-> IF request[r].at = "parked" /\ request[r].qp \in Q
                                        THEN NoRequest ELSE Leftover(r, gone)]
  BY DEF Disconnect
<1> HIDE DEF gone
<1> QED BY <1>1, <1>2, <1>3, <1>4, ConstantFacts DEF Types

(* A request that ends keeps the types. *)
LEMMA FinishType ==
    ASSUME Types, NEW r \in Requests, NEW q \in QpairType, Finish(r, q)
    PROVE  qp' \in [Qpairs -> QpairType] /\ request' \in [Requests -> RequestType]
<1> DEFINE last == q.state = "deactivating" /\ Outstanding(request[r].qp) = {r}
<1>1. /\ qp' = [qp EXCEPT ![request[r].qp] = IF last THEN [q EXCEPT !.state = "freed"] ELSE q]
      /\ request' = [s \in Requests |->
            IF s = r THEN NoRequest
            ELSE IF last THEN Leftover(s, {request[r].qp}) ELSE request[s]]
  BY DEF Finish
<1>2. \A s \in Requests, gone \in SUBSET Qpairs : Leftover(s, gone) \in RequestType
  BY ConstantFacts DEF Leftover, Types, RequestType, Places
<1>3. request[r].qp \in Qpairs /\ [q EXCEPT !.state = "freed"] \in QpairType
  BY DEF Types, RequestType, QpairType
<1> HIDE DEF last
<1> QED BY <1>1, <1>2, <1>3, ConstantFacts DEF Types

(* The requests are executed, and end. *)
LEMMA ExecuteType ==
    ASSUME Types, NEW r \in Requests, NEW q \in Qpairs, NEW k \in Kinds,
           NEW n \in Nsids \cup {NoNs}, Execute(r, q, k, n)
    PROVE  Types'
<1> DEFINE g == qp[q].group
           req == [at |-> "idle", qp |-> q, kind |-> k, ns |-> n]
           fate == Fate(req, sgroup[g], nsInfo[g])
           m == IF fate = "running" /\ n = NoNs
                THEN (sgroup[g].mgmt + 1) % CounterMod ELSE sgroup[g].mgmt
           c == (nsInfo[g][n].io + 1) % CounterMod
<1>1. g \in Groups /\ sgroup[g] \in GroupType /\ nsInfo[g] \in [Nsids -> SlotType] /\ qp[q] \in QpairType
  BY DEF Types, QpairType
<1>2. /\ request' = [request EXCEPT ![r] = [req EXCEPT !.at = fate]]
      /\ sgroup' = [sgroup EXCEPT ![g].mgmt = m]
      /\ nsInfo' = IF fate = "running" /\ n # NoNs THEN [nsInfo EXCEPT ![g][n].io = c] ELSE nsInfo
      /\ qp' = IF fate = "running" /\ k = "connect" THEN [qp EXCEPT ![q] = Connecting(q)] ELSE qp
      /\ UNCHANGED <<subsys, change, changer, seen>>
  BY DEF Execute
<1>3. fate \in Places
  BY FateFacts DEF Places
<1>4. [req EXCEPT !.at = fate] \in RequestType
  BY <1>3 DEF RequestType
<1>5. m \in 0 .. CounterMod - 1
  BY <1>1, ConstantFacts DEF GroupType
<1>6. n # NoNs => n \in Nsids /\ c \in 0 .. CounterMod - 1
  <2> SUFFICES ASSUME n # NoNs PROVE n \in Nsids /\ c \in 0 .. CounterMod - 1
    OBVIOUS
  <2>1. n \in Nsids
    OBVIOUS
  <2>2. nsInfo[g][n].io \in Int
    BY <1>1, <2>1 DEF SlotType
  <2>3. nsInfo[g][n].io + 1 \in Int
    BY <2>2
  <2>4. c \in 0 .. CounterMod - 1
    BY <2>3, ConstantFacts
  <2> QED BY <2>1, <2>4
<1>7. Connecting(q) \in QpairType
  BY <1>1 DEF Connecting, QpairType
<1> HIDE DEF g, req, fate, m, c
<1>8. sgroup' \in [Groups -> GroupType]
  BY <1>1, <1>2, <1>5, SetMgmt DEF Types
<1>9. nsInfo' \in [Groups -> [Nsids -> SlotType]]
  BY <1>1, <1>2, <1>6, SetIo DEF Types
<1> QED BY <1>2, <1>4, <1>7, <1>8, <1>9 DEF Types

(* RetryConnect keeps the types. *)
LEMMA RetryConnectType ==
    ASSUME Types, NEW r \in Requests, RetryConnect(r)
    PROVE  Types'
<1> DEFINE g == GroupOf(r)
<1>1. request[r].qp \in Qpairs /\ qp[request[r].qp] \in QpairType /\ g \in Groups /\ sgroup[g] \in GroupType
  BY DEF Types, RequestType, QpairType, GroupOf
<1>2. UNCHANGED <<subsys, change, nsInfo, changer, crashed, seen>>
  BY DEF RetryConnect
<1>3. CASE NotReady
  <2>1. Finish(r, qp[request[r].qp]) /\ UNCHANGED sgroup
    BY <1>3 DEF RetryConnect
  <2> QED BY <1>1, <1>2, <2>1, FinishType DEF Types
<1>4. CASE ~NotReady
  <2>1. /\ request' = [request EXCEPT ![r].at = "running"]
        /\ sgroup' = [sgroup EXCEPT ![g].mgmt = (@ + 1) % CounterMod]
        /\ qp' = [qp EXCEPT ![request[r].qp] = Connecting(request[r].qp)]
    BY <1>4 DEF RetryConnect
  <2>2. [sgroup[g] EXCEPT !.mgmt = (@ + 1) % CounterMod] \in GroupType
    BY <1>1, ConstantFacts DEF GroupType
  <2>3. Connecting(request[r].qp) \in QpairType
    BY <1>1 DEF Connecting, QpairType
  <2>4. [request[r] EXCEPT !.at = "running"] \in RequestType
    BY DEF Types, RequestType, Places
  <2> HIDE DEF g
  <2> QED BY <1>1, <1>2, <2>1, <2>2, <2>3, <2>4 DEF Types
<1> QED BY <1>3, <1>4

(* A walk goes on at the group where it waits: its state is "pausing". *)
PausingIsWalk ==
    \A g \in Groups : sgroup[g].state = "pausing" => change.at \in Groups

(* So does what is counted when it ends. *)
LEMMA AfterCountType ==
    ASSUME Types, PausingIsWalk, NEW g \in Groups, NEW sg \in GroupType, sg.state = sgroup[g].state,
           NEW infos \in [Nsids -> SlotType], AfterCount(g, sg, infos)
    PROVE  /\ sgroup' \in [Groups -> GroupType]
           /\ nsInfo' \in [Groups -> [Nsids -> SlotType]]
           /\ change' \in ChangeType
<1>1. [sg EXCEPT !.state = "paused", !.cb = FALSE] \in GroupType
  BY DEF GroupType, SubsystemStates
<1>2. sg.state = "pausing" => Advance(FALSE) \in ChangeType
  BY AdvanceType DEF PausingIsWalk
<1> QED BY <1>1, <1>2 DEF AfterCount, Types

(* The parts of a completion. *)
Accepted(r, ok) ==
    /\ request[r].kind = "connect"
    /\ IF request[r].qp \in AdminQpairs THEN ok ELSE ok /\ AdminActive
QpairAfter(r, ok) ==
    IF request[r].kind = "connect"
    THEN [qp[request[r].qp] EXCEPT !.ctrlr = Accepted(r, ok)] ELSE qp[request[r].qp]
GroupAfter(r) ==
    IF Mgmt(r) THEN [sgroup[GroupOf(r)] EXCEPT !.mgmt = (@ - 1) % CounterMod] ELSE sgroup[GroupOf(r)]
SlotsAfter(r) ==
    IF request[r].kind = "io" /\ GroupAfter(r).num_ns
    THEN [nsInfo[GroupOf(r)] EXCEPT ![request[r].ns].io = (@ - 1) % CounterMod] ELSE nsInfo[GroupOf(r)]

(* A completion, by its parts. *)
LEMMA CompleteStep ==
    ASSUME NEW r \in Requests, NEW ok \in BOOLEAN, Complete(r, ok)
    PROVE  /\ Up /\ request[r].at = "running"
           /\ Finish(r, QpairAfter(r, ok))
           /\ AfterCount(GroupOf(r), GroupAfter(r), SlotsAfter(r))
           /\ seen' = [seen EXCEPT
                !.leaks = @ \cup (IF request[r].kind = "opc0c"
                                  THEN {<<GroupOf(r), request[r].ns>>} ELSE {}),
                !.late = IF Accepted(r, ok) /\ sgroup[GroupOf(r)].state = "inactive"
                         THEN @ \cup {request[r].qp} ELSE @ \ {request[r].qp}]
           /\ UNCHANGED <<subsys, changer, crashed>>
  BY DEF Complete, Accepted, QpairAfter, GroupAfter, SlotsAfter

(* The counters after a completion, and nothing else, are another. *)
LEMMA AfterFacts ==
    ASSUME Types, NEW r \in Requests
    PROVE  LET g == GroupOf(r)
               sg == GroupAfter(r)
               infos == SlotsAfter(r) IN
           /\ g \in Groups /\ sg \in GroupType /\ infos \in [Nsids -> SlotType]
           /\ sg.state = sgroup[g].state /\ sg.cb = sgroup[g].cb
           /\ sg.num_ns = sgroup[g].num_ns /\ sg.removing = sgroup[g].removing
           /\ sg.mgmt = IF Mgmt(r) THEN (sgroup[g].mgmt - 1) % CounterMod ELSE sgroup[g].mgmt
           /\ \A n \in Nsids :
                /\ infos[n].state = nsInfo[g][n].state /\ infos[n].channel = nsInfo[g][n].channel
                /\ infos[n].io = IF request[r].kind = "io" /\ sgroup[g].num_ns /\ n = request[r].ns
                                 THEN (nsInfo[g][n].io - 1) % CounterMod ELSE nsInfo[g][n].io
<1> DEFINE g == GroupOf(r)
           n == request[r].ns
           m == (sgroup[g].mgmt - 1) % CounterMod
           c == (nsInfo[g][n].io - 1) % CounterMod
<1>1. g \in Groups /\ sgroup[g] \in GroupType /\ nsInfo[g] \in [Nsids -> SlotType]
  BY DEF Types, RequestType, QpairType, GroupOf
<1>2. m \in 0 .. CounterMod - 1
  <2>1. sgroup[g].mgmt \in Int
    BY <1>1 DEF GroupType
  <2>2. sgroup[g].mgmt - 1 \in Int
    BY <2>1
  <2> QED BY <2>2, ConstantFacts
<1>3. n \in Nsids => c \in 0 .. CounterMod - 1
  <2> SUFFICES ASSUME n \in Nsids PROVE c \in 0 .. CounterMod - 1
    OBVIOUS
  <2>1. nsInfo[g][n].io \in Int
    BY <1>1 DEF SlotType
  <2>2. nsInfo[g][n].io - 1 \in Int
    BY <2>1
  <2> QED BY <2>2, ConstantFacts
<1>4. GroupAfter(r) = IF Mgmt(r) THEN [sgroup[g] EXCEPT !.mgmt = m] ELSE sgroup[g]
  BY DEF GroupAfter
<1> HIDE DEF m
<1>5. /\ GroupAfter(r) \in GroupType
      /\ GroupAfter(r).state = sgroup[g].state /\ GroupAfter(r).cb = sgroup[g].cb
      /\ GroupAfter(r).num_ns = sgroup[g].num_ns /\ GroupAfter(r).removing = sgroup[g].removing
      /\ GroupAfter(r).mgmt = IF Mgmt(r) THEN m ELSE sgroup[g].mgmt
  BY <1>1, <1>2, <1>4 DEF GroupType
<1>6. SlotsAfter(r) = IF request[r].kind = "io" /\ sgroup[g].num_ns
                      THEN [nsInfo[g] EXCEPT ![n].io = c] ELSE nsInfo[g]
  BY <1>5 DEF SlotsAfter
<1> HIDE DEF g, n, c
<1>7. CASE request[r].kind = "io" /\ sgroup[g].num_ns /\ n \in Nsids
  <2>1. LET u == [nsInfo[g] EXCEPT ![n].io = c] IN
        /\ u \in [Nsids -> SlotType]
        /\ u[n].io = c /\ u[n].state = nsInfo[g][n].state /\ u[n].channel = nsInfo[g][n].channel
        /\ \A k \in Nsids \ {n} : u[k] = nsInfo[g][k]
    BY <1>1, <1>3, <1>7, SetSlot
  <2>2. SlotsAfter(r) = [nsInfo[g] EXCEPT ![n].io = c]
    BY <1>6, <1>7
  <2>3. /\ SlotsAfter(r) \in [Nsids -> SlotType]
        /\ \A k \in Nsids :
              /\ SlotsAfter(r)[k].state = nsInfo[g][k].state
              /\ SlotsAfter(r)[k].channel = nsInfo[g][k].channel
              /\ SlotsAfter(r)[k].io = IF k = n THEN c ELSE nsInfo[g][k].io
    BY <2>1, <2>2
  <2> QED BY <1>1, <1>5, <1>7, <2>3 DEF g, n, m, c
<1>8. CASE ~(request[r].kind = "io" /\ sgroup[g].num_ns /\ n \in Nsids)
  <2>1. SlotsAfter(r) = nsInfo[g]
    BY <1>1, <1>6, <1>8
  <2>2. \A k \in Nsids : ~(request[r].kind = "io" /\ sgroup[g].num_ns /\ k = n)
    BY <1>8
  <2> QED BY <1>1, <1>5, <2>1, <2>2 DEF g, n, m
<1> QED BY <1>7, <1>8

(* Complete keeps the types. *)
LEMMA CompleteType ==
    ASSUME Types, PausingIsWalk, NEW r \in Requests, NEW ok \in BOOLEAN, Complete(r, ok)
    PROVE  Types'
<1> DEFINE g == GroupOf(r)
           q == request[r].qp
<1>1. q \in Qpairs /\ qp[q] \in QpairType /\ g \in Groups /\ request[r].ns \in Nsids \cup {NoNs}
  BY DEF Types, RequestType, QpairType, GroupOf
<1>2. QpairAfter(r, ok) \in QpairType
  BY <1>1 DEF QpairAfter, Accepted, QpairType
<1>3. qp' \in [Qpairs -> QpairType] /\ request' \in [Requests -> RequestType]
  BY <1>2, CompleteStep, FinishType
<1>4. /\ sgroup' \in [Groups -> GroupType] /\ nsInfo' \in [Groups -> [Nsids -> SlotType]]
      /\ change' \in ChangeType
  BY CompleteStep, AfterFacts, AfterCountType
<1> DEFINE leaks == seen.leaks \cup (IF request[r].kind = "opc0c" THEN {<<g, request[r].ns>>} ELSE {})
           late == IF Accepted(r, ok) /\ sgroup[g].state = "inactive"
                   THEN seen.late \cup {q} ELSE seen.late \ {q}
<1>5. seen' \in SeenType
  <2>1. seen' = [seen EXCEPT !.leaks = leaks, !.late = late]
    BY CompleteStep
  <2>2. leaks \in SUBSET (Groups \X (Nsids \cup {NoNs})) /\ late \in SUBSET Qpairs
    BY <1>1 DEF Types, SeenType
  <2> HIDE DEF leaks, late
  <2> QED BY <2>1, <2>2 DEF Types, SeenType
<1> QED BY <1>3, <1>4, <1>5, CompleteStep DEF Types

---------------------------------------------------------------------------
(* The walk, the poll groups and who waits for the walk *)

(* A change and its walk: where the subsystem comes from, where it goes,
   and its state on the way; the walk that reverts a failed change goes
   back to where that one came from. *)
Moves ==
    \/ /\ ~change.revert
       /\ \/ change.from = "inactive" /\ change.to = "active" /\ subsys.state = "activating"
          \/ change.from = "paused" /\ change.to = "active" /\ subsys.state = "resuming"
          \/ change.from = "active" /\ change.to = "paused" /\ subsys.state = "pausing"
          \/ change.from \in {"active", "paused"} /\ change.to = "inactive" /\ subsys.state = "deactivating"
    \/ /\ change.revert /\ change.to = change.from
       /\ \/ change.to = "inactive" /\ subsys.state = "deactivating"
          \/ change.to = "paused" /\ subsys.state = "pausing"

WalkInv ==
    /\ subsys.changing <=> change.on
    /\ ~change.on => subsys.state \in {"inactive", "active", "paused"}
    /\ change.on => Moves
    /\ change.on /\ change.failed =>
          change.at = NumGroups + 1 /\ ~change.revert /\ change.to = "active"

(* A poll group and the walk. *)
GroupInv(g) ==
    LET s == sgroup[g] IN
    /\ s.state \in {"inactive", "active", "pausing", "paused"}
    /\ s.cb <=> s.state = "pausing"
    /\ s.cb => change.on /\ change.at = g /\ change.to = "paused"
    /\ s.removing => s.state = "inactive" /\ change.on /\ change.at = g /\ change.to = "inactive"
    /\ s.state # "inactive" => s.num_ns
    /\ s.num_ns => s.state # "inactive" \/ s.removing
    /\ ~change.on => s.state = subsys.state /\ ~s.cb /\ ~s.removing
    /\ change.on /\ ~change.failed /\ g < change.at => s.state = change.to
    /\ change.on /\ ~change.failed /\ ~change.revert /\ g >= change.at =>
          s.state = change.from \/ s.cb \/ s.removing
    /\ change.on /\ (change.failed \/ change.revert) =>
          s.state \in {change.from, "active"} \/ s.cb \/ s.removing

(* Who waits for the end of a change, and for which. *)
OwnerInv ==
    change.on /\ change.owner # NoChanger =>
        LET c == changer[change.owner] IN
        \/ /\ c.pc = "pausing" /\ c.kind \notin {"stop", "delete"}
           /\ change.to = "paused" /\ ~change.revert
           /\ c.kind \in {"hot_remove", "remove_ns"} => change.ns = c.ns
        \/ /\ c.pc = "pausing" /\ c.kind \in {"stop", "delete"}
           /\ change.to = "inactive" /\ ~change.revert
        \/ /\ c.pc = "resuming" /\ (change.revert \/ change.to = "active")
           /\ c.kind = "add_ns" => change.from = "paused"

ListenInv == \A o \in Changers : changer[o].pc = "listening" => changer[o].kind = "listen"

Control ==
    /\ WalkInv
    /\ \A g \in Groups : GroupInv(g)
    /\ OwnerInv
    /\ ListenInv

(* A step that leaves the walk alone, and of the groups all but their
   counters. *)
LEMMA ControlQuiet ==
    ASSUME Types, Control, UNCHANGED <<subsys, change, changer>>,
           \A g \in Groups : /\ sgroup'[g].state = sgroup[g].state
                             /\ sgroup'[g].cb = sgroup[g].cb
                             /\ sgroup'[g].num_ns = sgroup[g].num_ns
                             /\ sgroup'[g].removing = sgroup[g].removing
    PROVE  Control'
<1>1. WalkInv' /\ OwnerInv' /\ ListenInv'
  BY DEF Control, WalkInv, Moves, OwnerInv, ListenInv
<1>2. ASSUME NEW g \in Groups PROVE GroupInv(g)'
  BY <1>2 DEF Control, GroupInv
<1> QED BY <1>1, <1>2 DEF Control

(* The walk goes on, from group g to the next one. *)
LEMMA ControlAdvance ==
    ASSUME Types, Control, NEW g \in Groups, change.on, change.at = g,
           UNCHANGED <<subsys, changer>>, change' = Advance(FALSE),
           \A h \in Groups \ {g} : sgroup'[h] = sgroup[h],
           sgroup'[g].state = change.to, ~sgroup'[g].cb, ~sgroup'[g].removing,
           sgroup'[g].num_ns = (change.to # "inactive")
    PROVE  Control'
<1>1. /\ change'.at = g + 1 /\ change'.failed = FALSE
      /\ change'.on = change.on /\ change'.from = change.from /\ change'.to = change.to
      /\ change'.ns = change.ns /\ change'.revert = change.revert /\ change'.owner = change.owner
      /\ change' \in ChangeType
  BY AdvanceType
<1>2. ~change.failed
  BY ConstantFacts DEF Control, WalkInv
<1>3. WalkInv'
  BY <1>1, <1>2 DEF Control, WalkInv, Moves
<1>4. OwnerInv' /\ ListenInv'
  BY <1>1 DEF Control, OwnerInv, ListenInv
<1>5. Moves
  BY DEF Control, WalkInv
<1>6. GroupInv(g)'
  <2>1. sgroup'[g].state \in {"inactive", "active", "paused"} /\ (change.revert => change.to = change.from)
    BY <1>5 DEF Moves
  <2>2. g \in Int
    BY ConstantFacts
  <2>3. g < g + 1 /\ ~(g >= g + 1)
    BY <2>2
  <2> QED BY <1>1, <1>2, <2>1, <2>3 DEF GroupInv
<1>7. ASSUME NEW h \in Groups, h # g PROVE GroupInv(h)'
  <2>1. h < g + 1 <=> h < g
    BY <1>7, ConstantFacts
  <2>2. h >= g + 1 <=> h >= g
    BY <1>7, ConstantFacts
  <2>3. GroupInv(h) /\ sgroup'[h] = sgroup[h]
    BY <1>7 DEF Control
  <2>4. ~sgroup[h].cb /\ ~sgroup[h].removing
    BY <1>7, <2>3 DEF GroupInv
  <2> QED BY <1>1, <1>2, <2>1, <2>2, <2>3, <2>4 DEF GroupInv
<1> QED BY <1>3, <1>4, <1>6, <1>7 DEF Control
(* The steps of the walk. *)
LEMMA AddSubsystemControl ==
    ASSUME Types, Control, NEW g \in Groups, AddSubsystem(g)
    PROVE  Control'
<1>1. /\ change.on /\ change.at = g /\ change.to = "active" /\ change' = Advance(FALSE)
      /\ sgroup' = [sgroup EXCEPT ![g] = [@ EXCEPT !.state = "active", !.num_ns = TRUE, !.inited = TRUE]]
      /\ ~sgroup[g].cb /\ ~sgroup[g].removing
      /\ UNCHANGED <<subsys, changer>>
  BY DEF AddSubsystem, OnGroup, Types
<1>2. sgroup[g] \in GroupType
  BY DEF Types
<1> DEFINE s == [sgroup[g] EXCEPT !.state = "active", !.num_ns = TRUE, !.inited = TRUE]
<1>3. s.state = "active" /\ ~s.cb /\ ~s.removing /\ s.num_ns = TRUE
  BY <1>1, <1>2 DEF GroupType
<1>4. sgroup' = [sgroup EXCEPT ![g] = s]
  BY <1>1
<1> HIDE DEF s
<1>5. sgroup'[g] = s /\ \A h \in Groups \ {g} : sgroup'[h] = sgroup[h]
  BY <1>4 DEF Types
<1> QED BY <1>1, <1>3, <1>5, ControlAdvance

(* A walk that cannot go on leaves the groups behind it active. *)
LEMMA ControlFails ==
    ASSUME Types, Control, NEW g \in Groups, change.on, change.at = g, change.to = "active",
           ~sgroup[g].cb, ~sgroup[g].removing,
           UNCHANGED <<subsys, changer>>, change' = Advance(TRUE),
           \A h \in Groups : /\ sgroup'[h].state = sgroup[h].state
                             /\ sgroup'[h].cb = sgroup[h].cb
                             /\ sgroup'[h].num_ns = sgroup[h].num_ns
                             /\ sgroup'[h].removing = sgroup[h].removing
    PROVE  Control'
<1>1. /\ change'.at = NumGroups + 1 /\ change'.failed = TRUE
      /\ change'.on = change.on /\ change'.from = change.from /\ change'.to = change.to
      /\ change'.ns = change.ns /\ change'.revert = change.revert /\ change'.owner = change.owner
      /\ change' \in ChangeType
  BY AdvanceType
<1>2. ~change.failed
  BY ConstantFacts DEF Control, WalkInv
<1>3. ~change.revert
  BY DEF Control, WalkInv, Moves
<1>4. WalkInv'
  BY <1>1, <1>3 DEF Control, WalkInv, Moves
<1>5. OwnerInv' /\ ListenInv'
  BY <1>1 DEF Control, OwnerInv, ListenInv
<1>6. ASSUME NEW h \in Groups PROVE GroupInv(h)'
  <2>1. h < g \/ h >= g
    BY ConstantFacts
  <2>2. GroupInv(h)
    BY DEF Control
  <2>3. sgroup[h].state \in {change.from, "active"} /\ ~sgroup[h].cb /\ ~sgroup[h].removing
    <3>1. ~sgroup[h].cb /\ ~sgroup[h].removing BY <2>2 DEF GroupInv
    <3> QED BY <1>2, <1>3, <2>1, <2>2, <3>1 DEF GroupInv
  <2> QED BY <1>1, <2>2, <2>3 DEF GroupInv
<1> QED BY <1>4, <1>5, <1>6 DEF Control

(* AddSubsystemFails keeps the control of the walk. *)
LEMMA AddSubsystemFailsControl ==
    ASSUME Types, Control, NEW g \in Groups, AddSubsystemFails(g)
    PROVE  Control'
<1>1. /\ change.on /\ change.at = g /\ change.to = "active" /\ change' = Advance(TRUE)
      /\ subsys.state = "activating"
      /\ sgroup' = [sgroup EXCEPT ![g] = [@ EXCEPT !.state = "inactive", !.num_ns = FALSE, !.inited = TRUE]]
      /\ ~sgroup[g].cb /\ ~sgroup[g].removing
      /\ UNCHANGED <<subsys, changer>>
  BY DEF AddSubsystemFails, OnGroup, Types
<1>2. sgroup[g] \in GroupType
  BY DEF Types
<1>3. sgroup[g].state = "inactive" /\ sgroup[g].num_ns = FALSE
  <2>1. change.from = "inactive" /\ ~change.revert /\ ~change.failed
    BY <1>1, ConstantFacts DEF Control, WalkInv, Moves
  <2>2. g >= g
    BY ConstantFacts
  <2> QED BY <1>1, <1>2, <2>1, <2>2 DEF Control, GroupInv, GroupType
<1> DEFINE s == [sgroup[g] EXCEPT !.state = "inactive", !.num_ns = FALSE, !.inited = TRUE]
<1>4. s.state = sgroup[g].state /\ s.cb = sgroup[g].cb /\ s.removing = sgroup[g].removing
      /\ s.num_ns = sgroup[g].num_ns
  BY <1>2, <1>3 DEF GroupType
<1>5. sgroup' = [sgroup EXCEPT ![g] = s]
  BY <1>1
<1> HIDE DEF s
<1>6. sgroup'[g] = s /\ \A h \in Groups \ {g} : sgroup'[h] = sgroup[h]
  BY <1>5 DEF Types
<1> QED BY <1>1, <1>4, <1>6, ControlFails
(* A group that is to pause has the subsystem. *)
LEMMA PausedFromActive ==
    ASSUME Types, Control, NEW g \in Groups, change.on, change.at = g, change.to = "paused",
           ~sgroup[g].cb, ~sgroup[g].removing
    PROVE  /\ sgroup[g].state \in {"active", "paused"} /\ sgroup[g].num_ns = TRUE
           /\ ~change.failed
           /\ ~change.revert => sgroup[g].state = "active"
<1>1. ~change.failed /\ Moves
  BY DEF Control, WalkInv
<1>2. g >= g /\ GroupInv(g) /\ sgroup[g] \in GroupType
  BY ConstantFacts DEF Control, Types
<1>3. IF change.revert THEN change.from = "paused" ELSE change.from = "active"
  BY <1>1 DEF Moves
<1>4. sgroup[g].state \in {"active", "paused"} /\ (~change.revert => sgroup[g].state = "active")
  BY <1>1, <1>2, <1>3 DEF GroupInv
<1> QED BY <1>1, <1>2, <1>4 DEF GroupInv, GroupType

PauseWaits(g) ==
    \/ sgroup[g].mgmt > 0
    \/ \E n \in Nsids : /\ sgroup[g].num_ns
                        /\ change.ns = AllNs \/ n = change.ns
                        /\ nsInfo[g][n].io > 0

(* What a pause makes of its group. *)
LEMMA PauseGroupStep ==
    ASSUME Types, Control, NEW g \in Groups, PauseGroup(g)
    PROVE  /\ change.on /\ change.at = g /\ change.to = "paused"
           /\ ~sgroup[g].cb /\ ~sgroup[g].removing
           /\ UNCHANGED <<subsys, request, qp, changer, crashed, seen>>
           /\ IF sgroup[g].state = "paused"
              THEN UNCHANGED <<sgroup, nsInfo>> /\ change' = Advance(FALSE)
              ELSE /\ nsInfo' = [nsInfo EXCEPT ![g] = PausedSlots(g)]
                   /\ IF PauseWaits(g)
                      THEN /\ sgroup'[g] \in GroupType /\ change' = change
                           /\ sgroup'[g].state = "pausing" /\ sgroup'[g].cb = TRUE
                      ELSE /\ sgroup'[g] \in GroupType /\ change' = Advance(FALSE)
                           /\ sgroup'[g].state = "paused" /\ sgroup'[g].cb = FALSE
                   /\ sgroup'[g].mgmt = sgroup[g].mgmt /\ sgroup'[g].num_ns = sgroup[g].num_ns
                   /\ ~sgroup'[g].removing
           /\ \A h \in Groups \ {g} : sgroup'[h] = sgroup[h]
           /\ sgroup' \in [Groups -> GroupType]
<1>1. /\ change.on /\ change.at = g /\ change.to = "paused"
      /\ ~sgroup[g].cb /\ ~sgroup[g].removing
      /\ UNCHANGED <<subsys, request, qp, changer, crashed, seen>>
  BY DEF PauseGroup, OnGroup
<1>2. CASE sgroup[g].state = "paused"
  BY <1>1, <1>2 DEF PauseGroup, Types
<1>3. CASE sgroup[g].state # "paused"
  <2> DEFINE w == PauseWaits(g)
             s == [sgroup[g] EXCEPT !.state = IF w THEN "pausing" ELSE "paused", !.cb = w]
  <2>1. /\ nsInfo' = [nsInfo EXCEPT ![g] = PausedSlots(g)]
        /\ sgroup' = [sgroup EXCEPT ![g].state = IF w THEN "pausing" ELSE "paused", ![g].cb = w]
        /\ change' = IF w THEN change ELSE Advance(FALSE)
    BY <1>3 DEF PauseGroup, PauseWaits
  <2>2. sgroup[g] \in GroupType
    BY DEF Types
  <2>3. w \in BOOLEAN
    BY DEF PauseWaits
  <2> HIDE DEF w
  <2>4. /\ s \in GroupType /\ s.state = (IF w THEN "pausing" ELSE "paused") /\ s.cb = w
        /\ s.mgmt = sgroup[g].mgmt /\ s.num_ns = sgroup[g].num_ns /\ s.removing = sgroup[g].removing
    BY <2>2, <2>3 DEF GroupType, SubsystemStates
  <2>5. sgroup' = [sgroup EXCEPT ![g] = s]
    BY <2>1, <2>2 DEF Types
  <2> HIDE DEF s
  <2>6. sgroup'[g] = s /\ (\A h \in Groups \ {g} : sgroup'[h] = sgroup[h])
        /\ sgroup' \in [Groups -> GroupType]
    BY <2>4, <2>5 DEF Types
  <2>7. CASE w
    BY <1>1, <1>3, <2>1, <2>4, <2>6, <2>7 DEF w
  <2>8. CASE ~w
    BY <1>1, <1>3, <2>1, <2>4, <2>6, <2>8 DEF w
  <2> QED BY <2>7, <2>8
<1> QED BY <1>2, <1>3

(* PauseGroup keeps the control of the walk. *)
LEMMA PauseGroupControl ==
    ASSUME Types, Control, NEW g \in Groups, PauseGroup(g)
    PROVE  Control'
<1>1. /\ change.on /\ change.at = g /\ change.to = "paused"
      /\ ~sgroup[g].cb /\ ~sgroup[g].removing /\ UNCHANGED <<subsys, changer>>
      /\ \A h \in Groups \ {g} : sgroup'[h] = sgroup[h]
  BY PauseGroupStep
<1>2. sgroup[g].num_ns = TRUE /\ ~change.failed
  BY <1>1, PausedFromActive
<1>3. CASE sgroup[g].state = "paused"
  <2>1. UNCHANGED sgroup /\ change' = Advance(FALSE)
    BY <1>3, PauseGroupStep
  <2> QED BY <1>1, <1>2, <1>3, <2>1, ControlAdvance
<1>4. CASE sgroup[g].state # "paused" /\ ~PauseWaits(g)
  <2>1. change' = Advance(FALSE) /\ sgroup'[g].state = "paused" /\ sgroup'[g].cb = FALSE
        /\ sgroup'[g].num_ns = sgroup[g].num_ns /\ ~sgroup'[g].removing
    BY <1>4, PauseGroupStep
  <2> QED BY <1>1, <1>2, <2>1, ControlAdvance
<1>5. CASE sgroup[g].state # "paused" /\ PauseWaits(g)
  <2>1. change' = change /\ sgroup'[g].state = "pausing" /\ sgroup'[g].cb = TRUE
        /\ sgroup'[g].num_ns = sgroup[g].num_ns /\ ~sgroup'[g].removing
    BY <1>5, PauseGroupStep
  <2>2. WalkInv' /\ OwnerInv' /\ ListenInv'
    BY <1>1, <2>1 DEF Control, WalkInv, Moves, OwnerInv, ListenInv
  <2>3. GroupInv(g)'
    BY <1>1, <1>2, <2>1, ConstantFacts DEF GroupInv
  <2>4. ASSUME NEW h \in Groups, h # g PROVE GroupInv(h)'
    BY <1>1, <2>1, <2>4 DEF GroupInv, Control
  <2> QED BY <2>2, <2>3, <2>4 DEF Control
<1> QED BY <1>3, <1>4, <1>5

(* ResumeGroup keeps the control of the walk. *)
LEMMA ResumeGroupControl ==
    ASSUME Types, Control, NEW g \in Groups, ResumeGroup(g)
    PROVE  Control'
<1>1. /\ change.on /\ change.at = g /\ change.to = "active" /\ change' = Advance(FALSE)
      /\ ~sgroup[g].cb /\ ~sgroup[g].removing /\ UNCHANGED <<subsys, changer>>
  BY DEF ResumeGroup, OnGroup
<1>2. sgroup[g] \in GroupType /\ GroupInv(g)
  BY DEF Types, Control
<1>3. CASE sgroup[g].state = "active"
  <2>1. UNCHANGED sgroup
    BY <1>3 DEF ResumeGroup
  <2>2. sgroup[g].num_ns = TRUE
    BY <1>2, <1>3 DEF GroupInv, GroupType
  <2> QED BY <1>1, <1>3, <2>1, <2>2, ControlAdvance
<1>4. CASE sgroup[g].state # "active"
  <2> DEFINE sg == [sgroup[g] EXCEPT !.state = "active", !.num_ns = TRUE]
  <2>1. PICK R : sgroup' = [sgroup EXCEPT ![g] = CountMgmt(sg, R)]
    BY <1>4 DEF ResumeGroup
  <2>2. sg.state = "active" /\ sg.cb = sgroup[g].cb /\ sg.num_ns = TRUE /\ sg.removing = sgroup[g].removing
    BY <1>2 DEF GroupType
  <2>3. sg \in GroupType
    BY <1>2 DEF GroupType, SubsystemStates
  <2> HIDE DEF sg
  <2> DEFINE t == CountMgmt(sg, R)
  <2>4. t.state = sg.state /\ t.cb = sg.cb /\ t.num_ns = sg.num_ns /\ t.removing = sg.removing
    BY <2>3 DEF CountMgmt, GroupType
  <2> HIDE DEF t
  <2>5. sgroup'[g] = t /\ \A h \in Groups \ {g} : sgroup'[h] = sgroup[h]
    BY <2>1 DEF Types, t
  <2> QED BY <1>1, <2>2, <2>4, <2>5, ControlAdvance
<1> QED BY <1>3, <1>4

(* ResumeGroupFails keeps the control of the walk. *)
LEMMA ResumeGroupFailsControl ==
    ASSUME Types, Control, NEW g \in Groups, ResumeGroupFails(g)
    PROVE  Control'
  BY ControlFails DEF ResumeGroupFails, OnGroup

(* RemoveGroup keeps the control of the walk. *)
LEMMA RemoveGroupControl ==
    ASSUME Types, Control, NEW g \in Groups, RemoveGroup(g)
    PROVE  Control'
<1> DEFINE s == [sgroup[g] EXCEPT !.state = "inactive", !.removing = TRUE]
<1>1. /\ change.on /\ change.at = g /\ change.to = "inactive"
      /\ sgroup' = [sgroup EXCEPT ![g] = s]
      /\ ~sgroup[g].cb /\ ~sgroup[g].removing
      /\ UNCHANGED <<subsys, changer, change>>
  BY DEF RemoveGroup, OnGroup, Types
<1>2. sgroup[g] \in GroupType /\ GroupInv(g)
  BY DEF Types, Control
<1>3. s.state = "inactive" /\ s.removing = TRUE /\ s.cb = sgroup[g].cb /\ s.num_ns = sgroup[g].num_ns
  BY <1>2 DEF GroupType
<1> HIDE DEF s
<1>4. sgroup'[g] = s /\ \A h \in Groups \ {g} : sgroup'[h] = sgroup[h]
  BY <1>1 DEF Types
<1>5. WalkInv' /\ OwnerInv' /\ ListenInv'
  BY <1>1 DEF Control, WalkInv, Moves, OwnerInv, ListenInv
<1>6. GroupInv(g)'
  BY <1>1, <1>2, <1>3, <1>4, ConstantFacts DEF GroupInv
<1>7. ASSUME NEW h \in Groups, h # g PROVE GroupInv(h)'
  BY <1>1, <1>4, <1>7 DEF GroupInv, Control
<1> QED BY <1>5, <1>6, <1>7 DEF Control

(* RemoveDone keeps the control of the walk. *)
LEMMA RemoveDoneControl ==
    ASSUME Types, Control, NEW g \in Groups, RemoveDone(g)
    PROVE  Control'
<1> DEFINE s == [sgroup[g] EXCEPT !.removing = FALSE, !.num_ns = FALSE]
<1>1. /\ change' = Advance(FALSE) /\ sgroup[g].removing
      /\ sgroup' = [sgroup EXCEPT ![g] = s]
      /\ UNCHANGED <<subsys, changer>>
  BY DEF RemoveDone, Types
<1>2. sgroup[g] \in GroupType /\ GroupInv(g)
  BY DEF Types, Control
<1>3. s.state = sgroup[g].state /\ s.removing = FALSE /\ s.cb = sgroup[g].cb /\ s.num_ns = FALSE
  BY <1>2 DEF GroupType
<1> HIDE DEF s
<1>4. sgroup'[g] = s /\ \A h \in Groups \ {g} : sgroup'[h] = sgroup[h]
  BY <1>1 DEF Types
<1>5. change.on /\ change.at = g /\ change.to = "inactive" /\ sgroup[g].state = "inactive" /\ ~sgroup[g].cb
  BY <1>1, <1>2 DEF GroupInv
<1>6. /\ sgroup'[g].state = change.to /\ ~sgroup'[g].cb /\ ~sgroup'[g].removing
      /\ sgroup'[g].num_ns = FALSE
  BY <1>3, <1>4, <1>5
<1>7. sgroup'[g].num_ns = (change.to # "inactive")
  BY <1>5, <1>6
<1> QED BY <1>1, <1>4, <1>5, <1>6, <1>7, ControlAdvance

(* A completion may end the pause of its group, and only there a walk waits. *)
LEMMA AfterCountControl ==
    ASSUME Types, Control, NEW g \in Groups, NEW sg \in GroupType,
           sg.state = sgroup[g].state, sg.cb = sgroup[g].cb, sg.num_ns = sgroup[g].num_ns,
           sg.removing = sgroup[g].removing,
           NEW infos \in [Nsids -> SlotType], AfterCount(g, sg, infos),
           UNCHANGED <<subsys, changer>>
    PROVE  Control'
<1>1. GroupInv(g)
  BY DEF Control
<1>2. CASE sg.state = "pausing" /\ Quiet(sg, infos)
  <2> DEFINE t == [sg EXCEPT !.state = "paused", !.cb = FALSE]
  <2>1. sgroup' = [sgroup EXCEPT ![g] = t] /\ change' = Advance(FALSE)
    BY <1>2 DEF AfterCount
  <2>2. t.state = "paused" /\ t.cb = FALSE /\ t.num_ns = sg.num_ns /\ t.removing = sg.removing
    BY DEF GroupType
  <2> HIDE DEF t
  <2>3. sgroup'[g] = t /\ \A h \in Groups \ {g} : sgroup'[h] = sgroup[h]
    BY <2>1 DEF Types
  <2>4. change.on /\ change.at = g /\ change.to = "paused" /\ ~sg.removing /\ sg.num_ns = TRUE
    BY <1>1, <1>2 DEF GroupInv, GroupType
  <2>5. /\ sgroup'[g].state = change.to /\ ~sgroup'[g].cb /\ ~sgroup'[g].removing
        /\ sgroup'[g].num_ns = TRUE
    BY <2>2, <2>3, <2>4
  <2>6. sgroup'[g].num_ns = (change.to # "inactive")
    BY <2>4, <2>5
  <2> QED BY <2>1, <2>3, <2>4, <2>5, <2>6, ControlAdvance
<1>3. CASE ~(sg.state = "pausing" /\ Quiet(sg, infos))
  <2>1. sgroup' = [sgroup EXCEPT ![g] = sg] /\ change' = change
    BY <1>3 DEF AfterCount
  <2>2. sgroup'[g] = sg /\ \A h \in Groups \ {g} : sgroup'[h] = sgroup[h]
    BY <2>1 DEF Types
  <2> QED BY <2>1, <2>2, ControlQuiet
<1> QED BY <1>2, <1>3
---------------------------------------------------------------------------
(* Those who change the subsystem *)

Resting == {"inactive", "active", "paused"}

(* Every group has come to rest in a state. *)
GroupsAt(state) ==
    \A g \in Groups :
        /\ sgroup[g].state = state
        /\ ~sgroup[g].cb /\ ~sgroup[g].removing
        /\ sgroup[g].num_ns <=> state # "inactive"

Possible == {<<"inactive", "active">>, <<"paused", "active">>, <<"active", "paused">>,
             <<"active", "inactive">>, <<"paused", "inactive">>}

(* Between two changes, and behind an unfailed walk, all groups are at the
   subsystem's state. *)
LEMMA AtRest ==
    ASSUME Types, Control
    PROVE  /\ ~subsys.changing => GroupsAt(subsys.state) /\ subsys.state \in Resting /\ ~change.on
           /\ WalkEnded /\ ~change.failed => GroupsAt(change.to) /\ change.to \in Resting
<1>1. CASE ~subsys.changing
  <2>1. ~change.on /\ subsys.state \in Resting
    BY <1>1 DEF Control, WalkInv, Resting
  <2> QED BY <1>1, <2>1 DEF Control, GroupInv, GroupsAt, WalkEnded
<1>2. CASE WalkEnded /\ ~change.failed
  <2>1. change.on /\ change.at > NumGroups /\ change.to \in Resting
    BY <1>2 DEF Control, WalkInv, Moves, Resting, WalkEnded
  <2>2. ASSUME NEW g \in Groups PROVE g < change.at /\ change.at # g
    BY <2>1, ConstantFacts DEF Types, ChangeType
  <2>3. GroupsAt(change.to)
    <3> SUFFICES ASSUME NEW g \in Groups
                 PROVE  /\ sgroup[g].state = change.to
                        /\ ~sgroup[g].cb /\ ~sgroup[g].removing
                        /\ sgroup[g].num_ns <=> change.to # "inactive"
      BY DEF GroupsAt
    <3> QED BY <1>2, <2>1, <2>2 DEF Control, GroupInv
  <2>4. subsys.changing
    BY <2>1 DEF Control, WalkInv
  <2> QED BY <2>1, <2>3, <2>4
<1> QED BY <1>1, <1>2

(* A change that may start, and its walk. *)
LEMMA AnswerFacts ==
    ASSUME NEW s \in SubsysType, s.state \in Resting, ~s.changing, NEW to \in Resting
    PROVE  /\ Answer(s, to) = "started" <=> <<s.state, to>> \in Possible
           /\ Answer(s, to) = "same" <=> s.state = to
           /\ Answer(s, to) # "busy"
  BY DEF Answer, Busy, Resting, Possible, MayMove, Intermediate

(* A change that begins is marked and takes the intermediate state. *)
LEMMA StartedFacts ==
    ASSUME NEW s \in SubsysType, NEW to \in Resting, <<s.state, to>> \in Possible
    PROVE  LET a == Started(s, to) IN
           /\ a \in SubsysType
           /\ a.state = Intermediate(s.state, to) /\ a.changing = TRUE
           /\ a.ns = s.ns /\ a.destroyed = s.destroyed /\ a.destroying = s.destroying
<1>1. Intermediate(s.state, to) \in SubsystemStates
  BY DEF Intermediate, SubsystemStates, Possible
<1> QED BY <1>1 DEF Started, SubsysType

(* Its walk begins with the first group. *)
LEMMA WalkToFacts ==
    ASSUME NEW s \in SubsysType, NEW to, to \in Resting,
           NEW n, n \in Nsids \/ n = NoNs, NEW owner, owner \in Changers \/ owner = NoChanger
    PROVE  LET w == WalkTo(s, to, n, owner) IN
           /\ w \in ChangeType
           /\ w.on = TRUE /\ w.from = s.state /\ w.to = to /\ w.ns = n /\ w.owner = owner
           /\ w.at = 1 /\ ~w.failed /\ ~w.revert
<1>1. NoWalk \in ChangeType /\ NoWalk.at = 1 /\ ~NoWalk.failed /\ ~NoWalk.revert
  BY ConstantFacts
<1>2. s.state \in SubsystemStates /\ to \in SubsystemStates
  BY DEF SubsysType, SubsystemStates, Resting
<1>3. WalkTo(s, to, n, owner) \in ChangeType
  BY <1>1, <1>2 DEF WalkTo, ChangeType
<1> QED BY <1>1, <1>2, <1>3 DEF WalkTo, ChangeType

(* Control holds when a walk begins at groups in one state. *)
LEMMA StartWalk ==
    ASSUME NEW st, NEW to, <<st, to>> \in Possible, GroupsAt(st), UNCHANGED sgroup,
           change'.on, change'.from = st, change'.to = to, change'.at = 1,
           ~change'.failed, ~change'.revert,
           subsys'.changing, subsys'.state = Intermediate(st, to),
           OwnerInv', ListenInv'
    PROVE  Control'
<1>1. WalkInv'
  <2>1. Moves'
    BY DEF Moves, Possible, Intermediate
  <2> QED BY <2>1 DEF WalkInv
<1>2. ASSUME NEW g \in Groups PROVE GroupInv(g)'
  <2>1. ~(g < 1)
    BY ConstantFacts
  <2>2. sgroup'[g].state = st /\ ~sgroup'[g].cb /\ ~sgroup'[g].removing
        /\ (sgroup'[g].num_ns <=> st # "inactive")
    BY DEF GroupsAt
  <2>3. st \in {"inactive", "active", "paused"}
    BY DEF Possible
  <2> QED BY <2>1, <2>2, <2>3 DEF GroupInv
<1> QED BY <1>1, <1>2 DEF Control

(* Control holds when no walk is left. *)
LEMMA RestWalk ==
    ASSUME NEW st \in Resting, GroupsAt(st), UNCHANGED sgroup,
           ~change'.on, ~subsys'.changing, subsys'.state = st, ListenInv'
    PROVE  Control'
<1>1. WalkInv' /\ OwnerInv'
  BY DEF WalkInv, OwnerInv, Resting
<1>2. ASSUME NEW g \in Groups PROVE GroupInv(g)'
  BY DEF GroupInv, GroupsAt, Resting
<1> QED BY <1>1, <1>2 DEF Control

(* A changer goes on. *)
LEMMA SetPcFacts ==
    ASSUME Types, NEW o \in Changers,
           NEW p \in {"idle", "retry", "pausing", "listening", "resuming", "done"}
    PROVE  LET c == SetPc(o, p) IN
           /\ c \in [Changers -> ChangerType]
           /\ c[o].pc = p /\ c[o].kind = changer[o].kind /\ c[o].ns = changer[o].ns
           /\ \A x \in Changers \ {o} : c[x] = changer[x]
<1> DEFINE e == [changer[o] EXCEPT !.pc = p]
<1>1. changer[o] \in ChangerType
  BY DEF Types
<1>2. e \in ChangerType /\ e.pc = p /\ e.kind = changer[o].kind /\ e.ns = changer[o].ns
  BY <1>1 DEF ChangerType
<1>3. SetPc(o, p) = [changer EXCEPT ![o] = e]
  BY DEF SetPc
<1> HIDE DEF e
<1> QED BY <1>2, <1>3 DEF Types

(* A changer goes on to its next stage. *)
LEMMA ChangerSteps ==
    ASSUME Types, ListenInv, NEW o \in Changers,
           NEW p \in {"idle", "retry", "pausing", "listening", "resuming", "done"},
           p = "listening" => changer[o].kind = "listen", changer' = SetPc(o, p)
    PROVE  /\ changer' \in [Changers -> ChangerType] /\ ListenInv'
           /\ changer'[o].pc = p /\ changer'[o].kind = changer[o].kind
           /\ changer'[o].ns = changer[o].ns
           /\ \A x \in Changers \ {o} : changer'[x] = changer[x]
<1>1. /\ changer' \in [Changers -> ChangerType]
      /\ changer'[o].pc = p /\ changer'[o].kind = changer[o].kind
      /\ changer'[o].ns = changer[o].ns
      /\ \A x \in Changers \ {o} : changer'[x] = changer[x]
  BY SetPcFacts
<1>2. ASSUME NEW x \in Changers, changer'[x].pc = "listening"
      PROVE  changer'[x].kind = "listen"
  BY <1>1, <1>2 DEF ListenInv
<1> QED BY <1>1, <1>2 DEF ListenInv

(* What an event or RPC does to the namespaces changes nothing else. *)
LEMMA EditedFacts ==
    ASSUME Types, NEW s \in SubsysType, NEW o \in Changers \cup {NoChanger}, NEW failed \in BOOLEAN
    PROVE  LET e == Edited(s, o, failed) IN
           /\ e \in SubsysType
           /\ e.state = s.state /\ e.changing = s.changing
           /\ e.destroying = s.destroying /\ e.destroyed = s.destroyed
           /\ \A n \in s.ns \ e.ns : Kind(o) \in {"hot_remove", "remove_ns"} /\ n = changer[o].ns
<1>1. Kind(o) \in {"hot_remove", "remove_ns", "add_ns"} => o \in Changers /\ changer[o] \in ChangerType
  BY DEF Kind, Types
<1>2. ASSUME NEW N \in SUBSET Nsids
      PROVE  LET e == [s EXCEPT !.ns = N] IN
             /\ e \in SubsysType /\ e.ns = N
             /\ e.state = s.state /\ e.changing = s.changing
             /\ e.destroying = s.destroying /\ e.destroyed = s.destroyed
  BY DEF SubsysType
<1>3. s.ns \in SUBSET Nsids
  BY DEF SubsysType
<1>4. CASE Kind(o) \in {"hot_remove", "remove_ns"}
  <2> DEFINE N == s.ns \ {changer[o].ns}
  <2>1. Edited(s, o, failed) = [s EXCEPT !.ns = N]
    BY <1>4 DEF Edited
  <2>2. N \in SUBSET Nsids
    BY <1>3
  <2> QED BY <1>2, <1>4, <2>1, <2>2
<1>5. CASE Kind(o) = "add_ns" /\ ~failed
  <2> DEFINE N == s.ns \cup {changer[o].ns}
  <2>1. Edited(s, o, failed) = [s EXCEPT !.ns = N]
    BY <1>5 DEF Edited
  <2>2. N \in SUBSET Nsids
    BY <1>1, <1>3, <1>5 DEF ChangerType
  <2> QED BY <1>2, <2>1, <2>2
<1>6. CASE Kind(o) \notin {"hot_remove", "remove_ns"} /\ ~(Kind(o) = "add_ns" /\ ~failed)
  BY <1>6 DEF Edited
<1> QED BY <1>4, <1>5, <1>6
(* What the steps of the changers have in common, and what they may change
   of the namespaces. *)
Changed(s, o) ==
    /\ subsys' \in SubsysType /\ change' \in ChangeType /\ changer' \in [Changers -> ChangerType]
    /\ subsys'.destroyed = s.destroyed
    /\ change'.on => change'.to = "active"
    /\ Control'

(* A resume begins from a subsystem at rest. *)
LEMMA ResumeForFacts ==
    ASSUME Types, ListenInv, NEW s \in SubsysType, s.state \in {"inactive", "paused"},
           GroupsAt(s.state), UNCHANGED sgroup, NEW owner \in Changers \cup {NoChanger},
           ResumeFor(s, owner), changer' \in [Changers -> ChangerType], ListenInv',
           owner # NoChanger => changer'[owner].pc = "resuming"
                                /\ (changer'[owner].kind = "add_ns" => s.state = "paused")
    PROVE  Changed(s, owner) /\ subsys'.ns = s.ns
<1>1. subsys' = Started(s, "active") /\ change' = WalkTo(s, "active", NoNs, owner)
  BY DEF ResumeFor
<1>2. <<s.state, "active">> \in Possible /\ "active" \in Resting
  BY DEF Possible, Resting
<1> DEFINE a == Started(s, "active")
           w == WalkTo(s, "active", NoNs, owner)
<1>5. "active" \in Resting /\ (owner \in Changers \/ owner = NoChanger)
  BY DEF Resting
<1>6. /\ a \in SubsysType
      /\ a.state = Intermediate(s.state, "active") /\ a.changing = TRUE
      /\ a.ns = s.ns /\ a.destroyed = s.destroyed
  BY <1>2, <1>5, StartedFacts
<1>8. /\ w \in ChangeType
      /\ w.on = TRUE /\ w.from = s.state /\ w.to = "active"
      /\ w.owner = owner /\ w.at = 1 /\ ~w.failed /\ ~w.revert
  <2>1. NoWalk \in ChangeType /\ NoWalk.at = 1 /\ ~NoWalk.failed /\ ~NoWalk.revert
    BY ConstantFacts
  <2>2. w \in ChangeType
    BY <1>5, WalkToFacts
  <2> QED BY <2>1, <2>2 DEF WalkTo, ChangeType
<1> HIDE DEF a, w
<1>7. subsys' = a /\ change' = w
  BY <1>1 DEF a, w
<1>3. /\ subsys' \in SubsysType /\ change' \in ChangeType
      /\ subsys'.state = Intermediate(s.state, "active") /\ subsys'.changing = TRUE
      /\ subsys'.ns = s.ns /\ subsys'.destroyed = s.destroyed
      /\ change'.on = TRUE /\ change'.from = s.state /\ change'.to = "active"
      /\ change'.owner = owner /\ change'.at = 1 /\ ~change'.failed /\ ~change'.revert
  BY <1>6, <1>7, <1>8
<1>4. OwnerInv'
  BY <1>3 DEF OwnerInv
<1>9. Control'
  BY <1>2, <1>3, <1>4, StartWalk
<1> QED BY <1>3, <1>9 DEF Changed

(* What the callback of a pause does: namespaces go by the changers' wish
   only. *)
LEMMA OnPausedFacts ==
    ASSUME Types, ListenInv, NEW s \in SubsysType, s.state = "paused", ~s.changing,
           GroupsAt("paused"), UNCHANGED sgroup, NEW o \in Changers, OnPaused(s, o)
    PROVE  /\ Changed(s, o)
           /\ \A n \in s.ns \ subsys'.ns :
                changer[o].kind \in {"hot_remove", "remove_ns"} /\ n = changer[o].ns
<1> DEFINE e == Edited(s, o, FALSE)
<1>1. Kind(o) = changer[o].kind /\ o # NoChanger
  BY ChangersAssumption DEF Kind
<1>2. /\ e \in SubsysType /\ e.state = "paused" /\ e.changing = s.changing
      /\ e.destroyed = s.destroyed
      /\ \A n \in s.ns \ e.ns : changer[o].kind \in {"hot_remove", "remove_ns"} /\ n = changer[o].ns
  BY <1>1, EditedFacts
<1>3. CASE Kind(o) = "listen"
  <2>1. subsys' = s /\ change' = NoWalk /\ changer' = SetPc(o, "listening")
    BY <1>3 DEF OnPaused, IsEvent
  <2>2. changer' \in [Changers -> ChangerType] /\ ListenInv'
    BY <1>1, <1>3, <2>1, ChangerSteps
  <2>3. Control'
    BY <2>1, <2>2, ConstantFacts, RestWalk DEF Resting
  <2> QED BY <2>1, <2>2, <2>3, ConstantFacts DEF Changed
<1>4. CASE IsEvent(Kind(o))
  <2>1. ResumeFor(e, NoChanger) /\ changer' = SetPc(o, "done")
    BY <1>4 DEF OnPaused, IsEvent
  <2>2. changer' \in [Changers -> ChangerType] /\ ListenInv'
    BY <2>1, ChangerSteps
  <2> HIDE DEF e
  <2>3. Changed(e, NoChanger) /\ subsys'.ns = e.ns
    BY <1>2, <2>1, <2>2, ResumeForFacts
  <2> QED BY <1>2, <2>3 DEF Changed
<1>5. CASE ~IsEvent(Kind(o)) /\ Kind(o) # "listen"
  <2>1. ResumeFor(e, o) /\ changer' = SetPc(o, "resuming")
    BY <1>5 DEF OnPaused, IsEvent
  <2>2. changer' \in [Changers -> ChangerType] /\ ListenInv' /\ changer'[o].pc = "resuming"
    BY <2>1, ChangerSteps
  <2> HIDE DEF e
  <2>3. Changed(e, o) /\ subsys'.ns = e.ns
    BY <1>1, <1>2, <2>1, <2>2, ResumeForFacts
  <2> QED BY <1>2, <2>3 DEF Changed
<1> QED BY <1>3, <1>4, <1>5

(* What the callback of a resume does. *)
LEMMA OnResumedFacts ==
    ASSUME Types, ListenInv, NEW s \in SubsysType, s.state \in Resting, ~s.changing,
           GroupsAt(s.state), UNCHANGED sgroup, NEW o \in Changers \cup {NoChanger},
           NEW failed \in BOOLEAN, OnResumed(s, o, failed),
           failed /\ Kind(o) = "add_ns" => s.state = "paused" /\ changer[o].pc = "resuming"
    PROVE  /\ Changed(s, o)
           /\ subsys'.ns # s.ns => failed
<1>1. CASE failed /\ Kind(o) = "add_ns" /\ changer[o].ns \in s.ns
  <2> DEFINE N == s.ns \ {changer[o].ns}
             e == [s EXCEPT !.ns = N]
  <2>1. ResumeFor(e, o) /\ changer' = changer
    BY <1>1 DEF OnResumed
  <2>2. N \in SUBSET Nsids
    BY DEF SubsysType
  <2> HIDE DEF N
  <2>3. e \in SubsysType /\ e.state = s.state /\ e.destroyed = s.destroyed /\ e.ns = N
    BY <2>2 DEF SubsysType
  <2> HIDE DEF e
  <2>4. changer' \in [Changers -> ChangerType] /\ ListenInv'
    BY <2>1 DEF Types, ListenInv
  <2>5. Changed(e, o) /\ subsys'.ns = e.ns
    BY <1>1, <2>1, <2>3, <2>4, ResumeForFacts
  <2> QED BY <1>1, <2>3, <2>5 DEF Changed
<1>2. CASE ~(failed /\ Kind(o) = "add_ns" /\ changer[o].ns \in s.ns)
  <2>1. subsys' = s /\ change' = NoWalk
        /\ changer' = IF o = NoChanger THEN changer ELSE SetPc(o, "done")
    BY <1>2 DEF OnResumed
  <2>2. changer' \in [Changers -> ChangerType] /\ ListenInv'
    <3>1. CASE o = NoChanger
      BY <2>1, <3>1 DEF Types, ListenInv
    <3>2. CASE o # NoChanger
      BY <2>1, <3>2, ChangerSteps
    <3> QED BY <3>1, <3>2
  <2>3. Control'
    BY <2>1, <2>2, ConstantFacts, RestWalk
  <2> QED BY <2>1, <2>2, <2>3, ConstantFacts DEF Changed
<1> QED BY <1>1, <1>2
(* A pause that starts. *)
LEMMA PauseStarts ==
    ASSUME Types, Control, NEW o \in Changers, Pause(o), Answer(subsys, "paused") = "started"
    PROVE  /\ Types' /\ Control' /\ GroupsAt("active")
           /\ subsys'.ns = subsys.ns /\ subsys'.destroyed = subsys.destroyed
           /\ change'.at = 1 /\ UNCHANGED <<sgroup, nsInfo, request, qp, crashed, seen>>
<1>1. /\ subsys' = Started(subsys, "paused")
      /\ change' = WalkTo(subsys, "paused", PauseNsid(o), o)
      /\ changer' = SetPc(o, "pausing")
      /\ UNCHANGED <<sgroup, nsInfo, request, qp, crashed, seen>>
      /\ changer[o].kind \notin {"stop", "delete"}
  BY DEF Pause
<1>2. subsys \in SubsysType /\ changer[o] \in ChangerType /\ "paused" \in Resting
  BY DEF Types, Resting
<1>3. ~subsys.changing
  BY DEF Answer, Busy
<1>4. <<subsys.state, "paused">> \in Possible /\ subsys.state = "active" /\ GroupsAt("active")
  <2>1. subsys.state \in Resting /\ GroupsAt(subsys.state)
    BY <1>3, AtRest
  <2>2. <<subsys.state, "paused">> \in Possible
    BY <1>2, <1>3, <2>1, AnswerFacts
  <2> QED BY <2>1, <2>2 DEF Possible
<1>5. /\ changer' \in [Changers -> ChangerType] /\ ListenInv'
      /\ changer'[o].pc = "pausing" /\ changer'[o].kind = changer[o].kind
      /\ changer'[o].ns = changer[o].ns
  BY <1>1, ChangerSteps DEF Control
<1>6. /\ subsys' \in SubsysType
      /\ subsys'.state = Intermediate(subsys.state, "paused") /\ subsys'.changing = TRUE
      /\ subsys'.ns = subsys.ns /\ subsys'.destroyed = subsys.destroyed
  <2> DEFINE a == Started(subsys, "paused")
  <2>1. /\ a \in SubsysType
        /\ a.state = Intermediate(subsys.state, "paused") /\ a.changing = TRUE
        /\ a.ns = subsys.ns /\ a.destroyed = subsys.destroyed
    BY <1>2, <1>4, StartedFacts
  <2> HIDE DEF a
  <2> QED BY <1>1, <2>1 DEF a
<1>7. /\ change' \in ChangeType /\ change'.on = TRUE /\ change'.from = subsys.state
      /\ change'.to = "paused" /\ change'.ns = PauseNsid(o) /\ change'.owner = o
      /\ change'.at = 1 /\ ~change'.failed /\ ~change'.revert
  <2> DEFINE w == WalkTo(subsys, "paused", PauseNsid(o), o)
  <2>1. NoWalk \in ChangeType /\ NoWalk.at = 1 /\ ~NoWalk.failed /\ ~NoWalk.revert
    BY ConstantFacts
  <2>2. PauseNsid(o) \in Nsids \/ PauseNsid(o) = NoNs
    BY <1>2 DEF PauseNsid, ChangerType
  <2>3. w \in ChangeType
    BY <1>2, <2>2, WalkToFacts
  <2>4. w.on = TRUE /\ w.from = subsys.state /\ w.to = "paused" /\ w.ns = PauseNsid(o)
        /\ w.owner = o /\ w.at = 1 /\ ~w.failed /\ ~w.revert
    BY <2>1, <2>3 DEF WalkTo, ChangeType
  <2> HIDE DEF w
  <2> QED BY <1>1, <2>3, <2>4 DEF w
<1>8. OwnerInv'
  <2>1. changer[o].kind \in {"hot_remove", "remove_ns"} => PauseNsid(o) = changer[o].ns
    BY DEF PauseNsid
  <2> QED BY <1>1, <1>5, <1>7, <2>1 DEF OwnerInv
<1>9. Control'
  BY <1>1, <1>4, <1>5, <1>6, <1>7, <1>8, StartWalk
<1> QED BY <1>1, <1>4, <1>5, <1>6, <1>7, <1>9 DEF Types

(* A pause of a subsystem that somebody else has paused. *)
LEMMA PauseShared ==
    ASSUME Types, Control, NEW o \in Changers, Pause(o), Answer(subsys, "paused") = "same"
    PROVE  /\ Types' /\ Control'
           /\ subsys'.destroyed = subsys.destroyed
           /\ change'.on => change'.to = "active"
           /\ UNCHANGED <<sgroup, nsInfo, request, qp, crashed>>
           /\ seen' = [seen EXCEPT !.unpaused = @ \cup (subsys.ns \ subsys'.ns)]
<1>1. /\ OnPaused(subsys, o)
      /\ seen' = [seen EXCEPT !.unpaused = @ \cup (subsys.ns \ subsys'.ns)]
      /\ UNCHANGED <<sgroup, nsInfo, request, qp, crashed>>
  BY DEF Pause
<1>2. ~subsys.changing /\ subsys.state = "paused"
  BY DEF Answer, Busy
<1>3. GroupsAt("paused")
  BY <1>2, AtRest
<1>4. Changed(subsys, o)
  BY <1>1, <1>2, <1>3, OnPausedFacts DEF Types, Control
<1>5. seen' \in SeenType
  <2> DEFINE U == seen.unpaused \cup (subsys.ns \ subsys'.ns)
  <2>1. seen' = [seen EXCEPT !.unpaused = U] /\ U \in SUBSET Nsids
    BY <1>1 DEF Types, SubsysType, SeenType
  <2> HIDE DEF U
  <2> QED BY <2>1 DEF Types, SeenType
<1> QED BY <1>1, <1>4, <1>5 DEF Changed, Types

(* The other outcomes of a pause. *)
LEMMA PauseRefused ==
    ASSUME Types, Control, NEW o \in Changers, Pause(o),
           Answer(subsys, "paused") \notin {"started", "same"}
    PROVE  /\ Types' /\ (Up' => Control')
           /\ UNCHANGED <<subsys, change, sgroup, nsInfo, request, qp, seen>>
<1>1. UNCHANGED <<subsys, change, sgroup, nsInfo, request, qp, seen>>
  BY DEF Pause
<1>2. CASE Answer(subsys, "paused") = "busy"
  <2>1. PICK p \in {"retry", "done"} : changer' = SetPc(o, p)
    BY <1>2 DEF Pause
  <2>2. subsys.changing /\ change.on
    BY <1>2 DEF Answer, Busy, Control, WalkInv
  <2>3. changer[o].pc \in {"idle", "retry"}
    BY DEF Pause
  <2>4. /\ changer' \in [Changers -> ChangerType] /\ ListenInv'
        /\ \A x \in Changers \ {o} : changer'[x] = changer[x]
    BY <2>1, ChangerSteps DEF Control
  <2>5. OwnerInv'
    <3>1. change.owner # o BY <2>2, <2>3, ChangersAssumption DEF Control, OwnerInv
    <3>2. change.owner \in Changers \cup {NoChanger} BY DEF Types, ChangeType
    <3>3. change.owner # NoChanger => changer'[change.owner] = changer[change.owner]
      BY <2>4, <3>1, <3>2
    <3> QED BY <1>1, <3>3 DEF Control, OwnerInv
  <2>6. WalkInv' /\ \A g \in Groups : GroupInv(g)'
    BY <1>1 DEF Control, WalkInv, Moves, GroupInv
  <2> QED BY <1>1, <2>4, <2>5, <2>6 DEF Control, Types
<1>3. CASE Answer(subsys, "paused") # "busy"
  <2>1. crashed' # "no" /\ UNCHANGED changer
    BY <1>3 DEF Pause
  <2> QED BY <1>1, <2>1 DEF Up, Types
<1> QED BY <1>2, <1>3
(* The other steps of the changers: a start, a resume that was asked for,
   a stop.  No pause begins. *)
NotPausing == change.on => change.to # "paused" \/ change.revert

(* Start keeps the control of the walk. *)
LEMMA StartControl ==
    ASSUME Types, Control, Start
    PROVE  Types' /\ Control' /\ NotPausing' /\ subsys'.ns = subsys.ns
           /\ subsys'.destroyed = subsys.destroyed
<1>1. /\ ResumeFor(subsys, NoChanger) /\ subsys.state = "inactive"
      /\ Answer(subsys, "active") = "started"
      /\ UNCHANGED <<sgroup, nsInfo, request, qp, changer, seen>>
  BY DEF Start
<1>2. ~subsys.changing /\ GroupsAt(subsys.state)
  BY <1>1, AtRest DEF Answer, Busy
<1>3. changer' \in [Changers -> ChangerType] /\ ListenInv'
  BY <1>1 DEF Types, Control, ListenInv
<1>4. Changed(subsys, NoChanger) /\ subsys'.ns = subsys.ns
  BY <1>1, <1>2, <1>3, ResumeForFacts DEF Types, Control
<1> QED BY <1>1, <1>4 DEF Changed, Types, NotPausing

(* Listened keeps the control of the walk. *)
LEMMA ListenedControl ==
    ASSUME Types, Control, NEW o \in Changers, Listened(o)
    PROVE  /\ Types' /\ Control' /\ subsys'.ns = subsys.ns
           /\ subsys'.destroyed = subsys.destroyed
           /\ change' = change \/ NotPausing'
<1>1. changer[o].pc = "listening" /\ UNCHANGED <<sgroup, nsInfo, request, qp, crashed, seen>>
  BY DEF Listened
<1>2. changer[o].kind = "listen" /\ ListenInv /\ Kind(o) = "listen"
  BY <1>1, ChangersAssumption DEF Control, ListenInv, Kind
<1>3. CASE Answer(subsys, "active") \in {"busy", "same"}
  <2>1. changer' = SetPc(o, "done") /\ UNCHANGED <<subsys, change>>
    BY <1>3 DEF Listened
  <2>2. /\ changer' \in [Changers -> ChangerType] /\ ListenInv'
        /\ \A x \in Changers \ {o} : changer'[x] = changer[x]
    BY <1>2, <2>1, ChangerSteps
  <2>3. OwnerInv'
    <3>1. CASE change.on /\ change.owner # NoChanger
      <4>1. change.owner # o BY <1>1, <3>1 DEF Control, OwnerInv
      <4>2. change.owner \in Changers \cup {NoChanger} BY DEF Types, ChangeType
      <4>3. changer'[change.owner] = changer[change.owner] BY <2>2, <3>1, <4>1, <4>2
      <4> QED BY <2>1, <4>3 DEF Control, OwnerInv
    <3> QED BY <2>1, <3>1 DEF OwnerInv
  <2>4. WalkInv' /\ \A g \in Groups : GroupInv(g)'
    BY <1>1, <2>1 DEF Control, WalkInv, Moves, GroupInv
  <2> QED BY <1>1, <2>1, <2>2, <2>3, <2>4 DEF Control, Types
<1>4. CASE Answer(subsys, "active") \notin {"busy", "same"}
  <2>1. /\ Answer(subsys, "active") = "started" /\ changer' = SetPc(o, "resuming")
        /\ ResumeFor(subsys, o)
    BY <1>4 DEF Listened, ResumeFor
  <2>2. ~subsys.changing /\ GroupsAt(subsys.state) /\ subsys.state \in Resting
    BY <2>1, AtRest DEF Answer, Busy
  <2>3. "active" \in Resting
    BY DEF Resting
  <2>4. subsys.state \in {"inactive", "paused"}
    BY <2>1, <2>2, <2>3, AnswerFacts DEF Types, Possible
  <2>5. /\ changer' \in [Changers -> ChangerType] /\ ListenInv' /\ changer'[o].pc = "resuming"
        /\ changer'[o].kind = "listen"
    BY <1>2, <2>1, ChangerSteps
  <2>6. Changed(subsys, o) /\ subsys'.ns = subsys.ns
    BY <1>1, <1>2, <2>1, <2>2, <2>4, <2>5, ResumeForFacts DEF Types
  <2> QED BY <1>1, <2>6 DEF Changed, Types, NotPausing
<1> QED BY <1>3, <1>4

(* Stop keeps the control of the walk. *)
LEMMA StopControl ==
    ASSUME Types, Control, NEW o \in Changers, Stop(o)
    PROVE  Types' /\ Control' /\ NotPausing' /\ subsys'.ns = subsys.ns
           /\ subsys'.destroyed = subsys.destroyed
<1>1. /\ Answer(subsys, "inactive") = "started"
      /\ subsys' = Started(subsys, "inactive")
      /\ change' = WalkTo(subsys, "inactive", NoNs, o)
      /\ changer' = SetPc(o, "pausing") /\ changer[o].kind \in {"stop", "delete"}
      /\ UNCHANGED <<sgroup, nsInfo, request, qp, crashed, seen>>
  BY DEF Stop, StopFor
<1>2. subsys \in SubsysType /\ "inactive" \in Resting /\ ~subsys.changing
  BY <1>1 DEF Types, Resting, Answer, Busy
<1>3. <<subsys.state, "inactive">> \in Possible /\ GroupsAt(subsys.state)
  BY <1>1, <1>2, AtRest, AnswerFacts
<1>4. /\ changer' \in [Changers -> ChangerType] /\ ListenInv'
      /\ changer'[o].pc = "pausing" /\ changer'[o].kind = changer[o].kind
  BY <1>1, ChangerSteps DEF Control
<1>5. /\ subsys' \in SubsysType
      /\ subsys'.state = Intermediate(subsys.state, "inactive") /\ subsys'.changing = TRUE
      /\ subsys'.ns = subsys.ns /\ subsys'.destroyed = subsys.destroyed
  <2> DEFINE a == Started(subsys, "inactive")
  <2>1. /\ a \in SubsysType
        /\ a.state = Intermediate(subsys.state, "inactive") /\ a.changing = TRUE
        /\ a.ns = subsys.ns /\ a.destroyed = subsys.destroyed
    BY <1>2, <1>3, StartedFacts
  <2> HIDE DEF a
  <2> QED BY <1>1, <2>1 DEF a
<1>6. /\ change' \in ChangeType /\ change'.on = TRUE /\ change'.from = subsys.state
      /\ change'.to = "inactive" /\ change'.owner = o
      /\ change'.at = 1 /\ ~change'.failed /\ ~change'.revert
  <2> DEFINE w == WalkTo(subsys, "inactive", NoNs, o)
  <2>1. NoWalk \in ChangeType /\ NoWalk.at = 1 /\ ~NoWalk.failed /\ ~NoWalk.revert
    BY ConstantFacts
  <2>2. w \in ChangeType
    BY <1>2, WalkToFacts
  <2>3. w.on = TRUE /\ w.from = subsys.state /\ w.to = "inactive"
        /\ w.owner = o /\ w.at = 1 /\ ~w.failed /\ ~w.revert
    BY <2>1, <2>2 DEF WalkTo, ChangeType
  <2> HIDE DEF w
  <2> QED BY <1>1, <2>2, <2>3 DEF w
<1>7. OwnerInv'
  BY <1>1, <1>4, <1>6 DEF OwnerInv
<1>8. Control'
  BY <1>1, <1>3, <1>4, <1>5, <1>6, <1>7, StartWalk
<1> QED BY <1>1, <1>4, <1>5, <1>6, <1>8 DEF Types, NotPausing

(* The end of a walk. *)
LEMMA SettledFacts ==
    ASSUME Types, NEW state \in Resting
    PROVE  LET s == Settled(state) IN
           /\ s \in SubsysType /\ s.state = state /\ ~s.changing
           /\ s.ns = subsys.ns /\ s.destroyed = subsys.destroyed
  BY DEF Types, Settled, SubsysType, SubsystemStates, Resting

(* ChangeDone keeps the control of the walk. *)
LEMMA ChangeDoneControl ==
    ASSUME Types, Control, ChangeDone
    PROVE  /\ Types' /\ Control' /\ NotPausing'
           /\ subsys'.destroyed = subsys.destroyed
           /\ \A n \in subsys.ns \ subsys'.ns :
                /\ change.to = "paused" /\ ~change.revert /\ change.ns = n
                /\ GroupsAt("paused")
<1> DEFINE o == change.owner
           s == Settled(change.to)
<1>1. /\ WalkEnded /\ ~change.failed /\ ~change.revert /\ change.on
      /\ Callback(s, o, FALSE)
      /\ UNCHANGED <<sgroup, nsInfo, request, qp, seen>>
  BY DEF ChangeDone, WalkEnded
<1>2. GroupsAt(change.to) /\ change.to \in Resting
  BY <1>1, AtRest
<1>3. /\ s \in SubsysType /\ s.state = change.to /\ ~s.changing
      /\ s.ns = subsys.ns /\ s.destroyed = subsys.destroyed
  BY <1>2, SettledFacts
<1>4. o \in Changers \cup {NoChanger} /\ ListenInv
  BY DEF Types, ChangeType, Control
<1> HIDE DEF s
<1>5. CASE o # NoChanger /\ changer[o].pc = "pausing" /\ changer[o].kind \notin {"stop", "delete"}
  <2>1. OnPaused(s, o)
    BY <1>1, <1>5 DEF Callback
  <2>2. change.to = "paused" /\ (changer[o].kind \in {"hot_remove", "remove_ns"} => change.ns = changer[o].ns)
    BY <1>1, <1>5 DEF Control, OwnerInv
  <2>3. /\ Changed(s, o)
        /\ \A n \in s.ns \ subsys'.ns :
             changer[o].kind \in {"hot_remove", "remove_ns"} /\ n = changer[o].ns
    BY <1>1, <1>2, <1>3, <1>4, <1>5, <2>1, <2>2, OnPausedFacts
  <2> QED BY <1>1, <1>2, <1>3, <2>2, <2>3 DEF Changed, Types, NotPausing
<1>6. CASE ~(o # NoChanger /\ changer[o].pc = "pausing" /\ changer[o].kind \notin {"stop", "delete"})
  <2> DEFINE e == IF Kind(o) = "delete" THEN [s EXCEPT !.destroying = TRUE] ELSE s
  <2>1. OnResumed(e, o, FALSE)
    BY <1>1, <1>6 DEF Callback
  <2>2. e \in SubsysType /\ e.state = change.to /\ ~e.changing /\ e.ns = subsys.ns
        /\ e.destroyed = subsys.destroyed
    BY <1>3 DEF SubsysType
  <2> HIDE DEF e
  <2>3. Changed(e, o) /\ subsys'.ns = e.ns
    BY <1>1, <1>2, <1>4, <2>1, <2>2, OnResumedFacts
  <2> QED BY <1>1, <2>2, <2>3 DEF Changed, Types, NotPausing
<1> QED BY <1>5, <1>6

(* Revert keeps the control of the walk. *)
LEMMA RevertControl ==
    ASSUME Types, Control, Revert
    PROVE  Types' /\ Control' /\ NotPausing' /\ subsys'.ns = subsys.ns
           /\ subsys'.destroyed = subsys.destroyed
<1>1. /\ WalkEnded /\ change.failed /\ ~change.revert /\ change.on
      /\ subsys' = [subsys EXCEPT !.state = Intermediate(change.to, change.from)]
      /\ change' = [change EXCEPT !.to = change.from, !.failed = FALSE, !.revert = TRUE, !.at = 1]
      /\ UNCHANGED <<sgroup, nsInfo, request, qp, changer, seen>>
  BY DEF Revert, WalkEnded
<1>2. Moves /\ change.to = "active" /\ change.at = NumGroups + 1 /\ subsys.changing
  BY <1>1 DEF Control, WalkInv
<1>3. change.from \in {"inactive", "paused"}
  BY <1>1, <1>2 DEF Moves
<1>4. Intermediate(change.to, change.from) = IF change.from = "inactive" THEN "deactivating" ELSE "pausing"
  BY <1>2, <1>3 DEF Intermediate
<1>5. /\ subsys' \in SubsysType /\ subsys'.state = Intermediate(change.to, change.from)
      /\ subsys'.changing = subsys.changing /\ subsys'.ns = subsys.ns
      /\ subsys'.destroyed = subsys.destroyed
  BY <1>1, <1>3, <1>4 DEF Types, SubsysType, SubsystemStates
<1>6. /\ change' \in ChangeType /\ change'.on = change.on /\ change'.from = change.from
      /\ change'.to = change.from /\ change'.ns = change.ns /\ change'.at = 1
      /\ change'.failed = FALSE /\ change'.revert = TRUE /\ change'.owner = change.owner
  <2>1. 1 \in 1 .. NumGroups + 1
    BY ConstantFacts
  <2> QED BY <1>1, <2>1 DEF Types, ChangeType
<1>7. WalkInv'
  <2>1. Moves'
    BY <1>3, <1>4, <1>5, <1>6 DEF Moves
  <2> QED BY <1>1, <1>2, <1>5, <1>6, <2>1 DEF WalkInv
<1>8. OwnerInv' /\ ListenInv'
  <2>1. ListenInv'
    BY <1>1 DEF Control, ListenInv
  <2>2. ASSUME change.owner # NoChanger
        PROVE  LET c == changer[change.owner] IN
               c.pc = "resuming" /\ (c.kind = "add_ns" => change.from = "paused")
    BY <1>1, <1>2, <2>2 DEF Control, OwnerInv
  <2> QED BY <1>1, <1>6, <2>1, <2>2 DEF OwnerInv
<1>9. ASSUME NEW g \in Groups PROVE GroupInv(g)'
  <2>1. ~(g < 1) /\ change.at # g
    BY <1>2, ConstantFacts
  <2>2. ~sgroup[g].cb /\ ~sgroup[g].removing /\ GroupInv(g)
    BY <2>1 DEF Control, GroupInv
  <2>3. sgroup[g].state \in {change.from, "active"}
    BY <1>1, <2>2 DEF GroupInv
  <2> QED BY <1>1, <1>6, <2>1, <2>2, <2>3 DEF GroupInv
<1> QED BY <1>1, <1>5, <1>6, <1>7, <1>8, <1>9 DEF Types, Control, NotPausing

(* RevertDone keeps the control of the walk. *)
LEMMA RevertDoneControl ==
    ASSUME Types, Control, RevertDone
    PROVE  /\ Types' /\ Control' /\ NotPausing'
           /\ subsys'.destroyed = subsys.destroyed
           /\ seen' = [seen EXCEPT !.unpaused = @ \cup (subsys.ns \ subsys'.ns)]
<1> DEFINE o == change.owner
           s == Settled(change.to)
<1>1. /\ WalkEnded /\ change.revert /\ change.on
      /\ Callback(s, o, TRUE)
      /\ UNCHANGED <<sgroup, nsInfo, request, qp>>
      /\ seen' = [seen EXCEPT !.unpaused = @ \cup (subsys.ns \ subsys'.ns)]
  BY DEF RevertDone, WalkEnded
<1>2. GroupsAt(change.to) /\ change.to \in Resting /\ change.to = change.from
  BY <1>1, AtRest DEF Control, WalkInv, Moves
<1>3. /\ s \in SubsysType /\ s.state = change.to /\ ~s.changing
      /\ s.ns = subsys.ns /\ s.destroyed = subsys.destroyed
  BY <1>2, SettledFacts
<1>4. o \in Changers \cup {NoChanger} /\ ListenInv
  BY DEF Types, ChangeType, Control
<1> HIDE DEF s
<1>5. o # NoChanger => changer[o].pc = "resuming" /\ (changer[o].kind = "add_ns" => change.to = "paused")
  BY <1>1, <1>2 DEF Control, OwnerInv
<1> DEFINE e == IF Kind(o) = "delete" THEN [s EXCEPT !.destroying = TRUE] ELSE s
<1>6. OnResumed(e, o, TRUE)
  BY <1>1, <1>5 DEF Callback
<1>7. e \in SubsysType /\ e.state = change.to /\ ~e.changing /\ e.ns = subsys.ns
      /\ e.destroyed = subsys.destroyed
  BY <1>3 DEF SubsysType
<1> HIDE DEF e
<1>8. Kind(o) = "add_ns" => o # NoChanger /\ changer[o].kind = "add_ns"
  BY DEF Kind
<1>9. Changed(e, o)
  BY <1>1, <1>2, <1>4, <1>5, <1>6, <1>7, <1>8, OnResumedFacts
<1>10. seen' \in SeenType
  <2> DEFINE U == seen.unpaused \cup (subsys.ns \ subsys'.ns)
  <2>1. seen' = [seen EXCEPT !.unpaused = U] /\ U \in SUBSET Nsids
    BY <1>1 DEF Types, SubsysType, SeenType
  <2> HIDE DEF U
  <2> QED BY <2>1 DEF Types, SeenType
<1> QED BY <1>1, <1>7, <1>9, <1>10 DEF Changed, Types, NotPausing
---------------------------------------------------------------------------
(* The slots of the namespaces in a group *)

(* The slots of a group that becomes active. *)
LEMMA ActivatedFacts ==
    ASSUME Types, NEW t \in [Nsids -> SlotType]
    PROVE  LET a == Activated(t) IN
           /\ a \in [Nsids -> SlotType]
           /\ \A n \in Nsids :
                /\ a[n].state = "active"
                /\ n \in subsys.ns => a[n].channel = TRUE /\ a[n].io = t[n].io
                /\ n \notin subsys.ns => a[n].channel = FALSE /\ a[n].io = 0
<1>1. ASSUME NEW n \in Nsids
      PROVE  /\ Activated(t)[n] \in SlotType /\ Activated(t)[n].state = "active"
             /\ n \in subsys.ns => Activated(t)[n].channel = TRUE /\ Activated(t)[n].io = t[n].io
             /\ n \notin subsys.ns => Activated(t)[n].channel = FALSE /\ Activated(t)[n].io = 0
  <2> DEFINE u == IF n \in subsys.ns THEN [t[n] EXCEPT !.channel = TRUE] ELSE NoNsInfo
  <2>1. Activated(t)[n] = [u EXCEPT !.state = "active"]
    BY DEF Activated, Updated
  <2>2. t[n] \in SlotType
    OBVIOUS
  <2>3. /\ u \in SlotType
        /\ n \in subsys.ns => u.channel = TRUE /\ u.io = t[n].io
        /\ n \notin subsys.ns => u.channel = FALSE /\ u.io = 0
    BY <2>2, ConstantFacts DEF SlotType, NoNsInfo
  <2> HIDE DEF u
  <2> QED BY <2>1, <2>3 DEF SlotType, SubsystemStates
<1>2. DOMAIN Activated(t) = Nsids /\ Activated(t) = [n \in DOMAIN Activated(t) |-> Activated(t)[n]]
  BY DEF Activated
<1> QED BY <1>1, <1>2

(* The slots of a group that is paused keep their counters. *)
LEMMA PausedSlotsFacts ==
    ASSUME Types, NEW g \in Groups
    PROVE  /\ PausedSlots(g) \in [Nsids -> SlotType]
           /\ \A n \in Nsids :
                /\ PausedSlots(g)[n].io = nsInfo[g][n].io
                /\ PausedSlots(g)[n].channel = nsInfo[g][n].channel
                /\ PausedSlots(g)[n].state =
                     IF sgroup[g].num_ns /\ (change.ns = AllNs \/ n = change.ns)
                     THEN "pausing" ELSE nsInfo[g][n].state
<1>1. ASSUME NEW n \in Nsids
      PROVE  /\ PausedSlots(g)[n] \in SlotType
             /\ PausedSlots(g)[n].io = nsInfo[g][n].io
             /\ PausedSlots(g)[n].channel = nsInfo[g][n].channel
             /\ PausedSlots(g)[n].state =
                  IF sgroup[g].num_ns /\ (change.ns = AllNs \/ n = change.ns)
                  THEN "pausing" ELSE nsInfo[g][n].state
  <2>1. nsInfo[g][n] \in SlotType
    BY DEF Types
  <2>2. PausedSlots(g)[n] = IF sgroup[g].num_ns /\ (change.ns = AllNs \/ n = change.ns)
                            THEN [nsInfo[g][n] EXCEPT !.state = "pausing"] ELSE nsInfo[g][n]
    BY DEF PausedSlots
  <2> QED BY <2>1, <2>2 DEF SlotType, SubsystemStates
<1>2. DOMAIN PausedSlots(g) = Nsids
      /\ PausedSlots(g) = [n \in DOMAIN PausedSlots(g) |-> PausedSlots(g)[n]]
  BY DEF PausedSlots
<1> QED BY <1>1, <1>2

(* The slots of a group that leaves. *)
LEMMA InactivatedFacts ==
    ASSUME Types, NEW g \in Groups
    PROVE  /\ Inactivated(g) \in [Nsids -> SlotType]
           /\ \A n \in Nsids : Inactivated(g)[n].io = nsInfo[g][n].io
                               /\ Inactivated(g)[n].channel = nsInfo[g][n].channel
                               /\ Inactivated(g)[n].state \in {"inactive", nsInfo[g][n].state}
<1>1. nsInfo[g] \in [Nsids -> SlotType] /\ \A n \in Nsids : nsInfo[g][n] \in SlotType
  BY DEF Types
<1> DEFINE t == [n \in Nsids |-> [nsInfo[g][n] EXCEPT !.state = "inactive"]]
<1>2. ASSUME NEW n \in Nsids
      PROVE  t[n] \in SlotType /\ t[n].io = nsInfo[g][n].io /\ t[n].channel = nsInfo[g][n].channel
             /\ t[n].state = "inactive"
  BY <1>1 DEF SlotType, SubsystemStates
<1>3. t \in [Nsids -> SlotType]
  BY <1>2
<1>4. Inactivated(g) = IF sgroup[g].num_ns THEN t ELSE nsInfo[g]
  BY DEF Inactivated
<1> HIDE DEF t
<1> QED BY <1>1, <1>2, <1>3, <1>4

(* The slots of one group are replaced. *)
LEMMA SetSlots ==
    ASSUME Types, NEW g \in Groups, NEW t \in [Nsids -> SlotType],
           nsInfo' = [nsInfo EXCEPT ![g] = t]
    PROVE  /\ nsInfo' \in [Groups -> [Nsids -> SlotType]] /\ nsInfo'[g] = t
           /\ \A h \in Groups \ {g} : nsInfo'[h] = nsInfo[h]
  BY DEF Types

(* Cleared slots are slots. *)
LEMMA ClearedType == [n \in Nsids |-> NoNsInfo] \in [Nsids -> SlotType]
  BY ConstantFacts

---------------------------------------------------------------------------
(* Types and control of the walk's steps *)

(* The requests that were queued may be lost with their list. *)
LEMMA LostType ==
    ASSUME Types, NEW g \in Groups,
           request' = [r \in Requests |-> IF r \in Queued(g) THEN [request[r] EXCEPT !.at = "lost"]
                                          ELSE request[r]]
    PROVE  request' \in [Requests -> RequestType]
<1>1. ASSUME NEW r \in Requests PROVE [request[r] EXCEPT !.at = "lost"] \in RequestType
  BY DEF Types, RequestType, Places
<1> QED BY <1>1 DEF Types

(* AddSubsystem keeps the types. *)
LEMMA AddSubsystemType ==
    ASSUME Types, NEW g \in Groups, AddSubsystem(g) \/ AddSubsystemFails(g)
    PROVE  Types'
<1>1. /\ UNCHANGED <<subsys, qp, changer, seen>> /\ change.at = g
      /\ request' = [r \in Requests |-> IF r \in Queued(g) THEN [request[r] EXCEPT !.at = "lost"]
                                        ELSE request[r]]
      /\ \E failed \in BOOLEAN : change' = Advance(failed)
      /\ \E t \in {Activated(nsInfo[g]), [n \in Nsids |-> NoNsInfo]} :
            nsInfo' = [nsInfo EXCEPT ![g] = t]
      /\ \E st \in {"active", "inactive"}, b \in BOOLEAN :
            sgroup' = [sgroup EXCEPT ![g].state = st, ![g].num_ns = b, ![g].inited = TRUE]
  BY DEF AddSubsystem, AddSubsystemFails, OnGroup
<1>2. request' \in [Requests -> RequestType] /\ change' \in ChangeType
  BY <1>1, LostType, AdvanceType
<1>3. nsInfo' \in [Groups -> [Nsids -> SlotType]]
  <2>1. PICK t \in {Activated(nsInfo[g]), [n \in Nsids |-> NoNsInfo]} :
            nsInfo' = [nsInfo EXCEPT ![g] = t]
    BY <1>1
  <2>2. nsInfo[g] \in [Nsids -> SlotType]
    BY DEF Types
  <2>3. t \in [Nsids -> SlotType]
    BY <2>2, ActivatedFacts, ClearedType
  <2> QED BY <2>1, <2>3, SetSlots
<1>4. sgroup' \in [Groups -> GroupType]
  <2>1. PICK st \in {"active", "inactive"}, b \in BOOLEAN :
            sgroup' = [sgroup EXCEPT ![g].state = st, ![g].num_ns = b, ![g].inited = TRUE]
    BY <1>1
  <2> DEFINE s == [sgroup[g] EXCEPT !.state = st, !.num_ns = b, !.inited = TRUE]
  <2>2. s \in GroupType
    BY DEF Types, GroupType, SubsystemStates
  <2>3. sgroup' = [sgroup EXCEPT ![g] = s]
    BY <2>1 DEF Types
  <2> HIDE DEF s
  <2> QED BY <2>2, <2>3 DEF Types
<1> QED BY <1>1, <1>2, <1>3, <1>4 DEF Types

(* PauseGroup keeps the types. *)
LEMMA PauseGroupType ==
    ASSUME Types, Control, NEW g \in Groups, PauseGroup(g)
    PROVE  Types'
<1>1. /\ UNCHANGED <<subsys, request, qp, changer, seen>> /\ change.at = g
      /\ sgroup' \in [Groups -> GroupType]
      /\ change' = Advance(FALSE) \/ change' = change
      /\ nsInfo' = nsInfo \/ nsInfo' = [nsInfo EXCEPT ![g] = PausedSlots(g)]
  BY PauseGroupStep
<1>2. change' \in ChangeType
  BY <1>1, AdvanceType DEF Types
<1>3. nsInfo' \in [Groups -> [Nsids -> SlotType]]
  BY <1>1, PausedSlotsFacts, SetSlots DEF Types
<1> QED BY <1>1, <1>2, <1>3 DEF Types

(* RemoveGroup keeps the types. *)
LEMMA RemoveGroupType ==
    ASSUME Types, NEW g \in Groups, RemoveGroup(g)
    PROVE  Types'
<1> DEFINE s == [sgroup[g] EXCEPT !.state = "inactive", !.removing = TRUE]
<1>1. /\ UNCHANGED <<subsys, change, request, qp, changer, seen>>
      /\ sgroup' = [sgroup EXCEPT ![g] = s] /\ nsInfo' = [nsInfo EXCEPT ![g] = Inactivated(g)]
  BY DEF RemoveGroup, Types
<1>2. s \in GroupType
  BY DEF Types, GroupType, SubsystemStates
<1> HIDE DEF s
<1>3. nsInfo' \in [Groups -> [Nsids -> SlotType]]
  BY <1>1, InactivatedFacts, SetSlots
<1> QED BY <1>1, <1>2, <1>3 DEF Types

(* RemoveDone keeps the types. *)
LEMMA RemoveDoneType ==
    ASSUME Types, Control, NEW g \in Groups, RemoveDone(g)
    PROVE  Types'
<1> DEFINE s == [sgroup[g] EXCEPT !.removing = FALSE, !.num_ns = FALSE]
           t == [n \in Nsids |-> NoNsInfo]
<1>1. /\ UNCHANGED <<subsys, request, qp, changer, seen>> /\ sgroup[g].removing
      /\ sgroup' = [sgroup EXCEPT ![g] = s] /\ nsInfo' = [nsInfo EXCEPT ![g] = t]
      /\ change' = Advance(FALSE)
  BY DEF RemoveDone, Types
<1>2. s \in GroupType
  BY DEF Types, GroupType
<1>3. change.at = g
  BY <1>1 DEF Control, GroupInv
<1> HIDE DEF s
<1>4. nsInfo' \in [Groups -> [Nsids -> SlotType]]
  BY <1>1, ClearedType, SetSlots
<1>5. change' \in ChangeType
  BY <1>1, <1>3, AdvanceType
<1> QED BY <1>1, <1>2, <1>4, <1>5 DEF Types

(* ResumeGroupFails keeps the types. *)
LEMMA ResumeGroupFailsType ==
    ASSUME Types, NEW g \in Groups, ResumeGroupFails(g)
    PROVE  Types'
<1> DEFINE t == [n \in Nsids |-> IF n \in subsys.ns THEN nsInfo[g][n] ELSE NoNsInfo]
<1>1. /\ UNCHANGED <<subsys, sgroup, request, qp, changer, seen>> /\ change.at = g
      /\ change' = Advance(TRUE) /\ nsInfo' = [nsInfo EXCEPT ![g] = t]
  BY DEF ResumeGroupFails, OnGroup, Types
<1>2. t \in [Nsids -> SlotType]
  BY ConstantFacts DEF Types
<1> HIDE DEF t
<1>3. change' \in ChangeType
  BY <1>1, AdvanceType
<1> QED BY <1>1, <1>2, <1>3, SetSlots DEF Types
(* A resume of a group: what becomes of the requests that it has queued. *)
ResumedGroup(g) == [sgroup[g] EXCEPT !.state = "active", !.num_ns = TRUE]
FateIn(g, r) == Fate(request[r], ResumedGroup(g), Activated(nsInfo[g]))
Starts(g) == {r \in Queued(g) : FateIn(g, r) = "running"}

(* The resume of a group, by what becomes of each queued request. *)
LEMMA ResumeGroupStep ==
    ASSUME Types, NEW g \in Groups, ResumeGroup(g), sgroup[g].state # "active"
    PROVE  /\ sgroup' = [sgroup EXCEPT ![g] = CountMgmt(ResumedGroup(g), Starts(g))]
           /\ nsInfo' = [nsInfo EXCEPT ![g] = CountIo(Activated(nsInfo[g]), Starts(g))]
           /\ \A r \in Requests :
                /\ r \notin Queued(g) => request'[r] = request[r]
                /\ r \in Queued(g) /\ FateIn(g, r) = "idle" => request'[r] = NoRequest
                /\ r \in Queued(g) /\ FateIn(g, r) # "idle" =>
                      request'[r] = [request[r] EXCEPT !.at = FateIn(g, r)]
           /\ qp' = [q \in Qpairs |->
                IF \E r \in Starts(g) : request[r].kind = "connect" /\ request[r].qp = q
                THEN Connecting(q) ELSE qp[q]]
           /\ request' \in [Requests -> RequestType] /\ qp' \in [Qpairs -> QpairType]
           /\ ResumedGroup(g) \in GroupType
           /\ ResumedGroup(g).state = "active" /\ ResumedGroup(g).num_ns = TRUE
           /\ ResumedGroup(g).mgmt = sgroup[g].mgmt /\ ResumedGroup(g).cb = sgroup[g].cb
           /\ ResumedGroup(g).removing = sgroup[g].removing
           /\ Up' => \A r \in Queued(g) : request[r].at = "queued"
<1> DEFINE fate == [r \in Queued(g) |-> FateIn(g, r)]
           starts == {r \in Queued(g) : fate[r] = "running"}
<1>1. /\ sgroup' = [sgroup EXCEPT ![g] = CountMgmt(ResumedGroup(g), starts)]
      /\ nsInfo' = [nsInfo EXCEPT ![g] = CountIo(Activated(nsInfo[g]), starts)]
      /\ request' = [r \in Requests |->
              CASE r \notin Queued(g) -> request[r]
                [] r \in Queued(g) /\ fate[r] = "idle" -> NoRequest
                [] r \in Queued(g) /\ fate[r] # "idle" -> [request[r] EXCEPT !.at = fate[r]]]
      /\ qp' = [q \in Qpairs |->
              IF \E r \in starts : request[r].kind = "connect" /\ request[r].qp = q
              THEN Connecting(q) ELSE qp[q]]
      /\ crashed' = IF \E r \in Queued(g) : request[r].at = "stale"
                    THEN "request of a freed queue pair" ELSE "no"
  BY DEF ResumeGroup, FateIn, ResumedGroup
<1>2. starts = Starts(g) /\ Queued(g) \subseteq Requests /\ \A r \in Queued(g) : fate[r] = FateIn(g, r)
  BY DEF Starts, Queued
<1> HIDE DEF fate, starts
<1>3. \A r \in Requests :
        /\ r \notin Queued(g) => request'[r] = request[r]
        /\ r \in Queued(g) /\ FateIn(g, r) = "idle" => request'[r] = NoRequest
        /\ r \in Queued(g) /\ FateIn(g, r) # "idle" =>
              request'[r] = [request[r] EXCEPT !.at = FateIn(g, r)]
  BY <1>1, <1>2
<1>4. request' \in [Requests -> RequestType]
  <2>1. ASSUME NEW r \in Requests PROVE request'[r] \in RequestType
    <3>1. FateIn(g, r) \in Places BY FateFacts DEF FateIn, Places
    <3>2. [request[r] EXCEPT !.at = FateIn(g, r)] \in RequestType /\ request[r] \in RequestType
      BY <3>1 DEF Types, RequestType
    <3> QED BY <1>3, <3>2, ConstantFacts
  <2>2. DOMAIN request' = Requests /\ request' = [r \in DOMAIN request' |-> request'[r]]
    BY <1>1
  <2> QED BY <2>1, <2>2
<1>5. qp' \in [Qpairs -> QpairType]
  <2>1. \A q \in Qpairs : Connecting(q) \in QpairType /\ qp[q] \in QpairType
    BY DEF Types, Connecting, QpairType
  <2> QED BY <1>1, <2>1
<1>6. /\ ResumedGroup(g) \in GroupType
      /\ ResumedGroup(g).state = "active" /\ ResumedGroup(g).num_ns = TRUE
      /\ ResumedGroup(g).mgmt = sgroup[g].mgmt /\ ResumedGroup(g).cb = sgroup[g].cb
      /\ ResumedGroup(g).removing = sgroup[g].removing
  <2>1. sgroup[g] \in GroupType
    BY DEF Types
  <2> QED BY <2>1 DEF ResumedGroup, GroupType, SubsystemStates
<1>7. Up' => \A r \in Queued(g) : request[r].at = "queued"
  BY <1>1 DEF Up, Queued
<1> QED BY <1>1, <1>2, <1>3, <1>4, <1>5, <1>6, <1>7

(* ResumeGroup keeps the types. *)
LEMMA ResumeGroupType ==
    ASSUME Types, NEW g \in Groups, ResumeGroup(g)
    PROVE  Types'
<1>1. UNCHANGED <<subsys, changer, seen>> /\ change.at = g /\ change' = Advance(FALSE)
  BY DEF ResumeGroup, OnGroup
<1>2. change' \in ChangeType
  BY <1>1, AdvanceType
<1>3. CASE sgroup[g].state = "active"
  <2>1. UNCHANGED <<sgroup, nsInfo, request, qp>>
    BY <1>3 DEF ResumeGroup
  <2> QED BY <1>1, <1>2, <2>1 DEF Types
<1>4. CASE sgroup[g].state # "active"
  <2> DEFINE s == CountMgmt(ResumedGroup(g), Starts(g))
             t == CountIo(Activated(nsInfo[g]), Starts(g))
  <2>1. /\ sgroup' = [sgroup EXCEPT ![g] = s] /\ nsInfo' = [nsInfo EXCEPT ![g] = t]
        /\ request' \in [Requests -> RequestType] /\ qp' \in [Qpairs -> QpairType]
        /\ ResumedGroup(g) \in GroupType
    BY <1>4, ResumeGroupStep
  <2>2. nsInfo[g] \in [Nsids -> SlotType]
    BY DEF Types
  <2>3. Activated(nsInfo[g]) \in [Nsids -> SlotType]
    BY <2>2, ActivatedFacts
  <2>4. Starts(g) \in SUBSET Requests
    BY DEF Starts, Queued
  <2>5. s \in GroupType /\ t \in [Nsids -> SlotType]
    BY <2>1, <2>3, <2>4, CountType
  <2> HIDE DEF s, t
  <2> QED BY <1>1, <1>2, <2>1, <2>5 DEF Types
<1> QED BY <1>3, <1>4

(* The steps of the queue pairs. *)
LEMMA QpairStepsType ==
    ASSUME Types,
           \/ \E q \in Qpairs : LoseQpair(q) \/ \E g \in Groups : AddQpair(q, g)
           \/ \E g \in Groups : RemoveQpairs(g)
           \/ \E r \in Requests : CompleteAer(r)
    PROVE  Types' /\ UNCHANGED <<subsys, change, sgroup, nsInfo, changer, seen>>
<1>1. ASSUME NEW q \in Qpairs, LoseQpair(q)
      PROVE  Types' /\ UNCHANGED <<subsys, change, sgroup, nsInfo, changer, seen>>
  BY <1>1, DisconnectType DEF LoseQpair, Types
<1>2. ASSUME NEW q \in Qpairs, NEW g \in Groups, AddQpair(q, g)
      PROVE  Types' /\ UNCHANGED <<subsys, change, sgroup, nsInfo, changer, seen>>
  <2>1. [NoQpair EXCEPT !.state = "active", !.group = g] \in QpairType
    BY ConstantFacts DEF QpairType
  <2> QED BY <1>2, <2>1 DEF AddQpair, Types
<1>3. ASSUME NEW g \in Groups, RemoveQpairs(g)
      PROVE  Types' /\ UNCHANGED <<subsys, change, sgroup, nsInfo, changer, seen>>
  <2> DEFINE Q == {q \in Members(g) : qp[q].state = "active"}
  <2>1. Q \in SUBSET Qpairs /\ Disconnect(Q) /\ UNCHANGED <<subsys, change, sgroup, nsInfo, changer, seen>>
    BY <1>3 DEF RemoveQpairs, Members
  <2> HIDE DEF Q
  <2> QED BY <2>1, DisconnectType DEF Types
<1>4. ASSUME NEW r \in Requests, CompleteAer(r)
      PROVE  Types' /\ UNCHANGED <<subsys, change, sgroup, nsInfo, changer, seen>>
  <2>1. qp[request[r].qp] \in QpairType
    BY DEF Types, RequestType
  <2> QED BY <1>4, <2>1, FinishType DEF CompleteAer, Types
<1> QED BY <1>1, <1>2, <1>3, <1>4

(* Destroyed keeps the types. *)
LEMMA DestroyedType ==
    ASSUME Types, Destroyed
    PROVE  /\ Types' /\ UNCHANGED <<change, sgroup, nsInfo, request, qp, changer, seen>>
           /\ subsys'.state = subsys.state /\ subsys'.changing = subsys.changing
           /\ subsys'.ns = {} /\ subsys'.destroyed = TRUE
<1>1. /\ UNCHANGED <<change, sgroup, nsInfo, request, qp, changer, seen>>
      /\ subsys' = [subsys EXCEPT !.ns = {}, !.destroyed = TRUE]
  BY DEF Destroyed
<1>2. /\ subsys' \in SubsysType /\ subsys'.state = subsys.state
      /\ subsys'.changing = subsys.changing /\ subsys'.ns = {} /\ subsys'.destroyed = TRUE
  BY <1>1 DEF Types, SubsysType
<1> QED BY <1>1, <1>2 DEF Types
---------------------------------------------------------------------------
(* Types and control hold *)

Base == Types /\ (Up => Control)

(* The types and the control hold at first. *)
LEMMA InitBase == SubsystemInit => Base
<1> SUFFICES ASSUME SubsystemInit PROVE Base
  OBVIOUS
<1>1. Types
  <2>1. subsys \in SubsysType /\ change \in ChangeType
    BY ConstantFacts DEF SubsystemInit, SubsysType, SubsystemStates
  <2>2. sgroup \in [Groups -> GroupType] /\ nsInfo \in [Groups -> [Nsids -> SlotType]]
    BY ConstantFacts DEF SubsystemInit, GroupType, SubsystemStates
  <2>3. qp \in [Qpairs -> QpairType] /\ request \in [Requests -> RequestType]
    BY ConstantFacts DEF SubsystemInit
  <2>4. changer \in [Changers -> ChangerType]
    <3>1. changer \in [Changers -> [kind : AllKinds, ns : Nsids, pc : {"idle"}]]
      BY DEF SubsystemInit
    <3> QED BY <3>1 DEF ChangerType
  <2>5. seen \in SeenType
    BY DEF SubsystemInit, SeenType
  <2> QED BY <2>1, <2>2, <2>3, <2>4, <2>5 DEF Types
<1>2. Control
  <2>1. WalkInv /\ OwnerInv
    BY ConstantFacts DEF SubsystemInit, WalkInv, OwnerInv
  <2>2. ASSUME NEW o \in Changers PROVE changer[o].pc # "listening"
    BY DEF SubsystemInit
  <2>3. ASSUME NEW g \in Groups PROVE GroupInv(g)
    BY ConstantFacts DEF SubsystemInit, GroupInv
  <2> QED BY <2>1, <2>2, <2>3 DEF Control, ListenInv
<1> QED BY <1>1, <1>2 DEF Base

(* The requests that start, end or are counted leave the walk alone. *)
LEMMA ExecuteControl ==
    ASSUME Types, Control, NEW r \in Requests, NEW q \in Qpairs, NEW k \in Kinds,
           NEW n \in Nsids \cup {NoNs}, Execute(r, q, k, n)
    PROVE  Control'
<1> DEFINE g == qp[q].group
<1>1. g \in Groups /\ sgroup[g] \in GroupType
  BY DEF Types, QpairType
<1>2. PICK m : /\ sgroup' = [sgroup EXCEPT ![g].mgmt = m]
               /\ m = sgroup[g].mgmt \/ m = (sgroup[g].mgmt + 1) % CounterMod
  BY DEF Execute
<1>3. m \in 0 .. CounterMod - 1
  <2>1. sgroup[g].mgmt \in Int /\ sgroup[g].mgmt \in 0 .. CounterMod - 1
    BY <1>1 DEF GroupType
  <2> QED BY <1>2, <2>1, ConstantFacts
<1> HIDE DEF g
<1>4. \A h \in Groups : /\ sgroup'[h].state = sgroup[h].state /\ sgroup'[h].cb = sgroup[h].cb
                        /\ sgroup'[h].num_ns = sgroup[h].num_ns
                        /\ sgroup'[h].removing = sgroup[h].removing
  BY <1>1, <1>2, <1>3, SetMgmt DEF Types
<1> QED BY <1>4, ControlQuiet DEF Execute

(* RetryConnect keeps the control of the walk. *)
LEMMA RetryConnectControl ==
    ASSUME Types, Control, NEW r \in Requests, RetryConnect(r)
    PROVE  Control'
<1> DEFINE g == GroupOf(r)
           m == (sgroup[g].mgmt + 1) % CounterMod
<1>1. g \in Groups /\ sgroup[g] \in GroupType
  BY DEF Types, RequestType, QpairType, GroupOf
<1>2. m \in 0 .. CounterMod - 1
  <2>1. sgroup[g].mgmt \in Int
    BY <1>1 DEF GroupType
  <2> QED BY <2>1, ConstantFacts
<1>3. sgroup' = sgroup \/ sgroup' = [sgroup EXCEPT ![g].mgmt = m]
  BY DEF RetryConnect
<1> HIDE DEF g, m
<1>4. \A h \in Groups : /\ sgroup'[h].state = sgroup[h].state /\ sgroup'[h].cb = sgroup[h].cb
                        /\ sgroup'[h].num_ns = sgroup[h].num_ns
                        /\ sgroup'[h].removing = sgroup[h].removing
  <2>1. CASE sgroup' = sgroup
    BY <2>1
  <2>2. CASE sgroup' = [sgroup EXCEPT ![g].mgmt = m]
    BY <1>1, <1>2, <2>2, SetMgmt DEF Types
  <2> QED BY <1>3, <2>1, <2>2
<1> QED BY <1>4, ControlQuiet DEF RetryConnect

(* Complete keeps the control of the walk. *)
LEMMA CompleteControl ==
    ASSUME Types, Control, NEW r \in Requests, NEW ok \in BOOLEAN, Complete(r, ok)
    PROVE  Types' /\ Control'
<1>1. PausingIsWalk
  BY DEF PausingIsWalk, Control, GroupInv
<1>2. Types'
  BY <1>1, CompleteType
<1>3. Control'
  BY CompleteStep, AfterFacts, AfterCountControl
<1> QED BY <1>2, <1>3

(* Every step, sorted: what it leaves alone, or the lemma that speaks of
   it. *)
LEMMA NextBase == Base /\ [SubsystemNext]_subsystemVars => Base'
<1> SUFFICES ASSUME Base, [SubsystemNext]_subsystemVars PROVE Base'
  OBVIOUS
<1> USE DEF Base
<1>1. CASE UNCHANGED subsystemVars
  <2>1. UNCHANGED <<subsys, change, sgroup, nsInfo, qp, request, changer, crashed, seen>>
    BY <1>1 DEF subsystemVars
  <2>2. Types' /\ (Up' => Up)
    BY <2>1 DEF Types, Up
  <2>3. Up => Control'
    BY <2>1, ControlQuiet
  <2> QED BY <2>2, <2>3
<1>2. ASSUME Up,
             \/ \E q \in Qpairs : LoseQpair(q) \/ \E g \in Groups : AddQpair(q, g)
             \/ \E g \in Groups : RemoveQpairs(g)
             \/ \E r \in Requests : CompleteAer(r)
      PROVE  Base'
  BY <1>2, QpairStepsType, ControlQuiet
<1>3. ASSUME NEW r \in Requests, NEW q \in Qpairs, NEW k \in Kinds, NEW n \in Nsids \cup {NoNs},
             Execute(r, q, k, n)
      PROVE  Base'
  BY <1>3, ExecuteType, ExecuteControl DEF Execute
<1>4. ASSUME NEW r \in Requests, RetryConnect(r)
      PROVE  Base'
  BY <1>4, RetryConnectType, RetryConnectControl DEF RetryConnect
<1>5. ASSUME NEW r \in Requests, NEW ok \in BOOLEAN, Complete(r, ok)
      PROVE  Base'
  BY <1>5, CompleteControl, CompleteStep
<1>6. ASSUME NEW g \in Groups, AddSubsystem(g) \/ AddSubsystemFails(g)
      PROVE  Base'
  <2>1. Up
    BY <1>6 DEF AddSubsystem, AddSubsystemFails, OnGroup
  <2> QED BY <1>6, <2>1, AddSubsystemType, AddSubsystemControl, AddSubsystemFailsControl
<1>7. ASSUME NEW g \in Groups, PauseGroup(g) \/ ResumeGroup(g) \/ ResumeGroupFails(g)
      PROVE  Base'
  <2>1. Up
    BY <1>7 DEF PauseGroup, ResumeGroup, ResumeGroupFails, OnGroup
  <2> QED
    BY <1>7, <2>1, PauseGroupType, PauseGroupControl, ResumeGroupType, ResumeGroupControl,
       ResumeGroupFailsType, ResumeGroupFailsControl
<1>8. ASSUME NEW g \in Groups, RemoveGroup(g) \/ RemoveDone(g)
      PROVE  Base'
  <2>1. Up
    BY <1>8 DEF RemoveGroup, RemoveDone, OnGroup
  <2> QED
    BY <1>8, <2>1, RemoveGroupType, RemoveGroupControl, RemoveDoneType, RemoveDoneControl
<1>9. ASSUME NEW o \in Changers, Pause(o)
      PROVE  Base'
  <2>1. Up
    BY <1>9 DEF Pause
  <2> QED BY <1>9, <2>1, PauseStarts, PauseShared, PauseRefused
<1>10. ASSUME NEW o \in Changers, PauseFreed(o)
       PROVE  Base'
  BY <1>10 DEF PauseFreed, Types, Up
<1>11. ASSUME NEW o \in Changers, Listened(o) \/ Stop(o)
       PROVE  Base'
  <2>1. Up
    BY <1>11 DEF Listened, Stop
  <2> QED BY <1>11, <2>1, ListenedControl, StopControl
<1>12. ASSUME Start \/ ChangeDone \/ Revert \/ RevertDone
       PROVE  Base'
  <2>1. Up
    BY <1>12 DEF Start, ChangeDone, Revert, RevertDone, WalkEnded
  <2> QED
    BY <1>12, <2>1, StartControl, ChangeDoneControl, RevertControl, RevertDoneControl
<1>13. ASSUME Destroyed
       PROVE  Base'
  <2>1. Up
    BY <1>13 DEF Destroyed
  <2>2. /\ Types' /\ UNCHANGED <<change, sgroup, changer>>
        /\ subsys'.state = subsys.state /\ subsys'.changing = subsys.changing
    BY <1>13, DestroyedType
  <2>3. Control'
    BY <2>1, <2>2 DEF Control, WalkInv, Moves, GroupInv, OwnerInv, ListenInv
  <2> QED BY <2>2, <2>3
<1>14. (\/ \E q \in Qpairs : LoseQpair(q) \/ \E g \in Groups : AddQpair(q, g)
        \/ \E g \in Groups : RemoveQpairs(g)
        \/ \E r \in Requests : CompleteAer(r)) => Up
  BY DEF LoseQpair, AddQpair, RemoveQpairs, CompleteAer
<1> QED
  BY <1>1, <1>2, <1>3, <1>4, <1>5, <1>6, <1>7, <1>8, <1>9, <1>10, <1>11, <1>12, <1>13, <1>14
    DEF SubsystemNext
---------------------------------------------------------------------------
(* The requests and their queue pairs *)

IsIo(r) == request[r].kind \in {"io", "opc0c"}
IsAt(r, places) == request[r].at \in places
Going(r) == IsAt(r, {"queued", "retrying", "running", "parked"})
QpOf(r) == qp[request[r].qp]
Connects(r) == request[r].kind = "connect" /\ Going(r)

(* A request that has not ended, its kind and its queue pair. *)
RequestInv(r) ==
    /\ (request[r].ns = NoNs) <=> Mgmt(r)
    /\ request[r].at = "retrying" => request[r].kind = "connect"
    /\ request[r].at = "parked" => request[r].kind = "aer"
    /\ request[r].at = "running" => request[r].kind # "aer"
    /\ Going(r) => Live(request[r].qp)
    /\ IsIo(r) /\ Going(r) => request[r].qp \notin AdminQpairs /\ QpOf(r).ctrlr /\ QpOf(r).received
    /\ request[r].kind \in {"admin", "aer"} /\ Going(r) =>
          request[r].qp \in AdminQpairs /\ QpOf(r).received
    /\ request[r].kind = "connect" /\ IsAt(r, {"queued", "retrying"}) =>
          ~QpOf(r).received /\ ~QpOf(r).ctrlr
    /\ request[r].kind = "connect" /\ request[r].at = "running" =>
          QpOf(r).received /\ (QpOf(r).ctrlr <=> request[r].qp \in AdminQpairs)

OneConnect ==
    \A r, s \in Requests : Connects(r) /\ Connects(s) /\ request[r].qp = request[s].qp => r = s

(* At most one command with the opcode of an AER comes on an I/O queue. *)
OneLeak ==
    /\ \A r, s \in Requests : request[r].kind = "opc0c" /\ request[s].kind = "opc0c" => r = s
    /\ seen.leaks # {} => \A r \in Requests : request[r].kind # "opc0c"

RequestsInv ==
    /\ \A r \in Requests : RequestInv(r)
    /\ OneConnect
    /\ OneLeak

(* A free request says nothing. *)
LEMMA DeadRequest ==
    ASSUME NEW r \in Requests, ~Going(r), request[r].ns = NoNs <=> Mgmt(r)
    PROVE  RequestInv(r)
  BY DEF RequestInv, Going, IsAt

(* A step after which every request is what it was, or is no longer alive. *)
LEMMA RequestsShrink ==
    ASSUME RequestsInv,
           \A s \in Requests :
             \/ /\ request'[s] = request[s]
                /\ Going(s) => /\ Live(request[s].qp)'
                               /\ QpOf(s)'.received = QpOf(s).received
                               /\ \/ QpOf(s)'.ctrlr = QpOf(s).ctrlr
                                  \/ request[s].kind \in {"admin", "aer"}
             \/ /\ request'[s].at \in {"idle", "stale", "lost"}
                /\ \/ request'[s] = NoRequest
                   \/ request'[s].kind = request[s].kind /\ request'[s].ns = request[s].ns,
           \/ seen'.leaks = seen.leaks
           \/ \A s \in Requests : request'[s].kind # "opc0c"
    PROVE  RequestsInv'
<1>1. ASSUME NEW s \in Requests
      PROVE  RequestInv(s)' /\ (Connects(s)' => Connects(s) /\ request'[s] = request[s])
             /\ (request'[s].kind = "opc0c" => request[s].kind = "opc0c")
  <2>1. CASE /\ request'[s] = request[s]
             /\ Going(s) => /\ Live(request[s].qp)'
                            /\ QpOf(s)'.received = QpOf(s).received
                            /\ \/ QpOf(s)'.ctrlr = QpOf(s).ctrlr
                               \/ request[s].kind \in {"admin", "aer"}
    <3>1. RequestInv(s) BY DEF RequestsInv
    <3>3. RequestInv(s)' BY <2>1, <3>1 DEF RequestInv, Going, IsAt, IsIo, QpOf, Mgmt, Live
    <3> QED BY <2>1, <3>3 DEF Connects, Going, IsAt
  <2>2. CASE /\ request'[s].at \in {"idle", "stale", "lost"}
             /\ \/ request'[s] = NoRequest
                \/ request'[s].kind = request[s].kind /\ request'[s].ns = request[s].ns
    <3>1. ~Going(s)' BY <2>2 DEF Going, IsAt
    <3>2. (request'[s].ns = NoNs) <=> Mgmt(s)'
      BY <2>2, ConstantFacts DEF RequestsInv, RequestInv, Mgmt
    <3>3. RequestInv(s)' BY <3>1, <3>2 DEF RequestInv, Going, IsAt
    <3> QED BY <2>2, <3>1, <3>3, ConstantFacts DEF Connects
  <2> QED BY <2>1, <2>2
<1>2. OneConnect'
  BY <1>1 DEF RequestsInv, OneConnect
<1>3. OneLeak'
  BY <1>1 DEF RequestsInv, OneLeak
<1> QED BY <1>1, <1>2, <1>3 DEF RequestsInv

(* What a request that ends leaves of the others.  q is its queue pair,
   as it is then. *)
LEMMA FinishFacts ==
    ASSUME Types, NEW r \in Requests, IsAt(r, {"retrying", "running", "parked"}),
           NEW q \in QpairType, q.state = QpOf(r).state, Finish(r, q)
    PROVE  /\ request'[r] = NoRequest
           /\ \A p \in Qpairs \ {request[r].qp} : qp'[p] = qp[p]
           /\ LET p == request[r].qp IN
              /\ p \in Qpairs
              /\ qp'[p].ctrlr = q.ctrlr /\ qp'[p].received = q.received /\ qp'[p].group = q.group
              /\ qp'[p].state = q.state \/ qp'[p].state = "freed"
           /\ \A s \in Requests \ {r} :
                \/ /\ request'[s] = request[s]
                   /\ Going(s) => /\ (qp'[request[s].qp].state = QpOf(s).state)
                                  /\ request[s].qp # request[r].qp => qp'[request[s].qp] = QpOf(s)
                \/ /\ request[s].at = "queued" /\ request[s].qp = request[r].qp
                   /\ \/ request'[s] = NoRequest
                      \/ request'[s] = [request[s] EXCEPT !.at = "stale"]
<1> DEFINE p == request[r].qp
           last == q.state = "deactivating" /\ Outstanding(p) = {r}
<1>1. /\ qp' = [qp EXCEPT ![p] = IF last THEN [q EXCEPT !.state = "freed"] ELSE q]
      /\ request' = [s \in Requests |->
            IF s = r THEN NoRequest ELSE IF last THEN Leftover(s, {p}) ELSE request[s]]
  BY DEF Finish
<1>2. p \in Qpairs
  BY DEF Types, RequestType
<1>3. [q EXCEPT !.state = "freed"].ctrlr = q.ctrlr /\ [q EXCEPT !.state = "freed"].received = q.received
      /\ [q EXCEPT !.state = "freed"].group = q.group /\ [q EXCEPT !.state = "freed"].state = "freed"
  BY DEF QpairType
<1>4. last => \A s \in Requests \ {r} : request[s].qp = p => ~IsAt(s, {"retrying", "running", "parked"})
  BY DEF Outstanding, IsAt
<1> HIDE DEF last, p
<1>5. /\ \A o \in Qpairs \ {p} : qp'[o] = qp[o]
      /\ qp'[p] = IF last THEN [q EXCEPT !.state = "freed"] ELSE q
  BY <1>1, <1>2 DEF Types
<1>6. ASSUME NEW s \in Requests \ {r}
      PROVE  \/ /\ request'[s] = request[s]
                /\ Going(s) => /\ (qp'[request[s].qp].state = QpOf(s).state)
                               /\ request[s].qp # p => qp'[request[s].qp] = QpOf(s)
             \/ /\ request[s].at = "queued" /\ request[s].qp = p
                /\ \/ request'[s] = NoRequest
                   \/ request'[s] = [request[s] EXCEPT !.at = "stale"]
  <2>1. request[s].qp \in Qpairs
    BY DEF Types, RequestType
  <2>2. CASE ~last
    <3>1. request'[s] = request[s] /\ qp'[p] = q BY <1>1, <1>5, <2>2
    <3>2. request[s].qp = p => qp'[request[s].qp].state = QpOf(s).state
      BY <3>1 DEF QpOf, p
    <3> QED BY <1>5, <2>1, <3>1, <3>2 DEF QpOf
  <2>3. CASE last
    <3>1. request'[s] = Leftover(s, {p}) BY <1>1, <2>3
    <3>2. CASE request[s].at = "queued" /\ request[s].qp = p
      BY <3>1, <3>2 DEF Leftover
    <3>3. CASE ~(request[s].at = "queued" /\ request[s].qp = p)
      <4>1. request'[s] = request[s] BY <3>1, <3>3 DEF Leftover
      <4>2. Going(s) => request[s].qp # p BY <1>4, <2>3, <3>3 DEF Going, IsAt
      <4> QED BY <1>5, <2>1, <4>1, <4>2 DEF QpOf
    <3> QED BY <3>2, <3>3
  <2> QED BY <2>2, <2>3
<1> QED BY <1>1, <1>2, <1>3, <1>5, <1>6 DEF p

(* What the disconnect of queue pairs leaves of the requests. *)
LEMMA DisconnectFacts ==
    ASSUME Types, NEW Q \in SUBSET Qpairs, \A q \in Q : Live(q), Disconnect(Q)
    PROVE  /\ \A p \in Qpairs : /\ qp'[p].ctrlr = qp[p].ctrlr /\ qp'[p].received = qp[p].received
                                /\ qp'[p].group = qp[p].group
                                /\ qp'[p].state \in {qp[p].state, "freed", "deactivating"}
                                /\ Live(p)' => Live(p)
           /\ \A s \in Requests :
                \/ request'[s] = request[s] /\ (Going(s) /\ Live(request[s].qp) => Live(request[s].qp)')
                \/ /\ request[s].at \in {"queued", "parked"}
                   /\ \/ request'[s] = NoRequest
                      \/ request'[s] = [request[s] EXCEPT !.at = "stale"]
<1> DEFINE gone == {q \in Q : \A r \in Outstanding(q) : request[r].at = "parked"}
<1>1. /\ qp' = [q \in Qpairs |-> CASE q \in gone -> [qp[q] EXCEPT !.state = "freed"]
                                   [] q \in Q \ gone -> [qp[q] EXCEPT !.state = "deactivating"]
                                   [] OTHER -> qp[q]]
      /\ request' = [r \in Requests |-> IF request[r].at = "parked" /\ request[r].qp \in Q
                                        THEN NoRequest ELSE Leftover(r, gone)]
  BY DEF Disconnect
<1>2. gone \subseteq Q /\ gone \in SUBSET Qpairs
  OBVIOUS
<1>3. \A s \in Requests : request[s].qp \in gone => ~IsAt(s, {"retrying", "running"})
  BY DEF Outstanding, IsAt
<1> HIDE DEF gone
<1>4. ASSUME NEW p \in Qpairs
      PROVE  /\ qp'[p].ctrlr = qp[p].ctrlr /\ qp'[p].received = qp[p].received
             /\ qp'[p].group = qp[p].group
             /\ qp'[p].state = IF p \in gone THEN "freed" ELSE IF p \in Q THEN "deactivating" ELSE qp[p].state
  <2>1. qp[p] \in QpairType
    BY DEF Types
  <2> QED BY <1>1, <1>2, <2>1 DEF QpairType
<1>5. ASSUME NEW s \in Requests
      PROVE  \/ request'[s] = request[s] /\ (Going(s) /\ Live(request[s].qp) => Live(request[s].qp)')
             \/ /\ request[s].at \in {"queued", "parked"}
                /\ \/ request'[s] = NoRequest
                   \/ request'[s] = [request[s] EXCEPT !.at = "stale"]
  <2>1. request[s].qp \in Qpairs
    BY DEF Types, RequestType
  <2>2. CASE request[s].at = "parked" /\ request[s].qp \in Q
    BY <1>1, <2>2
  <2>3. CASE request[s].at = "queued" /\ request[s].qp \in gone
    BY <1>1, <2>3 DEF Leftover
  <2>4. CASE ~(request[s].at = "parked" /\ request[s].qp \in Q)
             /\ ~(request[s].at = "queued" /\ request[s].qp \in gone)
    <3>1. request'[s] = request[s] BY <1>1, <2>4 DEF Leftover
    <3>2. Going(s) => request[s].qp \notin gone BY <1>2, <1>3, <2>4 DEF Going, IsAt
    <3>3. qp'[request[s].qp].state = IF request[s].qp \in gone THEN "freed"
                                      ELSE IF request[s].qp \in Q THEN "deactivating"
                                      ELSE qp[request[s].qp].state
      BY <1>4, <2>1
    <3> QED BY <3>1, <3>2, <3>3 DEF Live
  <2> QED BY <2>2, <2>3, <2>4
<1>6. ASSUME NEW p \in Qpairs PROVE Live(p)' => Live(p)
  BY <1>2, <1>4 DEF Live
<1> QED BY <1>4, <1>5, <1>6

(* Disconnect keeps the states of the requests. *)
LEMMA DisconnectRequests ==
    ASSUME Types, RequestsInv, NEW Q \in SUBSET Qpairs, \A q \in Q : Live(q), Disconnect(Q),
           UNCHANGED seen
    PROVE  RequestsInv'
<1>1. ASSUME NEW s \in Requests
      PROVE  \/ /\ request'[s] = request[s]
                /\ Going(s) => /\ Live(request[s].qp)'
                               /\ QpOf(s)'.received = QpOf(s).received
                               /\ \/ QpOf(s)'.ctrlr = QpOf(s).ctrlr
                                  \/ request[s].kind \in {"admin", "aer"}
             \/ /\ request'[s].at \in {"idle", "stale", "lost"}
                /\ \/ request'[s] = NoRequest
                   \/ request'[s].kind = request[s].kind /\ request'[s].ns = request[s].ns
  <2>1. request[s] \in RequestType
    BY DEF Types
  <2>2. CASE request'[s] = request[s] /\ (Going(s) /\ Live(request[s].qp) => Live(request[s].qp)')
    <3>1. Going(s) => Live(request[s].qp) BY DEF RequestsInv, RequestInv
    <3>2. qp'[request[s].qp].received = QpOf(s).received /\ qp'[request[s].qp].ctrlr = QpOf(s).ctrlr
      BY <2>1, DisconnectFacts DEF QpOf, RequestType
    <3> QED BY <2>2, <3>1, <3>2 DEF QpOf
  <2>3. CASE request'[s] = NoRequest \/ request'[s] = [request[s] EXCEPT !.at = "stale"]
    BY <2>1, <2>3, ConstantFacts DEF RequestType
  <2> QED BY <2>2, <2>3, DisconnectFacts
<1> QED BY <1>1, RequestsShrink

(* A request that ends, where its queue pair is what it was, or it was a
   connect and the queue pair now has its controller or none. *)
LEMMA FinishRequests ==
    ASSUME Types, RequestsInv, NEW r \in Requests, IsAt(r, {"retrying", "running", "parked"}),
           NEW q \in QpairType, q.state = QpOf(r).state, q.received = QpOf(r).received,
           q.ctrlr = QpOf(r).ctrlr \/ (request[r].kind = "connect" /\ request[r].at = "running"),
           Finish(r, q),
           seen'.leaks = seen.leaks \/ \A s \in Requests : request'[s].kind # "opc0c"
    PROVE  RequestsInv'
<1>1. ASSUME NEW s \in Requests
      PROVE  \/ /\ request'[s] = request[s]
                /\ Going(s) => /\ Live(request[s].qp)'
                               /\ QpOf(s)'.received = QpOf(s).received
                               /\ \/ QpOf(s)'.ctrlr = QpOf(s).ctrlr
                                  \/ request[s].kind \in {"admin", "aer"}
             \/ /\ request'[s].at \in {"idle", "stale", "lost"}
                /\ \/ request'[s] = NoRequest
                   \/ request'[s].kind = request[s].kind /\ request'[s].ns = request[s].ns
  <2>1. request[s] \in RequestType
    BY DEF Types
  <2>2. CASE s = r
    BY <2>2, FinishFacts, ConstantFacts
  <2>3. CASE s # r /\ (request'[s] = NoRequest \/ request'[s] = [request[s] EXCEPT !.at = "stale"])
    BY <2>1, <2>3, ConstantFacts DEF RequestType
  <2>4. CASE /\ s # r /\ request'[s] = request[s]
             /\ Going(s) => /\ (qp'[request[s].qp].state = QpOf(s).state)
                            /\ request[s].qp # request[r].qp => qp'[request[s].qp] = QpOf(s)
    <3> SUFFICES ASSUME Going(s)
                 PROVE  /\ Live(request[s].qp)'
                        /\ QpOf(s)'.received = QpOf(s).received
                        /\ \/ QpOf(s)'.ctrlr = QpOf(s).ctrlr
                           \/ request[s].kind \in {"admin", "aer"}
      BY <2>4
    <3>1. Live(request[s].qp)'
      <4>1. Live(request[s].qp) BY DEF RequestsInv, RequestInv
      <4> QED BY <2>4, <4>1 DEF Live, QpOf
    <3>2. CASE request[s].qp # request[r].qp
      BY <2>4, <3>1, <3>2 DEF QpOf
    <3>3. CASE request[s].qp = request[r].qp
      <4>1. qp'[request[s].qp].received = QpOf(s).received /\ qp'[request[s].qp].ctrlr = q.ctrlr
        BY <3>3, FinishFacts DEF QpOf
      <4>2. request[r].kind = "connect" /\ request[r].at = "running" =>
                request[s].kind \in {"admin", "aer"}
        <5>1. SUFFICES ASSUME request[r].kind = "connect", request[r].at = "running"
                       PROVE  request[s].kind \in {"admin", "aer"}
          OBVIOUS
        <5>2. Going(r) /\ Connects(r) BY <5>1 DEF Connects, Going, IsAt
        <5>3. request[s].kind # "connect"
          BY <2>4, <3>3, <5>2 DEF RequestsInv, OneConnect, Connects
        <5>4. ~IsIo(s) BY <3>3, <5>1 DEF RequestsInv, RequestInv, QpOf
        <5> QED BY <2>1, <5>3, <5>4 DEF RequestType, Kinds, IsIo
      <4> QED BY <2>4, <3>1, <3>3, <4>1, <4>2 DEF QpOf
    <3> QED BY <3>2, <3>3
  <2> QED BY <2>2, <2>3, <2>4, FinishFacts
<1> QED BY <1>1, RequestsShrink

(* A queue pair that gets its fields from a connect. *)
LEMMA ConnectingFacts ==
    ASSUME Types, NEW q \in Qpairs
    PROVE  /\ Connecting(q) \in QpairType /\ Connecting(q).received = TRUE
           /\ Connecting(q).state = qp[q].state /\ Connecting(q).group = qp[q].group
           /\ ~qp[q].ctrlr => (Connecting(q).ctrlr <=> q \in AdminQpairs)
<1>1. qp[q] \in QpairType
  BY DEF Types
<1> QED BY <1>1 DEF Connecting, QpairType

(* Execute keeps the states of the requests. *)
LEMMA ExecuteRequests ==
    ASSUME Types, RequestsInv, NEW r \in Requests, NEW q \in Qpairs, NEW k \in Kinds,
           NEW n \in Nsids \cup {NoNs}, Execute(r, q, k, n)
    PROVE  RequestsInv'
<1> DEFINE g == qp[q].group
           req == [at |-> "idle", qp |-> q, kind |-> k, ns |-> n]
           fate == Fate(req, sgroup[g], nsInfo[g])
<1>1. /\ Live(q)
      /\ IF k = "connect" THEN ~qp[q].ctrlr /\ Outstanding(q) = {} /\ ~qp[q].received
                               /\ \A s \in Requests : request[s].qp = q => request[s].at # "queued"
                          ELSE qp[q].ctrlr /\ qp[q].received
      /\ k \in {"admin", "aer"} => q \in AdminQpairs
      /\ k \in {"io", "opc0c"} => q \notin AdminQpairs
      /\ k = "opc0c" => seen.leaks = {} /\ \A s \in Requests : request[s].kind # "opc0c"
      /\ (n = NoNs) <=> (k \in {"connect", "admin", "aer"})
      /\ request' = [request EXCEPT ![r] = [req EXCEPT !.at = fate]]
      /\ qp' = IF fate = "running" /\ k = "connect" THEN [qp EXCEPT ![q] = Connecting(q)] ELSE qp
      /\ seen' = seen
      /\ fate # "idle"
      /\ request[r].at = "idle"
  BY DEF Execute
<1>2. /\ fate \in {"idle", "queued", "retrying", "running", "parked"}
      /\ fate = "running" => k # "aer"
  BY FateFacts
<1>3. (fate = "parked" => k = "aer") /\ (fate = "retrying" => k = "connect")
  BY FateFacts
<1> HIDE DEF fate, g
<1>4. request'[r] = [at |-> fate, qp |-> q, kind |-> k, ns |-> n]
  BY <1>1 DEF Types
<1>5. \A s \in Requests \ {r} : request'[s] = request[s]
  BY <1>1 DEF Types
<1>6. k = "connect" => \A s \in Requests : Going(s) => request[s].qp # q
  BY <1>1 DEF Going, IsAt, Outstanding
<1>7. /\ Live(q)' /\ (fate = "running" /\ k = "connect" => qp'[q].received
                                                     /\ (qp'[q].ctrlr <=> q \in AdminQpairs))
      /\ ~(fate = "running" /\ k = "connect") => qp' = qp
  BY <1>1, ConnectingFacts DEF Live, Types
<1>8. RequestInv(r)'
  BY <1>1, <1>2, <1>3, <1>4, <1>7 DEF RequestInv, Going, IsAt, IsIo, QpOf, Mgmt, Live, Kinds
<1>9. ASSUME NEW s \in Requests, s # r PROVE RequestInv(s)' /\ (Connects(s)' => Connects(s))
  <2>1. request'[s] = request[s] /\ RequestInv(s) /\ request[s].qp \in Qpairs
    BY <1>5, <1>9 DEF RequestsInv, Types, RequestType
  <2>2. Going(s) => qp'[request[s].qp] = qp[request[s].qp]
    BY <1>1, <1>6, <2>1 DEF Types
  <2> QED BY <2>1, <2>2 DEF RequestInv, Going, IsAt, IsIo, QpOf, Mgmt, Live, Connects
<1>10. OneConnect'
  <2>1. ASSUME NEW s \in Requests, s # r, Connects(s)', Connects(r)' PROVE request'[s].qp # request'[r].qp
    <3>1. k = "connect" /\ request'[s] = request[s] /\ Connects(s)
      BY <1>4, <1>5, <1>9, <2>1 DEF Connects
    <3> QED BY <1>4, <1>6, <3>1 DEF Connects
  <2>2. ASSUME NEW s \in Requests, NEW t \in Requests, s # r, t # r, Connects(s)', Connects(t)',
               request'[s].qp = request'[t].qp
        PROVE  s = t
    BY <1>5, <1>9, <2>2 DEF RequestsInv, OneConnect
  <2> QED BY <2>1, <2>2 DEF OneConnect
<1>11. OneLeak'
  BY <1>1, <1>4, <1>5 DEF RequestsInv, OneLeak
<1> QED BY <1>8, <1>9, <1>10, <1>11 DEF RequestsInv

(* RetryConnect keeps the states of the requests. *)
LEMMA RetryConnectRequests ==
    ASSUME Types, RequestsInv, NEW r \in Requests, RetryConnect(r)
    PROVE  RequestsInv'
<1> DEFINE q == request[r].qp
<1>1. request[r].at = "retrying" /\ seen' = seen /\ q \in Qpairs /\ request[r] \in RequestType
      /\ qp[q] \in QpairType
  BY DEF RetryConnect, Types, RequestType
<1>2. CASE NotReady
  <2>1. Finish(r, qp[q])
    BY <1>2 DEF RetryConnect
  <2>2. IsAt(r, {"retrying", "running", "parked"})
    BY <1>1 DEF IsAt
  <2> QED BY <1>1, <2>1, <2>2, FinishRequests DEF QpOf
<1>3. CASE ~NotReady
  <2>1. /\ request' = [request EXCEPT ![r].at = "running"]
        /\ qp' = [qp EXCEPT ![q] = Connecting(q)]
    BY <1>3 DEF RetryConnect
  <2>2. RequestInv(r) /\ request[r].kind = "connect" /\ Going(r) /\ Connects(r)
    BY <1>1 DEF RequestsInv, RequestInv, Going, IsAt, Connects
  <2>3. ~qp[q].received /\ ~qp[q].ctrlr /\ Live(q)
    BY <1>1, <2>2 DEF RequestInv, IsAt, QpOf
  <2>4. /\ qp'[q].received = TRUE /\ (qp'[q].ctrlr <=> q \in AdminQpairs)
        /\ qp'[q].state = qp[q].state
        /\ \A p \in Qpairs \ {q} : qp'[p] = qp[p]
    BY <1>1, <2>1, <2>3, ConnectingFacts DEF Types, Live
  <2>5. request'[r] = [request[r] EXCEPT !.at = "running"] /\ \A s \in Requests \ {r} : request'[s] = request[s]
    BY <2>1 DEF Types
  <2>6. request'[r].at = "running" /\ request'[r].kind = "connect" /\ request'[r].qp = q
        /\ request'[r].ns = request[r].ns
    BY <1>1, <2>2, <2>5 DEF RequestType
  <2>7. RequestInv(r)'
    BY <2>2, <2>3, <2>4, <2>6 DEF RequestInv, Going, IsAt, IsIo, QpOf, Mgmt, Live
  <2>8. ASSUME NEW s \in Requests, s # r PROVE RequestInv(s)' /\ (Connects(s)' => Connects(s))
    <3>1. request'[s] = request[s] /\ RequestInv(s) /\ request[s].qp \in Qpairs /\ request[s] \in RequestType
      BY <2>5, <2>8 DEF RequestsInv, Types, RequestType
    <3>2. Going(s) => request[s].qp # q
      <4>1. SUFFICES ASSUME Going(s), request[s].qp = q PROVE FALSE
        OBVIOUS
      <4>2. request[s].kind # "connect"
        BY <2>2, <2>8, <4>1 DEF RequestsInv, OneConnect, Connects
      <4>3. request[s].kind \in {"admin", "aer", "io", "opc0c"}
        BY <3>1, <4>2 DEF RequestType, Kinds
      <4> QED BY <2>3, <3>1, <4>1, <4>3 DEF RequestInv, IsIo, QpOf
    <3>3. Going(s) => qp'[request[s].qp] = qp[request[s].qp] BY <2>4, <3>1, <3>2
    <3> QED BY <3>1, <3>3 DEF RequestInv, Going, IsAt, IsIo, QpOf, Mgmt, Live, Connects
  <2>9. OneConnect'
    BY <2>2, <2>5, <2>6, <2>8 DEF RequestsInv, OneConnect
  <2>10. OneLeak'
    <3>1. \A s \in Requests : request'[s].kind = request[s].kind BY <2>2, <2>5, <2>6
    <3> QED BY <1>1, <3>1 DEF RequestsInv, OneLeak
  <2> QED BY <2>7, <2>8, <2>9, <2>10 DEF RequestsInv
<1> QED BY <1>2, <1>3

(* Complete keeps the states of the requests. *)
LEMMA CompleteRequests ==
    ASSUME Types, RequestsInv, NEW r \in Requests, NEW ok \in BOOLEAN, Complete(r, ok)
    PROVE  RequestsInv'
<1> DEFINE q == QpairAfter(r, ok)
<1>1. /\ request[r].at = "running" /\ Finish(r, q) /\ IsAt(r, {"retrying", "running", "parked"})
      /\ qp[request[r].qp] \in QpairType
  BY CompleteStep DEF IsAt, Types, RequestType
<1>2. /\ q \in QpairType /\ q.state = QpOf(r).state /\ q.received = QpOf(r).received
      /\ q.group = QpOf(r).group
      /\ q.ctrlr = QpOf(r).ctrlr \/ (request[r].kind = "connect" /\ request[r].at = "running")
  BY <1>1 DEF QpairAfter, Accepted, QpairType, QpOf
<1> HIDE DEF q
<1>3. seen'.leaks = seen.leaks \/ \A s \in Requests : request'[s].kind # "opc0c"
  <2>1. CASE request[r].kind = "opc0c"
    <3>1. ASSUME NEW s \in Requests PROVE request'[s].kind # "opc0c"
      <4>1. request'[s] = NoRequest \/ (s # r /\ request'[s].kind = request[s].kind)
        <5>1. request[s] \in RequestType BY DEF Types
        <5>2. \/ request'[s] = NoRequest
              \/ s # r /\ request'[s] = request[s]
              \/ s # r /\ request'[s] = [request[s] EXCEPT !.at = "stale"]
          BY <1>1, <1>2, FinishFacts
        <5> QED BY <5>1, <5>2 DEF RequestType
      <4>2. s # r => request[s].kind # "opc0c" BY <2>1 DEF RequestsInv, OneLeak
      <4> QED BY <4>1, <4>2, ConstantFacts
    <3> QED BY <3>1
  <2>2. CASE request[r].kind # "opc0c"
    <3> DEFINE late == IF Accepted(r, ok) /\ sgroup[GroupOf(r)].state = "inactive"
                       THEN seen.late \cup {request[r].qp} ELSE seen.late \ {request[r].qp}
    <3>1. seen' = [seen EXCEPT !.leaks = @ \cup {}, !.late = late] BY <2>2, CompleteStep
    <3> HIDE DEF late
    <3> QED BY <3>1 DEF Types, SeenType
  <2> QED BY <2>1, <2>2
<1> QED BY <1>1, <1>2, <1>3, FinishRequests

(* CompleteAer keeps the states of the requests. *)
LEMMA CompleteAerRequests ==
    ASSUME Types, RequestsInv, NEW r \in Requests, CompleteAer(r)
    PROVE  RequestsInv'
<1>1. /\ request[r].at = "parked" /\ Finish(r, qp[request[r].qp]) /\ seen' = seen
      /\ qp[request[r].qp] \in QpairType /\ IsAt(r, {"retrying", "running", "parked"})
  BY DEF CompleteAer, IsAt, Types, RequestType
<1> QED BY <1>1, FinishRequests DEF QpOf

(* Lost keeps the states of the requests. *)
LEMMA LostRequests ==
    ASSUME Types, RequestsInv, NEW g \in Groups, UNCHANGED <<qp, seen>>,
           request' = [r \in Requests |-> IF r \in Queued(g) THEN [request[r] EXCEPT !.at = "lost"]
                                          ELSE request[r]]
    PROVE  RequestsInv'
<1>1. ASSUME NEW s \in Requests
      PROVE  \/ request'[s] = request[s]
             \/ request'[s].at = "lost" /\ request'[s].kind = request[s].kind /\ request'[s].ns = request[s].ns
  BY DEF Types, RequestType
<1>2. ASSUME NEW s \in Requests PROVE Going(s) => Live(request[s].qp)
  BY DEF RequestsInv, RequestInv
<1>3. ASSUME NEW s \in Requests, request'[s] = request[s]
      PROVE  Going(s) => /\ Live(request[s].qp)'
                         /\ QpOf(s)'.received = QpOf(s).received /\ QpOf(s)'.ctrlr = QpOf(s).ctrlr
  BY <1>2, <1>3 DEF Live, QpOf
<1> QED BY <1>1, <1>3, RequestsShrink

(* AddQpair keeps the states of the requests. *)
LEMMA AddQpairRequests ==
    ASSUME Types, RequestsInv, NEW q \in Qpairs, NEW g \in Groups, AddQpair(q, g)
    PROVE  RequestsInv'
<1>1. request' = request /\ seen' = seen /\ qp[q].state = "none" /\ \A p \in Qpairs \ {q} : qp'[p] = qp[p]
  BY DEF AddQpair, Types
<1>2. ASSUME NEW s \in Requests, Going(s)
      PROVE  /\ Live(request[s].qp)'
             /\ QpOf(s)'.received = QpOf(s).received /\ QpOf(s)'.ctrlr = QpOf(s).ctrlr
  <2>1. Live(request[s].qp) /\ request[s].qp \in Qpairs
    BY <1>2 DEF RequestsInv, RequestInv, Types, RequestType
  <2>2. qp'[request[s].qp] = qp[request[s].qp]
    BY <1>1, <2>1 DEF Live
  <2> QED BY <1>1, <2>1, <2>2 DEF Live, QpOf
<1> QED BY <1>1, <1>2, RequestsShrink

(* ResumeGroup keeps the states of the requests. *)
LEMMA ResumeGroupRequests ==
    ASSUME Types, RequestsInv, NEW g \in Groups, ResumeGroup(g), Up'
    PROVE  RequestsInv'
<1>1. CASE sgroup[g].state = "active"
  <2>1. UNCHANGED <<request, qp, seen>>
    BY <1>1 DEF ResumeGroup
  <2>2. ASSUME NEW s \in Requests
        PROVE  Going(s) => /\ Live(request[s].qp)' /\ QpOf(s)'.received = QpOf(s).received
                           /\ QpOf(s)'.ctrlr = QpOf(s).ctrlr
    BY <2>1 DEF RequestsInv, RequestInv, Live, QpOf
  <2> QED BY <2>1, <2>2, RequestsShrink
<1>2. CASE sgroup[g].state # "active"
  <2>1. /\ \A r \in Requests :
            /\ r \notin Queued(g) => request'[r] = request[r]
            /\ r \in Queued(g) /\ FateIn(g, r) = "idle" => request'[r] = NoRequest
            /\ r \in Queued(g) /\ FateIn(g, r) # "idle" =>
                  request'[r] = [request[r] EXCEPT !.at = FateIn(g, r)]
        /\ qp' = [q \in Qpairs |->
            IF \E r \in Starts(g) : request[r].kind = "connect" /\ request[r].qp = q
            THEN Connecting(q) ELSE qp[q]]
        /\ \A r \in Queued(g) : request[r].at = "queued"
        /\ seen' = seen
    BY <1>2, ResumeGroupStep DEF ResumeGroup
  <2>2. \A r \in Starts(g) : r \in Requests /\ r \in Queued(g) /\ FateIn(g, r) = "running"
    BY DEF Starts, Queued
  <2>3. \A s \in Requests : /\ RequestInv(s) /\ request[s] \in RequestType /\ request[s].qp \in Qpairs
                            /\ s \in Queued(g) => Going(s)
    BY <2>1 DEF RequestsInv, Types, RequestType, Going, IsAt
  \* A queue pair that is connecting has no other requests.
  <2>4. ASSUME NEW s \in Requests, Going(s), NEW r \in Starts(g), request[r].kind = "connect",
               request[r].qp = request[s].qp
        PROVE  s = r
    <3>1. r \in Requests /\ Going(r) /\ Connects(r) /\ ~QpOf(r).received
      BY <2>1, <2>2, <2>3, <2>4 DEF RequestInv, Connects, IsAt
    <3>2. request[s].kind = "connect"
      <4>1. ~(request[s].kind \in {"admin", "aer", "io", "opc0c"})
        BY <2>3, <2>4, <3>1 DEF RequestInv, IsIo, QpOf
      <4> QED BY <2>3, <4>1 DEF RequestType, Kinds
    <3> QED BY <2>4, <3>1, <3>2 DEF RequestsInv, OneConnect, Connects
  <2>5. ASSUME NEW s \in Requests, Going(s)
        PROVE  /\ s \in Starts(g) /\ request[s].kind = "connect" =>
                    qp'[request[s].qp] = Connecting(request[s].qp)
               /\ ~(s \in Starts(g) /\ request[s].kind = "connect") =>
                    qp'[request[s].qp] = qp[request[s].qp]
    BY <2>1, <2>3, <2>4, <2>5
  <2>6. ASSUME NEW s \in Requests
        PROVE  RequestInv(s)' /\ (Connects(s)' => Connects(s) /\ request'[s].qp = request[s].qp)
               /\ (request'[s].kind = "opc0c" => request[s].kind = "opc0c")
    <3>1. CASE s \notin Queued(g)
      <4>1. request'[s] = request[s] /\ s \notin Starts(g) BY <2>1, <2>2, <3>1
      <4>2. Going(s) => qp'[request[s].qp] = qp[request[s].qp] BY <2>5, <4>1
      <4> QED
        BY <2>3, <4>1, <4>2 DEF RequestInv, Going, IsAt, IsIo, QpOf, Mgmt, Live, Connects
    <3>2. CASE s \in Queued(g) /\ FateIn(g, s) = "idle"
      <4>1. request'[s] = NoRequest BY <2>1, <3>2
      <4> QED BY <4>1, ConstantFacts DEF RequestInv, Going, IsAt, Mgmt, Connects, IsIo
    <3>3. CASE s \in Queued(g) /\ FateIn(g, s) # "idle"
      <4>1. /\ request'[s].at = FateIn(g, s) /\ request'[s].kind = request[s].kind
            /\ request'[s].qp = request[s].qp /\ request'[s].ns = request[s].ns
        BY <2>1, <2>3, <3>3 DEF RequestType
      <4>2. request[s].at = "queued" /\ Going(s) /\ RequestInv(s) /\ request[s].qp \in Qpairs
        BY <2>1, <2>3, <3>3
      <4>3. /\ FateIn(g, s) \in {"queued", "retrying", "running", "parked"}
            /\ FateIn(g, s) = "parked" => request[s].kind = "aer"
            /\ FateIn(g, s) = "retrying" => request[s].kind = "connect"
            /\ FateIn(g, s) = "running" => request[s].kind # "aer"
        BY <3>3, FateFacts DEF FateIn
      <4>4. CASE FateIn(g, s) = "running" /\ request[s].kind = "connect"
        <5>1. s \in Starts(g) BY <3>3, <4>4 DEF Starts
        <5>2. qp'[request[s].qp] = Connecting(request[s].qp) BY <2>5, <4>2, <4>4, <5>1
        <5>3. ~qp[request[s].qp].ctrlr BY <4>2, <4>4 DEF RequestInv, IsAt, QpOf
        <5>4. /\ qp'[request[s].qp].received = TRUE
              /\ qp'[request[s].qp].ctrlr <=> request[s].qp \in AdminQpairs
              /\ qp'[request[s].qp].state = qp[request[s].qp].state
          BY <4>2, <5>2, <5>3, ConnectingFacts
        <5> QED
          BY <4>1, <4>2, <4>4, <5>4
          DEF RequestInv, Going, IsAt, IsIo, QpOf, Mgmt, Live, Connects
      <4>5. CASE ~(FateIn(g, s) = "running" /\ request[s].kind = "connect")
        <5>1. qp'[request[s].qp] = qp[request[s].qp] BY <2>2, <2>5, <4>2, <4>5
        <5> QED
          BY <4>1, <4>2, <4>3, <4>5, <5>1
          DEF RequestInv, Going, IsAt, IsIo, QpOf, Mgmt, Live, Connects
      <4> QED BY <4>4, <4>5
    <3> QED BY <3>1, <3>2, <3>3
  <2>7. OneConnect'
    BY <2>6 DEF RequestsInv, OneConnect
  <2>8. OneLeak'
    BY <2>1, <2>6 DEF RequestsInv, OneLeak
  <2> QED BY <2>6, <2>7, <2>8 DEF RequestsInv
<1> QED BY <1>1, <1>2
---------------------------------------------------------------------------
(* The counters of the groups *)

MgmtIn(g) == Running(g, {"connect", "admin"}, NoNs)
IoIn(g, n) == Running(g, {"io", "opc0c"}, n)
RunsOn(r, n) == request[r].at = "running" /\ request[r].ns = n

(* The counter of a slot is exact, or it has kept the count of a command
   with the opcode of an AER. *)
MgmtExact == \A g \in Groups : sgroup[g].mgmt = Cardinality(MgmtIn(g))
IoExact ==
    \A g \in Groups : \A n \in Nsids \ seen.unpaused :
        \/ nsInfo[g][n].io = Cardinality(IoIn(g, n))
        \/ <<g, n>> \in seen.leaks /\ nsInfo[g][n].io = Cardinality(IoIn(g, n)) + 1
IoServed == \A r \in Requests : IsIo(r) /\ request[r].at = "running" => sgroup[GroupOf(r)].num_ns
Waits == \A g \in Groups : sgroup[g].cb => ~Quiet(sgroup[g], nsInfo[g])

Counting == MgmtExact /\ IoExact /\ IoServed /\ Waits

(* The slots of namespaces that are gone, or about to go. *)
Startable(g, n) == nsInfo[g][n].channel /\ nsInfo[g][n].state = "active"
GoneInv ==
    \A n \in Nsids \ (subsys.ns \cup seen.unpaused) :
        /\ \A r \in Requests : ~RunsOn(r, n)
        /\ subsys.destroyed \/ \A g \in Groups : ~Startable(g, n)
DestroyedInv == subsys.destroyed => \A r \in Requests : IsAt(r, {"queued", "running"}) => ~IsIo(r)
PausedInv ==
    change.on /\ change.to = "paused" /\ ~change.revert /\ change.ns \in Nsids =>
        \A g \in Groups :
            /\ g < change.at \/ sgroup[g].cb => nsInfo[g][change.ns].state = "pausing"
            /\ g < change.at /\ change.ns \notin seen.unpaused =>
                  \A r \in Requests : RunsOn(r, change.ns) => GroupOf(r) # g

(* A group without the subsystem serves no controller. *)
ConnectRuns(q) == \E r \in Requests : /\ request[r].qp = q /\ request[r].at = "running"
                                      /\ request[r].kind = "connect"
UnservedInv ==
    \A g \in Groups : ~sgroup[g].num_ns =>
        /\ \A q \in Qpairs : Live(q) /\ qp[q].group = g /\ qp[q].ctrlr /\ qp[q].received =>
              q \in seen.late \/ ConnectRuns(q)
        /\ \A r \in Requests : request[r].at = "running" /\ request[r].kind = "admin"
                               /\ GroupOf(r) = g => ~QpOf(r).ctrlr

Namespaces == GoneInv /\ DestroyedInv /\ PausedInv /\ UnservedInv

Whole == Types /\ Control /\ RequestsInv /\ Counting /\ Namespaces

(* Sets of requests are finite, and fewer than the counters can count. *)
LEMMA RequestSets ==
    /\ \A S \in SUBSET Requests :
         /\ IsFiniteSet(S) /\ Cardinality(S) \in Nat /\ Cardinality(S) + 1 < CounterMod
         /\ Cardinality(S) = 0 <=> S = {}
         /\ \A r \in Requests \ S : Cardinality(S \cup {r}) = Cardinality(S) + 1
         /\ \A r \in S : Cardinality(S \ {r}) = Cardinality(S) - 1
    /\ \A S, T \in SUBSET Requests : S \cap T = {} =>
         Cardinality(S \cup T) = Cardinality(S) + Cardinality(T)
<1>1. ASSUME NEW S \in SUBSET Requests
      PROVE  /\ IsFiniteSet(S) /\ Cardinality(S) \in Nat /\ Cardinality(S) + 1 < CounterMod
             /\ Cardinality(S) = 0 <=> S = {}
             /\ \A r \in Requests \ S : Cardinality(S \cup {r}) = Cardinality(S) + 1
             /\ \A r \in S : Cardinality(S \ {r}) = Cardinality(S) - 1
  <2>1. IsFiniteSet(S) /\ Cardinality(S) <= Cardinality(Requests)
    BY CounterModAssumption, FS_Subset
  <2>2. Cardinality(S) \in Nat /\ Cardinality(Requests) \in Nat
    BY <2>1, CounterModAssumption, FS_CardinalityType
  <2>3. Cardinality(S) + 1 < CounterMod
    BY <2>1, <2>2, CounterModAssumption
  <2>4. Cardinality(S) = 0 <=> S = {}
    BY <2>1, FS_EmptySet
  <2>5. \A r \in Requests \ S : Cardinality(S \cup {r}) = Cardinality(S) + 1
    BY <2>1, FS_AddElement
  <2>6. \A r \in S : Cardinality(S \ {r}) = Cardinality(S) - 1
    BY <2>1, FS_RemoveElement
  <2> QED BY <2>1, <2>2, <2>3, <2>4, <2>5, <2>6
<1>2. ASSUME NEW S \in SUBSET Requests, NEW T \in SUBSET Requests, S \cap T = {}
      PROVE  Cardinality(S \cup T) = Cardinality(S) + Cardinality(T)
  <2>1. IsFiniteSet(S) /\ IsFiniteSet(T) /\ Cardinality(S) \in Nat /\ Cardinality(T) \in Nat
    BY <1>1
  <2>2. Cardinality(S \cap T) = 0
    BY <1>2, FS_EmptySet
  <2>3. Cardinality(S \cup T) = Cardinality(S) + Cardinality(T) - Cardinality(S \cap T)
    BY <2>1, FS_Union
  <2> QED BY <2>1, <2>2, <2>3
<1> QED BY <1>1, <1>2

(* A counter below its modulus does not wrap. *)
LEMMA NoWrap ==
    ASSUME NEW i \in Nat, i < CounterMod
    PROVE  (i % CounterMod) = i
  BY ConstantFacts

(* Who is counted. *)
Counted ==
    /\ \A g : MgmtIn(g) = {r \in Requests : request[r].at = "running" /\ GroupOf(r) = g /\ Mgmt(r)}
    /\ \A g : \A n \in Nsids : IoIn(g, n) = {r \in Requests : RunsOn(r, n) /\ GroupOf(r) = g}
    /\ \A r \in Requests : \A n \in Nsids : RunsOn(r, n) => IsIo(r) /\ ~Mgmt(r)
    /\ \A g : MgmtIn(g) \in SUBSET Requests /\ \A n : IoIn(g, n) \in SUBSET Requests

(* What runs is counted once, as management or as I/O. *)
LEMMA WhoCounts == Types /\ RequestsInv => Counted
<1> SUFFICES ASSUME Types, RequestsInv PROVE Counted
  OBVIOUS
<1>1. \A r \in Requests : /\ RequestInv(r) /\ request[r].kind \in Kinds
                          /\ (request[r].ns = NoNs) <=> Mgmt(r)
                          /\ request[r].at = "running" => request[r].kind # "aer"
  BY DEF RequestsInv, RequestInv, Types, RequestType
<1>2. NoNs \notin Nsids
  BY NsidsAssumption
<1>3. \A r \in Requests : \A n \in Nsids : RunsOn(r, n) => IsIo(r) /\ ~Mgmt(r)
  BY <1>1, <1>2 DEF RunsOn, IsIo, Kinds, Mgmt
<1> QED BY <1>1, <1>2, <1>3 DEF Counted, MgmtIn, IoIn, Running, RunsOn, Mgmt, IsIo, Kinds

(* The same of the next state. *)
LEMMA WhoCountsNext == (Types /\ RequestsInv => Counted)'
  BY WhoCounts, PTL

(* A step that leaves the running requests as they are. *)
SameRunning ==
    \A s \in Requests :
        /\ (request'[s].at = "running") <=> (request[s].at = "running")
        /\ request[s].at = "running" => /\ request'[s] = request[s]
                                        /\ qp'[request[s].qp].group = QpOf(s).group
                                        /\ qp'[request[s].qp].ctrlr = QpOf(s).ctrlr

(* While the same requests run, the same are counted. *)
LEMMA SameSets ==
    ASSUME SameRunning
    PROVE  /\ \A g : MgmtIn(g)' = MgmtIn(g)
           /\ \A g : \A n : IoIn(g, n)' = IoIn(g, n)
           /\ \A s \in Requests : \A n : RunsOn(s, n)' <=> RunsOn(s, n)
           /\ \A q : ConnectRuns(q)' <=> ConnectRuns(q)
           /\ \A s \in Requests : request[s].at = "running" => GroupOf(s)' = GroupOf(s)
  BY DEF SameRunning, MgmtIn, IoIn, Running, RunsOn, ConnectRuns, GroupOf, QpOf
(* A step of a changer: groups, slots, queue pairs and requests stay, and
   more namespaces may be known to have gone unpaused. *)
ChangerStep ==
    /\ UNCHANGED <<sgroup, nsInfo, request, qp>>
    /\ seen'.late = seen.late /\ seen'.leaks = seen.leaks
    /\ seen.unpaused \subseteq seen'.unpaused

(* A changer's step counts nothing. *)
LEMMA ChangerCounting ==
    ASSUME Types, Counting, ChangerStep
    PROVE  Counting'
<1>1. /\ \A g : MgmtIn(g)' = MgmtIn(g)
      /\ \A g : \A n : IoIn(g, n)' = IoIn(g, n)
  BY DEF ChangerStep, MgmtIn, IoIn, Running, GroupOf
<1>2. MgmtExact'
  BY <1>1 DEF Counting, MgmtExact, ChangerStep
<1>3. IoExact'
  BY <1>1 DEF Counting, IoExact, ChangerStep
<1>4. IoServed'
  BY DEF Counting, IoServed, ChangerStep, IsIo, GroupOf
<1>5. Waits'
  BY DEF Counting, Waits, ChangerStep, Quiet
<1> QED BY <1>2, <1>3, <1>4, <1>5 DEF Counting

(* A namespace leaves when nothing runs on it. *)
LEMMA ChangerNamespaces ==
    ASSUME Types, Namespaces, ChangerStep, PausedInv',
           subsys'.destroyed = subsys.destroyed,
           \A n \in subsys.ns \ subsys'.ns :
               \/ n \in seen'.unpaused
               \/ /\ \A r \in Requests : ~RunsOn(r, n)
                  /\ \A g \in Groups : ~Startable(g, n)
    PROVE  Namespaces'
<1>1. GoneInv'
  <2> SUFFICES ASSUME NEW n \in Nsids, n \notin subsys'.ns, n \notin seen'.unpaused
               PROVE  /\ \A r \in Requests : ~RunsOn(r, n)'
                      /\ subsys'.destroyed \/ \A g \in Groups : ~Startable(g, n)'
    BY DEF GoneInv
  <2>1. n \notin seen.unpaused
    BY DEF ChangerStep
  <2>2. (\A r \in Requests : ~RunsOn(r, n)) /\ (subsys.destroyed \/ \A g \in Groups : ~Startable(g, n))
    BY <2>1 DEF Namespaces, GoneInv
  <2> QED BY <2>2 DEF RunsOn, Startable, ChangerStep
<1>2. DestroyedInv'
  BY DEF Namespaces, DestroyedInv, ChangerStep, IsAt, IsIo
<1>3. UnservedInv'
  BY DEF Namespaces, UnservedInv, ChangerStep, ConnectRuns, Live, GroupOf, QpOf
<1> QED BY <1>1, <1>2, <1>3 DEF Namespaces

(* No new pause, or one whose walk is about to begin. *)
LEMMA ChangerPaused ==
    ASSUME Types, Namespaces, ChangerStep,
           \/ change' = change
           \/ NotPausing'
           \/ change'.at = 1 /\ \A g \in Groups : ~sgroup[g].cb
    PROVE  PausedInv'
<1>1. CASE change' = change
  BY <1>1 DEF Namespaces, PausedInv, ChangerStep, RunsOn, GroupOf
<1>2. CASE NotPausing'
  BY <1>2 DEF NotPausing, PausedInv
<1>3. CASE change'.at = 1 /\ \A g \in Groups : ~sgroup[g].cb
  <2>1. \A g \in Groups : ~(g < change'.at) /\ ~sgroup'[g].cb
    BY <1>3 DEF ChangerStep, Groups
  <2> QED BY <2>1 DEF PausedInv
<1> QED BY <1>1, <1>2, <1>3

(* What every step of a changer does: a namespace that leaves without
   being known to be unpaused has no I/O, and no group starts any. *)
ChangerMoves ==
    /\ ChangerStep
    /\ subsys'.destroyed = subsys.destroyed
    /\ \A n \in subsys.ns \ subsys'.ns :
         \/ n \in seen'.unpaused
         \/ /\ \A r \in Requests : ~RunsOn(r, n)
            /\ \A g \in Groups : ~Startable(g, n)
    /\ \/ change' = change
       \/ NotPausing'
       \/ change'.at = 1 /\ \A g \in Groups : ~sgroup[g].cb

(* What the changers' steps do to groups, requests and namespaces. *)
LEMMA ChangersMove ==
    ASSUME Whole,
           \/ \E o \in Changers : Pause(o) \/ Listened(o) \/ Stop(o)
           \/ Start \/ ChangeDone \/ Revert \/ RevertDone
    PROVE  ChangerMoves
<1> USE DEF Whole
<1> DEFINE Good == ChangerMoves
           Removed == seen' = [seen EXCEPT !.unpaused = @ \cup (subsys.ns \ subsys'.ns)]
<1>1. ASSUME UNCHANGED <<sgroup, nsInfo, request, qp, seen>>, subsys'.ns = subsys.ns,
             subsys'.destroyed = subsys.destroyed, change' = change \/ NotPausing'
      PROVE  Good
  BY <1>1 DEF ChangerStep, ChangerMoves
<1>2. ASSUME UNCHANGED <<sgroup, nsInfo, request, qp>>, Removed,
             subsys'.destroyed = subsys.destroyed, NotPausing'
      PROVE  Good
  <2>1. seen \in SeenType
    BY DEF Types
  <2>2. /\ seen'.late = seen.late /\ seen'.leaks = seen.leaks
        /\ seen'.unpaused = seen.unpaused \cup (subsys.ns \ subsys'.ns)
    BY <1>2, <2>1 DEF SeenType
  <2> QED BY <1>2, <2>2 DEF ChangerStep, ChangerMoves
<1>3. ASSUME NEW o \in Changers, Pause(o)
      PROVE  Good
  <2>1. CASE Answer(subsys, "paused") = "started"
    <3>1. /\ GroupsAt("active") /\ subsys'.ns = subsys.ns /\ subsys'.destroyed = subsys.destroyed
          /\ change'.at = 1 /\ UNCHANGED <<sgroup, nsInfo, request, qp, seen>>
      BY <1>3, <2>1, PauseStarts
    <3> QED BY <3>1 DEF ChangerStep, ChangerMoves, GroupsAt
  <2>2. CASE Answer(subsys, "paused") = "same"
    <3>1. /\ subsys'.destroyed = subsys.destroyed /\ (change'.on => change'.to = "active")
          /\ UNCHANGED <<sgroup, nsInfo, request, qp>> /\ Removed
      BY <1>3, <2>2, PauseShared
    <3> QED BY <1>2, <3>1 DEF NotPausing
  <2>3. CASE Answer(subsys, "paused") \notin {"started", "same"}
    <3>1. UNCHANGED <<subsys, change, sgroup, nsInfo, request, qp, seen>>
      BY <1>3, <2>3, PauseRefused
    <3> QED BY <1>1, <3>1
  <2> QED BY <2>1, <2>2, <2>3
<1>4. ASSUME NEW o \in Changers, Listened(o) \/ Stop(o)
      PROVE  Good
  <2>1. UNCHANGED <<sgroup, nsInfo, request, qp, seen>>
    BY <1>4 DEF Listened, Stop
  <2>2. /\ subsys'.ns = subsys.ns /\ subsys'.destroyed = subsys.destroyed
        /\ change' = change \/ NotPausing'
    BY <1>4, ListenedControl, StopControl
  <2> QED BY <1>1, <2>1, <2>2
<1>5. ASSUME Start \/ Revert
      PROVE  Good
  <2>1. UNCHANGED <<sgroup, nsInfo, request, qp, seen>>
    BY <1>5 DEF Start, Revert
  <2>2. subsys'.ns = subsys.ns /\ subsys'.destroyed = subsys.destroyed /\ NotPausing'
    BY <1>5, StartControl, RevertControl
  <2> QED BY <1>1, <2>1, <2>2
<1>6. ASSUME RevertDone
      PROVE  Good
  <2>1. UNCHANGED <<sgroup, nsInfo, request, qp>>
    BY <1>6 DEF RevertDone
  <2> QED BY <1>2, <1>6, <2>1, RevertDoneControl
<1>7. ASSUME ChangeDone
      PROVE  Good
  <2>1. UNCHANGED <<sgroup, nsInfo, request, qp, seen>> /\ change.on /\ WalkEnded
    BY <1>7 DEF ChangeDone, WalkEnded
  <2>2. /\ NotPausing' /\ subsys'.destroyed = subsys.destroyed
        /\ \A n \in subsys.ns \ subsys'.ns : change.to = "paused" /\ ~change.revert /\ change.ns = n
    BY <1>7, ChangeDoneControl
  <2>3. ASSUME NEW n \in subsys.ns \ subsys'.ns, n \notin seen'.unpaused
        PROVE  (\A r \in Requests : ~RunsOn(r, n)) /\ \A g \in Groups : ~Startable(g, n)
    <3>1. n \in Nsids /\ change.ns = n /\ n \notin seen.unpaused
      BY <2>1, <2>2, <2>3 DEF Types, SubsysType
    <3>2. \A g \in Groups : g < change.at
      BY <2>1, ConstantFacts DEF WalkEnded, Types, ChangeType
    <3>3. ASSUME NEW g \in Groups
          PROVE  /\ nsInfo[g][n].state = "pausing"
                 /\ \A r \in Requests : RunsOn(r, n) => GroupOf(r) # g
      BY <2>1, <2>2, <2>3, <3>1, <3>2 DEF Namespaces, PausedInv
    <3>4. \A r \in Requests : GroupOf(r) \in Groups
      BY DEF Types, RequestType, QpairType, GroupOf
    <3> QED BY <3>3, <3>4 DEF Startable
  <2> QED BY <2>1, <2>2, <2>3 DEF ChangerStep, ChangerMoves
<1> QED BY <1>3, <1>4, <1>5, <1>6, <1>7

(* The changers' steps keep the counters and the namespaces. *)
LEMMA ChangersWhole ==
    ASSUME Whole,
           \/ \E o \in Changers : Pause(o) \/ Listened(o) \/ Stop(o)
           \/ Start \/ ChangeDone \/ Revert \/ RevertDone
    PROVE  Counting' /\ Namespaces'
  BY ChangersMove, ChangerCounting, ChangerPaused, ChangerNamespaces DEF Whole, ChangerMoves

(* The end of the subsystem: no controller, so no I/O is left. *)
LEMMA DestroyedWhole ==
    ASSUME Whole, Destroyed
    PROVE  Counting' /\ Namespaces'
<1>1. /\ ChangerStep /\ change' = change /\ subsys'.destroyed = TRUE
      /\ \A q \in Qpairs : Live(q) => ~qp[q].ctrlr
  BY DEF Whole, Destroyed, ChangerStep, Types, SubsysType
<1>2. Counting' /\ PausedInv'
  BY <1>1, ChangerCounting, ChangerPaused DEF Whole
<1>3. ASSUME NEW r \in Requests, IsIo(r)
      PROVE  ~Going(r)
  <2>1. request[r].qp \in Qpairs
    BY DEF Whole, Types, RequestType
  <2> QED BY <1>1, <1>3, <2>1 DEF Whole, RequestsInv, RequestInv, QpOf
<1>4. DestroyedInv'
  BY <1>1, <1>3 DEF DestroyedInv, ChangerStep, IsAt, IsIo, Going
<1>5. GoneInv'
  <2>1. \A r \in Requests : \A n \in Nsids : ~RunsOn(r, n)
    BY <1>3, WhoCounts DEF Whole, Counted, RunsOn, Going, IsAt
  <2> QED BY <1>1, <2>1 DEF GoneInv, ChangerStep, RunsOn
<1>6. UnservedInv'
  BY <1>1 DEF Whole, Namespaces, UnservedInv, ChangerStep, ConnectRuns, Live, GroupOf, QpOf
<1> QED BY <1>2, <1>4, <1>5, <1>6 DEF Namespaces
---------------------------------------------------------------------------
(* Steps in which no request starts to run, and none that runs ends *)

(* The queue pairs that have a controller had it before. *)
NoNewMember ==
    \A q \in Qpairs : Live(q)' /\ qp'[q].ctrlr /\ qp'[q].received =>
        Live(q) /\ qp[q].ctrlr /\ qp[q].received /\ qp'[q].group = qp[q].group

NoNewIo ==
    subsys.destroyed => \A s \in Requests :
        request'[s].at \in {"queued", "running"} => request'[s] = request[s]

(* So does a step that starts nothing and ends nothing. *)
LEMMA QuietStep ==
    ASSUME Whole, SameRunning, NoNewMember, NoNewIo,
           UNCHANGED <<subsys, change, sgroup, nsInfo, seen>>
    PROVE  Counting' /\ Namespaces'
<1>1. /\ \A g : MgmtIn(g)' = MgmtIn(g)
      /\ \A g : \A n : IoIn(g, n)' = IoIn(g, n)
      /\ \A s \in Requests : \A n : RunsOn(s, n)' <=> RunsOn(s, n)
      /\ \A q : ConnectRuns(q)' <=> ConnectRuns(q)
      /\ \A s \in Requests : request[s].at = "running" => GroupOf(s)' = GroupOf(s)
  BY SameSets
<1>2. MgmtExact' /\ IoExact'
  BY <1>1 DEF Whole, Counting, MgmtExact, IoExact
<1>3. IoServed'
  <2> SUFFICES ASSUME NEW r \in Requests, IsIo(r)', request'[r].at = "running"
               PROVE  sgroup'[GroupOf(r)'].num_ns
    BY DEF IoServed
  <2>1. request[r].at = "running" /\ IsIo(r) /\ GroupOf(r)' = GroupOf(r)
    BY <1>1 DEF SameRunning, IsIo
  <2> QED BY <2>1 DEF Whole, Counting, IoServed
<1>4. Waits'
  BY DEF Whole, Counting, Waits, Quiet
<1>5. GoneInv'
  BY <1>1 DEF Whole, Namespaces, GoneInv, Startable
<1>6. DestroyedInv'
  BY DEF Whole, Namespaces, DestroyedInv, NoNewIo, IsAt, IsIo
<1>7. PausedInv'
  <2>1. \A r \in Requests : RunsOn(r, change.ns) => GroupOf(r)' = GroupOf(r)
    BY <1>1 DEF RunsOn
  <2> QED BY <1>1, <2>1 DEF Whole, Namespaces, PausedInv
<1>8. UnservedInv'
  <2> SUFFICES ASSUME NEW g \in Groups, ~sgroup[g].num_ns
               PROVE  /\ \A q \in Qpairs : Live(q)' /\ qp'[q].group = g /\ qp'[q].ctrlr /\ qp'[q].received =>
                            q \in seen.late \/ ConnectRuns(q)'
                      /\ \A r \in Requests : request'[r].at = "running" /\ request'[r].kind = "admin"
                            /\ GroupOf(r)' = g => ~QpOf(r)'.ctrlr
    BY DEF UnservedInv
  <2>1. ASSUME NEW q \in Qpairs, Live(q)', qp'[q].group = g, qp'[q].ctrlr, qp'[q].received
        PROVE  q \in seen.late \/ ConnectRuns(q)'
    <3>1. Live(q) /\ qp[q].ctrlr /\ qp[q].received /\ qp[q].group = g
      BY <2>1 DEF NoNewMember
    <3> QED BY <1>1, <3>1 DEF Whole, Namespaces, UnservedInv
  <2>2. ASSUME NEW r \in Requests, request'[r].at = "running", request'[r].kind = "admin", GroupOf(r)' = g
        PROVE  ~QpOf(r)'.ctrlr
    <3>1. /\ request[r].at = "running" /\ request'[r] = request[r] /\ GroupOf(r) = g
          /\ qp'[request[r].qp].ctrlr = QpOf(r).ctrlr
      BY <1>1, <2>2 DEF SameRunning
    <3>2. ~QpOf(r).ctrlr BY <2>2, <3>1 DEF Whole, Namespaces, UnservedInv
    <3> QED BY <3>1, <3>2 DEF QpOf
  <2> QED BY <2>1, <2>2
<1> QED BY <1>2, <1>3, <1>4, <1>5, <1>6, <1>7, <1>8 DEF Counting, Namespaces

(* The end of a request that is not running, and the loss of queue pairs. *)
LEMMA FinishQuiet ==
    ASSUME Whole, NEW r \in Requests, request[r].at \in {"retrying", "parked"},
           Finish(r, qp[request[r].qp]), UNCHANGED <<subsys, change, sgroup, nsInfo, seen>>
    PROVE  Counting' /\ Namespaces'
<1> DEFINE p == request[r].qp
<1>1. IsAt(r, {"retrying", "running", "parked"}) /\ p \in Qpairs /\ qp[p] \in QpairType
  BY DEF IsAt, Whole, Types, RequestType
<1>2. /\ request'[r] = NoRequest
      /\ \A q \in Qpairs \ {p} : qp'[q] = qp[q]
      /\ qp'[p].ctrlr = qp[p].ctrlr /\ qp'[p].received = qp[p].received /\ qp'[p].group = qp[p].group
      /\ qp'[p].state = qp[p].state \/ qp'[p].state = "freed"
  BY <1>1, FinishFacts DEF Whole, QpOf
<1>3. \A s \in Requests \ {r} :
        \/ request'[s] = request[s]
        \/ /\ request[s].at = "queued"
           /\ request'[s] = NoRequest \/ request'[s] = [request[s] EXCEPT !.at = "stale"]
  BY <1>1, FinishFacts DEF Whole, QpOf
<1>4. \A q \in Qpairs : /\ qp'[q].ctrlr = qp[q].ctrlr /\ qp'[q].received = qp[q].received
                        /\ qp'[q].group = qp[q].group /\ (Live(q)' => Live(q))
  BY <1>2 DEF Live
<1>5. \A s \in Requests : /\ request[s] \in RequestType /\ request[s].qp \in Qpairs
                          /\ [request[s] EXCEPT !.at = "stale"].at = "stale"
  BY DEF Whole, Types, RequestType
<1>6. NoRequest.at = "idle"
  BY DEF NoRequest
<1>7. SameRunning
  <2> SUFFICES ASSUME NEW s \in Requests
               PROVE  /\ (request'[s].at = "running") <=> (request[s].at = "running")
                      /\ request[s].at = "running" => request'[s] = request[s]
    BY <1>4, <1>5 DEF SameRunning, QpOf
  <2> QED BY <1>2, <1>3, <1>5, <1>6
<1>8. NoNewIo
  BY <1>2, <1>3, <1>5, <1>6 DEF NoNewIo
<1> HIDE DEF p
<1> QED BY <1>4, <1>7, <1>8, QuietStep DEF NoNewMember

(* A disconnect is such a step. *)
LEMMA DisconnectQuiet ==
    ASSUME Whole, NEW Q \in SUBSET Qpairs, \A q \in Q : Live(q), Disconnect(Q),
           UNCHANGED <<subsys, change, sgroup, nsInfo, seen>>
    PROVE  Counting' /\ Namespaces'
<1>1. /\ \A p \in Qpairs : /\ qp'[p].ctrlr = qp[p].ctrlr /\ qp'[p].received = qp[p].received
                           /\ qp'[p].group = qp[p].group /\ (Live(p)' => Live(p))
      /\ \A s \in Requests :
            \/ request'[s] = request[s]
            \/ /\ request[s].at \in {"queued", "parked"}
               /\ request'[s] = NoRequest \/ request'[s] = [request[s] EXCEPT !.at = "stale"]
  BY DisconnectFacts DEF Whole
<1>2. \A s \in Requests : /\ request[s] \in RequestType /\ request[s].qp \in Qpairs
                          /\ [request[s] EXCEPT !.at = "stale"].at = "stale"
  BY DEF Whole, Types, RequestType
<1>3. NoRequest.at = "idle"
  BY DEF NoRequest
<1>4. SameRunning /\ NoNewIo
  BY <1>1, <1>2, <1>3 DEF SameRunning, NoNewIo, QpOf
<1> QED BY <1>1, <1>4, QuietStep DEF NoNewMember

(* Queue pairs that come, go or are removed keep the counters. *)
LEMMA QpairStepsWhole ==
    ASSUME Whole,
           \/ \E q \in Qpairs : LoseQpair(q) \/ \E g \in Groups : AddQpair(q, g)
           \/ \E g \in Groups : RemoveQpairs(g)
           \/ \E r \in Requests : CompleteAer(r)
    PROVE  Counting' /\ Namespaces'
<1>1. ASSUME NEW q \in Qpairs, LoseQpair(q)
      PROVE  Counting' /\ Namespaces'
  BY <1>1, DisconnectQuiet DEF LoseQpair, Live
<1>2. ASSUME NEW g \in Groups, RemoveQpairs(g)
      PROVE  Counting' /\ Namespaces'
  <2> DEFINE Q == {q \in Members(g) : qp[q].state = "active"}
  <2>1. Disconnect(Q) /\ UNCHANGED <<subsys, change, sgroup, nsInfo, seen>>
    BY <1>2 DEF RemoveQpairs
  <2>2. Q \in SUBSET Qpairs /\ \A q \in Q : Live(q)
    BY DEF Live, Members
  <2> HIDE DEF Q
  <2> QED BY <2>1, <2>2, DisconnectQuiet
<1>3. ASSUME NEW r \in Requests, CompleteAer(r)
      PROVE  Counting' /\ Namespaces'
  BY <1>3, FinishQuiet DEF CompleteAer
<1>4. ASSUME NEW q \in Qpairs, NEW g \in Groups, AddQpair(q, g)
      PROVE  Counting' /\ Namespaces'
  <2>1. /\ qp' = [qp EXCEPT ![q] = [NoQpair EXCEPT !.state = "active", !.group = g]]
        /\ qp[q].state = "none"
        /\ UNCHANGED <<subsys, change, sgroup, nsInfo, request, seen>>
    BY <1>4 DEF AddQpair
  <2>2. ~qp'[q].ctrlr /\ \A p \in Qpairs \ {q} : qp'[p] = qp[p]
    BY <2>1 DEF Whole, Types, NoQpair
  <2>3. NoNewMember /\ NoNewIo
    BY <2>1, <2>2 DEF NoNewMember, NoNewIo, Live
  <2>4. SameRunning
    <3>1. \A s \in Requests : request[s].at = "running" => Live(request[s].qp)
      BY DEF Whole, RequestsInv, RequestInv, Going, IsAt
    <3>2. \A s \in Requests : request[s].at = "running" => request[s].qp # q /\ request[s].qp \in Qpairs
      BY <2>1, <3>1 DEF Live, Whole, Types, RequestType
    <3> QED BY <2>1, <2>2, <3>2 DEF SameRunning, QpOf
  <2> QED BY <2>1, <2>3, <2>4, QuietStep
<1> QED BY <1>1, <1>2, <1>3, <1>4
---------------------------------------------------------------------------
(* A request that starts to run, or one that ends *)

(* All the other requests that run go on, on queue pairs that stay theirs. *)
SameOthers(r) ==
    \A s \in Requests \ {r} :
        /\ (request'[s].at = "running") <=> (request[s].at = "running")
        /\ request[s].at = "running" => /\ request'[s] = request[s]
                                        /\ qp'[request[s].qp].group = QpOf(s).group

(* How the sets of the requests that are counted change: by one, in the
   group g of r. *)
LEMMA StartSets ==
    ASSUME Types, RequestsInv, Types', RequestsInv', NEW r \in Requests, SameOthers(r),
           request[r].at # "running", request'[r].at = "running", NEW g, GroupOf(r)' = g,
           NEW n, request'[r].ns = n
    PROVE  /\ Mgmt(r)' => /\ MgmtIn(g)' = MgmtIn(g) \cup {r} /\ r \notin MgmtIn(g)
                          /\ \A h : h # g => MgmtIn(h)' = MgmtIn(h)
                          /\ \A h : \A m \in Nsids : IoIn(h, m)' = IoIn(h, m)
           /\ ~Mgmt(r)' =>
                /\ n \in Nsids
                /\ IoIn(g, n)' = IoIn(g, n) \cup {r} /\ r \notin IoIn(g, n)
                /\ \A h : \A m \in Nsids : h # g \/ m # n => IoIn(h, m)' = IoIn(h, m)
                /\ \A h : MgmtIn(h)' = MgmtIn(h)
<1>1. /\ \A h : MgmtIn(h) = {s \in Requests : request[s].at = "running" /\ GroupOf(s) = h /\ Mgmt(s)}
      /\ \A h : \A m \in Nsids : IoIn(h, m) = {s \in Requests : RunsOn(s, m) /\ GroupOf(s) = h}
      /\ \A s \in Requests : \A m \in Nsids : RunsOn(s, m) => ~Mgmt(s)
  BY WhoCounts DEF Counted
<1>2. /\ \A h : MgmtIn(h)' = {s \in Requests : request'[s].at = "running" /\ GroupOf(s)' = h /\ Mgmt(s)'}
      /\ \A h : \A m \in Nsids : IoIn(h, m)' = {s \in Requests : RunsOn(s, m)' /\ GroupOf(s)' = h}
      /\ \A s \in Requests : \A m \in Nsids : RunsOn(s, m)' => ~Mgmt(s)'
  BY WhoCountsNext DEF Counted
<1>3. \A s \in Requests \ {r} :
        /\ (request'[s].at = "running") <=> (request[s].at = "running")
        /\ request[s].at = "running" => GroupOf(s)' = GroupOf(s) /\ (Mgmt(s)' <=> Mgmt(s))
        /\ \A m : RunsOn(s, m)' <=> RunsOn(s, m)
  BY DEF SameOthers, GroupOf, QpOf, Mgmt, RunsOn
<1>4. /\ Mgmt(r)' => \A m \in Nsids : ~RunsOn(r, m)'
      /\ ~Mgmt(r)' => request'[r].ns \in Nsids
      /\ \A m : RunsOn(r, m)' <=> request'[r].ns = m
      /\ \A m : ~RunsOn(r, m)
  BY <1>2 DEF Types, RequestsInv, RequestInv, RequestType, RunsOn
<1>5. ASSUME NEW h, NEW m \in Nsids, h # g \/ ~RunsOn(r, m)'
      PROVE  IoIn(h, m)' = IoIn(h, m)
  <2>1. \A s \in Requests : (RunsOn(s, m)' /\ GroupOf(s)' = h) <=> (RunsOn(s, m) /\ GroupOf(s) = h)
    BY <1>3, <1>4, <1>5 DEF RunsOn
  <2>2. IoIn(h, m) = {s \in Requests : RunsOn(s, m) /\ GroupOf(s) = h}
    BY <1>1
  <2>3. IoIn(h, m)' = {s \in Requests : RunsOn(s, m)' /\ GroupOf(s)' = h}
    BY <1>2
  <2> QED BY <2>1, <2>2, <2>3
<1>6. \A h : h # g \/ ~Mgmt(r)' => MgmtIn(h)' = MgmtIn(h)
  BY <1>1, <1>2, <1>3
<1>7. Mgmt(r)' => MgmtIn(g)' = MgmtIn(g) \cup {r} /\ r \notin MgmtIn(g)
  BY <1>1, <1>2, <1>3
<1>8. ASSUME NEW m \in Nsids, RunsOn(r, m)'
      PROVE  IoIn(g, m)' = IoIn(g, m) \cup {r} /\ r \notin IoIn(g, m)
  <2>1. \A s \in Requests : (RunsOn(s, m)' /\ GroupOf(s)' = g) <=> (s = r \/ (RunsOn(s, m) /\ GroupOf(s) = g))
    BY <1>3, <1>4, <1>8 DEF RunsOn
  <2>2. IoIn(g, m) = {s \in Requests : RunsOn(s, m) /\ GroupOf(s) = g}
    BY <1>1
  <2>3. IoIn(g, m)' = {s \in Requests : RunsOn(s, m)' /\ GroupOf(s)' = g}
    BY <1>2
  <2> QED BY <1>4, <2>1, <2>2, <2>3
<1> QED BY <1>4, <1>5, <1>6, <1>7, <1>8

(* A request that ends leaves the set that counted it, and no other. *)
LEMMA EndSets ==
    ASSUME Types, RequestsInv, Types', RequestsInv', NEW r \in Requests, SameOthers(r),
           request[r].at = "running", request'[r].at # "running", NEW g, GroupOf(r) = g,
           NEW n, request[r].ns = n
    PROVE  /\ Mgmt(r) => /\ MgmtIn(g)' = MgmtIn(g) \ {r} /\ r \in MgmtIn(g)
                         /\ \A h : h # g => MgmtIn(h)' = MgmtIn(h)
                         /\ \A h : \A m \in Nsids : IoIn(h, m)' = IoIn(h, m)
           /\ ~Mgmt(r) =>
                /\ n \in Nsids
                /\ IoIn(g, n)' = IoIn(g, n) \ {r} /\ r \in IoIn(g, n)
                /\ \A h : \A m \in Nsids : h # g \/ m # n => IoIn(h, m)' = IoIn(h, m)
                /\ \A h : MgmtIn(h)' = MgmtIn(h)
<1>1. /\ \A h : MgmtIn(h) = {s \in Requests : request[s].at = "running" /\ GroupOf(s) = h /\ Mgmt(s)}
      /\ \A h : \A m \in Nsids : IoIn(h, m) = {s \in Requests : RunsOn(s, m) /\ GroupOf(s) = h}
      /\ \A s \in Requests : \A m \in Nsids : RunsOn(s, m) => ~Mgmt(s)
  BY WhoCounts DEF Counted
<1>2. /\ \A h : MgmtIn(h)' = {s \in Requests : request'[s].at = "running" /\ GroupOf(s)' = h /\ Mgmt(s)'}
      /\ \A h : \A m \in Nsids : IoIn(h, m)' = {s \in Requests : RunsOn(s, m)' /\ GroupOf(s)' = h}
      /\ \A s \in Requests : \A m \in Nsids : RunsOn(s, m)' => ~Mgmt(s)'
  BY WhoCountsNext DEF Counted
<1>3. \A s \in Requests \ {r} :
        /\ (request'[s].at = "running") <=> (request[s].at = "running")
        /\ request[s].at = "running" => GroupOf(s)' = GroupOf(s) /\ (Mgmt(s)' <=> Mgmt(s))
        /\ \A m : RunsOn(s, m)' <=> RunsOn(s, m)
  BY DEF SameOthers, GroupOf, QpOf, Mgmt, RunsOn
<1>4. /\ Mgmt(r) => \A m \in Nsids : ~RunsOn(r, m)
      /\ ~Mgmt(r) => request[r].ns \in Nsids
      /\ \A m : RunsOn(r, m) <=> request[r].ns = m
      /\ \A m : ~RunsOn(r, m)'
  BY <1>1 DEF Types, RequestsInv, RequestInv, RequestType, RunsOn
<1>5. ASSUME NEW h, NEW m \in Nsids, h # g \/ ~RunsOn(r, m)
      PROVE  IoIn(h, m)' = IoIn(h, m)
  <2>1. \A s \in Requests : (RunsOn(s, m)' /\ GroupOf(s)' = h) <=> (RunsOn(s, m) /\ GroupOf(s) = h)
    BY <1>3, <1>4, <1>5 DEF RunsOn
  <2>2. IoIn(h, m) = {s \in Requests : RunsOn(s, m) /\ GroupOf(s) = h}
    BY <1>1
  <2>3. IoIn(h, m)' = {s \in Requests : RunsOn(s, m)' /\ GroupOf(s)' = h}
    BY <1>2
  <2> QED BY <2>1, <2>2, <2>3
<1>6. \A h : h # g \/ ~Mgmt(r) => MgmtIn(h)' = MgmtIn(h)
  BY <1>1, <1>2, <1>3
<1>7. Mgmt(r) => MgmtIn(g)' = MgmtIn(g) \ {r} /\ r \in MgmtIn(g)
  BY <1>1, <1>2, <1>3
<1>8. ASSUME NEW m \in Nsids, RunsOn(r, m)
      PROVE  IoIn(g, m)' = IoIn(g, m) \ {r} /\ r \in IoIn(g, m)
  <2>1. \A s \in Requests : (RunsOn(s, m)' /\ GroupOf(s)' = g) <=> (s # r /\ RunsOn(s, m) /\ GroupOf(s) = g)
    BY <1>3, <1>4, <1>8 DEF RunsOn
  <2>2. IoIn(g, m) = {s \in Requests : RunsOn(s, m) /\ GroupOf(s) = g}
    BY <1>1
  <2>3. IoIn(g, m)' = {s \in Requests : RunsOn(s, m)' /\ GroupOf(s)' = g}
    BY <1>2
  <2> QED BY <1>4, <1>8, <2>1, <2>2, <2>3
<1> QED BY <1>4, <1>5, <1>6, <1>7, <1>8
(* A request starts to run in group g, on namespace n if it is I/O. *)
Begins(r, g, n) ==
    /\ request[r].at # "running" /\ request'[r].at = "running"
    /\ GroupOf(r)' = g /\ request'[r].ns = n
    /\ \A s \in Requests \ {r} : request'[s] = request[s]
    /\ \A h \in Groups : /\ sgroup'[h].cb = sgroup[h].cb /\ sgroup'[h].num_ns = sgroup[h].num_ns
                         /\ \A m \in Nsids : /\ nsInfo'[h][m].state = nsInfo[h][m].state
                                             /\ nsInfo'[h][m].channel = nsInfo[h][m].channel
    /\ \A h \in Groups \ {g} : sgroup'[h].mgmt = sgroup[h].mgmt /\ nsInfo'[h] = nsInfo[h]
    /\ IF Mgmt(r)'
       THEN nsInfo' = nsInfo /\ sgroup'[g].mgmt = (sgroup[g].mgmt + 1) % CounterMod
       ELSE /\ sgroup'[g].mgmt = sgroup[g].mgmt
            /\ sgroup[g].num_ns /\ Startable(g, n) /\ ~subsys.destroyed
            /\ nsInfo'[g][n].io = (nsInfo[g][n].io + 1) % CounterMod
            /\ \A m \in Nsids \ {n} : nsInfo'[g][m] = nsInfo[g][m]
    /\ request'[r].kind = "admin" => sgroup[g].num_ns
    /\ \A s \in Requests \ {r} : request[s].at = "running" =>
          qp'[request[s].qp].ctrlr = QpOf(s).ctrlr
    /\ \A q \in Qpairs : Live(q)' /\ qp'[q].ctrlr /\ qp'[q].received =>
          \/ ConnectRuns(q)'
          \/ Live(q) /\ qp[q].ctrlr /\ qp[q].received /\ qp'[q].group = qp[q].group

(* A request that begins is counted where it runs. *)
LEMMA BeginsStep ==
    ASSUME Whole, Types', RequestsInv', NEW r \in Requests, NEW g \in Groups, NEW n,
           Begins(r, g, n), SameOthers(r), UNCHANGED <<subsys, change, seen>>
    PROVE  Counting' /\ Namespaces'
<1>1. /\ request[r].at # "running" /\ request'[r].at = "running" /\ GroupOf(r)' = g /\ request'[r].ns = n
      /\ \A s \in Requests \ {r} : request'[s] = request[s]
      /\ \A h \in Groups : /\ sgroup'[h].cb = sgroup[h].cb /\ sgroup'[h].num_ns = sgroup[h].num_ns
                           /\ \A m \in Nsids : /\ nsInfo'[h][m].state = nsInfo[h][m].state
                                               /\ nsInfo'[h][m].channel = nsInfo[h][m].channel
      /\ \A h \in Groups \ {g} : sgroup'[h].mgmt = sgroup[h].mgmt /\ nsInfo'[h] = nsInfo[h]
  BY DEF Begins
<1>2. /\ Mgmt(r)' => /\ nsInfo' = nsInfo
                     /\ sgroup'[g].mgmt = (sgroup[g].mgmt + 1) % CounterMod
      /\ ~Mgmt(r)' => /\ sgroup'[g].mgmt = sgroup[g].mgmt
                      /\ sgroup[g].num_ns /\ Startable(g, n) /\ ~subsys.destroyed
                      /\ nsInfo'[g][n].io = (nsInfo[g][n].io + 1) % CounterMod
                      /\ \A m \in Nsids \ {n} : nsInfo'[g][m] = nsInfo[g][m]
  BY DEF Begins
<1>3. Types /\ RequestsInv /\ Counted /\ Counted'
  BY WhoCounts, WhoCountsNext DEF Whole
<1>4. /\ Mgmt(r)' => /\ MgmtIn(g)' = MgmtIn(g) \cup {r} /\ r \notin MgmtIn(g)
                     /\ \A h : h # g => MgmtIn(h)' = MgmtIn(h)
                     /\ \A h : \A m \in Nsids : IoIn(h, m)' = IoIn(h, m)
      /\ ~Mgmt(r)' =>
                /\ n \in Nsids
                /\ IoIn(g, n)' = IoIn(g, n) \cup {r} /\ r \notin IoIn(g, n)
                /\ \A h : \A m \in Nsids : h # g \/ m # n => IoIn(h, m)' = IoIn(h, m)
                /\ \A h : MgmtIn(h)' = MgmtIn(h)
  BY <1>1, <1>3, StartSets, SMTT(40)
<1>5. MgmtExact'
  <2> SUFFICES ASSUME NEW h \in Groups PROVE sgroup'[h].mgmt = Cardinality(MgmtIn(h)')
    BY DEF MgmtExact
  <2>1. sgroup[h].mgmt = Cardinality(MgmtIn(h))
    BY DEF Whole, Counting, MgmtExact
  <2>2. CASE h # g \/ ~Mgmt(r)'
    BY <1>1, <1>2, <1>4, <2>1, <2>2
  <2>3. CASE h = g /\ Mgmt(r)'
    <3>1. MgmtIn(g)' = MgmtIn(g) \cup {r} /\ r \in Requests \ MgmtIn(g) BY <1>4, <2>3
    <3>2. MgmtIn(g) \in SUBSET Requests BY <1>3 DEF Counted
    <3>3. /\ Cardinality(MgmtIn(g)) \in Nat /\ Cardinality(MgmtIn(g)) + 1 < CounterMod
          /\ Cardinality(MgmtIn(g)') = Cardinality(MgmtIn(g)) + 1
      BY <3>1, <3>2, RequestSets
    <3>4. Cardinality(MgmtIn(g)) + 1 \in Nat BY <3>3
    <3>5. ((Cardinality(MgmtIn(g)) + 1) % CounterMod) = Cardinality(MgmtIn(g)) + 1
      BY <3>3, <3>4, NoWrap
    <3> QED BY <1>2, <2>1, <2>3, <3>3, <3>5
  <2> QED BY <2>2, <2>3
<1>6. IoExact'
  <2> SUFFICES ASSUME NEW h \in Groups, NEW m \in Nsids, m \notin seen.unpaused
               PROVE  \/ nsInfo'[h][m].io = Cardinality(IoIn(h, m)')
                      \/ <<h, m>> \in seen.leaks /\ nsInfo'[h][m].io = Cardinality(IoIn(h, m)') + 1
    BY DEF IoExact
  <2>1. \/ nsInfo[h][m].io = Cardinality(IoIn(h, m))
        \/ <<h, m>> \in seen.leaks /\ nsInfo[h][m].io = Cardinality(IoIn(h, m)) + 1
    BY DEF Whole, Counting, IoExact
  <2>2. CASE h # g \/ m # n \/ Mgmt(r)'
    <3>1. IoIn(h, m)' = IoIn(h, m) BY <1>4, <2>2
    <3>2. nsInfo'[h][m] = nsInfo[h][m] BY <1>1, <1>2, <2>2
    <3> QED BY <2>1, <3>1, <3>2
  <2>3. CASE h = g /\ m = n /\ ~Mgmt(r)'
    <3>1. IoIn(g, n)' = IoIn(g, n) \cup {r} /\ r \in Requests \ IoIn(g, n) BY <1>4, <2>3
    <3>2. IoIn(g, n) \in SUBSET Requests /\ IoIn(g, n)' \in SUBSET Requests
      BY <1>3 DEF Counted
    <3>3. /\ Cardinality(IoIn(g, n)) \in Nat
          /\ Cardinality(IoIn(g, n)') = Cardinality(IoIn(g, n)) + 1
      BY <3>1, <3>2, RequestSets
    <3>4. Cardinality(IoIn(g, n)') + 1 < CounterMod BY <3>2, RequestSets
    <3>5. nsInfo[g][n].io + 1 \in Nat /\ nsInfo[g][n].io + 1 < CounterMod
      BY <2>1, <2>3, <3>3, <3>4, ConstantFacts
    <3>6. nsInfo'[g][n].io = nsInfo[g][n].io + 1 BY <1>2, <2>3, <3>5, NoWrap
    <3> QED BY <2>1, <2>3, <3>3, <3>6
  <2> QED BY <2>2, <2>3
<1>7. \A s \in Requests \ {r} : request[s].at = "running" =>
            GroupOf(s)' = GroupOf(s) /\ QpOf(s)'.ctrlr = QpOf(s).ctrlr
  BY <1>1 DEF SameOthers, GroupOf, QpOf, Begins
<1>8. IsIo(r)' <=> ~Mgmt(r)'
  BY DEF Types, RequestType, IsIo, Mgmt, Kinds
<1>9. IoServed'
  <2> SUFFICES ASSUME NEW s \in Requests, IsIo(s)', request'[s].at = "running"
               PROVE  sgroup'[GroupOf(s)'].num_ns
    BY DEF IoServed
  <2>1. CASE s = r
    BY <1>1, <1>2, <1>8, <2>1
  <2>2. CASE s # r
    <3>1. request'[s] = request[s] /\ request[s].at = "running" /\ IsIo(s) /\ GroupOf(s)' = GroupOf(s)
      BY <1>1, <1>7, <2>2 DEF IsIo
    <3>2. GroupOf(s) \in Groups BY DEF Whole, Types, RequestType, QpairType, GroupOf
    <3> QED BY <1>1, <3>1, <3>2 DEF Whole, Counting, IoServed
  <2> QED BY <2>1, <2>2
<1>10. Waits'
  <2> SUFFICES ASSUME NEW h \in Groups, sgroup'[h].cb, Quiet(sgroup'[h], nsInfo'[h])
               PROVE  FALSE
    BY DEF Waits
  <2>1. sgroup[h].cb /\ ~Quiet(sgroup[h], nsInfo[h])
    BY <1>1 DEF Whole, Counting, Waits
  <2>2. CASE h # g
    BY <1>1, <2>1, <2>2 DEF Quiet
  <2>3. CASE h = g /\ ~Mgmt(r)'
    BY <1>1, <1>2, <2>1, <2>3 DEF Quiet, Startable
  <2>4. CASE h = g /\ Mgmt(r)'
    <3>1. Cardinality(MgmtIn(g)') = 0 BY <1>5, <2>4 DEF MgmtExact, Quiet
    <3>2. MgmtIn(g)' \in SUBSET Requests BY <1>3 DEF Counted
    <3>3. MgmtIn(g)' = {} BY <3>1, <3>2, RequestSets
    <3> QED BY <1>4, <2>4, <3>3
  <2> QED BY <2>2, <2>3, <2>4
<1>11. \A s \in Requests : \A m \in Nsids :
            RunsOn(s, m)' => RunsOn(s, m) \/ (s = r /\ m = n /\ ~Mgmt(r)')
  BY <1>1, <1>3 DEF RunsOn, Counted
<1>12. \A h \in Groups : \A m \in Nsids : Startable(h, m)' <=> Startable(h, m)
  BY <1>1 DEF Startable
<1>13. GoneInv'
  <2> SUFFICES ASSUME NEW m \in Nsids, m \notin subsys.ns, m \notin seen.unpaused
               PROVE  /\ \A s \in Requests : ~RunsOn(s, m)'
                      /\ subsys.destroyed \/ \A h \in Groups : ~Startable(h, m)'
    BY DEF GoneInv
  <2>1. (\A s \in Requests : ~RunsOn(s, m)) /\ (subsys.destroyed \/ \A h \in Groups : ~Startable(h, m))
    BY DEF Whole, Namespaces, GoneInv
  <2> QED BY <1>2, <1>11, <1>12, <2>1
<1>14. DestroyedInv'
  BY <1>1, <1>2, <1>8 DEF Whole, Namespaces, DestroyedInv, IsAt, IsIo
<1>15. PausedInv'
  <2> SUFFICES ASSUME change.on, change.to = "paused", ~change.revert, change.ns \in Nsids, NEW h \in Groups
               PROVE  /\ h < change.at \/ sgroup'[h].cb => nsInfo'[h][change.ns].state = "pausing"
                      /\ h < change.at /\ change.ns \notin seen.unpaused =>
                            \A s \in Requests : RunsOn(s, change.ns)' => GroupOf(s)' # h
    BY DEF PausedInv
  <2>1. /\ h < change.at \/ sgroup[h].cb => nsInfo[h][change.ns].state = "pausing"
        /\ h < change.at /\ change.ns \notin seen.unpaused =>
              \A s \in Requests : RunsOn(s, change.ns) => GroupOf(s) # h
    BY DEF Whole, Namespaces, PausedInv
  <2>2. ASSUME h < change.at, change.ns \notin seen.unpaused, NEW s \in Requests, RunsOn(s, change.ns)'
        PROVE  GroupOf(s)' # h
    <3>1. CASE s # r
      BY <1>7, <1>11, <2>1, <2>2, <3>1 DEF RunsOn
    <3>2. CASE s = r
      <4>1. change.ns = n /\ ~Mgmt(r)' BY <1>1, <1>3, <2>2, <3>2 DEF RunsOn, Counted
      <4> QED BY <1>1, <1>2, <2>1, <2>2, <3>2, <4>1 DEF Startable
    <3> QED BY <3>1, <3>2
  <2> QED BY <1>1, <2>1, <2>2
<1>16. UnservedInv'
  <2> SUFFICES ASSUME NEW h \in Groups, ~sgroup'[h].num_ns
               PROVE  /\ \A q \in Qpairs : Live(q)' /\ qp'[q].group = h /\ qp'[q].ctrlr /\ qp'[q].received =>
                            q \in seen.late \/ ConnectRuns(q)'
                      /\ \A s \in Requests : request'[s].at = "running" /\ request'[s].kind = "admin"
                            /\ GroupOf(s)' = h => ~QpOf(s)'.ctrlr
    BY DEF UnservedInv
  <2>1. ~sgroup[h].num_ns
    BY <1>1
  <2>2. ASSUME NEW q \in Qpairs, Live(q)', qp'[q].group = h, qp'[q].ctrlr, qp'[q].received
        PROVE  q \in seen.late \/ ConnectRuns(q)'
    <3>1. ConnectRuns(q) => ConnectRuns(q)' BY <1>1 DEF ConnectRuns
    <3>2. \/ ConnectRuns(q)'
          \/ Live(q) /\ qp[q].ctrlr /\ qp[q].received /\ qp[q].group = h
      BY <2>2 DEF Begins
    <3> QED BY <2>1, <3>1, <3>2 DEF Whole, Namespaces, UnservedInv
  <2>3. ASSUME NEW s \in Requests, request'[s].at = "running", request'[s].kind = "admin", GroupOf(s)' = h
        PROVE  ~QpOf(s)'.ctrlr
    <3>1. s # r BY <1>1, <2>1, <2>3 DEF Begins
    <3> QED BY <1>1, <1>7, <2>1, <2>3, <3>1 DEF Whole, Namespaces, UnservedInv
  <2> QED BY <2>2, <2>3
<1> QED BY <1>5, <1>6, <1>9, <1>10, <1>13, <1>14, <1>15, <1>16 DEF Counting, Namespaces
(* A request that has arrived: it runs, or it waits. *)
LEMMA ExecuteWhole ==
    ASSUME Whole, Types', RequestsInv', NEW r \in Requests, NEW q \in Qpairs, NEW k \in Kinds,
           NEW n \in Nsids \cup {NoNs}, Execute(r, q, k, n)
    PROVE  Counting' /\ Namespaces'
<1> DEFINE g == qp[q].group
           req == [at |-> "idle", qp |-> q, kind |-> k, ns |-> n]
           fate == Fate(req, sgroup[g], nsInfo[g])
           m == IF fate = "running" /\ n = NoNs
                THEN (sgroup[g].mgmt + 1) % CounterMod ELSE sgroup[g].mgmt
           c == (nsInfo[g][n].io + 1) % CounterMod
<1>1. g \in Groups /\ sgroup[g] \in GroupType /\ nsInfo[g] \in [Nsids -> SlotType] /\ qp[q] \in QpairType
  BY DEF Whole, Types, QpairType
<1>2. /\ request' = [request EXCEPT ![r] = [req EXCEPT !.at = fate]]
      /\ sgroup' = [sgroup EXCEPT ![g].mgmt = m]
      /\ nsInfo' = IF fate = "running" /\ n # NoNs THEN [nsInfo EXCEPT ![g][n].io = c] ELSE nsInfo
      /\ qp' = IF fate = "running" /\ k = "connect" THEN [qp EXCEPT ![q] = Connecting(q)] ELSE qp
      /\ UNCHANGED <<subsys, change, seen>>
      /\ ~subsys.destroyed /\ request[r].at = "idle" /\ fate # "idle"
      /\ (n = NoNs) <=> (k \in {"connect", "admin", "aer"})
      /\ k = "connect" => Outstanding(q) = {}
  BY DEF Execute
<1>3. /\ fate = "running" => k # "aer"
      /\ fate = "running" /\ k \in {"connect", "admin", "aer"} => sgroup[g].state = "active"
      /\ fate = "running" /\ k \notin {"connect", "admin", "aer"} =>
            sgroup[g].num_ns /\ nsInfo[g][n].channel /\ nsInfo[g][n].state = "active"
  BY FateFacts
<1>4. m \in 0 .. CounterMod - 1 /\ (n # NoNs => n \in Nsids /\ c \in 0 .. CounterMod - 1)
  <2>1. sgroup[g].mgmt \in 0 .. CounterMod - 1 /\ sgroup[g].mgmt + 1 \in Int
    BY <1>1 DEF GroupType
  <2>2. n # NoNs => n \in Nsids /\ nsInfo[g][n].io + 1 \in Int
    BY <1>1 DEF SlotType
  <2> QED BY <2>1, <2>2, ConstantFacts
<1>5. sgroup[g].state = "active" => sgroup[g].num_ns
  BY <1>1 DEF Whole, Control, GroupInv
<1>6. request'[r] = [at |-> fate, qp |-> q, kind |-> k, ns |-> n]
      /\ \A s \in Requests \ {r} : request'[s] = request[s]
  BY <1>2 DEF Whole, Types
<1>7. \A s \in Requests : request[s].at = "running" =>
            qp'[request[s].qp].group = QpOf(s).group /\ qp'[request[s].qp].ctrlr = QpOf(s).ctrlr
  <2> SUFFICES ASSUME NEW s \in Requests, request[s].at = "running"
               PROVE  qp'[request[s].qp] = qp[request[s].qp]
    BY DEF QpOf
  <2>1. k = "connect" => request[s].qp # q
    BY <1>2 DEF Outstanding
  <2> QED BY <1>2, <2>1 DEF Whole, Types, RequestType
<1>8. qp'[q].group = g
  BY <1>2, ConnectingFacts DEF Whole, Types
<1>9. CASE fate # "running"
  <2>1. sgroup' = sgroup /\ nsInfo' = nsInfo /\ qp' = qp
    <3>1. m = sgroup[g].mgmt BY <1>9
    <3>2. nsInfo' = nsInfo /\ qp' = qp BY <1>2, <1>9
    <3> HIDE DEF g, fate, m
    <3>3. [sgroup EXCEPT ![g].mgmt = m] = sgroup BY <1>1, <3>1 DEF GroupType, Whole, Types
    <3> QED BY <1>2, <3>2, <3>3
  <2>2. SameRunning
    BY <1>2, <1>6, <1>7, <1>9 DEF SameRunning
  <2>3. NoNewIo /\ NoNewMember
    BY <1>2, <2>1 DEF NoNewIo, NoNewMember, Live
  <2> QED BY <1>2, <2>1, <2>2, <2>3, QuietStep
<1>10. CASE fate = "running"
  <2>1. SameOthers(r)
    BY <1>6, <1>7 DEF SameOthers
  <2>2. request'[r].at = "running" /\ request'[r].ns = n /\ request'[r].kind = k /\ request'[r].qp = q
    BY <1>6, <1>10
  <2>3. (Mgmt(r)' <=> n = NoNs) /\ GroupOf(r)' = g
    BY <1>2, <1>8, <2>2 DEF Mgmt, GroupOf
  <2>4. \A p \in Qpairs : p # q => qp'[p] = qp[p]
    BY <1>2 DEF Whole, Types
  <2>5. ASSUME NEW p \in Qpairs, Live(p)', qp'[p].ctrlr, qp'[p].received
        PROVE  \/ ConnectRuns(p)'
               \/ Live(p) /\ qp[p].ctrlr /\ qp[p].received /\ qp'[p].group = qp[p].group
    <3>1. CASE k = "connect" /\ p = q
      BY <2>2, <3>1 DEF ConnectRuns
    <3>2. CASE k # "connect" \/ p # q
      <4>1. qp'[p] = qp[p] BY <1>2, <2>4, <3>2
      <4> QED BY <2>5, <4>1 DEF Live
    <3> QED BY <3>1, <3>2
  <2>6. n = NoNs => m = (sgroup[g].mgmt + 1) % CounterMod
    BY <1>10
  <2>7. n # NoNs => m = sgroup[g].mgmt
    OBVIOUS
  <2>8. n = NoNs => nsInfo' = nsInfo
    BY <1>2
  <2>9. n # NoNs => nsInfo' = [nsInfo EXCEPT ![g][n].io = c]
    BY <1>2, <1>10
  <2>10. n # NoNs => sgroup[g].num_ns /\ Startable(g, n)
    BY <1>2, <1>3, <1>10 DEF Startable
  <2>11. k = "admin" => sgroup[g].num_ns
    BY <1>3, <1>5, <1>10
  <2>12. PICK G \in Groups : G = g
    BY <1>1
  <2>13. (n # NoNs => c = (nsInfo[G][n].io + 1) % CounterMod) /\ sgroup' = [sgroup EXCEPT ![G].mgmt = m]
    BY <1>2, <2>12
  <2> HIDE DEF g, fate, m, c
  <2>14. /\ \A h \in Groups : /\ sgroup'[h].cb = sgroup[h].cb /\ sgroup'[h].num_ns = sgroup[h].num_ns
         /\ \A h \in Groups \ {G} : sgroup'[h] = sgroup[h]
         /\ sgroup'[G].mgmt = m
    BY <1>4, <2>13, SetMgmt DEF Whole, Types
  <2>15. n # NoNs => /\ \A h \in Groups \ {G} : nsInfo'[h] = nsInfo[h]
                     /\ nsInfo'[G][n].io = c
                     /\ nsInfo'[G][n].state = nsInfo[G][n].state
                     /\ nsInfo'[G][n].channel = nsInfo[G][n].channel
                     /\ \A l \in Nsids \ {n} : nsInfo'[G][l] = nsInfo[G][l]
    <3> SUFFICES ASSUME n # NoNs
                 PROVE  /\ \A h \in Groups \ {G} : nsInfo'[h] = nsInfo[h]
                        /\ nsInfo'[G][n].io = c
                        /\ nsInfo'[G][n].state = nsInfo[G][n].state
                        /\ nsInfo'[G][n].channel = nsInfo[G][n].channel
                        /\ \A l \in Nsids \ {n} : nsInfo'[G][l] = nsInfo[G][l]
      OBVIOUS
    <3>1. nsInfo' = [nsInfo EXCEPT ![G][n].io = c] BY <2>9, <2>12
    <3>2. n \in Nsids /\ c \in 0 .. CounterMod - 1 /\ nsInfo \in [Groups -> [Nsids -> SlotType]]
      BY <1>4 DEF Whole, Types
    <3> QED BY <3>1, <3>2, SetIo
  <2>16. \A h \in Groups : \A l \in Nsids : /\ nsInfo'[h][l].state = nsInfo[h][l].state
                                            /\ nsInfo'[h][l].channel = nsInfo[h][l].channel
    BY <2>8, <2>15
  <2>17. /\ request[r].at # "running" /\ request'[r].at = "running"
         /\ GroupOf(r)' = G /\ request'[r].ns = n
         /\ \A s \in Requests \ {r} : request'[s] = request[s]
    BY <1>2, <1>6, <2>2, <2>3, <2>12
  <2>18. IF Mgmt(r)'
         THEN nsInfo' = nsInfo /\ sgroup'[G].mgmt = (sgroup[G].mgmt + 1) % CounterMod
         ELSE /\ sgroup'[G].mgmt = sgroup[G].mgmt
              /\ sgroup[G].num_ns /\ Startable(G, n) /\ ~subsys.destroyed
              /\ nsInfo'[G][n].io = (nsInfo[G][n].io + 1) % CounterMod
              /\ \A l \in Nsids \ {n} : nsInfo'[G][l] = nsInfo[G][l]
    BY <1>2, <2>3, <2>6, <2>7, <2>8, <2>10, <2>12, <2>13, <2>14, <2>15
  <2>19. nsInfo' = nsInfo \/ n # NoNs
    BY <2>8
  <2>20. Begins(r, G, n)
    BY <1>7, <2>2, <2>5, <2>11, <2>12, <2>14, <2>15, <2>16, <2>17, <2>18, <2>19 DEF Begins
  <2> QED BY <1>2, <2>1, <2>20, BeginsStep
<1> QED BY <1>9, <1>10

(* A connect that was retried. *)
LEMMA RetryConnectWhole ==
    ASSUME Whole, Types', RequestsInv', NEW r \in Requests, RetryConnect(r)
    PROVE  Counting' /\ Namespaces'
<1> DEFINE q == request[r].qp
<1>1. /\ request[r].at = "retrying" /\ q \in Qpairs /\ request[r] \in RequestType /\ qp[q] \in QpairType
      /\ UNCHANGED <<subsys, change, nsInfo, seen>>
  BY DEF RetryConnect, Whole, Types, RequestType
<1>2. CASE NotReady
  <2>1. Finish(r, qp[request[r].qp]) /\ UNCHANGED sgroup
    BY <1>2 DEF RetryConnect
  <2> QED BY <1>1, <2>1, FinishQuiet
<1>3. CASE ~NotReady
  <2>1. PICK g \in Groups : g = GroupOf(r)
    BY <1>1 DEF GroupOf, QpairType
  <2>2. PICK m : m = (sgroup[g].mgmt + 1) % CounterMod
    OBVIOUS
  <2>3. /\ request' = [request EXCEPT ![r].at = "running"]
        /\ sgroup' = [sgroup EXCEPT ![g].mgmt = m]
        /\ qp' = [qp EXCEPT ![q] = Connecting(q)]
    BY <1>3, <2>1, <2>2 DEF RetryConnect
  <2>4. m \in 0 .. CounterMod - 1
    <3>1. sgroup[g].mgmt + 1 \in Int BY DEF Whole, Types, GroupType
    <3> QED BY <2>2, <3>1, ConstantFacts
  <2>5. RequestInv(r) /\ request[r].kind = "connect" /\ Connects(r)
    BY <1>1 DEF Whole, RequestsInv, RequestInv, Going, IsAt, Connects
  <2>6. ~qp[q].received /\ ~qp[q].ctrlr /\ Live(q) /\ request[r].ns = NoNs
    BY <1>1, <2>5 DEF RequestInv, IsAt, QpOf, Mgmt, Connects
  <2>7. qp'[q].group = g /\ \A p \in Qpairs \ {q} : qp'[p] = qp[p]
    BY <1>1, <2>1, <2>3, ConnectingFacts DEF GroupOf, Whole, Types
  <2>8. request'[r] = [request[r] EXCEPT !.at = "running"] /\ \A s \in Requests \ {r} : request'[s] = request[s]
    BY <2>3 DEF Whole, Types
  <2>9. request'[r].at = "running" /\ request'[r].kind = "connect" /\ request'[r].qp = q
        /\ request'[r].ns = NoNs
    BY <1>1, <2>5, <2>6, <2>8 DEF RequestType
  <2>10. /\ SameOthers(r)
         /\ \A s \in Requests \ {r} : request[s].at = "running" =>
                qp'[request[s].qp].ctrlr = QpOf(s).ctrlr
    <3> SUFFICES ASSUME NEW s \in Requests, s # r, request[s].at = "running"
                 PROVE  qp'[request[s].qp] = qp[request[s].qp]
      BY <2>8 DEF SameOthers, QpOf
    <3>1. Going(s) /\ RequestInv(s) /\ request[s] \in RequestType
      BY DEF Going, IsAt, Whole, RequestsInv, Types
    <3>2. request[s].qp # q
      <4> SUFFICES ASSUME request[s].qp = q PROVE FALSE
        OBVIOUS
      <4>1. request[s].kind # "connect"
        BY <2>5, <3>1 DEF Whole, RequestsInv, OneConnect, Connects
      <4>2. request[s].kind \in {"admin", "aer", "io", "opc0c"}
        BY <3>1, <4>1 DEF RequestType, Kinds
      <4> QED BY <2>6, <3>1, <4>2 DEF RequestInv, IsIo, QpOf
    <3> QED BY <2>7, <3>1, <3>2 DEF RequestType
  <2>11. /\ \A h \in Groups : sgroup'[h].cb = sgroup[h].cb /\ sgroup'[h].num_ns = sgroup[h].num_ns
         /\ \A h \in Groups \ {g} : sgroup'[h] = sgroup[h]
         /\ sgroup'[g].mgmt = m
    BY <2>3, <2>4, SetMgmt DEF Whole, Types
  <2>12. Mgmt(r)' /\ GroupOf(r)' = g
    BY <2>7, <2>9 DEF Mgmt, GroupOf
  <2>13. ASSUME NEW p \in Qpairs, Live(p)', qp'[p].ctrlr, qp'[p].received
         PROVE  \/ ConnectRuns(p)'
                \/ Live(p) /\ qp[p].ctrlr /\ qp[p].received /\ qp'[p].group = qp[p].group
    <3>1. CASE p = q
      BY <2>9, <3>1 DEF ConnectRuns
    <3>2. CASE p # q
      <4>1. qp'[p] = qp[p] BY <2>7, <3>2
      <4> QED BY <2>13, <4>1 DEF Live
    <3> QED BY <3>1, <3>2
  <2> HIDE DEF q
  <2>14. Begins(r, g, NoNs)
    BY <1>1, <2>2, <2>8, <2>9, <2>10, <2>11, <2>12, <2>13 DEF Begins
  <2> QED BY <1>1, <2>10, <2>14, BeginsStep
<1> QED BY <1>2, <1>3
(* A request that has run ends. *)
LEMMA CompleteWhole ==
    ASSUME Whole, Types', RequestsInv', NEW r \in Requests, NEW ok \in BOOLEAN, Complete(r, ok)
    PROVE  Counting' /\ Namespaces'
<1> USE DEF Whole
<1>1. PICK g \in Groups : g = GroupOf(r)
  BY AfterFacts
<1>2. PICK sg \in GroupType : sg = GroupAfter(r)
  BY AfterFacts
<1>3. PICK infos \in [Nsids -> SlotType] : infos = SlotsAfter(r)
  BY AfterFacts
<1>4. PICK q : q = request[r].qp
  OBVIOUS
<1>5. PICK n : n = request[r].ns
  OBVIOUS
<1>6. /\ sg.state = sgroup[g].state /\ sg.cb = sgroup[g].cb /\ sg.num_ns = sgroup[g].num_ns
      /\ sg.mgmt = IF Mgmt(r) THEN (sgroup[g].mgmt - 1) % CounterMod ELSE sgroup[g].mgmt
      /\ \A m \in Nsids :
            /\ infos[m].state = nsInfo[g][m].state /\ infos[m].channel = nsInfo[g][m].channel
            /\ infos[m].io = IF request[r].kind = "io" /\ sgroup[g].num_ns /\ m = n
                             THEN (nsInfo[g][m].io - 1) % CounterMod ELSE nsInfo[g][m].io
  BY <1>1, <1>2, <1>3, <1>5, AfterFacts
<1>7. /\ request[r].at = "running" /\ AfterCount(g, sg, infos) /\ subsys' = subsys
      /\ Finish(r, QpairAfter(r, ok))
  BY <1>1, <1>2, <1>3, CompleteStep
<1> DEFINE L == IF Accepted(r, ok) /\ sgroup[g].state = "inactive" THEN seen.late \cup {q}
                ELSE seen.late \ {q}
           K == seen.leaks \cup (IF request[r].kind = "opc0c" THEN {<<g, n>>} ELSE {})
<1>8. seen'.late = L /\ seen'.leaks = K /\ seen'.unpaused = seen.unpaused
  <2>1. seen' = [seen EXCEPT !.leaks = K, !.late = L]
    BY <1>1, <1>4, <1>5, CompleteStep
  <2> HIDE DEF L, K
  <2> QED BY <2>1 DEF Types, SeenType
<1>9. /\ IsAt(r, {"retrying", "running", "parked"}) /\ q \in Qpairs /\ qp[q] \in QpairType
      /\ request[r] \in RequestType
  BY <1>4, <1>7 DEF IsAt, Types, RequestType
<1>10. /\ QpairAfter(r, ok) \in QpairType
       /\ QpairAfter(r, ok).state = qp[q].state /\ QpairAfter(r, ok).received = qp[q].received
       /\ QpairAfter(r, ok).group = qp[q].group
       /\ QpairAfter(r, ok).ctrlr = IF request[r].kind = "connect" THEN Accepted(r, ok) ELSE qp[q].ctrlr
  <2>1. Accepted(r, ok) \in BOOLEAN
    BY DEF Accepted
  <2> HIDE DEF L, K
  <2> QED BY <1>4, <1>9, <2>1 DEF QpairAfter, QpairType
<1>11. /\ request'[r] = NoRequest
       /\ \A p \in Qpairs \ {q} : qp'[p] = qp[p]
       /\ qp'[q].received = qp[q].received /\ qp'[q].group = qp[q].group
       /\ qp'[q].ctrlr = IF request[r].kind = "connect" THEN Accepted(r, ok) ELSE qp[q].ctrlr
       /\ qp'[q].state = qp[q].state \/ qp'[q].state = "freed"
  BY <1>4, <1>7, <1>9, <1>10, FinishFacts DEF QpOf
<1>12. \A s \in Requests \ {r} :
          \/ request'[s] = request[s]
          \/ /\ request[s].at = "queued"
             /\ request'[s] = NoRequest \/ request'[s] = [request[s] EXCEPT !.at = "stale"]
  BY <1>4, <1>7, <1>9, <1>10, FinishFacts DEF QpOf
<1>13. NoRequest.at = "idle" /\ \A s \in Requests : [request[s] EXCEPT !.at = "stale"].at = "stale"
  BY ConstantFacts DEF Types, RequestType
<1>14. \A s \in Requests \ {r} :
          /\ request'[s].at \in {"queued", "running"} => request'[s] = request[s]
          /\ request[s].at = "running" => request'[s] = request[s]
  BY <1>12, <1>13
<1>15. SameOthers(r)
  <2>1. \A p \in Qpairs : qp'[p].group = qp[p].group
    BY <1>11
  <2>2. \A s \in Requests : request[s].qp \in Qpairs
    BY DEF Types, RequestType
  <2> QED BY <1>14, <2>1, <2>2 DEF SameOthers, QpOf
<1>16. /\ Mgmt(r) => /\ MgmtIn(g)' = MgmtIn(g) \ {r} /\ r \in MgmtIn(g)
                     /\ \A h : h # g => MgmtIn(h)' = MgmtIn(h)
                     /\ \A h : \A m \in Nsids : IoIn(h, m)' = IoIn(h, m)
       /\ ~Mgmt(r) => /\ n \in Nsids
                      /\ IoIn(g, n)' = IoIn(g, n) \ {r} /\ r \in IoIn(g, n)
                      /\ \A h : \A m \in Nsids : h # g \/ m # n => IoIn(h, m)' = IoIn(h, m)
                      /\ \A h : MgmtIn(h)' = MgmtIn(h)
  BY <1>1, <1>5, <1>7, <1>11, <1>13, <1>15, EndSets
<1>17. Counted /\ Counted'
  BY WhoCounts, WhoCountsNext
<1>18. /\ nsInfo'[g] = infos /\ \A h \in Groups \ {g} : nsInfo'[h] = nsInfo[h] /\ sgroup'[h] = sgroup[h]
       /\ sgroup'[g].mgmt = sg.mgmt /\ sgroup'[g].num_ns = sg.num_ns
       /\ \/ /\ sg.state = "pausing" /\ Quiet(sg, infos) /\ ~sgroup'[g].cb
             /\ change' = Advance(FALSE)
          \/ /\ ~(sg.state = "pausing" /\ Quiet(sg, infos))
             /\ sgroup'[g] = sg /\ change' = change
  <2> DEFINE t == [sg EXCEPT !.state = "paused", !.cb = FALSE]
  <2>1. t.mgmt = sg.mgmt /\ t.num_ns = sg.num_ns /\ t.cb = FALSE
    BY DEF GroupType
  <2>2. /\ nsInfo' = [nsInfo EXCEPT ![g] = infos]
        /\ \/ /\ sg.state = "pausing" /\ Quiet(sg, infos)
              /\ sgroup' = [sgroup EXCEPT ![g] = t] /\ change' = Advance(FALSE)
           \/ /\ ~(sg.state = "pausing" /\ Quiet(sg, infos))
              /\ sgroup' = [sgroup EXCEPT ![g] = sg] /\ change' = change
    BY <1>7 DEF AfterCount
  <2> HIDE DEF t
  <2> QED BY <2>1, <2>2 DEF Types
<1> HIDE DEF L, K
<1>19. MgmtExact'
  <2> SUFFICES ASSUME NEW h \in Groups PROVE sgroup'[h].mgmt = Cardinality(MgmtIn(h)')
    BY DEF MgmtExact
  <2>1. sgroup[h].mgmt = Cardinality(MgmtIn(h))
    BY DEF Counting, MgmtExact
  <2>2. CASE h # g \/ ~Mgmt(r)
    BY <1>6, <1>16, <1>18, <2>1, <2>2
  <2>3. CASE h = g /\ Mgmt(r)
    <3>1. MgmtIn(g)' = MgmtIn(g) \ {r} /\ r \in MgmtIn(g) BY <1>16, <2>3
    <3>2. MgmtIn(g) \in SUBSET Requests /\ MgmtIn(g)' \in SUBSET Requests
      BY <1>17 DEF Counted
    <3>3. Cardinality(MgmtIn(g)') = Cardinality(MgmtIn(g)) - 1 BY <3>1, <3>2, RequestSets
    <3>4. Cardinality(MgmtIn(g)') \in Nat /\ Cardinality(MgmtIn(g)') + 1 < CounterMod
      BY <3>2, RequestSets
    <3>5. Cardinality(MgmtIn(g)') < CounterMod BY <3>4, ConstantFacts
    <3>6. (Cardinality(MgmtIn(g)') % CounterMod) = Cardinality(MgmtIn(g)')
      BY <3>4, <3>5, NoWrap
    <3> QED BY <1>6, <1>18, <2>1, <2>3, <3>3, <3>6
  <2> QED BY <2>2, <2>3
<1>20. IsIo(r) <=> ~Mgmt(r)
  BY <1>9 DEF RequestType, IsIo, Mgmt, Kinds
<1>21. IsIo(r) => sgroup[g].num_ns
  BY <1>1, <1>7 DEF Counting, IoServed
<1>22. IoExact'
  <2> SUFFICES ASSUME NEW h \in Groups, NEW m \in Nsids, m \notin seen.unpaused
               PROVE  \/ nsInfo'[h][m].io = Cardinality(IoIn(h, m)')
                      \/ <<h, m>> \in seen'.leaks /\ nsInfo'[h][m].io = Cardinality(IoIn(h, m)') + 1
    BY <1>8 DEF IoExact
  <2>1. \/ nsInfo[h][m].io = Cardinality(IoIn(h, m))
        \/ <<h, m>> \in seen.leaks /\ nsInfo[h][m].io = Cardinality(IoIn(h, m)) + 1
    BY DEF Counting, IoExact
  <2>2. <<h, m>> \in seen.leaks => <<h, m>> \in seen'.leaks
    BY <1>8 DEF K
  <2>3. CASE h # g \/ m # n \/ Mgmt(r)
    <3>1. IoIn(h, m)' = IoIn(h, m) BY <1>16, <2>3
    <3>2. nsInfo'[h][m].io = nsInfo[h][m].io BY <1>6, <1>18, <1>20, <2>3 DEF IsIo
    <3> QED BY <2>1, <2>2, <3>1, <3>2
  <2>4. CASE h = g /\ m = n /\ ~Mgmt(r)
    <3>1. IoIn(g, n)' = IoIn(g, n) \ {r} /\ r \in IoIn(g, n) BY <1>16, <2>4
    <3>2. IoIn(g, n) \in SUBSET Requests /\ IoIn(g, n)' \in SUBSET Requests
      BY <1>17 DEF Counted
    <3>3. Cardinality(IoIn(g, n)') = Cardinality(IoIn(g, n)) - 1 /\ Cardinality(IoIn(g, n)) \in Nat
      BY <3>1, <3>2, RequestSets
    <3>4. Cardinality(IoIn(g, n)') \in Nat /\ Cardinality(IoIn(g, n)') + 1 < CounterMod
      BY <3>2, RequestSets
    <3>5. CASE request[r].kind = "io"
      <4>1. nsInfo'[g][n].io = (nsInfo[g][n].io - 1) % CounterMod
        BY <1>6, <1>18, <1>20, <1>21, <2>4, <3>5
      <4>2. nsInfo[g][n].io - 1 \in Nat /\ nsInfo[g][n].io - 1 < CounterMod
        BY <2>1, <2>4, <3>3, <3>4, ConstantFacts
      <4>3. nsInfo'[g][n].io = nsInfo[g][n].io - 1 BY <4>1, <4>2, NoWrap
      <4> QED BY <2>1, <2>2, <2>4, <3>3, <4>3
    <3>6. CASE request[r].kind # "io"
      <4>1. request[r].kind = "opc0c" BY <1>20, <2>4, <3>6 DEF IsIo
      <4>2. seen.leaks = {} BY <4>1 DEF RequestsInv, OneLeak
      <4>3. nsInfo'[g][n].io = nsInfo[g][n].io BY <1>6, <1>18, <2>4, <3>6
      <4>4. <<g, n>> \in seen'.leaks BY <1>8, <4>1 DEF K
      <4> QED BY <2>1, <2>4, <3>3, <4>2, <4>3, <4>4
    <3> QED BY <3>5, <3>6
  <2> QED BY <2>3, <2>4
<1>23. ASSUME NEW s \in Requests, request'[s].at = "running"
       PROVE  /\ s # r /\ request'[s] = request[s] /\ GroupOf(s)' = GroupOf(s)
              /\ GroupOf(s) \in Groups
  <2>1. s # r /\ request'[s] = request[s]
    BY <1>11, <1>13, <1>14, <1>23
  <2>2. GroupOf(s)' = GroupOf(s)
    BY <1>15, <1>23, <2>1 DEF SameOthers, GroupOf, QpOf
  <2> QED BY <2>1, <2>2 DEF Types, RequestType, QpairType, GroupOf
<1>24. \A h \in Groups : sgroup'[h].num_ns = sgroup[h].num_ns
  BY <1>6, <1>18
<1>25. IoServed'
  BY <1>23, <1>24 DEF Counting, IoServed, IsIo
<1>26. Waits'
  <2> SUFFICES ASSUME NEW h \in Groups, sgroup'[h].cb PROVE ~Quiet(sgroup'[h], nsInfo'[h])
    BY DEF Waits
  <2>1. CASE h # g
    BY <1>18, <2>1 DEF Counting, Waits
  <2>2. CASE h = g
    <3>1. sgroup'[g] = sg /\ ~(sg.state = "pausing" /\ Quiet(sg, infos)) BY <1>18, <2>2
    <3>2. sg.state = "pausing" BY <1>6, <2>2, <3>1 DEF Control, GroupInv
    <3> QED BY <1>18, <2>2, <3>1, <3>2
  <2> QED BY <2>1, <2>2
<1>27. \A h \in Groups : \A m \in Nsids : /\ nsInfo'[h][m].state = nsInfo[h][m].state
                                          /\ nsInfo'[h][m].channel = nsInfo[h][m].channel
  BY <1>6, <1>18
<1>28. GoneInv'
  <2> SUFFICES ASSUME NEW m \in Nsids, m \notin subsys.ns, m \notin seen.unpaused
               PROVE  /\ \A s \in Requests : ~RunsOn(s, m)'
                      /\ subsys.destroyed \/ \A h \in Groups : ~Startable(h, m)'
    BY <1>7, <1>8 DEF GoneInv
  <2>1. (\A s \in Requests : ~RunsOn(s, m)) /\ (subsys.destroyed \/ \A h \in Groups : ~Startable(h, m))
    BY DEF Namespaces, GoneInv
  <2> QED BY <1>23, <1>27, <2>1 DEF RunsOn, Startable
<1>29. DestroyedInv'
  BY <1>7, <1>11, <1>13, <1>14 DEF Namespaces, DestroyedInv, IsAt, IsIo
<1>30. \/ change' = change
       \/ /\ sgroup[g].cb /\ change.at = g /\ Quiet(sg, infos) /\ sgroup[g].num_ns
          /\ change'.at = g + 1 /\ change'.on = change.on /\ change'.to = change.to
          /\ change'.revert = change.revert /\ change'.ns = change.ns
  <2>1. CASE change' = Advance(FALSE) /\ sg.state = "pausing" /\ Quiet(sg, infos)
    <3>1. sgroup[g].cb /\ change.at = g /\ sgroup[g].num_ns
      BY <1>6, <2>1 DEF Control, GroupInv
    <3> QED BY <2>1, <3>1 DEF Advance, Types, ChangeType
  <2> QED BY <1>18, <2>1
<1>31. PausedInv'
  <2> SUFFICES ASSUME change'.on, change'.to = "paused", ~change'.revert, change'.ns \in Nsids, NEW h \in Groups
               PROVE  /\ h < change'.at \/ sgroup'[h].cb => nsInfo'[h][change'.ns].state = "pausing"
                      /\ h < change'.at /\ change'.ns \notin seen'.unpaused =>
                            \A s \in Requests : request'[s].at = "running" /\ request'[s].ns = change'.ns
                                                => GroupOf(s)' # h
    BY DEF PausedInv, RunsOn
  <2>1. change.on /\ change.to = "paused" /\ ~change.revert /\ change.ns \in Nsids /\ change'.ns = change.ns
    BY <1>30
  <2>2. /\ h < change.at \/ sgroup[h].cb => nsInfo[h][change.ns].state = "pausing"
        /\ h < change.at /\ change.ns \notin seen.unpaused =>
              \A s \in Requests : RunsOn(s, change.ns) => GroupOf(s) # h
    BY <2>1 DEF Namespaces, PausedInv
  <2>3. h < change'.at => h < change.at \/ (h = g /\ sgroup[g].cb /\ Quiet(sg, infos) /\ sgroup[g].num_ns)
    <3>1. h \in Int /\ g \in Int BY ConstantFacts
    <3>2. h < g + 1 => h < g \/ h = g BY <3>1
    <3> QED BY <1>30, <3>2
  <2>4. sgroup'[h].cb => sgroup[h].cb
    BY <1>6, <1>18
  <2>5. ASSUME h < change'.at, change.ns \notin seen.unpaused, NEW s \in Requests,
               request'[s].at = "running", request'[s].ns = change.ns
        PROVE  GroupOf(s)' # h
    <3>1. s # r /\ request'[s] = request[s] /\ GroupOf(s)' = GroupOf(s) BY <1>23, <2>5
    <3>2. CASE h < change.at
      BY <2>2, <2>5, <3>1, <3>2 DEF RunsOn
    <3>3. CASE h = g /\ sgroup[g].cb /\ Quiet(sg, infos) /\ sgroup[g].num_ns
      <4>1. nsInfo'[g][change.ns].state = "pausing" /\ infos[change.ns].state = "pausing"
        BY <1>6, <2>1, <2>2, <3>3, <1>18
      <4>2. nsInfo'[g][change.ns].io = 0 BY <1>6, <1>18, <2>1, <3>3, <4>1 DEF Quiet
      <4>3. PICK m \in Nsids : m = change.ns
        BY <2>1
      <4>4. IoIn(g, m)' \in SUBSET Requests BY <1>17 DEF Counted
      <4>5. Cardinality(IoIn(g, m)') = 0
        <5>1. \/ nsInfo'[g][m].io = Cardinality(IoIn(g, m)')
              \/ nsInfo'[g][m].io = Cardinality(IoIn(g, m)') + 1
          BY <1>8, <1>22, <2>5, <4>3 DEF IoExact
        <5>2. Cardinality(IoIn(g, m)') \in Nat BY <4>4, RequestSets
        <5> QED BY <4>2, <4>3, <5>1, <5>2
      <4>6. IoIn(g, m)' = {} BY <4>4, <4>5, RequestSets
      <4>7. RunsOn(s, m)' BY <2>5, <4>3 DEF RunsOn
      <4> QED BY <1>17, <3>3, <4>6, <4>7 DEF Counted
    <3> QED BY <2>3, <2>5, <3>2, <3>3
  <2> QED BY <1>8, <1>27, <2>1, <2>2, <2>3, <2>4, <2>5
<1>32. UnservedInv'
  <2> SUFFICES ASSUME NEW h \in Groups, ~sgroup'[h].num_ns
               PROVE  /\ \A p \in Qpairs : Live(p)' /\ qp'[p].group = h /\ qp'[p].ctrlr /\ qp'[p].received =>
                            p \in seen'.late \/ ConnectRuns(p)'
                      /\ \A s \in Requests : request'[s].at = "running" /\ request'[s].kind = "admin"
                            /\ GroupOf(s)' = h => ~QpOf(s)'.ctrlr
    BY DEF UnservedInv
  <2>1. ~sgroup[h].num_ns /\ sgroup[h].state = "inactive"
    BY <1>24 DEF Control, GroupInv
  <2>2. qp'[q].group = h => h = g
    BY <1>1, <1>4, <1>11 DEF GroupOf
  <2>3. ASSUME NEW p \in Qpairs, Live(p)', qp'[p].group = h, qp'[p].ctrlr, qp'[p].received
        PROVE  p \in seen'.late \/ ConnectRuns(p)'
    <3>1. CASE p # q
      <4>1. Live(p) /\ qp[p].group = h /\ qp[p].ctrlr /\ qp[p].received
        BY <1>11, <2>3, <3>1 DEF Live
      <4>2. p \in seen.late \/ ConnectRuns(p) BY <2>1, <4>1 DEF Namespaces, UnservedInv
      <4>3. p \in seen.late => p \in seen'.late BY <1>8, <3>1 DEF L
      <4>4. ConnectRuns(p) => ConnectRuns(p)' BY <1>4, <1>14, <3>1 DEF ConnectRuns
      <4> QED BY <4>2, <4>3, <4>4
    <3>2. CASE p = q
      <4>1. h = g /\ Live(q) /\ qp[q].received BY <1>11, <2>2, <2>3, <3>2 DEF Live
      <4>2. CASE request[r].kind = "connect"
        BY <1>8, <1>11, <2>1, <2>3, <3>2, <4>1, <4>2 DEF L
      <4>3. CASE request[r].kind # "connect"
        <5>1. qp[q].ctrlr BY <1>11, <2>3, <3>2, <4>3
        <5>2. ~IsIo(r) BY <1>21, <2>1, <4>1
        <5>3. request[r].kind = "admin"
          BY <1>7, <1>9, <4>3, <5>2 DEF RequestType, Kinds, IsIo, RequestsInv, RequestInv
        <5> QED
          BY <1>1, <1>4, <1>7, <2>1, <4>1, <5>1, <5>3 DEF Namespaces, UnservedInv, QpOf
      <4> QED BY <4>2, <4>3
    <3> QED BY <3>1, <3>2
  <2>4. ASSUME NEW s \in Requests, request'[s].at = "running", request'[s].kind = "admin", GroupOf(s)' = h
        PROVE  ~QpOf(s)'.ctrlr
    <3>1. /\ s # r /\ request'[s] = request[s] /\ GroupOf(s) = h /\ request[s].at = "running"
          /\ request[s].kind = "admin"
      BY <1>23, <2>4
    <3>2. ~QpOf(s).ctrlr BY <2>1, <3>1 DEF Namespaces, UnservedInv
    <3>3. CASE request[s].qp # q
      BY <1>11, <3>1, <3>2, <3>3 DEF QpOf, Types, RequestType
    <3>4. CASE request[s].qp = q /\ request[r].kind # "connect"
      BY <1>11, <3>1, <3>2, <3>4 DEF QpOf
    <3>5. CASE request[s].qp = q /\ request[r].kind = "connect"
      <4>1. q \in AdminQpairs BY <3>1, <3>5 DEF RequestsInv, RequestInv, Going, IsAt
      <4>2. qp[q].ctrlr <=> q \in AdminQpairs
        BY <1>4, <1>7, <3>5 DEF RequestsInv, RequestInv, QpOf
      <4> QED BY <3>2, <3>5, <4>1, <4>2 DEF QpOf
    <3> QED BY <3>3, <3>4, <3>5
  <2> QED BY <2>3, <2>4
<1> QED BY <1>19, <1>22, <1>25, <1>26, <1>28, <1>29, <1>31, <1>32 DEF Counting, Namespaces
---------------------------------------------------------------------------
(* The walk visits a group: nothing starts to run *)

Visits(g) ==
    /\ UNCHANGED <<subsys, qp, seen>>
    /\ \A h \in Groups \ {g} : sgroup'[h] = sgroup[h] /\ nsInfo'[h] = nsInfo[h]
    /\ sgroup'[g].mgmt = sgroup[g].mgmt
    /\ sgroup'[g].cb => ~Quiet(sgroup'[g], nsInfo'[g])
    \* a slot is zeroed when nothing runs on it
    /\ \A n \in Nsids :
        /\ \/ nsInfo'[g][n].io = nsInfo[g][n].io
           \/ nsInfo'[g][n].io = 0 /\ (n \in seen.unpaused \/ IoIn(g, n) = {})
        /\ Startable(g, n)' => Startable(g, n) \/ n \in subsys.ns
    \* the subsystem is taken from the group when it serves nobody
    /\ sgroup'[g].num_ns \/ ~sgroup[g].num_ns
       \/ \A q \in Qpairs : Live(q) /\ qp[q].group = g => ~qp[q].ctrlr

(* A walk's visit that starts no request keeps the counters. *)
LEMMA VisitsStep ==
    ASSUME Whole, NEW g \in Groups, Visits(g), SameRunning, NoNewIo, PausedInv'
    PROVE  Counting' /\ Namespaces'
<1> USE DEF Whole
<1>1. /\ UNCHANGED <<subsys, qp, seen>>
      /\ \A h \in Groups \ {g} : sgroup'[h] = sgroup[h] /\ nsInfo'[h] = nsInfo[h]
      /\ sgroup'[g].mgmt = sgroup[g].mgmt
      /\ sgroup'[g].cb => ~Quiet(sgroup'[g], nsInfo'[g])
  BY DEF Visits
<1>2. \A n \in Nsids :
        /\ \/ nsInfo'[g][n].io = nsInfo[g][n].io
           \/ nsInfo'[g][n].io = 0 /\ (n \in seen.unpaused \/ IoIn(g, n) = {})
        /\ Startable(g, n)' => Startable(g, n) \/ n \in subsys.ns
  BY DEF Visits
<1>3. /\ \A h : MgmtIn(h)' = MgmtIn(h)
      /\ \A h : \A n : IoIn(h, n)' = IoIn(h, n)
      /\ \A s \in Requests : \A n : RunsOn(s, n)' <=> RunsOn(s, n)
      /\ \A q : ConnectRuns(q)' <=> ConnectRuns(q)
  BY SameSets
<1>4. ASSUME NEW s \in Requests, request'[s].at = "running"
      PROVE  /\ request[s].at = "running" /\ request'[s] = request[s]
             /\ GroupOf(s)' = GroupOf(s) /\ QpOf(s)'.ctrlr = QpOf(s).ctrlr
             /\ GroupOf(s) \in Groups /\ request[s].qp \in Qpairs /\ Live(request[s].qp)
  <2>1. request[s].at = "running" /\ request'[s] = request[s]
    BY <1>4 DEF SameRunning
  <2>2. Live(request[s].qp)
    BY <2>1 DEF RequestsInv, RequestInv, Going, IsAt
  <2> QED BY <1>1, <2>1, <2>2 DEF GroupOf, QpOf, Types, RequestType, QpairType
<1>5. MgmtExact'
  <2> SUFFICES ASSUME NEW h \in Groups PROVE sgroup'[h].mgmt = Cardinality(MgmtIn(h)')
    BY DEF MgmtExact
  <2>1. sgroup[h].mgmt = Cardinality(MgmtIn(h)) /\ sgroup'[h].mgmt = sgroup[h].mgmt
    BY <1>1 DEF Counting, MgmtExact
  <2> QED BY <1>3, <2>1
<1>6. IoExact'
  <2> SUFFICES ASSUME NEW h \in Groups, NEW n \in Nsids, n \notin seen.unpaused
               PROVE  \/ nsInfo'[h][n].io = Cardinality(IoIn(h, n)')
                      \/ <<h, n>> \in seen.leaks /\ nsInfo'[h][n].io = Cardinality(IoIn(h, n)') + 1
    BY <1>1 DEF IoExact
  <2>1. \/ nsInfo[h][n].io = Cardinality(IoIn(h, n))
        \/ <<h, n>> \in seen.leaks /\ nsInfo[h][n].io = Cardinality(IoIn(h, n)) + 1
    BY DEF Counting, IoExact
  <2>2. nsInfo'[h][n].io = nsInfo[h][n].io \/ (nsInfo'[h][n].io = 0 /\ IoIn(h, n) = {})
    BY <1>1, <1>2
  <2>3. IoIn(h, n) = {} => Cardinality(IoIn(h, n)) = 0
    BY FS_EmptySet
  <2> QED BY <1>3, <2>1, <2>2, <2>3
<1>7. \A s \in Requests : ~IsIo(s) \/ request[s].at # "running" \/ QpOf(s).ctrlr
  BY DEF RequestsInv, RequestInv, Going, IsAt
<1>8. sgroup'[g].num_ns \/ ~sgroup[g].num_ns
      \/ \A q \in Qpairs : Live(q) /\ qp[q].group = g => ~qp[q].ctrlr
  BY DEF Visits
<1>9. IoServed'
  <2> SUFFICES ASSUME NEW s \in Requests, IsIo(s)', request'[s].at = "running"
               PROVE  sgroup'[GroupOf(s)'].num_ns
    BY DEF IoServed
  <2>1. IsIo(s) /\ sgroup[GroupOf(s)].num_ns /\ QpOf(s).ctrlr
    BY <1>4, <1>7 DEF Counting, IoServed, IsIo
  <2>2. CASE GroupOf(s) # g
    BY <1>1, <1>4, <2>1, <2>2
  <2>3. CASE GroupOf(s) = g
    BY <1>4, <1>8, <2>1, <2>3 DEF GroupOf, QpOf
  <2> QED BY <2>2, <2>3
<1>10. Waits'
  <2> SUFFICES ASSUME NEW h \in Groups, sgroup'[h].cb PROVE ~Quiet(sgroup'[h], nsInfo'[h])
    BY DEF Waits
  <2> QED BY <1>1 DEF Counting, Waits
<1>11. GoneInv'
  <2> SUFFICES ASSUME NEW n \in Nsids, n \notin subsys.ns, n \notin seen.unpaused
               PROVE  /\ \A s \in Requests : ~RunsOn(s, n)'
                      /\ subsys.destroyed \/ \A h \in Groups : ~Startable(h, n)'
    BY <1>1 DEF GoneInv
  <2>1. (\A s \in Requests : ~RunsOn(s, n)) /\ (subsys.destroyed \/ \A h \in Groups : ~Startable(h, n))
    BY DEF Namespaces, GoneInv
  <2>2. ASSUME NEW h \in Groups, ~Startable(h, n) PROVE ~Startable(h, n)'
    BY <1>1, <1>2, <2>2 DEF Startable
  <2> QED BY <1>3, <2>1, <2>2
<1>12. DestroyedInv'
  BY <1>1 DEF Namespaces, DestroyedInv, NoNewIo, IsAt, IsIo
<1>13. UnservedInv'
  <2> SUFFICES ASSUME NEW h \in Groups, ~sgroup'[h].num_ns
               PROVE  /\ \A q \in Qpairs : Live(q)' /\ qp'[q].group = h /\ qp'[q].ctrlr /\ qp'[q].received =>
                            q \in seen'.late \/ ConnectRuns(q)'
                      /\ \A s \in Requests : request'[s].at = "running" /\ request'[s].kind = "admin"
                            /\ GroupOf(s)' = h => ~QpOf(s)'.ctrlr
    BY DEF UnservedInv
  <2>1. CASE ~sgroup[h].num_ns
    <3>1. ASSUME NEW q \in Qpairs, Live(q)', qp'[q].group = h, qp'[q].ctrlr, qp'[q].received
          PROVE  q \in seen'.late \/ ConnectRuns(q)'
      BY <1>1, <1>3, <2>1, <3>1 DEF Namespaces, UnservedInv, Live
    <3>2. ASSUME NEW s \in Requests, request'[s].at = "running", request'[s].kind = "admin", GroupOf(s)' = h
          PROVE  ~QpOf(s)'.ctrlr
      BY <1>4, <2>1, <3>2 DEF Namespaces, UnservedInv
    <3> QED BY <3>1, <3>2
  <2>2. CASE h = g /\ \A q \in Qpairs : Live(q) /\ qp[q].group = g => ~qp[q].ctrlr
    <3>1. ASSUME NEW q \in Qpairs, Live(q)', qp'[q].group = h PROVE ~qp'[q].ctrlr
      BY <1>1, <2>2, <3>1 DEF Live
    <3>2. ASSUME NEW s \in Requests, request'[s].at = "running", GroupOf(s)' = h
          PROVE  ~QpOf(s)'.ctrlr
      BY <1>4, <2>2, <3>2 DEF GroupOf, QpOf
    <3> QED BY <3>1, <3>2
  <2> QED BY <1>1, <1>8, <2>1, <2>2
<1> QED BY <1>5, <1>6, <1>9, <1>10, <1>11, <1>12, <1>13 DEF Counting, Namespaces
(* The slot of a namespace that is gone counts nothing. *)
LEMMA GoneQuiet ==
    ASSUME Whole, NEW n \in Nsids, n \notin subsys.ns, NEW g
    PROVE  n \in seen.unpaused \/ IoIn(g, n) = {}
<1>1. n \in seen.unpaused \/ \A r \in Requests : ~RunsOn(r, n)
  BY DEF Whole, Namespaces, GoneInv
<1>2. IoIn(g, n) = {r \in Requests : RunsOn(r, n) /\ GroupOf(r) = g}
  BY WhoCounts DEF Whole, Counted
<1> QED BY <1>1, <1>2

(* Neither does a slot of a group that has not the subsystem. *)
LEMMA UnservedQuiet ==
    ASSUME Whole, NEW n \in Nsids, NEW g,
           \/ ~sgroup[g].num_ns
           \/ \A q \in Qpairs : Live(q) /\ qp[q].group = g => ~qp[q].ctrlr
    PROVE  IoIn(g, n) = {}
<1>1. IoIn(g, n) = {r \in Requests : RunsOn(r, n) /\ GroupOf(r) = g}
      /\ \A r \in Requests : RunsOn(r, n) => IsIo(r)
  BY WhoCounts DEF Whole, Counted
<1>2. ASSUME NEW r \in Requests, RunsOn(r, n), GroupOf(r) = g
      PROVE  FALSE
  <2>1. IsIo(r) /\ request[r].at = "running" /\ Going(r) /\ request[r].qp \in Qpairs
    BY <1>1, <1>2 DEF RunsOn, Going, IsAt, Whole, Types, RequestType
  <2>2. sgroup[g].num_ns
    BY <1>2, <2>1 DEF Whole, Counting, IoServed
  <2>3. Live(request[r].qp) /\ QpOf(r).ctrlr /\ QpOf(r).group = g
    BY <1>2, <2>1 DEF Whole, RequestsInv, RequestInv, GroupOf, QpOf
  <2> QED BY <2>1, <2>2, <2>3 DEF QpOf
<1> QED BY <1>1, <1>2

(* Requests that wait in a list are lost with it. *)
LEMMA LostQuiet ==
    ASSUME Whole, NEW g, UNCHANGED qp,
           request' = [r \in Requests |-> IF r \in Queued(g) THEN [request[r] EXCEPT !.at = "lost"]
                                          ELSE request[r]]
    PROVE  SameRunning /\ NoNewIo
<1>1. ASSUME NEW s \in Requests
      PROVE  \/ request'[s] = request[s]
             \/ request'[s].at = "lost" /\ request[s].at \in {"queued", "stale"}
  BY DEF Whole, Types, RequestType, Queued
<1> QED BY <1>1 DEF SameRunning, NoNewIo, QpOf

(* AddSubsystem keeps the counters and the namespaces. *)
LEMMA AddSubsystemWhole ==
    ASSUME Whole, NEW g \in Groups, AddSubsystem(g) \/ AddSubsystemFails(g)
    PROVE  Counting' /\ Namespaces'
<1> USE DEF Whole
<1>1. /\ UNCHANGED <<subsys, qp, seen>> /\ change.on /\ change.at = g /\ change.to = "active"
      /\ subsys.state = "activating" /\ ~sgroup[g].cb /\ ~sgroup[g].removing
      /\ request' = [r \in Requests |-> IF r \in Queued(g) THEN [request[r] EXCEPT !.at = "lost"]
                                        ELSE request[r]]
      /\ \E failed \in BOOLEAN : change' = Advance(failed)
      /\ \/ /\ nsInfo' = [nsInfo EXCEPT ![g] = Activated(nsInfo[g])]
            /\ sgroup' = [sgroup EXCEPT ![g].state = "active", ![g].num_ns = TRUE, ![g].inited = TRUE]
         \/ /\ nsInfo' = [nsInfo EXCEPT ![g] = [n \in Nsids |-> NoNsInfo]]
            /\ sgroup' = [sgroup EXCEPT ![g].state = "inactive", ![g].num_ns = FALSE, ![g].inited = TRUE]
  BY DEF AddSubsystem, AddSubsystemFails, OnGroup
<1>2. SameRunning /\ NoNewIo
  BY <1>1, LostQuiet
<1>3. PausedInv'
  <2>1. change'.to = "active"
    BY <1>1, AdvanceType
  <2> QED BY <2>1 DEF PausedInv
<1>4. PICK st \in {"active", "inactive"}, b \in BOOLEAN :
          sgroup' = [sgroup EXCEPT ![g].state = st, ![g].num_ns = b, ![g].inited = TRUE]
  BY <1>1
<1> DEFINE s == [sgroup[g] EXCEPT !.state = st, !.num_ns = b, !.inited = TRUE]
<1>5. s.mgmt = sgroup[g].mgmt /\ s.cb = sgroup[g].cb /\ s.num_ns = b
  BY DEF Types, GroupType
<1>6. sgroup' = [sgroup EXCEPT ![g] = s]
  BY <1>4 DEF Types
<1> HIDE DEF s
<1>7. /\ \A h \in Groups \ {g} : sgroup'[h] = sgroup[h]
      /\ sgroup'[g].mgmt = sgroup[g].mgmt /\ ~sgroup'[g].cb /\ sgroup'[g].num_ns = b
  BY <1>1, <1>5, <1>6 DEF Types
<1>8. /\ ~sgroup[g].num_ns
  <2>1. change.from = "inactive" /\ ~change.revert /\ ~change.failed
    BY <1>1, ConstantFacts DEF Control, WalkInv, Moves
  <2>2. g >= g /\ GroupInv(g)
    BY ConstantFacts DEF Control
  <2> QED BY <1>1, <2>1, <2>2 DEF GroupInv
<1>9. \A n \in Nsids : IoIn(g, n) = {}
  BY <1>8, UnservedQuiet
<1>10. PICK t \in {Activated(nsInfo[g]), [n \in Nsids |-> NoNsInfo]} :
          nsInfo' = [nsInfo EXCEPT ![g] = t]
  BY <1>1
<1>11. nsInfo[g] \in [Nsids -> SlotType]
  BY DEF Types
<1>12. /\ t \in [Nsids -> SlotType]
       /\ \A n \in Nsids : (t[n].io = nsInfo[g][n].io \/ t[n].io = 0)
                           /\ (t[n].channel => n \in subsys.ns)
  <2>1. CASE t = Activated(nsInfo[g])
    BY <1>11, <2>1, ActivatedFacts
  <2>2. CASE t = [n \in Nsids |-> NoNsInfo]
    <3>1. \A n \in Nsids : t[n] = NoNsInfo BY <2>2
    <3> QED BY <2>2, <3>1, ClearedType DEF NoNsInfo
  <2> QED BY <2>1, <2>2
<1>13. nsInfo'[g] = t /\ \A h \in Groups \ {g} : nsInfo'[h] = nsInfo[h]
  BY <1>10, <1>12, SetSlots
<1>14. Visits(g)
  BY <1>1, <1>7, <1>8, <1>9, <1>12, <1>13 DEF Visits, Startable
<1> QED BY <1>2, <1>3, <1>14, VisitsStep

(* ResumeGroupFails keeps the counters and the namespaces. *)
LEMMA ResumeGroupFailsWhole ==
    ASSUME Whole, NEW g \in Groups, ResumeGroupFails(g)
    PROVE  Counting' /\ Namespaces'
<1> USE DEF Whole
<1> DEFINE t == [n \in Nsids |-> IF n \in subsys.ns THEN nsInfo[g][n] ELSE NoNsInfo]
<1>1. /\ UNCHANGED <<subsys, sgroup, request, qp, seen>> /\ change.at = g /\ change.to = "active"
      /\ change' = Advance(TRUE) /\ nsInfo' = [nsInfo EXCEPT ![g] = t] /\ ~sgroup[g].cb
  BY DEF ResumeGroupFails, OnGroup, Types
<1>2. /\ t \in [Nsids -> SlotType]
      /\ \A n \in Nsids : IF n \in subsys.ns THEN t[n] = nsInfo[g][n]
                                             ELSE t[n].io = 0 /\ t[n].channel = FALSE
  BY ConstantFacts DEF Types, NoNsInfo
<1> HIDE DEF t
<1>3. nsInfo'[g] = t /\ \A h \in Groups \ {g} : nsInfo'[h] = nsInfo[h]
  BY <1>1, <1>2, SetSlots
<1>4. SameRunning /\ NoNewIo
  BY <1>1 DEF SameRunning, NoNewIo, QpOf
<1>5. PausedInv'
  <2>1. change'.to = "active"
    BY <1>1, AdvanceType
  <2> QED BY <2>1 DEF PausedInv
<1>6. \A n \in Nsids \ subsys.ns : n \in seen.unpaused \/ IoIn(g, n) = {}
  BY GoneQuiet
<1>7. sgroup'[g].num_ns \/ ~sgroup[g].num_ns
  BY <1>1
<1>8. Visits(g)
  BY <1>1, <1>2, <1>3, <1>6, <1>7 DEF Visits, Startable
<1> QED BY <1>4, <1>5, <1>8, VisitsStep

(* RemoveGroup keeps the counters and the namespaces. *)
LEMMA RemoveGroupWhole ==
    ASSUME Whole, NEW g \in Groups, RemoveGroup(g)
    PROVE  Counting' /\ Namespaces'
<1> USE DEF Whole
<1> DEFINE s == [sgroup[g] EXCEPT !.state = "inactive", !.removing = TRUE]
<1>1. /\ UNCHANGED <<subsys, change, request, qp, seen>> /\ change.to = "inactive"
      /\ sgroup' = [sgroup EXCEPT ![g] = s] /\ nsInfo' = [nsInfo EXCEPT ![g] = Inactivated(g)]
      /\ ~sgroup[g].cb
  BY DEF RemoveGroup, OnGroup, Types
<1>2. s.mgmt = sgroup[g].mgmt /\ s.cb = sgroup[g].cb /\ s.num_ns = sgroup[g].num_ns
  BY DEF Types, GroupType
<1> HIDE DEF s
<1>3. /\ \A h \in Groups \ {g} : sgroup'[h] = sgroup[h]
      /\ sgroup'[g].mgmt = sgroup[g].mgmt /\ ~sgroup'[g].cb /\ sgroup'[g].num_ns = sgroup[g].num_ns
  BY <1>1, <1>2 DEF Types
<1>4. /\ nsInfo'[g] = Inactivated(g) /\ \A h \in Groups \ {g} : nsInfo'[h] = nsInfo[h]
      /\ \A n \in Nsids : Inactivated(g)[n].io = nsInfo[g][n].io
                          /\ Inactivated(g)[n].channel = nsInfo[g][n].channel
                          /\ Inactivated(g)[n].state \in {"inactive", nsInfo[g][n].state}
  BY <1>1, InactivatedFacts, SetSlots
<1>5. SameRunning /\ NoNewIo
  BY <1>1 DEF SameRunning, NoNewIo, QpOf
<1>6. PausedInv'
  BY <1>1 DEF PausedInv
<1>7. Visits(g)
  BY <1>1, <1>3, <1>4 DEF Visits, Startable
<1> QED BY <1>5, <1>6, <1>7, VisitsStep

(* RemoveDone keeps the counters and the namespaces. *)
LEMMA RemoveDoneWhole ==
    ASSUME Whole, NEW g \in Groups, RemoveDone(g)
    PROVE  Counting' /\ Namespaces'
<1> USE DEF Whole
<1> DEFINE s == [sgroup[g] EXCEPT !.removing = FALSE, !.num_ns = FALSE]
           t == [n \in Nsids |-> NoNsInfo]
<1>1. /\ UNCHANGED <<subsys, request, qp, seen>> /\ sgroup[g].removing
      /\ sgroup' = [sgroup EXCEPT ![g] = s] /\ nsInfo' = [nsInfo EXCEPT ![g] = t]
      /\ change' = Advance(FALSE) /\ Members(g) = {}
  BY DEF RemoveDone, Types
<1>2. s.mgmt = sgroup[g].mgmt /\ s.cb = sgroup[g].cb
  BY DEF Types, GroupType
<1>3. /\ change.at = g /\ change.to = "inactive" /\ ~sgroup[g].cb
  BY <1>1 DEF Control, GroupInv
<1> HIDE DEF s
<1>4. /\ \A h \in Groups \ {g} : sgroup'[h] = sgroup[h]
      /\ sgroup'[g].mgmt = sgroup[g].mgmt /\ ~sgroup'[g].cb
  BY <1>1, <1>2, <1>3 DEF Types
<1>5. t \in [Nsids -> SlotType] /\ \A n \in Nsids : t[n].io = 0 /\ t[n].channel = FALSE
  BY ClearedType DEF NoNsInfo
<1> HIDE DEF t
<1>6. nsInfo'[g] = t /\ \A h \in Groups \ {g} : nsInfo'[h] = nsInfo[h]
  BY <1>1, <1>5, SetSlots
<1>7. SameRunning /\ NoNewIo
  BY <1>1 DEF SameRunning, NoNewIo, QpOf
<1>8. PausedInv'
  <2>1. change'.to = "inactive"
    BY <1>1, <1>3, AdvanceType
  <2> QED BY <2>1 DEF PausedInv
<1>9. \A q \in Qpairs : Live(q) /\ qp[q].group = g => ~qp[q].ctrlr
  BY <1>1 DEF Members
<1>10. \A n \in Nsids : IoIn(g, n) = {}
  BY <1>9, UnservedQuiet
<1>11. Visits(g)
  BY <1>1, <1>4, <1>5, <1>6, <1>9, <1>10 DEF Visits, Startable
<1> QED BY <1>7, <1>8, <1>11, VisitsStep
(* A group pauses: it waits for the counters that are not zero, or goes on
   because none is, and then no I/O runs on the namespace. *)
LEMMA PauseGroupWhole ==
    ASSUME Whole, NEW g \in Groups, PauseGroup(g)
    PROVE  Counting' /\ Namespaces'
<1> USE DEF Whole
<1>1. /\ change.on /\ change.at = g /\ change.to = "paused"
      /\ ~sgroup[g].cb /\ ~sgroup[g].removing
      /\ UNCHANGED <<subsys, request, qp, changer, crashed, seen>>
      /\ \A h \in Groups \ {g} : sgroup'[h] = sgroup[h]
  BY PauseGroupStep
<1>2. sgroup[g].num_ns = TRUE /\ (~change.revert => sgroup[g].state = "active")
  BY <1>1, PausedFromActive
<1>3. SameRunning /\ NoNewIo
  BY <1>1 DEF SameRunning, NoNewIo, QpOf
<1>4. CASE sgroup[g].state = "paused"
  <2>1. UNCHANGED <<sgroup, nsInfo>> /\ change' = Advance(FALSE)
    BY <1>4, PauseGroupStep
  <2>2. PausedInv'
    <3>1. change'.revert = change.revert BY <1>1, <2>1, AdvanceType
    <3> QED BY <1>2, <1>4, <3>1 DEF PausedInv
  <2>3. Visits(g)
    BY <1>1, <1>2, <2>1 DEF Visits, Startable
  <2> QED BY <1>3, <2>2, <2>3, VisitsStep
<1>5. CASE sgroup[g].state # "paused"
  <2>1. /\ nsInfo' = [nsInfo EXCEPT ![g] = PausedSlots(g)]
        /\ sgroup'[g].mgmt = sgroup[g].mgmt /\ sgroup'[g].num_ns = sgroup[g].num_ns
        /\ IF PauseWaits(g) THEN change' = change ELSE change' = Advance(FALSE) /\ ~sgroup'[g].cb
    BY <1>5, PauseGroupStep
  <2>2. /\ PausedSlots(g) \in [Nsids -> SlotType]
        /\ \A n \in Nsids :
             /\ PausedSlots(g)[n].io = nsInfo[g][n].io
             /\ PausedSlots(g)[n].channel = nsInfo[g][n].channel
             /\ PausedSlots(g)[n].state =
                  IF sgroup[g].num_ns /\ (change.ns = AllNs \/ n = change.ns)
                  THEN "pausing" ELSE nsInfo[g][n].state
    BY PausedSlotsFacts
  <2>3. /\ \A h \in Groups \ {g} : nsInfo'[h] = nsInfo[h]
        /\ \A n \in Nsids :
             /\ nsInfo'[g][n].io = nsInfo[g][n].io
             /\ nsInfo'[g][n].channel = nsInfo[g][n].channel
             /\ nsInfo'[g][n].state = IF change.ns = AllNs \/ n = change.ns
                                      THEN "pausing" ELSE nsInfo[g][n].state
    BY <1>2, <2>1, <2>2, SetSlots
  <2>4. PauseWaits(g) => ~Quiet(sgroup'[g], nsInfo'[g])
    <3>1. CASE sgroup[g].mgmt > 0
      <4>1. sgroup'[g].mgmt # 0 BY <2>1, <3>1
      <4> QED BY <4>1 DEF Quiet
    <3>2. ASSUME NEW n \in Nsids, change.ns = AllNs \/ n = change.ns, nsInfo[g][n].io > 0
          PROVE  ~Quiet(sgroup'[g], nsInfo'[g])
      <4>1. nsInfo'[g][n].state = "pausing" /\ nsInfo'[g][n].io # 0 /\ sgroup'[g].num_ns
        BY <1>2, <2>1, <2>3, <3>2
      <4> QED BY <4>1 DEF Quiet
    <3> QED BY <3>1, <3>2 DEF PauseWaits
  <2>5. Visits(g)
    <3>1. \A n \in Nsids : /\ nsInfo'[g][n].io = nsInfo[g][n].io
                           /\ Startable(g, n)' => Startable(g, n)
      BY <2>3 DEF Startable
    <3>2. sgroup'[g].cb => ~Quiet(sgroup'[g], nsInfo'[g]) BY <2>1, <2>4
    <3> QED BY <1>1, <1>2, <2>1, <2>3, <3>1, <3>2 DEF Visits
  <2>6. PausedInv'
    <3>1. /\ change'.on = change.on /\ change'.to = change.to /\ change'.ns = change.ns
          /\ change'.revert = change.revert
          /\ change'.at = IF PauseWaits(g) THEN change.at ELSE change.at + 1
      BY <1>1, <2>1, AdvanceType
    <3> SUFFICES ASSUME ~change.revert, NEW n \in Nsids, change.ns = n, NEW h \in Groups
                 PROVE  /\ h < change'.at \/ sgroup'[h].cb => nsInfo'[h][n].state = "pausing"
                        /\ h < change'.at /\ n \notin seen.unpaused =>
                              \A r \in Requests : RunsOn(r, n)' => GroupOf(r)' # h
      BY <1>1, <3>1 DEF PausedInv, RunsOn
    <3>2. \A r \in Requests : \A m : (RunsOn(r, m)' <=> RunsOn(r, m)) /\ GroupOf(r)' = GroupOf(r)
      BY <1>1 DEF RunsOn, GroupOf
    <3>3. CASE h # g
      <4>1. h < change'.at => h < change.at BY <1>1, <3>1, <3>3, ConstantFacts
      <4>2. /\ h < change.at \/ sgroup[h].cb => nsInfo[h][n].state = "pausing"
            /\ h < change.at /\ n \notin seen.unpaused =>
                  \A r \in Requests : RunsOn(r, n) => GroupOf(r) # h
        BY <1>1 DEF Namespaces, PausedInv
      <4> QED BY <1>1, <2>3, <3>2, <3>3, <4>1, <4>2
    <3>4. CASE h = g /\ PauseWaits(g)
      <4>1. ~(h < change'.at) BY <1>1, <3>1, <3>4, ConstantFacts
      <4> QED BY <2>3, <3>4, <4>1
    <3>5. CASE h = g /\ ~PauseWaits(g)
      <4>1. nsInfo'[h][n].state = "pausing" BY <2>3, <3>5
      <4>2. ASSUME n \notin seen.unpaused PROVE IoIn(g, n) = {}
        <5>1. ~(nsInfo[g][n].io > 0) BY <1>2, <3>5 DEF PauseWaits
        <5>2. nsInfo[g][n].io \in Nat BY DEF Types, SlotType
        <5>3. \/ nsInfo[g][n].io = Cardinality(IoIn(g, n))
              \/ nsInfo[g][n].io = Cardinality(IoIn(g, n)) + 1
          BY <4>2 DEF Counting, IoExact
        <5>4. IoIn(g, n) \in SUBSET Requests BY WhoCounts DEF Counted
        <5>5. /\ Cardinality(IoIn(g, n)) \in Nat
              /\ Cardinality(IoIn(g, n)) = 0 <=> IoIn(g, n) = {}
          BY <5>4, RequestSets
        <5> QED BY <5>1, <5>2, <5>3, <5>5
      <4>3. IoIn(g, n) = {r \in Requests : RunsOn(r, n) /\ GroupOf(r) = g}
        BY WhoCounts DEF Counted
      <4> QED BY <3>2, <3>5, <4>1, <4>2, <4>3
    <3> QED BY <3>3, <3>4, <3>5
  <2> QED BY <1>3, <2>5, <2>6, VisitsStep
<1> QED BY <1>4, <1>5
---------------------------------------------------------------------------
(* The walk resumes a group: requests that were queued start to run *)

(* The requests that start in the group, and the fields that this touches. *)
LEMMA ResumedFacts ==
    ASSUME Whole, NEW g \in Groups, ResumeGroup(g), sgroup[g].state # "active", Up'
    PROVE  LET R == Starts(g)
               M == {r \in R : Mgmt(r)}
               a == Activated(nsInfo[g])
               I(n) == {r \in R : ~Mgmt(r) /\ request[r].ns = n} IN
           /\ R \in SUBSET Requests
           /\ \A r \in R : /\ request[r].at = "queued" /\ GroupOf(r) = g
                           /\ ~Mgmt(r) => a[request[r].ns].channel
           /\ \A s \in Requests :
                /\ request'[s].at = "running" <=> request[s].at = "running" \/ s \in R
                /\ request'[s].at = "running" =>
                     /\ request'[s].kind = request[s].kind /\ request'[s].qp = request[s].qp
                     /\ request'[s].ns = request[s].ns
                /\ request'[s].at = "queued" =>
                     request[s].at = "queued" /\ request'[s].kind = request[s].kind
           /\ \A q \in Qpairs : /\ qp'[q].group = qp[q].group
                                /\ qp[q].group # g => qp'[q] = qp[q]
           /\ \A h \in Groups \ {g} : sgroup'[h] = sgroup[h] /\ nsInfo'[h] = nsInfo[h]
           /\ sgroup'[g].mgmt = (sgroup[g].mgmt + Cardinality(M)) % CounterMod
           /\ ~sgroup'[g].cb /\ sgroup'[g].num_ns = TRUE
           /\ \A n \in Nsids : /\ nsInfo'[g][n].io = (a[n].io + Cardinality(I(n))) % CounterMod
                               /\ nsInfo'[g][n].channel = a[n].channel
<1> DEFINE R == Starts(g)
           M == {r \in R : Mgmt(r)}
           a == Activated(nsInfo[g])
           I(n) == {r \in R : ~Mgmt(r) /\ request[r].ns = n}
<1> USE DEF Whole
<1>1. /\ sgroup' = [sgroup EXCEPT ![g] = CountMgmt(ResumedGroup(g), R)]
      /\ nsInfo' = [nsInfo EXCEPT ![g] = CountIo(a, R)]
      /\ \A r \in Requests :
           /\ r \notin Queued(g) => request'[r] = request[r]
           /\ r \in Queued(g) /\ FateIn(g, r) = "idle" => request'[r] = NoRequest
           /\ r \in Queued(g) /\ FateIn(g, r) # "idle" =>
                 request'[r] = [request[r] EXCEPT !.at = FateIn(g, r)]
      /\ qp' = [q \in Qpairs |-> IF \E r \in R : request[r].kind = "connect" /\ request[r].qp = q
                                 THEN Connecting(q) ELSE qp[q]]
      /\ ResumedGroup(g) \in GroupType
      /\ ResumedGroup(g).state = "active" /\ ResumedGroup(g).num_ns = TRUE
      /\ ResumedGroup(g).mgmt = sgroup[g].mgmt /\ ResumedGroup(g).cb = sgroup[g].cb
      /\ \A r \in Queued(g) : request[r].at = "queued"
  BY ResumeGroupStep
<1>2. R \in SUBSET Requests /\ \A r \in R : r \in Queued(g) /\ FateIn(g, r) = "running"
  BY DEF Starts, Queued
<1>3. ASSUME NEW r \in R
      PROVE  /\ request[r].at = "queued" /\ GroupOf(r) = g
             /\ ~Mgmt(r) => a[request[r].ns].channel
  BY <1>1, <1>2, FateFacts DEF FateIn, Mgmt, Queued
<1>4. ASSUME NEW s \in Requests
      PROVE  /\ request'[s].at = "running" <=> request[s].at = "running" \/ s \in R
             /\ request'[s].at = "running" =>
                  /\ request'[s].kind = request[s].kind /\ request'[s].qp = request[s].qp
                  /\ request'[s].ns = request[s].ns
             /\ request'[s].at = "queued" =>
                  request[s].at = "queued" /\ request'[s].kind = request[s].kind
  <2>1. CASE s \notin Queued(g)
    BY <1>1, <1>2, <2>1
  <2>2. CASE s \in Queued(g) /\ FateIn(g, s) = "idle"
    BY <1>1, <1>2, <2>2, ConstantFacts
  <2>3. CASE s \in Queued(g) /\ FateIn(g, s) # "idle"
    <3>1. /\ request'[s].at = FateIn(g, s) /\ request'[s].kind = request[s].kind
          /\ request'[s].qp = request[s].qp /\ request'[s].ns = request[s].ns
      <4>1. request[s] \in RequestType /\ request'[s] = [request[s] EXCEPT !.at = FateIn(g, s)]
        BY <1>1, <2>3 DEF Types
      <4> QED BY <4>1 DEF RequestType
    <3>2. s \in R <=> FateIn(g, s) = "running" BY <2>3 DEF Starts
    <3> QED BY <1>1, <2>3, <3>1, <3>2
  <2> QED BY <2>1, <2>2, <2>3
<1>5. ASSUME NEW q \in Qpairs
      PROVE  qp'[q].group = qp[q].group /\ (qp[q].group # g => qp'[q] = qp[q])
  <2>1. CASE \E r \in R : request[r].kind = "connect" /\ request[r].qp = q
    <3>1. qp[q].group = g BY <1>3, <2>1 DEF GroupOf
    <3>2. qp'[q] = Connecting(q) /\ qp[q] \in QpairType BY <1>1, <2>1 DEF Types
    <3> QED BY <3>1, <3>2 DEF Connecting, QpairType
  <2>2. CASE ~\E r \in R : request[r].kind = "connect" /\ request[r].qp = q
    BY <1>1, <2>2
  <2> QED BY <2>1, <2>2
<1>6. \A S \in SUBSET Requests : Cardinality(S) \in Nat
  BY RequestSets
<1>7. a \in [Nsids -> SlotType]
  <2>1. nsInfo[g] \in [Nsids -> SlotType]
    BY DEF Types
  <2> QED BY <2>1, ActivatedFacts
<1>8. CountMgmt(ResumedGroup(g), R) \in GroupType /\ CountIo(a, R) \in [Nsids -> SlotType]
  BY <1>1, <1>2, <1>7, CountType
<1>9. /\ \A h \in Groups \ {g} : sgroup'[h] = sgroup[h] /\ nsInfo'[h] = nsInfo[h]
      /\ sgroup'[g] = CountMgmt(ResumedGroup(g), R) /\ nsInfo'[g] = CountIo(a, R)
  BY <1>1 DEF Types
<1>10. /\ sgroup'[g].mgmt = (sgroup[g].mgmt + Cardinality(M)) % CounterMod
       /\ ~sgroup'[g].cb /\ sgroup'[g].num_ns = TRUE
  <2>1. ~sgroup[g].cb
    BY DEF ResumeGroup, OnGroup
  <2>2. CountMgmt(ResumedGroup(g), R) =
          [ResumedGroup(g) EXCEPT !.mgmt = (@ + Cardinality(M)) % CounterMod]
    BY DEF CountMgmt
  <2> HIDE DEF M
  <2> QED BY <1>1, <1>9, <2>1, <2>2 DEF GroupType
<1>11. ASSUME NEW n \in Nsids
       PROVE  /\ nsInfo'[g][n].io = (a[n].io + Cardinality(I(n))) % CounterMod
              /\ nsInfo'[g][n].channel = a[n].channel
  <2>1. a[n] \in SlotType
    BY <1>7
  <2>2. CountIo(a, R)[n] = [a[n] EXCEPT !.io = (@ + Cardinality(I(n))) % CounterMod]
    BY DEF CountIo
  <2> HIDE DEF I
  <2> QED BY <1>9, <2>1, <2>2 DEF SlotType
<1> HIDE DEF R, M, a, I
<1>12. /\ R \in SUBSET Requests
       /\ \A r \in R : /\ request[r].at = "queued" /\ GroupOf(r) = g
                       /\ ~Mgmt(r) => a[request[r].ns].channel
  BY <1>2, <1>3
<1>13. \A s \in Requests :
         /\ request'[s].at = "running" <=> request[s].at = "running" \/ s \in R
         /\ request'[s].at = "running" =>
              /\ request'[s].kind = request[s].kind /\ request'[s].qp = request[s].qp
              /\ request'[s].ns = request[s].ns
         /\ request'[s].at = "queued" =>
              request[s].at = "queued" /\ request'[s].kind = request[s].kind
  BY <1>4
<1>14. /\ \A q \in Qpairs : /\ qp'[q].group = qp[q].group
                            /\ qp[q].group # g => qp'[q] = qp[q]
       /\ \A h \in Groups \ {g} : sgroup'[h] = sgroup[h] /\ nsInfo'[h] = nsInfo[h]
       /\ sgroup'[g].mgmt = (sgroup[g].mgmt + Cardinality(M)) % CounterMod
       /\ ~sgroup'[g].cb /\ sgroup'[g].num_ns = TRUE
       /\ \A n \in Nsids : /\ nsInfo'[g][n].io = (a[n].io + Cardinality(I(n))) % CounterMod
                           /\ nsInfo'[g][n].channel = a[n].channel
  BY <1>5, <1>9, <1>10, <1>11
<1> USE DEF R, M, a, I
<1> QED BY <1>12, <1>13, <1>14

(* ResumeGroup keeps the counters and the namespaces. *)
LEMMA ResumeGroupWhole ==
    ASSUME Whole, NEW g \in Groups, ResumeGroup(g), Up'
    PROVE  Counting' /\ Namespaces'
<1> USE DEF Whole
<1>1. /\ UNCHANGED <<subsys, seen>> /\ change.at = g /\ change.to = "active"
      /\ change' = Advance(FALSE) /\ ~sgroup[g].cb
  BY DEF ResumeGroup, OnGroup
<1>2. PausedInv'
  <2>1. change'.to = "active"
    BY <1>1, AdvanceType
  <2> QED BY <2>1 DEF PausedInv
<1>3. CASE sgroup[g].state = "active"
  <2>1. UNCHANGED <<sgroup, nsInfo, request, qp>>
    BY <1>3 DEF ResumeGroup
  <2>2. SameRunning /\ NoNewIo
    BY <2>1 DEF SameRunning, NoNewIo, QpOf
  <2>3. sgroup'[g].num_ns \/ ~sgroup[g].num_ns
    BY <2>1
  <2>4. Visits(g)
    BY <1>1, <2>1, <2>3 DEF Visits, Startable
  <2> QED BY <1>2, <2>2, <2>4, VisitsStep
<1>4. CASE sgroup[g].state # "active"
  <2> DEFINE R == Starts(g)
             M == {r \in R : Mgmt(r)}
             a == Activated(nsInfo[g])
             I(n) == {r \in R : ~Mgmt(r) /\ request[r].ns = n}
  <2>1. /\ R \in SUBSET Requests
        /\ \A r \in R : /\ request[r].at = "queued" /\ GroupOf(r) = g
                        /\ ~Mgmt(r) => a[request[r].ns].channel
    BY <1>4, ResumedFacts
  <2>2. \A s \in Requests :
          /\ request'[s].at = "running" <=> request[s].at = "running" \/ s \in R
          /\ request'[s].at = "running" =>
               /\ request'[s].kind = request[s].kind /\ request'[s].qp = request[s].qp
               /\ request'[s].ns = request[s].ns
          /\ request'[s].at = "queued" =>
               request[s].at = "queued" /\ request'[s].kind = request[s].kind
    BY <1>4, ResumedFacts
  <2>3. /\ \A q \in Qpairs : /\ qp'[q].group = qp[q].group
                             /\ qp[q].group # g => qp'[q] = qp[q]
        /\ \A h \in Groups \ {g} : sgroup'[h] = sgroup[h] /\ nsInfo'[h] = nsInfo[h]
        /\ sgroup'[g].mgmt = (sgroup[g].mgmt + Cardinality(M)) % CounterMod
        /\ ~sgroup'[g].cb /\ sgroup'[g].num_ns = TRUE
        /\ \A n \in Nsids : /\ nsInfo'[g][n].io = (a[n].io + Cardinality(I(n))) % CounterMod
                            /\ nsInfo'[g][n].channel = a[n].channel
    BY <1>4, ResumedFacts
  <2>4. \A n \in Nsids :
          /\ n \in subsys.ns => a[n].channel = TRUE /\ a[n].io = nsInfo[g][n].io
          /\ n \notin subsys.ns => a[n].channel = FALSE /\ a[n].io = 0
    <3>1. nsInfo[g] \in [Nsids -> SlotType] BY DEF Types
    <3> QED BY <3>1, ActivatedFacts
  <2>5. /\ M \in SUBSET Requests /\ \A n : I(n) \in SUBSET Requests
        /\ \A r \in Requests : r \in M <=> r \in R /\ Mgmt(r)
        /\ \A n : \A r \in Requests : r \in I(n) <=> r \in R /\ ~Mgmt(r) /\ request[r].ns = n
    BY <2>1
  <2> HIDE DEF R, M, a, I
  <2>6. \A s \in Requests : request[s].qp \in Qpairs /\ GroupOf(s) \in Groups /\ request[s] \in RequestType
    BY DEF Types, RequestType, QpairType, GroupOf
  <2>7. ASSUME NEW s \in Requests, request'[s].at = "running"
        PROVE  /\ GroupOf(s)' = GroupOf(s) /\ (Mgmt(s)' <=> Mgmt(s)) /\ (IsIo(s)' <=> IsIo(s))
               /\ \A n : RunsOn(s, n)' <=> request[s].ns = n
    BY <2>2, <2>3, <2>6, <2>7 DEF GroupOf, Mgmt, IsIo, RunsOn
  <2>8. Counted /\ Counted'
    <3>1. Types' /\ RequestsInv' BY ResumeGroupType, ResumeGroupRequests
    <3> QED BY <3>1, WhoCounts, WhoCountsNext
  \* The counter of the management requests.
  <2>9. MgmtExact'
    <3> SUFFICES ASSUME NEW h \in Groups PROVE sgroup'[h].mgmt = Cardinality(MgmtIn(h)')
      BY DEF MgmtExact
    <3>1. /\ MgmtIn(h) = {r \in Requests : request[r].at = "running" /\ GroupOf(r) = h /\ Mgmt(r)}
          /\ MgmtIn(h)' = {r \in Requests : request'[r].at = "running" /\ GroupOf(r)' = h /\ Mgmt(r)'}
      BY <2>8 DEF Counted
    <3>2. sgroup[h].mgmt = Cardinality(MgmtIn(h)) BY DEF Counting, MgmtExact
    <3>3. CASE h # g
      <4>1. MgmtIn(h)' = MgmtIn(h) BY <2>1, <2>2, <2>7, <3>1, <3>3
      <4> QED BY <2>3, <3>2, <3>3, <4>1
    <3>4. CASE h = g
      <4>1. MgmtIn(h)' = MgmtIn(h) \cup M BY <2>1, <2>2, <2>5, <2>7, <3>1, <3>4
      <4>2. MgmtIn(h) \cap M = {} BY <2>1, <2>5, <3>1
      <4>3. MgmtIn(h) \in SUBSET Requests /\ MgmtIn(h) \cup M \in SUBSET Requests
        BY <2>5, <3>1
      <4>4. Cardinality(MgmtIn(h)') = Cardinality(MgmtIn(h)) + Cardinality(M)
        BY <2>5, <4>1, <4>2, <4>3, RequestSets
      <4>5. Cardinality(MgmtIn(h)') \in Nat /\ Cardinality(MgmtIn(h)') < CounterMod
        BY <4>1, <4>3, RequestSets, ConstantFacts
      <4> QED BY <2>3, <3>2, <3>4, <4>4, <4>5, NoWrap
    <3> QED BY <3>3, <3>4
  \* No request starts on a namespace that is gone.
  <2>10. ASSUME NEW n \in Nsids, n \notin subsys.ns PROVE I(n) = {}
    BY <2>1, <2>4, <2>5, <2>10
  <2>11. IoExact'
    <3> SUFFICES ASSUME NEW h \in Groups, NEW n \in Nsids, n \notin seen.unpaused
                 PROVE  \/ nsInfo'[h][n].io = Cardinality(IoIn(h, n)')
                        \/ <<h, n>> \in seen.leaks /\ nsInfo'[h][n].io = Cardinality(IoIn(h, n)') + 1
      BY <1>1 DEF IoExact
    <3>1. /\ IoIn(h, n) = {r \in Requests : RunsOn(r, n) /\ GroupOf(r) = h}
          /\ IoIn(h, n)' = {r \in Requests : RunsOn(r, n)' /\ GroupOf(r)' = h}
          /\ \A r \in Requests : RunsOn(r, n) => ~Mgmt(r)
          /\ \A r \in Requests : RunsOn(r, n)' => ~Mgmt(r)'
      BY <2>8 DEF Counted
    <3>2. \/ nsInfo[h][n].io = Cardinality(IoIn(h, n))
          \/ <<h, n>> \in seen.leaks /\ nsInfo[h][n].io = Cardinality(IoIn(h, n)) + 1
      BY DEF Counting, IoExact
    <3>3. \A s \in Requests : RunsOn(s, n)' <=> RunsOn(s, n) \/ (s \in R /\ request[s].ns = n)
      BY <2>2, <2>7 DEF RunsOn
    <3>4. \A s \in Requests : RunsOn(s, n)' => GroupOf(s)' = GroupOf(s) /\ (Mgmt(s)' <=> Mgmt(s))
      BY <2>7 DEF RunsOn
    <3>5. CASE h # g
      <4>1. IoIn(h, n)' = IoIn(h, n) BY <2>1, <3>1, <3>3, <3>4, <3>5
      <4> QED BY <2>3, <3>2, <3>5, <4>1
    <3>6. CASE h = g
      <4>1. IoIn(h, n)' = IoIn(h, n) \cup I(n) BY <2>1, <2>5, <3>1, <3>3, <3>4, <3>6
      <4>2. IoIn(h, n) \cap I(n) = {} BY <2>1, <2>5, <3>1 DEF RunsOn
      <4>3. IoIn(h, n) \in SUBSET Requests /\ IoIn(h, n) \cup I(n) \in SUBSET Requests
            /\ I(n) \in SUBSET Requests
        BY <2>5, <3>1
      <4>4. Cardinality(IoIn(h, n)') = Cardinality(IoIn(h, n)) + Cardinality(I(n))
        BY <4>1, <4>2, <4>3, RequestSets
      <4>5. /\ Cardinality(IoIn(h, n)') \in Nat /\ Cardinality(IoIn(h, n)') + 1 < CounterMod
            /\ Cardinality(IoIn(h, n)) \in Nat /\ Cardinality(I(n)) \in Nat
        BY <4>1, <4>3, RequestSets
      <4>6. CASE n \in subsys.ns
        <5>1. nsInfo'[h][n].io = (nsInfo[h][n].io + Cardinality(I(n))) % CounterMod
          BY <2>3, <2>4, <3>6, <4>6
        <5>2. CASE nsInfo[h][n].io = Cardinality(IoIn(h, n))
          <6>1. nsInfo'[h][n].io = Cardinality(IoIn(h, n)') % CounterMod
            BY <4>4, <5>1, <5>2
          <6>2. Cardinality(IoIn(h, n)') < CounterMod BY <4>5, ConstantFacts
          <6> QED BY <4>5, <6>1, <6>2, NoWrap
        <5>3. CASE <<h, n>> \in seen.leaks /\ nsInfo[h][n].io = Cardinality(IoIn(h, n)) + 1
          <6>1. nsInfo[h][n].io + Cardinality(I(n)) = Cardinality(IoIn(h, n)') + 1
            BY <4>4, <4>5, <5>3
          <6>2. nsInfo'[h][n].io = (Cardinality(IoIn(h, n)') + 1) % CounterMod
            BY <5>1, <6>1
          <6>3. Cardinality(IoIn(h, n)') + 1 \in Nat BY <4>5
          <6> QED BY <4>5, <5>3, <6>2, <6>3, NoWrap
        <5> QED BY <3>2, <5>2, <5>3
      <4>7. CASE n \notin subsys.ns
        <5>1. IoIn(h, n) = {} /\ I(n) = {} BY <2>10, <4>7, GoneQuiet
        <5>2. Cardinality(IoIn(h, n)') = 0 /\ Cardinality(I(n)) = 0
          <6>1. {} \in SUBSET Requests OBVIOUS
          <6> QED BY <4>1, <5>1, <6>1, FS_EmptySet
        <5>3. nsInfo'[h][n].io = (0 + 0) % CounterMod BY <2>3, <2>4, <3>6, <4>7, <5>2
        <5> QED BY <5>2, <5>3, NoWrap, ConstantFacts
      <4> QED BY <4>6, <4>7
    <3> QED BY <3>5, <3>6
  <2>12. IoServed'
    <3> SUFFICES ASSUME NEW s \in Requests, IsIo(s)', request'[s].at = "running"
                 PROVE  sgroup'[GroupOf(s)'].num_ns
      BY DEF IoServed
    <3>1. GroupOf(s)' = GroupOf(s) /\ IsIo(s) BY <2>7
    <3>2. CASE GroupOf(s) = g
      BY <2>3, <3>1, <3>2
    <3>3. CASE GroupOf(s) # g
      <4>1. request[s].at = "running" BY <2>1, <2>2, <3>3
      <4> QED BY <2>3, <2>6, <3>1, <3>3, <4>1 DEF Counting, IoServed
    <3> QED BY <3>2, <3>3
  <2>13. Waits'
    <3> SUFFICES ASSUME NEW h \in Groups, sgroup'[h].cb PROVE ~Quiet(sgroup'[h], nsInfo'[h])
      BY DEF Waits
    <3> QED BY <2>3 DEF Counting, Waits
  <2>14. GoneInv'
    <3> SUFFICES ASSUME NEW n \in Nsids, n \notin subsys.ns, n \notin seen.unpaused
                 PROVE  /\ \A s \in Requests : ~RunsOn(s, n)'
                        /\ subsys.destroyed \/ \A h \in Groups : ~Startable(h, n)'
      BY <1>1 DEF GoneInv
    <3>1. (\A s \in Requests : ~RunsOn(s, n)) /\ (subsys.destroyed \/ \A h \in Groups : ~Startable(h, n))
      BY DEF Namespaces, GoneInv
    <3>2. ASSUME NEW s \in Requests, RunsOn(s, n)' PROVE FALSE
      <4>1. request'[s].at = "running" /\ request[s].ns = n /\ s \in R
        BY <2>2, <2>7, <3>1, <3>2 DEF RunsOn
      <4>2. ~Mgmt(s)
        <5>1. ~Mgmt(s)' BY <2>8, <3>2 DEF Counted
        <5> QED BY <2>7, <4>1, <5>1
      <4> QED BY <2>1, <2>4, <4>1, <4>2
    <3>3. ~Startable(g, n)' BY <2>3, <2>4 DEF Startable
    <3>4. \A h \in Groups \ {g} : ~Startable(h, n) => ~Startable(h, n)'
      BY <2>3 DEF Startable
    <3> QED BY <3>1, <3>2, <3>3, <3>4
  <2>15. DestroyedInv'
    <3> SUFFICES ASSUME subsys.destroyed, NEW s \in Requests, request'[s].at \in {"queued", "running"}
                 PROVE  ~IsIo(s)'
      BY <1>1 DEF DestroyedInv, IsAt
    <3>1. request[s].at \in {"queued", "running"} /\ request'[s].kind = request[s].kind
      BY <2>1, <2>2
    <3>2. ~IsIo(s) BY <3>1 DEF Namespaces, DestroyedInv, IsAt
    <3> QED BY <3>1, <3>2 DEF IsIo
  <2>16. UnservedInv'
    <3> SUFFICES ASSUME NEW h \in Groups, ~sgroup'[h].num_ns
                 PROVE  /\ \A q \in Qpairs : Live(q)' /\ qp'[q].group = h /\ qp'[q].ctrlr /\ qp'[q].received =>
                              q \in seen'.late \/ ConnectRuns(q)'
                        /\ \A s \in Requests : request'[s].at = "running" /\ request'[s].kind = "admin"
                              /\ GroupOf(s)' = h => ~QpOf(s)'.ctrlr
      BY DEF UnservedInv
    <3>1. h # g /\ ~sgroup[h].num_ns BY <2>3
    <3>2. ASSUME NEW q \in Qpairs, Live(q)', qp'[q].group = h, qp'[q].ctrlr, qp'[q].received
          PROVE  q \in seen'.late \/ ConnectRuns(q)'
      <4>1. qp'[q] = qp[q] BY <2>3, <3>1, <3>2
      <4>2. q \in seen.late \/ ConnectRuns(q)
        BY <3>1, <3>2, <4>1 DEF Namespaces, UnservedInv, Live
      <4>3. ConnectRuns(q) => ConnectRuns(q)' BY <2>2 DEF ConnectRuns
      <4> QED BY <1>1, <4>2, <4>3
    <3>3. ASSUME NEW s \in Requests, request'[s].at = "running", request'[s].kind = "admin", GroupOf(s)' = h
          PROVE  ~QpOf(s)'.ctrlr
      <4>1. GroupOf(s) = h /\ request'[s].qp = request[s].qp /\ request[s].kind = "admin"
        BY <2>2, <2>7, <3>3
      <4>2. request[s].at = "running" BY <2>1, <2>2, <3>1, <3>3, <4>1
      <4>3. qp'[request[s].qp] = qp[request[s].qp] BY <2>3, <2>6, <3>1, <4>1 DEF GroupOf
      <4> QED BY <3>1, <4>1, <4>2, <4>3 DEF Namespaces, UnservedInv, QpOf
    <3> QED BY <3>2, <3>3
  <2> QED BY <1>2, <2>9, <2>11, <2>12, <2>13, <2>14, <2>15, <2>16 DEF Counting, Namespaces
<1> QED BY <1>3, <1>4
---------------------------------------------------------------------------
(* The inductive invariant, and what follows from it *)

SubsystemInv == Types /\ (Up => Control /\ RequestsInv /\ Counting /\ Namespaces)

(* The invariant holds at first. *)
LEMMA InitSubsystem == SubsystemInit => SubsystemInv
<1> SUFFICES ASSUME SubsystemInit PROVE SubsystemInv
  OBVIOUS
<1>1. Types /\ Control
  BY InitBase DEF Base, SubsystemInit, Up
<1>2. /\ \A r \in Requests : request[r] = NoRequest
      /\ \A q \in Qpairs : qp[q] = NoQpair
      /\ \A g \in Groups : sgroup[g].mgmt = 0 /\ ~sgroup[g].cb
      /\ \A g \in Groups : \A n \in Nsids : nsInfo[g][n] = NoNsInfo
      /\ subsys.ns = Nsids /\ ~subsys.destroyed /\ ~change.on /\ seen.leaks = {}
  BY ConstantFacts DEF SubsystemInit
<1>3. /\ \A r \in Requests : request[r].at = "idle" /\ request[r].kind = "admin" /\ request[r].ns = NoNs
      /\ \A q \in Qpairs : ~qp[q].ctrlr
      /\ \A g \in Groups : \A n \in Nsids : nsInfo[g][n].io = 0
  BY <1>2, ConstantFacts DEF NoQpair, NoNsInfo
<1>4. RequestsInv
  <2>1. \A r \in Requests : RequestInv(r) /\ ~Going(r)
    BY <1>3, DeadRequest DEF Going, IsAt, Mgmt
  <2> QED BY <1>2, <1>3, <2>1 DEF RequestsInv, OneConnect, OneLeak, Connects
<1>5. \A g : MgmtIn(g) = {} /\ \A n : IoIn(g, n) = {}
  BY <1>3 DEF MgmtIn, IoIn, Running
<1>6. Counting
  <2>1. MgmtExact /\ IoExact
    BY <1>2, <1>3, <1>5, FS_EmptySet DEF MgmtExact, IoExact
  <2>2. IoServed /\ Waits
    BY <1>2, <1>3 DEF IoServed, Waits
  <2> QED BY <2>1, <2>2 DEF Counting
<1>7. Namespaces
  BY <1>2, <1>3 DEF Namespaces, GoneInv, DestroyedInv, PausedInv, UnservedInv, RunsOn
<1> QED BY <1>1, <1>4, <1>6, <1>7 DEF SubsystemInv

(* Nothing happens after the end of the process. *)
LEMMA StepsWhileUp == SubsystemNext => Up
<1>1. ASSUME NEW o \in Changers, Pause(o) \/ PauseFreed(o) \/ Listened(o) \/ Stop(o)
      PROVE  Up
  BY <1>1 DEF Pause, PauseFreed, Listened, Stop
<1>2. ASSUME Start \/ ChangeDone \/ Revert \/ RevertDone \/ Destroyed
      PROVE  Up
  BY <1>2 DEF Start, ChangeDone, Revert, RevertDone, Destroyed, WalkEnded
<1>3. ASSUME NEW g \in Groups, AddSubsystem(g) \/ AddSubsystemFails(g) \/ PauseGroup(g)
                               \/ ResumeGroup(g) \/ ResumeGroupFails(g)
                               \/ RemoveGroup(g) \/ RemoveQpairs(g) \/ RemoveDone(g)
      PROVE  Up
  BY <1>3 DEF AddSubsystem, AddSubsystemFails, PauseGroup, ResumeGroup, ResumeGroupFails,
              RemoveGroup, RemoveQpairs, RemoveDone, OnGroup
<1>4. ASSUME NEW r \in Requests, RetryConnect(r) \/ CompleteAer(r) \/ \E ok \in BOOLEAN : Complete(r, ok)
      PROVE  Up
  BY <1>4 DEF RetryConnect, CompleteAer, Complete
<1>5. ASSUME NEW r \in Requests, NEW q \in Qpairs, NEW k \in Kinds, NEW n \in Nsids \cup {NoNs},
             Execute(r, q, k, n)
      PROVE  Up
  BY <1>5 DEF Execute
<1>6. ASSUME NEW q \in Qpairs, LoseQpair(q) \/ \E g \in Groups : AddQpair(q, g)
      PROVE  Up
  BY <1>6 DEF LoseQpair, AddQpair
<1> QED BY <1>1, <1>2, <1>3, <1>4, <1>5, <1>6 DEF SubsystemNext

(* A step of the walk, or of the queue pairs, keeps the requests in order. *)
LEMMA NextRequests ==
    ASSUME Whole, SubsystemNext, Types', Up'
    PROVE  RequestsInv'
<1> USE DEF Whole
<1>1. ASSUME NEW q \in Qpairs, LoseQpair(q) \/ \E g \in Groups : AddQpair(q, g)
      PROVE  RequestsInv'
  <2>1. CASE LoseQpair(q)
    <3>1. Disconnect({q}) /\ UNCHANGED seen /\ {q} \in SUBSET Qpairs /\ \A p \in {q} : Live(p)
      BY <2>1 DEF LoseQpair, Live
    <3> QED BY <3>1, DisconnectRequests
  <2> QED BY <1>1, <2>1, AddQpairRequests
<1>2. ASSUME NEW g \in Groups, RemoveQpairs(g)
      PROVE  RequestsInv'
  <2> DEFINE Q == {q \in Members(g) : qp[q].state = "active"}
  <2>1. Disconnect(Q) /\ UNCHANGED seen
    BY <1>2 DEF RemoveQpairs
  <2>2. Q \in SUBSET Qpairs /\ \A q \in Q : Live(q)
    BY DEF Live, Members
  <2> HIDE DEF Q
  <2> QED BY <2>1, <2>2, DisconnectRequests
<1>3. ASSUME NEW g \in Groups, AddSubsystem(g) \/ AddSubsystemFails(g)
      PROVE  RequestsInv'
  <2>1. /\ UNCHANGED <<qp, seen>>
        /\ request' = [r \in Requests |-> IF r \in Queued(g) THEN [request[r] EXCEPT !.at = "lost"]
                                          ELSE request[r]]
    BY <1>3 DEF AddSubsystem, AddSubsystemFails
  <2> QED BY <2>1, LostRequests
<1>4. ASSUME UNCHANGED <<request, qp>>, seen'.leaks = seen.leaks
      PROVE  RequestsInv'
  <2>1. ASSUME NEW s \in Requests
        PROVE  Going(s) => /\ Live(request[s].qp)' /\ QpOf(s)'.received = QpOf(s).received
                           /\ QpOf(s)'.ctrlr = QpOf(s).ctrlr
    BY <1>4 DEF RequestsInv, RequestInv, Live, QpOf
  <2> QED BY <1>4, <2>1, RequestsShrink
<1>5. ASSUME \/ \E o \in Changers : Pause(o) \/ Listened(o) \/ Stop(o)
             \/ Start \/ ChangeDone \/ Revert \/ RevertDone
      PROVE  RequestsInv'
  BY <1>4, <1>5, ChangersMove DEF ChangerMoves, ChangerStep
<1>6. ASSUME Destroyed
      PROVE  RequestsInv'
  BY <1>4, <1>6 DEF Destroyed
<1>7. ASSUME NEW g \in Groups, PauseGroup(g) \/ ResumeGroupFails(g) \/ RemoveGroup(g) \/ RemoveDone(g)
      PROVE  RequestsInv'
  BY <1>4, <1>7 DEF PauseGroup, ResumeGroupFails, RemoveGroup, RemoveDone
<1>8. ASSUME NEW g \in Groups, ResumeGroup(g)
      PROVE  RequestsInv'
  BY <1>8, ResumeGroupRequests
<1>9. ASSUME NEW r \in Requests, RetryConnect(r) \/ CompleteAer(r) \/ \E ok \in BOOLEAN : Complete(r, ok)
      PROVE  RequestsInv'
  BY <1>9, RetryConnectRequests, CompleteAerRequests, CompleteRequests
<1>10. ASSUME NEW r \in Requests, NEW q \in Qpairs, NEW k \in Kinds, NEW n \in Nsids \cup {NoNs},
              Execute(r, q, k, n)
       PROVE  RequestsInv'
  BY <1>10, ExecuteRequests
<1>11. ASSUME NEW o \in Changers, PauseFreed(o)
       PROVE  FALSE
  BY <1>11 DEF PauseFreed, Up
<1> QED BY <1>1, <1>2, <1>3, <1>5, <1>6, <1>7, <1>8, <1>9, <1>10, <1>11 DEF SubsystemNext

(* Every step keeps the invariant. *)
LEMMA NextSubsystem == SubsystemInv /\ [SubsystemNext]_subsystemVars => SubsystemInv'
<1> SUFFICES ASSUME SubsystemInv, [SubsystemNext]_subsystemVars PROVE SubsystemInv'
  OBVIOUS
<1>1. Types' /\ (Up' => Control')
  BY NextBase DEF SubsystemInv, Base
<1>2. CASE UNCHANGED subsystemVars
  <2>1. UNCHANGED <<subsys, change, sgroup, nsInfo, qp, request, changer, crashed, seen>>
    BY <1>2 DEF subsystemVars
  <2>2. ASSUME Up' PROVE RequestsInv' /\ Counting' /\ Namespaces'
    <3>1. Whole BY <2>1, <2>2 DEF SubsystemInv, Whole, Up
    <3>2. SameRunning /\ NoNewMember /\ NoNewIo
      BY <2>1 DEF SameRunning, NoNewMember, NoNewIo, QpOf, Live
    <3>3. ASSUME NEW s \in Requests
          PROVE  Going(s) => /\ Live(request[s].qp)' /\ QpOf(s)'.received = QpOf(s).received
                             /\ QpOf(s)'.ctrlr = QpOf(s).ctrlr
      BY <2>1, <3>1 DEF Whole, RequestsInv, RequestInv, Live, QpOf
    <3>4. RequestsInv' BY <2>1, <3>1, <3>3, RequestsShrink DEF Whole
    <3> QED BY <2>1, <3>1, <3>2, <3>4, QuietStep
  <2> QED BY <1>1, <2>2 DEF SubsystemInv
<1>3. CASE SubsystemNext
  <2> SUFFICES ASSUME Up' PROVE RequestsInv' /\ Counting' /\ Namespaces'
    BY <1>1 DEF SubsystemInv
  <2>1. Whole
    BY <1>3, StepsWhileUp DEF SubsystemInv, Whole
  <2>2. RequestsInv'
    BY <1>1, <1>3, <2>1, NextRequests
  <2>3. ASSUME \/ \E q \in Qpairs : LoseQpair(q) \/ \E g \in Groups : AddQpair(q, g)
               \/ \E g \in Groups : RemoveQpairs(g)
               \/ \E r \in Requests : CompleteAer(r)
        PROVE  Counting' /\ Namespaces'
    BY <2>1, <2>3, QpairStepsWhole
  <2>4. ASSUME NEW r \in Requests, NEW q \in Qpairs, NEW k \in Kinds, NEW n \in Nsids \cup {NoNs},
               Execute(r, q, k, n)
        PROVE  Counting' /\ Namespaces'
    BY <1>1, <2>1, <2>2, <2>4, ExecuteWhole
  <2>5. ASSUME NEW r \in Requests, RetryConnect(r) \/ \E ok \in BOOLEAN : Complete(r, ok)
        PROVE  Counting' /\ Namespaces'
    BY <1>1, <2>1, <2>2, <2>5, RetryConnectWhole, CompleteWhole
  <2>6. ASSUME NEW g \in Groups, AddSubsystem(g) \/ AddSubsystemFails(g) \/ PauseGroup(g)
                                 \/ ResumeGroup(g) \/ ResumeGroupFails(g)
                                 \/ RemoveGroup(g) \/ RemoveDone(g)
        PROVE  Counting' /\ Namespaces'
    BY <2>1, <2>6, AddSubsystemWhole, PauseGroupWhole, ResumeGroupWhole, ResumeGroupFailsWhole,
       RemoveGroupWhole, RemoveDoneWhole
  <2>7. ASSUME \/ \E o \in Changers : Pause(o) \/ Listened(o) \/ Stop(o)
               \/ Start \/ ChangeDone \/ Revert \/ RevertDone
        PROVE  Counting' /\ Namespaces'
    BY <2>1, <2>7, ChangersWhole
  <2>8. ASSUME Destroyed PROVE Counting' /\ Namespaces'
    BY <2>1, <2>8, DestroyedWhole
  <2>9. ASSUME NEW o \in Changers, PauseFreed(o) PROVE FALSE
    BY <2>9 DEF PauseFreed, Up
  <2> QED BY <1>3, <2>2, <2>3, <2>4, <2>5, <2>6, <2>7, <2>8, <2>9 DEF SubsystemNext
<1> QED BY <1>2, <1>3

(* The inductive invariant: types, control of the walk, requests, exact
   counters and namespaces. *)
THEOREM SubsystemInvariance == SubsystemSpec => []SubsystemInv
  BY InitSubsystem, NextSubsystem, PTL DEF SubsystemSpec

(* Types and counters that fit, for any number of groups and requests. *)
THEOREM SubsystemTyping == SubsystemSpec => []SubsystemTypeOK
<1>1. SubsystemInv => SubsystemTypeOK
  BY TypesSuffice DEF SubsystemInv
<1> QED BY <1>1, SubsystemInvariance, PTL

(* subsystem_state_change_done: when a change is over, every poll group
   has followed, and an inactive subsystem has no queue pairs left but
   those whose connect came too late. *)
THEOREM Settles == SubsystemSpec => []SettledSubsystem
<1>1. SubsystemInv => SettledSubsystem
  <2> SUFFICES ASSUME SubsystemInv, Up, ~subsys.changing
               PROVE  /\ \A g \in Groups : sgroup[g].state = subsys.state
                      /\ subsys.state = "inactive" =>
                           \A q \in Qpairs : Live(q) /\ qp[q].ctrlr /\ qp[q].received =>
                             q \in seen.late \/ ConnectRuns(q)
    BY DEF SettledSubsystem, GroupsAgree, InactiveHasNoQpairs, ConnectRuns
  <2>1. Types /\ Control /\ UnservedInv
    BY DEF SubsystemInv, Namespaces
  <2>2. GroupsAt(subsys.state)
    BY <2>1, AtRest
  <2>3. ASSUME subsys.state = "inactive", NEW q \in Qpairs, Live(q), qp[q].ctrlr, qp[q].received
        PROVE  q \in seen.late \/ ConnectRuns(q)
    <3>1. qp[q].group \in Groups BY <2>1 DEF Types, QpairType
    <3>2. ~sgroup[qp[q].group].num_ns BY <2>2, <2>3, <3>1 DEF GroupsAt
    <3> QED BY <2>1, <2>3, <3>1, <3>2 DEF UnservedInv
  <2> QED BY <2>2, <2>3 DEF GroupsAt
<1> QED BY <1>1, SubsystemInvariance, PTL

(* nvmf_poll_group_pause_subsystem and _nvmf_request_complete: the
   counters are those of the requests that run, and no pause waits for
   nothing. *)
THEOREM PausesAccount == SubsystemSpec => []PauseAccounting
<1>1. SubsystemInv => PauseAccounting
  <2> SUFFICES ASSUME SubsystemInv, Up PROVE PauseAccounting
    BY DEF PauseAccounting, CountersExact, WaitsForSomething
  <2>1. CountersExact
    BY DEF SubsystemInv, CountersExact, Counting, MgmtExact, IoExact, MgmtIn, IoIn
  <2>2. WaitsForSomething
    BY DEF SubsystemInv, WaitsForSomething, Counting, Waits, Control, GroupInv
  <2> QED BY <2>1, <2>2 DEF PauseAccounting
<1> QED BY <1>1, SubsystemInvariance, PTL

(* spdk_nvmf_subsystem_remove_ns: a namespace leaves with no I/O on it in
   any group, unless it was not paused. *)
THEOREM RemovesQuietly == SubsystemSpec => RemovedQuiet
<1> DEFINE QuietRemoval == \A n \in subsys.ns \ subsys'.ns :
                              OutstandingOn(n) = {} \/ n \in seen'.unpaused
<1>1. SubsystemInv /\ [SubsystemNext]_subsystemVars => [QuietRemoval]_subsystemVars
  <2> SUFFICES ASSUME SubsystemInv, SubsystemNext, NEW n \in subsys.ns \ subsys'.ns
               PROVE  OutstandingOn(n) = {} \/ n \in seen'.unpaused
    OBVIOUS
  <2>1. Whole /\ n \in Nsids
    BY StepsWhileUp DEF SubsystemInv, Whole, Types, SubsysType
  <2>2. ASSUME \/ \E o \in Changers : Pause(o) \/ Listened(o) \/ Stop(o)
               \/ Start \/ ChangeDone \/ Revert \/ RevertDone
        PROVE  OutstandingOn(n) = {} \/ n \in seen'.unpaused
    BY <2>1, <2>2, ChangersMove DEF ChangerMoves, RunsOn, OutstandingOn
  <2>3. ASSUME Destroyed PROVE OutstandingOn(n) = {}
    <3>1. \A q \in Qpairs : Live(q) => ~qp[q].ctrlr BY <2>3 DEF Destroyed
    <3>2. ASSUME NEW r \in Requests, RunsOn(r, n) PROVE FALSE
      <4>1. IsIo(r) /\ Going(r) /\ request[r].qp \in Qpairs
        BY <2>1, <3>2, WhoCounts DEF Counted, RunsOn, Going, IsAt, Whole, Types, RequestType
      <4>2. Live(request[r].qp) /\ QpOf(r).ctrlr
        BY <2>1, <4>1 DEF Whole, RequestsInv, RequestInv
      <4> QED BY <3>1, <4>1, <4>2 DEF QpOf
    <3> QED BY <3>2 DEF OutstandingOn, RunsOn
  <2>4. ASSUME NEW g \in Groups, AddSubsystem(g) \/ AddSubsystemFails(g) \/ PauseGroup(g)
                                 \/ ResumeGroup(g) \/ ResumeGroupFails(g)
                                 \/ RemoveGroup(g) \/ RemoveQpairs(g) \/ RemoveDone(g)
        PROVE  UNCHANGED subsys
    BY <2>4 DEF AddSubsystem, AddSubsystemFails, PauseGroup, ResumeGroup, ResumeGroupFails,
                RemoveGroup, RemoveQpairs, RemoveDone
  <2>5. ASSUME NEW r \in Requests, RetryConnect(r) \/ CompleteAer(r) \/ \E ok \in BOOLEAN : Complete(r, ok)
        PROVE  UNCHANGED subsys
    BY <2>5 DEF RetryConnect, CompleteAer, Complete
  <2>6. ASSUME NEW r \in Requests, NEW q \in Qpairs, NEW k \in Kinds, NEW m \in Nsids \cup {NoNs},
               Execute(r, q, k, m)
        PROVE  UNCHANGED subsys
    BY <2>6 DEF Execute
  <2>7. ASSUME NEW q \in Qpairs, LoseQpair(q) \/ \E g \in Groups : AddQpair(q, g)
        PROVE  UNCHANGED subsys
    BY <2>7 DEF LoseQpair, AddQpair
  <2>8. ASSUME NEW o \in Changers, PauseFreed(o) PROVE UNCHANGED subsys
    BY <2>8 DEF PauseFreed
  <2> QED BY <2>2, <2>3, <2>4, <2>5, <2>6, <2>7, <2>8 DEF SubsystemNext
<1> QED BY <1>1, SubsystemInvariance, PTL DEF SubsystemSpec, RemovedQuiet
=============================================================================
