---------------------------- MODULE NvmfReservation ----------------------------
(***************************************************************************)
(* The reservations of one namespace of the NVMe-oF target                 *)
(* (src/nvmf/subsystem.c).  Hosts send reservation commands to the poll    *)
(* group of their queue pair; the group checks them against its copy of    *)
(* the reservation and passes them to the subsystem's thread, which keeps  *)
(* the registrants, writes the persistence file, walks over the groups to  *)
(* renew their copies and only then answers.                               *)
(*                                                                         *)
(* A command is chosen when it is handled: the check in the group sees     *)
(* only whether it registers, acquires, or preempts, releases or clears.   *)
(***************************************************************************)
EXTENDS Integers, Sequences, FiniteSets, SequencesExt

CONSTANTS
    Hosts,
    Clients,          \* the hosts that are connected
    HomeCopy,             \* the poll group that a host's requests arrive in
    NumCopies,        \* poll groups, in the order in which they are walked
    ResKeys,          \* non-zero reservation keys
    ResTypes,         \* the reservation types that commands ask for
    SavedFiles,       \* what the persistence file may hold at the start
    MaxRegistrants,   \* SPDK_NVMF_MAX_NUM_REGISTRANTS
    MaxRestarts,      \* bound: power losses
    MaxCommands,      \* bound: reservation commands and Set Features, and one for a file
    NoHost

Copies == 1 .. NumCopies
AnyKey == ResKeys \cup {0}

ASSUME HostsAssumption == NoHost \notin Hosts /\ Clients \subseteq Hosts
ASSUME HomeAssumption == NumCopies \in Nat \ {0} /\ HomeCopy \in [Clients -> Copies]
ASSUME ResKeysAssumption == 0 \notin ResKeys
ASSUME ResTypesAssumption == ResTypes \subseteq 0 .. 6
ASSUME MaxRegistrantsAssumption == MaxRegistrants \in Nat /\ MaxRestarts \in Nat
                                   /\ MaxCommands \in Nat

VARIABLES
    resNs,      \* struct spdk_nvmf_ns: regs, holder, rtype, crkey, ptpl; up
    resCopy,    \* resCopy[g]: the reservation in spdk_nvmf_subsystem_pg_ns_info
    resFile,    \* the persistence file
    resReq,     \* resReq[h]: the host's reservation command
    resTold,    \* the notices that the last handled command sent
    resSeen     \* history: unsaved, lost copies, torn file, crashed, restarts

reservationVars == <<resNs, resCopy, resFile, resReq, resTold, resSeen>>

(* SPDK_NVME_RESERVE_*: 1 write exclusive, 2 exclusive access, 3 and 4 the  *)
(* same for registrants only, 5 and 6 for all registrants.                  *)
ExclusiveTypes == {1, 2}
RegistrantsOnly == {3, 4}
AllRegistrants == {5, 6}

NoFile == [ptpl |-> FALSE, rtype |-> 0, crkey |-> 0, holder |-> NoHost, regs |-> <<>>]
FreshNs == [up |-> TRUE, regs |-> <<>>, holder |-> NoHost, rtype |-> 0, crkey |-> 0,
            ptpl |-> FALSE]
NoCopy == [rtype |-> 0, holder |-> NoHost, regs |-> {}]
NoCommand == [at |-> "idle", kind |-> "register", pos |-> 1]
NoNotices == [by |-> NoHost, to |-> {}]
CommandKinds == {"register", "acquire", "other"}

---------------------------------------------------------------------------
(* The registrants *)

RegHosts(s) == {s.regs[i].host : i \in DOMAIN s.regs}
RegKeys(s) == {s.regs[i].key : i \in DOMAIN s.regs}
HasKey(s, h, k) == \E i \in DOMAIN s.regs : s.regs[i] = [host |-> h, key |-> k]
Others(s, h) == RegHosts(s) \ {h}
ForAllRegs(s) == s.rtype \in AllRegistrants
IsHolder(s, h) == h \in RegHosts(s) /\ (ForAllRegs(s) \/ s.holder = h)

Released(s) == [s EXCEPT !.rtype = 0, !.crkey = 0, !.holder = NoHost]
WithRegistrant(s, h, k) == [s EXCEPT !.regs = Append(@, [host |-> h, key |-> k])]
Rekeyed(s, h, k) ==
    [s EXCEPT !.regs = [i \in DOMAIN @ |-> IF @[i].host = h THEN [@[i] EXCEPT !.key = k]
                                           ELSE @[i]]]

(* nvmf_ns_reservation_get_registrant *)
Position(s, h) == CHOOSE i \in DOMAIN s.regs : s.regs[i].host = h
Removed(s, h) == [s EXCEPT !.regs = RemoveAt(@, Position(s, h))]

(* A slip: the holder that is removed stays the holder. *)
WithoutRegistrantKept(s, h) == Removed(s, h)

(* nvmf_ns_reservation_remove_registrant: the reservation goes with its    *)
(* holder, or to the first of the others if it is for all registrants.     *)
WithoutRegistrant(s, h) ==
    LET t == Removed(s, h)
    IN  CASE s.holder # NoHost /\ ForAllRegs(s) /\ t.regs # <<>> ->
                [t EXCEPT !.holder = t.regs[1].host]
          [] s.holder # NoHost /\ IsHolder(s, h) /\ ~(ForAllRegs(s) /\ t.regs # <<>>) ->
                Released(t)
          [] OTHER -> t

(* Several registrants, in the order of the list. *)
WithoutRegistrants(s, H) ==
    FoldLeft(LAMBDA t, r : IF r.host \in H THEN WithoutRegistrant(t, r.host) ELSE t, s, s.regs)

Keyed(s, k) == {h \in RegHosts(s) : HasKey(s, h, k)}

(* The types of a namespace's fields, and how its registrants, its holder  *)
(* and its type fit together.                                              *)
NamespaceType(s) ==
    s \in [up : BOOLEAN, regs : Seq([host : Hosts, key : ResKeys]), holder : Hosts \cup {NoHost},
           rtype : 0 .. 6, crkey : AnyKey, ptpl : BOOLEAN]
RegistrantsFit(s) ==
    /\ \A i, j \in DOMAIN s.regs : s.regs[i].host = s.regs[j].host => i = j
    /\ s.holder # NoHost => s.holder \in RegHosts(s)
    /\ s.rtype # 0 => s.holder # NoHost
    /\ s.holder = NoHost => s.crkey = 0

---------------------------------------------------------------------------
(* The commands.  Each gives the namespace after it, whether the groups    *)
(* have to be updated, the notices that it sends, and whether its          *)
(* assertions held.                                                        *)

Effect(s, update, notices) == [ns |-> s, update |-> update, to |-> notices, sane |-> TRUE]
Notices(H, type) == H \X {type}

(* What the CPTPL field of a register command does, also when the rest of  *)
(* the command fails.                                                      *)
Persisting(s, cptpl) ==
    [s EXCEPT !.ptpl = CASE cptpl = "clear" -> FALSE
                         [] cptpl = "persist" -> TRUE
                         [] cptpl = "keep" -> @]

RegisterKey(s, h, k, changed) ==
    IF h \notin RegHosts(s) /\ k # 0
    THEN Effect(WithRegistrant(s, h, k), TRUE, {}) ELSE Effect(s, changed, {})

Unregister(s, h, k, iekey, changed) ==
    IF h \in RegHosts(s) /\ (iekey \/ HasKey(s, h, k))
    THEN LET t == WithoutRegistrant(s, h)
         IN  Effect(t, TRUE, IF t.rtype = 0 /\ s.rtype \in RegistrantsOnly
                             THEN Notices(Others(s, h), "released") ELSE {})
    ELSE Effect(s, changed, {})

ReplaceKey(s, h, k, new, iekey, changed) ==
    CASE new # 0 /\ h \in RegHosts(s) /\ (iekey \/ HasKey(s, h, k)) /\ ~HasKey(s, h, new) ->
            Effect(Rekeyed(s, h, new), TRUE, {})
      [] new # 0 /\ h \notin RegHosts(s) /\ iekey -> Effect(WithRegistrant(s, h, new), TRUE, {})
      [] OTHER -> Effect(s, changed, {})

Acquire(s, h, k, type) ==
    IF s.holder = NoHost
    THEN Effect([s EXCEPT !.rtype = type, !.crkey = k, !.holder = h], TRUE, {})
    ELSE Effect(s, FALSE, {})

(* A slip: those to tell are looked for among the remaining registrants.   *)
PreemptNoticesAfter(s, t, h, passed) ==
    Notices(Others(t, h) \ RegHosts(t), "preempted")
        \cup (IF passed THEN Notices(Others(t, h), "released") ELSE {})

(* A preempt command without a holder unregisters whoever has the key and  *)
(* tells nobody.  With one, those that were unregistered are told, and the *)
(* others that the reservation was released, if it has changed hands.      *)
PreemptNotices(s, t, h, passed) ==
    Notices(Others(s, h) \ RegHosts(t), "preempted")
        \cup (IF passed THEN Notices(Others(t, h), "released") ELSE {})

Preempt(s, h, k, pk, type) ==
    LET unregistered == WithoutRegistrants(s, Keyed(s, pk))
        taken == [WithoutRegistrant(s, s.holder)
                    EXCEPT !.rtype = type, !.crkey = k, !.holder = h]
        retyped == [s EXCEPT !.rtype = type]
        alone == WithoutRegistrants(s, Others(s, h))
    IN  CASE s.holder = NoHost -> Effect(unregistered, TRUE, {})
          [] s.holder # NoHost /\ ~ForAllRegs(s) /\ s.crkey = pk /\ s.holder = h ->
                Effect(retyped, TRUE, PreemptNotices(s, retyped, h, TRUE))
          [] s.holder # NoHost /\ ~ForAllRegs(s) /\ s.crkey = pk /\ s.holder # h ->
                [Effect(taken, TRUE, PreemptNotices(s, taken, h, TRUE))
                    EXCEPT !.sane = WithoutRegistrant(s, s.holder).holder = NoHost]
          [] s.holder # NoHost /\ ForAllRegs(s) /\ pk = 0 ->
                [Effect(alone, TRUE, PreemptNotices(s, alone, h, FALSE))
                    EXCEPT !.sane = alone.holder = h]
          [] s.holder # NoHost /\ pk # 0
             /\ (IF ForAllRegs(s) THEN Keyed(s, pk) # {} ELSE s.crkey # pk) ->
                Effect(unregistered, TRUE, PreemptNotices(s, unregistered, h, FALSE))
          [] OTHER -> Effect(s, FALSE, {})

Release(s, h, type) ==
    IF s.holder # NoHost /\ s.rtype = type /\ IsHolder(s, h)
    THEN Effect(Released(s), TRUE,
                IF type \in ExclusiveTypes THEN {} ELSE Notices(Others(s, h), "released"))
    ELSE Effect(s, FALSE, {})

Clear(s, h) ==
    Effect(WithoutRegistrants(s, RegHosts(s)), TRUE,
           Notices(Others(s, h), "reservation preempted"))

RegisterEffects(s, h) ==
    UNION {LET t == Persisting(s, cptpl)
               changed == t.ptpl # s.ptpl
           IN  {RegisterKey(t, h, k, changed) : k \in AnyKey}
               \cup {Unregister(t, h, k, ie, changed) : k \in AnyKey, ie \in BOOLEAN}
               \cup {ReplaceKey(t, h, k, new, ie, changed) :
                       k \in AnyKey, new \in AnyKey, ie \in BOOLEAN}
           : cptpl \in {"keep", "clear", "persist"}}

(* The others have to name the host's key.  An acquire or release command  *)
(* without the data of its key fails, and still walks over the groups.     *)
HolderEffects(s, h, kind) ==
    {Effect(s, update, {}) : update \in BOOLEAN} \cup
    UNION {IF kind = "acquire" THEN {Acquire(s, h, k, type) : type \in ResTypes}
           ELSE {Preempt(s, h, k, pk, type) : pk \in AnyKey, type \in ResTypes}
                \cup {Release(s, h, type) : type \in ResTypes} \cup {Clear(s, h)}
           : k \in {key \in AnyKey : HasKey(s, h, key)}}

Effects(s, h, kind) ==
    IF kind = "register" THEN RegisterEffects(s, h) ELSE HolderEffects(s, h, kind)

---------------------------------------------------------------------------
(* The persistence file *)

(* nvmf_ns_update_reservation_info *)
Image(s) ==
    IF ~s.ptpl THEN NoFile
    ELSE [ptpl |-> TRUE, regs |-> s.regs, rtype |-> s.rtype,
          crkey |-> IF s.rtype = 0 THEN 0 ELSE s.crkey,
          holder |-> IF s.rtype = 0 \/ ForAllRegs(s) THEN NoHost ELSE s.holder]

(* nvmf_ns_reservation_restore refuses a file whose key no registrant has. *)
Restorable(f) ==
    f.ptpl /\ f.regs # <<>> => f.crkey \in {f.regs[i].key : i \in DOMAIN f.regs}

Restored(f) ==
    IF ~f.ptpl \/ f.regs = <<>> THEN FreshNs
    ELSE [up |-> TRUE, regs |-> f.regs, rtype |-> f.rtype, crkey |-> f.crkey, ptpl |-> TRUE,
          holder |-> IF f.rtype \in AllRegistrants THEN f.regs[1].host ELSE f.holder]

(* What the file of a namespace whose registrants fit together may hold.   *)
FitFile(f) ==
    /\ f \in {Image(Restored(f)), [NoFile EXCEPT !.ptpl = TRUE]}
    /\ NamespaceType(Restored(f)) /\ RegistrantsFit(Restored(f))

ASSUME SavedFilesAssumption == \A f \in SavedFiles : Restorable(f) /\ FitFile(f)

---------------------------------------------------------------------------
(* The poll groups *)

ResUp == resNs.up /\ ~resSeen.crashed

(* poll_group_update_subsystem: a copy's holder_id outlives the holder. *)
CopyOf(s, old) ==
    [rtype |-> s.rtype, regs |-> RegHosts(s),
     holder |-> IF s.holder = NoHost THEN old.holder ELSE s.holder]

(* The namespace is added with its persistence file: spdk_nvmf_subsystem_add_ns_ext. *)
ReservationInit ==
    /\ resFile \in SavedFiles
    /\ resNs = Restored(resFile)
    /\ resCopy = [g \in Copies |-> CopyOf(resNs, NoCopy)]
    /\ resReq = [h \in Clients |-> NoCommand]
    /\ resTold = NoNotices
    /\ resSeen = [unsaved |-> FALSE, lost |-> FALSE, torn |-> FALSE, crashed |-> FALSE,
                  restarts |-> 0, commands |-> IF resFile = NoFile THEN 0 ELSE 1]

(* nvmf_ns_reservation_request_check *)
Refuses(c, h, kind) ==
    /\ c.rtype # 0
    /\ ~(c.rtype \in AllRegistrants /\ h \in c.regs)
    /\ c.holder # h
    /\ \/ kind = "read" /\ (c.rtype = 2 \/ (c.rtype \in {4, 6} /\ h \notin c.regs))
       \/ kind = "write" /\ (c.rtype \in ExclusiveTypes \/ h \notin c.regs)
       \/ kind = "acquire"
       \/ kind = "other" /\ h \notin c.regs

(* nvmf_ctrlr_process_io_cmd: a command that is refused is answered.  *)
SubmitCommand(h, kind) ==
    /\ ResUp
    /\ resReq[h].at = "idle"
    /\ resSeen.commands < MaxCommands
    /\ ~Refuses(resCopy[HomeCopy[h]], h, kind)
    /\ resReq' = [resReq EXCEPT ![h] = [at |-> "sent", kind |-> kind, pos |-> 1]]
    /\ resTold' = NoNotices
    /\ resSeen' = [resSeen EXCEPT !.commands = @ + 1]
    /\ UNCHANGED <<resNs, resCopy, resFile>>

(* nvmf_ns_reservation_request.  A file that cannot be written is left as  *)
(* it was or cut short; without memory for the walk the command is         *)
(* answered at once.                                                       *)
HandleCommand(h) ==
    /\ ResUp
    /\ resReq[h].at = "sent"
    /\ \E e \in Effects(resNs, h, resReq[h].kind), written \in BOOLEAN, walks \in BOOLEAN :
         LET writes == e.update /\ (resReq[h].kind = "register" \/ e.ns.ptpl)
         IN  /\ ~written => writes
             /\ ~walks => e.update
             /\ resNs' = e.ns
             /\ resTold' = [by |-> h, to |-> e.to]
             /\ IF ~writes THEN UNCHANGED resFile
                ELSE resFile' \in IF written THEN {Image(e.ns)} ELSE {resFile, NoFile}
             /\ resReq' = [resReq EXCEPT ![h] =
                   IF e.update /\ walks THEN [@ EXCEPT !.at = "walking"] ELSE NoCommand]
             /\ resSeen' = [resSeen EXCEPT
                   !.unsaved = IF writes THEN ~written ELSE @,
                   !.lost = IF ~walks THEN TRUE ELSE @,
                   !.crashed = \/ ~e.sane
                               \/ writes /\ Len(e.ns.regs) > MaxRegistrants
                               \/ writes /\ e.ns.rtype \notin AllRegistrants \cup {0}
                                         /\ e.ns.holder = NoHost]
    /\ UNCHANGED resCopy

(* subsystem_update_ns_on_pg; after the last group the command is answered. *)
UpdateCopy(h) ==
    LET g == resReq[h].pos
    IN  /\ ResUp
        /\ resReq[h].at = "walking"
        /\ resCopy' = [resCopy EXCEPT ![g] = CopyOf(resNs, @)]
        /\ resReq' = [resReq EXCEPT ![h] = IF g = NumCopies THEN NoCommand
                                           ELSE [@ EXCEPT !.pos = g + 1]]
        /\ resTold' = NoNotices
        /\ UNCHANGED <<resNs, resFile, resSeen>>

(* Set Features, Reservation Persistence: the file is not written. *)
SetPersistence(on) ==
    /\ ResUp
    /\ resNs.ptpl # on
    /\ resSeen.commands < MaxCommands
    /\ resNs' = [resNs EXCEPT !.ptpl = on]
    /\ resSeen' = [resSeen EXCEPT !.unsaved = TRUE, !.commands = @ + 1]
    /\ resTold' = NoNotices
    /\ UNCHANGED <<resCopy, resFile, resReq>>

(* The target is started again and the namespace added, from file f. *)
RestartFrom(f) ==
    /\ resSeen.restarts < MaxRestarts
    /\ resFile' = f
    /\ resNs' = IF Restorable(f) THEN Restored(f) ELSE [FreshNs EXCEPT !.up = FALSE]
    /\ resCopy' = [g \in Copies |-> IF Restorable(f) THEN CopyOf(resNs', NoCopy) ELSE NoCopy]
    /\ resReq' = [h \in Clients |-> NoCommand]
    /\ resTold' = NoNotices

PowerLoss ==
    /\ ResUp
    /\ RestartFrom(resFile)
    /\ resSeen' = [resSeen EXCEPT !.restarts = @ + 1, !.lost = FALSE, !.unsaved = FALSE]

(* The power fails while the file is being rewritten in place. *)
PowerLossInWrite(h) ==
    /\ ResUp
    /\ resReq[h].at = "sent"
    /\ \E e \in Effects(resNs, h, resReq[h].kind) :
         e.update /\ (resReq[h].kind = "register" \/ e.ns.ptpl)
    /\ RestartFrom(NoFile)
    /\ resSeen' = [resSeen EXCEPT !.restarts = @ + 1, !.torn = TRUE, !.lost = FALSE,
                                  !.unsaved = FALSE]

ReservationNext ==
    \/ \E h \in Clients : \/ \E kind \in CommandKinds : SubmitCommand(h, kind)
                        \/ HandleCommand(h) \/ UpdateCopy(h) \/ PowerLossInWrite(h)
    \/ \E on \in BOOLEAN : SetPersistence(on)
    \/ PowerLoss

ReservationSpec == ReservationInit /\ [][ReservationNext]_reservationVars

---------------------------------------------------------------------------
(* Properties *)

(* The variables keep their types. *)
ReservationTypeOK ==
    /\ NamespaceType(resNs)
    /\ resCopy \in [Copies -> [rtype : 0 .. 6, holder : Hosts \cup {NoHost}, regs : SUBSET Hosts]]
    /\ resReq \in [Clients -> [at : {"idle", "sent", "walking"}, kind : CommandKinds, pos : Copies]]
    /\ resTold.to \subseteq Hosts \X {"released", "preempted", "reservation preempted"}

(* Whatever sequence of commands the hosts send, a host is registered at   *)
(* most once, the holder is a registrant, a reservation has a holder and   *)
(* the assertions of the code hold.  More registrants than the arrays hold *)
(* end the process.                                                        *)
ReservationSound ==
    /\ RegistrantsFit(resNs)
    /\ resSeen.crashed => Len(resNs.regs) > MaxRegistrants

(* What the NVMe reservation types mean, for the reservation in s. *)
MayWrite(s, h) ==
    s.rtype = 0 \/ IsHolder(s, h) \/ (s.rtype \notin ExclusiveTypes /\ h \in RegHosts(s))
MayRead(s, h) ==
    s.rtype \in {0, 1, 3, 5} \/ IsHolder(s, h) \/ (s.rtype # 2 /\ h \in RegHosts(s))

(* A group that has no update of its copy ahead of it lets exactly the     *)
(* reads and writes pass that the reservation allows: once a command is    *)
(* answered it is enforced in every group, also when several commands are  *)
(* under way.  Exception: an update that was given up for want of memory.  *)
AnsweredIsEnforced ==
    ResUp => \A g \in Copies :
        \/ resSeen.lost
        \/ \E h \in Clients : resReq[h].at = "walking" /\ resReq[h].pos <= g
        \/ \A h \in Hosts : /\ Refuses(resCopy[g], h, "write") <=> ~MayWrite(resNs, h)
                            /\ Refuses(resCopy[g], h, "read") <=> ~MayRead(resNs, h)

(* The registrants, the holder and the type fit together, and every poll   *)
(* group lets through the reads and writes that they allow.                *)
ReservationEnforced == ReservationSound /\ AnsweredIsEnforced

(* A host that loses its registration by the command of another is told.   *)
(* Exception: a preempt command while there is no reservation.             *)
LosersAreTold ==
    resTold' # NoNotices =>
        \A h \in RegHosts(resNs) \ (RegHosts(resNs') \cup {resTold'.by}) :
            resNs.holder = NoHost \/ \E type \in {"preempted", "reservation preempted"} :
                                        <<h, type>> \in resTold'.to

(* What persists over a power loss is the reservation as it was, if it was *)
(* to persist and nothing otherwise.  Exceptions: Set Features does not    *)
(* write the file, nor does a write that fails or is cut short; and the    *)
(* namespace cannot be added again when there are registrants without a    *)
(* reservation, or when the holder has replaced its key.                   *)
KeptOverPowerLoss ==
    resSeen'.restarts # resSeen.restarts /\ ~resSeen.unsaved /\ ~resSeen'.torn =>
        CASE ~resNs.ptpl -> resNs' = FreshNs
          [] resNs.ptpl /\ resNs.regs = <<>> -> resNs' = FreshNs
          [] resNs.ptpl /\ resNs.regs # <<>>
             /\ (resNs.rtype = 0 \/ resNs.crkey \notin RegKeys(resNs)) -> ~resNs'.up
          [] OTHER -> /\ resNs'.regs = resNs.regs
                      /\ resNs'.rtype = resNs.rtype
                      /\ resNs'.crkey = resNs.crkey
                      /\ \A h \in Hosts : IsHolder(resNs', h) <=> IsHolder(resNs, h)

(* What a command and a power loss may do to the reservation.              *)
ReservationSteps == [][LosersAreTold /\ KeptOverPowerLoss]_reservationVars
=============================================================================
