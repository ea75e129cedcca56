------------------------------- MODULE SumpData -------------------------------
(***************************************************************************)
(* SumpIo with what its I/Os do to the disk: every request is a write of   *)
(* the I/O's buffer, and the failback probe writes too, for it is a memcpy *)
(* of a failed bdev_io whose iovs still point at that I/O's buffer.        *)
(***************************************************************************)
EXTENDS SumpIo

CONSTANT MaxWrites \* bound: submissions of the upper layer
ASSUME MaxWritesAssumption == MaxWrites \in Nat

VARIABLES
    buffer,  \* the version in the buffer of each I/O
    disk,    \* the version each extent holds
    written, \* versions handed out so far
    acked,   \* history: the last version acknowledged for each extent
    failed,  \* history: I/Os and extents of the transfers that failed
    replayed \* history: a probe was executed

dataVars == <<buffer, disk, written, acked, failed, replayed>>
allVars == <<vars, dataVars>>

Extents == {r.offset : r \in Requests} \cup {NoRequest.offset}

DataInit ==
    /\ Init
    /\ buffer = [i \in Ios |-> 0]
    /\ disk = [e \in Extents |-> 0]
    /\ written = 0
    /\ acked = [e \in Extents |-> 0]
    /\ failed = {}
    /\ replayed = FALSE

Written(i) == [disk EXCEPT ![request[i].offset] = buffer[i]]

(* The upper layer reuses the buffer of an I/O that has completed. *)
DataSubmit(i) ==
    /\ written < MaxWrites
    /\ Submit(i)
    /\ written' = written + 1
    /\ buffer' = [buffer EXCEPT ![i] = written + 1]
    /\ UNCHANGED <<disk, acked, failed, replayed>>

DataCompleteOk(i) ==
    /\ CompleteOk(i)
    /\ disk' = Written(i)
    /\ acked' = [acked EXCEPT ![request[i].offset] = buffer[i]]
    /\ UNCHANGED <<buffer, written, failed, replayed>>

(* A command that fails may have been executed. *)
DataCompleteFail(i) ==
    /\ CompleteFail(i) \/ CompleteFailWithoutFailback(i)
    /\ disk' \in {disk, Written(i)}
    /\ failed' = failed \cup {<<i, request[i].offset>>}
    /\ UNCHANGED <<buffer, written, acked, replayed>>

(* The probe writes what is now in the buffer its iovs point at. *)
DataProbe(p) ==
    LET probe == failback[p]
        replay == [disk EXCEPT ![probe.request.offset] = buffer[probe.io]]
    IN  /\ \/ ProbeOk(p) /\ disk' = replay
           \/ ProbeFail(p) /\ disk' \in {disk, replay}
        /\ replayed' = (replayed \/ disk' = replay)
        /\ UNCHANGED <<buffer, written, acked, failed>>

DataNext ==
    \/ \E i \in Ios : DataSubmit(i) \/ DataCompleteOk(i) \/ DataCompleteFail(i)
    \/ \E p \in Paths : DataProbe(p) \/ (FailbackPoll(p) /\ UNCHANGED dataVars)
    \/ DestroyChannel /\ UNCHANGED dataVars

DataSpec == DataInit /\ [][DataNext]_allVars

-------------------------------------------------------------------------------
(* The data variables hold values of their kinds.                          *)
DataTypeOK ==
    /\ TypeOK
    /\ buffer \in [Ios -> 0 .. MaxWrites]
    /\ disk \in [Extents -> 0 .. MaxWrites]
    /\ written \in 0 .. MaxWrites
    /\ acked \in [Extents -> 0 .. MaxWrites]
    /\ failed \subseteq Ios \X Extents
    /\ replayed \in BOOLEAN

Quiet(e) == \A i \in Ios : owed[i] > 0 => request[i].offset # e

(* Failing over repeats a write, but never past its acknowledgement: while *)
(* no probe has been executed, an extent nobody is writing holds the       *)
(* version acknowledged last.                                              *)
CurrentUnlessReplayed ==
    ~replayed => \A e \in Extents : Quiet(e) => disk[e] = acked[e]

(* The probe only tries whether the path has reconnected (the comment of   *)
(* sump_ctrl.c:516): an extent nobody is writing holds the version         *)
(* acknowledged last, probes or not.                                       *)
ProbesLeaveData ==
    \A e \in Extents : Quiet(e) => disk[e] = acked[e]

(* The abstract device: a slot is pending while its I/O is owed.           *)
Device == INSTANCE BlockDevice WITH
    Slots <- Ios, Versions <- 0 .. MaxWrites,
    status <- [i \in Ios |-> IF owed[i] = 0 THEN "idle" ELSE "pending"],
    at <- [i \in Ios |-> request[i].offset]

(* The channel implements the abstract device: one answer for each write,  *)
(* after it is on the disk, and no other effect than those replays.        *)
DeviceSpec == Device!Spec
===============================================================================
