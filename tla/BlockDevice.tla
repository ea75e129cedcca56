------------------------------ MODULE BlockDevice ------------------------------
(***************************************************************************)
(* What an aggregated ump bdev does for the layer above it, paths and      *)
(* handlers left out.  Each I/O slot writes its buffer to an extent of the *)
(* disk and is answered once.  Because failback probes are copies of       *)
(* failed I/Os, a slot that failed on a path may have its buffer, as it is *)
(* by then, written again to the extent it failed on.                      *)
(***************************************************************************)
EXTENDS Naturals

CONSTANTS Slots, Extents, Versions \* Versions: the contents a buffer can have

VARIABLES
    status, \* of each slot: idle or pending
    at,     \* the extent it writes
    buffer, \* the version its buffer holds
    disk,   \* the version each extent holds
    failed  \* slots and extents of transfers that failed on some path

vars == <<status, at, buffer, disk, failed>>

Init ==
    /\ status = [s \in Slots |-> "idle"]
    /\ at \in [Slots -> Extents]
    /\ buffer \in [Slots -> Versions]
    /\ disk \in [Extents -> Versions]
    /\ failed = {}

(* The upper layer fills the slot's buffer and submits it. *)
Write(s, e) ==
    /\ status[s] = "idle"
    /\ status' = [status EXCEPT ![s] = "pending"]
    /\ at' = [at EXCEPT ![s] = e]
    /\ \E v \in Versions : buffer' = [buffer EXCEPT ![s] = v]
    /\ UNCHANGED <<disk, failed>>

(* The write is on the disk and answered. *)
Answer(s) ==
    /\ status[s] = "pending"
    /\ status' = [status EXCEPT ![s] = "idle"]
    /\ disk' = [disk EXCEPT ![at[s]] = buffer[s]]
    /\ UNCHANGED <<at, buffer, failed>>

(* A transfer fails; the device may have done it nevertheless. *)
FailTransfer(s) ==
    /\ status[s] = "pending"
    /\ failed' = failed \cup {<<s, at[s]>>}
    /\ disk' \in {disk, [disk EXCEPT ![at[s]] = buffer[s]]}
    /\ UNCHANGED <<status, at, buffer>>

(* A failed transfer is executed again. *)
Replay(s, e) ==
    /\ <<s, e>> \in failed
    /\ disk' = [disk EXCEPT ![e] = buffer[s]]
    /\ UNCHANGED <<status, at, buffer, failed>>

Next ==
    \E s \in Slots :
        \/ Answer(s) \/ FailTransfer(s)
        \/ \E e \in Extents : Write(s, e) \/ Replay(s, e)

Spec == Init /\ [][Next]_vars
================================================================================
