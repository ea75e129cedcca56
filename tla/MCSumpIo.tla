------------------------------- MODULE MCSumpIo -------------------------------
(* SumpIo for model checking: the requests of the runs.                    *)
EXTENDS SumpIo

(* Good requests that hash to path 0 and to path 1. *)
GoodRequests == {[offset |-> o, num |-> 1, bad |-> FALSE] : o \in 0 .. 1}
===============================================================================
