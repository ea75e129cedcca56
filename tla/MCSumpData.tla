------------------------------ MODULE MCSumpData ------------------------------
(* SumpData for model checking: the requests of the runs.                  *)
EXTENDS SumpData, TLC

(* Good requests that hash to path 0 and to path 1. *)
GoodRequests == {[offset |-> o, num |-> 1, bad |-> FALSE] : o \in 0 .. 1}

(* Also one that no path can serve, and one without blocks. *)
AllRequests ==
    GoodRequests \cup {[offset |-> 1, num |-> 1, bad |-> TRUE], [offset |-> 0, num |-> 0, bad |-> FALSE]}

Symmetry == Permutations(Ios)
===============================================================================
