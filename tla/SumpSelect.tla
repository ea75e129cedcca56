------------------------------ MODULE SumpSelect ------------------------------
(***************************************************************************)
(* The path selectors of src/sump_ctrl.c, as operators on the channel's    *)
(* iopath_list.  Paths are named by their id: the list is built in id      *)
(* order, so the paths of a channel are 0 .. n-1, n its max_id, and list   *)
(* order is numeric order (SumpRegistry checks this).  av[p] is            *)
(* iopath->available.                                                      *)
(*                                                                         *)
(* ump_bdev_find_iopath dispatches to the hash selector; the others are    *)
(* the alternatives its comments keep.                                     *)
(***************************************************************************)
EXTENDS Integers

(* The NULL that a selector returns when it finds no path. *)
NoPath == -1

PathIds(n) == 0 .. n-1

AvailablePaths(n, av) == {p \in PathIds(n) : av[p]}

(* Slip: the position where the search for an available path ends, found   *)
(* or not.                                                                 *)
FirstAvailableUnchecked(n, av) ==
    CHOOSE p \in 0 .. n : (p = n \/ av[p]) /\ \A q \in 0 .. p-1 : ~av[q]

(* TAILQ_FOREACH ... if (iopath->available) return iopath. *)
FirstAvailable(n, av) ==
    IF AvailablePaths(n, av) = {} THEN NoPath
    ELSE CHOOSE p \in AvailablePaths(n, av) :
            \A q \in AvailablePaths(n, av) : p <= q

(* Slip: no second loop over the list when the hashed path is unavailable. *)
HashPathOnly(n, av, r) ==
    LET chosen == (r.offset \div r.num) % n
    IN  IF av[chosen] THEN chosen ELSE NoPath

(* ump_find_iopath_hash, for a request of r.num > 0 blocks at r.offset. *)
HashPath(n, av, r) ==
    LET chosen == (r.offset \div r.num) % n
    IN  IF av[chosen] THEN chosen ELSE FirstAvailable(n, av)

(* Slips: the turn is never set back, or to the path chosen.               *)
RoundRobinUnbounded(n, av, turn) ==
    IF turn \in PathIds(n) /\ av[turn]
    THEN [path |-> turn, turn |-> turn + 1]
    ELSE [path |-> FirstAvailable(n, av), turn |-> turn + 1]

RoundRobinTwice(n, av, turn) ==
    IF turn \in PathIds(n) /\ av[turn]
    THEN [path |-> turn, turn |-> turn + 1]
    ELSE [path |-> FirstAvailable(n, av), turn |-> FirstAvailable(n, av)]

(* ump_find_iopath_round_robin: the chosen path and the new value of the   *)
(* static "turn", which every channel of the process shares.  Its result   *)
(* when no path is available is undefined (the function falls off its      *)
(* end), so callers require one.                                           *)
RoundRobin(n, av, turn) ==
    IF turn \in PathIds(n) /\ av[turn]
    THEN [path |-> turn, turn |-> turn + 1]
    ELSE [path |-> FirstAvailable(n, av), turn |-> FirstAvailable(n, av) + 1]

(* ump_find_iopath_service_time and _queue_length: the first of the        *)
(* available paths whose cost (io_time_avg, io_incomplete) is least.       *)
CheapestPath(n, av, cost) ==
    LET cheapest == {p \in AvailablePaths(n, av) :
                        \A q \in AvailablePaths(n, av) : cost[p] <= cost[q]}
    IN  CHOOSE p \in cheapest : \A q \in cheapest : p <= q

(* ump_find_iopath_random: draws ids until one is an available path's.     *)
RandomPaths(n, av) == AvailablePaths(n, av)

(* ump_find_iopath_random_weight_static: the id drawn for k in             *)
(* 0 .. 4n-1, where k/4n is compared with the sums of 0.5, 0.2, 0.2, 0.1.  *)
WeightedId(n, k) ==
    IF 10 * k < 20 * n THEN 0
    ELSE IF 10 * k < 28 * n THEN 1
    ELSE IF 10 * k < 36 * n THEN 2 ELSE 3

(* The draws that end the loop of the weighted selector: none does when no *)
(* available path has a drawable id, and the loop then never ends.         *)
WeightedPaths(n, av) ==
    {p \in AvailablePaths(n, av) : \E k \in 0 .. 4*n - 1 : WeightedId(n, k) = p}
===============================================================================
