------------------------------ MODULE SumpBalance ------------------------------
(***************************************************************************)
(* The load statistics of one ump_bdev_channel and the selectors that read *)
(* them (src/sump_ctrl.c): the round-robin turn, io_incomplete, and the    *)
(* latency queues with their window and their periodic reset.  The policy  *)
(* is the selector that ump_bdev_find_iopath is built with.  The turn is   *)
(* a static of the process: other channels move it, too.                   *)
(*                                                                         *)
(* At least one path is available throughout; SumpIo has the other case.   *)
(***************************************************************************)
EXTENDS SumpSelect, Sequences, Functions

CONSTANTS
    NumPaths,
    OtherPaths, \* most paths of another channel
    Policies,   \* selectors to consider
    Offsets,    \* offset_blocks of the requests; num_blocks is 1
    Latencies,  \* ticks an I/O may take
    Window,     \* latencies a queue remembers: 20 in the code
    CounterMod, \* io_incomplete wraps at this: 2^64 in the code
    MaxIos,     \* bound: I/Os submitted
    MaxFailures \* bound: failures of one path

AllPolicies == {"hash", "round_robin", "service_time", "queue_length", "random", "weighted"}
Kinds == {"read", "write"}
Paths == PathIds(NumPaths)

ASSUME NumPathsAssumption == NumPaths \in 1 .. 4
ASSUME OtherPathsAssumption == OtherPaths \in Nat
ASSUME PoliciesAssumption == Policies \subseteq AllPolicies
ASSUME OffsetsAssumption == Offsets \subseteq Nat
ASSUME LatenciesAssumption == Latencies \subseteq Nat
ASSUME WindowAssumption == Window \in Nat \ {0}
ASSUME CounterModAssumption == CounterMod \in Nat \ {0}
ASSUME MaxIosAssumption == MaxIos \in Nat
ASSUME MaxFailuresAssumption == MaxFailures \in Nat

VARIABLES
    policy,        \* the selector in use
    available,
    turn,          \* the static of the round-robin selector
    waits,         \* history: for how many choices round robin passed each path by
    io_incomplete, \* of each path
    times,         \* of each path and kind, its time_queue
    inflight,      \* of each path and kind, the I/Os out on it
    submitted,     \* I/Os submitted so far
    completed,     \* history: successes of each path
    failed         \* history: failures of each path

balanceVars == <<policy, available, turn, waits, io_incomplete, times, inflight,
          submitted, completed, failed>>

(* struct time_queue and ump_time_queue_init; the elements a reset drops   *)
(* are leaked, not kept.                                                   *)
EmptyQueue == [list |-> <<>>, len |-> 0, all |-> 0, avg |-> 0]

(* Slip: the window is one too large.                                      *)
RecordOneMore(q, time) ==
    LET list == Append(q.list, time)
        all == q.all + time
    IN  IF q.len <= Window
        THEN [list |-> list, len |-> q.len + 1, all |-> all, avg |-> all \div (q.len + 1)]
        ELSE [list |-> Tail(list), len |-> q.len,
              all |-> all - Head(list), avg |-> (all - Head(list)) \div q.len]

(* update_io_time_detail.                                                  *)
Record(q, time) ==
    LET list == Append(q.list, time)
        all == q.all + time
    IN  IF q.len < Window
        THEN [list |-> list, len |-> q.len + 1, all |-> all, avg |-> all \div (q.len + 1)]
        ELSE [list |-> Tail(list), len |-> q.len,
              all |-> all - Head(list), avg |-> (all - Head(list)) \div q.len]

BalanceInit ==
    /\ policy \in Policies
    /\ available = [p \in Paths |-> TRUE]
    /\ turn = 0
    /\ waits = [p \in Paths |-> 0]
    /\ io_incomplete = [p \in Paths |-> 0]
    /\ times = [p \in Paths |-> [k \in Kinds |-> EmptyQueue]]
    /\ inflight = [p \in Paths |-> [k \in Kinds |-> 0]]
    /\ submitted = 0
    /\ completed = [p \in Paths |-> 0]
    /\ failed = [p \in Paths |-> 0]

(* The paths a selector may choose, given the availability av.             *)
Selectable(av, kind, offset) ==
    CASE policy = "hash" -> {HashPath(NumPaths, av, [offset |-> offset, num |-> 1])}
      [] policy = "round_robin" -> {RoundRobin(NumPaths, av, turn).path}
      [] policy = "service_time" ->
            {CheapestPath(NumPaths, av, [p \in Paths |-> times[p][kind].avg])}
      [] policy = "queue_length" -> {CheapestPath(NumPaths, av, io_incomplete)}
      [] policy = "random" -> RandomPaths(NumPaths, av)
      [] policy = "weighted" -> WeightedPaths(NumPaths, av)

(* A path before p is out of service, and an available one before that.    *)
BehindGap(p, av) == \E q \in 0 .. p-1 : ~av[q] /\ \E r \in 0 .. q-1 : av[r]

(* The available paths that were passed by when p was chosen have waited.  *)
Waited(p, av) ==
    [q \in Paths |-> IF q = p \/ ~av[q] \/ BehindGap(q, av) THEN 0 ELSE waits[q] + 1]

(* The turn moves on, and with it the wait of the paths passed by.         *)
TakeTurn(p, av) ==
    IF policy = "round_robin"
    THEN turn' = RoundRobin(NumPaths, av, turn).turn /\ waits' = Waited(p, av)
    ELSE UNCHANGED <<turn, waits>>

(* Slip: the queue-length selector does not count the I/O it places.       *)
DispatchUncounted(p, av, kind, out) ==
    /\ TakeTurn(p, av)
    /\ inflight' = [out EXCEPT ![p][kind] = @ + 1]
    /\ UNCHANGED io_incomplete

(* What choosing path p changes: round robin its turn, queue length the    *)
(* count of the path.  out is inflight, less the I/O that is moved.        *)
Dispatch(p, av, kind, out) ==
    /\ TakeTurn(p, av)
    /\ io_incomplete' = IF policy = "queue_length"
                        THEN [io_incomplete EXCEPT ![p] = (@ + 1) % CounterMod]
                        ELSE io_incomplete
    /\ inflight' = [out EXCEPT ![p][kind] = @ + 1]

(* Another channel, with any paths available, takes a turn.                *)
OtherDispatch ==
    /\ policy = "round_robin"
    /\ \E n \in 1 .. OtherPaths : \E av \in [PathIds(n) -> BOOLEAN] :
          /\ AvailablePaths(n, av) # {}
          /\ turn' = RoundRobin(n, av, turn).turn
    /\ waits' = [p \in Paths |-> 0]
    /\ UNCHANGED <<policy, available, io_incomplete, times, inflight, submitted, completed, failed>>

Submit(kind, offset) ==
    /\ submitted < MaxIos
    /\ submitted' = submitted + 1
    /\ \E p \in Selectable(available, kind, offset) : Dispatch(p, available, kind, inflight)
    /\ UNCHANGED <<policy, available, times, completed, failed>>

(* ump_bdev_io_completion_cb, success: the latency is recorded unless its  *)
(* element cannot be allocated, and io_incomplete is decremented whatever  *)
(* the policy.                                                             *)
CompleteOk(p, kind, latency) ==
    /\ inflight[p][kind] > 0
    /\ inflight' = [inflight EXCEPT ![p][kind] = @ - 1]
    /\ \/ times' = [times EXCEPT ![p][kind] = Record(@, latency)]
       \/ UNCHANGED times
    /\ io_incomplete' = [io_incomplete EXCEPT ![p] = (@ - 1) % CounterMod]
    /\ completed' = [completed EXCEPT ![p] = @ + 1]
    /\ UNCHANGED <<policy, available, turn, waits, submitted, failed>>

(* The same, failure: the path is marked and the I/O dispatched again.     *)
CompleteFail(p, kind, offset) ==
    LET marked == [available EXCEPT ![p] = FALSE]
    IN  /\ inflight[p][kind] > 0
        /\ failed[p] < MaxFailures
        /\ AvailablePaths(NumPaths, marked) # {}
        /\ available' = marked
        /\ failed' = [failed EXCEPT ![p] = @ + 1]
        /\ \E q \in Selectable(marked, kind, offset) :
              Dispatch(q, marked, kind, [inflight EXCEPT ![p][kind] = @ - 1])
        /\ UNCHANGED <<policy, times, submitted, completed>>

(* ump_failback_io_completion_cb, success.                                 *)
Failback(p) ==
    /\ ~available[p]
    /\ available' = [available EXCEPT ![p] = TRUE]
    /\ UNCHANGED <<policy, turn, waits, io_incomplete, times, inflight, submitted, completed, failed>>

(* ump_io_count_fn, every second.                                          *)
ResetTimes ==
    /\ times' = [p \in Paths |-> [k \in Kinds |-> EmptyQueue]]
    /\ UNCHANGED <<policy, available, turn, waits, io_incomplete, inflight, submitted, completed, failed>>

BalanceNext ==
    \/ \E kind \in Kinds, offset \in Offsets :
        \/ Submit(kind, offset)
        \/ \E p \in Paths : CompleteFail(p, kind, offset)
    \/ \E p \in Paths :
        \/ Failback(p)
        \/ \E kind \in Kinds, latency \in Latencies : CompleteOk(p, kind, latency)
    \/ ResetTimes
    \/ OtherDispatch

BalanceSpec == BalanceInit /\ [][BalanceNext]_balanceVars

-------------------------------------------------------------------------------
Outstanding(p) == inflight[p]["read"] + inflight[p]["write"]

(* Every variable holds a value of its kind.                               *)
BalanceTypeOK ==
    /\ policy \in Policies
    /\ available \in [Paths -> BOOLEAN]
    /\ turn \in Nat /\ (turn <= NumPaths \/ turn <= OtherPaths)
    /\ waits \in [Paths -> Nat]
    /\ io_incomplete \in [Paths -> 0 .. CounterMod - 1]
    /\ inflight \in [Paths -> [Kinds -> 0 .. MaxIos]]
    /\ submitted \in 0 .. MaxIos
    /\ completed \in [Paths -> Nat]
    /\ failed \in [Paths -> 0 .. MaxFailures]

(* Through additions, evictions and resets, a latency queue's counters     *)
(* describe its list, the list fits the window, and the average is of it.  *)
QueuesDescribeTheirLists ==
    \A p \in Paths, k \in Kinds :
        LET q == times[p][k]
        IN  /\ q.len = Len(q.list) /\ q.len <= Window
            /\ q.all = SumFunction(q.list)
            /\ q.len > 0 => q.avg = q.all \div q.len

(* The comment of sump.h:226: io_incomplete is the number of a path's I/Os *)
(* that are not completed.                                                 *)
IncompleteCounts == \A p \in Paths : io_incomplete[p] = Outstanding(p)

(* What it counts instead: under the queue-length policy also every I/O    *)
(* that ever failed on the path; under any other policy the successes,     *)
(* downwards from zero with wrap-around.                                   *)
IncompleteAccounting ==
    \A p \in Paths :
        io_incomplete[p] = (IF policy = "queue_length" THEN Outstanding(p) + failed[p]
                            ELSE 0 - completed[p]) % CounterMod

ChosenFor(p) ==
    Outstanding(p)' = Outstanding(p) + 1 /\ submitted' = submitted + 1

(* While no path has failed, the queue-length policy sends an I/O to a     *)
(* path with the fewest I/Os out on it.                                    *)
QueueLengthBalances ==
    [][\A p, q \in Paths :
        policy = "queue_length" /\ failed = [r \in Paths |-> 0] /\ ChosenFor(p)
            => Outstanding(p) <= Outstanding(q)]_balanceVars

(* Round robin passes a path by for less than a round of its channel's     *)
(* choices, wherever failures, recoveries and other channels left the      *)
(* turn, but for the two ways in which it starves one: a path out of       *)
(* service between available ones, at which the turn is set back           *)
(* (sump_ctrl.c:107), and other channels that move the turn in between     *)
(* (sump_ctrl.c:89).                                                       *)
RoundRobinReachesAll == \A p \in Paths : waits[p] < NumPaths
===============================================================================
