------------------------------ MODULE NvmeProofs ------------------------------
(***************************************************************************)
(* Proofs about the NVMe bdev module: for a controller one reset at a time *)
(* and no walk lost, for every number of threads, namespaces, reset I/Os   *)
(* and tokens; for the discovery client what it knows and why it fails,    *)
(* for every set of services and paths; for a channel of a multipath bdev  *)
(* its list of retries, its cached path and the answers of its I/Os, for   *)
(* every set of namespaces and I/Os.                                       *)
(***************************************************************************)
EXTENDS MCNvme, SumFacts

(* The fields that the mutex of the controller protects. *)
CtrlrType == [destruct : BOOLEAN, resetting : BOOLEAN, delayed : BOOLEAN,
              started : BOOLEAN, clearing : BOOLEAN, updating : BOOLEAN,
              ref : Int, attached : BOOLEAN, unregisters : Int, deleted : BOOLEAN,
              asserted : BOOLEAN]

(* What the steps of a chain need to know of the types; ref could be any
   integer here: that it counts users is another matter. *)
Shape ==
    /\ opts \in OptionsType
    /\ ctrlr \in CtrlrType
    /\ task \in [Sequences -> TaskType]
    /\ qpair \in [Threads -> {"none", "null", "live"}]
    /\ iter \in [Threads -> Sequences \cup {None}]

(* reset_start_tsc is set while a chain runs, and without a reset flag
   only between a failed reset and its reconnect. *)
StartedWhileActive ==
    /\ Active # {} => ctrlr.started
    /\ ctrlr.started /\ ~ctrlr.resetting /\ ~ctrlr.destruct => opts.delay

(* Only a channel whose qpair still has to disconnect holds a walk. *)
WaitedQpairIsLive == \A t \in Threads : iter[t] # None => qpair[t] = "live"

(* The walk of a parked chain stands at a thread. *)
ParkedAtThread == \A s \in Sequences : task[s].fn = "parked" => task[s].at \in Threads

IndInv ==
    /\ Shape
    /\ StartedWhileActive
    /\ WaitedQpairIsLive
    /\ ParkedAtThread
    /\ OneResetAtATime
    /\ ParkedIsContinued

---------------------------------------------------------------------------
(* The walks *)

(* spdk_for_each_channel goes to a thread or to its completion. *)
LEMMA NextThreadRange ==
    ASSUME NEW t
    PROVE  NextThread(t) \in 1 .. End
<1> DEFINE S == {u \in Threads : u > t /\ HasChannel(u)} \cup {End}
<1>1. End \in S /\ S \subseteq 1 .. End /\ S \subseteq Nat
  BY NumThreadsAssumption DEF Threads, End
<1> HIDE DEF S
<1>2. PICK x \in S : \A y \in S : x <= y
  BY <1>1, LeastNumber
<1>3. Min(S) \in S
  BY <1>1, <1>2 DEF Min
<1> QED BY <1>1, <1>3 DEF NextThread, S

(* A walk and its steps are tasks. *)
LEMMA WalkType ==
    ASSUME NEW f \in Walks, NEW success \in BOOLEAN
    PROVE  /\ Walk(f, success) \in TaskType
           /\ Walk(f, success).fn = f
           /\ Walk(f, success).at \in 1 .. End
  BY NextThreadRange, NumThreadsAssumption DEF Walk, TaskType, End, Walks

(* The next step of a walk is a task of the same handler. *)
LEMMA ContinueType ==
    ASSUME NEW w \in TaskType
    PROVE  /\ Continue(w) \in TaskType
           /\ Continue(w).fn = w.fn
  BY NextThreadRange, NumThreadsAssumption DEF Continue, TaskType, End

(* A free token is a task. *)
LEMMA IdleType == Idle \in TaskType /\ Idle.fn = "idle"
  BY NumThreadsAssumption DEF Idle, TaskType, End

(* What waits for a message or a poller is a task. *)
Handlers == {"send", "parked", "reconnect", "delay"} \cup Waits

(* A task goes on to its next handler. *)
LEMMA HandlerType ==
    ASSUME NEW w \in TaskType, NEW f \in Handlers
    PROVE  /\ [w EXCEPT !.fn = f] \in TaskType
           /\ [w EXCEPT !.fn = f].fn = f
           /\ [w EXCEPT !.fn = f].at = w.at
  BY DEF Handlers, TaskType, Waits

(* A chain that waits for a handler is active. *)
LEMMA ActiveChain ==
    ASSUME NEW s \in Sequences, task[s].fn # "idle"
    PROVE  s \in Active
  BY IdleType DEF Active

---------------------------------------------------------------------------
(* What the handlers do to the chains *)

(* A step that runs no handler of a chain. *)
LEMMA OtherStep ==
    ASSUME IndInv, UNCHANGED <<opts, task, iter>>,
           ctrlr' \in CtrlrType,
           ctrlr'.started = ctrlr.started, ctrlr'.resetting = ctrlr.resetting,
           ctrlr.destruct => ctrlr'.destruct, ctrlr'.asserted = ctrlr.asserted,
           qpair' \in [Threads -> {"none", "null", "live"}],
           \A t \in Threads : iter[t] # None => qpair'[t] = qpair[t]
    PROVE  IndInv'
<1>1. Shape'
  BY DEF IndInv, Shape
<1>2. StartedWhileActive' /\ OneResetAtATime'
  BY DEF IndInv, StartedWhileActive, OneResetAtATime, Active
<1>3. WaitedQpairIsLive' /\ ParkedAtThread' /\ ParkedIsContinued'
  BY DEF IndInv, WaitedQpairIsLive, ParkedAtThread, ParkedIsContinued
<1> QED BY <1>1, <1>2, <1>3 DEF IndInv

(* A handler of chain s leaves task w to it.  No other chain is active. *)
LEMMA ChainStep ==
    ASSUME IndInv, Running,
           NEW s \in Sequences, task[s].fn \notin {"idle", "parked"},
           NEW w \in TaskType, w.fn # "parked",
           task' = [task EXCEPT ![s] = w], UNCHANGED iter,
           opts' \in OptionsType, opts'.delay = opts.delay,
           ctrlr' \in CtrlrType, ~ctrlr'.asserted, w # Idle => ctrlr'.started,
           ctrlr'.started /\ ~ctrlr'.resetting /\ ~ctrlr'.destruct => opts.delay,
           qpair' \in [Threads -> {"none", "null", "live"}],
           \A t \in Threads : qpair[t] = "live" => qpair'[t] = "live"
    PROVE  IndInv'
<1>1. Shape'
  BY DEF IndInv, Shape
<1>2. Active = {s} /\ Active' \subseteq {s} /\ (w = Idle => Active' = {})
  <2>1. s \in Active /\ Active = {s}
    BY ActiveChain DEF IndInv, OneResetAtATime, Running, Active
  <2>2. \A u \in Sequences \ {s} : task'[u] = task[u]
    BY DEF IndInv, Shape
  <2>3. task'[s] = w
    BY DEF IndInv, Shape
  <2> QED BY <2>1, <2>2, <2>3 DEF Active
<1>3. StartedWhileActive' /\ OneResetAtATime'
  BY <1>2 DEF StartedWhileActive, OneResetAtATime
<1>4. /\ \A u \in Sequences : task'[u].fn = "parked" => task'[u] = task[u]
      /\ \A u \in Sequences : task[u].fn = "parked" => task'[u] = task[u]
  BY DEF IndInv, Shape
<1>5. WaitedQpairIsLive' /\ ParkedAtThread'
  BY <1>4 DEF IndInv, WaitedQpairIsLive, ParkedAtThread
<1>6. ParkedIsContinued'
  <2>1. \A u \in Sequences : task'[u].fn = "parked" => iter'[task'[u].at] = u
    BY <1>4 DEF IndInv, ParkedIsContinued
  <2>2. \A t \in Threads : iter[t] # None => iter[t] \in Sequences
    BY DEF IndInv, Shape
  <2>3. \A t \in Threads : iter'[t] # None => task'[iter'[t]].fn = "parked" /\ task'[iter'[t]].at = t
    BY <1>4, <2>2 DEF IndInv, ParkedIsContinued
  <2> QED BY <2>1, <2>3 DEF ParkedIsContinued
<1> QED BY <1>1, <1>3, <1>5, <1>6 DEF IndInv

(* A new chain.  When reset_start_tsc is still set, the flag resetting was
   cleared by a failed reset and the reconnect delay has not begun, which
   is where the assertion fails; otherwise nothing is active. *)
LEMMA ChainBegins ==
    ASSUME IndInv, Running, BeginReset, UNCHANGED <<opts, iter>>,
           qpair' \in [Threads -> {"none", "null", "live"}],
           \A t \in Threads : iter[t] # None => qpair'[t] = qpair[t]
    PROVE  IndInv'
<1>1. PICK s \in Sequences : /\ task[s] = Idle
                             /\ task' = [task EXCEPT ![s] = [Idle EXCEPT !.fn = "send"]]
  BY DEF BeginReset
<1> DEFINE w == [Idle EXCEPT !.fn = "send"]
<1>2. w \in TaskType /\ w.fn = "send"
  BY IdleType, HandlerType DEF Handlers
<1>3. /\ ctrlr' \in CtrlrType /\ ctrlr'.started /\ ctrlr'.resetting
      /\ ctrlr'.asserted = ctrlr.started
  BY DEF IndInv, Shape, BeginReset, CtrlrType
<1> HIDE DEF w
<1>4. task' = [task EXCEPT ![s] = w]
  BY <1>1 DEF w
<1>5. Shape'
  BY <1>2, <1>3, <1>4 DEF IndInv, Shape
<1>6. StartedWhileActive'
  BY <1>3 DEF StartedWhileActive
<1>7. OneResetAtATime'
  <2>1. CASE ctrlr.started
    BY <2>1, <1>3 DEF IndInv, StartedWhileActive, BeginReset, MayReset, OneResetAtATime
  <2>2. CASE ~ctrlr.started
    <3>1. Active = {} BY <2>2 DEF IndInv, StartedWhileActive
    <3>2. \A u \in Sequences \ {s} : task'[u] = task[u] BY <1>4 DEF IndInv, Shape
    <3>3. Active' \subseteq {s} BY <3>1, <3>2 DEF Active
    <3> QED BY <2>2, <1>3, <3>3 DEF OneResetAtATime
  <2> QED BY <2>1, <2>2
<1>8. task[s].fn # "parked" /\ task'[s].fn # "parked"
  BY <1>1, <1>2, <1>4, IdleType DEF IndInv, Shape
<1>9. \A u \in Sequences \ {s} : task'[u] = task[u]
  BY <1>4 DEF IndInv, Shape
<1>10. WaitedQpairIsLive' /\ ParkedAtThread' /\ ParkedIsContinued'
  <2>1. WaitedQpairIsLive' /\ ParkedAtThread'
    BY <1>8, <1>9 DEF IndInv, WaitedQpairIsLive, ParkedAtThread
  <2>2. \A u \in Sequences : task'[u].fn = "parked" => iter'[task'[u].at] = u
    BY <1>8, <1>9 DEF IndInv, ParkedIsContinued
  <2>3. \A t \in Threads : iter[t] # None => iter[t] \in Sequences \ {s}
    BY <1>8 DEF IndInv, Shape, ParkedIsContinued
  <2>4. \A t \in Threads : iter'[t] # None => task'[iter'[t]].fn = "parked" /\ task'[iter'[t]].at = t
    BY <1>9, <2>3 DEF IndInv, ParkedIsContinued
  <2> QED BY <2>1, <2>2, <2>4 DEF ParkedIsContinued
<1> QED BY <1>5, <1>6, <1>7, <1>10 DEF IndInv

(* The qpair of thread t is gone, and the walk that waited for it goes on. *)
LEMMA WalkContinued ==
    ASSUME IndInv, Running, NEW t \in Threads, iter[t] # None,
           task' = [task EXCEPT ![iter[t]] = [Continue(@) EXCEPT !.fn = "destroy"]],
           iter' = [iter EXCEPT ![t] = None],
           UNCHANGED <<opts, ctrlr>>,
           qpair' \in [Threads -> {"none", "null", "live"}],
           \A u \in Threads \ {t} : qpair'[u] = qpair[u]
    PROVE  IndInv'
<1> DEFINE s == iter[t]
<1> DEFINE w == [Continue(task[s]) EXCEPT !.fn = "destroy"]
<1>1. s \in Sequences /\ task[s].fn = "parked" /\ task[s].at = t
  BY DEF IndInv, Shape, ParkedIsContinued
<1>2. task[s] \in TaskType
  BY <1>1 DEF IndInv, Shape
<1>3. w \in TaskType /\ w.fn = "destroy"
  BY <1>2, ContinueType DEF TaskType, Walks
<1>4. task' = [task EXCEPT ![s] = w]
  BY <1>1 DEF IndInv, Shape
<1> HIDE DEF w
<1>5. task'[s] = w /\ \A u \in Sequences \ {s} : task'[u] = task[u]
  BY <1>1, <1>4 DEF IndInv, Shape
<1>6. iter'[t] = None /\ \A u \in Threads \ {t} : iter'[u] = iter[u]
  BY DEF IndInv, Shape
<1>7. Shape'
  BY <1>1, <1>3, <1>4 DEF IndInv, Shape
<1>8. StartedWhileActive' /\ OneResetAtATime'
  <2>1. Active' \subseteq Active
    BY <1>1, <1>5, ActiveChain DEF Active
  <2> QED BY <2>1 DEF IndInv, StartedWhileActive, OneResetAtATime
<1>9. WaitedQpairIsLive'
  BY <1>6 DEF IndInv, WaitedQpairIsLive
<1>10. ParkedAtThread'
  BY <1>3, <1>5 DEF IndInv, ParkedAtThread
<1>11. \A u \in Sequences : task'[u].fn = "parked" => iter'[task'[u].at] = u
  BY <1>3, <1>5, <1>6 DEF IndInv, ParkedIsContinued, ParkedAtThread
<1>12. \A u \in Threads \ {t} : iter[u] # None => iter[u] \in Sequences \ {s}
  BY <1>1 DEF IndInv, Shape, ParkedIsContinued
<1>13. \A u \in Threads : iter'[u] # None => task'[iter'[u]].fn = "parked" /\ task'[iter'[u]].at = u
  BY <1>5, <1>6, <1>12 DEF IndInv, ParkedIsContinued
<1> QED BY <1>7, <1>8, <1>9, <1>10, <1>11, <1>13 DEF IndInv, ParkedIsContinued

---------------------------------------------------------------------------
(* The handlers of a chain *)

(* A handler that leaves the controller as it is. *)
LEMMA QuietHandler ==
    ASSUME IndInv, Running,
           NEW s \in Sequences, task[s].fn \notin {"idle", "parked"},
           NEW w \in TaskType, w.fn # "parked",
           task' = [task EXCEPT ![s] = w], UNCHANGED <<iter, ctrlr>>,
           opts' \in OptionsType, opts'.delay = opts.delay,
           qpair' \in [Threads -> {"none", "null", "live"}],
           \A t \in Threads : qpair[t] = "live" => qpair'[t] = "live"
    PROVE  IndInv'
<1>1. ctrlr \in CtrlrType /\ ctrlr.started
  BY ActiveChain DEF IndInv, Shape, StartedWhileActive
<1>2. ctrlr.started /\ ~ctrlr.resetting /\ ~ctrlr.destruct => opts.delay
  BY DEF IndInv, StartedWhileActive
<1> QED BY <1>1, <1>2, ChainStep DEF Running

(* Whether the library accepts it or not, a disconnect leaves a task. *)
LEMMA DisconnectLeaves ==
    ASSUME NEW s \in Sequences, NEW next \in Waits, Disconnect(s, next)
    PROVE  \E w \in TaskType : w.fn \notin {"idle", "parked"} /\ task' = [task EXCEPT ![s] = w]
<1>1. CASE lib.resetting \/ lib.removed
  BY <1>1, WalkType DEF Disconnect, Walks
<1>2. CASE ~(lib.resetting \/ lib.removed)
  BY <1>2, IdleType, HandlerType DEF Disconnect, Handlers, Waits
<1> QED BY <1>1, <1>2

(* The steps of the walks on the channels' threads. *)
LEMMA WalkHandlers ==
    ASSUME IndInv, NEW s \in Sequences,
           SkipChannel(s) \/ CreateQpair(s) \/ CreateDone(s) \/ CompletePending(s)
    PROVE  IndInv'
<1>1. task[s] \in TaskType /\ Continue(task[s]) \in TaskType
      /\ Continue(task[s]).fn = task[s].fn
  BY ContinueType DEF IndInv, Shape
<1>2. opts \in OptionsType /\ qpair \in [Threads -> {"none", "null", "live"}]
  BY DEF IndInv, Shape
<1>3. CASE SkipChannel(s)
  BY <1>1, <1>2, <1>3, QuietHandler DEF SkipChannel, Walks, channelVars
<1>4. CASE CreateQpair(s)
  <2> DEFINE w == [fn |-> "create", at |-> End, ok |-> FALSE]
  <2>1. task[s].fn = "create" /\ Running /\ UNCHANGED <<opts, ctrlr, iter>>
    BY <1>4 DEF CreateQpair
  <2>2. w \in TaskType /\ w.fn = task[s].fn
    BY <2>1, NumThreadsAssumption DEF TaskType, Walks, End
  <2>3. CASE task' = [task EXCEPT ![s] = Continue(task[s])]
            /\ qpair' = [qpair EXCEPT ![task[s].at] = "live"]
    <3>1. /\ qpair' \in [Threads -> {"none", "null", "live"}]
          /\ \A t \in Threads : qpair[t] = "live" => qpair'[t] = "live"
      BY <1>2, <2>3
    <3> QED BY <1>1, <1>2, <2>1, <2>3, <3>1, QuietHandler
  <2>4. CASE task' = [task EXCEPT ![s] = w] /\ UNCHANGED qpair
    <3> HIDE DEF w
    <3> QED BY <1>2, <2>1, <2>2, <2>4, QuietHandler
  <2> QED BY <1>4, <2>3, <2>4 DEF CreateQpair
<1>5. CASE CreateDone(s)
  <2>1. PICK w \in TaskType : w.fn # "parked" /\ task' = [task EXCEPT ![s] = w]
    BY <1>5, WalkType DEF CreateDone, Walks
  <2> QED BY <1>2, <1>5, <2>1, QuietHandler DEF CreateDone, channelVars
<1>6. CASE CompletePending(s)
  BY <1>1, <1>2, <1>6, QuietHandler DEF CompletePending, channelVars
<1> QED BY <1>3, <1>4, <1>5, <1>6

(* The handlers between the walks. *)
LEMMA ResetHandlers ==
    ASSUME IndInv, NEW s \in Sequences,
           ResetSent(s) \/ DestroyDone(s) \/ ReconnectPoll(s)
    PROVE  IndInv'
<1>1. opts \in OptionsType /\ qpair \in [Threads -> {"none", "null", "live"}]
  BY DEF IndInv, Shape
<1>2. CASE ResetSent(s)
  <2>1. PICK w \in TaskType : w.fn # "parked" /\ task' = [task EXCEPT ![s] = w]
    <3>1. CASE opts.fabrics
      BY <1>2, <3>1, WalkType DEF ResetSent, Walks
    <3>2. CASE ~opts.fabrics
      BY <1>2, <3>2, DisconnectLeaves DEF ResetSent, Waits
    <3> QED BY <3>1, <3>2
  <2> QED BY <1>1, <1>2, <2>1, QuietHandler DEF ResetSent, channelVars
<1>3. CASE DestroyDone(s)
  <2>1. PICK w \in TaskType : w.fn # "parked" /\ task' = [task EXCEPT ![s] = w]
    <3>1. CASE ~task[s].ok
      BY <1>3, <3>1, WalkType DEF DestroyDone, Walks
    <3>2. CASE task[s].ok /\ opts.fabrics
      BY <1>3, <3>2, DisconnectLeaves DEF DestroyDone, Waits
    <3>3. CASE task[s].ok /\ ~opts.fabrics
      <4>1. task' = [task EXCEPT ![s] = [Idle EXCEPT !.fn = "reconnect"]]
        BY <1>3, <3>3 DEF DestroyDone
      <4>2. [Idle EXCEPT !.fn = "reconnect"] \in TaskType
            /\ [Idle EXCEPT !.fn = "reconnect"].fn = "reconnect"
        BY IdleType, HandlerType DEF Handlers
      <4> QED BY <4>1, <4>2
    <3> QED BY <3>1, <3>2, <3>3
  <2> QED BY <1>1, <1>3, <2>1, QuietHandler DEF DestroyDone, channelVars
<1>4. CASE ReconnectPoll(s)
  <2>1. PICK w \in TaskType : w.fn # "parked" /\ task' = [task EXCEPT ![s] = w]
    BY <1>4, WalkType DEF ReconnectPoll, Walks
  <2>2. opts' \in OptionsType /\ opts'.delay = opts.delay
    BY <1>1, <1>4 DEF ReconnectPoll, OptionsType
  <2> QED BY <1>1, <1>4, <2>1, <2>2, QuietHandler DEF ReconnectPoll, channelVars
<1> QED BY <1>2, <1>3, <1>4

(* The handlers that change the flags of the controller. *)
LEMMA DelayHandlers ==
    ASSUME IndInv, NEW s \in Sequences, Disconnected(s) \/ DelayTimerExpired(s)
    PROVE  IndInv'
<1>1. /\ opts \in OptionsType /\ ctrlr \in CtrlrType
      /\ qpair \in [Threads -> {"none", "null", "live"}]
      /\ ctrlr.started /\ ~ctrlr.resetting /\ ~ctrlr.destruct => opts.delay
  BY DEF IndInv, Shape, StartedWhileActive
<1>2. task[s].fn # "idle" => ctrlr.started
  BY ActiveChain DEF IndInv, StartedWhileActive
<1>3. CASE Disconnected(s)
  <2>1. PICK w \in TaskType : w.fn # "parked" /\ task' = [task EXCEPT ![s] = w]
    <3>1. CASE task' = [task EXCEPT ![s] = Walk("destroy", TRUE)]
      BY <3>1, WalkType DEF Walks
    <3>2. CASE task' = [task EXCEPT ![s] = [Idle EXCEPT !.fn = "reconnect"]]
      BY <3>2, IdleType, HandlerType DEF Handlers
    <3>3. CASE task' = [task EXCEPT ![s] = [Idle EXCEPT !.fn = "delay"]]
      BY <3>3, IdleType, HandlerType DEF Handlers
    <3> QED BY <1>3, <3>1, <3>2, <3>3 DEF Disconnected
  <2>2. /\ ctrlr' \in CtrlrType /\ ctrlr'.started = ctrlr.started
        /\ ctrlr'.resetting = ctrlr.resetting /\ ctrlr'.destruct = ctrlr.destruct
        /\ ctrlr'.asserted = ctrlr.asserted
    BY <1>1, <1>3 DEF Disconnected, CtrlrType
  <2>3. /\ task[s].fn \notin {"idle", "parked"} /\ Running
        /\ UNCHANGED <<opts, iter, qpair>>
    BY <1>3 DEF Disconnected, channelVars
  <2> QED BY <1>1, <1>2, <2>1, <2>2, <2>3, ChainStep DEF Running
<1>4. CASE DelayTimerExpired(s)
  <2>1. PICK w \in TaskType : w.fn # "parked" /\ task' = [task EXCEPT ![s] = w]
    <3>1. CASE task' = [task EXCEPT ![s] = Idle]
      BY <3>1, IdleType
    <3>2. CASE task' = [task EXCEPT ![s] = [Idle EXCEPT !.fn = "reconnect"]]
      BY <3>2, IdleType, HandlerType DEF Handlers
    <3> QED BY <1>4, <3>1, <3>2 DEF DelayTimerExpired
  <2>2. /\ ctrlr' \in CtrlrType /\ ctrlr'.started = ctrlr.started
        /\ ctrlr'.destruct \/ ctrlr'.resetting
        /\ ctrlr'.asserted = ctrlr.asserted
    BY <1>1, <1>4 DEF DelayTimerExpired, CtrlrType
  <2>3. /\ task[s].fn \notin {"idle", "parked"} /\ Running
        /\ UNCHANGED <<opts, iter, qpair>>
    BY <1>4 DEF DelayTimerExpired, channelVars
  <2> QED BY <1>1, <1>2, <2>1, <2>2, <2>3, ChainStep DEF Running
<1> QED BY <1>3, <1>4

(* The end of a reset.  A chain that goes on, towards the delay or because
   the disconnect before it was refused, keeps reset_start_tsc. *)
LEMMA CompleteHandler ==
    ASSUME IndInv, NEW s \in Sequences, ResetComplete(s)
    PROVE  IndInv'
<1> DEFINE c == [ctrlr EXCEPT !.resetting = FALSE]
<1>1. /\ opts \in OptionsType /\ ctrlr \in CtrlrType
      /\ qpair \in [Threads -> {"none", "null", "live"}]
  BY DEF IndInv, Shape
<1>2. /\ task[s].fn \notin {"idle", "parked"} /\ Running
      /\ UNCHANGED <<opts, iter, qpair>> /\ OpAfterReset(s, c)
  BY DEF ResetComplete, channelVars
<1>3. ctrlr.started /\ ~ctrlr.asserted
  BY <1>2, ActiveChain DEF IndInv, StartedWhileActive, Running
<1>4. c \in CtrlrType /\ c.started /\ ~c.asserted
  BY <1>1, <1>3 DEF CtrlrType
<1> HIDE DEF c
<1>5. CASE /\ CanBeUnregistered(c) /\ ctrlr' = UnregisterIfUnused(c)
           /\ task' = [task EXCEPT ![s] = Idle]
  <2>1. ctrlr' \in CtrlrType /\ ctrlr'.destruct /\ ~ctrlr'.asserted
    BY <1>4, <1>5 DEF CanBeUnregistered, UnregisterIfUnused, CtrlrType
  <2> QED BY <1>1, <1>2, <1>5, <2>1, IdleType, ChainStep
<1>6. CASE ctrlr' = [c EXCEPT !.started = FALSE] /\ task' = [task EXCEPT ![s] = Idle]
  <2>1. ctrlr' \in CtrlrType /\ ~ctrlr'.started /\ ~ctrlr'.asserted
    BY <1>4, <1>6 DEF CtrlrType
  <2> QED BY <1>1, <1>2, <1>6, <2>1, IdleType, ChainStep
<1>7. CASE ctrlr' = [c EXCEPT !.destruct = TRUE] /\ task' = [task EXCEPT ![s] = Idle]
  <2>1. ctrlr' \in CtrlrType /\ ctrlr'.destruct /\ ~ctrlr'.asserted
    BY <1>4, <1>7 DEF CtrlrType
  <2> QED BY <1>1, <1>2, <1>7, <2>1, IdleType, ChainStep
<1>8. CASE opts.delay /\ ctrlr' = c /\ Disconnect(s, "to_delay")
  <2>1. PICK w \in TaskType : w.fn # "parked" /\ task' = [task EXCEPT ![s] = w]
    BY <1>8, DisconnectLeaves DEF Waits
  <2> QED BY <1>1, <1>2, <1>4, <1>8, <2>1, ChainStep
<1> QED BY <1>2, <1>5, <1>6, <1>7, <1>8 DEF OpAfterReset

(* A live qpair is asked to disconnect and its channel keeps the walk. *)
LEMMA DestroyHandler ==
    ASSUME IndInv, NEW s \in Sequences, DestroyQpair(s)
    PROVE  IndInv'
<1> DEFINE t == task[s].at
<1>1. /\ Running /\ t \in Threads /\ task[s].fn = "destroy"
      /\ UNCHANGED <<opts, ctrlr, qpair>>
  BY DEF DestroyQpair
<1>2. task[s] \in TaskType /\ opts \in OptionsType
      /\ qpair \in [Threads -> {"none", "null", "live"}]
  BY DEF IndInv, Shape
<1>3. CASE qpair[t] # "live"
  <2>1. task' = [task EXCEPT ![s] = Continue(task[s])] /\ UNCHANGED iter
    BY <1>3 DEF DestroyQpair
  <2> QED BY <1>1, <1>2, <2>1, ContinueType, QuietHandler
<1>4. CASE qpair[t] = "live"
  <2> DEFINE w == [task[s] EXCEPT !.fn = "parked"]
  <2>1. w \in TaskType /\ w.fn = "parked" /\ w.at = t
    BY <1>2, HandlerType DEF Handlers
  <2>2. task' = [task EXCEPT ![s] = w] /\ iter' = [iter EXCEPT ![t] = s]
    BY <1>4 DEF DestroyQpair, IndInv, Shape
  <2> HIDE DEF w
  <2>3. /\ task'[s] = w /\ \A u \in Sequences \ {s} : task'[u] = task[u]
        /\ iter'[t] = s /\ \A u \in Threads \ {t} : iter'[u] = iter[u]
    BY <1>1, <2>2 DEF IndInv, Shape
  <2>4. Active' \subseteq Active /\ Active = {s}
    <3>1. s \in Active BY <1>1, ActiveChain
    <3>2. Active = {s} BY <1>1, <3>1 DEF IndInv, OneResetAtATime, Running, Active
    <3> QED BY <2>3, <3>1, <3>2 DEF Active
  <2>5. \A u \in Sequences \ {s} : task[u].fn # "parked"
    BY <2>4, ActiveChain
  <2>6. \A u \in Threads : iter[u] = None
    BY <1>1, <2>5 DEF IndInv, Shape, ParkedIsContinued
  <2>7. Shape'
    BY <1>1, <2>1, <2>2 DEF IndInv, Shape
  <2>8. StartedWhileActive' /\ OneResetAtATime'
    BY <1>1, <2>4 DEF IndInv, StartedWhileActive, OneResetAtATime
  <2>9. WaitedQpairIsLive' /\ ParkedAtThread'
    BY <1>1, <1>4, <2>1, <2>3, <2>5, <2>6 DEF WaitedQpairIsLive, ParkedAtThread
  <2>10. ParkedIsContinued'
    BY <1>1, <2>1, <2>3, <2>5, <2>6 DEF ParkedIsContinued
  <2> QED BY <2>7, <2>8, <2>9, <2>10 DEF IndInv
<1> QED BY <1>3, <1>4

---------------------------------------------------------------------------
(* The steps of no chain *)

(* What the chains look at is the same. *)
SameFlags(c, d) ==
    /\ d.started = c.started /\ d.resetting = c.resetting
    /\ d.destruct = c.destruct /\ d.asserted = c.asserted

(* Unregistering the controller leaves what the chains look at. *)
LEMMA UnregisterType ==
    ASSUME NEW c \in CtrlrType
    PROVE  UnregisterIfUnused(c) \in CtrlrType /\ SameFlags(c, UnregisterIfUnused(c))
  BY DEF UnregisterIfUnused, SameFlags, CtrlrType

(* So does the release of a reference. *)
LEMMA ReleaseType ==
    ASSUME NEW c \in CtrlrType
    PROVE  Release(c) \in CtrlrType /\ SameFlags(c, Release(c))
<1> DEFINE d == [c EXCEPT !.ref = @ - 1]
<1>1. d \in CtrlrType /\ SameFlags(c, d)
  BY DEF CtrlrType, SameFlags
<1>2. Release(c) = UnregisterIfUnused(d)
  BY DEF Release
<1> HIDE DEF d
<1> QED BY <1>1, <1>2, UnregisterType DEF SameFlags

(* Events, references, deletion and the users that hold no reference. *)
LEMMA LifeSteps ==
    ASSUME IndInv, LifeNext
    PROVE  IndInv'
<1> USE DEF channelVars, resetIoVars
<1>1. /\ opts \in OptionsType /\ ctrlr \in CtrlrType
      /\ qpair \in [Threads -> {"none", "null", "live"}]
  BY DEF IndInv, Shape
<1>2. ASSUME UNCHANGED <<opts, task, iter, qpair>>, ctrlr' \in CtrlrType,
             ctrlr'.started = ctrlr.started, ctrlr'.resetting = ctrlr.resetting,
             ctrlr.destruct => ctrlr'.destruct, ctrlr'.asserted = ctrlr.asserted
      PROVE  IndInv'
  BY <1>1, <1>2, OtherStep
<1>3. CASE Delete
  BY <1>1, <1>2, <1>3 DEF Delete, CtrlrType
<1>4. CASE DestructRelease
  <2> DEFINE c == [ctrlr EXCEPT !.attached = FALSE]
  <2>1. c \in CtrlrType /\ SameFlags(ctrlr, c)
    BY <1>1 DEF CtrlrType, SameFlags
  <2>2. ctrlr' = Release(c) /\ UNCHANGED <<opts, task, iter, qpair>>
    BY <1>4 DEF DestructRelease
  <2> HIDE DEF c
  <2> QED BY <1>2, <2>1, <2>2, ReleaseType DEF SameFlags
<1>5. CASE CtrlrDelete
  BY <1>1, <1>2, <1>5 DEF CtrlrDelete, CtrlrType
<1>6. CASE HotRemoved
  BY <1>1, <1>2, <1>6 DEF HotRemoved
<1>7. CASE ResetRequested
  BY <1>1, <1>7, ChainBegins DEF ResetRequested
<1>8. CASE ClearCaches
  BY <1>1, <1>2, <1>8 DEF ClearCaches, CtrlrType
<1>9. CASE CachesCleared
  <2> DEFINE c == [ctrlr EXCEPT !.clearing = FALSE]
  <2>1. c \in CtrlrType /\ SameFlags(ctrlr, c)
    BY <1>1 DEF CtrlrType, SameFlags
  <2>2. ctrlr' = UnregisterIfUnused(c) /\ UNCHANGED <<opts, task, iter, qpair>>
    BY <1>9 DEF CachesCleared
  <2> HIDE DEF c
  <2> QED BY <1>2, <2>1, <2>2, UnregisterType DEF SameFlags
<1>10. CASE ReadAnaLogPage
  BY <1>1, <1>2, <1>10 DEF ReadAnaLogPage, CtrlrType
<1>11. CASE AnaLogPageRead
  <2> DEFINE c == [ctrlr EXCEPT !.updating = FALSE]
  <2>1. c \in CtrlrType /\ SameFlags(ctrlr, c)
    BY <1>1 DEF CtrlrType, SameFlags
  <2>2. UNCHANGED <<opts, task, iter, qpair>>
    BY <1>11 DEF AnaLogPageRead
  <2>3. PICK failed \in BOOLEAN :
           ctrlr' = IF CanBeUnregistered(c) THEN UnregisterIfUnused(c)
                    ELSE [c EXCEPT !.clearing = @ \/ (IsAvailable /\ ~failed)]
    BY <1>11 DEF AnaLogPageRead
  <2> HIDE DEF c
  <2>4. ctrlr' \in CtrlrType /\ SameFlags(c, ctrlr')
    <3>1. CASE CanBeUnregistered(c)
      BY <2>1, <2>3, <3>1, UnregisterType
    <3>2. CASE ~CanBeUnregistered(c)
      <4>1. \A b \in BOOLEAN : LET d == [c EXCEPT !.clearing = b]
                               IN  d \in CtrlrType /\ SameFlags(c, d)
        BY <2>1 DEF CtrlrType, SameFlags
      <4>2. (c.clearing \/ (IsAvailable /\ ~failed)) \in BOOLEAN OBVIOUS
      <4> QED BY <2>3, <3>2, <4>1, <4>2
    <3> QED BY <3>1, <3>2
  <2> QED BY <1>2, <2>1, <2>2, <2>4 DEF SameFlags
<1>12. ASSUME NEW n \in Namespaces, NamespaceRemoved(n) PROVE IndInv'
  BY <1>1, <1>2, <1>12 DEF NamespaceRemoved
<1>13. ASSUME NEW n \in Namespaces, NamespaceAdded(n) PROVE IndInv'
  BY <1>1, <1>2, <1>13 DEF NamespaceAdded, CtrlrType
<1>14. ASSUME NEW n \in Namespaces, DepopulateDone(n) PROVE IndInv'
  BY <1>1, <1>2, <1>14, ReleaseType DEF DepopulateDone, SameFlags
<1>15. ASSUME NEW n \in Namespaces, BdevDestruct(n) PROVE IndInv'
  BY <1>1, <1>2, <1>15, ReleaseType DEF BdevDestruct, SameFlags
<1> QED
  BY <1>3, <1>4, <1>5, <1>6, <1>7, <1>8, <1>9, <1>10, <1>11, <1>12, <1>13, <1>14, <1>15 DEF LifeNext

(* Channels, qpairs and reset I/Os on a thread. *)
LEMMA ThreadSteps ==
    ASSUME IndInv, NEW t \in Threads, ThreadNext(t)
    PROVE  IndInv'
<1> USE DEF channelVars
<1>1. /\ opts \in OptionsType /\ ctrlr \in CtrlrType
      /\ qpair \in [Threads -> {"none", "null", "live"}]
  BY DEF IndInv, Shape
<1>2. \A u \in Threads : iter[u] # None => qpair[u] = "live"
  BY DEF IndInv, WaitedQpairIsLive
<1>3. CASE QpairDisconnected(t)
  <2>1. /\ Running /\ qpair[t] = "live" /\ UNCHANGED opts
        /\ qpair' \in [Threads -> {"none", "null", "live"}]
        /\ \A u \in Threads \ {t} : qpair'[u] = qpair[u]
    BY <1>1, <1>3 DEF QpairDisconnected
  <2>2. CASE iter[t] # None
    BY <1>3, <2>1, <2>2, WalkContinued DEF QpairDisconnected
  <2>3. CASE iter[t] = None /\ MayReset
    BY <1>3, <2>1, <2>3, ChainBegins DEF QpairDisconnected
  <2>4. CASE iter[t] = None /\ ~MayReset
    BY <1>1, <1>3, <2>1, <2>4, OtherStep DEF QpairDisconnected
  <2> QED BY <2>2, <2>3, <2>4
<1>4. CASE OrphanDisconnected(t)
  BY <1>1, <1>4, ReleaseType, OtherStep DEF OrphanDisconnected, SameFlags
<1>5. CASE OpenChannel(t)
  <2>1. /\ UNCHANGED <<opts, task, iter>>
        /\ qpair' \in [Threads -> {"none", "null", "live"}]
        /\ \A u \in Threads : iter[u] # None => qpair'[u] = qpair[u]
    BY <1>1, <1>2, <1>5 DEF OpenChannel, HasChannel
  <2>2. /\ ctrlr' \in CtrlrType /\ ctrlr'.started = ctrlr.started
        /\ ctrlr'.resetting = ctrlr.resetting /\ ctrlr'.destruct = ctrlr.destruct
        /\ ctrlr'.asserted = ctrlr.asserted
    BY <1>1, <1>5 DEF OpenChannel, CtrlrType
  <2> QED BY <2>1, <2>2, OtherStep
<1>6. CASE CloseChannel(t)
  <2>1. /\ Running /\ UNCHANGED opts
        /\ iter' = [iter EXCEPT ![t] = None]
        /\ qpair' \in [Threads -> {"none", "null", "live"}]
        /\ \A u \in Threads \ {t} : qpair'[u] = qpair[u]
    BY <1>1, <1>6 DEF CloseChannel
  <2>2. CASE iter[t] # None
    BY <1>2, <1>6, <2>1, <2>2, WalkContinued DEF CloseChannel
  <2>3. CASE iter[t] = None
    <3>1. iter' = iter /\ task' = task BY <1>6, <2>1, <2>3 DEF CloseChannel, IndInv, Shape
    <3>2. /\ ctrlr' \in CtrlrType /\ ctrlr'.started = ctrlr.started
          /\ ctrlr'.resetting = ctrlr.resetting /\ ctrlr'.destruct = ctrlr.destruct
          /\ ctrlr'.asserted = ctrlr.asserted
      BY <1>1, <1>6, ReleaseType DEF CloseChannel, SameFlags
    <3> QED BY <2>1, <2>3, <3>1, <3>2, OtherStep
  <2> QED BY <2>2, <2>3
<1>7. ASSUME NEW r \in Resets, SubmitReset(r, t) PROVE IndInv'
  <2>1. Running /\ UNCHANGED <<opts, qpair, iter>>
    BY <1>7 DEF SubmitReset
  <2>2. CASE BeginReset
    BY <1>1, <2>1, <2>2, ChainBegins
  <2>3. CASE UNCHANGED <<ctrlr, task>>
    BY <1>1, <2>1, <2>3, OtherStep
  <2> QED BY <1>7, <2>2, <2>3 DEF SubmitReset
<1> QED BY <1>3, <1>4, <1>5, <1>6, <1>7 DEF ThreadNext

---------------------------------------------------------------------------
(* The theorems *)

(* A controller that has just been attached has no chain. *)
LEMMA InitIndInv == Init => IndInv
<1> SUFFICES ASSUME Init PROVE IndInv
  OBVIOUS
<1>1. Shape
  <2>1. opts \in OptionsType
    BY OptionsAssumption DEF Init
  <2>2. ctrlr \in CtrlrType
    <3>1. Cardinality(Namespaces) \in Nat BY NamespacesAssumption, FS_CardinalityType
    <3> QED BY <3>1 DEF Init, CtrlrType
  <2>3. task \in [Sequences -> TaskType]
    BY IdleType DEF Init
  <2> QED BY <2>1, <2>2, <2>3 DEF Init, Shape
<1>2. Active = {} /\ ~ctrlr.started /\ ~ctrlr.asserted
  BY DEF Init, Active
<1>3. \A s \in Sequences : task[s].fn = "idle"
  BY IdleType DEF Init
<1>4. \A t \in Threads : iter[t] = None
  BY DEF Init
<1> QED
  BY <1>1, <1>2, <1>3, <1>4 DEF IndInv, StartedWhileActive, WaitedQpairIsLive, ParkedAtThread,
        OneResetAtATime, ParkedIsContinued

(* Every step keeps the inductive invariant. *)
LEMMA NextIndInv == IndInv /\ [Next]_vars => IndInv'
<1> SUFFICES ASSUME IndInv, [Next]_vars PROVE IndInv'
  OBVIOUS
<1>1. ASSUME NEW s \in Sequences, Chain(s) PROVE IndInv'
  BY <1>1, WalkHandlers, ResetHandlers, DelayHandlers, CompleteHandler, DestroyHandler DEF Chain
<1>2. ASSUME NEW t \in Threads, ThreadNext(t) PROVE IndInv'
  BY <1>2, ThreadSteps
<1>3. CASE LifeNext
  BY <1>3, LifeSteps
<1>4. CASE UNCHANGED vars
  <2>1. /\ ctrlr \in CtrlrType /\ UNCHANGED <<opts, ctrlr, task, iter, qpair>>
        /\ qpair \in [Threads -> {"none", "null", "live"}]
    BY <1>4 DEF vars, IndInv, Shape
  <2> QED BY <2>1, OtherStep
<1> QED BY <1>1, <1>2, <1>3, <1>4 DEF Next

(* The inductive invariant holds in every behaviour of the controller. *)
THEOREM SpecIndInv == Spec => []IndInv
  BY InitIndInv, NextIndInv, PTL DEF Spec

(* One chain of handlers at a time: the flag resetting and the assertion
   of bdev_nvme.c:2178 together keep a second one out, for every number of
   threads and every kind of controller. *)
THEOREM OneReset == Spec => []OneResetAtATime
<1>1. IndInv => OneResetAtATime
  BY DEF IndInv
<1> QED BY <1>1, SpecIndInv, PTL

(* The walk that destroys the qpairs is never lost: the channel of the
   qpair for which it waits knows it, and no channel knows another. *)
THEOREM ParkedContinued == Spec => []ParkedIsContinued
<1>1. IndInv => ParkedIsContinued
  BY DEF IndInv
<1> QED BY <1>1, SpecIndInv, PTL

---------------------------------------------------------------------------
(* The types of what the chains do not look at *)

LibType == [resetting : BOOLEAN, up : BOOLEAN, removed : BOOLEAN]
ResetIoType == [at : 0 .. NumThreads, stage : {"new", "started", "pending", "done"}]
NsType == [tree : SUBSET Namespaces, bdev : SUBSET Namespaces,
           removing : SUBSET Namespaces, late : BOOLEAN]

Rest ==
    /\ lib \in LibType
    /\ orphans \in [Threads -> Nat]
    /\ pending \in [Threads -> SUBSET Resets]
    /\ resetIo \in [Resets -> ResetIoType]
    /\ reset_cb \in Resets \cup {None}
    /\ ns \in NsType
    /\ ctrlr.unregisters \in Nat

(* What nvme_ctrlr_unregister leaves as it is, and what it counts. *)
LEMMA UnregisterCounts ==
    ASSUME NEW c \in CtrlrType
    PROVE  LET d == UnregisterIfUnused(c)
           IN  /\ d.ref = c.ref /\ d.attached = c.attached /\ d.deleted = c.deleted
               /\ d.clearing = c.clearing /\ d.updating = c.updating
               /\ d.destruct = c.destruct /\ d.resetting = c.resetting
               /\ d.unregisters = IF CanBeUnregistered(c) THEN c.unregisters + 1 ELSE c.unregisters
  BY DEF UnregisterIfUnused, CtrlrType

(* A release takes one reference, and unregisters when it was the last. *)
LEMMA ReleaseCounts ==
    ASSUME NEW c \in CtrlrType
    PROVE  LET d == Release(c)
           IN  /\ d.ref = c.ref - 1 /\ d.attached = c.attached /\ d.deleted = c.deleted
               /\ d.clearing = c.clearing /\ d.updating = c.updating
               /\ d.destruct = c.destruct /\ d.resetting = c.resetting
               /\ \/ d.unregisters = c.unregisters
                  \/ /\ d.unregisters = c.unregisters + 1
                     /\ d.destruct /\ d.ref = 0 /\ ~d.resetting /\ ~d.updating /\ ~d.clearing
<1> DEFINE e == [c EXCEPT !.ref = @ - 1]
<1>1. /\ e \in CtrlrType /\ e.ref = c.ref - 1 /\ e.attached = c.attached
      /\ e.clearing = c.clearing /\ e.updating = c.updating /\ e.deleted = c.deleted
      /\ e.destruct = c.destruct /\ e.resetting = c.resetting /\ e.unregisters = c.unregisters
  BY DEF CtrlrType
<1>2. Release(c) = UnregisterIfUnused(e)
  BY DEF Release
<1> HIDE DEF e
<1> QED BY <1>1, <1>2, UnregisterCounts DEF CanBeUnregistered

(* A disconnect leaves a record of the library. *)
LEMMA DisconnectLib ==
    ASSUME Rest, NEW s, NEW next, Disconnect(s, next)
    PROVE  lib' \in LibType
  BY DEF Rest, LibType, Disconnect

(* The chain of a reset keeps Rest. *)
LEMMA ChainRest ==
    ASSUME IndInv, Rest, NEW s \in Sequences, Chain(s)
    PROVE  Rest'
<1> USE DEF channelVars, resetIoVars
<1>1. ctrlr \in CtrlrType
  BY DEF IndInv, Shape
<1>2. CASE ResetSent(s)
  BY <1>2, DisconnectLib DEF ResetSent, Rest
<1>3. CASE Disconnected(s)
  BY <1>1, <1>3 DEF Disconnected, Rest, CtrlrType
<1>4. CASE ReconnectPoll(s)
  BY <1>4 DEF ReconnectPoll, Rest, LibType
<1>5. CASE DelayTimerExpired(s)
  BY <1>1, <1>5 DEF DelayTimerExpired, Rest, CtrlrType
<1>6. CASE SkipChannel(s) \/ DestroyQpair(s) \/ CreateQpair(s) \/ CreateDone(s)
  BY <1>6 DEF SkipChannel, DestroyQpair, CreateQpair, CreateDone, Rest
<1>7. CASE DestroyDone(s)
  BY <1>7, DisconnectLib DEF DestroyDone, Rest
<1>8. CASE CompletePending(s)
  <2>1. /\ resetIo' \in [Resets -> ResetIoType] /\ pending' \in [Threads -> SUBSET Resets]
    BY <1>8 DEF CompletePending, Rest, ResetIoType
  <2> QED BY <1>8, <2>1 DEF CompletePending, Rest
<1>9. CASE ResetComplete(s)
  <2> DEFINE c == [ctrlr EXCEPT !.resetting = FALSE]
  <2>1. c \in CtrlrType /\ c.unregisters \in Nat
    BY <1>1 DEF CtrlrType, Rest
  <2>2. OpAfterReset(s, c) /\ AnswerReset /\ UNCHANGED channelVars
    BY <1>9 DEF ResetComplete
  <2> HIDE DEF c
  <2>3. lib' \in LibType
    BY <2>2, DisconnectLib DEF OpAfterReset, Rest
  <2>4. ns' \in NsType
    BY <2>2 DEF OpAfterReset, Rest, NsType
  <2>5. ctrlr'.unregisters \in Nat
    BY <2>1, <2>2, UnregisterCounts DEF OpAfterReset, CtrlrType
  <2>6. resetIo' \in [Resets -> ResetIoType] /\ reset_cb' \in Resets \cup {None}
        /\ pending' = pending
    BY <2>2 DEF AnswerReset, Rest, ResetIoType
  <2> QED BY <2>2, <2>3, <2>4, <2>5, <2>6 DEF Rest
<1> QED BY <1>2, <1>3, <1>4, <1>5, <1>6, <1>7, <1>8, <1>9 DEF Chain

(* So do the threads' channels and qpairs. *)
LEMMA ThreadRest ==
    ASSUME IndInv, Rest, NEW t \in Threads, ThreadNext(t)
    PROVE  Rest'
<1> USE DEF channelVars, resetIoVars
<1>1. ctrlr \in CtrlrType
  BY DEF IndInv, Shape
<1>2. BeginReset => ctrlr'.unregisters = ctrlr.unregisters
  BY <1>1 DEF BeginReset, CtrlrType
<1>3. Release(ctrlr).unregisters \in Nat
  BY <1>1, ReleaseCounts DEF Rest
<1>4. CASE QpairDisconnected(t)
  BY <1>2, <1>4 DEF QpairDisconnected, Rest
<1>5. CASE OrphanDisconnected(t)
  BY <1>3, <1>5 DEF OrphanDisconnected, Rest
<1>6. CASE OpenChannel(t)
  BY <1>1, <1>6 DEF OpenChannel, Rest, CtrlrType
<1>7. CASE CloseChannel(t)
  BY <1>3, <1>7 DEF CloseChannel, Rest
<1>8. ASSUME NEW r \in Resets, SubmitReset(r, t) PROVE Rest'
  <2>1. \A stage \in {"new", "started", "pending", "done"} : [at |-> t, stage |-> stage] \in ResetIoType
    BY NumThreadsAssumption DEF ResetIoType, Threads
  <2>2. resetIo' \in [Resets -> ResetIoType]
    BY <1>8, <2>1 DEF SubmitReset, Rest
  <2>3. pending' \in [Threads -> SUBSET Resets] /\ reset_cb' \in Resets \cup {None}
    BY <1>8 DEF SubmitReset, Rest
  <2>4. ctrlr'.unregisters \in Nat
    BY <1>2, <1>8 DEF SubmitReset, Rest
  <2> QED BY <1>8, <2>2, <2>3, <2>4 DEF SubmitReset, Rest
<1> QED BY <1>4, <1>5, <1>6, <1>7, <1>8 DEF ThreadNext

(* So do the controller's life and its namespaces. *)
LEMMA LifeRest ==
    ASSUME IndInv, Rest, LifeNext
    PROVE  Rest'
<1> USE DEF channelVars, resetIoVars
<1>1. ctrlr \in CtrlrType
  BY DEF IndInv, Shape
<1>2. Release(ctrlr).unregisters \in Nat
  BY <1>1, ReleaseCounts DEF Rest
<1>3. CASE Delete
  BY <1>1, <1>3 DEF Delete, Rest, CtrlrType, NsType
<1>4. CASE DestructRelease
  <2> DEFINE c == [ctrlr EXCEPT !.attached = FALSE]
  <2>1. c \in CtrlrType /\ c.unregisters \in Nat
    BY <1>1 DEF CtrlrType, Rest
  <2>2. ctrlr' = Release(c)
    BY <1>4 DEF DestructRelease
  <2> HIDE DEF c
  <2>3. ctrlr'.unregisters \in Nat
    BY <2>1, <2>2, ReleaseCounts
  <2> QED BY <1>4, <2>3 DEF DestructRelease, Rest
<1>5. CASE CtrlrDelete \/ ClearCaches \/ ReadAnaLogPage \/ ResetRequested
  BY <1>1, <1>5
     DEF CtrlrDelete, ClearCaches, ReadAnaLogPage, ResetRequested, BeginReset, Rest, CtrlrType
<1>6. CASE HotRemoved
  BY <1>6 DEF HotRemoved, Rest, LibType
<1>7. CASE CachesCleared
  <2> DEFINE c == [ctrlr EXCEPT !.clearing = FALSE]
  <2>1. c \in CtrlrType /\ c.unregisters \in Nat
    BY <1>1 DEF CtrlrType, Rest
  <2>2. ctrlr' = UnregisterIfUnused(c)
    BY <1>7 DEF CachesCleared
  <2> HIDE DEF c
  <2>3. ctrlr'.unregisters \in Nat
    BY <2>1, <2>2, UnregisterCounts
  <2> QED BY <1>7, <2>3 DEF CachesCleared, Rest
<1>8. CASE AnaLogPageRead
  <2> DEFINE c == [ctrlr EXCEPT !.updating = FALSE]
  <2>1. c \in CtrlrType /\ c.unregisters \in Nat
    BY <1>1 DEF CtrlrType, Rest
  <2>2. PICK failed \in BOOLEAN :
           ctrlr' = IF CanBeUnregistered(c) THEN UnregisterIfUnused(c)
                    ELSE [c EXCEPT !.clearing = @ \/ (IsAvailable /\ ~failed)]
    BY <1>8 DEF AnaLogPageRead
  <2> HIDE DEF c
  <2>3. ctrlr'.unregisters \in Nat
    BY <2>1, <2>2, UnregisterCounts DEF CtrlrType
  <2> QED BY <1>8, <2>3 DEF AnaLogPageRead, Rest
<1>9. ASSUME NEW n \in Namespaces, NamespaceRemoved(n) PROVE Rest'
  BY <1>9 DEF NamespaceRemoved, Rest, NsType
<1>10. ASSUME NEW n \in Namespaces, NamespaceAdded(n) PROVE Rest'
  BY <1>1, <1>10 DEF NamespaceAdded, Rest, NsType, CtrlrType
<1>11. ASSUME NEW n \in Namespaces, DepopulateDone(n) PROVE Rest'
  BY <1>2, <1>11 DEF DepopulateDone, Rest, NsType
<1>12. ASSUME NEW n \in Namespaces, BdevDestruct(n) PROVE Rest'
  BY <1>2, <1>12 DEF BdevDestruct, Rest, NsType
<1> QED BY <1>3, <1>4, <1>5, <1>6, <1>7, <1>8, <1>9, <1>10, <1>11, <1>12 DEF LifeNext

(* Every step keeps Rest. *)
LEMMA NextRest == IndInv /\ Rest /\ [Next]_vars => Rest'
<1> SUFFICES ASSUME IndInv, Rest, [Next]_vars PROVE Rest'
  OBVIOUS
<1>1. CASE UNCHANGED vars
  BY <1>1 DEF vars, Rest
<1> QED BY <1>1, ChainRest, ThreadRest, LifeRest DEF Next

(* A controller that has just been attached has these types. *)
LEMMA InitRest == Init => Rest
  BY NumThreadsAssumption DEF Init, Rest, LibType, ResetIoType, NsType

(* The types of what the chains do not look at hold in every behaviour. *)
LEMMA SpecRest == Spec => [](IndInv /\ Rest)
  BY InitIndInv, NextIndInv, InitRest, NextRest, PTL DEF Spec

---------------------------------------------------------------------------
(* The references of the controller *)

(* The four summands of RefCounts. *)
Attachment == IF ctrlr.attached THEN 1 ELSE 0
Held == Cardinality(ns.tree \cup ns.bdev)
Channels == Cardinality({t \in Threads : HasChannel(t)})
Orphans == Total(orphans, Threads)

RefIsSum == ctrlr.ref = Attachment + Held + Channels + Orphans

(* RefCounts adds them up, before a step and after it. *)
LEMMA RefRestated == RefCounts <=> RefIsSum
<1>1. MapThenSumSet(LAMBDA t : orphans[t], Threads) = Orphans
  BY MapThenSumIsTotal, Zenon DEF Orphans
<1> QED BY <1>1, Zenon DEF RefCounts, RefIsSum, Attachment, Held, Channels

(* The same after a step: the lemma holds in every state. *)
LEMMA RefRestatedPrimed == RefCounts' <=> RefIsSum'
  BY RefRestated, PTL

(* Each of them is a number of things that exist. *)
LEMMA SummandsType ==
    ASSUME Rest
    PROVE  /\ Attachment \in 0 .. 1 /\ Held \in Nat /\ Channels \in Nat /\ Orphans \in Nat
           /\ IsFiniteSet(ns.tree \cup ns.bdev) /\ IsFiniteSet({t \in Threads : HasChannel(t)})
           /\ IsFiniteSet(Threads)
<1>1. ns.tree \cup ns.bdev \subseteq Namespaces
  BY DEF Rest, NsType
<1>2. IsFiniteSet(ns.tree \cup ns.bdev)
  BY <1>1, NamespacesAssumption, FS_Subset
<1>3. IsFiniteSet(Threads)
  BY NumThreadsAssumption, FS_Interval DEF Threads
<1>4. IsFiniteSet({t \in Threads : HasChannel(t)})
  BY <1>3, FS_Subset
<1>5. Held \in Nat /\ Channels \in Nat
  BY <1>2, <1>4, FS_CardinalityType DEF Held, Channels
<1>6. Orphans \in Nat
  BY <1>3, TotalNat DEF Orphans, Rest
<1> QED BY <1>2, <1>3, <1>4, <1>5, <1>6 DEF Attachment

(* A step that changes no reference and nothing that is counted. *)
QuietRef ==
    /\ ctrlr'.ref = ctrlr.ref /\ ctrlr'.attached = ctrlr.attached
    /\ ns'.tree = ns.tree /\ ns'.bdev = ns.bdev /\ orphans' = orphans
    /\ \A t \in Threads : qpair'[t] = "none" <=> qpair[t] = "none"

(* A step that leaves the holders of references alone keeps their sum. *)
LEMMA RefQuiet ==
    ASSUME RefCounts, QuietRef
    PROVE  RefCounts'
<1>1. {t \in Threads : qpair'[t] # "none"} = {t \in Threads : qpair[t] # "none"}
  BY DEF QuietRef
<1>2. /\ Attachment' = Attachment /\ Held' = Held /\ Channels' = Channels /\ Orphans' = Orphans
  BY <1>1 DEF QuietRef, Attachment, Held, Channels, Orphans, HasChannel
<1> QED BY <1>2, RefRestated, RefRestatedPrimed DEF QuietRef, RefIsSum

(* The handlers of a chain take and release no reference. *)
LEMMA ChainQuiet ==
    ASSUME IndInv, Rest, NEW s \in Sequences, Chain(s)
    PROVE  QuietRef
<1> USE DEF channelVars
<1>1. ctrlr \in CtrlrType
  BY DEF IndInv, Shape
<1>2. CASE ResetSent(s) \/ ReconnectPoll(s) \/ SkipChannel(s) \/ DestroyQpair(s)
           \/ DestroyDone(s) \/ CreateDone(s) \/ CompletePending(s)
  BY <1>2 DEF ResetSent, ReconnectPoll, SkipChannel, DestroyQpair, DestroyDone,
              CreateDone, CompletePending, QuietRef
<1>3. CASE Disconnected(s) \/ DelayTimerExpired(s)
  BY <1>1, <1>3 DEF Disconnected, DelayTimerExpired, QuietRef, CtrlrType
<1>4. CASE CreateQpair(s)
  BY <1>4 DEF CreateQpair, QuietRef, HasChannel, IndInv, Shape
<1>5. CASE ResetComplete(s)
  <2> DEFINE c == [ctrlr EXCEPT !.resetting = FALSE]
  <2>1. c \in CtrlrType /\ c.ref = ctrlr.ref /\ c.attached = ctrlr.attached
    BY <1>1 DEF CtrlrType
  <2>2. OpAfterReset(s, c) /\ UNCHANGED channelVars
    BY <1>5 DEF ResetComplete
  <2> HIDE DEF c
  <2> DEFINE u == UnregisterIfUnused(c)
             v == [c EXCEPT !.started = FALSE]
             w == [c EXCEPT !.destruct = TRUE]
  <2>5. /\ u.ref = c.ref /\ u.attached = c.attached
        /\ v.ref = c.ref /\ v.attached = c.attached
        /\ w.ref = c.ref /\ w.attached = c.attached
    BY <2>1, UnregisterCounts DEF CtrlrType
  <2>6. ctrlr' \in {u, v, w, c}
    BY <2>2 DEF OpAfterReset
  <2> HIDE DEF u, v, w
  <2>3. ctrlr'.ref = c.ref /\ ctrlr'.attached = c.attached
    BY <2>5, <2>6
  <2>4. ns'.tree = ns.tree /\ ns'.bdev = ns.bdev
    BY <2>2 DEF OpAfterReset, Rest, NsType
  <2> QED BY <2>1, <2>2, <2>3, <2>4 DEF QuietRef
<1> QED BY <1>2, <1>3, <1>4, <1>5 DEF Chain

(* What the steps of the channels and of the qpairs do to the count. *)
LEMMA ThreadRef ==
    ASSUME IndInv, Rest, RefCounts, NEW t \in Threads, ThreadNext(t)
    PROVE  RefCounts'
<1> USE DEF channelVars
<1>1. /\ ctrlr \in CtrlrType /\ qpair \in [Threads -> {"none", "null", "live"}]
      /\ orphans \in [Threads -> Nat] /\ ctrlr.ref \in Int
  BY DEF IndInv, Shape, Rest, CtrlrType
<1>2. RefIsSum
  BY RefRestated
<1>3. BeginReset => ctrlr'.ref = ctrlr.ref /\ ctrlr'.attached = ctrlr.attached
  BY <1>1 DEF BeginReset, CtrlrType
<1>4. Release(ctrlr).ref = ctrlr.ref - 1 /\ Release(ctrlr).attached = ctrlr.attached
  BY <1>1, ReleaseCounts
<1> DEFINE C == {u \in Threads : qpair[u] # "none"}
           D == {u \in Threads : qpair'[u] # "none"}
<1>5. /\ IsFiniteSet(Threads) /\ IsFiniteSet(C)
      /\ Channels = Cardinality(C) /\ Channels' = Cardinality(D)
      /\ Attachment \in Nat /\ Held \in Nat /\ Channels \in Nat /\ Orphans \in Nat
  BY SummandsType DEF HasChannel, Channels
<1>6. CASE QpairDisconnected(t)
  <2>1. QuietRef
    BY <1>1, <1>3, <1>6 DEF QpairDisconnected, QuietRef
  <2> QED BY <2>1, RefQuiet
<1>7. ASSUME NEW r \in Resets, SubmitReset(r, t) PROVE RefCounts'
  <2>1. QuietRef
    BY <1>3, <1>7 DEF SubmitReset, QuietRef
  <2> QED BY <2>1, RefQuiet
<1>8. CASE OrphanDisconnected(t)
  <2> DEFINE new == orphans'
  <2>1. /\ new[t] = orphans[t] - 1 /\ new[t] \in Int /\ \A u \in Threads : u # t => new[u] = orphans[u]
        /\ \A u \in Threads : orphans[u] \in Int
    BY <1>1, <1>8 DEF OrphanDisconnected
  <2>2. Total(new, Threads) = Total(orphans, Threads) + (new[t] - orphans[t])
    <3> HIDE DEF new
    <3> QED BY <2>1, <1>5, TotalChanged
  <2>3. Attachment' = Attachment /\ Held' = Held /\ Channels' = Channels /\ ctrlr'.ref = ctrlr.ref - 1
    BY <1>4, <1>8 DEF OrphanDisconnected, Attachment, Held, Channels, HasChannel
  <2>4. Orphans' = Orphans - 1
    BY <2>1, <2>2, <1>1, <1>5 DEF Orphans
  <2> QED BY <1>1, <1>2, <1>5, <2>3, <2>4, RefRestatedPrimed DEF RefIsSum
<1>9. CASE OpenChannel(t)
  <2>1. /\ ctrlr'.ref = ctrlr.ref + 1 /\ ctrlr'.attached = ctrlr.attached
    BY <1>1, <1>9 DEF OpenChannel, CtrlrType
  <2>2. t \notin C /\ D = C \cup {t}
    BY <1>1, <1>9 DEF OpenChannel, HasChannel
  <2>3. Cardinality(D) = Cardinality(C) + 1
    BY <2>2, <1>5, FS_AddElement
  <2>4. Attachment' = Attachment /\ Held' = Held /\ Orphans' = Orphans
    BY <1>9, <2>1 DEF OpenChannel, Attachment, Held, Orphans
  <2> QED BY <1>1, <1>2, <1>5, <2>1, <2>3, <2>4, RefRestatedPrimed DEF RefIsSum
<1>10. CASE CloseChannel(t)
  <2>1. t \in C /\ D = C \ {t}
    BY <1>1, <1>10 DEF CloseChannel, HasChannel
  <2>2. Cardinality(D) = Cardinality(C) - 1
    BY <2>1, <1>5, FS_RemoveElement
  <2>3. CASE qpair[t] = "live"
    <3> DEFINE new == orphans'
    <3>1. /\ new[t] = orphans[t] + 1 /\ new[t] \in Int /\ \A u \in Threads : u # t => new[u] = orphans[u]
          /\ \A u \in Threads : orphans[u] \in Int
      BY <1>1, <1>10, <2>3 DEF CloseChannel
    <3>2. Total(new, Threads) = Total(orphans, Threads) + (new[t] - orphans[t])
      <4> HIDE DEF new
      <4> QED BY <3>1, <1>5, TotalChanged
    <3>3. Attachment' = Attachment /\ Held' = Held /\ ctrlr'.ref = ctrlr.ref
      BY <1>10, <2>3 DEF CloseChannel, Attachment, Held
    <3>4. Orphans' = Orphans + 1 BY <3>1, <3>2, <1>1, <1>5 DEF Orphans
    <3> QED BY <1>1, <1>2, <1>5, <2>2, <3>3, <3>4, RefRestatedPrimed DEF RefIsSum
  <2>4. CASE qpair[t] # "live"
    <3>1. Attachment' = Attachment /\ Held' = Held /\ Orphans' = Orphans /\ ctrlr'.ref = ctrlr.ref - 1
      BY <1>4, <1>10, <2>4 DEF CloseChannel, Attachment, Held, Orphans
    <3> QED BY <1>1, <1>2, <1>5, <2>2, <3>1, RefRestatedPrimed DEF RefIsSum
  <2> QED BY <2>3, <2>4
<1> QED BY <1>6, <1>7, <1>8, <1>9, <1>10 DEF ThreadNext

(* What the life of the controller and of its namespaces does to it. *)
LEMMA LifeRef ==
    ASSUME IndInv, Rest, RefCounts, LifeNext
    PROVE  RefCounts'
<1> USE DEF channelVars
<1>1. ctrlr \in CtrlrType /\ ctrlr.ref \in Int
  BY DEF IndInv, Shape, CtrlrType
<1>2. RefIsSum
  BY RefRestated
<1>4. Release(ctrlr).ref = ctrlr.ref - 1 /\ Release(ctrlr).attached = ctrlr.attached
  BY <1>1, ReleaseCounts
<1> DEFINE H == ns.tree \cup ns.bdev
           K == ns'.tree \cup ns'.bdev
<1>5. /\ IsFiniteSet(H) /\ Held = Cardinality(H) /\ Held' = Cardinality(K)
      /\ Attachment \in Nat /\ Held \in Nat /\ Channels \in Nat /\ Orphans \in Nat
  BY SummandsType DEF Held
<1>6. ASSUME UNCHANGED <<qpair, orphans>> PROVE Channels' = Channels /\ Orphans' = Orphans
  BY <1>6 DEF Channels, HasChannel, Orphans
<1>7. ASSUME Delete \/ CtrlrDelete \/ HotRemoved \/ ResetRequested \/ ClearCaches \/ ReadAnaLogPage
      PROVE RefCounts'
  <2>1. QuietRef
    BY <1>1, <1>7 DEF Rest, NsType, Delete, CtrlrDelete, HotRemoved, ResetRequested, BeginReset,
       ClearCaches, ReadAnaLogPage, QuietRef, CtrlrType
  <2> QED BY <2>1, RefQuiet
<1>8. CASE CachesCleared
  <2> DEFINE c == [ctrlr EXCEPT !.clearing = FALSE]
  <2>1. c \in CtrlrType /\ c.ref = ctrlr.ref /\ c.attached = ctrlr.attached
    BY <1>1 DEF CtrlrType
  <2>2. ctrlr' = UnregisterIfUnused(c)
    BY <1>8 DEF CachesCleared
  <2> HIDE DEF c
  <2>3. ctrlr'.ref = ctrlr.ref /\ ctrlr'.attached = ctrlr.attached
    BY <2>1, <2>2, UnregisterCounts
  <2>4. QuietRef
    BY <1>8, <2>3 DEF CachesCleared, QuietRef
  <2> QED BY <2>4, RefQuiet
<1>9. CASE AnaLogPageRead
  <2> DEFINE c == [ctrlr EXCEPT !.updating = FALSE]
             u == UnregisterIfUnused(c)
  <2>1. c \in CtrlrType /\ c.ref = ctrlr.ref /\ c.attached = ctrlr.attached
    BY <1>1 DEF CtrlrType
  <2>2. PICK failed \in BOOLEAN :
           ctrlr' = IF CanBeUnregistered(c) THEN UnregisterIfUnused(c)
                    ELSE [c EXCEPT !.clearing = @ \/ (IsAvailable /\ ~failed)]
    BY <1>9 DEF AnaLogPageRead
  <2> HIDE DEF c
  <2>3. ctrlr'.ref = c.ref /\ ctrlr'.attached = c.attached
    BY <2>1, <2>2, UnregisterCounts DEF CtrlrType
  <2>4. QuietRef
    BY <1>9, <2>1, <2>3 DEF AnaLogPageRead, QuietRef
  <2> QED BY <2>4, RefQuiet
<1>10. CASE DestructRelease
  <2> DEFINE c == [ctrlr EXCEPT !.attached = FALSE]
  <2>1. c \in CtrlrType /\ c.ref = ctrlr.ref /\ c.attached = FALSE
    BY <1>1 DEF CtrlrType
  <2>2. ctrlr' = Release(c) /\ ctrlr.attached /\ UNCHANGED <<ns, qpair, orphans>>
    BY <1>10 DEF DestructRelease
  <2> HIDE DEF c
  <2>3. ctrlr'.ref = ctrlr.ref - 1 /\ ctrlr'.attached = FALSE
    BY <2>1, <2>2, ReleaseCounts
  <2>4. Attachment = 1 /\ Attachment' = 0 /\ Held' = Held
    BY <2>2, <2>3 DEF Attachment, Held
  <2> QED BY <1>1, <1>2, <1>5, <1>6, <2>2, <2>3, <2>4, RefRestatedPrimed DEF RefIsSum
<1>11. ASSUME NEW n \in Namespaces, NamespaceRemoved(n) PROVE RefCounts'
  <2>1. QuietRef
    BY <1>11 DEF Rest, NsType, NamespaceRemoved, QuietRef
  <2> QED BY <2>1, RefQuiet
<1>12. ASSUME NEW n \in Namespaces, NamespaceAdded(n) PROVE RefCounts'
  <2>1. n \notin H /\ K = H \cup {n} /\ UNCHANGED <<qpair, orphans>>
    BY <1>12 DEF NamespaceAdded
  <2>2. Held' = Held + 1
    BY <2>1, <1>5, FS_AddElement
  <2>3. ctrlr'.ref = ctrlr.ref + 1 /\ Attachment' = Attachment
    BY <1>1, <1>12 DEF NamespaceAdded, CtrlrType, Attachment
  <2> QED BY <1>1, <1>2, <1>5, <1>6, <2>1, <2>2, <2>3, RefRestatedPrimed DEF RefIsSum
<1>13. ASSUME NEW n \in Namespaces, DepopulateDone(n) PROVE RefCounts'
  <2>1. n \in ns.tree /\ ns'.tree = ns.tree \ {n} /\ ns'.bdev = ns.bdev /\ UNCHANGED <<qpair, orphans>>
    BY <1>13 DEF DepopulateDone, Rest, NsType
  <2>2. CASE n \in ns.bdev
    <3>1. K = H /\ ctrlr' = ctrlr BY <1>13, <2>1, <2>2 DEF DepopulateDone
    <3> QED
      BY <1>1, <1>2, <1>5, <1>6, <2>1, <3>1, RefRestatedPrimed DEF RefIsSum, Attachment
  <2>3. CASE n \notin ns.bdev
    <3>1. n \in H /\ K = H \ {n} /\ ctrlr' = Release(ctrlr)
      BY <1>13, <2>1, <2>3 DEF DepopulateDone
    <3>2. Cardinality(H \ {n}) = Cardinality(H) - 1
      BY <1>5, <3>1, FS_RemoveElement, SMTT(30)
    <3>3. Held' = Held - 1 BY <1>5, <3>1, <3>2
    <3> QED
      BY <1>1, <1>2, <1>4, <1>5, <1>6, <2>1, <3>1, <3>3, RefRestatedPrimed DEF RefIsSum, Attachment
  <2> QED BY <2>2, <2>3
<1>14. ASSUME NEW n \in Namespaces, BdevDestruct(n) PROVE RefCounts'
  <2>1. n \in ns.bdev /\ ns'.bdev = ns.bdev \ {n} /\ ns'.tree = ns.tree /\ UNCHANGED <<qpair, orphans>>
    BY <1>14 DEF BdevDestruct, Rest, NsType
  <2>2. CASE n \in ns.tree
    <3>1. K = H /\ ctrlr' = ctrlr BY <1>14, <2>1, <2>2 DEF BdevDestruct
    <3> QED
      BY <1>1, <1>2, <1>5, <1>6, <2>1, <3>1, RefRestatedPrimed DEF RefIsSum, Attachment
  <2>3. CASE n \notin ns.tree
    <3>1. n \in H /\ K = H \ {n} /\ ctrlr' = Release(ctrlr)
      BY <1>14, <2>1, <2>3 DEF BdevDestruct
    <3>2. Cardinality(H \ {n}) = Cardinality(H) - 1
      BY <1>5, <3>1, FS_RemoveElement, SMTT(30)
    <3>3. Held' = Held - 1 BY <1>5, <3>1, <3>2
    <3> QED
      BY <1>1, <1>2, <1>4, <1>5, <1>6, <2>1, <3>1, <3>3, RefRestatedPrimed DEF RefIsSum, Attachment
  <2> QED BY <2>2, <2>3
<1> QED BY <1>7, <1>8, <1>9, <1>10, <1>11, <1>12, <1>13, <1>14 DEF LifeNext

(* At attach: one reference for the attachment, one for each namespace. *)
LEMMA InitRef == Init => RefCounts
<1> SUFFICES ASSUME Init PROVE RefCounts
  OBVIOUS
<1>1. Cardinality(Namespaces) \in Nat
  BY NamespacesAssumption, FS_CardinalityType
<1>2. Attachment = 1 /\ Held = Cardinality(Namespaces)
  <2>1. Namespaces \cup Namespaces = Namespaces
    OBVIOUS
  <2> QED BY <2>1 DEF Init, Attachment, Held
<1>3. Channels = 0
  <2>1. {t \in Threads : HasChannel(t)} = {}
    BY DEF Init, HasChannel
  <2> QED BY <2>1, FS_EmptySet DEF Channels
<1>4. Orphans = 0
  <2>1. IsFiniteSet(Threads) /\ \A t \in Threads : orphans[t] = 0
    BY NumThreadsAssumption, FS_Interval DEF Init, Threads
  <2> QED BY <2>1, TotalZero DEF Orphans
<1>5. ctrlr.ref = 1 + Cardinality(Namespaces)
  BY DEF Init
<1> QED BY <1>1, <1>2, <1>3, <1>4, <1>5, RefRestated DEF RefIsSum

(* Every step keeps the sum of the references. *)
LEMMA NextRef == IndInv /\ Rest /\ RefCounts /\ [Next]_vars => RefCounts'
<1> SUFFICES ASSUME IndInv, Rest, RefCounts, [Next]_vars PROVE RefCounts'
  OBVIOUS
<1>1. CASE UNCHANGED vars
  <2>1. QuietRef
    BY <1>1 DEF vars, QuietRef
  <2> QED BY <2>1, RefQuiet
<1>2. ASSUME NEW s \in Sequences, Chain(s) PROVE RefCounts'
  BY <1>2, ChainQuiet, RefQuiet
<1> QED BY <1>1, <1>2, ThreadRef, LifeRef DEF Next

(* Every reference is released exactly once, whoever of several users
   comes last: the depopulation or the bdev, the channel or its qpair. *)
THEOREM ReferencesCounted == Spec => []RefCounts
  BY InitRef, NextRef, InitRest, NextRest, InitIndInv, NextIndInv, PTL DEF Spec

(* The variables keep their types; the count of references, which the code
   decrements in five places, never falls below zero, because it is a sum. *)
THEOREM CtrlrTyping == Spec => []TypeOK
<1>1. ASSUME IndInv, Rest, RefCounts PROVE TypeOK
  <2>1. ctrlr.ref \in Nat
    <3>1. RefIsSum BY <1>1, RefRestated
    <3> QED BY <1>1, <3>1, SummandsType DEF RefIsSum
  <2> QED
    BY <1>1, <2>1 DEF IndInv, Shape, CtrlrType, Rest, LibType, ResetIoType, NsType, TypeOK
<1> QED BY <1>1, SpecRest, ReferencesCounted, PTL

---------------------------------------------------------------------------
(* Where a chain may be while the library or the controller is resetting. *)
Phase(w, l, c, o) ==
    /\ l.resetting => \/ w.fn \in Waits \cup {"reconnect", "delay"}
                      \/ w.fn \in {"destroy", "parked"} /\ w.ok /\ ~o.fabrics
    /\ w.fn = "to_destroy" => ~o.fabrics
    /\ c.resetting \/ w.fn \in {"to_delay", "delay"} \/ (l.removed /\ o.delay)

(* A chain that runs without the flag resetting waits for its delay or had
   its disconnect refused; the library is left resetting only by a delay
   that the destruction cut short. *)
Phases ==
    Running => /\ \A s \in Active : Phase(task[s], lib, ctrlr, opts)
               /\ lib.resetting /\ Active = {} => ctrlr.destruct

(* A step that moves no chain and leaves the library's reset alone. *)
LEMMA PhasesKept ==
    ASSUME Phases, UNCHANGED <<opts, task>>,
           lib'.resetting = lib.resetting, lib.removed => lib'.removed,
           ctrlr'.resetting = ctrlr.resetting, ctrlr'.asserted = ctrlr.asserted,
           ctrlr.destruct => ctrlr'.destruct
    PROVE  Phases'
  BY DEF Phases, Phase, Running, Active

(* A handler of chain s leaves task w to it. *)
LEMMA ChainPhases ==
    ASSUME IndInv, Running, NEW s \in Sequences, task[s].fn # "idle", NEW w,
           task' = [task EXCEPT ![s] = w],
           w # Idle => Phase(w, lib', ctrlr', opts'),
           w = Idle /\ lib'.resetting => ctrlr'.destruct
    PROVE  Phases'
<1>1. Active = {s}
  BY ActiveChain DEF IndInv, OneResetAtATime, Running, Active
<1>2. /\ task'[s] = w
      /\ \A u \in Sequences \ {s} : task'[u] = task[u]
  BY DEF IndInv, Shape
<1>3. Active' = IF w = Idle THEN {} ELSE {s}
  BY <1>1, <1>2 DEF Active
<1> QED BY <1>2, <1>3 DEF Phases

(* A chain may be continued where it is. *)
LEMMA PhaseOfChain ==
    ASSUME Phases, Running, NEW s \in Sequences, task[s].fn # "idle"
    PROVE  Phase(task[s], lib, ctrlr, opts)
  BY ActiveChain DEF Phases

(* The fields of a walk. *)
LEMMA WalkFields ==
    ASSUME NEW f, f # "idle", NEW success
    PROVE  Walk(f, success).fn = f /\ Walk(f, success).ok = success /\ Walk(f, success) # Idle
  BY DEF Walk, Idle

(* The steps of a walk. *)
LEMMA ContinueFields ==
    ASSUME NEW w \in TaskType
    PROVE  Continue(w).fn = w.fn /\ Continue(w).ok = w.ok
  BY DEF Continue, TaskType

(* A disconnect, once the library is not resetting: refused or not. *)
LEMMA DisconnectPhases ==
    ASSUME IndInv, Rest, Running, NEW s \in Sequences, task[s].fn # "idle",
           NEW next \in Waits, Disconnect(s, next), ~lib.resetting,
           next = "to_destroy" => ~opts.fabrics, UNCHANGED opts,
           \/ ctrlr'.resetting
           \/ opts.delay /\ (next = "to_delay" \/ lib.removed)
    PROVE  Phases'
<1>1. CASE lib.removed
  <2> DEFINE w == Walk("complete", FALSE)
  <2>1. w.fn = "complete"
    BY WalkFields
  <2>2. task' = [task EXCEPT ![s] = w] /\ lib' = lib
    BY <1>1 DEF Disconnect
  <2> HIDE DEF w
  <2>3. Phase(w, lib', ctrlr', opts') /\ w # Idle
    BY <1>1, <2>1, <2>2, IdleType DEF Phase
  <2> QED BY <2>2, <2>3, ChainPhases
<1>2. CASE ~lib.removed
  <2> DEFINE w == [Idle EXCEPT !.fn = next]
  <2>1. w.fn = next /\ next # "idle"
    BY DEF Idle, Waits
  <2>2. task' = [task EXCEPT ![s] = w] /\ lib' = [lib EXCEPT !.resetting = TRUE, !.up = FALSE]
    BY <1>2 DEF Disconnect
  <2>3. lib'.removed = lib.removed
    BY <2>2 DEF Rest, LibType
  <2> HIDE DEF w
  <2>4. Phase(w, lib', ctrlr', opts') /\ w # Idle
    BY <1>2, <2>1, <2>3, IdleType DEF Phase
  <2> QED BY <2>2, <2>4, ChainPhases
<1> QED BY <1>1, <1>2

(* The handlers of a chain. *)
LEMMA ChainKeepsPhases ==
    ASSUME IndInv, Rest, Phases, NEW s \in Sequences, Chain(s)
    PROVE  Phases'
<1> USE DEF channelVars, resetIoVars
<1>1. Running /\ task[s].fn # "idle" /\ task[s] \in TaskType /\ ctrlr \in CtrlrType /\ lib \in LibType
      /\ opts \in OptionsType
  BY DEF IndInv, Shape, Rest, Chain, ResetSent, Disconnected, ReconnectPoll, DelayTimerExpired,
     SkipChannel, DestroyQpair, DestroyDone, CreateQpair, CreateDone, CompletePending,
     ResetComplete, Walks
<1>2. Phase(task[s], lib, ctrlr, opts)
  BY <1>1, PhaseOfChain
<1>3. CASE ResetSent(s)
  <2>1. ~lib.resetting
    BY <1>2, <1>3 DEF ResetSent, Phase, Waits
  <2>2. CASE opts.fabrics
    <3> DEFINE w == Walk("destroy", TRUE)
    <3>1. w.fn = "destroy" /\ w # Idle BY WalkFields
    <3>2. task' = [task EXCEPT ![s] = w] /\ UNCHANGED <<lib, ctrlr, opts>>
      BY <1>3, <2>2 DEF ResetSent
    <3> HIDE DEF w
    <3>3. Phase(w, lib', ctrlr', opts')
      BY <1>2, <1>3, <2>1, <3>1, <3>2 DEF Phase, ResetSent
    <3> QED BY <1>1, <3>1, <3>2, <3>3, ChainPhases
  <2>3. CASE ~opts.fabrics
    <3>1. Disconnect(s, "to_destroy") /\ UNCHANGED <<opts, ctrlr>>
      BY <1>3, <2>3 DEF ResetSent
    <3>2. ctrlr'.resetting \/ (opts.delay /\ lib.removed)
      BY <1>2, <1>3, <3>1 DEF Phase, ResetSent
    <3> QED BY <1>1, <2>1, <2>3, <3>1, <3>2, DisconnectPhases DEF Waits
  <2> QED BY <2>2, <2>3
<1>4. CASE Disconnected(s)
  <2>1. UNCHANGED <<lib, opts>> /\ ctrlr'.resetting = ctrlr.resetting
    BY <1>1, <1>4 DEF Disconnected, CtrlrType
  <2>2. CASE task[s].fn = "to_destroy"
    <3> DEFINE w == Walk("destroy", TRUE)
    <3>1. w.fn = "destroy" /\ w # Idle /\ w.ok = TRUE BY WalkFields
    <3>2. task' = [task EXCEPT ![s] = w] BY <1>4, <2>2 DEF Disconnected
    <3> HIDE DEF w
    <3>3. Phase(w, lib', ctrlr', opts') BY <1>2, <2>1, <2>2, <3>1 DEF Phase
    <3> QED BY <1>1, <3>1, <3>2, <3>3, ChainPhases
  <2>3. CASE task[s].fn = "to_reconnect"
    <3> DEFINE w == [Idle EXCEPT !.fn = "reconnect"]
    <3>1. w.fn = "reconnect" /\ w # Idle BY DEF Idle
    <3>2. task' = [task EXCEPT ![s] = w] BY <1>4, <2>3 DEF Disconnected
    <3> HIDE DEF w
    <3>3. Phase(w, lib', ctrlr', opts') BY <1>2, <2>1, <2>3, <3>1 DEF Phase
    <3> QED BY <1>1, <3>1, <3>2, <3>3, ChainPhases
  <2>4. CASE task[s].fn = "to_delay"
    <3> DEFINE w == [Idle EXCEPT !.fn = "delay"]
    <3>1. w.fn = "delay" /\ w # Idle BY DEF Idle
    <3>2. task' = [task EXCEPT ![s] = w] BY <1>4, <2>4 DEF Disconnected
    <3> HIDE DEF w
    <3>3. Phase(w, lib', ctrlr', opts') BY <1>2, <2>1, <2>4, <3>1 DEF Phase
    <3> QED BY <1>1, <3>1, <3>2, <3>3, ChainPhases
  <2> QED BY <1>4, <2>2, <2>3, <2>4 DEF Disconnected
<1>5. CASE ReconnectPoll(s)
  <2>1. /\ ctrlr' = ctrlr /\ ~lib'.resetting /\ lib'.removed = lib.removed
        /\ opts'.delay = opts.delay /\ opts'.fabrics = opts.fabrics
    BY <1>1, <1>5 DEF ReconnectPoll, LibType, OptionsType
  <2>2. PICK f \in {"create", "complete"} : \E ok \in BOOLEAN : task' = [task EXCEPT ![s] = Walk(f, ok)]
    BY <1>5 DEF ReconnectPoll
  <2>3. PICK ok \in BOOLEAN : task' = [task EXCEPT ![s] = Walk(f, ok)]
    BY <2>2
  <2>4. Walk(f, ok).fn = f /\ Walk(f, ok) # Idle
    BY WalkFields
  <2>5. Phase(Walk(f, ok), lib', ctrlr', opts')
    BY <1>2, <1>5, <2>1, <2>4 DEF Phase, ReconnectPoll
  <2> QED BY <1>1, <2>3, <2>4, <2>5, ChainPhases
<1>6. CASE DelayTimerExpired(s)
  <2>1. CASE ctrlr.destruct
    <3>1. task' = [task EXCEPT ![s] = Idle] /\ ctrlr'.destruct
      BY <1>1, <1>6, <2>1 DEF DelayTimerExpired, CtrlrType
    <3> QED BY <1>1, <3>1, ChainPhases
  <2>2. CASE ~ctrlr.destruct
    <3> DEFINE w == [Idle EXCEPT !.fn = "reconnect"]
    <3>1. w.fn = "reconnect" /\ w # Idle BY DEF Idle
    <3>2. task' = [task EXCEPT ![s] = w] /\ ctrlr'.resetting
      BY <1>1, <1>6, <2>2 DEF DelayTimerExpired, CtrlrType
    <3> HIDE DEF w
    <3>3. Phase(w, lib', ctrlr', opts') BY <3>1, <3>2 DEF Phase
    <3> QED BY <1>1, <3>1, <3>2, <3>3, ChainPhases
  <2> QED BY <2>1, <2>2
<1>7. CASE SkipChannel(s) \/ CompletePending(s)
  <2> DEFINE w == Continue(task[s])
  <2>1. w.fn = task[s].fn /\ w.ok = task[s].ok
    BY <1>1, ContinueFields
  <2>2. task' = [task EXCEPT ![s] = w] /\ UNCHANGED <<lib, ctrlr, opts>>
    BY <1>7 DEF SkipChannel, CompletePending
  <2> HIDE DEF w
  <2>3. Phase(w, lib', ctrlr', opts') /\ w # Idle
    BY <1>1, <1>2, <2>1, <2>2, IdleType DEF Phase
  <2> QED BY <1>1, <2>2, <2>3, ChainPhases
<1>8. CASE DestroyQpair(s)
  <2>1. \E w : /\ task' = [task EXCEPT ![s] = w] /\ w.fn \in {"parked", "destroy"} /\ w.ok = task[s].ok
    <3>1. CASE qpair[task[s].at] = "live"
      <4>1. task' = [task EXCEPT ![s] = [task[s] EXCEPT !.fn = "parked"]]
        BY <1>8, <3>1 DEF DestroyQpair, IndInv, Shape
      <4>2. /\ [task[s] EXCEPT !.fn = "parked"].fn = "parked"
            /\ [task[s] EXCEPT !.fn = "parked"].ok = task[s].ok
        BY <1>1 DEF TaskType
      <4> QED BY <4>1, <4>2
    <3>2. CASE qpair[task[s].at] # "live"
      BY <1>1, <1>8, <3>2, ContinueFields DEF DestroyQpair
    <3> QED BY <3>1, <3>2
  <2>2. PICK w : /\ task' = [task EXCEPT ![s] = w] /\ w.fn \in {"parked", "destroy"} /\ w.ok = task[s].ok
    BY <2>1
  <2>3. UNCHANGED <<lib, ctrlr, opts>>
    BY <1>8 DEF DestroyQpair
  <2>4. Phase(w, lib', ctrlr', opts') /\ w # Idle
    BY <1>2, <1>8, <2>2, <2>3, IdleType DEF Phase, DestroyQpair, Waits
  <2> QED BY <1>1, <2>2, <2>4, ChainPhases
<1>9. CASE DestroyDone(s)
  <2>1. ctrlr' = ctrlr /\ opts' = opts /\ task[s].fn = "destroy"
    BY <1>9 DEF DestroyDone
  <2>2. CASE ~task[s].ok
    <3> DEFINE w == Walk("complete", FALSE)
    <3>1. w.fn = "complete" /\ w # Idle BY WalkFields
    <3>2. task' = [task EXCEPT ![s] = w] /\ lib' = lib BY <1>9, <2>2 DEF DestroyDone
    <3> HIDE DEF w
    <3>3. Phase(w, lib', ctrlr', opts') BY <1>2, <2>1, <2>2, <3>1, <3>2 DEF Phase, Waits
    <3> QED BY <1>1, <3>1, <3>2, <3>3, ChainPhases
  <2>3. CASE task[s].ok /\ opts.fabrics
    <3>1. Disconnect(s, "to_reconnect") BY <1>9, <2>3 DEF DestroyDone
    <3>2. ~lib.resetting BY <1>2, <2>1, <2>3 DEF Phase, Waits
    <3>3. ctrlr'.resetting \/ (opts.delay /\ lib.removed) BY <1>2, <2>1 DEF Phase
    <3> QED BY <1>1, <2>1, <3>1, <3>2, <3>3, DisconnectPhases DEF Waits
  <2>4. CASE task[s].ok /\ ~opts.fabrics
    <3> DEFINE w == [Idle EXCEPT !.fn = "reconnect"]
    <3>1. w.fn = "reconnect" /\ w # Idle BY DEF Idle
    <3>2. task' = [task EXCEPT ![s] = w] /\ lib' = lib BY <1>9, <2>4 DEF DestroyDone
    <3> HIDE DEF w
    <3>3. Phase(w, lib', ctrlr', opts') BY <1>2, <2>1, <3>1, <3>2 DEF Phase
    <3> QED BY <1>1, <3>1, <3>2, <3>3, ChainPhases
  <2> QED BY <1>1, <2>2, <2>3, <2>4 DEF TaskType
<1>10. CASE CreateQpair(s) \/ CreateDone(s)
  <2>1. UNCHANGED <<lib, ctrlr, opts>> /\ task[s].fn = "create"
    BY <1>10 DEF CreateQpair, CreateDone
  <2>2. ~lib.resetting /\ (ctrlr.resetting \/ (lib.removed /\ opts.delay))
    BY <1>2, <2>1 DEF Phase, Waits
  <2>3. \E w : task' = [task EXCEPT ![s] = w] /\ w.fn \in Walks
    <3>1. CASE CreateQpair(s)
      <4>1. Continue(task[s]).fn \in Walks BY <1>1, <2>1, ContinueFields DEF Walks
      <4> QED BY <3>1, <4>1 DEF CreateQpair, Walks
    <3>2. CASE CreateDone(s)
      <4>1. Walk("complete", TRUE).fn \in Walks /\ Walk("destroy", FALSE).fn \in Walks
        BY WalkFields DEF Walks
      <4>2. \/ task' = [task EXCEPT ![s] = Walk("complete", TRUE)]
            \/ task' = [task EXCEPT ![s] = Walk("destroy", FALSE)]
        BY <3>2 DEF CreateDone
      <4> QED BY <4>1, <4>2
    <3> QED BY <1>10, <3>1, <3>2
  <2>4. PICK w : task' = [task EXCEPT ![s] = w] /\ w.fn \in Walks
    BY <2>3
  <2>5. Phase(w, lib', ctrlr', opts') /\ w # Idle
    BY <2>1, <2>2, <2>4, IdleType DEF Phase, Walks
  <2> QED BY <1>1, <2>4, <2>5, ChainPhases
<1>11. CASE ResetComplete(s)
  <2> DEFINE c == [ctrlr EXCEPT !.resetting = FALSE]
  <2>1. ~lib.resetting
    BY <1>2, <1>11 DEF Phase, ResetComplete, Waits
  <2>2. OpAfterReset(s, c) /\ UNCHANGED opts
    BY <1>11 DEF ResetComplete
  <2> HIDE DEF c
  <2>3. CASE task' = [task EXCEPT ![s] = Idle] /\ UNCHANGED lib
    BY <1>1, <2>1, <2>3, ChainPhases
  <2>4. CASE Disconnect(s, "to_delay") /\ opts.delay
    BY <1>1, <2>1, <2>2, <2>4, DisconnectPhases DEF Waits
  <2> QED BY <2>2, <2>3, <2>4 DEF OpAfterReset
<1> QED BY <1>3, <1>4, <1>5, <1>6, <1>7, <1>8, <1>9, <1>10, <1>11 DEF Chain

(* A new chain starts with the flag, and only when the library is at rest:
   otherwise the assertion ends the process. *)
LEMMA BeginKeepsPhases ==
    ASSUME IndInv, Phases, Running, BeginReset, UNCHANGED <<opts, lib>>
    PROVE  Phases'
<1> DEFINE w == [Idle EXCEPT !.fn = "send"]
<1>1. PICK s \in Sequences : task[s] = Idle /\ task' = [task EXCEPT ![s] = w]
  BY DEF BeginReset
<1>2. ctrlr'.resetting /\ ctrlr'.asserted = ctrlr.started /\ ~ctrlr.destruct
  BY DEF BeginReset, MayReset, IndInv, Shape, CtrlrType
<1>3. CASE ctrlr.started
  BY <1>2, <1>3 DEF Phases, Running
<1>4. CASE ~ctrlr.started
  <2>1. Active = {}
    BY <1>4 DEF IndInv, StartedWhileActive
  <2>2. ~lib.resetting
    BY <1>2, <2>1 DEF Phases
  <2>3. task'[s] = w /\ \A u \in Sequences \ {s} : task'[u] = task[u]
    BY <1>1 DEF IndInv, Shape
  <2>4. w.fn = "send"
    BY DEF Idle
  <2> HIDE DEF w
  <2>5. Active' = {s}
    BY <2>1, <2>3, <2>4, IdleType DEF Active
  <2>6. Phase(w, lib', ctrlr', opts')
    BY <1>2, <2>2, <2>4 DEF Phase
  <2> QED BY <2>3, <2>5, <2>6 DEF Phases
<1> QED BY <1>3, <1>4

(* A walk that is continued by the callback or by the channel's end. *)
LEMMA WalkOnKeepsPhases ==
    ASSUME IndInv, Phases, Running, NEW t \in Threads, iter[t] # None,
           task' = [task EXCEPT ![iter[t]] = [Continue(@) EXCEPT !.fn = "destroy"]],
           UNCHANGED <<opts, lib, ctrlr>>
    PROVE  Phases'
<1> DEFINE s == iter[t]
           w == [Continue(task[s]) EXCEPT !.fn = "destroy"]
<1>1. s \in Sequences /\ task[s] \in TaskType /\ task[s].fn = "parked"
  BY DEF IndInv, Shape, ParkedIsContinued
<1>2. w.fn = "destroy" /\ w.ok = task[s].ok
  BY <1>1, ContinueType, ContinueFields DEF TaskType
<1>3. task' = [task EXCEPT ![s] = w]
  BY <1>1 DEF IndInv, Shape
<1> HIDE DEF w, s
<1>4. Phase(task[s], lib, ctrlr, opts)
  BY <1>1, PhaseOfChain
<1>5. Phase(w, lib', ctrlr', opts') /\ w # Idle
  BY <1>1, <1>2, <1>4, IdleType DEF Phase, Waits
<1> QED BY <1>1, <1>3, <1>5, ChainPhases

(* What the channels and the qpairs do to the chains. *)
LEMMA ThreadKeepsPhases ==
    ASSUME IndInv, Rest, Phases, NEW t \in Threads, ThreadNext(t)
    PROVE  Phases'
<1>1. ctrlr \in CtrlrType
  BY DEF IndInv, Shape
<1>2. LET d == Release(ctrlr)
      IN  d.resetting = ctrlr.resetting /\ d.destruct = ctrlr.destruct /\ d.asserted = ctrlr.asserted
  BY <1>1, ReleaseCounts, ReleaseType DEF SameFlags
<1>3. CASE QpairDisconnected(t)
  BY <1>3, WalkOnKeepsPhases, BeginKeepsPhases, PhasesKept DEF QpairDisconnected
<1>4. CASE OrphanDisconnected(t)
  BY <1>2, <1>4, PhasesKept DEF OrphanDisconnected
<1>5. CASE OpenChannel(t)
  <2>1. /\ ctrlr'.resetting = ctrlr.resetting /\ ctrlr'.destruct = ctrlr.destruct
        /\ ctrlr'.asserted = ctrlr.asserted /\ UNCHANGED <<opts, lib, task>>
    BY <1>1, <1>5 DEF OpenChannel, CtrlrType
  <2> QED BY <2>1, PhasesKept
<1>6. CASE CloseChannel(t)
  <2>1. CASE qpair[t] = "live" /\ iter[t] # None
    BY <1>6, <2>1, WalkOnKeepsPhases DEF CloseChannel
  <2>2. CASE qpair[t] = "live" /\ iter[t] = None
    BY <1>6, <2>2, PhasesKept DEF CloseChannel
  <2>3. CASE qpair[t] # "live"
    BY <1>2, <1>6, <2>3, PhasesKept DEF CloseChannel
  <2> QED BY <2>1, <2>2, <2>3
<1>7. ASSUME NEW r \in Resets, SubmitReset(r, t) PROVE Phases'
  BY <1>7, BeginKeepsPhases, PhasesKept DEF SubmitReset
<1> QED BY <1>3, <1>4, <1>5, <1>6, <1>7 DEF ThreadNext

(* What the life of the controller does to the chains. *)
LEMMA LifeKeepsPhases ==
    ASSUME IndInv, Rest, Phases, LifeNext
    PROVE  Phases'
<1>1. ctrlr \in CtrlrType /\ lib \in LibType
  BY DEF IndInv, Shape, Rest
<1>2. CASE ResetRequested
  BY <1>2, BeginKeepsPhases DEF ResetRequested
<1>3. CASE ~ResetRequested
  <2>1. UNCHANGED <<opts, task>> /\ lib'.resetting = lib.resetting /\ (lib.removed => lib'.removed)
    BY <1>1, <1>3 DEF LifeNext, Delete, DestructRelease, CtrlrDelete, HotRemoved, ClearCaches,
       CachesCleared, ReadAnaLogPage, AnaLogPageRead, NamespaceRemoved, NamespaceAdded,
       DepopulateDone, BdevDestruct, LibType
  <2>2. /\ ctrlr'.resetting = ctrlr.resetting /\ ctrlr'.asserted = ctrlr.asserted
        /\ ctrlr.destruct => ctrlr'.destruct
    <3>1. LET d == Release(ctrlr)
          IN  d.resetting = ctrlr.resetting /\ d.destruct = ctrlr.destruct /\ d.asserted = ctrlr.asserted
      BY <1>1, ReleaseCounts, ReleaseType DEF SameFlags
    <3>2. CASE Delete \/ CtrlrDelete \/ HotRemoved \/ ClearCaches \/ ReadAnaLogPage
      BY <1>1, <3>2 DEF Delete, CtrlrDelete, HotRemoved, ClearCaches, ReadAnaLogPage, CtrlrType
    <3>3. CASE DestructRelease
      <4> DEFINE c == [ctrlr EXCEPT !.attached = FALSE]
      <4>1. /\ c \in CtrlrType /\ c.resetting = ctrlr.resetting /\ c.destruct = ctrlr.destruct
            /\ c.asserted = ctrlr.asserted
        BY <1>1 DEF CtrlrType
      <4>2. ctrlr' = Release(c) BY <3>3 DEF DestructRelease
      <4> HIDE DEF c
      <4> QED BY <4>1, <4>2, ReleaseCounts, ReleaseType DEF SameFlags
    <3>4. CASE CachesCleared
      <4> DEFINE c == [ctrlr EXCEPT !.clearing = FALSE]
      <4>1. /\ c \in CtrlrType /\ c.resetting = ctrlr.resetting /\ c.destruct = ctrlr.destruct
            /\ c.asserted = ctrlr.asserted
        BY <1>1 DEF CtrlrType
      <4>2. ctrlr' = UnregisterIfUnused(c) BY <3>4 DEF CachesCleared
      <4> HIDE DEF c
      <4> QED BY <4>1, <4>2, UnregisterCounts, UnregisterType DEF SameFlags
    <3>5. CASE AnaLogPageRead
      <4> DEFINE c == [ctrlr EXCEPT !.updating = FALSE]
      <4>1. /\ c \in CtrlrType /\ c.resetting = ctrlr.resetting /\ c.destruct = ctrlr.destruct
            /\ c.asserted = ctrlr.asserted
        BY <1>1 DEF CtrlrType
      <4>2. PICK failed \in BOOLEAN :
               ctrlr' = IF CanBeUnregistered(c) THEN UnregisterIfUnused(c)
                        ELSE [c EXCEPT !.clearing = @ \/ (IsAvailable /\ ~failed)]
        BY <3>5 DEF AnaLogPageRead
      <4> HIDE DEF c
      <4> QED BY <4>1, <4>2, UnregisterCounts, UnregisterType DEF CtrlrType, SameFlags
    <3>6. ASSUME NEW n \in Namespaces, NamespaceRemoved(n) \/ NamespaceAdded(n)
          PROVE  ctrlr'.resetting = ctrlr.resetting /\ ctrlr'.asserted = ctrlr.asserted
                 /\ ctrlr'.destruct = ctrlr.destruct
      BY <1>1, <3>6 DEF NamespaceRemoved, NamespaceAdded, CtrlrType
    <3>7. ASSUME NEW n \in Namespaces, DepopulateDone(n) \/ BdevDestruct(n)
          PROVE  ctrlr'.resetting = ctrlr.resetting /\ ctrlr'.asserted = ctrlr.asserted
                 /\ ctrlr'.destruct = ctrlr.destruct
      BY <3>1, <3>7 DEF DepopulateDone, BdevDestruct
    <3> QED BY <1>3, <3>2, <3>3, <3>4, <3>5, <3>6, <3>7 DEF LifeNext
  <2> QED BY <2>1, <2>2, PhasesKept
<1> QED BY <1>2, <1>3

(* The invariant so far. *)
CtrlrInv == IndInv /\ Rest /\ RefCounts /\ Phases

(* The invariant of the controller holds at first. *)
LEMMA InitCtrlrInv == Init => CtrlrInv
<1>1. ASSUME Init PROVE Phases
  BY <1>1 DEF Init, Phases, Active
<1> QED BY <1>1, InitIndInv, InitRest, InitRef DEF CtrlrInv

(* Every step keeps it. *)
LEMMA NextCtrlrInv == CtrlrInv /\ [Next]_vars => CtrlrInv'
<1> SUFFICES ASSUME CtrlrInv, [Next]_vars PROVE Phases'
  BY NextIndInv, NextRest, NextRef DEF CtrlrInv
<1>1. CASE UNCHANGED vars
  BY <1>1, PhasesKept DEF vars, CtrlrInv
<1> QED BY <1>1, ChainKeepsPhases, ThreadKeepsPhases, LifeKeepsPhases DEF Next, CtrlrInv

---------------------------------------------------------------------------
(* The io_device is unregistered *)

(* No reference: no user is left. *)
LEMMA UnusedIsEmpty ==
    ASSUME Rest, RefCounts, ctrlr.ref = 0
    PROVE  /\ ~ctrlr.attached /\ ns.tree = {} /\ ns.bdev = {}
           /\ \A t \in Threads : ~HasChannel(t) /\ orphans[t] = 0
<1> DEFINE C == {t \in Threads : HasChannel(t)}
           H == ns.tree \cup ns.bdev
<1>1. /\ Attachment \in Nat /\ Held \in Nat /\ Channels \in Nat /\ Orphans \in Nat
      /\ IsFiniteSet(H) /\ IsFiniteSet(C) /\ IsFiniteSet(Threads)
  BY SummandsType
<1>2. RefIsSum
  BY RefRestated
<1>3. Attachment = 0 /\ Held = 0 /\ Channels = 0 /\ Orphans = 0
  <2>1. ctrlr.ref = Attachment + Held + Channels + Orphans
    BY <1>2 DEF RefIsSum
  <2>2. \A a, b, c, d \in Nat : a + b + c + d = 0 => a = 0 /\ b = 0 /\ c = 0 /\ d = 0
    OBVIOUS
  <2> QED BY <1>1, <2>1, <2>2
<1>4. ~ctrlr.attached
  BY <1>3 DEF Attachment
<1>5. H = {} /\ C = {}
  BY <1>1, <1>3, FS_EmptySet DEF Held, Channels
<1>6. ASSUME NEW t \in Threads PROVE orphans[t] = 0
  <2>1. \A u \in Threads : orphans[u] \in Nat /\ orphans[u] \in Int
    BY DEF Rest
  <2>2. IsFiniteSet(Threads \ {t})
    BY <1>1, FS_RemoveElement
  <2>3. Total(orphans, Threads \ {t}) \in Nat
    BY <2>1, <2>2, TotalNat
  <2>4. Total(orphans, Threads) = orphans[t] + Total(orphans, Threads \ {t})
    BY <1>1, <2>1, TotalWithout
  <2> QED BY <1>3, <2>1, <2>3, <2>4 DEF Orphans
<1> QED BY <1>4, <1>5, <1>6

(* The step that unregisters finds the controller unused and no reset
   under way, and it leaves the chains alone or ends the only one. *)
UnregisteringStep ==
    /\ Running
    /\ ctrlr'.unregisters = ctrlr.unregisters + 1
    /\ ctrlr'.destruct /\ ctrlr'.ref = 0 /\ ~ctrlr'.clearing /\ ~ctrlr'.updating
    /\ UNCHANGED <<lib, opts>>
    /\ \/ task' = task /\ ~ctrlr.resetting
       \/ Active' = {}

(* A controller is unregistered by a step that finds it unused. *)
LEMMA Unregistering ==
    ASSUME IndInv, Rest, Next, ctrlr'.unregisters # ctrlr.unregisters
    PROVE  UnregisteringStep
<1> USE DEF channelVars, resetIoVars
<1>1. ctrlr \in CtrlrType /\ ctrlr.unregisters \in Nat
  BY DEF IndInv, Shape, Rest
<1>2. ASSUME NEW c \in CtrlrType, ctrlr' = UnregisterIfUnused(c), c.unregisters = ctrlr.unregisters
      PROVE  /\ ctrlr'.unregisters = ctrlr.unregisters + 1
             /\ ctrlr'.destruct /\ ctrlr'.ref = 0 /\ ~ctrlr'.clearing /\ ~ctrlr'.updating
             /\ ~c.resetting
  BY <1>2, UnregisterCounts DEF CanBeUnregistered
<1>3. ASSUME NEW c \in CtrlrType, ctrlr' = Release(c), c.unregisters = ctrlr.unregisters
      PROVE  /\ ctrlr'.unregisters = ctrlr.unregisters + 1
             /\ ctrlr'.destruct /\ ctrlr'.ref = 0 /\ ~ctrlr'.clearing /\ ~ctrlr'.updating
             /\ ~c.resetting
  BY <1>3, ReleaseCounts
<1>4. ~BeginReset
  BY <1>1 DEF BeginReset, CtrlrType
<1>5. ASSUME NEW s \in Sequences, Chain(s) PROVE UnregisteringStep
  <2>1. ResetComplete(s)
    BY <1>1, <1>5 DEF Chain, ResetSent, Disconnected, ReconnectPoll, DelayTimerExpired, SkipChannel,
       DestroyQpair, DestroyDone, CreateQpair, CreateDone, CompletePending, CtrlrType
  <2> DEFINE c == [ctrlr EXCEPT !.resetting = FALSE]
  <2>2. c \in CtrlrType /\ c.unregisters = ctrlr.unregisters
    BY <1>1 DEF CtrlrType
  <2>3. OpAfterReset(s, c) /\ UNCHANGED opts /\ task[s].fn = "complete" /\ Running
    BY <2>1 DEF ResetComplete
  <2> HIDE DEF c
  <2>4. ctrlr' = UnregisterIfUnused(c) /\ task' = [task EXCEPT ![s] = Idle] /\ UNCHANGED lib
    BY <2>2, <2>3 DEF OpAfterReset, CtrlrType
  <2>5. Active = {s}
    BY <2>3, ActiveChain DEF IndInv, OneResetAtATime, Running, Active
  <2>6. Active' = {}
    BY <2>4, <2>5 DEF Active, IndInv, Shape
  <2> QED BY <1>2, <2>2, <2>3, <2>4, <2>6 DEF UnregisteringStep
<1>6. ASSUME NEW t \in Threads, ThreadNext(t) PROVE UnregisteringStep
  <2>1. OrphanDisconnected(t) \/ (CloseChannel(t) /\ qpair[t] # "live")
    BY <1>1, <1>4, <1>6 DEF ThreadNext, QpairDisconnected, OpenChannel, CloseChannel, SubmitReset, CtrlrType
  <2>2. ctrlr' = Release(ctrlr) /\ UNCHANGED <<task, opts, lib>> /\ Running
    BY <2>1 DEF OrphanDisconnected, CloseChannel
  <2> QED BY <1>1, <1>3, <2>2 DEF UnregisteringStep
<1>7. CASE LifeNext
  <2>1. CASE DestructRelease
    <3> DEFINE c == [ctrlr EXCEPT !.attached = FALSE]
    <3>1. c \in CtrlrType /\ c.unregisters = ctrlr.unregisters /\ c.resetting = ctrlr.resetting
      BY <1>1 DEF CtrlrType
    <3>2. ctrlr' = Release(c) /\ UNCHANGED <<task, opts, lib>> /\ Running
      BY <2>1 DEF DestructRelease
    <3> HIDE DEF c
    <3> QED BY <1>3, <3>1, <3>2 DEF UnregisteringStep
  <2>2. CASE CachesCleared
    <3> DEFINE c == [ctrlr EXCEPT !.clearing = FALSE]
    <3>1. c \in CtrlrType /\ c.unregisters = ctrlr.unregisters /\ c.resetting = ctrlr.resetting
      BY <1>1 DEF CtrlrType
    <3>2. ctrlr' = UnregisterIfUnused(c) /\ UNCHANGED <<task, opts, lib>> /\ Running
      BY <2>2 DEF CachesCleared
    <3> HIDE DEF c
    <3> QED BY <1>2, <3>1, <3>2 DEF UnregisteringStep
  <2>3. CASE AnaLogPageRead
    <3> DEFINE c == [ctrlr EXCEPT !.updating = FALSE]
    <3>1. c \in CtrlrType /\ c.unregisters = ctrlr.unregisters /\ c.resetting = ctrlr.resetting
      BY <1>1 DEF CtrlrType
    <3>2. UNCHANGED <<task, opts, lib>> /\ Running BY <2>3 DEF AnaLogPageRead
    <3>3. PICK failed \in BOOLEAN :
             ctrlr' = IF CanBeUnregistered(c) THEN UnregisterIfUnused(c)
                      ELSE [c EXCEPT !.clearing = @ \/ (IsAvailable /\ ~failed)]
      BY <2>3 DEF AnaLogPageRead
    <3> HIDE DEF c
    <3>4. ctrlr' = UnregisterIfUnused(c) BY <3>1, <3>3 DEF CtrlrType
    <3> QED BY <1>2, <3>1, <3>2, <3>4 DEF UnregisteringStep
  <2>4. ASSUME NEW n \in Namespaces, DepopulateDone(n) \/ BdevDestruct(n) PROVE UnregisteringStep
    <3>1. ctrlr' = Release(ctrlr) /\ UNCHANGED <<task, opts, lib>> /\ Running
      BY <2>4 DEF DepopulateDone, BdevDestruct
    <3> QED BY <1>1, <1>3, <3>1 DEF UnregisteringStep
  <2>5. ASSUME NEW n \in Namespaces, NamespaceRemoved(n) \/ NamespaceAdded(n) PROVE FALSE
    BY <1>1, <2>5 DEF NamespaceRemoved, NamespaceAdded, CtrlrType
  <2>6. ~Delete /\ ~CtrlrDelete /\ ~HotRemoved /\ ~ResetRequested /\ ~ClearCaches /\ ~ReadAnaLogPage
    BY <1>1, <1>4 DEF Delete, CtrlrDelete, HotRemoved, ResetRequested, ClearCaches, ReadAnaLogPage, CtrlrType
  <2> QED BY <1>7, <2>1, <2>2, <2>3, <2>4, <2>5, <2>6 DEF LifeNext
<1> QED BY <1>5, <1>6, <1>7 DEF Next

(* The exception is never forgotten. *)
LEMMA LateStays ==
    ASSUME Rest, [Next]_vars, ~ns'.late
    PROVE  ~ns.late
<1>1. ASSUME NEW s \in Sequences, Chain(s) PROVE ~ns.late
  BY <1>1 DEF Chain, ResetSent, Disconnected, ReconnectPoll, DelayTimerExpired, SkipChannel, DestroyQpair,
     DestroyDone, CreateQpair, CreateDone, CompletePending, ResetComplete, OpAfterReset, Rest, NsType
<1>2. ASSUME NEW t \in Threads, ThreadNext(t) PROVE ~ns.late
  BY <1>2 DEF ThreadNext, QpairDisconnected, OrphanDisconnected, OpenChannel, CloseChannel, SubmitReset
<1>3. CASE LifeNext
  BY <1>3 DEF LifeNext, Delete, DestructRelease, CtrlrDelete, HotRemoved, ResetRequested, ClearCaches,
     CachesCleared, ReadAnaLogPage, AnaLogPageRead, NamespaceRemoved, NamespaceAdded, DepopulateDone,
     BdevDestruct, Rest, NsType
<1> QED BY <1>1, <1>2, <1>3 DEF Next, vars

(* Once it is unregistered, the controller is at rest: what can still run
   is the end of a delay, and where the device was removed before a delay
   could begin, the chain that its refusal had left. *)
LEMMA NextUnused == CtrlrInv /\ UnregisteredUnused /\ [Next]_vars => UnregisteredUnused'
<1> SUFFICES ASSUME CtrlrInv, UnregisteredUnused, [Next]_vars, ctrlr'.unregisters > 0, ~ns'.late
             PROVE  /\ ctrlr'.destruct /\ ctrlr'.ref = 0
                    /\ ~ctrlr'.clearing /\ ~ctrlr'.updating
                    /\ ~(lib'.removed /\ opts'.delay) =>
                          /\ ctrlr'.unregisters = 1
                          /\ \A s \in Active' : task'[s].fn \in {"to_delay", "delay"}
  BY DEF UnregisteredUnused
<1>1. /\ ctrlr \in CtrlrType /\ lib \in LibType /\ opts \in OptionsType /\ ctrlr.unregisters \in Nat
      /\ IndInv /\ Rest /\ RefCounts /\ Phases /\ ns \in NsType
  BY DEF CtrlrInv, IndInv, Shape, Rest
<1>2. ~ns.late
  BY <1>1, LateStays
<1>3. CASE UNCHANGED vars
  BY <1>2, <1>3 DEF vars, UnregisteredUnused, Active
<1>4. CASE Next /\ ctrlr.unregisters = 0
  <2>1. UnregisteringStep
    BY <1>1, <1>4, Unregistering
  <2>2. ASSUME task' = task, ~ctrlr.resetting, ~(lib.removed /\ opts.delay), NEW s \in Active'
        PROVE  task'[s].fn \in {"to_delay", "delay"}
    <3>1. s \in Active /\ Phase(task[s], lib, ctrlr, opts)
      BY <1>1, <2>1, <2>2 DEF Phases, Active, UnregisteringStep
    <3> QED BY <2>2, <3>1 DEF Phase
  <2> QED BY <1>4, <2>1, <2>2 DEF UnregisteringStep
<1>5. CASE Next /\ ctrlr.unregisters > 0
  <2>1. /\ ctrlr.destruct /\ ctrlr.ref = 0 /\ ~ctrlr.clearing /\ ~ctrlr.updating
        /\ ~(lib.removed /\ opts.delay) =>
              /\ ctrlr.unregisters = 1
              /\ \A s \in Active : task[s].fn \in {"to_delay", "delay"}
    BY <1>2, <1>5 DEF UnregisteredUnused
  <2>2. /\ ~ctrlr.attached /\ ns.tree = {} /\ ns.bdev = {}
        /\ \A t \in Threads : ~HasChannel(t) /\ orphans[t] = 0
    BY <1>1, <2>1, UnusedIsEmpty
  <2>3. ASSUME NEW t \in Threads, ThreadNext(t) PROVE FALSE
    BY <1>1, <1>5, <2>2, <2>3
       DEF ThreadNext, QpairDisconnected, OrphanDisconnected, OpenChannel, CloseChannel, SubmitReset, HasChannel
  <2>4. CASE LifeNext
    <3>1. CtrlrDelete \/ HotRemoved
      <4>1. ASSUME NEW n \in Namespaces, NamespaceAdded(n) PROVE FALSE
        BY <2>1, <4>1 DEF NamespaceAdded
      <4> QED
        BY <2>1, <2>2, <2>4, <4>1 DEF LifeNext, Delete, DestructRelease, ResetRequested, BeginReset, MayReset, ClearCaches,
           CachesCleared, ReadAnaLogPage, IsAvailable, AnaLogPageRead, NamespaceRemoved, DepopulateDone, BdevDestruct
    <3>2. /\ ctrlr'.destruct = ctrlr.destruct /\ ctrlr'.ref = ctrlr.ref /\ ctrlr'.clearing = ctrlr.clearing
          /\ ctrlr'.updating = ctrlr.updating /\ ctrlr'.unregisters = ctrlr.unregisters
          /\ UNCHANGED <<opts, task>> /\ (lib.removed => lib'.removed)
      BY <1>1, <3>1 DEF CtrlrDelete, HotRemoved, CtrlrType, LibType
    <3> QED BY <2>1, <3>2 DEF Active
  <2>5. ASSUME NEW s \in Sequences, Chain(s)
        PROVE  /\ ctrlr'.destruct /\ ctrlr'.ref = 0 /\ ~ctrlr'.clearing /\ ~ctrlr'.updating
               /\ ~(lib'.removed /\ opts'.delay) =>
                     /\ ctrlr'.unregisters = 1
                     /\ \A u \in Active' : task'[u].fn \in {"to_delay", "delay"}
    <3>1. /\ ctrlr'.destruct /\ ctrlr'.ref = 0 /\ ~ctrlr'.clearing /\ ~ctrlr'.updating
      <4>1. CASE ResetComplete(s)
        <5> DEFINE c == [ctrlr EXCEPT !.resetting = FALSE]
                   u == UnregisterIfUnused(c)
                   v == [c EXCEPT !.started = FALSE]
                   w == [c EXCEPT !.destruct = TRUE]
                   Settled(x) == x.destruct /\ x.ref = 0 /\ ~x.clearing /\ ~x.updating
        <5>1. c \in CtrlrType /\ Settled(c) BY <1>1, <2>1 DEF CtrlrType
        <5>2. OpAfterReset(s, c) BY <4>1 DEF ResetComplete
        <5> HIDE DEF c
        <5>3. Settled(u) /\ Settled(v) /\ Settled(w)
          BY <5>1, UnregisterCounts DEF CtrlrType
        <5>4. ctrlr' \in {u, v, w, c} BY <5>2 DEF OpAfterReset
        <5> HIDE DEF u, v, w
        <5> QED BY <5>1, <5>3, <5>4
      <4>2. CASE ~ResetComplete(s)
        BY <1>1, <2>1, <2>5, <4>2 DEF Chain, ResetSent, Disconnected, ReconnectPoll, DelayTimerExpired, SkipChannel,
           DestroyQpair, DestroyDone, CreateQpair, CreateDone, CompletePending, CtrlrType
      <4> QED BY <4>1, <4>2
    <3>2. ASSUME ~(lib'.removed /\ opts'.delay)
          PROVE  /\ ctrlr'.unregisters = 1
                 /\ \A u \in Active' : task'[u].fn \in {"to_delay", "delay"}
      <4>1. Running /\ task[s].fn # "idle"
        BY <2>5 DEF Chain, ResetSent, Disconnected, ReconnectPoll, DelayTimerExpired, SkipChannel,
           DestroyQpair, DestroyDone, CreateQpair, CreateDone, CompletePending, ResetComplete, Walks
      <4>2. Active = {s}
        BY <1>1, <4>1, ActiveChain DEF IndInv, OneResetAtATime, Running, Active
      <4>3. ~(lib.removed /\ opts.delay)
        <5>1. lib.removed => lib'.removed
          BY <1>1, <2>5 DEF Chain, ResetSent, Disconnected, ReconnectPoll, DelayTimerExpired, SkipChannel,
             DestroyQpair, DestroyDone, CreateQpair, CreateDone, CompletePending, ResetComplete, OpAfterReset,
             Disconnect, LibType
        <5>2. opts.delay => opts'.delay
          BY <1>1, <2>5 DEF Chain, ResetSent, Disconnected, ReconnectPoll, DelayTimerExpired, SkipChannel,
             DestroyQpair, DestroyDone, CreateQpair, CreateDone, CompletePending, ResetComplete, OptionsType
        <5> QED BY <3>2, <5>1, <5>2
      <4>4. task[s].fn \in {"to_delay", "delay"} /\ ctrlr.unregisters = 1
        BY <2>1, <4>2, <4>3
      <4>5. \/ Disconnected(s) /\ task' = [task EXCEPT ![s] = [Idle EXCEPT !.fn = "delay"]]
            \/ DelayTimerExpired(s) /\ task' = [task EXCEPT ![s] = Idle]
        BY <2>1, <2>5, <4>4 DEF Chain, ResetSent, Disconnected, ReconnectPoll, DelayTimerExpired, SkipChannel,
           DestroyQpair, DestroyDone, CreateQpair, CreateDone, CompletePending, ResetComplete, Walks
      <4>6. ctrlr'.unregisters = ctrlr.unregisters
        BY <1>1, <4>5 DEF Disconnected, DelayTimerExpired, CtrlrType
      <4>7. Active' \subseteq {s} /\ (task'[s].fn = "delay" \/ task'[s] = Idle)
        BY <1>1, <4>2, <4>5 DEF Active, IndInv, Shape, Idle
      <4> QED BY <4>4, <4>6, <4>7 DEF Active
    <3> QED BY <3>1, <3>2
  <2> QED BY <1>5, <2>3, <2>4, <2>5 DEF Next
<1> QED BY <1>1, <1>3, <1>4, <1>5

(* The controller is unregistered when no user is left, and once, unless a
   removed device refuses the disconnect before a delayed reconnect: ref 0
   means no attachment, namespace, channel or qpair, and a chain without
   the flag resetting is a delay. *)
THEOREM Unregistered == Spec => []UnregisteredUnused
<1>1. Init => UnregisteredUnused
  BY DEF Init, UnregisteredUnused
<1> QED BY <1>1, InitCtrlrInv, NextCtrlrInv, NextUnused, PTL DEF Spec

-------------------------------------------------------------------------------
(***************************************************************************)
(* The discovery client                                                    *)
(***************************************************************************)

(* The values of a service and of the state. *)
DvSvcs == [st : {"none", "starting", "listed", "freed"}, ctrlr : {"no", "up", "detaching"}, probe : BOOLEAN,
           inUse : BOOLEAN, spare : Nat, nvm : SUBSET DiscoveredPaths, rc : BOOLEAN, initializing : BOOLEAN,
           inProgress : BOOLEAN, pending : BOOLEAN, stopped : BOOLEAN, timed : BOOLEAN, reading : BOOLEAN,
           attach : SUBSET DiscoveredPaths, freed : SUBSET DiscoveredPaths, start : BOOLEAN,
           stop : {"no", "rpc", "fini"}, event : BOOLEAN, attached : BOOLEAN, refused : SUBSET DiscoveredPaths,
           unread : BOOLEAN, page : SUBSET DiscoveredPaths]
DvBounds == [starts : Nat, stops : Nat, finis : Nat, changes : Nat, failures : Nat, timeouts : Nat,
             losses : Nat, referrals : Nat, there : SUBSET DiscoveredPaths]
DvSteps == {"starts", "stops", "finis", "changes", "failures", "timeouts", "losses"}
DvCrashes == {"no", "in progress", "no controller", "attaching", "freed entry", "start owed", "not initializing",
              "two in use", "no entry"}
DvStates == [svc : [DiscoveryServices -> DvSvcs], there : SUBSET DiscoveredPaths,
             ctrlr : [DiscoveredPaths -> {"no", "up", "going"}], fini : {"no", "waits", "done"},
             left : DvBounds, did : SUBSET DvSteps, crash : DvCrashes]

---------------------------------------------------------------------------
(* The inductive invariant *)

(* Who takes entries away while they are attached: a stop, the end of the
   module, or a timeout after the discovery controller was lost. *)
DvTold(w) == w.did \cap {"stops", "finis"} # {}
DvCause(w) == DvTold(w) \/ {"losses", "timeouts"} \subseteq w.did

(* A service that works: one entry at a time is in use, exactly while the
   client is connected or connects; a discovery in progress reads a page
   or attaches what it names, and what is being attached has its entry.
   The page whose paths are being attached is the newest, unless an event
   is under way or remembered. *)
Serving(c) == c.st \in {"starting", "listed"} /\ ~c.stopped
EntrySound(w, c) ==
    /\ c.ctrlr = "up" => c.inUse
    /\ c.probe => c.inUse /\ c.ctrlr = "no"
    /\ ~c.probe /\ c.ctrlr # "up" => ~c.inUse /\ c.spare >= 1
    /\ c.inUse => c.spare <= w.left.referrals
ProgressSound(w, c) ==
    /\ c.reading \/ c.attach # {} \/ c.pending => c.inProgress
    /\ c.reading => c.attach = {}
    /\ c.inProgress => c.reading \/ c.attach # {} \/ c.unread
    /\ c.inProgress /\ c.ctrlr # "up" => "losses" \in w.did
StartSound(w, c) ==
    /\ c.rc => ~c.start /\ "timeouts" \in w.did
    /\ c.attached => ~c.start
PageSound(w, c) ==
    /\ c.freed = {} /\ c.attach \subseteq c.nvm
    /\ c.attach # {} => c.nvm \cap c.page = c.page \ c.refused
    /\ c.attach # {} /\ c.ctrlr = "up" /\ ~c.event /\ ~c.pending => c.page = w.there
    /\ c.ctrlr = "up" /\ ~c.inProgress /\ ~c.event /\ ~c.rc => c.nvm = w.there \ c.refused
ServingSound(w, c) == EntrySound(w, c) /\ ProgressSound(w, c) /\ StartSound(w, c) /\ PageSound(w, c)

(* A service that does not: its entries are freed, those being attached
   among them. *)
RestSound(w, c) ==
    /\ c.nvm = {} /\ c.attach \subseteq c.freed
    /\ c.attach # {} => DvCause(w)
    /\ c.start => DvTold(w)
SvcSound(w, c) == IF Serving(c) THEN ServingSound(w, c) ELSE RestSound(w, c)

DvStray(w) == \A e \in DiscoveredPaths : w.ctrlr[e] = "up" => \E s \in DiscoveryServices : e \in w.svc[s].nvm
DvFaults(w) ==
    /\ w.crash \notin {"two in use", "no entry", "attaching"}
    /\ w.crash = "freed entry" => DvCause(w)
    /\ w.crash = "in progress" => "losses" \in w.did
    /\ w.crash = "no controller" => w.did \cap {"losses", "failures"} # {}
    /\ w.crash = "start owed" => DvTold(w)
    /\ w.crash = "not initializing" => "timeouts" \in w.did
SpareBound(w, s) == w.svc[s].spare <= w.left.referrals + 1

DvInv(w) ==
    /\ w \in DvStates /\ (\A s \in DiscoveryServices : SpareBound(w, s)) /\ DvFaults(w)
    /\ w.crash = "no" => DvStray(w) /\ \A s \in DiscoveryServices : SvcSound(w, w.svc[s])

---------------------------------------------------------------------------
(* Facts about the records *)

(* A service that is not there is a service. *)
LEMMA NoServiceType == NoService \in DvSvcs
  BY DEF NoService, DvSvcs

(* The values of the history. *)
LEMMA DvStepNames ==
    /\ "starts" \in DvSteps /\ "stops" \in DvSteps /\ "finis" \in DvSteps /\ "changes" \in DvSteps
    /\ "failures" \in DvSteps /\ "timeouts" \in DvSteps /\ "losses" \in DvSteps
  BY DEF DvSteps
(* The ways to crash. *)
LEMMA DvCrashNames ==
    /\ "in progress" \in DvCrashes /\ "no controller" \in DvCrashes /\ "attaching" \in DvCrashes
    /\ "freed entry" \in DvCrashes /\ "start owed" \in DvCrashes /\ "not initializing" \in DvCrashes
    /\ "two in use" \in DvCrashes /\ "no entry" \in DvCrashes /\ "no" \in DvCrashes
  BY DEF DvCrashes

(* A service is set. *)
LEMMA SetSvc ==
    ASSUME NEW w \in DvStates, NEW s \in DiscoveryServices, NEW c \in DvSvcs
    PROVE  LET v == [w EXCEPT !.svc[s] = c]
           IN  /\ v \in DvStates /\ v.svc[s] = c /\ \A t \in DiscoveryServices \ {s} : v.svc[t] = w.svc[t]
               /\ v.there = w.there /\ v.ctrlr = w.ctrlr /\ v.fini = w.fini /\ v.left = w.left
               /\ v.did = w.did /\ v.crash = w.crash
  BY DEF DvStates

(* A bounded step is counted. *)
LEMMA SpendFacts ==
    ASSUME NEW w \in DvStates, NEW what \in DvSteps, w.left[what] > 0
    PROVE  LET v == DiscoverySpend(w, what)
           IN  /\ v \in DvStates /\ v.svc = w.svc /\ v.there = w.there /\ v.ctrlr = w.ctrlr /\ v.fini = w.fini
               /\ v.left.referrals = w.left.referrals /\ v.crash = w.crash
               /\ v.did = w.did \cup {what}
<1>1. w.left \in DvBounds /\ w.did \in SUBSET DvSteps
  BY DEF DvStates
<1>2. [w.left EXCEPT ![what] = @ - 1] \in DvBounds /\ [w.left EXCEPT ![what] = @ - 1].referrals = w.left.referrals
  BY <1>1 DEF DvBounds, DvSteps
<1> DEFINE l == [w.left EXCEPT ![what] = @ - 1]
<1>3. DiscoverySpend(w, what) = [w EXCEPT !.left = l, !.did = w.did \cup {what}]
  BY <1>1 DEF DiscoverySpend, DvStates
<1> HIDE DEF l
<1>4. l \in DvBounds /\ l.referrals = w.left.referrals
  BY <1>2 DEF l
<1> DEFINE d == w.did \cup {what}
<1>5. d \in SUBSET DvSteps
  BY <1>1
<1> HIDE DEF d
<1>6. LET v == [w EXCEPT !.left = l, !.did = d]
      IN  /\ v \in DvStates /\ v.svc = w.svc /\ v.there = w.there /\ v.ctrlr = w.ctrlr /\ v.fini = w.fini
          /\ v.left = l /\ v.crash = w.crash /\ v.did = d
  BY <1>4, <1>5 DEF DvStates
<1> QED BY <1>3, <1>4, <1>6 DEF d

(* A crash. *)
LEMMA CrashFacts ==
    ASSUME NEW w \in DvStates, w.crash = "no", NEW why \in DvCrashes
    PROVE  LET v == DiscoveryCrash(w, why)
           IN  /\ v \in DvStates /\ v.svc = w.svc /\ v.there = w.there /\ v.ctrlr = w.ctrlr /\ v.fini = w.fini
               /\ v.left = w.left /\ v.did = w.did /\ v.crash = why
  BY DEF DvStates, DiscoveryCrash

(* Controllers are deleted. *)
LEMMA DeleteFacts ==
    ASSUME NEW w \in DvStates, NEW paths
    PROVE  LET v == DeletePaths(w, paths)
           IN  /\ v \in DvStates /\ v.svc = w.svc /\ v.there = w.there /\ v.fini = w.fini
               /\ v.left = w.left /\ v.did = w.did /\ v.crash = w.crash
               /\ \A e \in DiscoveredPaths : v.ctrlr[e] = "up" <=> w.ctrlr[e] = "up" /\ e \notin paths
<1> DEFINE after == [e \in DiscoveredPaths |->
                       IF e \in paths /\ w.ctrlr[e] = "up" THEN "going" ELSE w.ctrlr[e]]
<1>1. w.ctrlr \in [DiscoveredPaths -> {"no", "up", "going"}]
  BY DEF DvStates
<1>2. /\ after \in [DiscoveredPaths -> {"no", "up", "going"}]
      /\ \A e \in DiscoveredPaths : after[e] = "up" <=> w.ctrlr[e] = "up" /\ e \notin paths
  BY <1>1
<1>3. DeletePaths(w, paths) = [w EXCEPT !.ctrlr = after]
  BY DEF DeletePaths
<1> HIDE DEF after
<1> QED BY <1>2, <1>3 DEF DvStates

---------------------------------------------------------------------------
(* Steps that change one service *)

(* Every controller that is up afterwards belongs to the service, or was
   up and not the service's. *)
Fit(v, w, s) ==
    /\ v \in DvStates /\ w.did \subseteq v.did /\ v.left.referrals = w.left.referrals /\ v.there = w.there
    /\ \A t \in DiscoveryServices \ {s} : v.svc[t] = w.svc[t]
    /\ \A e \in DiscoveredPaths : v.ctrlr[e] = "up" => \/ e \in v.svc[s].nvm
                                                       \/ w.ctrlr[e] = "up" /\ e \notin w.svc[s].nvm

Moved(v, w, s) ==
    /\ Fit(v, w, s) /\ SpareBound(v, s) /\ DvFaults(v)
    /\ v.crash = "no" => SvcSound(v, v.svc[s])

(* Nothing has changed yet. *)
LEMMA FitSelf ==
    ASSUME NEW w \in DvStates, NEW s \in DiscoveryServices, w.crash = "no", DvInv(w)
    PROVE  Fit(w, w, s)
  BY DEF Fit

(* A service that is sound stays sound while more happens. *)
LEMMA SoundGrows ==
    ASSUME NEW w \in DvStates, NEW v \in DvStates, NEW c \in DvSvcs, SvcSound(w, c),
           w.did \subseteq v.did, v.left.referrals = w.left.referrals, v.there = w.there
    PROVE  SvcSound(v, c)
<1>1. CASE Serving(c)
  BY <1>1 DEF SvcSound, ServingSound, EntrySound, ProgressSound, StartSound, PageSound
<1>2. CASE ~Serving(c)
  BY <1>2 DEF SvcSound, RestSound, DvCause, DvTold
<1> QED BY <1>1, <1>2

(* Such a step keeps the invariant. *)
LEMMA MovedSound ==
    ASSUME NEW w, NEW v, NEW s \in DiscoveryServices, DvInv(w), w.crash = "no", Moved(v, w, s)
    PROVE  DvInv(v)
<1>1. w \in DvStates /\ v \in DvStates /\ Fit(v, w, s)
  BY DEF DvInv, Moved, Fit
<1>2. \A t \in DiscoveryServices : SpareBound(v, t)
  <2> SUFFICES ASSUME NEW t \in DiscoveryServices, t # s PROVE SpareBound(v, t)
    BY DEF Moved
  <2>1. v.svc[t] = w.svc[t] /\ SpareBound(w, t)
    BY <1>1 DEF Fit, DvInv
  <2> QED BY <2>1, <1>1 DEF SpareBound, Fit
<1>3. ASSUME v.crash = "no" PROVE DvStray(v)
  <2> SUFFICES ASSUME NEW e \in DiscoveredPaths, v.ctrlr[e] = "up"
               PROVE  \E t \in DiscoveryServices : e \in v.svc[t].nvm
    BY DEF DvStray
  <2>1. CASE e \in v.svc[s].nvm
    BY <2>1
  <2>2. CASE w.ctrlr[e] = "up" /\ e \notin w.svc[s].nvm
    <3>1. PICK t \in DiscoveryServices : e \in w.svc[t].nvm
      BY <2>2 DEF DvInv, DvStray
    <3>2. t # s BY <2>2, <3>1
    <3>3. v.svc[t] = w.svc[t] BY <1>1, <3>2 DEF Fit
    <3> QED BY <3>1, <3>3
  <2> QED BY <1>1, <2>1, <2>2 DEF Fit
<1>4. ASSUME v.crash = "no", NEW t \in DiscoveryServices PROVE SvcSound(v, v.svc[t])
  <2>1. CASE t = s
    BY <2>1, <1>4 DEF Moved
  <2>2. CASE t # s
    <3>1. v.svc[t] = w.svc[t] /\ w.svc[t] \in DvSvcs /\ SvcSound(w, w.svc[t])
      BY <1>1, <2>2 DEF Fit, DvInv, DvStates
    <3>2. SvcSound(v, w.svc[t]) BY <1>1, <3>1, SoundGrows DEF Fit
    <3> QED BY <3>1, <3>2
  <2> QED BY <2>1, <2>2
<1> QED BY <1>1, <1>2, <1>3, <1>4 DEF DvInv, Moved

(* The service is set, and keeps its entries. *)
LEMMA FitSet ==
    ASSUME NEW w \in DvStates, NEW u \in DvStates, NEW s \in DiscoveryServices, Fit(u, w, s), NEW c \in DvSvcs,
           u.svc[s].nvm \subseteq c.nvm
    PROVE  Fit([u EXCEPT !.svc[s] = c], w, s)
<1> DEFINE v == [u EXCEPT !.svc[s] = c]
<1>1. /\ v \in DvStates /\ v.svc[s] = c /\ \A t \in DiscoveryServices \ {s} : v.svc[t] = u.svc[t]
      /\ v.there = u.there /\ v.ctrlr = u.ctrlr /\ v.left = u.left /\ v.did = u.did
  BY SetSvc
<1> HIDE DEF v
<1>2. Fit(v, w, s)
  BY <1>1 DEF Fit
<1> QED BY <1>2 DEF v

(* It crashes. *)
LEMMA FitCrash ==
    ASSUME NEW w \in DvStates, NEW u \in DvStates, NEW s \in DiscoveryServices, Fit(u, w, s), u.crash = "no",
           NEW why \in DvCrashes
    PROVE  Fit(DiscoveryCrash(u, why), w, s)
<1> DEFINE v == DiscoveryCrash(u, why)
<1>1. /\ v \in DvStates /\ v.svc = u.svc /\ v.there = u.there /\ v.ctrlr = u.ctrlr /\ v.left = u.left
      /\ v.did = u.did
  BY CrashFacts
<1> HIDE DEF v
<1>2. Fit(v, w, s)
  BY <1>1 DEF Fit
<1> QED BY <1>2 DEF v

(* A crash has its cause. *)
LEMMA CrashMoved ==
    ASSUME NEW w \in DvStates, NEW u \in DvStates, NEW s \in DiscoveryServices, Fit(u, w, s), u.crash = "no",
           NEW why \in DvCrashes, why # "no", SpareBound(u, s),
           DvFaults([u EXCEPT !.crash = why])
    PROVE  Moved(DiscoveryCrash(u, why), w, s)
<1> DEFINE v == DiscoveryCrash(u, why)
<1>1. v = [u EXCEPT !.crash = why]
  BY DEF DiscoveryCrash
<1>2. v \in DvStates /\ v.svc = u.svc /\ v.left = u.left /\ v.crash = why
  BY CrashFacts
<1>3. Fit(v, w, s)
  BY FitCrash
<1>4. DvFaults(v)
  BY <1>1
<1> HIDE DEF v
<1>5. Moved(v, w, s)
  BY <1>2, <1>3, <1>4 DEF Moved, SpareBound
<1> QED BY <1>5 DEF v

(* The service loses entries, and their controllers go. *)
LEMMA FitDrop ==
    ASSUME NEW w \in DvStates, NEW u \in DvStates, NEW s \in DiscoveryServices, Fit(u, w, s), NEW c \in DvSvcs,
           NEW paths, u.svc[s].nvm \ paths \subseteq c.nvm
    PROVE  LET v == [DeletePaths(u, paths) EXCEPT !.svc[s] = c]
           IN  /\ Fit(v, w, s) /\ v \in DvStates /\ v.svc[s] = c /\ v.crash = u.crash /\ v.left = u.left
               /\ v.did = u.did /\ v.there = u.there /\ v.fini = u.fini
<1> DEFINE x == DeletePaths(u, paths)
           v == [x EXCEPT !.svc[s] = c]
<1>1. /\ x \in DvStates /\ x.svc = u.svc /\ x.there = u.there /\ x.fini = u.fini
      /\ x.left = u.left /\ x.did = u.did /\ x.crash = u.crash
      /\ \A e \in DiscoveredPaths : x.ctrlr[e] = "up" <=> u.ctrlr[e] = "up" /\ e \notin paths
  BY DeleteFacts
<1> HIDE DEF x
<1>2. /\ v \in DvStates /\ v.svc[s] = c /\ \A t \in DiscoveryServices \ {s} : v.svc[t] = x.svc[t]
      /\ v.there = x.there /\ v.ctrlr = x.ctrlr /\ v.fini = x.fini /\ v.left = x.left
      /\ v.did = x.did /\ v.crash = x.crash
  BY <1>1, SetSvc
<1> HIDE DEF v
<1>3. ASSUME NEW e \in DiscoveredPaths, v.ctrlr[e] = "up"
      PROVE  \/ e \in v.svc[s].nvm
             \/ w.ctrlr[e] = "up" /\ e \notin w.svc[s].nvm
  BY <1>1, <1>2, <1>3 DEF Fit
<1>4. Fit(v, w, s)
  BY <1>1, <1>2, <1>3 DEF Fit
<1> QED BY <1>1, <1>2, <1>4 DEF v, x

---------------------------------------------------------------------------
(* The functions of the client *)

(* stop_discovery. *)
LEMMA StopMoved ==
    ASSUME NEW w \in DvStates, NEW u \in DvStates, NEW s \in DiscoveryServices, Fit(u, w, s), u.crash = "no",
           NEW owed \in {"no", "rpc", "fini"},
           u.svc[s].attach # {} => DvCause(u),
           u.svc[s].start => DvTold(u)
    PROVE  LET v == StopService(u, s, owed)
           IN  /\ Moved(v, w, s) /\ v.svc[s] = Stopped(u.svc[s], owed) /\ v.crash = "no" /\ v.left = u.left
               /\ v.did = u.did /\ v.fini = u.fini
<1> DEFINE c == Stopped(u.svc[s], owed)
           v == StopService(u, s, owed)
<1>1. u.svc[s] \in DvSvcs
  BY DEF DvStates
<1>2. /\ c \in DvSvcs /\ c.stopped /\ c.nvm = {} /\ c.attach = u.svc[s].attach /\ c.freed = u.svc[s].attach
      /\ c.start = u.svc[s].start /\ c.spare = 0
  BY <1>1 DEF Stopped, DvSvcs
<1>3. v = [DeletePaths(u, u.svc[s].nvm) EXCEPT !.svc[s] = c]
  <2>1. DeletePaths(u, u.svc[s].nvm).svc = u.svc
    BY DeleteFacts
  <2> QED BY <2>1 DEF StopService
<1> HIDE DEF c
<1>4. /\ Fit(v, w, s) /\ v \in DvStates /\ v.svc[s] = c /\ v.crash = u.crash /\ v.left = u.left
      /\ v.did = u.did /\ v.there = u.there /\ v.fini = u.fini
  BY <1>2, <1>3, FitDrop
<1> HIDE DEF v
<1>5. SvcSound(v, c)
  BY <1>2, <1>4 DEF SvcSound, Serving, RestSound, DvCause, DvTold
<1>6. SpareBound(v, s)
  BY <1>2, <1>4 DEF SpareBound, DvStates, DvBounds
<1>7. DvFaults(v)
  BY <1>4 DEF DvFaults
<1>8. Moved(v, w, s)
  BY <1>4, <1>5, <1>6, <1>7 DEF Moved
<1> QED BY <1>4, <1>8 DEF v, c

(* get_discovery_log_page. *)
LEMMA GetLogPageMoved ==
    ASSUME NEW w \in DvStates, NEW u \in DvStates, NEW s \in DiscoveryServices, Fit(u, w, s), u.crash = "no",
           SpareBound(u, s), Serving(u.svc[s]), EntrySound(u, u.svc[s]), StartSound(u, u.svc[s]),
           u.svc[s].freed = {}, ~u.svc[s].inProgress => u.svc[s].attach = {},
           u.svc[s].inProgress => "losses" \in u.did,
           u.svc[s].ctrlr = "no" => u.did \cap {"losses", "failures"} # {},
           u.svc[s].ctrlr = "detaching" => "losses" \in u.did
    PROVE  Moved(GetLogPage(u, s), w, s)
<1> DEFINE c == u.svc[s]
<1>1. CASE c.inProgress
  <2>1. GetLogPage(u, s) = DiscoveryCrash(u, "in progress")
    BY <1>1 DEF GetLogPage
  <2>2. DvFaults([u EXCEPT !.crash = "in progress"])
    BY <1>1 DEF DvFaults, DvStates
  <2> QED BY <2>1, <2>2, CrashMoved, DvCrashNames
<1>2. CASE ~c.inProgress /\ c.ctrlr = "no"
  <2>1. GetLogPage(u, s) = DiscoveryCrash(u, "no controller")
    BY <1>2 DEF GetLogPage
  <2>2. DvFaults([u EXCEPT !.crash = "no controller"])
    BY <1>2 DEF DvFaults, DvStates
  <2> QED BY <2>1, <2>2, CrashMoved, DvCrashNames
<1>3. CASE ~c.inProgress /\ c.ctrlr # "no"
  <2> DEFINE d == [c EXCEPT !.inProgress = TRUE, !.reading = TRUE]
             v == [u EXCEPT !.svc[s] = d]
  <2>1. c \in DvSvcs
    BY DEF DvStates
  <2>2. GetLogPage(u, s) = v
    BY <1>3 DEF GetLogPage
  <2>3. /\ d \in DvSvcs /\ d.inProgress /\ d.reading /\ Serving(d) /\ d.nvm = c.nvm /\ d.attach = {} /\ d.freed = {}
        /\ d.rc = c.rc /\ d.start = c.start /\ d.attached = c.attached /\ d.ctrlr = c.ctrlr /\ d.probe = c.probe
        /\ d.inUse = c.inUse /\ d.spare = c.spare
    BY <1>3, <2>1 DEF DvSvcs, Serving
  <2> HIDE DEF d, c
  <2>4. /\ v \in DvStates /\ v.svc[s] = d /\ v.there = u.there /\ v.left = u.left /\ v.did = u.did
        /\ v.crash = u.crash
    BY <2>3, SetSvc
  <2>5. Fit(v, w, s)
    BY <2>3, FitSet DEF c
  <2> HIDE DEF v
  <2>6. EntrySound(v, d) /\ StartSound(v, d)
    BY <2>3, <2>4 DEF EntrySound, StartSound, c
  <2>7. ProgressSound(v, d)
    BY <1>3, <2>1, <2>3, <2>4 DEF ProgressSound, c, DvSvcs
  <2>8. PageSound(v, d)
    BY <2>3 DEF PageSound
  <2>9. SpareBound(v, s) /\ DvFaults(v)
    BY <2>3, <2>4 DEF SpareBound, DvFaults, c
  <2> QED
    BY <2>2, <2>3, <2>4, <2>5, <2>6, <2>7, <2>8, <2>9 DEF Moved, SvcSound, ServingSound
<1> QED BY <1>1, <1>2, <1>3

(* What is left of a discovery that has attached what it found. *)
AllAttached(u, c) ==
    /\ Serving(c) /\ EntrySound(u, c) /\ StartSound(u, c) /\ c.attach = {} /\ ~c.reading /\ c.freed = {}
    /\ c.ctrlr # "up" => "losses" \in u.did

(* discovery_complete. *)
LEMMA CompleteMoved ==
    ASSUME NEW w \in DvStates, NEW u \in DvStates, NEW s \in DiscoveryServices, Fit(u, w, s), u.crash = "no",
           SpareBound(u, s), AllAttached(u, u.svc[s]),
           u.svc[s].ctrlr = "up" /\ ~u.svc[s].event /\ ~u.svc[s].pending /\ ~u.svc[s].rc
              => u.svc[s].nvm = u.there \ u.svc[s].refused
    PROVE  Moved(DiscoveryComplete(u, s), w, s)
<1> DEFINE c == u.svc[s]
           d == [c EXCEPT !.initializing = FALSE, !.inProgress = FALSE, !.pending = FALSE]
           v == [u EXCEPT !.svc[s] = d]
<1>1. c \in DvSvcs
  BY DEF DvStates
<1>2. DiscoveryComplete(u, s) = IF c.pending THEN GetLogPage(v, s) ELSE v
  BY DEF DiscoveryComplete
<1>3. /\ d \in DvSvcs /\ ~d.inProgress /\ ~d.pending /\ d.reading = c.reading /\ (Serving(d) <=> Serving(c))
      /\ d.nvm = c.nvm /\ d.attach = c.attach /\ d.freed = c.freed
      /\ d.rc = c.rc /\ d.start = c.start /\ d.attached = c.attached /\ d.ctrlr = c.ctrlr /\ d.probe = c.probe
      /\ d.inUse = c.inUse /\ d.spare = c.spare /\ d.event = c.event /\ d.refused = c.refused
  BY <1>1 DEF DvSvcs, Serving
<1> HIDE DEF d, c
<1>4. /\ v \in DvStates /\ v.svc[s] = d /\ v.there = u.there /\ v.left = u.left /\ v.did = u.did
      /\ v.crash = u.crash
  BY <1>3, SetSvc
<1>5. Fit(v, w, s)
  BY <1>3, FitSet DEF c
<1> HIDE DEF v
<1>6. /\ Serving(d) /\ EntrySound(v, d) /\ StartSound(v, d) /\ d.attach = {} /\ ~d.reading /\ d.freed = {}
      /\ (d.ctrlr # "up" => "losses" \in v.did)
  BY <1>3, <1>4 DEF EntrySound, StartSound, c, AllAttached
<1>7. SpareBound(v, s) /\ DvFaults(v)
  BY <1>3, <1>4 DEF SpareBound, DvFaults, c
<1>8. CASE c.pending
  <2>1. Moved(GetLogPage(v, s), w, s)
    BY <1>3, <1>4, <1>5, <1>6, <1>7, GetLogPageMoved
  <2> QED BY <1>2, <1>8, <2>1
<1>9. CASE ~c.pending
  <2>1. ProgressSound(v, d)
    BY <1>3, <1>6 DEF ProgressSound
  <2>2. PageSound(v, d)
    BY <1>3, <1>4, <1>6, <1>9 DEF PageSound, c
  <2>3. Moved(v, w, s)
    BY <1>4, <1>5, <1>6, <1>7, <2>1, <2>2 DEF Moved, SvcSound, ServingSound
  <2> QED BY <1>2, <1>9, <2>3
<1> QED BY <1>8, <1>9

(* discovery_remove_controllers. *)
LEMMA RemoveMoved ==
    ASSUME NEW w \in DvStates, NEW u \in DvStates, NEW s \in DiscoveryServices, Fit(u, w, s), u.crash = "no",
           NEW log \in SUBSET DiscoveredPaths, SpareBound(u, s), AllAttached(u, u.svc[s]),
           u.svc[s].ctrlr = "up" /\ ~u.svc[s].event /\ ~u.svc[s].pending /\ ~u.svc[s].rc
              => u.svc[s].nvm \cap log = u.there \ u.svc[s].refused
    PROVE  Moved(RemoveControllers(u, s, log), w, s)
<1> DEFINE c == u.svc[s]
           d == [c EXCEPT !.nvm = @ \cap log]
           v == [DeletePaths(u, c.nvm \ log) EXCEPT !.svc[s] = d]
<1>1. c \in DvSvcs
  BY DEF DvStates
<1>2. RemoveControllers(u, s, log) = DiscoveryComplete(v, s)
  <2>1. DeletePaths(u, c.nvm \ log).svc = u.svc
    BY DeleteFacts
  <2>2. DeletePaths(u, c.nvm \ log) \in DvStates
    BY DeleteFacts
  <2>3. [DeletePaths(u, c.nvm \ log) EXCEPT !.svc[s].nvm = @ \cap log] = v
    BY <2>1, <2>2, <1>1 DEF DvStates
  <2> QED BY <2>3 DEF RemoveControllers
<1>3. /\ d \in DvSvcs /\ d.reading = c.reading /\ (Serving(d) <=> Serving(c))
      /\ d.nvm = c.nvm \cap log /\ d.attach = c.attach /\ d.freed = c.freed /\ d.pending = c.pending
      /\ d.rc = c.rc /\ d.start = c.start /\ d.attached = c.attached /\ d.ctrlr = c.ctrlr /\ d.probe = c.probe
      /\ d.inUse = c.inUse /\ d.spare = c.spare /\ d.event = c.event /\ d.refused = c.refused
  BY <1>1 DEF DvSvcs, Serving
<1>4. u.svc[s].nvm \ (c.nvm \ log) \subseteq d.nvm
  BY <1>3
<1> DEFINE paths == c.nvm \ log
<1> HIDE DEF d, paths
<1>5. /\ Fit(v, w, s) /\ v \in DvStates /\ v.svc[s] = d /\ v.crash = u.crash /\ v.left = u.left
      /\ v.did = u.did /\ v.there = u.there
  <2>1. u.svc[s].nvm \ paths \subseteq d.nvm
    BY <1>4 DEF paths
  <2>2. v = [DeletePaths(u, paths) EXCEPT !.svc[s] = d]
    BY DEF paths
  <2> HIDE DEF v
  <2>3. LET x == [DeletePaths(u, paths) EXCEPT !.svc[s] = d]
        IN  /\ Fit(x, w, s) /\ x \in DvStates /\ x.svc[s] = d /\ x.crash = u.crash /\ x.left = u.left
            /\ x.did = u.did /\ x.there = u.there
    BY <2>1, <1>3, FitDrop
  <2> QED BY <2>2, <2>3
<1> HIDE DEF v
<1>6. AllAttached(v, d)
  BY <1>3, <1>5 DEF AllAttached, EntrySound, StartSound
<1>7. SpareBound(v, s)
  BY <1>3, <1>5 DEF SpareBound
<1>8. d.ctrlr = "up" /\ ~d.event /\ ~d.pending /\ ~d.rc => d.nvm = v.there \ d.refused
  BY <1>3, <1>5
<1> HIDE DEF c
<1>9. Moved(DiscoveryComplete(v, s), w, s)
  BY <1>5, <1>6, <1>7, <1>8, CompleteMoved
<1> QED BY <1>2, <1>9

(* What has been told of a service, and what that leaves alone. *)
ToldOf(n, c, failed) ==
    /\ n \in DvSvcs /\ n.st = c.st /\ n.stopped = c.stopped /\ n.initializing = c.initializing
    /\ n.inProgress = c.inProgress /\ n.pending = c.pending /\ n.reading = c.reading
    /\ n.nvm = c.nvm /\ n.attach = c.attach /\ n.freed = c.freed /\ n.page = c.page
    /\ n.rc = failed /\ n.start = FALSE /\ n.attached = c.attached /\ n.ctrlr = c.ctrlr
    /\ n.probe = c.probe /\ n.inUse = c.inUse /\ n.spare = c.spare /\ n.event = c.event
    /\ n.refused = c.refused /\ n.unread = c.unread

(* The record after complete_discovery_start. *)
LEMMA AnswerRecord ==
    ASSUME NEW c \in DvSvcs, NEW failed \in BOOLEAN
    PROVE  ToldOf([c EXCEPT !.timed = FALSE, !.rc = failed, !.start = FALSE], c, failed)
<1> DEFINE n == [c EXCEPT !.timed = FALSE, !.rc = failed, !.start = FALSE]
<1>1. /\ n.st = c.st /\ n.stopped = c.stopped /\ n.initializing = c.initializing
      /\ n.inProgress = c.inProgress /\ n.pending = c.pending /\ n.reading = c.reading
      /\ n.nvm = c.nvm /\ n.attach = c.attach /\ n.freed = c.freed /\ n.page = c.page
  BY DEF DvSvcs
<1>2. /\ n.rc = failed /\ n.start = FALSE /\ n.attached = c.attached /\ n.ctrlr = c.ctrlr
      /\ n.probe = c.probe /\ n.inUse = c.inUse /\ n.spare = c.spare /\ n.event = c.event
      /\ n.refused = c.refused /\ n.unread = c.unread
  BY DEF DvSvcs
<1>3. n \in DvSvcs
  BY DEF DvSvcs
<1> HIDE DEF n
<1>4. ToldOf(n, c, failed)
  BY <1>1, <1>2, <1>3 DEF ToldOf
<1> QED BY <1>4 DEF n

(* complete_discovery_start. *)
Answered(v, u, w, s, failed) ==
    LET c == u.svc[s]
        d == v.svc[s]
    IN  /\ v \in DvStates /\ Fit(v, w, s) /\ v.crash = "no" /\ v.there = u.there /\ v.left = u.left
        /\ v.did = u.did /\ v.fini = u.fini
        /\ d \in DvSvcs /\ d.st = c.st /\ d.stopped = c.stopped /\ d.initializing = c.initializing
        /\ d.inProgress = c.inProgress /\ d.pending = c.pending /\ d.reading = c.reading
        /\ d.nvm = c.nvm /\ d.attach = c.attach /\ d.freed = c.freed /\ d.page = c.page
        /\ d.rc = failed /\ d.start = FALSE /\ d.attached = c.attached /\ d.ctrlr = c.ctrlr
        /\ d.probe = c.probe /\ d.inUse = c.inUse /\ d.spare = c.spare /\ d.event = c.event
        /\ d.refused = c.refused /\ d.unread = c.unread
(* Whoever waits for the start has been told. *)
LEMMA AnswerFacts ==
    ASSUME NEW w \in DvStates, NEW u \in DvStates, NEW s \in DiscoveryServices, Fit(u, w, s), u.crash = "no",
           NEW failed \in BOOLEAN
    PROVE  Answered(AnswerStart(u, s, failed), u, w, s, failed)
<1> DEFINE c == u.svc[s]
           v == AnswerStart(u, s, failed)
           n == [c EXCEPT !.timed = FALSE, !.rc = failed, !.start = FALSE]
<1>1. c \in DvSvcs
  BY DEF DvStates
<1>2. v = [u EXCEPT !.svc[s] = n]
  BY DEF AnswerStart
<1>0. ToldOf(n, c, failed)
  BY <1>1, AnswerRecord
<1> HIDE DEF n, v
<1>3. /\ n \in DvSvcs /\ n.st = c.st /\ n.stopped = c.stopped /\ n.initializing = c.initializing
      /\ n.inProgress = c.inProgress /\ n.pending = c.pending /\ n.reading = c.reading
      /\ n.nvm = c.nvm /\ n.attach = c.attach /\ n.freed = c.freed /\ n.page = c.page
      /\ n.rc = failed /\ n.start = FALSE /\ n.attached = c.attached /\ n.ctrlr = c.ctrlr
      /\ n.probe = c.probe /\ n.inUse = c.inUse /\ n.spare = c.spare /\ n.event = c.event
      /\ n.refused = c.refused /\ n.unread = c.unread
  BY <1>0 DEF ToldOf
<1>5. /\ v \in DvStates /\ v.svc[s] = n /\ v.there = u.there /\ v.left = u.left /\ v.did = u.did
      /\ v.crash = u.crash /\ v.fini = u.fini
  BY <1>2, <1>3, SetSvc
<1>6. Fit(v, w, s)
  BY <1>2, <1>3, FitSet
<1>7. Answered(v, u, w, s, failed)
  BY <1>3, <1>5, <1>6 DEF Answered
<1> QED BY <1>7 DEF v

(* The service is freed. *)
LEMMA FreeMoved ==
    ASSUME NEW w \in DvStates, NEW u \in DvStates, NEW s \in DiscoveryServices, Fit(u, w, s), u.crash = "no",
           u.svc[s].nvm = {}, u.svc[s].attach # {} => DvCause(u)
    PROVE  Moved(FreeService(u, s), w, s)
<1> DEFINE c == u.svc[s]
           d == [NoService EXCEPT !.st = "freed", !.attach = c.attach, !.freed = c.attach]
           x == [u EXCEPT !.svc[s] = d]
           f == IF c.stop = "fini" /\ Listed(x) = {} THEN "done" ELSE x.fini
           v == [x EXCEPT !.fini = f]
<1>1. c \in DvSvcs
  BY DEF DvStates
<1>2. FreeService(u, s) = v
  BY DEF FreeService
<1>3. /\ d \in DvSvcs /\ d.nvm = {} /\ d.attach = c.attach /\ d.freed = c.attach /\ d.st = "freed" /\ ~d.start
      /\ d.spare = 0
  <2> DEFINE e == c.attach
             o == NoService
  <2>1. e \in SUBSET DiscoveredPaths
    BY <1>1 DEF DvSvcs
  <2>2. o \in DvSvcs
    BY DEF DvSvcs, NoService
  <2>3. o.nvm = {} /\ o.start = FALSE /\ o.spare = 0
    BY DEF NoService
  <2>4. d = [o EXCEPT !.st = "freed", !.attach = e, !.freed = e]
    OBVIOUS
  <2> HIDE DEF e, o, d
  <2>5. d \in DvSvcs
    BY <2>1, <2>2, <2>4 DEF DvSvcs
  <2>6. d.nvm = o.nvm /\ d.attach = e /\ d.freed = e /\ d.st = "freed" /\ d.start = o.start /\ d.spare = o.spare
    BY <2>2, <2>4 DEF DvSvcs
  <2> QED BY <2>3, <2>5, <2>6 DEF e
<1> HIDE DEF d
<1>4. /\ x \in DvStates /\ x.svc[s] = d /\ x.there = u.there /\ x.left = u.left /\ x.did = u.did
      /\ x.crash = u.crash /\ x.fini = u.fini
  BY <1>3, SetSvc
<1>5. Fit(x, w, s)
  BY <1>3, FitSet
<1> HIDE DEF x
<1>6. f \in {"no", "waits", "done"}
  BY <1>4 DEF DvStates
<1> HIDE DEF f
<1>7. /\ v \in DvStates /\ v.svc = x.svc /\ v.there = x.there /\ v.left = x.left /\ v.did = x.did
      /\ v.crash = x.crash /\ v.ctrlr = x.ctrlr
  BY <1>4, <1>6 DEF DvStates
<1> HIDE DEF v
<1>8. Fit(v, w, s)
  BY <1>5, <1>7 DEF Fit
<1>9. SvcSound(v, d)
  BY <1>3, <1>4, <1>7 DEF SvcSound, Serving, RestSound, DvCause, DvTold
<1>10. SpareBound(v, s) /\ DvFaults(v)
  BY <1>3, <1>4, <1>7 DEF SpareBound, DvFaults, DvStates, DvBounds
<1> QED BY <1>2, <1>4, <1>7, <1>8, <1>9, <1>10 DEF Moved

---------------------------------------------------------------------------
(* The steps *)

(* A bounded step begins. *)
LEMMA SpendFit ==
    ASSUME NEW w, DvInv(w), w.crash = "no", NEW s \in DiscoveryServices, NEW what \in DvSteps, w.left[what] > 0
    PROVE  LET u == DiscoverySpend(w, what)
           IN  /\ u \in DvStates /\ Fit(u, w, s) /\ u.svc = w.svc /\ u.crash = "no" /\ u.did = w.did \cup {what}
               /\ u.left.referrals = w.left.referrals /\ u.there = w.there /\ u.ctrlr = w.ctrlr
               /\ u.fini = w.fini /\ SvcSound(u, u.svc[s]) /\ SpareBound(u, s)
<1> DEFINE u == DiscoverySpend(w, what)
<1>1. w \in DvStates /\ w.svc[s] \in DvSvcs /\ SvcSound(w, w.svc[s])
  BY DEF DvInv, DvStates
<1>2. /\ u \in DvStates /\ u.svc = w.svc /\ u.there = w.there /\ u.ctrlr = w.ctrlr /\ u.fini = w.fini
      /\ u.left.referrals = w.left.referrals /\ u.crash = w.crash
      /\ u.did = w.did \cup {what}
  BY <1>1, SpendFacts
<1> HIDE DEF u
<1>3. Fit(u, w, s)
  BY <1>2 DEF Fit
<1>4. SvcSound(u, u.svc[s])
  BY <1>1, <1>2, SoundGrows
<1>5. SpareBound(u, s)
  BY <1>2 DEF SpareBound, DvInv
<1> QED BY <1>2, <1>3, <1>4, <1>5 DEF u

(* A step that only sets one service. *)
LEMMA SetMoved ==
    ASSUME NEW w \in DvStates, NEW u \in DvStates, NEW s \in DiscoveryServices, Fit(u, w, s), u.crash = "no",
           NEW c \in DvSvcs, u.svc[s].nvm \subseteq c.nvm, SvcSound(u, c), c.spare <= u.left.referrals + 1
    PROVE  Moved([u EXCEPT !.svc[s] = c], w, s)
<1> DEFINE v == [u EXCEPT !.svc[s] = c]
<1>1. /\ v \in DvStates /\ v.svc[s] = c /\ v.there = u.there /\ v.left = u.left /\ v.did = u.did
      /\ v.crash = u.crash
  BY SetSvc
<1>2. Fit(v, w, s)
  BY FitSet
<1> HIDE DEF v
<1>3. SvcSound(v, c)
  BY <1>1, SoundGrows
<1>4. SpareBound(v, s) /\ DvFaults(v)
  BY <1>1 DEF SpareBound, DvFaults
<1>5. Moved(v, w, s)
  BY <1>1, <1>2, <1>3, <1>4 DEF Moved
<1> QED BY <1>5 DEF v

(* The end of a timeout's answer to the start. *)
LEMMA TimedOutFacts ==
    ASSUME DvInv(dv), dv.crash = "no", NEW s \in DiscoveryServices, TimesOut(s)
    PROVE  LET v == TimedOut(s)
               c == dv.svc[s]
               d == v.svc[s]
           IN  /\ v \in DvStates /\ Fit(v, dv, s) /\ v.crash = "no" /\ v.there = dv.there
               /\ v.left.referrals = dv.left.referrals /\ v.did = dv.did \cup {"timeouts"} /\ SpareBound(v, s)
               /\ d \in DvSvcs /\ d.st = c.st /\ d.stopped = c.stopped /\ d.initializing = c.initializing
               /\ d.attach = c.attach /\ ~d.start /\ d.ctrlr = c.ctrlr /\ d.probe = c.probe
               /\ (Serving(c) => ServingSound(v, d))
<1> DEFINE u == DiscoverySpend(dv, "timeouts")
           v == AnswerStart(u, s, TRUE)
           c == dv.svc[s]
           d == v.svc[s]
<1>1. dv \in DvStates
  BY DEF DvInv
<1>2. /\ u \in DvStates /\ Fit(u, dv, s) /\ u.svc = dv.svc /\ u.crash = "no" /\ u.did = dv.did \cup {"timeouts"}
      /\ u.left.referrals = dv.left.referrals /\ u.there = dv.there /\ u.ctrlr = dv.ctrlr
      /\ u.fini = dv.fini /\ SvcSound(u, u.svc[s]) /\ SpareBound(u, s)
  <2>1. dv.left["timeouts"] > 0
    BY DEF TimesOut
  <2> QED BY <2>1, SpendFit, DvStepNames
<1> HIDE DEF u
<1>3. /\ v \in DvStates /\ Fit(v, dv, s) /\ v.crash = "no" /\ v.there = u.there /\ v.left = u.left
      /\ v.did = u.did /\ v.fini = u.fini
      /\ d \in DvSvcs /\ d.st = c.st /\ d.stopped = c.stopped /\ d.initializing = c.initializing
      /\ d.inProgress = c.inProgress /\ d.pending = c.pending /\ d.reading = c.reading
      /\ d.nvm = c.nvm /\ d.attach = c.attach /\ d.freed = c.freed /\ d.page = c.page
      /\ d.rc = TRUE /\ d.start = FALSE /\ d.attached = c.attached /\ d.ctrlr = c.ctrlr
      /\ d.probe = c.probe /\ d.inUse = c.inUse /\ d.spare = c.spare /\ d.event = c.event
      /\ d.refused = c.refused /\ d.unread = c.unread
  <2>1. Answered(v, u, dv, s, TRUE)
    BY <1>1, <1>2, AnswerFacts
  <2> HIDE DEF v
  <2> QED BY <1>2, <2>1 DEF Answered
<1>4. v = TimedOut(s)
  BY DEF TimedOut, u
<1> HIDE DEF v
<1>5. ASSUME Serving(c) PROVE ServingSound(v, d)
  <2>1. ServingSound(u, c)
    BY <1>2, <1>5 DEF SvcSound
  <2>2. EntrySound(v, d)
    BY <1>3, <2>1 DEF ServingSound, EntrySound
  <2>3. ProgressSound(v, d)
    BY <1>3, <2>1 DEF ServingSound, ProgressSound
  <2>4. StartSound(v, d)
    BY <1>2, <1>3 DEF StartSound
  <2>5. PageSound(v, d)
    BY <1>3, <2>1 DEF ServingSound, PageSound
  <2> QED BY <2>2, <2>3, <2>4, <2>5 DEF ServingSound
<1>6. SpareBound(v, s)
  BY <1>2, <1>3 DEF SpareBound
<1> QED BY <1>2, <1>3, <1>4, <1>5, <1>6

(* The paths that are being attached. *)
LEMMA AttachEndsSound ==
    ASSUME NEW w, DvInv(w), w.crash = "no", NEW s \in DiscoveryServices, NEW e \in w.svc[s].attach,
           NEW u \in DvStates, u.svc = w.svc, u.there = w.there, w.did \subseteq u.did, u.crash = "no",
           u.left.referrals = w.left.referrals,
           \A f \in DiscoveredPaths : u.ctrlr[f] = "up" => w.ctrlr[f] = "up" \/ f = e
    PROVE  DvInv(AttachEnds(u, s, e))
<1> DEFINE c == u.svc[s]
           last == c.attach = {e}
           d == Attached(c, e)
           ended == [u EXCEPT !.svc[s] = d]
<1>1. w \in DvStates /\ c \in DvSvcs /\ SvcSound(w, c) /\ SpareBound(w, s)
  BY DEF DvInv, DvStates
<1>2. SvcSound(u, c)
  BY <1>1, SoundGrows
<1>3. CASE e \in c.freed
  <2> DEFINE v == DiscoveryCrash(u, "freed entry")
  <2>1. AttachEnds(u, s, e) = v
    BY <1>3 DEF AttachEnds
  <2>2. /\ v \in DvStates /\ v.svc = u.svc /\ v.left = u.left /\ v.did = u.did /\ v.crash = "freed entry"
    BY CrashFacts, DvCrashNames
  <2> HIDE DEF v
  <2>3. DvCause(u)
    BY <1>2, <1>3 DEF SvcSound, ServingSound, PageSound, RestSound
  <2>4. \A t \in DiscoveryServices : SpareBound(v, t)
    BY <2>2 DEF DvInv, SpareBound
  <2>5. DvFaults(v)
    BY <2>2, <2>3 DEF DvFaults, DvCause, DvTold
  <2> QED BY <2>1, <2>2, <2>4, <2>5 DEF DvInv
<1>4. CASE e \notin c.freed
  <2>1. Serving(c) /\ ServingSound(u, c)
    BY <1>2, <1>4 DEF SvcSound, RestSound
  <2>2. e \in c.nvm /\ c.inProgress
    BY <2>1 DEF ServingSound, PageSound, ProgressSound
  <2>3. Fit(u, w, s)
    BY <2>2 DEF Fit
  <2>4. /\ d \in DvSvcs /\ d.st = c.st /\ d.stopped = c.stopped /\ d.initializing = c.initializing
        /\ d.inProgress = c.inProgress /\ d.pending = c.pending /\ d.reading = c.reading
        /\ d.nvm = c.nvm /\ d.attach = c.attach \ {e} /\ d.freed = c.freed /\ d.page = c.page
        /\ d.rc = c.rc /\ d.start = c.start /\ d.attached = (c.attached \/ last) /\ d.ctrlr = c.ctrlr
        /\ d.probe = c.probe /\ d.inUse = c.inUse /\ d.spare = c.spare /\ d.event = c.event
        /\ d.refused = c.refused /\ d.unread = c.unread
    <3>1. (c.attached \/ last) \in BOOLEAN /\ c.attach \ {e} \in SUBSET DiscoveredPaths
      BY <1>1 DEF DvSvcs
    <3> QED BY <1>1, <3>1 DEF DvSvcs, Attached
  <2>5. AttachEnds(u, s, e) = CASE ~last -> ended
               [] last /\ c.initializing /\ c.rc -> StopService(AnswerStart(ended, s, TRUE), s, "no")
               [] OTHER -> RemoveControllers(AnswerStart(ended, s, c.rc), s, c.page)
    BY <1>4 DEF AttachEnds
  <2> HIDE DEF d
  <2>7. /\ ended \in DvStates /\ ended.svc[s] = d /\ ended.there = u.there /\ ended.left = u.left
        /\ ended.did = u.did /\ ended.crash = u.crash
    BY <2>4, SetSvc
  <2>8. Fit(ended, w, s)
    BY <1>1, <2>3, <2>4, FitSet
  <2> DEFINE v == ended
  <2>9. v = ended
    OBVIOUS
  <2>10. EntrySound(v, d) /\ d.freed = {} /\ d.attach \subseteq d.nvm /\ Serving(d)
    BY <2>1, <2>4, <2>7 DEF ServingSound, EntrySound, PageSound, Serving
  <2>11. SpareBound(v, s)
    BY <1>1, <2>4, <2>7 DEF SpareBound
  <2> HIDE DEF v
  <2>12. CASE ~last
    <3>1. d.attach # {} /\ d.attached = c.attached BY <2>4, <2>12, <1>1 DEF DvSvcs
    <3>2. ProgressSound(v, d) /\ StartSound(v, d)
      BY <2>1, <2>4, <2>7, <2>9, <3>1 DEF ServingSound, ProgressSound, StartSound
    <3>3. PageSound(v, d)
      BY <2>1, <2>2, <2>4, <2>7, <2>9, <2>10, <2>12, <3>1 DEF ServingSound, PageSound
    <3>4. DvFaults(v) BY <2>7, <2>9 DEF DvFaults
    <3>5. Moved(v, w, s)
      BY <2>7, <2>8, <2>9, <2>10, <2>11, <3>2, <3>3, <3>4 DEF Moved, SvcSound, ServingSound
    <3> QED BY <2>5, <2>9, <2>12, <3>5, MovedSound
  <2>13. CASE last /\ c.initializing /\ c.rc
    <3> DEFINE x == AnswerStart(v, s, TRUE)
    <3>0. Answered(x, v, w, s, TRUE) BY <1>1, <2>7, <2>8, <2>9, AnswerFacts
    <3> HIDE DEF x
    <3>1. /\ x \in DvStates /\ Fit(x, w, s) /\ x.crash = "no" /\ x.svc[s].attach = d.attach
          /\ ~x.svc[s].start
      BY <2>7, <2>9, <3>0 DEF Answered
    <3>2. d.attach = {} BY <2>4, <2>13
    <3>3. Moved(StopService(x, s, "no"), w, s) BY <1>1, <3>1, <3>2, StopMoved
    <3> QED BY <2>5, <2>9, <2>13, <3>3, MovedSound DEF x
  <2>14. CASE last /\ ~(c.initializing /\ c.rc)
    <3> DEFINE x == AnswerStart(v, s, c.rc)
               z == x.svc[s]
    <3>1. c.rc \in BOOLEAN /\ c.page \in SUBSET DiscoveredPaths BY <1>1 DEF DvSvcs
    <3>0. Answered(x, v, w, s, c.rc) BY <1>1, <2>7, <2>8, <2>9, <3>1, AnswerFacts
    <3> HIDE DEF x
    <3>2. /\ x \in DvStates /\ Fit(x, w, s) /\ x.crash = "no" /\ x.there = v.there /\ x.left = v.left
          /\ x.did = v.did
          /\ z.st = d.st /\ z.stopped = d.stopped
          /\ z.inProgress = d.inProgress /\ z.pending = d.pending /\ z.reading = d.reading
          /\ z.nvm = d.nvm /\ z.attach = d.attach /\ z.freed = d.freed
          /\ z.rc = c.rc /\ z.start = FALSE /\ z.attached = d.attached /\ z.ctrlr = d.ctrlr
          /\ z.probe = d.probe /\ z.inUse = d.inUse /\ z.spare = d.spare /\ z.event = d.event
          /\ z.refused = d.refused
      BY <2>7, <2>9, <3>0 DEF Answered
    <3>3. d.attach = {} BY <2>4, <2>14
    <3>4. Serving(z) /\ EntrySound(x, z) BY <2>10, <3>2 DEF Serving, EntrySound
    <3>5. StartSound(x, z) BY <2>1, <2>7, <2>9, <3>2 DEF StartSound, ServingSound
    <3>6. ~z.reading /\ (z.ctrlr # "up" => "losses" \in x.did)
      BY <2>1, <2>2, <2>4, <2>7, <2>9, <3>2 DEF ServingSound, ProgressSound
    <3>7. AllAttached(x, z) BY <2>10, <3>2, <3>3, <3>4, <3>5, <3>6 DEF AllAttached
    <3>8. ASSUME z.ctrlr = "up", ~z.event, ~z.pending, ~z.rc PROVE z.nvm \cap c.page = x.there \ z.refused
      <4>1. c.nvm \cap c.page = c.page \ c.refused /\ c.page = u.there
        BY <2>1, <2>4, <2>7, <2>9, <3>2, <3>8 DEF ServingSound, PageSound
      <4> QED BY <4>1, <2>4, <2>7, <2>9, <3>2
    <3>9. SpareBound(x, s) BY <2>7, <2>9, <2>11, <3>0, <3>2 DEF SpareBound
    <3>10. Moved(RemoveControllers(x, s, c.page), w, s)
      BY <1>1, <3>0, <3>1, <3>2, <3>7, <3>8, <3>9, RemoveMoved
    <3> QED BY <2>5, <2>9, <2>14, <3>10, MovedSound DEF x
  <2> QED BY <2>12, <2>13, <2>14
<1> QED BY <1>3, <1>4

(* What the invariant says of a service before a step. *)
LEMMA ServiceBefore ==
    ASSUME DvInv(dv), dv.crash = "no", NEW s \in DiscoveryServices
    PROVE  /\ dv \in DvStates /\ dv.svc[s] \in DvSvcs /\ SvcSound(dv, dv.svc[s]) /\ Fit(dv, dv, s)
           /\ SpareBound(dv, s) /\ dv.left.referrals \in Nat /\ dv.there \in SUBSET DiscoveredPaths
  BY FitSelf DEF DvInv, DvStates, DvBounds

(* A polled service that was not told to stop works. *)
LEMMA PolledServes ==
    ASSUME DvInv(dv), NEW s \in DiscoveryServices, Polls(s), ~dv.svc[s].stopped
    PROVE  dv.crash = "no" /\ Serving(dv.svc[s]) /\ ServingSound(dv, dv.svc[s])
  BY ServiceBefore DEF Polls, Listed, Serving, SvcSound, DiscoveryAlive

(* bdev_nvme_start_discovery. *)
LEMMA StartDiscoverySound ==
    ASSUME DvInv(dv), NEW s \in DiscoveryServices, StartDiscovery(s)
    PROVE  DvInv(dv')
<1> DEFINE u == DiscoverySpend(dv, "starts")
<1>0. dv.crash = "no" /\ dv.left["starts"] > 0 /\ dv.svc[s].st \in {"none", "freed"}
  BY DEF StartDiscovery, DiscoveryAlive
<1>1. /\ dv \in DvStates /\ u \in DvStates /\ Fit(u, dv, s) /\ u.svc = dv.svc /\ u.crash = "no"
      /\ u.left.referrals = dv.left.referrals /\ dv.left.referrals \in Nat
  BY <1>0, SpendFit, DvStepNames, ServiceBefore
<1>2. dv.svc[s].nvm = {}
  BY <1>0, ServiceBefore DEF SvcSound, Serving, RestSound
<1>3. PICK wait \in BOOLEAN, timed \in BOOLEAN :
        dv' = [u EXCEPT !.svc[s] = [NoService EXCEPT !.st = "starting", !.start = wait, !.timed = timed,
                                                     !.initializing = TRUE, !.spare = 1]]
  BY DEF StartDiscovery
<1> DEFINE c == [NoService EXCEPT !.st = "starting", !.start = wait, !.timed = timed,
                                  !.initializing = TRUE, !.spare = 1]
<1>4. /\ c \in DvSvcs /\ c.st = "starting" /\ ~c.stopped /\ c.ctrlr = "no" /\ ~c.probe /\ ~c.inUse /\ c.spare = 1
      /\ ~c.reading /\ c.attach = {} /\ ~c.pending /\ ~c.inProgress /\ ~c.rc /\ ~c.attached /\ c.freed = {}
  BY DEF NoService, DvSvcs
<1> HIDE DEF u, c
<1>5. SvcSound(u, c)
  BY <1>4 DEF SvcSound, Serving, ServingSound, EntrySound, ProgressSound, StartSound, PageSound
<1>6. Moved([u EXCEPT !.svc[s] = c], dv, s)
  BY <1>1, <1>2, <1>4, <1>5, SetMoved
<1>7. dv' = [u EXCEPT !.svc[s] = c]
  BY <1>3 DEF c
<1> QED BY <1>0, <1>6, <1>7, MovedSound

(* The message that lists it. *)
LEMMA StartMessageSound ==
    ASSUME DvInv(dv), NEW s \in DiscoveryServices, StartMessage(s)
    PROVE  DvInv(dv')
<1> DEFINE b == dv.svc[s]
           c == [b EXCEPT !.st = "listed"]
<1>0. dv.crash = "no" /\ b.st = "starting" /\ dv' = [dv EXCEPT !.svc[s] = c]
  BY DEF StartMessage, DiscoveryAlive
<1>1. dv \in DvStates /\ b \in DvSvcs /\ SvcSound(dv, b) /\ Fit(dv, dv, s) /\ SpareBound(dv, s)
  BY <1>0, ServiceBefore
<1>2. /\ c \in DvSvcs /\ c.st = "listed" /\ c.stopped = b.stopped /\ c.inProgress = b.inProgress
      /\ c.pending = b.pending /\ c.reading = b.reading /\ c.nvm = b.nvm /\ c.attach = b.attach
      /\ c.freed = b.freed /\ c.page = b.page /\ c.rc = b.rc /\ c.start = b.start /\ c.attached = b.attached
      /\ c.ctrlr = b.ctrlr /\ c.probe = b.probe /\ c.inUse = b.inUse /\ c.spare = b.spare /\ c.event = b.event
      /\ c.refused = b.refused /\ c.unread = b.unread
  BY <1>1 DEF DvSvcs
<1> HIDE DEF c
<1>3. SvcSound(dv, c)
  <2>1. CASE Serving(b)
    BY <1>0, <1>1, <1>2, <2>1
       DEF SvcSound, Serving, ServingSound, EntrySound, ProgressSound, StartSound, PageSound
  <2>2. CASE ~Serving(b)
    BY <1>0, <1>1, <1>2, <2>2 DEF SvcSound, Serving, RestSound
  <2> QED BY <2>1, <2>2
<1>4. Moved([dv EXCEPT !.svc[s] = c], dv, s)
  BY <1>0, <1>1, <1>2, <1>3, SetMoved DEF SpareBound
<1> QED BY <1>0, <1>4, MovedSound

(* bdev_nvme_stop_discovery. *)
LEMMA StopDiscoverySound ==
    ASSUME DvInv(dv), NEW s \in DiscoveryServices, StopDiscovery(s)
    PROVE  DvInv(dv')
<1> DEFINE u == DiscoverySpend(dv, "stops")
<1>0. dv.crash = "no" /\ dv.left["stops"] > 0 /\ dv' = StopService(u, s, "rpc")
  BY DEF StopDiscovery, DiscoveryAlive
<1>1. /\ dv \in DvStates /\ u \in DvStates /\ Fit(u, dv, s) /\ u.crash = "no" /\ u.did = dv.did \cup {"stops"}
  BY <1>0, SpendFit, DvStepNames, ServiceBefore
<1> HIDE DEF u
<1>2. DvTold(u) /\ DvCause(u)
  BY <1>1 DEF DvTold, DvCause
<1>3. Moved(StopService(u, s, "rpc"), dv, s)
  BY <1>1, <1>2, StopMoved
<1> QED BY <1>0, <1>3, MovedSound

(* The end of an attach. *)
LEMMA AttachDoneSound ==
    ASSUME DvInv(dv), NEW s \in DiscoveryServices, AttachDone(s)
    PROVE  DvInv(dv')
<1>0. dv.crash = "no" /\ dv \in DvStates
  BY DEF AttachDone, DiscoveryAlive, DvInv
<1>1. PICK e \in dv.svc[s].attach :
         \/ dv' = AttachEnds([dv EXCEPT !.ctrlr[e] = "up"], s, e)
         \/ dv.left.failures > 0 /\ dv' = AttachEnds(DiscoverySpend(dv, "failures"), s, e)
  BY DEF AttachDone
<1>2. CASE dv' = AttachEnds([dv EXCEPT !.ctrlr[e] = "up"], s, e)
  <2> DEFINE u == [dv EXCEPT !.ctrlr[e] = "up"]
  <2>1. e \in DiscoveredPaths
    BY <1>0 DEF DvStates, DvSvcs
  <2>2. /\ u \in DvStates /\ u.svc = dv.svc /\ u.there = dv.there /\ u.did = dv.did /\ u.crash = "no"
        /\ u.left = dv.left
        /\ \A f \in DiscoveredPaths : u.ctrlr[f] = "up" => dv.ctrlr[f] = "up" \/ f = e
    BY <1>0, <2>1 DEF DvStates
  <2> HIDE DEF u
  <2>3. DvInv(AttachEnds(u, s, e))
    BY <1>0, <2>2, AttachEndsSound
  <2> QED BY <1>2, <2>3 DEF u
<1>3. CASE dv.left.failures > 0 /\ dv' = AttachEnds(DiscoverySpend(dv, "failures"), s, e)
  <2> DEFINE u == DiscoverySpend(dv, "failures")
  <2>1. dv.left["failures"] > 0
    BY <1>3
  <2>2. /\ u \in DvStates /\ u.svc = dv.svc /\ u.there = dv.there /\ u.did = dv.did \cup {"failures"}
        /\ u.crash = "no" /\ u.left.referrals = dv.left.referrals /\ u.ctrlr = dv.ctrlr
    BY <1>0, <2>1, SpendFit, DvStepNames
  <2> HIDE DEF u
  <2>3. DvInv(AttachEnds(u, s, e))
    BY <1>0, <2>2, AttachEndsSound
  <2> QED BY <1>3, <2>3 DEF u
<1> QED BY <1>1, <1>2, <1>3

(* The discovery controller has been detached. *)
LEMMA PollDetachSound ==
    ASSUME DvInv(dv), NEW s \in DiscoveryServices, PollDetach(s)
    PROVE  DvInv(dv')
<1> DEFINE b == dv.svc[s]
           c == [b EXCEPT !.ctrlr = "no"]
<1>0. dv.crash = "no" /\ b.ctrlr = "detaching" /\ dv' = [dv EXCEPT !.svc[s] = c]
  BY DEF PollDetach, Polls, DiscoveryAlive
<1>1. dv \in DvStates /\ b \in DvSvcs /\ SvcSound(dv, b) /\ Fit(dv, dv, s) /\ SpareBound(dv, s)
  BY <1>0, ServiceBefore
<1>2. /\ c \in DvSvcs /\ c.st = b.st /\ c.stopped = b.stopped /\ c.inProgress = b.inProgress
      /\ c.pending = b.pending /\ c.reading = b.reading /\ c.nvm = b.nvm /\ c.attach = b.attach
      /\ c.freed = b.freed /\ c.page = b.page /\ c.rc = b.rc /\ c.start = b.start /\ c.attached = b.attached
      /\ c.ctrlr = "no" /\ c.probe = b.probe /\ c.inUse = b.inUse /\ c.spare = b.spare /\ c.event = b.event
      /\ c.refused = b.refused /\ c.unread = b.unread
  BY <1>1 DEF DvSvcs
<1> HIDE DEF c
<1>3. SvcSound(dv, c)
  <2>1. CASE Serving(b)
    <3>1. ServingSound(dv, b) BY <1>1, <2>1 DEF SvcSound
    <3>2. EntrySound(dv, c) /\ StartSound(dv, c)
      BY <1>0, <1>2, <3>1 DEF ServingSound, EntrySound, StartSound
    <3>3. ProgressSound(dv, c) BY <1>0, <1>2, <3>1 DEF ServingSound, ProgressSound
    <3>4. PageSound(dv, c) BY <1>0, <1>2, <3>1 DEF ServingSound, PageSound
    <3> QED BY <1>2, <2>1, <3>2, <3>3, <3>4 DEF SvcSound, Serving, ServingSound
  <2>2. CASE ~Serving(b)
    BY <1>1, <1>2, <2>2 DEF SvcSound, Serving, RestSound
  <2> QED BY <2>1, <2>2
<1>4. Moved([dv EXCEPT !.svc[s] = c], dv, s)
  BY <1>0, <1>1, <1>2, <1>3, SetMoved DEF SpareBound
<1> QED BY <1>0, <1>4, MovedSound

(* A stopped service. *)
LEMMA PollStopSound ==
    ASSUME DvInv(dv), NEW s \in DiscoveryServices, PollStop(s)
    PROVE  DvInv(dv')
<1> DEFINE b == dv.svc[s]
<1>0. dv.crash = "no" /\ b.stopped
  BY DEF PollStop, Polls, DiscoveryAlive
<1>1. dv \in DvStates /\ b \in DvSvcs /\ RestSound(dv, b) /\ Fit(dv, dv, s) /\ SpareBound(dv, s)
  BY <1>0, ServiceBefore DEF SvcSound, Serving
<1>2. CASE b.ctrlr = "up" /\ dv' = [dv EXCEPT !.svc[s] = [@ EXCEPT !.ctrlr = "detaching", !.reading = FALSE]]
  <2> DEFINE c == [b EXCEPT !.ctrlr = "detaching", !.reading = FALSE]
  <2>1. dv' = [dv EXCEPT !.svc[s] = c]
    BY <1>2
  <2>2. /\ c \in DvSvcs /\ c.stopped /\ c.nvm = b.nvm /\ c.attach = b.attach /\ c.freed = b.freed
        /\ c.start = b.start /\ c.spare = b.spare
    BY <1>0, <1>1 DEF DvSvcs
  <2> HIDE DEF c
  <2>3. SvcSound(dv, c)
    BY <1>1, <2>2 DEF SvcSound, Serving, RestSound
  <2>4. Moved([dv EXCEPT !.svc[s] = c], dv, s)
    BY <1>0, <1>1, <2>2, <2>3, SetMoved DEF SpareBound
  <2> QED BY <1>0, <2>1, <2>4, MovedSound
<1>3. CASE b.start /\ dv' = DiscoveryCrash(dv, "start owed")
  <2>1. DvFaults([dv EXCEPT !.crash = "start owed"])
    BY <1>1, <1>3 DEF DvFaults, DvStates, RestSound, DvTold
  <2>2. Moved(dv', dv, s)
    BY <1>0, <1>1, <1>3, <2>1, CrashMoved, DvCrashNames
  <2> QED BY <1>0, <2>2, MovedSound
<1>4. CASE ~b.start /\ dv' = FreeService(dv, s)
  <2>1. Moved(dv', dv, s)
    BY <1>0, <1>1, <1>4, FreeMoved DEF RestSound
  <2> QED BY <1>0, <2>1, MovedSound
<1> QED BY <1>2, <1>3, <1>4 DEF PollStop

(* A timeout has its answer. *)
TimedOutTo(v, s) ==
    LET c == dv.svc[s]
        d == v.svc[s]
    IN  /\ v \in DvStates /\ Fit(v, dv, s) /\ v.crash = "no" /\ "timeouts" \in v.did /\ dv.did \subseteq v.did
        /\ SpareBound(v, s) /\ d.attach = c.attach /\ ~d.start /\ d.initializing = c.initializing
        /\ SvcSound(v, d)
(* The start has timed out, and whoever waits for it has been told. *)
LEMMA TimedOutTold ==
    ASSUME DvInv(dv), dv.crash = "no", NEW s \in DiscoveryServices, TimesOut(s), Serving(dv.svc[s])
    PROVE  TimedOutTo(TimedOut(s), s)
<1> DEFINE v == TimedOut(s)
           c == dv.svc[s]
           d == v.svc[s]
<1>1. /\ v \in DvStates /\ Fit(v, dv, s) /\ v.crash = "no" /\ v.there = dv.there
      /\ v.left.referrals = dv.left.referrals /\ v.did = dv.did \cup {"timeouts"} /\ SpareBound(v, s)
      /\ d \in DvSvcs /\ d.st = c.st /\ d.stopped = c.stopped /\ d.initializing = c.initializing
      /\ d.attach = c.attach /\ ~d.start /\ d.ctrlr = c.ctrlr /\ d.probe = c.probe
      /\ (Serving(c) => ServingSound(v, d))
  BY TimedOutFacts
<1> HIDE DEF v
<1>2. SvcSound(v, d)
  BY <1>1 DEF SvcSound, Serving
<1>3. TimedOutTo(v, s)
  BY <1>1, <1>2 DEF TimedOutTo
<1> QED BY <1>3 DEF v

(* A service that is not connected tries the next discovery entry. *)
LEMMA PollConnectSound ==
    ASSUME DvInv(dv), NEW s \in DiscoveryServices, PollConnect(s)
    PROVE  DvInv(dv')
<1> DEFINE b == dv.svc[s]
<1>0. dv.crash = "no" /\ Serving(b) /\ ServingSound(dv, b) /\ ~b.stopped /\ ~b.probe /\ b.ctrlr = "no"
  BY PolledServes DEF PollConnect
<1>1. dv \in DvStates /\ b \in DvSvcs /\ Fit(dv, dv, s) /\ SpareBound(dv, s)
  BY <1>0, ServiceBefore
<1>2. ~b.inUse /\ b.spare >= 1 /\ b.spare \in Nat
  BY <1>0, <1>1 DEF ServingSound, EntrySound, DvSvcs
<1>3. CASE TimesOut(s) /\ b.initializing /\ dv' = FreeService(StopService(TimedOut(s), s, "no"), s)
  <2> DEFINE u == TimedOut(s)
             x == StopService(u, s, "no")
  <2>1. TimedOutTo(u, s)
    BY <1>0, <1>3, TimedOutTold
  <2> HIDE DEF u
  <2>2. /\ u \in DvStates /\ Fit(u, dv, s) /\ u.crash = "no" /\ ~u.svc[s].start /\ u.svc[s].attach = b.attach
        /\ u.svc[s] \in DvSvcs
    BY <2>1 DEF TimedOutTo, DvStates
  <2>3. u.svc[s].attach # {} => DvCause(u)
    BY <1>0, <2>1 DEF TimedOutTo, ServingSound, ProgressSound, DvCause
  <2>4. /\ Moved(x, dv, s) /\ x.svc[s] = Stopped(u.svc[s], "no") /\ x.crash = "no" /\ x.did = u.did
    BY <1>1, <2>2, <2>3, StopMoved
  <2> HIDE DEF x
  <2>5. x \in DvStates /\ Fit(x, dv, s)
    BY <2>4 DEF Moved, Fit
  <2>6. x.svc[s].nvm = {} /\ x.svc[s].attach = u.svc[s].attach
    BY <2>2, <2>4 DEF Stopped, DvSvcs
  <2>7. x.svc[s].attach # {} => DvCause(x)
    BY <2>3, <2>4, <2>6 DEF DvCause, DvTold
  <2>8. Moved(FreeService(x, s), dv, s)
    BY <1>1, <2>4, <2>5, <2>6, <2>7, FreeMoved
  <2> QED BY <1>0, <1>3, <2>8, MovedSound DEF u, x
<1>4. CASE TimesOut(s) /\ ~b.initializing /\ dv' = DiscoveryCrash(TimedOut(s), "not initializing")
  <2> DEFINE u == TimedOut(s)
  <2>1. TimedOutTo(u, s)
    BY <1>0, <1>4, TimedOutTold
  <2> HIDE DEF u
  <2>2. u \in DvStates /\ Fit(u, dv, s) /\ u.crash = "no" /\ SpareBound(u, s) /\ "timeouts" \in u.did
    BY <2>1 DEF TimedOutTo
  <2>3. DvFaults([u EXCEPT !.crash = "not initializing"])
    BY <2>2 DEF DvFaults, DvStates
  <2>4. Moved(DiscoveryCrash(u, "not initializing"), dv, s)
    BY <1>1, <2>2, <2>3, CrashMoved, DvCrashNames
  <2> QED BY <1>0, <1>4, <2>4, MovedSound DEF u
<1>5. CASE dv' = CASE b.inUse -> DiscoveryCrash(dv, "two in use")
                   [] ~b.inUse /\ b.spare = 0 -> DiscoveryCrash(dv, "no entry")
                   [] OTHER -> [dv EXCEPT !.svc[s] = [b EXCEPT !.probe = TRUE, !.inUse = TRUE, !.spare = @ - 1]]
  <2> DEFINE c == [b EXCEPT !.probe = TRUE, !.inUse = TRUE, !.spare = @ - 1]
  <2>1. dv' = [dv EXCEPT !.svc[s] = c]
    <3>1. b.spare # 0 BY <1>2
    <3> HIDE DEF b
    <3> QED BY <1>2, <1>5, <3>1
  <2>2. /\ c \in DvSvcs /\ c.st = b.st /\ c.stopped = b.stopped /\ c.inProgress = b.inProgress
        /\ c.pending = b.pending /\ c.reading = b.reading /\ c.nvm = b.nvm /\ c.attach = b.attach
        /\ c.freed = b.freed /\ c.page = b.page /\ c.rc = b.rc /\ c.start = b.start /\ c.attached = b.attached
        /\ c.ctrlr = b.ctrlr /\ c.probe /\ c.inUse /\ c.spare = b.spare - 1 /\ c.event = b.event
        /\ c.refused = b.refused /\ c.unread = b.unread
    <3>1. b.spare - 1 \in Nat BY <1>2
    <3> QED BY <1>1, <3>1 DEF DvSvcs
  <2> HIDE DEF c
  <2>3. c.spare <= dv.left.referrals
    BY <1>1, <1>2, <2>2, ServiceBefore, <1>0 DEF SpareBound
  <2>4. EntrySound(dv, c)
    BY <1>0, <2>2, <2>3 DEF EntrySound
  <2>5. ProgressSound(dv, c) /\ StartSound(dv, c)
    BY <1>0, <2>2 DEF ServingSound, ProgressSound, StartSound
  <2>6. PageSound(dv, c)
    BY <1>0, <2>2 DEF ServingSound, PageSound
  <2>7. SvcSound(dv, c)
    BY <1>0, <2>2, <2>4, <2>5, <2>6 DEF SvcSound, Serving, ServingSound
  <2>8. c.spare <= dv.left.referrals + 1
    BY <2>2, <2>3, <1>0, ServiceBefore, <1>2
  <2>9. Moved([dv EXCEPT !.svc[s] = c], dv, s)
    BY <1>0, <1>1, <2>2, <2>7, <2>8, SetMoved
  <2> QED BY <1>0, <2>1, <2>9, MovedSound
<1> QED BY <1>3, <1>4, <1>5 DEF PollConnect

(* The end of a connect. *)
LEMMA ConnectEndedMoved ==
    ASSUME NEW w \in DvStates, NEW u \in DvStates, NEW s \in DiscoveryServices, Fit(u, w, s), u.crash = "no",
           SpareBound(u, s), Serving(u.svc[s]), EntrySound(u, u.svc[s]), StartSound(u, u.svc[s]),
           u.svc[s].freed = {}, u.svc[s].attach # {} => u.svc[s].inProgress,
           u.svc[s].inProgress => "losses" \in u.did,
           u.svc[s].ctrlr # "up" => u.svc[s].ctrlr = "no" /\ u.did \cap {"losses", "failures"} # {}
    PROVE  Moved(ConnectEnded(u, s), w, s)
<1> DEFINE c == u.svc[s]
<1>0. c \in DvSvcs
  BY DEF DvStates
<1>1. CASE ~c.rc
  <2>1. ConnectEnded(u, s) = GetLogPage(u, s)
    BY <1>1 DEF ConnectEnded
  <2>2. c.ctrlr # "detaching"
    BY <1>0 DEF DvSvcs
  <2> QED BY <2>1, <2>2, GetLogPageMoved
<1>2. CASE c.rc /\ c.initializing
  <2>1. ConnectEnded(u, s) = StopService(u, s, "no")
    BY <1>2 DEF ConnectEnded
  <2>2. ~c.start /\ "timeouts" \in u.did
    BY <1>2 DEF StartSound
  <2>3. c.attach # {} => DvCause(u)
    BY <2>2 DEF DvCause
  <2> QED BY <2>1, <2>2, <2>3, StopMoved
<1>3. CASE c.rc /\ ~c.initializing
  <2>1. ConnectEnded(u, s) = DiscoveryCrash(u, "not initializing")
    BY <1>3 DEF ConnectEnded
  <2>2. "timeouts" \in u.did
    BY <1>3 DEF StartSound
  <2>3. DvFaults([u EXCEPT !.crash = "not initializing"])
    BY <2>2 DEF DvFaults, DvStates
  <2> QED BY <2>1, <2>3, CrashMoved, DvCrashNames
<1> QED BY <1>1, <1>2, <1>3

(* A service that connects. *)
LEMMA PollProbeSound ==
    ASSUME DvInv(dv), NEW s \in DiscoveryServices, PollProbe(s)
    PROVE  DvInv(dv')
<1> DEFINE b == dv.svc[s]
<1>0. dv.crash = "no" /\ Serving(b) /\ ServingSound(dv, b) /\ b.probe /\ b.ctrlr = "no" /\ b.inUse
  BY PolledServes DEF PollProbe, ServingSound, EntrySound
<1>1. dv \in DvStates /\ b \in DvSvcs /\ Fit(dv, dv, s) /\ SpareBound(dv, s)
  BY <1>0, ServiceBefore
<1>2. CASE TimesOut(s) /\ dv' = TimedOut(s)
  <2>1. TimedOutTo(dv', s)
    BY <1>0, <1>2, TimedOutTold
  <2>2. Moved(dv', dv, s)
    BY <2>1 DEF TimedOutTo, Moved, DvFaults
  <2> QED BY <1>0, <2>2, MovedSound
<1>3. CASE dv' = ConnectEnded([dv EXCEPT !.svc[s] = [@ EXCEPT !.probe = FALSE, !.ctrlr = "up"]], s)
  <2> DEFINE c == [b EXCEPT !.probe = FALSE, !.ctrlr = "up"]
             u == [dv EXCEPT !.svc[s] = c]
  <2>1. dv' = ConnectEnded(u, s)
    BY <1>3
  <2>2. /\ c \in DvSvcs /\ c.st = b.st /\ c.stopped = b.stopped /\ c.inProgress = b.inProgress
        /\ c.nvm = b.nvm /\ c.attach = b.attach /\ c.freed = b.freed /\ c.rc = b.rc /\ c.start = b.start
        /\ c.attached = b.attached /\ c.ctrlr = "up" /\ c.probe = FALSE /\ c.inUse = b.inUse /\ c.spare = b.spare
    BY <1>1 DEF DvSvcs
  <2> HIDE DEF c
  <2>3. /\ u \in DvStates /\ u.svc[s] = c /\ u.there = dv.there /\ u.left = dv.left /\ u.did = dv.did
        /\ u.crash = "no"
    BY <1>0, <1>1, <2>2, SetSvc
  <2>4. Fit(u, dv, s)
    BY <1>1, <2>2, FitSet
  <2> HIDE DEF u
  <2>5. Serving(c) /\ EntrySound(u, c) /\ StartSound(u, c) /\ c.freed = {} /\ (c.attach # {} => c.inProgress)
        /\ (c.inProgress => "losses" \in u.did)
    BY <1>0, <2>2, <2>3 DEF Serving, ServingSound, EntrySound, StartSound, PageSound, ProgressSound
  <2>6. SpareBound(u, s)
    BY <1>1, <2>2, <2>3 DEF SpareBound
  <2>7. Moved(ConnectEnded(u, s), dv, s)
    BY <1>1, <2>2, <2>3, <2>4, <2>5, <2>6, ConnectEndedMoved
  <2> QED BY <1>0, <2>1, <2>7, MovedSound
<1>4. CASE dv.left.failures > 0 /\ dv' = ConnectEnded(DiscoverySpend(dv, "failures"), s)
  <2> DEFINE u == DiscoverySpend(dv, "failures")
  <2>1. dv.left["failures"] > 0
    BY <1>4
  <2>2. /\ u \in DvStates /\ Fit(u, dv, s) /\ u.svc = dv.svc /\ u.crash = "no" /\ u.did = dv.did \cup {"failures"}
        /\ SvcSound(u, u.svc[s]) /\ SpareBound(u, s)
    BY <1>0, <2>1, SpendFit, DvStepNames
  <2> HIDE DEF u
  <2>3. ServingSound(u, b)
    BY <1>0, <2>2 DEF SvcSound
  <2>4. EntrySound(u, b) /\ StartSound(u, b) /\ b.freed = {} /\ (b.attach # {} => b.inProgress)
        /\ (b.inProgress => "losses" \in u.did) /\ u.did \cap {"losses", "failures"} # {}
    BY <1>0, <2>2, <2>3 DEF ServingSound, PageSound, ProgressSound
  <2>5. Moved(ConnectEnded(u, s), dv, s)
    BY <1>0, <1>1, <2>2, <2>4, ConnectEndedMoved
  <2> QED BY <1>0, <1>4, <2>5, MovedSound DEF u
<1> QED BY <1>2, <1>3, <1>4 DEF PollProbe

(* A log page was read: what it names is taken, or refused. *)
LEMMA LogPageReadMoved ==
    ASSUME DvInv(dv), dv.crash = "no", NEW s \in DiscoveryServices, Serving(dv.svc[s]), dv.svc[s].reading,
           dv.svc[s].ctrlr = "up", ~dv.svc[s].probe
    PROVE  Moved(LogPageRead(dv, s), dv, s)
<1> DEFINE b == dv.svc[s]
           log == dv.there
           a == [b EXCEPT !.reading = FALSE, !.spare = dv.left.referrals]
           x == [dv EXCEPT !.svc[s] = a]
           new == log \ a.nvm
           refused == {e \in new : x.ctrlr[e] # "no"}
           taken == new \ refused
           c == [a EXCEPT !.nvm = @ \cup taken, !.refused = refused, !.page = log, !.attach = @ \cup taken]
           u == [x EXCEPT !.svc[s] = c]
<1>1. /\ dv \in DvStates /\ b \in DvSvcs /\ ServingSound(dv, b) /\ Fit(dv, dv, s) /\ SpareBound(dv, s)
      /\ dv.left.referrals \in Nat /\ log \in SUBSET DiscoveredPaths
  BY ServiceBefore DEF SvcSound
<1>2. b.attach = {} /\ b.inProgress /\ b.inUse /\ b.freed = {}
  BY <1>1 DEF ServingSound, ProgressSound, EntrySound, PageSound
<1>3. /\ a \in DvSvcs /\ a.st = b.st /\ a.stopped = b.stopped /\ a.inProgress = b.inProgress
      /\ a.pending = b.pending /\ a.reading = FALSE /\ a.nvm = b.nvm /\ a.attach = {}
      /\ a.freed = b.freed /\ a.rc = b.rc /\ a.start = b.start /\ a.attached = b.attached
      /\ a.ctrlr = b.ctrlr /\ a.probe = b.probe /\ a.inUse = b.inUse /\ a.spare = dv.left.referrals
      /\ a.event = b.event /\ a.unread = b.unread
  BY <1>1, <1>2 DEF DvSvcs
<1>4. LogPageRead(dv, s) = AttachNew(x, s, log)
  BY <1>2 DEF LogPageRead
<1> HIDE DEF a
<1>5. /\ x \in DvStates /\ x.svc[s] = a /\ x.there = dv.there /\ x.left = dv.left /\ x.did = dv.did
      /\ x.crash = "no"
  BY <1>1, <1>3, SetSvc
<1>6. Fit(x, dv, s)
  BY <1>1, <1>3, FitSet
<1> HIDE DEF x
<1>7. AttachNew(x, s, log) = IF taken = {} THEN RemoveControllers(u, s, log) ELSE u
  BY <1>5 DEF AttachNew
<1>8. /\ taken \in SUBSET DiscoveredPaths /\ refused \in SUBSET DiscoveredPaths
      /\ (a.nvm \cup taken) \cap log = log \ refused
      /\ refused \cap a.nvm = {}
  BY <1>1
<1> HIDE DEF refused, taken
<1>9. /\ c \in DvSvcs /\ c.st = a.st /\ c.stopped = a.stopped /\ c.inProgress = a.inProgress
      /\ c.pending = a.pending /\ c.reading = FALSE /\ c.nvm = a.nvm \cup taken /\ c.attach = taken
      /\ c.freed = a.freed /\ c.rc = a.rc /\ c.start = a.start /\ c.attached = a.attached
      /\ c.ctrlr = a.ctrlr /\ c.probe = a.probe /\ c.inUse = a.inUse /\ c.spare = a.spare
      /\ c.event = a.event /\ c.unread = a.unread /\ c.page = log /\ c.refused = refused
  BY <1>1, <1>3, <1>8 DEF DvSvcs
<1> HIDE DEF c
<1>10. /\ u \in DvStates /\ u.svc[s] = c /\ u.there = dv.there /\ u.left = dv.left /\ u.did = dv.did
       /\ u.crash = "no"
  BY <1>5, <1>9, SetSvc
<1>11. Fit(u, dv, s)
  BY <1>1, <1>5, <1>6, <1>9, FitSet
<1> HIDE DEF u
<1>12. Serving(c) /\ EntrySound(u, c) /\ StartSound(u, c) /\ c.freed = {} /\ c.ctrlr = "up"
  <2>1. Serving(c)
    BY <1>3, <1>9 DEF Serving
  <2>2. EntrySound(u, c)
    BY <1>1, <1>2, <1>3, <1>9, <1>10 DEF EntrySound
  <2>3. StartSound(u, c)
    BY <1>1, <1>3, <1>9, <1>10 DEF StartSound, ServingSound
  <2> QED BY <2>1, <2>2, <2>3, <1>2, <1>3, <1>9
<1>13. SpareBound(u, s) /\ DvFaults(u)
  BY <1>1, <1>3, <1>9, <1>10 DEF SpareBound, DvFaults
<1>14. c.nvm \cap log = u.there \ c.refused
  BY <1>8, <1>9, <1>10
<1>15. CASE taken = {}
  <2>1. AllAttached(u, c)
    BY <1>9, <1>12, <1>15 DEF AllAttached
  <2>2. Moved(RemoveControllers(u, s, log), dv, s)
    BY <1>1, <1>10, <1>11, <1>13, <1>14, <2>1, RemoveMoved
  <2> QED BY <1>4, <1>7, <1>15, <2>2
<1>16. CASE taken # {}
  <2>1. ProgressSound(u, c)
    BY <1>2, <1>3, <1>9, <1>12, <1>16 DEF ProgressSound
  <2>2. PageSound(u, c)
    BY <1>2, <1>3, <1>9, <1>10, <1>12, <1>14, <1>16 DEF PageSound
  <2>3. Moved(u, dv, s)
    BY <1>10, <1>11, <1>12, <1>13, <2>1, <2>2 DEF Moved, SvcSound, ServingSound
  <2> QED BY <1>4, <1>7, <1>16, <2>3
<1> QED BY <1>15, <1>16

(* A log page could not be read. *)
LEMMA LogPageFailedFacts ==
    ASSUME NEW w \in DvStates, NEW u \in DvStates, NEW s \in DiscoveryServices, Fit(u, w, s), u.crash = "no",
           SpareBound(u, s), Serving(u.svc[s]), ServingSound(u, u.svc[s])
    PROVE  LET v == LogPageFailed(u, s)
               c == u.svc[s]
               d == v.svc[s]
           IN  /\ v \in DvStates /\ Fit(v, w, s) /\ v.crash = "no" /\ v.there = u.there /\ v.left = u.left
               /\ v.did = u.did /\ SpareBound(v, s) /\ DvFaults(v)
               /\ Serving(d) /\ ServingSound(v, d) /\ d.ctrlr = c.ctrlr /\ d.probe = c.probe /\ ~d.reading
<1> DEFINE c == u.svc[s]
           d == [c EXCEPT !.reading = FALSE, !.unread = TRUE]
           v == LogPageFailed(u, s)
<1>1. c \in DvSvcs
  BY DEF DvStates
<1>2. v = [u EXCEPT !.svc[s] = d]
  BY DEF LogPageFailed
<1>3. /\ d \in DvSvcs /\ d.st = c.st /\ d.stopped = c.stopped /\ d.inProgress = c.inProgress
      /\ d.pending = c.pending /\ d.reading = FALSE /\ d.nvm = c.nvm /\ d.attach = c.attach
      /\ d.freed = c.freed /\ d.rc = c.rc /\ d.start = c.start /\ d.attached = c.attached
      /\ d.ctrlr = c.ctrlr /\ d.probe = c.probe /\ d.inUse = c.inUse /\ d.spare = c.spare
      /\ d.event = c.event /\ d.unread = TRUE /\ d.page = c.page /\ d.refused = c.refused
  BY <1>1 DEF DvSvcs
<1> HIDE DEF d, v
<1>4. /\ v \in DvStates /\ v.svc[s] = d /\ v.there = u.there /\ v.left = u.left /\ v.did = u.did
      /\ v.crash = "no"
  BY <1>2, <1>3, SetSvc
<1>5. Fit(v, w, s)
  BY <1>2, <1>3, FitSet
<1>6. EntrySound(v, d) /\ StartSound(v, d)
  BY <1>3, <1>4 DEF ServingSound, EntrySound, StartSound
<1>7. ProgressSound(v, d)
  BY <1>3, <1>4 DEF ServingSound, ProgressSound
<1>8. PageSound(v, d)
  BY <1>3, <1>4 DEF ServingSound, PageSound
<1>9. Serving(d) /\ SpareBound(v, s) /\ DvFaults(v)
  BY <1>3, <1>4 DEF Serving, SpareBound, DvFaults
<1> QED BY <1>3, <1>4, <1>5, <1>6, <1>7, <1>8, <1>9 DEF v, ServingSound

(* discovery_aer_cb. *)
LEMMA DiscoveryAerMoved ==
    ASSUME DvInv(dv), dv.crash = "no", NEW s \in DiscoveryServices, Serving(dv.svc[s]),
           dv.svc[s].ctrlr = "up", ~dv.svc[s].probe
    PROVE  Moved(DiscoveryAer(dv, s), dv, s)
<1> DEFINE b == dv.svc[s]
           c == [b EXCEPT !.event = FALSE]
           u == [dv EXCEPT !.svc[s] = c]
<1>1. /\ dv \in DvStates /\ b \in DvSvcs /\ ServingSound(dv, b) /\ Fit(dv, dv, s) /\ SpareBound(dv, s)
  BY ServiceBefore DEF SvcSound
<1>2. DiscoveryAer(dv, s) = IF b.inProgress THEN [u EXCEPT !.svc[s].pending = TRUE] ELSE GetLogPage(u, s)
  BY DEF DiscoveryAer
<1>3. /\ c \in DvSvcs /\ c.st = b.st /\ c.stopped = b.stopped /\ c.inProgress = b.inProgress
      /\ c.pending = b.pending /\ c.reading = b.reading /\ c.nvm = b.nvm /\ c.attach = b.attach
      /\ c.freed = b.freed /\ c.rc = b.rc /\ c.start = b.start /\ c.attached = b.attached
      /\ c.ctrlr = b.ctrlr /\ c.probe = b.probe /\ c.inUse = b.inUse /\ c.spare = b.spare
      /\ c.event = FALSE /\ c.unread = b.unread /\ c.page = b.page /\ c.refused = b.refused
  BY <1>1 DEF DvSvcs
<1> HIDE DEF c
<1>4. /\ u \in DvStates /\ u.svc[s] = c /\ u.there = dv.there /\ u.left = dv.left /\ u.did = dv.did
      /\ u.crash = "no"
  BY <1>1, <1>3, SetSvc
<1>5. Fit(u, dv, s)
  BY <1>1, <1>3, FitSet
<1> HIDE DEF u
<1>6. Serving(c) /\ EntrySound(u, c) /\ StartSound(u, c) /\ c.freed = {} /\ SpareBound(u, s)
  BY <1>1, <1>3, <1>4 DEF Serving, ServingSound, EntrySound, StartSound, PageSound, SpareBound
<1>7. CASE ~b.inProgress
  <2>1. ~c.inProgress /\ c.attach = {} /\ c.ctrlr = "up"
    BY <1>1, <1>3, <1>7 DEF ServingSound, ProgressSound
  <2>2. Moved(GetLogPage(u, s), dv, s)
    BY <1>1, <1>4, <1>5, <1>6, <2>1, GetLogPageMoved
  <2> QED BY <1>2, <1>7, <2>2
<1>8. CASE b.inProgress
  <2> DEFINE d == [c EXCEPT !.pending = TRUE]
             v == [u EXCEPT !.svc[s] = d]
  <2>1. DiscoveryAer(dv, s) = v
    BY <1>2, <1>4, <1>8
  <2>2. /\ d \in DvSvcs /\ d.st = c.st /\ d.stopped = c.stopped /\ d.inProgress = c.inProgress
        /\ d.pending = TRUE /\ d.reading = c.reading /\ d.nvm = c.nvm /\ d.attach = c.attach
        /\ d.freed = c.freed /\ d.rc = c.rc /\ d.start = c.start /\ d.attached = c.attached
        /\ d.ctrlr = c.ctrlr /\ d.probe = c.probe /\ d.inUse = c.inUse /\ d.spare = c.spare
        /\ d.event = FALSE /\ d.unread = c.unread /\ d.page = c.page /\ d.refused = c.refused
    BY <1>3 DEF DvSvcs
  <2> HIDE DEF d
  <2>3. EntrySound(u, d) /\ StartSound(u, d) /\ Serving(d)
    BY <1>6, <2>2 DEF EntrySound, StartSound, Serving
  <2>4. ProgressSound(u, d)
    BY <1>1, <1>3, <1>4, <1>8, <2>2 DEF ServingSound, ProgressSound
  <2>5. PageSound(u, d)
    BY <1>1, <1>3, <1>4, <1>8, <2>2 DEF ServingSound, PageSound
  <2>6. SvcSound(u, d)
    BY <2>3, <2>4, <2>5 DEF SvcSound, ServingSound
  <2>7. Moved(v, dv, s)
    BY <1>1, <1>4, <1>5, <1>6, <2>2, <2>6, SetMoved DEF SpareBound
  <2> QED BY <2>1, <2>7
<1> QED BY <1>7, <1>8

(* The discovery controller is lost. *)
LostTo(w, s, left) ==
    [DiscoverySpend(w, "losses") EXCEPT
        !.svc[s] = [w.svc[s] EXCEPT !.ctrlr = left, !.inUse = FALSE, !.spare = @ + 1, !.event = FALSE]]
(* The entry is no longer in use, and the event is gone with the connection. *)
LEMMA LostMoved ==
    ASSUME DvInv(dv), dv.crash = "no", NEW s \in DiscoveryServices, dv.left.losses > 0, NEW w \in DvStates,
           Fit(w, dv, s), w.crash = "no", w.left = dv.left, Serving(w.svc[s]), ServingSound(w, w.svc[s]),
           w.svc[s].ctrlr = "up", ~w.svc[s].probe, NEW left \in {"detaching", "no"}
    PROVE  Moved(LostTo(w, s, left), dv, s)
<1> DEFINE b == w.svc[s]
           u == DiscoverySpend(w, "losses")
           c == [b EXCEPT !.ctrlr = left, !.inUse = FALSE, !.spare = @ + 1, !.event = FALSE]
<1>0. b \in DvSvcs /\ b.spare \in Nat /\ w.left.referrals \in Nat /\ dv \in DvStates
  BY DEF DvStates, DvSvcs, DvBounds, DvInv
<1>1. /\ u \in DvStates /\ u.svc = w.svc /\ u.there = w.there /\ u.ctrlr = w.ctrlr
      /\ u.left.referrals = w.left.referrals /\ u.crash = "no" /\ u.did = w.did \cup {"losses"}
  <2>1. w.left["losses"] > 0
    OBVIOUS
  <2> QED BY <2>1, SpendFacts, DvStepNames
<1>2. LostTo(w, s, left) = [u EXCEPT !.svc[s] = c]
  BY DEF LostTo
<1>3. /\ c \in DvSvcs /\ c.st = b.st /\ c.stopped = b.stopped /\ c.inProgress = b.inProgress
      /\ c.pending = b.pending /\ c.reading = b.reading /\ c.nvm = b.nvm /\ c.attach = b.attach
      /\ c.freed = b.freed /\ c.rc = b.rc /\ c.start = b.start /\ c.attached = b.attached
      /\ c.ctrlr = left /\ c.ctrlr # "up" /\ c.probe = b.probe /\ c.inUse = FALSE /\ c.spare = b.spare + 1
      /\ c.event = FALSE /\ c.unread = b.unread /\ c.page = b.page /\ c.refused = b.refused
  <2>1. b.spare + 1 \in Nat
    BY <1>0
  <2> QED BY <1>0, <2>1 DEF DvSvcs
<1> HIDE DEF c, u
<1>4. Fit(u, dv, s)
  BY <1>1 DEF Fit
<1>5. b.spare <= w.left.referrals
  BY DEF ServingSound, EntrySound
<1>6. EntrySound(u, c) /\ StartSound(u, c)
  BY <1>0, <1>1, <1>3 DEF ServingSound, EntrySound, StartSound
<1>7. ProgressSound(u, c)
  BY <1>1, <1>3 DEF ServingSound, ProgressSound
<1>8. PageSound(u, c)
  BY <1>1, <1>3 DEF ServingSound, PageSound
<1>9. SvcSound(u, c)
  BY <1>3, <1>6, <1>7, <1>8 DEF SvcSound, ServingSound, Serving
<1>10. c.spare <= u.left.referrals + 1 /\ u.svc[s].nvm \subseteq c.nvm
  BY <1>0, <1>1, <1>3, <1>5
<1>11. Moved([u EXCEPT !.svc[s] = c], dv, s)
  BY <1>0, <1>1, <1>3, <1>4, <1>9, <1>10, SetMoved
<1> QED BY <1>2, <1>11

(* A connected service. *)
LEMMA PollConnectedSound ==
    ASSUME DvInv(dv), NEW s \in DiscoveryServices, PollConnected(s)
    PROVE  DvInv(dv')
<1> DEFINE b == dv.svc[s]
<1>0. dv.crash = "no" /\ Serving(b) /\ ServingSound(dv, b) /\ ~b.probe /\ b.ctrlr = "up"
  BY PolledServes DEF PollConnected
<1>1. dv \in DvStates /\ b \in DvSvcs /\ Fit(dv, dv, s) /\ SpareBound(dv, s) /\ DvFaults(dv)
  BY <1>0, ServiceBefore DEF DvInv
<1>2. CASE TimesOut(s) /\ dv' = IF b.attach = {} THEN StopService(TimedOut(s), s, "no") ELSE TimedOut(s)
  <2> DEFINE u == TimedOut(s)
  <2>1. TimedOutTo(u, s)
    BY <1>0, <1>2, TimedOutTold
  <2> HIDE DEF u
  <2>2. CASE b.attach = {}
    <3>1. Moved(StopService(u, s, "no"), dv, s)
      BY <1>1, <2>1, <2>2, StopMoved DEF TimedOutTo
    <3> QED BY <1>0, <1>2, <2>2, <3>1, MovedSound DEF u
  <2>3. CASE b.attach # {}
    <3>1. Moved(u, dv, s) BY <2>1 DEF TimedOutTo, Moved, DvFaults
    <3> QED BY <1>0, <1>2, <2>3, <3>1, MovedSound DEF u
  <2> QED BY <2>2, <2>3
<1>3. CASE b.reading /\ dv' = LogPageRead(dv, s)
  BY <1>0, <1>3, LogPageReadMoved, MovedSound
<1>4. CASE b.reading /\ dv.left.failures > 0 /\ dv' = LogPageFailed(DiscoverySpend(dv, "failures"), s)
  <2> DEFINE u == DiscoverySpend(dv, "failures")
             v == LogPageFailed(u, s)
  <2>1. dv.left["failures"] > 0
    BY <1>4
  <2>2. /\ u \in DvStates /\ Fit(u, dv, s) /\ u.svc = dv.svc /\ u.crash = "no"
        /\ SvcSound(u, u.svc[s]) /\ SpareBound(u, s)
    BY <1>0, <2>1, SpendFit, DvStepNames
  <2> HIDE DEF u
  <2>3. Serving(u.svc[s]) /\ ServingSound(u, u.svc[s])
    BY <1>0, <2>2 DEF SvcSound
  <2>4. /\ Fit(v, dv, s) /\ SpareBound(v, s) /\ DvFaults(v) /\ Serving(v.svc[s]) /\ ServingSound(v, v.svc[s])
    BY <1>1, <2>2, <2>3, LogPageFailedFacts
  <2> HIDE DEF v
  <2>5. Moved(v, dv, s)
    BY <2>4 DEF Moved, SvcSound
  <2> QED BY <1>0, <1>4, <2>5, MovedSound DEF u, v
<1>5. CASE b.event /\ dv' = DiscoveryAer(dv, s)
  BY <1>0, <1>5, DiscoveryAerMoved, MovedSound
<1>6. ASSUME dv.left.losses > 0, NEW left \in {"detaching", "no"},
             dv' = LostTo(IF b.reading THEN LogPageFailed(dv, s) ELSE dv, s, left)
      PROVE  DvInv(dv')
  <2> DEFINE w == IF b.reading THEN LogPageFailed(dv, s) ELSE dv
  <2>1. /\ w \in DvStates /\ Fit(w, dv, s) /\ w.crash = "no" /\ w.left = dv.left /\ Serving(w.svc[s])
        /\ ServingSound(w, w.svc[s]) /\ w.svc[s].ctrlr = "up" /\ ~w.svc[s].probe
    <3>1. CASE b.reading
      <4> DEFINE v == LogPageFailed(dv, s)
      <4>1. /\ v \in DvStates /\ Fit(v, dv, s) /\ v.crash = "no" /\ v.left = dv.left
            /\ Serving(v.svc[s]) /\ ServingSound(v, v.svc[s]) /\ v.svc[s].ctrlr = b.ctrlr
            /\ v.svc[s].probe = b.probe
        BY <1>0, <1>1, LogPageFailedFacts
      <4> QED BY <1>0, <3>1, <4>1
    <3>2. CASE ~b.reading
      BY <1>0, <1>1, <3>2
    <3> QED BY <3>1, <3>2
  <2>2. dv' = LostTo(w, s, left)
    BY <1>6
  <2> HIDE DEF w
  <2>3. Moved(LostTo(w, s, left), dv, s)
    BY <1>0, <1>6, <2>1, LostMoved
  <2> QED BY <1>0, <2>2, <2>3, MovedSound
<1> QED BY <1>2, <1>3, <1>4, <1>5, <1>6 DEF PollConnected, LostTo

(* The log page changes, and every connected client hears of it. *)
LEMMA LogChangeSound ==
    ASSUME DvInv(dv), NEW e \in DiscoveredPaths, LogChange(e)
    PROVE  DvInv(dv')
<1> DEFINE u == DiscoverySpend(dv, "changes")
           there == IF e \in dv.there THEN dv.there \ {e} ELSE dv.there \cup {e}
           svc == [s \in DiscoveryServices |-> [dv.svc[s] EXCEPT !.event = dv.svc[s].ctrlr = "up"]]
           v == [u EXCEPT !.there = there, !.svc = svc]
<1>0. dv.crash = "no" /\ dv.left["changes"] > 0 /\ dv \in DvStates
  BY DEF LogChange, DiscoveryAlive, DvInv
<1>1. /\ u \in DvStates /\ u.svc = dv.svc /\ u.there = dv.there /\ u.ctrlr = dv.ctrlr
      /\ u.left.referrals = dv.left.referrals /\ u.crash = "no" /\ u.did = dv.did \cup {"changes"}
  BY <1>0, SpendFacts, DvStepNames
<1>2. dv' = v
  BY <1>1 DEF LogChange
<1>3. there \in SUBSET DiscoveredPaths
  BY <1>0 DEF DvStates
<1>4. ASSUME NEW s \in DiscoveryServices
      PROVE  LET b == dv.svc[s]
                 c == svc[s]
             IN  /\ b \in DvSvcs /\ c \in DvSvcs /\ c.st = b.st /\ c.stopped = b.stopped
                 /\ c.inProgress = b.inProgress /\ c.pending = b.pending /\ c.reading = b.reading /\ c.nvm = b.nvm
                 /\ c.attach = b.attach /\ c.freed = b.freed /\ c.rc = b.rc /\ c.start = b.start
                 /\ c.attached = b.attached /\ c.ctrlr = b.ctrlr /\ c.probe = b.probe /\ c.inUse = b.inUse
                 /\ c.spare = b.spare /\ (c.ctrlr = "up" => c.event) /\ c.unread = b.unread
                 /\ c.page = b.page /\ c.refused = b.refused
  <2> DEFINE b == dv.svc[s]
             up == (b.ctrlr = "up")
             c == [b EXCEPT !.event = up]
  <2>1. b \in DvSvcs
    BY <1>0 DEF DvStates
  <2>2. svc[s] = c
    OBVIOUS
  <2>3. up \in BOOLEAN /\ (b.ctrlr = "up" => up)
    OBVIOUS
  <2> HIDE DEF up, b, svc
  <2>4. /\ c \in DvSvcs /\ c.st = b.st /\ c.stopped = b.stopped
        /\ c.inProgress = b.inProgress /\ c.pending = b.pending /\ c.reading = b.reading /\ c.nvm = b.nvm
        /\ c.attach = b.attach /\ c.freed = b.freed /\ c.rc = b.rc /\ c.start = b.start
        /\ c.attached = b.attached /\ c.ctrlr = b.ctrlr /\ c.probe = b.probe /\ c.inUse = b.inUse
        /\ c.spare = b.spare /\ c.event = up /\ c.unread = b.unread
        /\ c.page = b.page /\ c.refused = b.refused
    BY <2>1, <2>3 DEF DvSvcs
  <2> HIDE DEF c
  <2> QED BY <2>1, <2>2, <2>3, <2>4 DEF b
<1>5. svc \in [DiscoveryServices -> DvSvcs]
  BY <1>4
<1> HIDE DEF u, there, svc
<1>6. /\ v \in DvStates /\ v.svc = svc /\ v.there = there /\ v.ctrlr = dv.ctrlr
      /\ v.left.referrals = dv.left.referrals /\ v.crash = "no" /\ v.did = dv.did \cup {"changes"}
  BY <1>1, <1>3, <1>5 DEF DvStates
<1> HIDE DEF v
<1>7. \A s \in DiscoveryServices : SpareBound(v, s)
  BY <1>4, <1>6 DEF DvInv, SpareBound
<1>8. DvStray(v)
  BY <1>0, <1>4, <1>6 DEF DvInv, DvStray
<1>9. ASSUME NEW s \in DiscoveryServices PROVE SvcSound(v, v.svc[s])
  <2> DEFINE b == dv.svc[s]
             c == v.svc[s]
  <2>1. /\ b \in DvSvcs /\ c.st = b.st /\ c.stopped = b.stopped
        /\ c.inProgress = b.inProgress /\ c.pending = b.pending /\ c.reading = b.reading /\ c.nvm = b.nvm
        /\ c.attach = b.attach /\ c.freed = b.freed /\ c.rc = b.rc /\ c.start = b.start
        /\ c.attached = b.attached /\ c.ctrlr = b.ctrlr /\ c.probe = b.probe /\ c.inUse = b.inUse
        /\ c.spare = b.spare /\ (c.ctrlr = "up" => c.event) /\ c.unread = b.unread
        /\ c.page = b.page /\ c.refused = b.refused
    BY <1>4, <1>6
  <2>2. SvcSound(dv, b)
    BY <1>0 DEF DvInv
  <2> HIDE DEF b, c
  <2>3. CASE Serving(b)
    <3>1. ServingSound(dv, b) BY <2>2, <2>3 DEF SvcSound
    <3>2. EntrySound(v, c) /\ StartSound(v, c)
      BY <1>6, <2>1, <3>1 DEF ServingSound, EntrySound, StartSound
    <3>3. ProgressSound(v, c) BY <1>6, <2>1, <3>1 DEF ServingSound, ProgressSound
    <3>4. PageSound(v, c) BY <1>6, <2>1, <3>1 DEF ServingSound, PageSound
    <3> QED BY <2>1, <2>3, <3>2, <3>3, <3>4 DEF SvcSound, Serving, ServingSound, c
  <2>4. CASE ~Serving(b)
    <3>1. RestSound(dv, b) BY <2>2, <2>4 DEF SvcSound
    <3>2. RestSound(v, c) BY <1>6, <2>1, <3>1 DEF RestSound, DvCause, DvTold
    <3> QED BY <2>1, <2>4, <3>2 DEF SvcSound, Serving, c
  <2> QED BY <2>3, <2>4
<1> QED BY <1>2, <1>6, <1>7, <1>8, <1>9 DEF DvInv, DvFaults

(* A controller is gone. *)
LEMMA PathGoneSound ==
    ASSUME DvInv(dv), NEW e \in DiscoveredPaths, PathGone(e)
    PROVE  DvInv(dv')
<1>0. dv.crash = "no" /\ dv \in DvStates /\ dv.ctrlr[e] = "going" /\ dv' = [dv EXCEPT !.ctrlr[e] = "no"]
  BY DEF PathGone, DiscoveryAlive, DvInv
<1>1. /\ dv' \in DvStates /\ dv'.svc = dv.svc /\ dv'.there = dv.there /\ dv'.left = dv.left /\ dv'.did = dv.did
      /\ dv'.crash = "no" /\ \A f \in DiscoveredPaths : dv'.ctrlr[f] = "up" => dv.ctrlr[f] = "up"
  BY <1>0 DEF DvStates
<1>2. \A s \in DiscoveryServices : SpareBound(dv', s)
  BY <1>1 DEF DvInv, SpareBound
<1>3. DvStray(dv')
  BY <1>0, <1>1 DEF DvInv, DvStray
<1>4. ASSUME NEW s \in DiscoveryServices PROVE SvcSound(dv', dv'.svc[s])
  BY <1>0, <1>1, SoundGrows DEF DvInv, DvStates
<1> QED BY <1>1, <1>2, <1>3, <1>4 DEF DvInv, DvFaults

(* bdev_nvme_library_fini: every listed service stops. *)
LEMMA LibraryFiniSound ==
    ASSUME DvInv(dv), LibraryFini
    PROVE  DvInv(dv')
<1> DEFINE u == DiscoverySpend(dv, "finis")
           listed == Listed(dv)
           paths == UNION {dv.svc[s].nvm : s \in listed}
           x == DeletePaths(u, paths)
           svc == [s \in DiscoveryServices |-> IF s \in listed THEN Stopped(dv.svc[s], "fini") ELSE dv.svc[s]]
           fini == IF listed = {} THEN "done" ELSE "waits"
           v == [x EXCEPT !.svc = svc, !.fini = fini]
<1>0. dv.crash = "no" /\ dv.left["finis"] > 0 /\ dv \in DvStates
  BY DEF LibraryFini, DiscoveryAlive, DvInv
<1>1. /\ u \in DvStates /\ u.svc = dv.svc /\ u.there = dv.there /\ u.ctrlr = dv.ctrlr
      /\ u.left.referrals = dv.left.referrals /\ u.crash = "no" /\ u.did = dv.did \cup {"finis"}
  BY <1>0, SpendFacts, DvStepNames
<1>2. /\ x \in DvStates /\ x.svc = dv.svc /\ x.there = u.there /\ x.left = u.left /\ x.did = u.did
      /\ x.crash = "no"
      /\ \A e \in DiscoveredPaths : x.ctrlr[e] = "up" <=> dv.ctrlr[e] = "up" /\ e \notin paths
  BY <1>1, DeleteFacts
<1>3. dv' = v
  BY <1>2 DEF LibraryFini
<1>4. ASSUME NEW s \in listed
      PROVE  LET b == dv.svc[s]
                 c == svc[s]
             IN  /\ s \in DiscoveryServices /\ c \in DvSvcs /\ c.stopped /\ c.nvm = {} /\ c.attach = b.attach
                 /\ c.freed = b.attach /\ c.spare = 0
  <2>1. s \in DiscoveryServices /\ dv.svc[s] \in DvSvcs
    BY <1>0 DEF Listed, DvStates
  <2>2. svc[s] = Stopped(dv.svc[s], "fini")
    BY <2>1
  <2> QED BY <2>1, <2>2 DEF Stopped, DvSvcs
<1>5. ASSUME NEW s \in DiscoveryServices \ listed PROVE svc[s] = dv.svc[s] /\ svc[s] \in DvSvcs
  BY <1>0 DEF DvStates
<1>6. svc \in [DiscoveryServices -> DvSvcs] /\ fini \in {"no", "waits", "done"}
  BY <1>4, <1>5
<1>7. listed \subseteq DiscoveryServices /\ \A s \in listed : \A e \in dv.svc[s].nvm : e \in paths
  BY DEF Listed
<1> HIDE DEF u, listed, paths, x, svc, fini
<1>8. /\ v \in DvStates /\ v.svc = svc /\ v.there = dv.there /\ v.ctrlr = x.ctrlr
      /\ v.left.referrals = dv.left.referrals /\ v.crash = "no" /\ v.did = dv.did \cup {"finis"}
  BY <1>1, <1>2, <1>6 DEF DvStates
<1> HIDE DEF v
<1>9. ASSUME NEW s \in DiscoveryServices PROVE SpareBound(v, s)
  <2>1. CASE s \in listed
    BY <1>0, <1>4, <1>8, <2>1 DEF SpareBound, DvStates, DvBounds
  <2>2. CASE s \notin listed
    BY <1>5, <1>8, <2>2 DEF DvInv, SpareBound
  <2> QED BY <2>1, <2>2
<1>10. DvStray(v)
  <2> SUFFICES ASSUME NEW e \in DiscoveredPaths, v.ctrlr[e] = "up"
               PROVE  \E s \in DiscoveryServices : e \in v.svc[s].nvm
    BY DEF DvStray
  <2>1. dv.ctrlr[e] = "up" /\ e \notin paths
    BY <1>2, <1>8
  <2>2. PICK s \in DiscoveryServices : e \in dv.svc[s].nvm
    BY <1>0, <2>1 DEF DvInv, DvStray
  <2>3. s \notin listed
    BY <1>7, <2>1, <2>2
  <2> QED BY <1>5, <1>8, <2>2, <2>3
<1>11. ASSUME NEW s \in DiscoveryServices PROVE SvcSound(v, v.svc[s])
  <2>1. CASE s \in listed
    <3>1. DvTold(v) /\ DvCause(v) BY <1>8 DEF DvTold, DvCause
    <3> QED BY <1>4, <1>8, <2>1, <3>1 DEF SvcSound, Serving, RestSound
  <2>2. CASE s \notin listed
    <3>1. v.svc[s] = dv.svc[s] /\ dv.svc[s] \in DvSvcs /\ SvcSound(dv, dv.svc[s])
      BY <1>0, <1>5, <1>8, <2>2 DEF DvInv
    <3> QED BY <1>0, <1>8, <3>1, SoundGrows
  <2> QED BY <2>1, <2>2
<1> QED BY <1>3, <1>8, <1>9, <1>10, <1>11 DEF DvInv, DvFaults

(* The beginning. *)
LEMMA DiscoveryBegins ==
    ASSUME DiscoveryInit
    PROVE  DvInv(dv)
<1>1. PICK mix \in DiscoveryMixes :
        dv = [svc |-> [s \in DiscoveryServices |-> NoService], there |-> mix.there,
              ctrlr |-> [e \in DiscoveredPaths |-> "no"], fini |-> "no", left |-> mix, did |-> {}, crash |-> "no"]
  BY DEF DiscoveryInit
<1>2. mix \in DvBounds /\ mix.there \in SUBSET DiscoveredPaths /\ mix.referrals \in Nat
  BY DiscoveryMixesAssumption DEF DvBounds
<1>3. dv \in DvStates
  <2> DEFINE svc == [s \in DiscoveryServices |-> NoService]
             ctrls == [e \in DiscoveredPaths |-> "no"]
             there == mix.there
  <2>1. svc \in [DiscoveryServices -> DvSvcs] /\ ctrls \in [DiscoveredPaths -> {"no", "up", "going"}]
    BY NoServiceType
  <2>2. there \in SUBSET DiscoveredPaths
    BY <1>2
  <2>3. dv = [svc |-> svc, there |-> there, ctrlr |-> ctrls, fini |-> "no", left |-> mix, did |-> {}, crash |-> "no"]
    BY <1>1
  <2> HIDE DEF svc, ctrls, there
  <2> QED BY <1>2, <2>1, <2>2, <2>3, DvCrashNames DEF DvStates
<1>4. /\ \A s \in DiscoveryServices : dv.svc[s] = NoService
      /\ \A e \in DiscoveredPaths : dv.ctrlr[e] = "no"
      /\ dv.left = mix /\ dv.crash = "no"
  BY <1>1
<1>5. \A s \in DiscoveryServices : SpareBound(dv, s)
  BY <1>2, <1>4 DEF SpareBound, NoService
<1>6. \A s \in DiscoveryServices : SvcSound(dv, dv.svc[s])
  BY <1>4 DEF SvcSound, Serving, RestSound, NoService
<1> QED BY <1>3, <1>4, <1>5, <1>6 DEF DvInv, DvFaults, DvStray

(* Every step. *)
LEMMA DiscoveryContinues ==
    ASSUME DvInv(dv), DiscoveryNext
    PROVE  DvInv(dv')
  BY StartDiscoverySound, StartMessageSound, StopDiscoverySound, AttachDoneSound, PollDetachSound, PollStopSound,
     PollConnectSound, PollProbeSound, PollConnectedSound, LibraryFiniSound, LogChangeSound, PathGoneSound
     DEF DiscoveryNext

(* What the invariant says of the client. *)
LEMMA DiscoveryTold ==
    ASSUME DvInv(dv)
    PROVE  DiscoveryTypeOK /\ DiscoveryKeeps
<1>1. dv \in DvStates
  BY DEF DvInv
<1>2. DiscoveryTypeOK
  <2>1. ASSUME NEW s \in DiscoveryServices
        PROVE  /\ dv.svc[s].st \in {"none", "starting", "listed", "freed"}
               /\ {dv.svc[s].nvm, dv.svc[s].attach} \subseteq SUBSET DiscoveredPaths
               /\ dv.svc[s].spare \in 0 .. dv.left.referrals + 1
    <3>1. dv.svc[s] \in DvSvcs /\ dv.left \in DvBounds /\ SpareBound(dv, s)
      BY <1>1 DEF DvStates, DvInv
    <3>2. dv.svc[s].st \in {"none", "starting", "listed", "freed"} BY <3>1 DEF DvSvcs
    <3>3. {dv.svc[s].nvm, dv.svc[s].attach} \subseteq SUBSET DiscoveredPaths
      BY <3>1 DEF DvSvcs
    <3>4. dv.svc[s].spare \in 0 .. dv.left.referrals + 1
      BY <3>1 DEF DvSvcs, DvBounds, SpareBound
    <3> QED BY <3>2, <3>3, <3>4
  <2> QED BY <1>1, <2>1 DEF DiscoveryTypeOK, DvStates
<1>3. DiscoveryFaults
  BY DEF DvInv, DvFaults, DvCause, DvTold, DiscoveryFaults
<1>4. ASSUME dv.crash = "no" PROVE NoStrayController
  BY <1>4 DEF DvInv, DvStray, NoStrayController
<1>5. ASSUME dv.crash = "no", NEW s \in DiscoveryServices PROVE Current(s) /\ StartAnswered(s)
  <2> DEFINE c == dv.svc[s]
  <2>1. CASE c.st = "listed" /\ ~c.stopped
    <3>1. ServingSound(dv, c) BY <1>5, <2>1 DEF DvInv, SvcSound, Serving
    <3>2. c.inProgress => c.reading \/ c.attach # {} \/ c.unread
      BY <3>1 DEF ServingSound, ProgressSound
    <3>3. ~c.inProgress => ~c.pending BY <3>1 DEF ServingSound, ProgressSound
    <3>4. c.ctrlr = "up" /\ ~c.inProgress /\ ~c.event /\ ~c.rc => c.nvm = dv.there \ c.refused
      BY <3>1 DEF ServingSound, PageSound
    <3>5. Current(s) BY <3>2, <3>3, <3>4 DEF Current
    <3>6. StartAnswered(s) BY <3>1 DEF ServingSound, StartSound, StartAnswered
    <3> QED BY <3>5, <3>6
  <2>2. CASE ~(c.st = "listed" /\ ~c.stopped)
    BY <2>2 DEF Current, StartAnswered
  <2> QED BY <2>1, <2>2
<1> QED BY <1>2, <1>3, <1>4, <1>5 DEF DiscoveryKeeps, DiscoveryAlive

(* In every behaviour a quiet client knows the log page, a discovery in
   progress has something that ends it, a start is answered, no controller
   is without an entry, and every fault has its cause: DiscoveryKeeps. *)
THEOREM DiscoverySoundness == DiscoverySpec => [](DiscoveryTypeOK /\ DiscoveryKeeps)
<1>1. DiscoveryInit => DvInv(dv)
  BY DiscoveryBegins
<1>2. DvInv(dv) /\ [DiscoveryNext]_dvVars => DvInv(dv')
  BY DiscoveryContinues DEF dvVars
<1>3. DvInv(dv) => DiscoveryTypeOK /\ DiscoveryKeeps
  BY DiscoveryTold
<1> DEFINE I == DvInv(dv)
<1>4. I' = DvInv(dv')
  OBVIOUS
<1>5. DiscoveryInit => I
  BY <1>1
<1>6. I /\ [DiscoveryNext]_dvVars => I'
  BY <1>2
<1>7. I => DiscoveryTypeOK /\ DiscoveryKeeps
  BY <1>3
<1> HIDE DEF I
<1> QED BY <1>5, <1>6, <1>7, PTL DEF DiscoverySpec


-------------------------------------------------------------------------------
(***************************************************************************)
(* The paths of a channel                                                  *)
(***************************************************************************)

(* The values of a path, of the channel, of an I/O and of the state. *)
NpPaths == [in : BOOLEAN, gen : Nat, qp : {"up", "lost", "gone"}, ctrlr : {"up", "resetting", "failed"},
            ana : {"optimized", "non_optimized", "inaccessible"}, updating : BOOLEAN, reading : BOOLEAN,
            walk : {"no", "before", "after"}]
NpChannels == [list : Seq(NvmePaths), cur : NvmePaths \cup {NoIoPath}, rr : 0 .. RrMinIo - 1, policy : IoPathPolicies,
               retry : Seq(NvmeIos), poll : -1 .. MaxTicks + 1]
NpIos == [st : {"free", "new", "buf", "out", "verify", "retry"}, path : NvmePaths \cup {NoIoPath}, gen : Nat,
          tries : 0 .. NvmeRetries, at : 0 .. MaxTicks + 1, abort : BOOLEAN]
NpBounds == [wrapped : BOOLEAN, policy : IoPathPolicies, buffers : BOOLEAN, paths : Seq(NvmePaths), ios : Nat,
             losses : Nat, anas : Nat, namespaces : Nat, faults : Nat, aborts : Nat, settings : Nat]
NpCrashes == {"no", "answered twice", "no retry list", "freed path"}
NpStates == [path : [NvmePaths -> NpPaths], ch : NpChannels, io : [NvmeIos -> NpIos], now : 0 .. MaxTicks, stale : Nat,
             left : NpBounds, crash : NpCrashes, seen : SUBSET {"no clearing"}]

---------------------------------------------------------------------------
(* The inductive invariant *)

(* Between two steps no I/O is being submitted, and one that is out, or
   waits, has a path, if perhaps a freed one. *)
IosSound(w) ==
    \A i \in NvmeIos : w.io[i].st # "new" /\ (w.io[i].st # "free" => w.io[i].path \in NvmePaths)

(* The I/Os that wait are those in the list; of two, the first is due no
   later; and the poller comes for the head. *)
RetrySound(w) ==
    /\ IsInjective(w.ch.retry)
    /\ \A i \in NvmeIos : w.io[i].st = "retry" <=> i \in ToSet(w.ch.retry)
    /\ \A j, k \in DOMAIN w.ch.retry : j < k => w.io[w.ch.retry[j]].at <= w.io[w.ch.retry[k]].at
    /\ w.ch.retry # <<>> => w.ch.poll >= 0 /\ w.ch.poll <= w.io[w.ch.retry[1]].at

(* The list has each namespace once, and none that has gone. *)
ListSound(w) ==
    /\ IsInjective(w.ch.list)
    /\ \A p \in ToSet(w.ch.list) : w.path[p].in

(* The cached path is in the list.  A channel of the bdev's own that has
   failed an I/O on a lost path has a working path cached, or none; the
   active-passive policy has an optimized one, unless the qpair has just
   been lost or a walk comes that clears the cache. *)
CacheSound(w) ==
    /\ w.ch.cur = NoIoPath \/ w.ch.cur \in ToSet(w.ch.list)
    /\ w.left.wrapped \/ w.stale = 0 \/ (w.stale = 1 /\ (w.ch.cur = NoIoPath \/ Connected(w, w.ch.cur)))
    /\ w.ch.policy = "passive" /\ w.ch.cur # NoIoPath /\ "no clearing" \notin w.seen =>
          \/ Connected(w, w.ch.cur) /\ w.path[w.ch.cur].ana = "optimized"
          \/ w.path[w.ch.cur].qp = "lost"
          \/ w.path[w.ch.cur].walk = "before"

CrashSound(w) == w.crash # "answered twice" /\ (w.crash = "no retry list" => w.left.wrapped)

NpInv(w) ==
    w \in NpStates /\ IosSound(w) /\ RetrySound(w) /\ ListSound(w) /\ CacheSound(w) /\ CrashSound(w)

---------------------------------------------------------------------------
(* Facts about lists *)

(* The least and the greatest of some numbers are among them. *)
LEMMA MinIsElement ==
    ASSUME NEW S, S \subseteq Nat, S # {}
    PROVE  Min(S) \in S /\ \A y \in S : Min(S) <= y
<1>1. PICK x \in S : \A y \in S : x <= y
  BY LeastNumber
<1> QED BY <1>1 DEF Min

(* And so is the greatest. *)
LEMMA MaxIsElement ==
    ASSUME NEW n \in Nat, NEW S, S \subseteq 0 .. n, S # {}
    PROVE  Max(S) \in S /\ \A y \in S : Max(S) >= y
<1> DEFINE T == {k \in 0 .. n : n - k \in S}
<1>1. PICK y \in S : TRUE
  OBVIOUS
<1>2. T \subseteq Nat /\ n - y \in T
  BY <1>1
<1>3. PICK k \in T : \A z \in T : k <= z
  BY <1>2, LeastNumber
<1>4. \A y2 \in S : n - y2 \in T
  OBVIOUS
<1>5. n - k \in S /\ \A y2 \in S : n - k >= y2
  BY <1>3, <1>4
<1> QED BY <1>5 DEF Max

(* What is left of a list without one of its elements. *)
Shortened(t, s, e) ==
    \E at \in 1 .. Len(s) : /\ s[at] = e /\ Len(t) = Len(s) - 1
                            /\ \A j \in 1 .. Len(t) : t[j] = IF j < at THEN s[j] ELSE s[j + 1]

(* A list that has the element loses its first occurrence of it. *)
LEMMA RemoveShortens ==
    ASSUME NEW S, NEW s \in Seq(S), NEW e, \E i \in 1 .. Len(s) : s[i] = e
    PROVE  RemoveFirst(s, e) \in Seq(S) /\ Shortened(RemoveFirst(s, e), s, e)
<1> DEFINE I == {i \in 1 .. Len(s) : s[i] = e}
           at == Min(I)
           a == SubSeq(s, 1, at - 1)
           b == SubSeq(s, at + 1, Len(s))
<1>1. Len(s) \in Nat /\ \A i \in 1 .. Len(s) : s[i] \in S
  BY LenProperties, ElementOfSeq
<1>2. at \in I
  <2>1. I \subseteq Nat /\ I # {}
    BY <1>1
  <2> HIDE DEF I
  <2> QED BY <2>1, MinIsElement
<1>3. RemoveFirst(s, e) = a \o b
  <2>1. SelectInSeq(s, LAMBDA v : v = e) = at
    BY <1>2 DEF SelectInSeq
  <2> QED BY <2>1 DEF RemoveFirst, RemoveAt
<1> HIDE DEF at
<1>4. at \in 1 .. Len(s) /\ s[at] = e
  BY <1>2
<1>5. /\ a \in Seq(S) /\ Len(a) = at - 1 /\ \A j \in 1 .. at - 1 : a[j] = s[j]
  <2>1. 1 \in Int /\ at - 1 \in Int /\ \A i \in 1 .. at - 1 : s[i] \in S
    BY <1>1, <1>4
  <2>2. /\ a \in Seq(S) /\ Len(a) = (IF 1 <= at - 1 THEN at - 1 - 1 + 1 ELSE 0)
        /\ \A i \in 1 .. at - 1 - 1 + 1 : a[i] = s[1 + i - 1]
    BY <2>1, SubSeqProperties
  <2> HIDE DEF a
  <2> QED BY <2>2, <1>1, <1>4
<1>6. /\ b \in Seq(S) /\ Len(b) = Len(s) - at /\ \A j \in 1 .. Len(s) - at : b[j] = s[at + j]
  <2>1. at + 1 \in Int /\ Len(s) \in Int /\ \A i \in at + 1 .. Len(s) : s[i] \in S
    BY <1>1, <1>4
  <2>2. /\ b \in Seq(S) /\ Len(b) = (IF at + 1 <= Len(s) THEN Len(s) - (at + 1) + 1 ELSE 0)
        /\ \A i \in 1 .. Len(s) - (at + 1) + 1 : b[i] = s[(at + 1) + i - 1]
    BY <2>1, SubSeqProperties
  <2> HIDE DEF b
  <2> QED BY <2>2, <1>1, <1>4
<1> HIDE DEF a, b
<1> DEFINE t == a \o b
<1>7. /\ t \in Seq(S) /\ Len(t) = Len(a) + Len(b)
      /\ \A i \in 1 .. Len(a) + Len(b) : t[i] = IF i <= Len(a) THEN a[i] ELSE b[i - Len(a)]
  BY <1>5, <1>6, ConcatProperties
<1> HIDE DEF t
<1>8. Shortened(t, s, e)
  <2>1. Len(t) = Len(s) - 1
    BY <1>1, <1>4, <1>5, <1>6, <1>7
  <2>2. ASSUME NEW j \in 1 .. Len(t) PROVE t[j] = IF j < at THEN s[j] ELSE s[j + 1]
    <3>0. j \in 1 .. Len(s) - 1 /\ t[j] = IF j <= at - 1 THEN a[j] ELSE b[j - (at - 1)]
      <4>1. Len(a) = at - 1 /\ Len(a) + Len(b) = Len(t) BY <1>5, <1>7
      <4> QED BY <4>1, <1>7, <2>1
    <3>1. CASE j < at
      <4>1. j \in 1 .. at - 1 BY <3>0, <3>1, <1>1, <1>4
      <4> QED BY <3>0, <3>1, <4>1, <1>5
    <3>2. CASE ~(j < at)
      <4>1. t[j] = b[j - (at - 1)] /\ j - (at - 1) \in 1 .. Len(s) - at
        BY <3>0, <3>2, <1>1, <1>4
      <4>2. b[j - (at - 1)] = s[at + (j - (at - 1))] /\ at + (j - (at - 1)) = j + 1
        BY <4>1, <1>1, <1>4, <1>6
      <4> QED BY <3>2, <4>1, <4>2
    <3> QED BY <3>1, <3>2
  <2> QED BY <1>4, <2>1, <2>2 DEF Shortened
<1> QED BY <1>3, <1>7, <1>8 DEF t

(* In a list that names each element once the others stay, in order. *)
LEMMA ShortenedElements ==
    ASSUME NEW S, NEW s \in Seq(S), NEW t \in Seq(S), NEW e, IsInjective(s), Shortened(t, s, e)
    PROVE  IsInjective(t) /\ ToSet(t) = ToSet(s) \ {e}
<1>1. PICK at \in 1 .. Len(s) : /\ s[at] = e /\ Len(t) = Len(s) - 1
                                /\ \A j \in 1 .. Len(t) : t[j] = IF j < at THEN s[j] ELSE s[j + 1]
  BY DEF Shortened
<1>2. Len(s) \in Nat /\ DOMAIN s = 1 .. Len(s) /\ DOMAIN t = 1 .. Len(t) /\ Len(t) \in Nat
  BY LenProperties
<1> DEFINE up(j) == IF j < at THEN j ELSE j + 1
<1>3. \A j \in 1 .. Len(t) : t[j] = s[up(j)] /\ up(j) \in 1 .. Len(s) /\ up(j) # at
  BY <1>1, <1>2
<1>4. \A j, k \in 1 .. Len(t) : up(j) = up(k) => j = k
  BY <1>1, <1>2
<1>5. \A m \in 1 .. Len(s) : m # at => \E j \in 1 .. Len(t) : up(j) = m
  <2> SUFFICES ASSUME NEW m \in 1 .. Len(s), m # at PROVE \E j \in 1 .. Len(t) : up(j) = m
    OBVIOUS
  <2>1. CASE m < at
    BY <2>1, <1>1, <1>2
  <2>2. CASE m > at
    <3>1. m - 1 \in 1 .. Len(t) /\ up(m - 1) = m BY <2>2, <1>1, <1>2
    <3> QED BY <3>1
  <2> QED BY <2>1, <2>2, <1>1, <1>2
<1> HIDE DEF up
<1>6. IsInjective(t)
  <2>1. ASSUME NEW j \in 1 .. Len(t), NEW k \in 1 .. Len(t), t[j] = t[k] PROVE j = k
    <3>1. up(j) = up(k) BY <1>2, <1>3, <2>1 DEF IsInjective
    <3> QED BY <1>4, <3>1
  <2> QED BY <1>2, <2>1 DEF IsInjective
<1>7. ASSUME NEW x \in ToSet(t) PROVE x \in ToSet(s) /\ x # e
  <2>1. PICK j \in 1 .. Len(t) : x = t[j]
    BY <1>2, <1>7 DEF ToSet
  <2>2. x = s[up(j)] /\ up(j) \in 1 .. Len(s) /\ up(j) # at
    BY <1>3, <2>1
  <2> QED BY <1>1, <1>2, <2>2 DEF ToSet, IsInjective
<1>8. ASSUME NEW x \in ToSet(s), x # e PROVE x \in ToSet(t)
  <2>1. PICK m \in 1 .. Len(s) : x = s[m]
    BY <1>2, <1>8 DEF ToSet
  <2>2. PICK j \in 1 .. Len(t) : up(j) = m
    BY <1>1, <1>5, <1>8, <2>1
  <2> QED BY <1>2, <1>3, <2>1, <2>2 DEF ToSet
<1> QED BY <1>6, <1>7, <1>8

(* A list with one element more. *)
Lengthened(t, s, place, e) ==
    /\ Len(t) = Len(s) + 1
    /\ \A j \in 1 .. Len(t) : t[j] = IF j < place THEN s[j] ELSE IF j = place THEN e ELSE s[j - 1]

(* A list gains an element at a place, and the rest moves up. *)
LEMMA InsertLengthens ==
    ASSUME NEW S, NEW s \in Seq(S), NEW e \in S, NEW place \in 1 .. Len(s) + 1
    PROVE  InsertAt(s, place, e) \in Seq(S) /\ Lengthened(InsertAt(s, place, e), s, place, e)
<1> DEFINE a == SubSeq(s, 1, place - 1)
           b == SubSeq(s, place, Len(s))
           c == <<e>>
<1>1. Len(s) \in Nat /\ \A i \in 1 .. Len(s) : s[i] \in S
  BY LenProperties, ElementOfSeq
<1>2. /\ a \in Seq(S) /\ Len(a) = place - 1 /\ \A j \in 1 .. place - 1 : a[j] = s[j]
  <2>1. 1 \in Int /\ place - 1 \in Int /\ \A i \in 1 .. place - 1 : s[i] \in S
    BY <1>1
  <2>2. /\ a \in Seq(S) /\ Len(a) = (IF 1 <= place - 1 THEN place - 1 - 1 + 1 ELSE 0)
        /\ \A i \in 1 .. place - 1 - 1 + 1 : a[i] = s[1 + i - 1]
    BY <2>1, SubSeqProperties
  <2> HIDE DEF a
  <2> QED BY <2>2, <1>1
<1>3. /\ b \in Seq(S) /\ Len(b) = Len(s) + 1 - place /\ \A j \in 1 .. Len(s) + 1 - place : b[j] = s[place + j - 1]
  <2>1. place \in Int /\ Len(s) \in Int /\ \A i \in place .. Len(s) : s[i] \in S
    BY <1>1
  <2>2. /\ b \in Seq(S) /\ Len(b) = (IF place <= Len(s) THEN Len(s) - place + 1 ELSE 0)
        /\ \A i \in 1 .. Len(s) - place + 1 : b[i] = s[place + i - 1]
    BY <2>1, SubSeqProperties
  <2> HIDE DEF b
  <2> QED BY <2>2, <1>1
<1>4. c \in Seq(S) /\ Len(c) = 1 /\ c[1] = e
  OBVIOUS
<1>5. InsertAt(s, place, e) = (a \o c) \o b
  BY DEF InsertAt
<1> HIDE DEF a, b, c
<1> DEFINE d == a \o c
<1>6. /\ d \in Seq(S) /\ Len(d) = Len(a) + Len(c)
      /\ \A i \in 1 .. Len(a) + Len(c) : d[i] = IF i <= Len(a) THEN a[i] ELSE c[i - Len(a)]
  BY <1>2, <1>4, ConcatProperties
<1> HIDE DEF d
<1> DEFINE t == d \o b
<1>7. /\ t \in Seq(S) /\ Len(t) = Len(d) + Len(b)
      /\ \A i \in 1 .. Len(d) + Len(b) : t[i] = IF i <= Len(d) THEN d[i] ELSE b[i - Len(d)]
  <2>1. d \in Seq(S) /\ b \in Seq(S)
    BY <1>3, <1>6
  <2> QED BY <2>1, ConcatProperties
<1> HIDE DEF t
<1>8. Len(t) = Len(s) + 1 /\ Len(d) = place
  BY <1>1, <1>2, <1>3, <1>4, <1>6, <1>7
<1>9. ASSUME NEW j \in 1 .. Len(t)
      PROVE  t[j] = IF j < place THEN s[j] ELSE IF j = place THEN e ELSE s[j - 1]
  <2>1. CASE j < place
    <3>1. t[j] = d[j] BY <2>1, <1>1, <1>7, <1>8
    <3>2. j \in 1 .. place - 1 /\ j \in 1 .. Len(a) + Len(c)
      BY <2>1, <1>1, <1>2, <1>4, <1>8
    <3>3. d[j] = a[j] BY <3>2, <1>2, <1>6
    <3> QED BY <2>1, <3>1, <3>2, <3>3, <1>2
  <2>2. CASE j = place
    <3>1. t[j] = d[j] BY <2>2, <1>1, <1>7, <1>8
    <3>2. d[j] = c[1] BY <2>2, <1>2, <1>4, <1>6
    <3>3. t[j] = c[1] BY <3>1, <3>2
    <3> QED BY <2>2, <3>3, <1>4
  <2>3. CASE j > place
    <3>1. t[j] = b[j - place] /\ j - place \in 1 .. Len(s) + 1 - place
      BY <2>3, <1>1, <1>3, <1>7, <1>8
    <3>2. b[j - place] = s[place + (j - place) - 1] /\ place + (j - place) - 1 = j - 1
      BY <3>1, <1>3, <1>1
    <3> QED BY <2>3, <3>1, <3>2
  <2> QED BY <2>1, <2>2, <2>3, <1>1, <1>8
<1> QED BY <1>5, <1>7, <1>8, <1>9 DEF t, d, Lengthened

(* One that was not in the list: the list names each once still. *)
LEMMA LengthenedElements ==
    ASSUME NEW S, NEW s \in Seq(S), NEW t \in Seq(S), NEW e, NEW place \in 1 .. Len(s) + 1,
           IsInjective(s), e \notin ToSet(s), Lengthened(t, s, place, e)
    PROVE  IsInjective(t) /\ ToSet(t) = ToSet(s) \cup {e}
<1>1. /\ Len(t) = Len(s) + 1
      /\ \A j \in 1 .. Len(t) : t[j] = IF j < place THEN s[j] ELSE IF j = place THEN e ELSE s[j - 1]
  BY DEF Lengthened
<1>2. Len(s) \in Nat /\ DOMAIN s = 1 .. Len(s) /\ DOMAIN t = 1 .. Len(t) /\ Len(t) \in Nat
  BY LenProperties
<1> DEFINE down(j) == IF j < place THEN j ELSE j - 1
<1>3. \A j \in 1 .. Len(t) : j # place => t[j] = s[down(j)] /\ down(j) \in 1 .. Len(s)
  BY <1>1, <1>2
<1>4. \A j, k \in 1 .. Len(t) : j # place /\ k # place /\ down(j) = down(k) => j = k
  BY <1>1, <1>2
<1>5. \A m \in 1 .. Len(s) : \E j \in 1 .. Len(t) : j # place /\ down(j) = m
  <2> SUFFICES ASSUME NEW m \in 1 .. Len(s) PROVE \E j \in 1 .. Len(t) : j # place /\ down(j) = m
    OBVIOUS
  <2>1. CASE m < place
    BY <2>1, <1>1, <1>2
  <2>2. CASE m >= place
    <3>1. m + 1 \in 1 .. Len(t) /\ m + 1 # place /\ down(m + 1) = m BY <2>2, <1>1, <1>2
    <3> QED BY <3>1
  <2> QED BY <2>1, <2>2, <1>2
<1>6. place \in 1 .. Len(t) /\ t[place] = e
  BY <1>1, <1>2
<1> HIDE DEF down
<1>7. IsInjective(t)
  <2>1. ASSUME NEW j \in 1 .. Len(t), NEW k \in 1 .. Len(t), t[j] = t[k], j # place PROVE k # place /\ j = k
    <3>1. t[j] = s[down(j)] /\ down(j) \in 1 .. Len(s) BY <1>3, <2>1
    <3>2. k # place BY <1>2, <1>6, <2>1, <3>1 DEF ToSet
    <3>3. t[k] = s[down(k)] /\ down(k) \in 1 .. Len(s) BY <1>3, <3>2
    <3>4. down(j) = down(k) BY <1>2, <2>1, <3>1, <3>3 DEF IsInjective
    <3> QED BY <1>4, <2>1, <3>2, <3>4
  <2> QED BY <1>2, <2>1 DEF IsInjective
<1>8. ASSUME NEW x \in ToSet(t) PROVE x \in ToSet(s) \cup {e}
  <2>1. PICK j \in 1 .. Len(t) : x = t[j]
    BY <1>2, <1>8 DEF ToSet
  <2> QED BY <1>2, <1>3, <1>6, <2>1 DEF ToSet
<1>9. ASSUME NEW x \in ToSet(s) PROVE x \in ToSet(t)
  <2>1. PICK m \in 1 .. Len(s) : x = s[m]
    BY <1>2, <1>9 DEF ToSet
  <2>2. PICK j \in 1 .. Len(t) : j # place /\ down(j) = m
    BY <1>5, <2>1
  <2> QED BY <1>2, <1>3, <2>1, <2>2 DEF ToSet
<1> QED BY <1>2, <1>6, <1>7, <1>8, <1>9 DEF ToSet

---------------------------------------------------------------------------
(* The cached path, and the choice of a path *)

(* The parts of a state, and of its channel. *)
LEMMA NpParts ==
    ASSUME NEW w \in NpStates
    PROVE  /\ w.path \in [NvmePaths -> NpPaths] /\ w.ch \in NpChannels /\ w.io \in [NvmeIos -> NpIos]
           /\ w.now \in 0 .. MaxTicks /\ w.stale \in Nat /\ w.left \in NpBounds /\ w.crash \in NpCrashes
           /\ w.seen \in SUBSET {"no clearing"}
  BY DEF NpStates

(* The parts of a channel. *)
LEMMA ChannelParts ==
    ASSUME NEW w \in NpStates
    PROVE  /\ w.ch.list \in Seq(NvmePaths) /\ w.ch.cur \in NvmePaths \cup {NoIoPath} /\ w.ch.rr \in 0 .. RrMinIo - 1
           /\ w.ch.policy \in IoPathPolicies /\ w.ch.retry \in Seq(NvmeIos) /\ w.ch.poll \in -1 .. MaxTicks + 1
  BY NpParts DEF NpChannels

(* The same but for the channel, and the same channel but for its cache. *)
OutsideChannel(v, w) ==
    /\ v \in NpStates /\ v.path = w.path /\ v.io = w.io /\ v.now = w.now /\ v.stale = w.stale /\ v.left = w.left
    /\ v.crash = w.crash /\ v.seen = w.seen
Recached(v, w) ==
    /\ OutsideChannel(v, w) /\ v.ch.list = w.ch.list /\ v.ch.policy = w.ch.policy /\ v.ch.retry = w.ch.retry
    /\ v.ch.poll = w.ch.poll

(* A channel is set, and nothing else changes. *)
LEMMA SetChannel ==
    ASSUME NEW w \in NpStates, NEW c \in NpChannels
    PROVE  OutsideChannel([w EXCEPT !.ch = c], w) /\ [w EXCEPT !.ch = c].ch = c
  BY DEF NpStates, OutsideChannel

(* A path is cached. *)
LEMMA SetCurrent ==
    ASSUME NEW w \in NpStates, NEW p \in NvmePaths \cup {NoIoPath}
    PROVE  Recached([w EXCEPT !.ch.cur = p], w) /\ [w EXCEPT !.ch.cur = p].ch.cur = p
<1> DEFINE c == [w.ch EXCEPT !.cur = p]
<1>1. /\ c \in NpChannels /\ c.cur = p /\ c.list = w.ch.list /\ c.policy = w.ch.policy /\ c.retry = w.ch.retry
      /\ c.poll = w.ch.poll
  BY NpParts DEF NpChannels
<1>2. [w EXCEPT !.ch.cur = p] = [w EXCEPT !.ch = c]
  BY DEF NpStates
<1> HIDE DEF c
<1> QED BY <1>1, <1>2, SetChannel DEF Recached

(* The I/Os on the cached path are counted. *)
LEMMA SetCounter ==
    ASSUME NEW w \in NpStates, NEW r \in 0 .. RrMinIo - 1
    PROVE  Recached([w EXCEPT !.ch.rr = r], w) /\ [w EXCEPT !.ch.rr = r].ch.cur = w.ch.cur
<1> DEFINE c == [w.ch EXCEPT !.rr = r]
<1>1. /\ c \in NpChannels /\ c.cur = w.ch.cur /\ c.list = w.ch.list /\ c.policy = w.ch.policy
      /\ c.retry = w.ch.retry /\ c.poll = w.ch.poll
  BY NpParts DEF NpChannels
<1>2. [w EXCEPT !.ch.rr = r] = [w EXCEPT !.ch = c]
  BY DEF NpStates
<1> HIDE DEF c
<1> QED BY <1>1, <1>2, SetChannel DEF Recached

(* The cache is cleared. *)
LEMMA ClearFacts ==
    ASSUME NEW w \in NpStates
    PROVE  Recached(ClearCurrent(w), w) /\ ClearCurrent(w).ch.cur = NoIoPath
<1> DEFINE c == [w.ch EXCEPT !.cur = NoIoPath, !.rr = 0]
<1>1. /\ c \in NpChannels /\ c.cur = NoIoPath /\ c.list = w.ch.list /\ c.policy = w.ch.policy
      /\ c.retry = w.ch.retry /\ c.poll = w.ch.poll
  <2>1. w.ch \in NpChannels
    BY NpParts
  <2>2. 0 \in 0 .. RrMinIo - 1
    BY IoPathAssumption
  <2> QED BY <2>1, <2>2 DEF NpChannels
<1>2. ClearCurrent(w) = [w EXCEPT !.ch = c]
  BY DEF NpStates, ClearCurrent
<1> HIDE DEF c
<1> QED BY <1>1, <1>2, SetChannel DEF Recached

(* A cleared cache is sound, if no more than one I/O has failed. *)
LEMMA ClearedSound ==
    ASSUME NEW v, v.ch.cur = NoIoPath, v.left.wrapped \/ v.stale = 0 \/ v.stale = 1
    PROVE  CacheSound(v)
  BY DEF CacheSound

(* The choice *)

(* The first of a list that is in a set is in both, if there is one. *)
LEMMA FirstOfFacts ==
    ASSUME NEW S, NEW list \in Seq(S), NEW set
    PROVE  FirstOf(list, set) = NoIoPath \/ (FirstOf(list, set) \in set /\ FirstOf(list, set) \in ToSet(list))
<1> DEFINE hits == {k \in DOMAIN list : list[k] \in set}
<1>1. DOMAIN list = 1 .. Len(list) /\ Len(list) \in Nat
  BY LenProperties
<1>2. CASE hits = {}
  BY <1>2 DEF FirstOf
<1>3. CASE hits # {}
  <2>1. hits \subseteq Nat
    BY <1>1
  <2>2. FirstOf(list, set) = list[Min(hits)]
    BY <1>3 DEF FirstOf
  <2>3. \A k \in hits : list[k] \in set /\ list[k] \in ToSet(list)
    BY DEF ToSet
  <2> HIDE DEF hits
  <2>4. Min(hits) \in hits
    BY <1>3, <2>1, MinIsElement
  <2> QED BY <2>2, <2>3, <2>4
<1> QED BY <1>2, <1>3

(* A list turned so that it starts behind the cached path is one of paths. *)
LEMMA TurnedFacts ==
    ASSUME NEW c \in NpChannels
    PROVE  Turned(c) \in Seq(NvmePaths)
<1> DEFINE at == {k \in DOMAIN c.list : c.list[k] = c.cur}
           k == IF at = {} THEN 0 ELSE CHOOSE k \in at : TRUE
           a == SubSeq(c.list, k + 1, Len(c.list))
           b == SubSeq(c.list, 1, k)
<1>1. c.list \in Seq(NvmePaths)
  BY DEF NpChannels
<1>2. DOMAIN c.list = 1 .. Len(c.list) /\ Len(c.list) \in Nat /\ \A i \in 1 .. Len(c.list) : c.list[i] \in NvmePaths
  BY <1>1, LenProperties, ElementOfSeq
<1>3. k \in 0 .. Len(c.list)
  BY <1>2
<1>4. Turned(c) = a \o b
  BY Zenon DEF Turned
<1> HIDE DEF k
<1>5. a \in Seq(NvmePaths)
  <2>1. k + 1 \in Int /\ Len(c.list) \in Int /\ \A i \in k + 1 .. Len(c.list) : c.list[i] \in NvmePaths
    BY <1>2, <1>3
  <2> QED BY <2>1, SubSeqProperties
<1>6. b \in Seq(NvmePaths)
  <2>1. 1 \in Int /\ k \in Int /\ \A i \in 1 .. k : c.list[i] \in NvmePaths
    BY <1>2, <1>3
  <2> QED BY <2>1, SubSeqProperties
<1> QED BY <1>4, <1>5, <1>6, ConcatProperties

(* A usable path in a given ANA state is connected, and in the list. *)
LEMMA InStateFacts ==
    ASSUME NEW w \in NpStates, NEW ana, NEW p \in InState(w, ana)
    PROVE  p \in ToSet(w.ch.list) /\ p \in NvmePaths /\ Connected(w, p) /\ w.path[p].ana = ana
<1>1. p \in ToSet(w.ch.list) /\ Usable(w, p) /\ w.path[p].ana = ana
  BY DEF InState
<1>2. \A q \in ToSet(w.ch.list) : q \in NvmePaths
  BY ChannelParts, LenProperties, ElementOfSeq DEF ToSet
<1> QED BY <1>1, <1>2 DEF Usable

(* A path of that state, or none. *)
InTurn(w, p, ana) ==
    p = NoIoPath \/ (p \in ToSet(w.ch.list) /\ p \in NvmePaths /\ Connected(w, p) /\ w.path[p].ana = ana)

(* The first of a list in an ANA state is connected, and in that state. *)
LEMMA FirstInState ==
    ASSUME NEW w \in NpStates, NEW list \in Seq(NvmePaths), NEW ana, NEW set, set \subseteq InState(w, ana)
    PROVE  InTurn(w, FirstOf(list, set), ana)
<1>1. FirstOf(list, set) = NoIoPath \/ FirstOf(list, set) \in InState(w, ana)
  BY FirstOfFacts
<1> QED BY <1>1, InStateFacts DEF InTurn

(* What a search finds is in the list, if anything, and the cache is sound
   afterwards. *)
Found(f, w) ==
    /\ Recached(f.w, w) /\ CacheSound(f.w)
    /\ f.p \in NvmePaths \cup {NoIoPath} /\ (f.p = NoIoPath \/ f.p \in ToSet(w.ch.list))

(* A path that is connected may be cached, for the active-passive policy
   an optimized one. *)
LEMMA CurrentSound ==
    ASSUME NEW w \in NpStates, CacheSound(w), NEW p, NEW ana, InTurn(w, p, ana), 
           ana = "optimized" \/ w.ch.policy # "passive"
    PROVE  Recached([w EXCEPT !.ch.cur = p], w) /\ CacheSound([w EXCEPT !.ch.cur = p])
<1> DEFINE v == [w EXCEPT !.ch.cur = p]
<1>1. Recached(v, w) /\ v.ch.cur = p
  BY SetCurrent DEF InTurn
<1> HIDE DEF v
<1>0. w.left.wrapped \/ w.stale = 0 \/ w.stale = 1
  BY DEF CacheSound
<1>4. /\ v.left = w.left /\ v.stale = w.stale /\ v.path = w.path /\ v.ch.list = w.ch.list
      /\ v.ch.policy = w.ch.policy
  BY <1>1 DEF Recached, OutsideChannel
<1>2. ASSUME p = NoIoPath PROVE CacheSound(v)
  <2>1. v.left.wrapped \/ v.stale = 0 \/ v.stale = 1
    BY <1>0, <1>4
  <2> QED BY <1>1, <1>2, <2>1, ClearedSound
<1>3. ASSUME p # NoIoPath PROVE CacheSound(v)
  <2>1. p \in ToSet(v.ch.list) /\ Connected(v, p) /\ v.path[p].ana = ana
    BY <1>3, <1>4 DEF InTurn, Connected
  <2> QED BY <1>0, <1>1, <1>4, <2>1 DEF CacheSound
<1> QED BY <1>1, <1>2, <1>3 DEF v

(* The search of the active-passive and round-robin policies. *)
LEMMA FindInTurnFacts ==
    ASSUME NEW w \in NpStates, CacheSound(w)
    PROVE  Found(FindInTurn(w), w)
<1> DEFINE o == FirstOf(Turned(w.ch), InState(w, "optimized"))
           q == FirstOf(Turned(w.ch), InState(w, "non_optimized"))
<1>1. InTurn(w, o, "optimized") /\ InTurn(w, q, "non_optimized")
  BY NpParts, TurnedFacts, FirstInState
<1> DEFINE p == IF o # NoIoPath THEN o ELSE q
           v == [w EXCEPT !.ch.cur = p]
           u == IF o = NoIoPath /\ w.ch.policy = "passive" THEN w ELSE v
<1>2. FindInTurn(w) = [w |-> u, p |-> p]
  BY Zenon DEF FindInTurn
<1> HIDE DEF o, q
<1>3. InTurn(w, p, "optimized") \/ (o = NoIoPath /\ InTurn(w, p, "non_optimized"))
  BY <1>1
<1>4. p \in NvmePaths \cup {NoIoPath} /\ (p = NoIoPath \/ p \in ToSet(w.ch.list))
  BY <1>3 DEF InTurn
<1> HIDE DEF p
<1>5. ASSUME o # NoIoPath \/ w.ch.policy # "passive" PROVE Recached(v, w) /\ CacheSound(v)
  BY <1>3, <1>5, CurrentSound
<1> HIDE DEF v
<1>6. Recached(u, w) /\ CacheSound(u)
  BY <1>5 DEF Recached, OutsideChannel
<1> HIDE DEF u
<1> QED BY <1>2, <1>4, <1>6 DEF Found

(* The counter of a sound cache may change. *)
LEMMA CounterSound ==
    ASSUME NEW w \in NpStates, CacheSound(w), NEW r \in 0 .. RrMinIo - 1
    PROVE  Recached([w EXCEPT !.ch.rr = r], w) /\ CacheSound([w EXCEPT !.ch.rr = r])
<1> DEFINE v == [w EXCEPT !.ch.rr = r]
<1>1. Recached(v, w) /\ v.ch.cur = w.ch.cur
  BY SetCounter
<1> HIDE DEF v
<1>2. CacheSound(v)
  BY <1>1 DEF CacheSound, Recached, OutsideChannel, Connected
<1> QED BY <1>1, <1>2 DEF v

(* bdev_nvme_find_io_path. *)
LEMMA FindFacts ==
    ASSUME NEW w \in NpStates, CacheSound(w)
    PROVE  Found(FindIoPath(w), w)
<1> DEFINE kept == w.ch.cur # NoIoPath /\ w.ch.policy = "passive"
           counted == w.ch.cur # NoIoPath /\ w.ch.policy = "robin" /\ w.ch.rr + 1 < RrMinIo
           turned == w.ch.cur # NoIoPath /\ w.ch.policy = "robin" /\ ~(w.ch.rr + 1 < RrMinIo)
           depth == w.ch.policy = "depth"
<1>0. w.ch.rr \in 0 .. RrMinIo - 1 /\ RrMinIo \in Nat \ {0} /\ w.ch.cur \in NvmePaths \cup {NoIoPath}
  BY ChannelParts, IoPathAssumption
<1>1. CASE kept
  <2>1. FindIoPath(w) = [w |-> w, p |-> w.ch.cur]
    BY <1>1 DEF FindIoPath
  <2>2. Recached(w, w) /\ (w.ch.cur = NoIoPath \/ w.ch.cur \in ToSet(w.ch.list))
    BY DEF Recached, OutsideChannel, CacheSound
  <2> QED BY <1>0, <2>1, <2>2 DEF Found
<1>2. CASE counted
  <2> DEFINE r == w.ch.rr + 1
             v == [w EXCEPT !.ch.rr = r]
  <2>1. FindIoPath(w) = [w |-> v, p |-> w.ch.cur]
    <3>1. [w EXCEPT !.ch.rr = @ + 1] = v OBVIOUS
    <3>2. FindIoPath(w) = [w |-> [w EXCEPT !.ch.rr = @ + 1], p |-> w.ch.cur]
      BY <1>0, <1>2 DEF FindIoPath
    <3> QED BY <3>1, <3>2, Zenon
  <2>2. r \in 0 .. RrMinIo - 1
    BY <1>0, <1>2
  <2> HIDE DEF r
  <2>3. Recached(v, w) /\ CacheSound(v)
    BY <2>2, CounterSound
  <2>4. w.ch.cur = NoIoPath \/ w.ch.cur \in ToSet(w.ch.list)
    BY DEF CacheSound
  <2> HIDE DEF v
  <2> QED BY <1>0, <2>1, <2>3, <2>4 DEF Found
<1>3. CASE turned
  <2> DEFINE v == [w EXCEPT !.ch.rr = 0]
  <2>1. FindIoPath(w) = FindInTurn(v)
    BY <1>0, <1>3 DEF FindIoPath
  <2>2. 0 \in 0 .. RrMinIo - 1
    BY <1>0
  <2>3. Recached(v, w) /\ CacheSound(v) /\ v \in NpStates
    BY <2>2, CounterSound DEF Recached, OutsideChannel
  <2> HIDE DEF v
  <2>4. Found(FindInTurn(v), v)
    BY <2>3, FindInTurnFacts
  <2> QED BY <2>1, <2>3, <2>4 DEF Found, Recached, OutsideChannel
<1>4. CASE depth
  <2> DEFINE p == FindShallowest(w)
  <2>1. FindIoPath(w) = [w |-> w, p |-> p]
    BY <1>4 DEF FindIoPath
  <2>2. InTurn(w, Shallowest(w, InState(w, "optimized")), "optimized")
    BY ChannelParts, FirstInState DEF Shallowest
  <2>3. InTurn(w, Shallowest(w, InState(w, "non_optimized")), "non_optimized")
    BY ChannelParts, FirstInState DEF Shallowest
  <2>4. \E ana : InTurn(w, p, ana)
    BY <2>2, <2>3 DEF FindShallowest
  <2> HIDE DEF p
  <2> QED BY <2>1, <2>4 DEF Found, Recached, OutsideChannel, InTurn
<1>5. CASE ~kept /\ ~counted /\ ~turned /\ ~depth
  <2>1. FindIoPath(w) = FindInTurn(w)
    BY <1>5 DEF FindIoPath
  <2> QED BY <2>1, FindInTurnFacts
<1> QED BY <1>1, <1>2, <1>3, <1>4, <1>5

---------------------------------------------------------------------------
(* Answers and submissions *)

(* The same but for the I/O, the cache and the count of what it cost. *)
Stays(v, w, i) ==
    /\ v \in NpStates /\ v.path = w.path /\ v.now = w.now /\ v.left = w.left /\ v.crash = w.crash /\ v.seen = w.seen
    /\ v.ch.list = w.ch.list /\ v.ch.policy = w.ch.policy /\ v.ch.retry = w.ch.retry /\ v.ch.poll = w.ch.poll
    /\ \A j \in NvmeIos \ {i} : v.io[j] = w.io[j]

(* The I/O is answered, or has a path and does not wait for a retry. *)
Settled(v, w, i) ==
    /\ Stays(v, w, i) /\ CacheSound(v)
    /\ v.io[i].st \in {"free", "buf", "out", "verify"} /\ (v.io[i].st # "free" => v.io[i].path \in NvmePaths)

(* An I/O changes. *)
LEMMA SetIo ==
    ASSUME NEW w \in NpStates, NEW i \in NvmeIos, NEW x \in NpIos
    PROVE  /\ Stays([w EXCEPT !.io[i] = x], w, i) /\ [w EXCEPT !.io[i] = x].io[i] = x
           /\ [w EXCEPT !.io[i] = x].ch = w.ch /\ [w EXCEPT !.io[i] = x].stale = w.stale
<1> DEFINE f == [w.io EXCEPT ![i] = x]
<1>1. f \in [NvmeIos -> NpIos] /\ f[i] = x /\ \A j \in NvmeIos \ {i} : f[j] = w.io[j]
  BY NpParts
<1>2. [w EXCEPT !.io[i] = x] = [w EXCEPT !.io = f]
  BY DEF NpStates
<1> HIDE DEF f
<1> DEFINE v == [w EXCEPT !.io = f]
<1>3. /\ v \in NpStates /\ v.path = w.path /\ v.now = w.now /\ v.left = w.left /\ v.crash = w.crash
      /\ v.seen = w.seen /\ v.ch = w.ch /\ v.stale = w.stale /\ v.io = f
  BY <1>1 DEF NpStates
<1> HIDE DEF v
<1>4. Stays(v, w, i) /\ v.io[i] = x /\ v.ch = w.ch /\ v.stale = w.stale
  BY <1>1, <1>3 DEF Stays
<1> QED BY <1>2, <1>4 DEF v

(* What the soundness of the cache looks at. *)
LEMMA CacheKept ==
    ASSUME NEW w, NEW v, CacheSound(w), v.path = w.path, v.left = w.left, v.stale = w.stale, v.seen = w.seen,
           v.ch.cur = w.ch.cur, v.ch.list = w.ch.list, v.ch.policy = w.ch.policy
    PROVE  CacheSound(v)
  BY DEF CacheSound, Connected

(* An I/O is set, with a path unless it is free. *)
LEMMA SetSettled ==
    ASSUME NEW w \in NpStates, CacheSound(w), NEW i \in NvmeIos, NEW x \in NpIos,
           x.st \in {"free", "buf", "out", "verify"},
           x.st # "free" => x.path \in NvmePaths
    PROVE  Settled([w EXCEPT !.io[i] = x], w, i)
<1> DEFINE v == [w EXCEPT !.io[i] = x]
<1>1. Stays(v, w, i) /\ v.io[i] = x /\ v.ch = w.ch /\ v.stale = w.stale
  BY SetIo
<1> HIDE DEF v
<1>2. CacheSound(v)
  BY <1>1, CacheKept DEF Stays
<1>3. Settled(v, w, i)
  BY <1>1, <1>2 DEF Settled
<1> QED BY <1>3 DEF v

(* A path is cached, or the cache cleared, and then an I/O is settled. *)
LEMMA SettledAfter ==
    ASSUME NEW w, NEW u, NEW v, NEW i, Recached(u, w), Settled(v, u, i)
    PROVE  Settled(v, w, i)
  BY DEF Settled, Stays, Recached, OutsideChannel

(* A free I/O. *)
LEMMA FreeIoType == FreeIo \in NpIos /\ FreeIo.st = "free"
<1>1. 0 \in 0 .. NvmeRetries /\ 0 \in 0 .. MaxTicks + 1
  BY IoPathAssumption
<1> QED BY <1>1 DEF FreeIo, NpIos

(* An answered I/O is free. *)
LEMMA AnsweredFacts ==
    ASSUME NEW w \in NpStates, CacheSound(w), NEW i \in NvmeIos, w.io[i].st # "free"
    PROVE  Settled(AnswerIo(w, i), w, i) /\ AnswerIo(w, i).io[i] = FreeIo
<1>1. AnswerIo(w, i) = [w EXCEPT !.io[i] = FreeIo]
  BY DEF AnswerIo
<1> QED BY <1>1, FreeIoType, SetSettled, SetIo

(* Without a path, or on one that is lost: the cache is cleared, unless it
   is another channel's. *)
LEMMA ClearOfIoFacts ==
    ASSUME NEW w \in NpStates
    PROVE  /\ Recached(ClearOfIo(w), w)
           /\ IF w.left.wrapped THEN ClearOfIo(w) = w ELSE ClearOfIo(w).ch.cur = NoIoPath
  BY ClearFacts DEF ClearOfIo, Recached, OutsideChannel

(* The cache is sound when the one of an I/O has been cleared. *)
LEMMA ClearOfIoSound ==
    ASSUME NEW w \in NpStates, CacheSound(w)
    PROVE  CacheSound(ClearOfIo(w))
<1> DEFINE v == ClearOfIo(w)
<1>1. Recached(v, w) /\ IF w.left.wrapped THEN v = w ELSE v.ch.cur = NoIoPath
  BY ClearOfIoFacts
<1> HIDE DEF v
<1>2. CASE w.left.wrapped
  BY <1>1, <1>2 DEF v
<1>3. ASSUME ~w.left.wrapped PROVE CacheSound(v)
  <2>1. v.left.wrapped \/ v.stale = 0 \/ v.stale = 1
    BY <1>1 DEF CacheSound, Recached, OutsideChannel
  <2> QED BY <1>1, <1>3, <2>1, ClearedSound
<1> QED BY <1>2, <1>3 DEF v

(* An I/O that finds no path is answered. *)
LEMMA NoPathFacts ==
    ASSUME NEW w \in NpStates, CacheSound(ClearOfIo(w)), NEW i \in NvmeIos, w.io[i].st # "free"
    PROVE  Settled(NoPathForIo(w, i), w, i)
<1> DEFINE u == ClearOfIo(w)
<1>1. Recached(u, w)
  BY ClearOfIoFacts
<1> HIDE DEF u
<1>2. u \in NpStates /\ u.io[i].st # "free" /\ CacheSound(u)
  BY <1>1 DEF Recached, OutsideChannel, u
<1>3. Settled(AnswerIo(u, i), u, i)
  BY <1>2, AnsweredFacts
<1>4. NoPathForIo(w, i) = AnswerIo(u, i)
  BY DEF NoPathForIo, u
<1> QED BY <1>1, <1>3, <1>4, SettledAfter

(* An I/O that failed on a lost path. *)
LEMMA MissedFacts ==
    ASSUME NEW w \in NpStates, CacheSound(w), NEW i \in NvmeIos, w.io[i].st # "free",
           NEW n \in {0, 1}, n = 1 => w.ch.cur # NoIoPath /\ ~Connected(w, w.ch.cur)
    PROVE  Settled(NoPathForIo([w EXCEPT !.stale = @ + n], i), w, i)
<1> DEFINE m == w.stale + n
           u == [w EXCEPT !.stale = @ + n]
<1>0. m \in Nat /\ u = [w EXCEPT !.stale = m]
  <2>1. w.stale \in Nat
    BY NpParts
  <2>2. m \in Nat
    BY <2>1
  <2>3. u = [w EXCEPT !.stale = m]
    OBVIOUS
  <2> QED BY <2>2, <2>3
<1>1. /\ u \in NpStates /\ u.path = w.path /\ u.now = w.now /\ u.left = w.left /\ u.crash = w.crash
      /\ u.seen = w.seen /\ u.ch = w.ch /\ u.io = w.io /\ u.stale = w.stale + n
  <2>1. m = w.stale + n
    OBVIOUS
  <2> HIDE DEF m, u
  <2> QED BY <1>0, <2>1 DEF NpStates
<1> HIDE DEF m, u
<1>2. CacheSound(ClearOfIo(u))
  <2> DEFINE v == ClearOfIo(u)
  <2>1. Recached(v, u) /\ IF u.left.wrapped THEN v = u ELSE v.ch.cur = NoIoPath
    BY <1>1, ClearOfIoFacts
  <2> HIDE DEF v
  <2>2. ASSUME w.left.wrapped PROVE CacheSound(v)
    BY <1>1, <2>1, <2>2 DEF CacheSound, Connected
  <2>3. ASSUME ~w.left.wrapped PROVE CacheSound(v)
    <3>1. u.stale = 0 \/ u.stale = 1
      <4>1. w.stale = 0 \/ (w.stale = 1 /\ n = 0) BY <2>3 DEF CacheSound, Connected
      <4> QED BY <1>1, <4>1
    <3>2. v.stale = u.stale BY <2>1 DEF Recached, OutsideChannel
    <3> QED BY <1>1, <2>1, <2>3, <3>1, <3>2, ClearedSound
  <2> QED BY <2>2, <2>3 DEF v
<1>3. Settled(NoPathForIo(u, i), u, i)
  BY <1>1, <1>2, NoPathFacts
<1>4. Settled(NoPathForIo(u, i), w, i)
  BY <1>1, <1>3 DEF Settled, Stays
<1> QED BY <1>4 DEF u

(* _bdev_nvme_submit_request. *)
LEMMA SubmitOnFacts ==
    ASSUME NEW w \in NpStates, CacheSound(w), NEW i \in NvmeIos, w.io[i].st # "free",
           NEW p \in NvmePaths \cup {NoIoPath}
    PROVE  Settled(SubmitOn(w, i, p), w, i)
<1>1. CASE p = NoIoPath
  <2>1. SubmitOn(w, i, p) = NoPathForIo(w, i)
    BY <1>1 DEF SubmitOn
  <2> QED BY <2>1, ClearOfIoSound, NoPathFacts
<1>2. CASE p # NoIoPath /\ ~Connected(w, p)
  <2> DEFINE n == IF p = w.ch.cur /\ InState(w, "optimized") # {} THEN 1 ELSE 0
  <2>1. SubmitOn(w, i, p) = NoPathForIo([w EXCEPT !.stale = @ + n], i)
    BY <1>2 DEF SubmitOn
  <2>2. n \in {0, 1} /\ (n = 1 => w.ch.cur # NoIoPath /\ ~Connected(w, w.ch.cur))
    BY <1>2
  <2> HIDE DEF n
  <2> QED BY <2>1, <2>2, MissedFacts
<1>3. CASE p # NoIoPath /\ Connected(w, p)
  <2> DEFINE x == [w.io[i] EXCEPT !.st = "out", !.path = p, !.gen = w.path[p].gen]
  <2>1. SubmitOn(w, i, p) = [w EXCEPT !.io[i] = x]
    BY <1>3, NpParts DEF SubmitOn, NpStates
  <2>2. w.io[i] \in NpIos /\ w.path[p].gen \in Nat
    BY <1>3, NpParts DEF NpPaths
  <2>3. x \in NpIos /\ x.st = "out" /\ x.path \in NvmePaths
    BY <1>3, <2>2 DEF NpIos
  <2> HIDE DEF x
  <2> QED BY <2>1, <2>3, SetSettled
<1> QED BY <1>1, <1>2, <1>3

(* bdev_nvme_submit_request. *)
LEMMA SubmitFacts ==
    ASSUME NEW w \in NpStates, CacheSound(w), NEW i \in NvmeIos, w.io[i].st # "free"
    PROVE  Settled(SubmitIo(w, i), w, i)
<1> DEFINE f == FindIoPath(w)
<1>1. Found(f, w)
  BY FindFacts
<1>2. SubmitIo(w, i) = SubmitOn(f.w, i, f.p)
  BY DEF SubmitIo, SubmitFound
<1> HIDE DEF f
<1>3. f.w \in NpStates /\ CacheSound(f.w) /\ f.w.io[i].st # "free" /\ f.p \in NvmePaths \cup {NoIoPath}
  BY <1>1 DEF Found, Recached, OutsideChannel
<1>4. Settled(SubmitOn(f.w, i, f.p), f.w, i)
  BY <1>3, SubmitOnFacts
<1> QED BY <1>1, <1>2, <1>4, SettledAfter DEF Found

---------------------------------------------------------------------------
(* The I/Os that wait for a retry *)

(* The list by its indices. *)
LEMMA RetryParts ==
    ASSUME NEW w \in NpStates
    PROVE  LET s == w.ch.retry
           IN  /\ s \in Seq(NvmeIos) /\ Len(s) \in Nat /\ DOMAIN s = 1 .. Len(s)
               /\ \A k \in 1 .. Len(s) : s[k] \in NvmeIos /\ s[k] \in ToSet(s) /\ w.io[s[k]].at \in Nat
<1> DEFINE s == w.ch.retry
<1>1. s \in Seq(NvmeIos) /\ w.io \in [NvmeIos -> NpIos]
  BY ChannelParts, NpParts
<1>2. Len(s) \in Nat /\ DOMAIN s = 1 .. Len(s) /\ \A k \in 1 .. Len(s) : s[k] \in NvmeIos
  BY <1>1, LenProperties, ElementOfSeq
<1>3. \A i \in NvmeIos : w.io[i].at \in Nat
  BY <1>1, IoPathAssumption DEF NpIos
<1> QED BY <1>1, <1>2, <1>3 DEF ToSet

(* Nothing happens to those that wait. *)
LEMMA QueueSame ==
    ASSUME NEW w \in NpStates, NEW v, NEW i \in NvmeIos, RetrySound(w), v.ch.retry = w.ch.retry,
           v.ch.poll = w.ch.poll, \A j \in NvmeIos \ {i} : v.io[j] = w.io[j],
           w.io[i].st # "retry", v.io[i].st # "retry"
    PROVE  RetrySound(v)
<1> DEFINE s == w.ch.retry
<1>1. /\ DOMAIN s = 1 .. Len(s) /\ Len(s) \in Nat
      /\ \A k \in 1 .. Len(s) : s[k] \in NvmeIos /\ s[k] \in ToSet(s)
  BY RetryParts
<1>2. /\ IsInjective(s) /\ \A j \in NvmeIos : w.io[j].st = "retry" <=> j \in ToSet(s)
      /\ \A j, k \in DOMAIN s : j < k => w.io[s[j]].at <= w.io[s[k]].at
      /\ s # <<>> => w.ch.poll >= 0 /\ w.ch.poll <= w.io[s[1]].at
  BY DEF RetrySound
<1>3. \A k \in 1 .. Len(s) : v.io[s[k]] = w.io[s[k]]
  BY <1>1, <1>2
<1>4. \A j \in NvmeIos : v.io[j].st = "retry" <=> j \in ToSet(s)
  BY <1>2
<1>5. s # <<>> => 1 \in 1 .. Len(s)
  <2>1. s # <<>> => Len(s) # 0
    BY RetryParts, EmptySeq
  <2> QED BY <1>1, <2>1
<1>6. v.ch.retry = s
  OBVIOUS
<1>7. \A j, k \in DOMAIN s : j < k => v.io[s[j]].at <= v.io[s[k]].at
  BY <1>1, <1>2, <1>3
<1>8. s # <<>> => v.ch.poll >= 0 /\ v.ch.poll <= v.io[s[1]].at
  BY <1>2, <1>3, <1>5
<1> HIDE DEF s
<1> QED BY <1>2, <1>4, <1>6, <1>7, <1>8 DEF RetrySound

(* One of them is taken from the list. *)
LEMMA Unqueued ==
    ASSUME NEW w \in NpStates, NEW v, NEW i \in NvmeIos, RetrySound(w), v.ch.retry = RemoveFirst(w.ch.retry, i),
           v.ch.poll = w.ch.poll, \A j \in NvmeIos \ {i} : v.io[j] = w.io[j],
           w.io[i].st = "retry", v.io[i].st # "retry"
    PROVE  RetrySound(v)
<1> DEFINE s == w.ch.retry
           t == v.ch.retry
<1>1. /\ s \in Seq(NvmeIos) /\ DOMAIN s = 1 .. Len(s) /\ Len(s) \in Nat
      /\ \A k \in 1 .. Len(s) : s[k] \in NvmeIos /\ s[k] \in ToSet(s) /\ w.io[s[k]].at \in Nat
  BY RetryParts
<1>2. /\ IsInjective(s) /\ \A j \in NvmeIos : w.io[j].st = "retry" <=> j \in ToSet(s)
      /\ \A j, k \in DOMAIN s : j < k => w.io[s[j]].at <= w.io[s[k]].at
      /\ s # <<>> => w.ch.poll >= 0 /\ w.ch.poll <= w.io[s[1]].at
  BY DEF RetrySound
<1>9. t = RemoveFirst(s, i)
  OBVIOUS
<1> HIDE DEF s, t
<1>3. t \in Seq(NvmeIos) /\ Shortened(t, s, i)
  <2>1. \E k \in 1 .. Len(s) : s[k] = i
    BY <1>1, <1>2 DEF ToSet
  <2> QED BY <1>1, <1>9, <2>1, RemoveShortens
<1>4. IsInjective(t) /\ ToSet(t) = ToSet(s) \ {i}
  BY <1>1, <1>2, <1>3, ShortenedElements
<1>5. PICK at \in 1 .. Len(s) : /\ s[at] = i /\ Len(t) = Len(s) - 1
                                /\ \A j \in 1 .. Len(t) : t[j] = IF j < at THEN s[j] ELSE s[j + 1]
  BY <1>3 DEF Shortened
<1> DEFINE up(j) == IF j < at THEN j ELSE j + 1
<1>6. DOMAIN t = 1 .. Len(t) /\ \A j \in 1 .. Len(t) : t[j] = s[up(j)] /\ up(j) \in 1 .. Len(s) /\ up(j) # at
  <2>1. DOMAIN t = 1 .. Len(t)
    BY <1>3, LenProperties
  <2> QED BY <1>1, <1>5, <2>1
<1>7. \A j, k \in 1 .. Len(t) : j < k => up(j) < up(k)
  BY <1>1, <1>5
<1>8. \A j \in 1 .. Len(t) : v.io[t[j]] = w.io[s[up(j)]]
  <2>1. \A m \in 1 .. Len(s) : m # at => s[m] \in NvmeIos \ {i}
    BY <1>1, <1>2, <1>5 DEF IsInjective
  <2> QED BY <1>6, <2>1
<1> HIDE DEF up
<1>10. \A j, k \in DOMAIN t : j < k => v.io[t[j]].at <= v.io[t[k]].at
  BY <1>1, <1>2, <1>6, <1>7, <1>8
<1>11. \A j \in NvmeIos : v.io[j].st = "retry" <=> j \in ToSet(t)
  BY <1>2, <1>4
<1>12. ASSUME t # <<>> PROVE v.ch.poll >= 0 /\ v.ch.poll <= v.io[t[1]].at
  <2>1. Len(t) \in Nat \ {0}
    BY <1>3, <1>12, EmptySeq
  <2>2. 1 \in 1 .. Len(t) /\ up(1) \in 1 .. Len(s) /\ 1 \in 1 .. Len(s)
    BY <1>1, <1>5, <1>6, <2>1
  <2>3. s # <<>>
    BY <2>2
  <2>4. w.io[s[1]].at <= w.io[s[up(1)]].at
    <3>1. CASE up(1) = 1
      BY <1>1, <2>2, <3>1
    <3>2. CASE up(1) > 1
      BY <1>1, <1>2, <2>2, <3>2
    <3> QED BY <2>2, <3>1, <3>2
  <2>5. w.ch.poll \in Int
    BY ChannelParts, IoPathAssumption
  <2> QED BY <1>1, <1>2, <1>8, <2>2, <2>3, <2>4, <2>5
<1> QED BY <1>4, <1>10, <1>11, <1>12 DEF RetrySound, t

(* One is put into the list, behind those that are due no later. *)
QueuesAt(w, v, i, at) ==
    /\ LET before == {k \in DOMAIN w.ch.retry : w.io[w.ch.retry[k]].at <= at}
       IN  /\ v.ch.retry = InsertAt(w.ch.retry, IF before = {} THEN 1 ELSE Max(before) + 1, i)
           /\ v.ch.poll = IF before = {} THEN at ELSE w.ch.poll
    /\ \A j \in NvmeIos \ {i} : v.io[j] = w.io[j]
    /\ w.io[i].st # "retry" /\ v.io[i].st = "retry" /\ v.io[i].at = at

(* The list stays in the order in which its I/Os are due. *)
LEMMA Queued ==
    ASSUME NEW w \in NpStates, NEW v, NEW i \in NvmeIos, RetrySound(w), NEW at \in Nat, QueuesAt(w, v, i, at)
    PROVE  RetrySound(v) /\ v.ch.retry \in Seq(NvmeIos)
<1> DEFINE s == w.ch.retry
           t == v.ch.retry
           before == {k \in DOMAIN s : w.io[s[k]].at <= at}
           place == IF before = {} THEN 1 ELSE Max(before) + 1
<1>1. /\ s \in Seq(NvmeIos) /\ DOMAIN s = 1 .. Len(s) /\ Len(s) \in Nat
      /\ \A k \in 1 .. Len(s) : s[k] \in NvmeIos /\ s[k] \in ToSet(s) /\ w.io[s[k]].at \in Nat
  BY RetryParts
<1>2. /\ IsInjective(s) /\ \A j \in NvmeIos : w.io[j].st = "retry" <=> j \in ToSet(s)
      /\ \A j, k \in DOMAIN s : j < k => w.io[s[j]].at <= w.io[s[k]].at
      /\ s # <<>> => w.ch.poll >= 0 /\ w.ch.poll <= w.io[s[1]].at
  BY DEF RetrySound
<1>3. t = InsertAt(s, place, i) /\ v.ch.poll = IF before = {} THEN at ELSE w.ch.poll
  BY DEF QueuesAt
<1>0. /\ \A j \in NvmeIos \ {i} : v.io[j] = w.io[j]
      /\ w.io[i].st # "retry" /\ v.io[i].st = "retry" /\ v.io[i].at = at
  BY DEF QueuesAt
<1> HIDE DEF s, t
<1>4. /\ before \subseteq 0 .. Len(s)
      /\ \A k \in 1 .. Len(s) : k \in before <=> w.io[s[k]].at <= at
      /\ \A k \in before : k \in 1 .. Len(s)
  <2>1. before = {k \in 1 .. Len(s) : w.io[s[k]].at <= at}
    BY <1>1
  <2> HIDE DEF before
  <2>2. \A k \in 1 .. Len(s) : k \in before <=> w.io[s[k]].at <= at
    BY <2>1
  <2>3. \A k \in before : k \in 1 .. Len(s)
    BY <2>1
  <2>4. before \subseteq 0 .. Len(s)
    BY <1>1, <2>3
  <2> QED BY <2>2, <2>3, <2>4
<1> HIDE DEF before
<1>5. /\ place \in 1 .. Len(s) + 1
      /\ \A k \in 1 .. Len(s) : k < place => w.io[s[k]].at <= at
      /\ \A k \in 1 .. Len(s) : k >= place => at <= w.io[s[k]].at
  <2>1. CASE before = {}
    BY <1>1, <1>4, <2>1
  <2>2. CASE before # {}
    <3> DEFINE m == Max(before)
    <3>1. m \in before /\ \A k \in before : m >= k BY <1>1, <1>4, <2>2, MaxIsElement
    <3>2. place = m + 1 BY <2>2
    <3> HIDE DEF m, place
    <3>3. m \in 1 .. Len(s) /\ w.io[s[m]].at <= at BY <1>4, <3>1
    <3>4. \A k \in 1 .. Len(s) : k < place => w.io[s[k]].at <= at
      <4> SUFFICES ASSUME NEW k \in 1 .. Len(s), k < place PROVE w.io[s[k]].at <= at
        OBVIOUS
      <4>1. k = m \/ k < m BY <1>1, <3>2, <3>3
      <4>2. k < m => w.io[s[k]].at <= w.io[s[m]].at BY <1>1, <1>2, <3>3
      <4> QED BY <1>1, <3>3, <4>1, <4>2
    <3>5. \A k \in 1 .. Len(s) : k >= place => at <= w.io[s[k]].at
      <4> SUFFICES ASSUME NEW k \in 1 .. Len(s), k >= place PROVE at <= w.io[s[k]].at
        OBVIOUS
      <4>1. k \notin before BY <1>1, <3>1, <3>2, <3>3
      <4> QED BY <1>1, <1>4, <4>1
    <3> QED BY <1>1, <3>2, <3>3, <3>4, <3>5
  <2> QED BY <2>1, <2>2
<1>6. before = {} <=> place = 1
  <2>1. CASE before = {}
    BY <2>1
  <2>2. CASE before # {}
    <3>1. Max(before) \in 1 .. Len(s) BY <2>2, <1>1, <1>4, MaxIsElement
    <3> QED BY <1>1, <2>2, <3>1
  <2> QED BY <2>1, <2>2
<1> HIDE DEF place
<1>7. t \in Seq(NvmeIos) /\ Lengthened(t, s, place, i)
  BY <1>1, <1>3, <1>5, InsertLengthens
<1>8. IsInjective(t) /\ ToSet(t) = ToSet(s) \cup {i}
  BY <1>0, <1>1, <1>2, <1>5, <1>7, LengthenedElements
<1>9. /\ Len(t) = Len(s) + 1
      /\ \A j \in 1 .. Len(t) : t[j] = IF j < place THEN s[j] ELSE IF j = place THEN i ELSE s[j - 1]
  BY <1>7 DEF Lengthened
<1>10. \A k \in 1 .. Len(s) : v.io[s[k]] = w.io[s[k]]
  BY <1>0, <1>1, <1>2
<1> DEFINE when(j) == v.io[t[j]].at
<1>11. \A j \in 1 .. Len(t) : /\ j < place => when(j) = w.io[s[j]].at /\ j \in 1 .. Len(s)
                              /\ j = place => when(j) = at
                              /\ j > place => when(j) = w.io[s[j - 1]].at /\ j - 1 \in 1 .. Len(s)
  <2> SUFFICES ASSUME NEW j \in 1 .. Len(t)
               PROVE  /\ j < place => when(j) = w.io[s[j]].at /\ j \in 1 .. Len(s)
                      /\ j = place => when(j) = at
                      /\ j > place => when(j) = w.io[s[j - 1]].at /\ j - 1 \in 1 .. Len(s)
    OBVIOUS
  <2>1. ASSUME j < place PROVE j \in 1 .. Len(s) /\ t[j] = s[j]
    BY <1>1, <1>5, <1>9, <2>1
  <2>2. ASSUME j = place PROVE t[j] = i
    BY <1>5, <1>9, <2>2
  <2>3. ASSUME j > place PROVE j - 1 \in 1 .. Len(s) /\ t[j] = s[j - 1]
    BY <1>1, <1>5, <1>9, <2>3
  <2> QED BY <1>0, <1>10, <2>1, <2>2, <2>3
<1> HIDE DEF when
<1>12. \A j, k \in 1 .. Len(t) : j < k => when(j) <= when(k)
  <2> SUFFICES ASSUME NEW j \in 1 .. Len(t), NEW k \in 1 .. Len(t), j < k PROVE when(j) <= when(k)
    OBVIOUS
  <2>1. CASE k < place
    <3>1. j < place /\ j \in DOMAIN s /\ k \in DOMAIN s /\ when(j) = w.io[s[j]].at /\ when(k) = w.io[s[k]].at
      BY <1>1, <1>5, <1>11, <2>1
    <3> QED BY <1>2, <3>1
  <2>2. CASE k = place
    BY <1>1, <1>5, <1>11, <2>2
  <2>3. CASE k > place /\ j = place
    BY <1>1, <1>5, <1>11, <2>3
  <2>4. CASE k > place /\ j > place
    <3>1. j - 1 \in 1 .. Len(s) /\ k - 1 \in 1 .. Len(s) /\ j - 1 < k - 1 BY <1>11, <2>4
    <3>2. w.io[s[j - 1]].at <= w.io[s[k - 1]].at BY <1>1, <1>2, <3>1
    <3> QED BY <1>11, <2>4, <3>2
  <2>5. CASE k > place /\ j < place
    <3>1. k - 1 \in 1 .. Len(s) /\ k - 1 >= place /\ j \in 1 .. Len(s)
      BY <1>5, <1>11, <2>5
    <3>2. w.io[s[j]].at <= at /\ at <= w.io[s[k - 1]].at BY <1>5, <2>5, <3>1
    <3>3. w.io[s[j]].at \in Nat /\ w.io[s[k - 1]].at \in Nat BY <1>1, <3>1
    <3>4. when(j) = w.io[s[j]].at /\ when(k) = w.io[s[k - 1]].at BY <1>11, <2>5
    <3> QED BY <3>2, <3>3, <3>4
  <2> QED BY <1>5, <2>1, <2>2, <2>3, <2>4, <2>5
<1>13. DOMAIN t = 1 .. Len(t)
  BY <1>7, LenProperties
<1>14. \A j \in NvmeIos : v.io[j].st = "retry" <=> j \in ToSet(t)
  BY <1>0, <1>2, <1>8
<1>15. v.ch.poll >= 0 /\ v.ch.poll <= v.io[t[1]].at
  <2>0. 1 \in 1 .. Len(t)
    BY <1>1, <1>9
  <2>1. CASE before = {}
    <3>1. place = 1 BY <1>6, <2>1
    <3>2. when(1) = at BY <1>11, <2>0, <3>1
    <3>3. v.io[t[1]].at = at BY <3>2 DEF when
    <3>4. v.ch.poll = at BY <1>3, <2>1
    <3> QED BY <3>3, <3>4
  <2>2. CASE before # {}
    <3>1. 1 < place BY <1>5, <1>6, <2>2
    <3>2. v.io[t[1]].at = w.io[s[1]].at /\ 1 \in 1 .. Len(s) BY <1>11, <2>0, <3>1 DEF when
    <3>3. s # <<>> BY <3>2
    <3> QED BY <1>2, <1>3, <2>2, <3>2, <3>3
  <2> QED BY <2>1, <2>2
<1> QED BY <1>7, <1>8, <1>12, <1>13, <1>14, <1>15 DEF RetrySound, t, when

---------------------------------------------------------------------------
(* Parts of a step that keep the invariant *)

(* An I/O that does not wait is answered or sent. *)
LEMMA SettledKeeps ==
    ASSUME NEW w, NpInv(w), NEW v, NEW i \in NvmeIos, Settled(v, w, i), w.io[i].st # "retry"
    PROVE  NpInv(v)
<1>1. Stays(v, w, i) /\ CacheSound(v) /\ v \in NpStates /\ w \in NpStates
  BY DEF Settled, Stays, NpInv
<1>2. v.io[i].st # "retry" /\ v.io[i].st # "new" /\ (v.io[i].st # "free" => v.io[i].path \in NvmePaths)
  BY DEF Settled
<1>3. RetrySound(v)
  BY <1>1, <1>2, QueueSame DEF NpInv, Stays
<1>4. IosSound(v)
  BY <1>1, <1>2 DEF NpInv, Stays, IosSound
<1>5. ListSound(v) /\ CrashSound(v)
  BY <1>1 DEF NpInv, Stays, ListSound, CrashSound
<1> QED BY <1>1, <1>3, <1>4, <1>5 DEF NpInv

(* The same but for the bounds. *)
SameButLeft(v, w) ==
    /\ v.path = w.path /\ v.ch = w.ch /\ v.io = w.io /\ v.now = w.now /\ v.stale = w.stale /\ v.crash = w.crash
    /\ v.seen = w.seen /\ v.left.wrapped = w.left.wrapped

(* A bounded step is counted. *)
LEMMA SpendKeeps ==
    ASSUME NEW w, NpInv(w),
           NEW what \in {"ios", "losses", "anas", "namespaces", "faults", "aborts", "settings"}, w.left[what] > 0
    PROVE  NpInv(IoPathSpend(w, what)) /\ SameButLeft(IoPathSpend(w, what), w)
<1>1. w \in NpStates /\ w.left \in NpBounds
  BY NpParts DEF NpInv
<1> DEFINE l == [w.left EXCEPT ![what] = @ - 1]
           v == [w EXCEPT !.left = l]
<1>2. l \in NpBounds /\ l.wrapped = w.left.wrapped
  <2> DEFINE b == w.left
             n == b[what] - 1
  <2>1. b \in NpBounds /\ b[what] > 0
    BY <1>1
  <2> HIDE DEF b
  <2>2. b[what] \in Nat
    BY <2>1 DEF NpBounds
  <2>3. n \in Nat /\ l = [b EXCEPT ![what] = n]
    BY <2>1, <2>2 DEF b
  <2> HIDE DEF l, n
  <2>4. ASSUME what = "ios" PROVE l \in NpBounds /\ l.wrapped = b.wrapped
    <3>1. l = [b EXCEPT !.ios = n] BY <2>3, <2>4
    <3> QED BY <2>1, <2>3, <3>1 DEF NpBounds
  <2>5. ASSUME what = "losses" PROVE l \in NpBounds /\ l.wrapped = b.wrapped
    <3>1. l = [b EXCEPT !.losses = n] BY <2>3, <2>5
    <3> QED BY <2>1, <2>3, <3>1 DEF NpBounds
  <2>6. ASSUME what = "anas" PROVE l \in NpBounds /\ l.wrapped = b.wrapped
    <3>1. l = [b EXCEPT !.anas = n] BY <2>3, <2>6
    <3> QED BY <2>1, <2>3, <3>1 DEF NpBounds
  <2>7. ASSUME what = "namespaces" PROVE l \in NpBounds /\ l.wrapped = b.wrapped
    <3>1. l = [b EXCEPT !.namespaces = n] BY <2>3, <2>7
    <3> QED BY <2>1, <2>3, <3>1 DEF NpBounds
  <2>8. ASSUME what = "faults" PROVE l \in NpBounds /\ l.wrapped = b.wrapped
    <3>1. l = [b EXCEPT !.faults = n] BY <2>3, <2>8
    <3> QED BY <2>1, <2>3, <3>1 DEF NpBounds
  <2>9. ASSUME what = "aborts" PROVE l \in NpBounds /\ l.wrapped = b.wrapped
    <3>1. l = [b EXCEPT !.aborts = n] BY <2>3, <2>9
    <3> QED BY <2>1, <2>3, <3>1 DEF NpBounds
  <2>10. ASSUME what = "settings" PROVE l \in NpBounds /\ l.wrapped = b.wrapped
    <3>1. l = [b EXCEPT !.settings = n] BY <2>3, <2>10
    <3> QED BY <2>1, <2>3, <3>1 DEF NpBounds
  <2> QED BY <2>4, <2>5, <2>6, <2>7, <2>8, <2>9, <2>10 DEF b
<1>3. IoPathSpend(w, what) = v
  BY <1>1 DEF IoPathSpend, NpStates
<1> HIDE DEF l
<1>4. v \in NpStates /\ v.left = l /\ SameButLeft(v, w)
  BY <1>1, <1>2 DEF NpStates, SameButLeft
<1> HIDE DEF v
<1>5. IosSound(v) /\ ListSound(v) /\ CrashSound(v) /\ RetrySound(v) /\ CacheSound(v)
  BY <1>4 DEF NpInv, SameButLeft, IosSound, ListSound, CrashSound, RetrySound, CacheSound, Connected
<1>6. NpInv(v)
  BY <1>4, <1>5 DEF NpInv
<1> QED BY <1>3, <1>4, <1>6

(* The program ends. *)
LEMMA CrashKeeps ==
    ASSUME NEW w, NpInv(w), NEW why \in {"freed path", "no retry list"}, why = "no retry list" => w.left.wrapped
    PROVE  /\ NpInv(IoPathCrash(w, why)) /\ IoPathCrash(w, why).io = w.io /\ IoPathCrash(w, why).now = w.now
<1> DEFINE v == IoPathCrash(w, why)
<1>1. /\ v \in NpStates /\ v.path = w.path /\ v.ch = w.ch /\ v.io = w.io /\ v.now = w.now /\ v.stale = w.stale
      /\ v.left = w.left /\ v.seen = w.seen /\ v.crash \in {w.crash, why}
  BY DEF NpInv, NpStates, NpCrashes, IoPathCrash
<1> HIDE DEF v
<1>2. IosSound(v) /\ ListSound(v) /\ RetrySound(v) /\ CacheSound(v)
  BY <1>1 DEF NpInv, IosSound, ListSound, RetrySound, CacheSound, Connected
<1>3. CrashSound(v)
  <2>1. w.crash # "answered twice" /\ (w.crash = "no retry list" => w.left.wrapped)
    BY DEF NpInv, CrashSound
  <2>2. CASE v.crash = w.crash
    BY <1>1, <2>1, <2>2 DEF CrashSound
  <2>3. CASE v.crash = why
    BY <1>1, <2>3 DEF CrashSound
  <2> QED BY <1>1, <2>2, <2>3
<1> QED BY <1>1, <1>2, <1>3 DEF NpInv, v

(* The cache is cleared. *)
LEMMA RecachedKeeps ==
    ASSUME NEW w, NpInv(w), NEW v, Recached(v, w), CacheSound(v)
    PROVE  NpInv(v)
<1>1. IosSound(v) /\ ListSound(v) /\ RetrySound(v) /\ CrashSound(v)
  BY DEF NpInv, Recached, OutsideChannel, IosSound, ListSound, RetrySound, CrashSound
<1> QED BY <1>1 DEF NpInv, Recached, OutsideChannel

(* The cache is cleared. *)
LEMMA ClearKeeps ==
    ASSUME NEW w, NpInv(w)
    PROVE  NpInv(ClearCurrent(w)) /\ Recached(ClearCurrent(w), w) /\ ClearCurrent(w).ch.cur = NoIoPath
<1> DEFINE v == ClearCurrent(w)
<1>1. Recached(v, w) /\ v.ch.cur = NoIoPath
  BY ClearFacts DEF NpInv
<1> HIDE DEF v
<1>2. CacheSound(v)
  <2>1. v.left.wrapped \/ v.stale = 0 \/ v.stale = 1
    BY <1>1 DEF NpInv, CacheSound, Recached, OutsideChannel
  <2> QED BY <1>1, <2>1, ClearedSound
<1>3. NpInv(v)
  BY <1>1, <1>2, RecachedKeeps
<1> QED BY <1>1, <1>3 DEF v

(* An answer, with or without the cache cleared. *)
LEMMA AnswerKeeps ==
    ASSUME NEW w, NpInv(w), NEW i \in NvmeIos, w.io[i].st \notin {"free", "retry"}
    PROVE  NpInv(AnswerIo(w, i))
<1>1. w \in NpStates /\ CacheSound(w)
  BY DEF NpInv
<1>2. Settled(AnswerIo(w, i), w, i)
  BY <1>1, AnsweredFacts
<1> QED BY <1>2, SettledKeeps

(* The cache of an I/O is cleared. *)
LEMMA ClearOfIoKeeps ==
    ASSUME NEW w, NpInv(w)
    PROVE  NpInv(ClearOfIo(w)) /\ Recached(ClearOfIo(w), w)
<1>1. w \in NpStates /\ CacheSound(w)
  BY DEF NpInv
<1> QED BY <1>1, ClearOfIoFacts, ClearOfIoSound, RecachedKeeps

(* An I/O that does not wait finds no path. *)
LEMMA NoPathKeeps ==
    ASSUME NEW w, NpInv(w), NEW i \in NvmeIos, w.io[i].st \notin {"free", "retry"}
    PROVE  NpInv(NoPathForIo(w, i))
<1>1. NpInv(ClearOfIo(w)) /\ ClearOfIo(w).io = w.io
  BY ClearOfIoKeeps DEF Recached, OutsideChannel
<1> QED BY <1>1, AnswerKeeps DEF NoPathForIo

---------------------------------------------------------------------------
(* Retries *)

(* bdev_nvme_queue_retry_io. *)
LEMMA QueueRetryKeeps ==
    ASSUME NEW w, NpInv(w), NEW i \in NvmeIos, w.io[i].st \in {"out", "verify"}, NEW delay \in 0 .. 1
    PROVE  NpInv(QueueRetry(w, i, delay))
<1> DEFINE at == w.now + delay
           before == {k \in DOMAIN w.ch.retry : w.io[w.ch.retry[k]].at <= at}
           place == IF before = {} THEN 1 ELSE Max(before) + 1
           retry == InsertAt(w.ch.retry, place, i)
           poll == IF before = {} THEN at ELSE w.ch.poll
           x == [w.io[i] EXCEPT !.st = "retry", !.at = at]
           v == [w EXCEPT !.io[i] = [@ EXCEPT !.st = "retry", !.at = at], !.ch.retry = retry, !.ch.poll = poll]
<1>0. w \in NpStates
  BY DEF NpInv
<1>1. CASE w.left.wrapped
  BY <1>1, CrashKeeps DEF QueueRetry
<1>2. CASE ~w.left.wrapped
  <2>1. QueueRetry(w, i, delay) = v
    BY <1>2, Zenon DEF QueueRetry
  <2>2. at \in 0 .. MaxTicks + 1 /\ at \in Nat
    <3>1. w.now \in 0 .. MaxTicks /\ MaxTicks \in Nat BY <1>0, NpParts, IoPathAssumption
    <3> QED BY <3>1
  <2>3. w.io[i] \in NpIos /\ w.io[i].path \in NvmePaths
    BY <1>0, NpParts DEF NpInv, IosSound
  <2>4. x \in NpIos /\ x.st = "retry" /\ x.at = at /\ x.path = w.io[i].path
    <3> HIDE DEF at
    <3> QED BY <2>2, <2>3 DEF NpIos
  <2>5. poll \in -1 .. MaxTicks + 1
    BY <1>0, <2>2, ChannelParts, IoPathAssumption
  <2> DEFINE s == [w.io EXCEPT ![i] = x]
             c == [w.ch EXCEPT !.retry = retry, !.poll = poll]
  <2>6. v = [w EXCEPT !.io = s, !.ch = c]
    BY <1>0 DEF NpStates, NpChannels
  <2>7. s \in [NvmeIos -> NpIos] /\ s[i] = x /\ \A j \in NvmeIos \ {i} : s[j] = w.io[j]
    <3> HIDE DEF x
    <3> QED BY <1>0, <2>4, NpParts
  <2>8. /\ c.retry = retry /\ c.poll = poll /\ c.list = w.ch.list /\ c.cur = w.ch.cur /\ c.policy = w.ch.policy
        /\ (retry \in Seq(NvmeIos) => c \in NpChannels)
    <3>1. w.ch \in NpChannels BY <1>0, NpParts
    <3> HIDE DEF retry, poll
    <3> QED BY <2>5, <3>1 DEF NpChannels
  <2> HIDE DEF s, c
  <2>9. RetrySound([io |-> s, ch |-> c]) /\ retry \in Seq(NvmeIos)
    <3> DEFINE u == [io |-> s, ch |-> c]
    <3>1. u.io = s /\ u.ch = c OBVIOUS
    <3> HIDE DEF u
    <3>2. u.ch.retry = InsertAt(w.ch.retry, place, i) /\ u.ch.poll = poll BY <2>8, <3>1
    <3>3. /\ \A j \in NvmeIos \ {i} : u.io[j] = w.io[j]
          /\ w.io[i].st # "retry" /\ u.io[i].st = "retry" /\ u.io[i].at = at
      BY <2>4, <2>7, <3>1
    <3>5. QueuesAt(w, u, i, at) BY <3>2, <3>3 DEF QueuesAt
    <3> HIDE DEF at
    <3>4. RetrySound(u) /\ u.ch.retry \in Seq(NvmeIos)
      BY <1>0, <2>2, <3>5, Queued DEF NpInv
    <3> QED BY <2>8, <3>1, <3>4 DEF u
  <2> DEFINE u == [w EXCEPT !.io = s, !.ch = c]
  <2>10. /\ u \in NpStates /\ u.io = s /\ u.ch = c /\ u.path = w.path /\ u.left = w.left /\ u.stale = w.stale
         /\ u.seen = w.seen /\ u.crash = w.crash
    BY <1>0, <2>7, <2>8, <2>9 DEF NpStates
  <2> HIDE DEF u
  <2>11. RetrySound(u)
    BY <2>9, <2>10 DEF RetrySound
  <2>12. CacheSound(u)
    BY <2>8, <2>10, CacheKept DEF NpInv
  <2>13. IosSound(u)
    <3>1. IosSound(w) /\ u.io = s BY <2>10 DEF NpInv
    <3> QED BY <2>3, <2>4, <2>7, <3>1 DEF IosSound
  <2>14. ListSound(u) /\ CrashSound(u)
    BY <2>8, <2>10 DEF NpInv, ListSound, CrashSound
  <2>15. NpInv(u)
    BY <2>10, <2>11, <2>12, <2>13, <2>14 DEF NpInv
  <2> QED BY <2>1, <2>6, <2>15 DEF u
<1> QED BY <1>1, <1>2

(* An I/O that waits is taken from the list, and answered or sent. *)
TakenOff(w, i) == [w EXCEPT !.ch.retry = RemoveFirst(@, i)]

(* What a state is once an I/O is off its list. *)
LEMMA TakenOffFacts ==
    ASSUME NEW w, NpInv(w), NEW i \in NvmeIos, w.io[i].st = "retry"
    PROVE  TakenOff(w, i) \in NpStates /\ CacheSound(TakenOff(w, i)) /\ TakenOff(w, i).io = w.io
<1> DEFINE t == RemoveFirst(w.ch.retry, i)
           u == TakenOff(w, i)
           c == [w.ch EXCEPT !.retry = t]
<1>0. w \in NpStates /\ w.ch \in NpChannels
  BY NpParts DEF NpInv
<1>1. t \in Seq(NvmeIos)
  <2>1. w.ch.retry \in Seq(NvmeIos) /\ \E k \in 1 .. Len(w.ch.retry) : w.ch.retry[k] = i
    BY <1>0, RetryParts DEF NpInv, RetrySound, ToSet
  <2> QED BY <2>1, RemoveShortens
<1>2. u = [w EXCEPT !.ch = c]
  BY <1>0 DEF NpStates, TakenOff
<1> HIDE DEF t
<1>3. c \in NpChannels /\ c.list = w.ch.list /\ c.cur = w.ch.cur /\ c.policy = w.ch.policy
  BY <1>0, <1>1 DEF NpChannels
<1> HIDE DEF c
<1>4. OutsideChannel(u, w) /\ u.ch = c
  BY <1>0, <1>2, <1>3, SetChannel
<1> HIDE DEF u
<1>5. CacheSound(u)
  BY <1>3, <1>4, CacheKept DEF NpInv, OutsideChannel
<1> QED BY <1>4, <1>5 DEF OutsideChannel, u

(* An I/O is off the list, and is answered or sent. *)
LEMMA TakenOffKeeps ==
    ASSUME NEW w, NpInv(w), NEW i \in NvmeIos, w.io[i].st = "retry", NEW v, Settled(v, TakenOff(w, i), i)
    PROVE  NpInv(v) /\ \A j \in NvmeIos \ {i} : v.io[j] = w.io[j]
<1>0. w \in NpStates /\ RetrySound(w)
  BY DEF NpInv
<1>1. /\ TakenOff(w, i).path = w.path /\ TakenOff(w, i).left = w.left /\ TakenOff(w, i).crash = w.crash
      /\ TakenOff(w, i).seen = w.seen /\ TakenOff(w, i).io = w.io /\ TakenOff(w, i).ch.list = w.ch.list
      /\ TakenOff(w, i).ch.retry = RemoveFirst(w.ch.retry, i) /\ TakenOff(w, i).ch.poll = w.ch.poll
  <2> DEFINE t == RemoveFirst(w.ch.retry, i)
  <2>1. TakenOff(w, i) = [w EXCEPT !.ch.retry = t]
    BY DEF TakenOff
  <2> HIDE DEF t
  <2>2. /\ TakenOff(w, i).path = w.path /\ TakenOff(w, i).left = w.left /\ TakenOff(w, i).crash = w.crash
        /\ TakenOff(w, i).seen = w.seen /\ TakenOff(w, i).io = w.io /\ TakenOff(w, i).ch.list = w.ch.list
        /\ TakenOff(w, i).ch.retry = t /\ TakenOff(w, i).ch.poll = w.ch.poll
    <3> DEFINE c == [w.ch EXCEPT !.retry = t]
    <3>1. w.ch \in NpChannels BY <1>0 DEF NpStates
    <3>2. c.list = w.ch.list /\ c.retry = t /\ c.poll = w.ch.poll BY <3>1 DEF NpChannels
    <3>3. TakenOff(w, i) = [w EXCEPT !.ch = c] BY <2>1
    <3> HIDE DEF c
    <3>4. /\ TakenOff(w, i).path = w.path /\ TakenOff(w, i).left = w.left /\ TakenOff(w, i).crash = w.crash
          /\ TakenOff(w, i).seen = w.seen /\ TakenOff(w, i).io = w.io /\ TakenOff(w, i).ch = c
      BY <1>0, <3>3 DEF NpStates
    <3> QED BY <3>2, <3>4
  <2> QED BY <2>2 DEF t
<1>2. /\ v \in NpStates /\ v.path = w.path /\ v.left = w.left /\ v.crash = w.crash /\ v.seen = w.seen
      /\ v.ch.list = w.ch.list /\ v.ch.retry = RemoveFirst(w.ch.retry, i) /\ v.ch.poll = w.ch.poll /\ CacheSound(v)
      /\ \A j \in NvmeIos \ {i} : v.io[j] = w.io[j]
      /\ v.io[i].st \notin {"new", "retry"} /\ (v.io[i].st # "free" => v.io[i].path \in NvmePaths)
  BY <1>1 DEF Settled, Stays
<1>3. RetrySound(v)
  BY <1>0, <1>2, Unqueued
<1>4. IosSound(v)
  BY <1>2 DEF NpInv, IosSound
<1>5. ListSound(v) /\ CrashSound(v)
  BY <1>2 DEF NpInv, ListSound, CrashSound
<1> QED BY <1>2, <1>3, <1>4, <1>5 DEF NpInv

(* bdev_nvme_retry_io: of the I/Os only this one changes. *)
LEMMA RetryIoKeeps ==
    ASSUME NEW w, NpInv(w), NEW i \in NvmeIos, w.io[i].st = "retry"
    PROVE  NpInv(RetryIo(w, i)) /\ \A j \in NvmeIos \ {i} : RetryIo(w, i).io[j] = w.io[j]
<1> DEFINE u == TakenOff(w, i)
           p == w.io[i].path
           v == RetryIo(w, i)
<1>1. CASE Freed(w, i)
  <2>1. RetryIo(w, i) = IoPathCrash(w, "freed path")
    BY <1>1 DEF RetryIo
  <2> QED BY <2>1, CrashKeeps
<1>2. CASE ~Freed(w, i)
  <2>1. v = SubmitOn(u, i, p) \/ v = SubmitIo(u, i)
    BY <1>2, Zenon DEF RetryIo, TakenOff
  <2>2. p \in NvmePaths \cup {NoIoPath}
    BY NpParts DEF NpIos, NpInv
  <2>3. u \in NpStates /\ CacheSound(u) /\ u.io[i].st # "free"
    BY TakenOffFacts
  <2> HIDE DEF u, p, v
  <2>4. Settled(v, u, i)
    BY <2>1, <2>2, <2>3, SubmitOnFacts, SubmitFacts
  <2> QED BY <2>4, TakenOffKeeps DEF u, v
<1> QED BY <1>1, <1>2

(* The retries of the poller, one after the other. *)
After(f, w, n) ==
    f = [k \in 0 .. n |-> IF k = 0 THEN w ELSE RetryIo(f[k - 1], w.ch.retry[k])]

(* What the poller has retried is what such a function gives. *)
LEMMA RetriedIsAfter ==
    ASSUME NEW w, NEW n
    PROVE  Retried(w, n) = (CHOOSE f : After(f, w, n))[n]
  BY Zenon DEF Retried, After

(* There is such a function. *)
LEMMA AfterExists ==
    ASSUME NEW w, NEW n \in Nat
    PROVE  \E f : After(f, w, n)
<1> DEFINE Bad == {k \in Nat : ~\E f : After(f, w, k)}
<1> SUFFICES ASSUME Bad # {} PROVE FALSE
  OBVIOUS
<1>1. PICK m \in Bad : \A k \in Bad : m <= k
  <2>1. Bad \subseteq Nat
    OBVIOUS
  <2> HIDE DEF Bad
  <2> QED BY <2>1, LeastNumber
<1>2. CASE m = 0
  <2> DEFINE f == [k \in 0 .. 0 |-> w]
  <2>1. f = [k \in 0 .. 0 |-> IF k = 0 THEN w ELSE RetryIo(f[k - 1], w.ch.retry[k])]
    OBVIOUS
  <2>2. After(f, w, 0)
    BY <2>1 DEF After
  <2> QED BY <1>1, <1>2, <2>2
<1>3. CASE m > 0
  <2>1. m - 1 \in Nat /\ m - 1 \notin Bad
    BY <1>1, <1>3
  <2>2. PICK f : After(f, w, m - 1)
    BY <2>1
  <2> DEFINE g == [k \in 0 .. m |-> IF k = m THEN RetryIo(f[m - 1], w.ch.retry[m]) ELSE f[k]]
  <2>3. \A k \in 0 .. m - 1 : f[k] = IF k = 0 THEN w ELSE RetryIo(f[k - 1], w.ch.retry[k])
    BY <2>2 DEF After
  <2>4. \A k \in 0 .. m - 1 : g[k] = f[k]
    BY <1>1, <1>3
  <2>5. g[m] = RetryIo(g[m - 1], w.ch.retry[m])
    BY <1>3, <2>1, <2>4
  <2>6. ASSUME NEW k \in 0 .. m PROVE g[k] = IF k = 0 THEN w ELSE RetryIo(g[k - 1], w.ch.retry[k])
    <3>1. CASE k = m
      BY <1>3, <2>5, <3>1
    <3>2. CASE k # m /\ k # 0
      <4>1. k \in 0 .. m - 1 /\ k - 1 \in 0 .. m - 1 BY <1>3, <2>1, <3>2
      <4> QED BY <2>3, <2>4, <3>2, <4>1
    <3>3. CASE k = 0
      <4>1. 0 \in 0 .. m - 1 BY <2>1
      <4> QED BY <2>3, <2>4, <3>3, <4>1
    <3> QED BY <3>1, <3>2, <3>3
  <2>7. g = [k \in 0 .. m |-> g[k]]
    OBVIOUS
  <2> HIDE DEF g
  <2>8. g = [k \in 0 .. m |-> IF k = 0 THEN w ELSE RetryIo(g[k - 1], w.ch.retry[k])]
    BY <2>6, <2>7
  <2>9. After(g, w, m)
    BY <2>8 DEF After
  <2> QED BY <1>1, <2>9
<1> QED BY <1>1, <1>2, <1>3

(* They keep the invariant: every I/O that is retried still waits when its
   turn comes, for the ones in front of it leave it alone. *)
LEMMA RetriedKeeps ==
    ASSUME NEW w, NpInv(w), NEW n \in 0 .. Len(w.ch.retry)
    PROVE  NpInv(Retried(w, n))
<1> DEFINE s == w.ch.retry
           f == CHOOSE f : After(f, w, n)
           Kept(k) == NpInv(f[k]) /\ \A j \in k + 1 .. Len(s) : f[k].io[s[j]] = w.io[s[j]]
           Bad == {k \in 0 .. n : ~Kept(k)}
<1>1. /\ Len(s) \in Nat /\ DOMAIN s = 1 .. Len(s)
      /\ \A k \in 1 .. Len(s) : s[k] \in NvmeIos /\ s[k] \in ToSet(s)
  BY RetryParts DEF NpInv
<1>2. IsInjective(s) /\ \A k \in 1 .. Len(s) : w.io[s[k]].st = "retry"
  BY <1>1 DEF NpInv, RetrySound
<1>3. After(f, w, n)
  BY <1>1, AfterExists
<1>4. Retried(w, n) = f[n]
  BY RetriedIsAfter, Zenon
<1> HIDE DEF f, s
<1>5. \A k \in 0 .. n : f[k] = IF k = 0 THEN w ELSE RetryIo(f[k - 1], s[k])
  BY <1>3 DEF After, s
<1>6. n \in 0 .. Len(s)
  BY DEF s
<1>7. ASSUME Bad # {} PROVE FALSE
  <2>1. PICK k \in Bad : \A j \in Bad : k <= j
    <3>1. Bad \subseteq Nat BY <1>1, <1>6
    <3> HIDE DEF Bad
    <3> QED BY <1>7, <3>1, LeastNumber
  <2>2. k \in 0 .. n /\ ~Kept(k)
    BY <2>1
  <2>3. CASE k = 0
    <3>1. f[0] = w BY <1>1, <1>5, <1>6
    <3> QED BY <2>2, <2>3, <3>1
  <2>4. CASE k # 0
    <3>1. k \in 1 .. Len(s) /\ k - 1 \in 0 .. n BY <1>1, <1>6, <2>2, <2>4
    <3>2. Kept(k - 1) BY <1>1, <1>6, <2>1, <3>1
    <3> DEFINE u == f[k - 1]
               i == s[k]
    <3>3. NpInv(u) /\ \A j \in k .. Len(s) : u.io[s[j]] = w.io[s[j]] BY <3>1, <3>2
    <3>4. f[k] = RetryIo(u, i) BY <1>5, <2>2, <2>4
    <3>5. i \in NvmeIos /\ u.io[i].st = "retry"
      <4>1. k \in k .. Len(s) BY <1>1, <3>1
      <4> QED BY <1>1, <1>2, <3>1, <3>3, <4>1
    <3> HIDE DEF u
    <3>6. NpInv(f[k]) /\ \A j \in NvmeIos \ {i} : f[k].io[j] = u.io[j]
      BY <3>3, <3>4, <3>5, RetryIoKeeps
    <3>7. ASSUME NEW j \in k + 1 .. Len(s) PROVE f[k].io[s[j]] = w.io[s[j]]
      <4>1. j \in 1 .. Len(s) /\ j \in k .. Len(s) /\ j # k BY <1>1, <3>1
      <4>2. s[j] \in NvmeIos \ {i} BY <1>1, <1>2, <3>1, <4>1 DEF IsInjective
      <4> QED BY <3>3, <3>6, <4>1, <4>2
    <3> QED BY <2>2, <3>6, <3>7
  <2> QED BY <2>3, <2>4
<1>8. n \in 0 .. n
  BY <1>1, <1>6
<1>9. Kept(n)
  BY <1>7, <1>8
<1> QED BY <1>4, <1>9

(* The poller is set for the head. *)
LEMMA RearmKeeps ==
    ASSUME NEW w, NpInv(w)
    PROVE  NpInv(Rearm(w))
<1> DEFINE poll == IF w.ch.retry = <<>> THEN -1 ELSE w.io[Head(w.ch.retry)].at
           c == [w.ch EXCEPT !.poll = poll]
           v == [w EXCEPT !.ch = c]
<1>0. w \in NpStates /\ w.ch \in NpChannels
  BY NpParts DEF NpInv
<1>1. Rearm(w) = v
  BY <1>0 DEF Rearm, NpStates
<1>2. poll \in -1 .. MaxTicks + 1 /\ (w.ch.retry # <<>> => poll >= 0 /\ poll <= w.io[w.ch.retry[1]].at)
  <2>1. CASE w.ch.retry = <<>>
    BY <2>1, IoPathAssumption
  <2>2. CASE w.ch.retry # <<>>
    <3>1. Len(w.ch.retry) \in Nat \ {0} /\ Head(w.ch.retry) = w.ch.retry[1]
      BY <1>0, <2>2, RetryParts, EmptySeq
    <3>2. w.ch.retry[1] \in NvmeIos BY <1>0, <3>1, RetryParts
    <3>3. w.io[w.ch.retry[1]].at \in 0 .. MaxTicks + 1 BY <1>0, <3>2, NpParts DEF NpIos
    <3> QED BY <2>2, <3>1, <3>3, IoPathAssumption
  <2> QED BY <2>1, <2>2
<1> HIDE DEF poll
<1>3. /\ c \in NpChannels /\ c.poll = poll /\ c.list = w.ch.list /\ c.cur = w.ch.cur /\ c.policy = w.ch.policy
      /\ c.retry = w.ch.retry
  BY <1>0, <1>2 DEF NpChannels
<1> HIDE DEF c
<1>4. OutsideChannel(v, w) /\ v.ch = c
  BY <1>0, <1>3, SetChannel
<1> HIDE DEF v
<1>5. RetrySound(v)
  BY <1>2, <1>3, <1>4 DEF NpInv, RetrySound, OutsideChannel
<1>6. CacheSound(v)
  BY <1>3, <1>4, CacheKept DEF NpInv, OutsideChannel
<1>7. IosSound(v) /\ ListSound(v) /\ CrashSound(v)
  BY <1>3, <1>4 DEF NpInv, IosSound, ListSound, CrashSound, OutsideChannel
<1> QED BY <1>1, <1>4, <1>5, <1>6, <1>7 DEF NpInv, OutsideChannel

---------------------------------------------------------------------------
(* The steps of an I/O *)

(* The parts of an I/O. *)
LEMMA IoParts ==
    ASSUME NEW w, NpInv(w), NEW i \in NvmeIos
    PROVE  /\ w.io[i] \in NpIos /\ w.io[i].st \in {"free", "buf", "out", "verify", "retry"}
           /\ (w.io[i].st # "free" => w.io[i].path \in NvmePaths)
<1>1. w.io[i] \in NpIos
  BY NpParts DEF NpInv
<1> QED BY <1>1 DEF NpInv, IosSound, NpIos

(* An I/O is set, and does not wait for a retry. *)
LEMMA SetIoKeeps ==
    ASSUME NEW w, NpInv(w), NEW i \in NvmeIos, w.io[i].st # "retry", NEW x \in NpIos,
           x.st \in {"free", "buf", "out", "verify"}, x.st # "free" => x.path \in NvmePaths
    PROVE  NpInv([w EXCEPT !.io[i] = x]) /\ [w EXCEPT !.io[i] = x].io[i] = x
<1>1. w \in NpStates /\ CacheSound(w)
  BY DEF NpInv
<1>2. Settled([w EXCEPT !.io[i] = x], w, i) /\ [w EXCEPT !.io[i] = x].io[i] = x
  BY <1>1, SetSettled, SetIo
<1> QED BY <1>2, SettledKeeps

(* The upper layer submits an I/O, which may wait for a buffer. *)
LEMMA IoSubmitSound ==
    ASSUME NpInv(np), NEW i \in NvmeIos, IoSubmit(i)
    PROVE  NpInv(np')
<1> DEFINE u == IoPathSpend(np, "ios")
<1>1. np.left["ios"] > 0 /\ np.io[i].st = "free"
  BY DEF IoSubmit
<1>2. NpInv(u) /\ u.io[i].st = "free"
  BY <1>1, SpendKeeps DEF SameButLeft
<1> DEFINE new == [FreeIo EXCEPT !.st = "new"]
           n == [u EXCEPT !.io[i] = new]
           f == FindIoPath(u)
<1>3. np' = SubmitIo(n, i) \/ (f.p # NoIoPath /\ np' = WaitForBuffer(f, i))
  BY DEF IoSubmit
<1>4. new \in NpIos /\ new.st = "new"
  BY FreeIoType DEF FreeIo, NpIos
<1> HIDE DEF u, new
<1>5. u \in NpStates /\ CacheSound(u)
  BY <1>2 DEF NpInv
<1>6. CASE np' = SubmitIo(n, i)
  <2>1. Stays(n, u, i) /\ n.io[i] = new /\ n.ch = u.ch /\ n.stale = u.stale
    BY <1>4, <1>5, SetIo
  <2> HIDE DEF n
  <2>2. n \in NpStates /\ CacheSound(n) /\ n.io[i].st # "free"
    BY <1>4, <1>5, <2>1, CacheKept DEF Stays
  <2>3. Settled(np', n, i)
    BY <1>6, <2>2, SubmitFacts
  <2>4. Settled(np', u, i)
    BY <2>1, <2>3 DEF Settled, Stays
  <2> QED BY <1>2, <2>4, SettledKeeps
<1>7. CASE f.p # NoIoPath /\ np' = WaitForBuffer(f, i)
  <2>1. Found(f, u)
    BY <1>5, FindFacts
  <2> HIDE DEF f
  <2> DEFINE x == [FreeIo EXCEPT !.st = "buf", !.path = f.p, !.gen = f.w.path[f.p].gen]
  <2>2. np' = [f.w EXCEPT !.io[i] = x]
    BY <1>7 DEF WaitForBuffer
  <2>3. NpInv(f.w) /\ f.w.io[i].st # "retry"
    BY <1>2, <2>1, RecachedKeeps DEF Found, Recached, OutsideChannel
  <2>4. f.p \in NvmePaths /\ f.w.path[f.p].gen \in Nat
    BY <1>7, <2>1, <2>3, NpParts DEF Found, NpPaths, NpInv
  <2>5. x \in NpIos /\ x.st = "buf" /\ x.path = f.p
    BY <2>4, FreeIoType DEF FreeIo, NpIos
  <2> HIDE DEF x
  <2> QED BY <2>2, <2>3, <2>4, <2>5, SetIoKeeps
<1> QED BY <1>3, <1>6, <1>7

(* The state of an I/O changes. *)
LEMMA SetStKeeps ==
    ASSUME NEW w, NpInv(w), NEW i \in NvmeIos, w.io[i].st \in {"buf", "out", "verify"},
           NEW st \in {"out", "verify"}
    PROVE  NpInv([w EXCEPT !.io[i].st = st])
<1> DEFINE x == [w.io[i] EXCEPT !.st = st]
<1>1. w.io[i] \in NpIos /\ w.io[i].path \in NvmePaths
  BY IoParts
<1>2. x \in NpIos /\ x.st = st /\ x.path \in NvmePaths
  BY <1>1 DEF NpIos
<1>3. [w EXCEPT !.io[i].st = st] = [w EXCEPT !.io[i] = x]
  BY DEF NpInv, NpStates
<1> HIDE DEF x
<1> QED BY <1>2, <1>3, SetIoKeeps

(* The buffer comes, or there is none. *)
LEMMA GotBufferSound ==
    ASSUME NpInv(np), NEW i \in NvmeIos, GotBuffer(i)
    PROVE  NpInv(np')
<1>1. np.io[i].st = "buf"
  BY DEF GotBuffer
<1>2. \/ np' = AnswerIo(np, i) \/ np' = IoPathCrash(np, "freed path") \/ np' = NoPathForIo(np, i)
      \/ np' = [np EXCEPT !.io[i].st = "out"]
  BY Zenon DEF GotBuffer
<1>3. NpInv([np EXCEPT !.io[i].st = "out"])
  BY <1>1, SetStKeeps
<1>4. NpInv(AnswerIo(np, i)) /\ NpInv(NoPathForIo(np, i))
  BY <1>1, AnswerKeeps, NoPathKeeps
<1>5. NpInv(IoPathCrash(np, "freed path"))
  BY CrashKeeps
<1> QED BY <1>2, <1>3, <1>4, <1>5

(* The same but for the paths. *)
OutsidePaths(v, w) ==
    /\ v.ch = w.ch /\ v.io = w.io /\ v.now = w.now /\ v.left = w.left /\ v.crash = w.crash /\ v.seen = w.seen
    /\ v.stale = w.stale

(* A path is set, and nothing else changes. *)
LEMMA SetPath ==
    ASSUME NEW w \in NpStates, NEW p \in NvmePaths, NEW x \in NpPaths
    PROVE  /\ [w EXCEPT !.path[p] = x] \in NpStates /\ [w EXCEPT !.path[p] = x].path[p] = x
           /\ \A q \in NvmePaths \ {p} : [w EXCEPT !.path[p] = x].path[q] = w.path[q]
           /\ OutsidePaths([w EXCEPT !.path[p] = x], w)
<1> DEFINE f == [w.path EXCEPT ![p] = x]
<1>1. f \in [NvmePaths -> NpPaths] /\ f[p] = x /\ \A q \in NvmePaths \ {p} : f[q] = w.path[q]
  BY NpParts
<1>2. [w EXCEPT !.path[p] = x] = [w EXCEPT !.path = f]
  BY DEF NpStates
<1> HIDE DEF f
<1> DEFINE v == [w EXCEPT !.path = f]
<1>3. v \in NpStates /\ v.path = f /\ OutsidePaths(v, w)
  BY <1>1 DEF NpStates, OutsidePaths
<1> HIDE DEF v
<1>4. v \in NpStates /\ v.path[p] = x /\ (\A q \in NvmePaths \ {p} : v.path[q] = w.path[q]) /\ OutsidePaths(v, w)
  BY <1>1, <1>3
<1> QED BY <1>2, <1>4 DEF v

(* A path changes, but neither whether it is the bdev's nor its qpair nor
   its ANA state, and no walk that has yet to come. *)
LEMMA SetPathKeeps ==
    ASSUME NEW w, NpInv(w), NEW p \in NvmePaths, NEW x \in NpPaths, x.in = w.path[p].in, x.qp = w.path[p].qp,
           x.ana = w.path[p].ana, w.path[p].walk = "before" => x.walk = "before"
    PROVE  NpInv([w EXCEPT !.path[p] = x]) /\ OutsidePaths([w EXCEPT !.path[p] = x], w)
<1> DEFINE v == [w EXCEPT !.path[p] = x]
<1>0. w \in NpStates
  BY DEF NpInv
<1>1. v \in NpStates /\ v.path[p] = x /\ (\A q \in NvmePaths \ {p} : v.path[q] = w.path[q]) /\ OutsidePaths(v, w)
  BY <1>0, SetPath
<1> HIDE DEF v
<1>2. \A q \in NvmePaths : /\ v.path[q].in = w.path[q].in /\ v.path[q].qp = w.path[q].qp
                           /\ v.path[q].ana = w.path[q].ana
                           /\ w.path[q].walk = "before" => v.path[q].walk = "before"
  BY <1>1
<1>3. v.ch.cur \in NvmePaths \cup {NoIoPath} /\ \A q \in ToSet(v.ch.list) : q \in NvmePaths
  BY <1>1, ChannelParts, LenProperties, ElementOfSeq DEF ToSet
<1>4. CacheSound(v)
  BY <1>1, <1>2, <1>3 DEF NpInv, CacheSound, Connected, OutsidePaths
<1>5. ListSound(v)
  BY <1>1, <1>2, <1>3 DEF NpInv, ListSound, OutsidePaths
<1>6. IosSound(v) /\ RetrySound(v) /\ CrashSound(v)
  BY <1>1 DEF NpInv, IosSound, RetrySound, CrashSound, OutsidePaths
<1> QED BY <1>1, <1>4, <1>5, <1>6 DEF NpInv, v

(* nvme_ctrlr_read_ana_log_page. *)
LEMMA ReadAnaKeeps ==
    ASSUME NEW w, NpInv(w), NEW p \in NvmePaths, NEW mark \in BOOLEAN
    PROVE  NpInv(ReadAna(w, p, mark)) /\ ReadAna(w, p, mark).io = w.io
<1>1. CASE CtrlrAvailable(w, p) /\ ~w.path[p].reading
  <2> DEFINE up == w.path[p].updating \/ mark
             x == [w.path[p] EXCEPT !.reading = TRUE, !.updating = up]
  <2>1. w.path[p] \in NpPaths
    BY NpParts DEF NpInv
  <2>2. ReadAna(w, p, mark) = [w EXCEPT !.path[p] = x]
    BY <1>1 DEF ReadAna, NpInv, NpStates
  <2>3. up \in BOOLEAN
    BY <2>1 DEF NpPaths
  <2> HIDE DEF up
  <2>4. /\ x \in NpPaths /\ x.in = w.path[p].in /\ x.qp = w.path[p].qp /\ x.ana = w.path[p].ana
        /\ x.walk = w.path[p].walk
    BY <2>1, <2>3 DEF NpPaths
  <2> HIDE DEF x
  <2> QED BY <2>2, <2>4, SetPathKeeps DEF OutsidePaths
<1>2. CASE ~(CtrlrAvailable(w, p) /\ ~w.path[p].reading)
  BY <1>2 DEF ReadAna
<1> QED BY <1>1, <1>2

(* An I/O failed. *)
LEMMA IoFailedKeeps ==
    ASSUME NEW w, NpInv(w), NEW i \in NvmeIos, w.io[i].st \in {"out", "verify"},
           NEW why, NEW delay \in 0 .. 1
    PROVE  NpInv(IoFailed(w, i, why, delay))
<1> DEFINE p == w.io[i].path
           given == why = "final" \/ w.io[i].tries >= NvmeRetries
           u == ClearOfIo(w)
           n == [w EXCEPT !.io[i] = [w.io[i] EXCEPT !.tries = @ + 1, !.abort = FALSE]]
           v == IoFailed(w, i, why, delay)
<1>1. \/ v = AnswerIo(w, i) \/ v = AnswerIo(ReadAna(u, p, TRUE), i) \/ v = AnswerIo(u, i)
      \/ (~given /\ v = QueueRetry(n, i, delay))
  BY Zenon DEF IoFailed
<1>2. w.io[i] \in NpIos /\ p \in NvmePaths
  BY IoParts
<1>3. NpInv(u) /\ u.io = w.io
  BY ClearOfIoKeeps DEF Recached, OutsideChannel
<1> HIDE DEF u
<1>4. NpInv(AnswerIo(w, i)) /\ NpInv(AnswerIo(u, i))
  BY <1>3, AnswerKeeps
<1>5. NpInv(AnswerIo(ReadAna(u, p, TRUE), i))
  <2>1. NpInv(ReadAna(u, p, TRUE)) /\ ReadAna(u, p, TRUE).io = w.io
    BY <1>2, <1>3, ReadAnaKeeps
  <2> QED BY <2>1, AnswerKeeps
<1>6. ASSUME ~given PROVE NpInv(QueueRetry(n, i, delay))
  <2> DEFINE t == w.io[i].tries + 1
             x == [w.io[i] EXCEPT !.tries = t, !.abort = FALSE]
  <2>1. t \in 0 .. NvmeRetries
    BY <1>2, <1>6, IoPathAssumption DEF NpIos
  <2>2. n = [w EXCEPT !.io[i] = x]
    BY DEF NpInv, NpStates
  <2> HIDE DEF t
  <2>3. x \in NpIos /\ x.st = w.io[i].st /\ x.path = p
    BY <1>2, <2>1 DEF NpIos
  <2> HIDE DEF x, n
  <2>4. NpInv(n) /\ n.io[i] = x
    BY <1>2, <2>2, <2>3, SetIoKeeps
  <2> QED BY <2>3, <2>4, QueueRetryKeeps
<1> QED BY <1>1, <1>4, <1>5, <1>6

(* The driver completes an I/O. *)
LEMMA IoDoneSound ==
    ASSUME NpInv(np), NEW i \in NvmeIos, IoDone(i)
    PROVE  NpInv(np')
<1> DEFINE w == IoPathSpend(np, "faults")
<1>1. np.io[i].st \in {"out", "verify"}
  BY DEF IoDone
<1>2. \/ np' = IoPathCrash(np, "freed path") \/ np' = AnswerIo(np, i) \/ np' = IoFailed(np, i, "path", 0)
      \/ np' = IoFailed(np, i, "other", 0) \/ np' = IoFailed(np, i, "final", 0)
      \/ /\ np.left["faults"] > 0
         /\ \/ \E why \in {"final", "path", "ana"} : np' = IoFailed(w, i, why, 0)
            \/ \E delay \in 0 .. 1 : np' = IoFailed(w, i, "other", delay)
            \/ np' = ReadAgain(w, i)
  BY DEF IoDone
<1>3. np.left["faults"] > 0 => NpInv(w) /\ w.io = np.io
  BY SpendKeeps DEF SameButLeft
<1> HIDE DEF w
<1>4. NpInv(IoPathCrash(np, "freed path")) /\ NpInv(AnswerIo(np, i))
  BY <1>1, CrashKeeps, AnswerKeeps
<1>5. 0 \in 0 .. 1
  OBVIOUS
<1>6. \A why \in {"path", "other", "final"} : NpInv(IoFailed(np, i, why, 0))
  BY <1>1, <1>5, IoFailedKeeps
<1>7. ASSUME np.left["faults"] > 0 PROVE \A why : \A delay \in 0 .. 1 : NpInv(IoFailed(w, i, why, delay))
  BY <1>1, <1>3, <1>7, IoFailedKeeps
<1>8. ASSUME np.left["faults"] > 0 PROVE NpInv(ReadAgain(w, i))
  <2>1. NpInv([w EXCEPT !.io[i].st = "verify"])
    BY <1>1, <1>3, <1>8, SetStKeeps
  <2> QED BY <1>5, <1>7, <1>8, <2>1 DEF ReadAgain
<1> QED BY <1>2, <1>4, <1>5, <1>6, <1>7, <1>8

(* bdev_nvme_abort. *)
LEMMA IoAbortSound ==
    ASSUME NpInv(np), NEW i \in NvmeIos, IoAbort(i)
    PROVE  NpInv(np')
<1> DEFINE w == IoPathSpend(np, "aborts")
           a == [w EXCEPT !.io[i].abort = TRUE]
<1>1. np.left["aborts"] > 0 /\ np.io[i].st \in {"out", "verify", "retry"}
  BY DEF IoAbort
<1>2. NpInv(w) /\ w.io = np.io
  BY <1>1, SpendKeeps DEF SameButLeft
<1>3. \/ np.io[i].st = "retry" /\ np' = AnswerIo(TakenOff(w, i), i)
      \/ np.io[i].st # "retry" /\ np' \in {w, a}
  BY DEF IoAbort, TakenOff
<1> HIDE DEF w
<1>4. CASE np.io[i].st = "retry" /\ np' = AnswerIo(TakenOff(w, i), i)
  <2> DEFINE u == TakenOff(w, i)
  <2>1. u \in NpStates /\ CacheSound(u) /\ u.io = w.io
    BY <1>2, <1>4, TakenOffFacts
  <2> HIDE DEF u
  <2>2. Settled(np', u, i)
    BY <1>2, <1>4, <2>1, AnsweredFacts DEF u
  <2> QED BY <1>2, <1>4, <2>2, TakenOffKeeps DEF u
<1>5. CASE np.io[i].st # "retry" /\ np' \in {w, a}
  <2> DEFINE x == [w.io[i] EXCEPT !.abort = TRUE]
  <2>1. w.io[i] \in NpIos /\ w.io[i].path \in NvmePaths /\ w.io[i].st \in {"out", "verify"}
    BY <1>1, <1>2, <1>5, IoParts
  <2>2. x \in NpIos /\ x.st = w.io[i].st /\ x.path \in NvmePaths
    BY <2>1 DEF NpIos
  <2>3. a = [w EXCEPT !.io[i] = x]
    BY <1>2 DEF NpInv, NpStates
  <2> HIDE DEF x, a
  <2>4. NpInv(a)
    BY <1>2, <2>1, <2>2, <2>3, SetIoKeeps
  <2> QED BY <1>2, <1>5, <2>4
<1> QED BY <1>3, <1>4, <1>5

(* The poller retries what is due. *)
LEMMA RetryPollSound ==
    ASSUME NpInv(np), RetryPoll
    PROVE  NpInv(np')
<1> DEFINE S == Due(np) \cup {0}
           n == Max(S)
<1>1. Len(np.ch.retry) \in Nat /\ DOMAIN np.ch.retry = 1 .. Len(np.ch.retry)
  BY RetryParts DEF NpInv
<1>2. S \subseteq 0 .. Len(np.ch.retry) /\ S # {}
  BY <1>1 DEF Due
<1>3. np' = Rearm(Retried(np, n))
  BY DEF RetryPoll
<1> HIDE DEF S
<1>4. n \in 0 .. Len(np.ch.retry)
  BY <1>1, <1>2, MaxIsElement
<1> HIDE DEF n
<1> QED BY <1>3, <1>4, RetriedKeeps, RearmKeeps

---------------------------------------------------------------------------
(* The steps of the paths *)

(* An element is taken from a list, or put in front of it or behind it. *)
LEMMA RemovedFacts ==
    ASSUME NEW S, NEW s \in Seq(S), NEW e, IsInjective(s)
    PROVE  /\ RemoveFirst(s, e) \in Seq(S) /\ IsInjective(RemoveFirst(s, e))
           /\ ToSet(RemoveFirst(s, e)) = ToSet(s) \ {e}
<1>1. CASE \E i \in 1 .. Len(s) : s[i] = e
  <2> DEFINE t == RemoveFirst(s, e)
  <2>1. t \in Seq(S) /\ Shortened(t, s, e)
    BY <1>1, RemoveShortens
  <2> HIDE DEF t
  <2>2. IsInjective(t) /\ ToSet(t) = ToSet(s) \ {e}
    BY <2>1, ShortenedElements
  <2> QED BY <2>1, <2>2 DEF t
<1>2. CASE ~\E i \in 1 .. Len(s) : s[i] = e
  <2>1. RemoveFirst(s, e) = s
    BY <1>2 DEF RemoveFirst
  <2>2. e \notin ToSet(s)
    BY <1>2, LenProperties DEF ToSet
  <2> QED BY <2>1, <2>2
<1> QED BY <1>1, <1>2

(* Behind a list. *)
LEMMA AppendedFacts ==
    ASSUME NEW S, NEW s \in Seq(S), NEW e \in S, IsInjective(s), e \notin ToSet(s)
    PROVE  /\ Append(s, e) \in Seq(S) /\ IsInjective(Append(s, e)) /\ ToSet(Append(s, e)) = ToSet(s) \cup {e}
<1> DEFINE t == Append(s, e)
           place == Len(s) + 1
<1>1. /\ t \in Seq(S) /\ Len(t) = Len(s) + 1 /\ Len(s) \in Nat
      /\ \A i \in 1 .. Len(s) : t[i] = s[i]
      /\ t[Len(s) + 1] = e
  BY AppendProperties, LenProperties
<1> HIDE DEF t
<1>2. place \in 1 .. Len(s) + 1 /\ Lengthened(t, s, place, e)
  BY <1>1 DEF Lengthened
<1> HIDE DEF place
<1>3. IsInjective(t) /\ ToSet(t) = ToSet(s) \cup {e}
  BY <1>1, <1>2, LengthenedElements
<1> QED BY <1>1, <1>3 DEF t

(* In front of it. *)
LEMMA PrefixedFacts ==
    ASSUME NEW S, NEW s \in Seq(S), NEW e \in S, IsInjective(s), e \notin ToSet(s)
    PROVE  /\ <<e>> \o s \in Seq(S) /\ IsInjective(<<e>> \o s) /\ ToSet(<<e>> \o s) = ToSet(s) \cup {e}
<1> DEFINE a == <<e>>
           t == a \o s
<1>1. a \in Seq(S) /\ Len(a) = 1 /\ a[1] = e /\ Len(s) \in Nat
  BY LenProperties
<1> HIDE DEF a
<1>2. /\ t \in Seq(S) /\ Len(t) = Len(a) + Len(s)
      /\ \A i \in 1 .. Len(a) + Len(s) : t[i] = IF i <= Len(a) THEN a[i] ELSE s[i - Len(a)]
  BY <1>1, ConcatProperties
<1> HIDE DEF t
<1>3. Lengthened(t, s, 1, e)
  <2>1. Len(t) = Len(s) + 1
    BY <1>1, <1>2
  <2>2. ASSUME NEW j \in 1 .. Len(t) PROVE t[j] = IF j < 1 THEN s[j] ELSE IF j = 1 THEN e ELSE s[j - 1]
    <3>1. CASE j = 1
      BY <1>1, <1>2, <3>1
    <3>2. CASE j > 1
      BY <1>1, <1>2, <2>1, <3>2
    <3> QED BY <1>1, <2>1, <3>1, <3>2
  <2> QED BY <2>1, <2>2 DEF Lengthened
<1>4. 1 \in 1 .. Len(s) + 1
  BY <1>1
<1>5. IsInjective(t) /\ ToSet(t) = ToSet(s) \cup {e}
  BY <1>2, <1>3, <1>4, LengthenedElements
<1> QED BY <1>2, <1>5 DEF t, a

(* What a change of paths, of the list or of the cache has to keep. *)
SameIos(v, w) ==
    /\ v \in NpStates /\ v.io = w.io /\ v.ch.retry = w.ch.retry /\ v.ch.poll = w.ch.poll /\ v.crash = w.crash
    /\ v.left.wrapped = w.left.wrapped

(* The I/Os are the same, and the list and the cache are sound. *)
LEMMA PathsKeep ==
    ASSUME NEW w, NpInv(w), NEW v, SameIos(v, w), ListSound(v), CacheSound(v)
    PROVE  NpInv(v)
<1>1. IosSound(v) /\ RetrySound(v) /\ CrashSound(v)
  BY DEF NpInv, SameIos, IosSound, RetrySound, CrashSound
<1> QED BY <1>1 DEF NpInv, SameIos

(* The I/Os are the same, the list is sound, and the cache is cleared. *)
LEMMA ClearedKeeps ==
    ASSUME NEW w, NpInv(w), NEW n, SameIos(n, w), n.stale = w.stale, ListSound(n)
    PROVE  NpInv(ClearCurrent(n))
<1> DEFINE v == ClearCurrent(n)
<1>1. Recached(v, n) /\ v.ch.cur = NoIoPath
  BY ClearFacts DEF SameIos
<1> HIDE DEF v
<1>2. SameIos(v, w) /\ v.stale = w.stale
  BY <1>1 DEF SameIos, Recached, OutsideChannel
<1>3. ListSound(v)
  BY <1>1 DEF ListSound, Recached, OutsideChannel
<1>4. CacheSound(v)
  <2>1. v.left.wrapped \/ v.stale = 0 \/ v.stale = 1
    BY <1>2 DEF NpInv, CacheSound, SameIos
  <2> QED BY <1>1, <2>1, ClearedSound
<1> QED BY <1>2, <1>3, <1>4, PathsKeep DEF v

(* A path is set. *)
LEMMA PathParts ==
    ASSUME NEW w, NpInv(w), NEW p \in NvmePaths
    PROVE  w \in NpStates /\ w.path[p] \in NpPaths
  BY NpParts DEF NpInv

(* The list, and the cached path. *)
LEMMA ListParts ==
    ASSUME NEW w, NpInv(w)
    PROVE  /\ w.ch.list \in Seq(NvmePaths) /\ IsInjective(w.ch.list) /\ ToSet(w.ch.list) \subseteq NvmePaths
           /\ w.ch.cur \in NvmePaths \cup {NoIoPath}
<1>1. w.ch.list \in Seq(NvmePaths) /\ w.ch.cur \in NvmePaths \cup {NoIoPath}
  BY ChannelParts DEF NpInv
<1>2. ToSet(w.ch.list) \subseteq NvmePaths
  BY <1>1, LenProperties, ElementOfSeq DEF ToSet
<1> QED BY <1>1, <1>2 DEF NpInv, ListSound

(* A path is set that is in the list exactly if it was. *)
LEMMA PathChanged ==
    ASSUME NEW w, NpInv(w), NEW p \in NvmePaths, NEW x \in NpPaths, x.in = w.path[p].in
    PROVE  LET v == [w EXCEPT !.path[p] = x]
           IN  /\ SameIos(v, w) /\ v.stale = w.stale /\ ListSound(v)
               /\ v.path[p] = x /\ (\A q \in NvmePaths \ {p} : v.path[q] = w.path[q]) /\ OutsidePaths(v, w)
<1> DEFINE v == [w EXCEPT !.path[p] = x]
<1>1. /\ v \in NpStates /\ v.path[p] = x /\ (\A q \in NvmePaths \ {p} : v.path[q] = w.path[q])
      /\ OutsidePaths(v, w)
  BY PathParts, SetPath
<1> HIDE DEF v
<1>2. \A q \in NvmePaths : v.path[q].in = w.path[q].in
  BY <1>1
<1>3. ListSound(v)
  BY <1>1, <1>2, ListParts DEF NpInv, ListSound, OutsidePaths
<1>4. SameIos(v, w) /\ v.stale = w.stale
  BY <1>1 DEF SameIos, OutsidePaths
<1> QED BY <1>1, <1>3, <1>4 DEF v

(* The cache does not look at a path that is not cached. *)
LEMMA OtherCached ==
    ASSUME NEW w, NpInv(w), NEW p \in NvmePaths, NEW v, w.ch.cur # p,
           \A q \in NvmePaths \ {p} : v.path[q] = w.path[q], OutsidePaths(v, w)
    PROVE  CacheSound(v)
<1>1. w.ch.cur = NoIoPath \/ v.path[w.ch.cur] = w.path[w.ch.cur]
  BY ListParts
<1> QED BY <1>1 DEF NpInv, CacheSound, Connected, OutsidePaths

(* The qpair is lost, or a reset begins. *)
LEMMA PathLostSound ==
    ASSUME NpInv(np), NEW p \in NvmePaths, PathLost(p)
    PROVE  NpInv(np')
<1> DEFINE u == IoPathSpend(np, "losses")
           x == [u.path[p] EXCEPT !.qp = "lost"]
           y == [u.path[p] EXCEPT !.qp = "lost", !.ctrlr = "resetting"]
           w == [u EXCEPT !.path[p] = x]
           n == [u EXCEPT !.path[p] = y]
<1>1. np.left["losses"] > 0
  BY DEF PathLost
<1>2. NpInv(u)
  BY <1>1, SpendKeeps
<1>3. u \in NpStates /\ u.path[p] \in NpPaths
  BY <1>2, PathParts
<1> DEFINE lost == [u EXCEPT !.path[p].qp = "lost"]
           reset == [lost EXCEPT !.path[p].ctrlr = "resetting"]
<1>8. np' = [lost EXCEPT !.stale = 0] \/ np' = ClearCurrent(reset)
  BY Zenon DEF PathLost
<1> HIDE DEF u
<1>9. lost = w /\ reset = n
  BY <1>3 DEF NpStates, NpPaths
<1>4. np' = [w EXCEPT !.stale = 0] \/ np' = ClearCurrent(n)
  BY <1>8, <1>9, Zenon
<1>5. x \in NpPaths /\ x.in = u.path[p].in /\ x.qp = "lost" /\ y \in NpPaths /\ y.in = u.path[p].in
  BY <1>3 DEF NpPaths
<1> HIDE DEF x, y
<1>6. CASE np' = [w EXCEPT !.stale = 0]
  <2>1. /\ SameIos(w, u) /\ ListSound(w) /\ w.path[p] = x /\ (\A q \in NvmePaths \ {p} : w.path[q] = u.path[q])
        /\ OutsidePaths(w, u)
    BY <1>2, <1>5, PathChanged
  <2> HIDE DEF w
  <2>2. /\ np' \in NpStates /\ np'.path = w.path /\ np'.ch = w.ch /\ np'.io = w.io /\ np'.left = w.left
        /\ np'.crash = w.crash /\ np'.seen = w.seen /\ np'.stale = 0
    BY <1>6, <2>1 DEF NpStates, SameIos
  <2>3. SameIos(np', u) /\ ListSound(np')
    BY <2>1, <2>2 DEF SameIos, ListSound
  <2>4. CASE u.ch.cur = p
    <3>1. np'.ch.cur = p /\ np'.path[p].qp = "lost" /\ np'.ch.list = u.ch.list
      BY <1>5, <2>1, <2>2, <2>4 DEF OutsidePaths
    <3>2. CacheSound(np') BY <1>2, <2>2, <2>4, <3>1 DEF NpInv, CacheSound
    <3> QED BY <1>2, <2>3, <3>2, PathsKeep
  <2>5. CASE u.ch.cur # p
    <3>1. CacheSound(w) BY <1>2, <2>1, <2>5, OtherCached
    <3>2. CacheSound(np') BY <2>2, <3>1 DEF CacheSound, Connected
    <3> QED BY <1>2, <2>3, <3>2, PathsKeep
  <2> QED BY <2>4, <2>5
<1>7. CASE np' = ClearCurrent(n)
  <2>1. SameIos(n, u) /\ n.stale = u.stale /\ ListSound(n)
    BY <1>2, <1>5, PathChanged
  <2> HIDE DEF n
  <2> QED BY <1>2, <1>7, <2>1, ClearedKeeps
<1> QED BY <1>4, <1>6, <1>7

(* bdev_nvme_disconnected_qpair_cb. *)
LEMMA PathDisconnectedSound ==
    ASSUME NpInv(np), NEW p \in NvmePaths, PathDisconnected(p)
    PROVE  NpInv(np')
<1> DEFINE x == [np.path[p] EXCEPT !.qp = "gone", !.ctrlr = "resetting"]
           n == [np EXCEPT !.path[p] = x]
<1>1. np \in NpStates /\ np.path[p] \in NpPaths
  BY PathParts
<1>2. np' = ClearCurrent(n)
  <2>1. [np EXCEPT !.path[p].qp = "gone", !.path[p].ctrlr = "resetting"] = n
    BY <1>1 DEF NpStates
  <2> QED BY <2>1 DEF PathDisconnected
<1>3. x \in NpPaths /\ x.in = np.path[p].in
  BY <1>1 DEF NpPaths
<1> HIDE DEF x
<1>4. SameIos(n, np) /\ n.stale = np.stale /\ ListSound(n)
  BY <1>3, PathChanged
<1> HIDE DEF n
<1> QED BY <1>2, <1>4, ClearedKeeps

(* The reset ends, one way or the other. *)
LEMMA PathResetSound ==
    ASSUME NpInv(np), NEW p \in NvmePaths, PathReset(p)
    PROVE  NpInv(np')
<1> DEFINE x == [np.path[p] EXCEPT !.ctrlr = "up", !.qp = "up"]
           y == [np.path[p] EXCEPT !.ctrlr = "failed"]
           v == [np EXCEPT !.path[p] = x]
<1>1. np \in NpStates /\ np.path[p] \in NpPaths
  BY PathParts
<1>2. np.path[p].qp = "gone" /\ (np' = v \/ np' = [np EXCEPT !.path[p] = y])
  <2>1. [np EXCEPT !.path[p].ctrlr = "up", !.path[p].qp = "up"] = v
    BY <1>1 DEF NpStates, NpPaths
  <2>2. [np EXCEPT !.path[p].ctrlr = "failed"] = [np EXCEPT !.path[p] = y]
    BY <1>1 DEF NpStates, NpPaths
  <2> QED BY <2>1, <2>2, Zenon DEF PathReset
<1>3. /\ x \in NpPaths /\ x.in = np.path[p].in /\ x.qp = "up" /\ x.ana = np.path[p].ana /\ x.walk = np.path[p].walk
      /\ y \in NpPaths /\ y.in = np.path[p].in /\ y.qp = np.path[p].qp /\ y.ana = np.path[p].ana
      /\ y.walk = np.path[p].walk
  BY <1>1 DEF NpPaths
<1> HIDE DEF x, y
<1>4. CASE np' = [np EXCEPT !.path[p] = y]
  BY <1>3, <1>4, SetPathKeeps
<1>5. CASE np' = v
  <2>1. /\ SameIos(v, np) /\ ListSound(v) /\ v.path[p] = x /\ (\A q \in NvmePaths \ {p} : v.path[q] = np.path[q])
        /\ OutsidePaths(v, np)
    BY <1>3, PathChanged
  <2> HIDE DEF v
  <2>2. CASE np.ch.cur = p
    <3>1. Connected(v, p) /\ v.path[p].ana = np.path[p].ana /\ v.path[p].walk = np.path[p].walk
      BY <1>3, <2>1 DEF Connected
    <3>2. ~Connected(np, p) /\ np.path[p].qp # "lost" BY <1>2 DEF Connected
    <3>3. CacheSound(v) BY <2>1, <2>2, <3>1, <3>2 DEF NpInv, CacheSound, OutsidePaths
    <3> QED BY <1>5, <2>1, <3>3, PathsKeep
  <2>3. CASE np.ch.cur # p
    <3>1. CacheSound(v) BY <2>1, <2>3, OtherCached
    <3> QED BY <1>5, <2>1, <3>1, PathsKeep
  <2> QED BY <2>2, <2>3
<1> QED BY <1>2, <1>4, <1>5

(* An ANA event. *)
LEMMA AnaEventSound ==
    ASSUME NpInv(np), NEW p \in NvmePaths, AnaEvent(p)
    PROVE  NpInv(np')
<1>1. np.left["anas"] > 0 /\ np' = ReadAna(IoPathSpend(np, "anas"), p, FALSE)
  BY DEF AnaEvent
<1>2. NpInv(IoPathSpend(np, "anas"))
  BY <1>1, SpendKeeps
<1> QED BY <1>1, <1>2, ReadAnaKeeps

(* The ANA log page has been read: the caches will be cleared, or it is
   known that they are not. *)
LEMMA AnaReadSound ==
    ASSUME NpInv(np), NEW p \in NvmePaths, AnaRead(p)
    PROVE  NpInv(np')
<1>0. np \in NpStates /\ np.path[p] \in NpPaths
  BY PathParts
<1>1. PICK ana \in {"optimized", "non_optimized", "inaccessible"} :
        LET set == [np EXCEPT !.path[p] = [@ EXCEPT !.ana = ana, !.updating = FALSE, !.reading = FALSE]]
        IN  np' = CASE CtrlrAvailable(np, p) /\ np.path[p].walk = "no" -> [set EXCEPT !.path[p].walk = "before"]
                    [] np.path[p].walk = "before" -> set
                    [] OTHER -> [set EXCEPT !.seen = @ \cup {"no clearing"}]
  BY DEF AnaRead
<1> DEFINE x == [np.path[p] EXCEPT !.ana = ana, !.updating = FALSE, !.reading = FALSE]
           y == [np.path[p] EXCEPT !.ana = ana, !.updating = FALSE, !.reading = FALSE, !.walk = "before"]
           set == [np EXCEPT !.path[p] = x]
           seen == [set EXCEPT !.seen = @ \cup {"no clearing"}]
           due == [np EXCEPT !.path[p] = y]
<1>2. np' = due \/ (np.path[p].walk = "before" /\ np' = set) \/ np' = seen
  <2>1. [set EXCEPT !.path[p].walk = "before"] = due
    BY <1>0 DEF NpStates, NpPaths
  <2> QED BY <1>1, <2>1
<1>3. /\ x \in NpPaths /\ x.in = np.path[p].in /\ x.qp = np.path[p].qp /\ x.walk = np.path[p].walk
      /\ y \in NpPaths /\ y.in = np.path[p].in /\ y.qp = np.path[p].qp /\ y.walk = "before"
  BY <1>0 DEF NpPaths
<1> HIDE DEF x, y
<1>4. ASSUME NEW v, NEW z \in {x, y}, v = [np EXCEPT !.path[p] = z], z.walk = "before"
      PROVE  NpInv(v)
  <2>1. /\ SameIos(v, np) /\ ListSound(v) /\ v.path[p] = z /\ (\A q \in NvmePaths \ {p} : v.path[q] = np.path[q])
        /\ OutsidePaths(v, np)
    BY <1>3, <1>4, PathChanged
  <2>2. CASE np.ch.cur = p
    <3>1. v.path[p].walk = "before" /\ (Connected(v, p) <=> Connected(np, p))
      BY <1>3, <1>4, <2>1 DEF Connected
    <3>2. CacheSound(v) BY <2>1, <2>2, <3>1 DEF NpInv, CacheSound, OutsidePaths
    <3> QED BY <2>1, <3>2, PathsKeep
  <2>3. CASE np.ch.cur # p
    <3>1. CacheSound(v) BY <2>1, <2>3, OtherCached
    <3> QED BY <2>1, <3>1, PathsKeep
  <2> QED BY <2>2, <2>3
<1>5. CASE np' = seen
  <2>1. /\ SameIos(set, np) /\ ListSound(set) /\ set.path[p] = x /\ (\A q \in NvmePaths \ {p} : set.path[q] = np.path[q])
        /\ OutsidePaths(set, np)
    BY <1>3, PathChanged
  <2> HIDE DEF set
  <2> DEFINE s == set.seen \cup {"no clearing"}
  <2>2. s \in SUBSET {"no clearing"} /\ "no clearing" \in s
    BY <2>1, NpParts DEF SameIos
  <2>3. np' = [set EXCEPT !.seen = s]
    BY <1>5
  <2> HIDE DEF s
  <2>4. /\ np' \in NpStates /\ np'.path = set.path /\ np'.ch = set.ch /\ np'.io = set.io /\ np'.left = set.left
        /\ np'.crash = set.crash /\ np'.seen = s /\ np'.stale = set.stale
    BY <2>1, <2>2, <2>3 DEF NpStates, SameIos
  <2>5. SameIos(np', np) /\ ListSound(np')
    BY <2>1, <2>4 DEF SameIos, ListSound
  <2>6. \A q \in NvmePaths : Connected(np', q) <=> Connected(np, q)
    BY <1>3, <2>1, <2>4 DEF Connected
  <2>7. CacheSound(np')
    BY <2>1, <2>2, <2>4, <2>6, ListParts DEF NpInv, CacheSound, OutsidePaths
  <2> QED BY <2>5, <2>7, PathsKeep
<1>6. CASE np' = due
  BY <1>3, <1>4, <1>6
<1>7. CASE np.path[p].walk = "before" /\ np' = set
  BY <1>3, <1>4, <1>7
<1> QED BY <1>2, <1>5, <1>6, <1>7

(* The clearing of the caches comes to this channel, or ends. *)
LEMMA WalkCachesSound ==
    ASSUME NpInv(np), NEW p \in NvmePaths, WalkCaches(p)
    PROVE  NpInv(np')
<1> DEFINE b == IF np.path[p].in THEN ClearCurrent(np) ELSE np
           x == [b.path[p] EXCEPT !.walk = "after"]
           y == [np.path[p] EXCEPT !.walk = "no"]
<1>1. NpInv(b)
  BY ClearKeeps
<1>2. b.ch.cur # p \/ b.ch.cur = NoIoPath
  <2>1. CASE np.path[p].in
    BY <2>1, ClearKeeps
  <2>2. CASE ~np.path[p].in
    <3>1. np.ch.cur = NoIoPath \/ np.path[np.ch.cur].in
      BY DEF NpInv, CacheSound, ListSound
    <3> QED BY <2>2, <3>1
  <2> QED BY <2>1, <2>2
<1>3. np \in NpStates /\ np.path[p] \in NpPaths
  BY PathParts
<1>4. \/ np' = [b EXCEPT !.path[p].walk = "after"]
      \/ np.path[p].walk = "after" /\ np' = [np EXCEPT !.path[p] = y]
  BY <1>3 DEF WalkCaches, NpStates, NpPaths
<1> HIDE DEF b
<1>5. CASE np' = [b EXCEPT !.path[p].walk = "after"]
  <2>1. b \in NpStates /\ b.path[p] \in NpPaths
    BY <1>1, PathParts
  <2> DEFINE v == [b EXCEPT !.path[p] = x]
  <2>2. np' = v
    BY <1>5, <2>1 DEF NpStates, NpPaths
  <2>3. x \in NpPaths /\ x.in = b.path[p].in
    BY <2>1 DEF NpPaths
  <2> HIDE DEF x
  <2>4. /\ SameIos(v, b) /\ ListSound(v) /\ v.stale = b.stale
        /\ v.path[p] = x /\ (\A q \in NvmePaths \ {p} : v.path[q] = b.path[q]) /\ OutsidePaths(v, b)
    BY <1>1, <2>3, PathChanged
  <2> HIDE DEF v
  <2>5. CacheSound(v)
    <3>1. CASE b.ch.cur # p
      BY <1>1, <2>4, <3>1, OtherCached
    <3>2. ASSUME b.ch.cur = NoIoPath PROVE CacheSound(v)
      <4>1. v.ch.cur = NoIoPath /\ (v.left.wrapped \/ v.stale = 0 \/ v.stale = 1)
        BY <1>1, <2>4, <3>2 DEF NpInv, CacheSound, OutsidePaths
      <4> QED BY <4>1, ClearedSound
    <3> QED BY <1>2, <3>1, <3>2
  <2> QED BY <1>1, <2>2, <2>4, <2>5, PathsKeep
<1>6. CASE np.path[p].walk = "after" /\ np' = [np EXCEPT !.path[p] = y]
  <2>1. y \in NpPaths /\ y.in = np.path[p].in /\ y.qp = np.path[p].qp /\ y.ana = np.path[p].ana
    BY <1>3 DEF NpPaths
  <2> HIDE DEF y
  <2> QED BY <1>6, <2>1, SetPathKeeps
<1> QED BY <1>4, <1>5, <1>6

(* The list and a path are set. *)
LEMMA SetListPath ==
    ASSUME NEW w, NpInv(w), NEW p \in NvmePaths, NEW x \in NpPaths, NEW list \in Seq(NvmePaths),
           IsInjective(list), \A q \in ToSet(list) : IF q = p THEN x.in ELSE w.path[q].in,
           NEW n, n = [w EXCEPT !.path[p] = x, !.ch.list = list]
    PROVE  NpInv(ClearCurrent(n))
<1> DEFINE c == [w.ch EXCEPT !.list = list]
           f == [w.path EXCEPT ![p] = x]
<1>1. w \in NpStates /\ w.ch \in NpChannels /\ w.path \in [NvmePaths -> NpPaths]
  BY NpParts DEF NpInv
<1>2. n = [w EXCEPT !.path = f, !.ch = c]
  BY <1>1 DEF NpStates
<1>3. c \in NpChannels /\ c.list = list /\ c.retry = w.ch.retry /\ c.poll = w.ch.poll
  BY <1>1 DEF NpChannels
<1>4. f \in [NvmePaths -> NpPaths] /\ f[p] = x /\ \A q \in NvmePaths \ {p} : f[q] = w.path[q]
  BY <1>1
<1> HIDE DEF c, f
<1>5. /\ n \in NpStates /\ n.path = f /\ n.ch = c /\ n.io = w.io /\ n.crash = w.crash /\ n.left = w.left
      /\ n.stale = w.stale
  BY <1>1, <1>2, <1>3, <1>4 DEF NpStates
<1>6. \A q \in ToSet(list) : q \in NvmePaths
  BY LenProperties, ElementOfSeq DEF ToSet
<1>7. ListSound(n)
  BY <1>3, <1>4, <1>5, <1>6 DEF ListSound
<1>8. SameIos(n, w) /\ n.stale = w.stale
  BY <1>3, <1>5 DEF SameIos
<1> QED BY <1>7, <1>8, ClearedKeeps

(* A namespace comes. *)
LEMMA PathAddedSound ==
    ASSUME NpInv(np), NEW p \in NvmePaths, PathAdded(p)
    PROVE  NpInv(np')
<1> DEFINE u == IoPathSpend(np, "namespaces")
           x == [np.path[p] EXCEPT !.in = TRUE, !.gen = @ + 1, !.qp = "up", !.ana = "optimized", !.updating = FALSE]
           list == Append(u.ch.list, p)
           n == [u EXCEPT !.path[p] = x, !.ch.list = list]
<1>1. np.left["namespaces"] > 0 /\ ~np.path[p].in
  BY DEF PathAdded
<1>2. NpInv(u) /\ u.path = np.path
  BY <1>1, SpendKeeps DEF SameButLeft
<1>3. np' = ClearCurrent(n)
  BY Zenon DEF PathAdded
<1>4. x \in NpPaths /\ x.in
  <2>1. np.path[p] \in NpPaths
    BY PathParts
  <2> DEFINE g == np.path[p].gen + 1
  <2>2. g \in Nat
    BY <2>1 DEF NpPaths
  <2>3. x = [np.path[p] EXCEPT !.in = TRUE, !.gen = g, !.qp = "up", !.ana = "optimized", !.updating = FALSE]
    OBVIOUS
  <2> HIDE DEF g, x
  <2> QED BY <2>1, <2>2, <2>3 DEF NpPaths
<1> HIDE DEF u, x
<1>5. u.ch.list \in Seq(NvmePaths) /\ IsInjective(u.ch.list) /\ \A q \in ToSet(u.ch.list) : u.path[q].in
  BY <1>2, ListParts DEF NpInv, ListSound
<1>6. p \notin ToSet(u.ch.list)
  BY <1>1, <1>2, <1>5
<1>7. list \in Seq(NvmePaths) /\ IsInjective(list) /\ ToSet(list) = ToSet(u.ch.list) \cup {p}
  BY <1>5, <1>6, AppendedFacts
<1> HIDE DEF list
<1>8. \A q \in ToSet(list) : IF q = p THEN x.in ELSE u.path[q].in
  BY <1>4, <1>5, <1>7
<1> HIDE DEF n
<1>9. n = [u EXCEPT !.path[p] = x, !.ch.list = list]
  BY DEF n
<1> QED BY <1>2, <1>3, <1>4, <1>7, <1>8, <1>9, SetListPath

(* A namespace goes. *)
LEMMA PathRemovedSound ==
    ASSUME NpInv(np), NEW p \in NvmePaths, PathRemoved(p)
    PROVE  NpInv(np')
<1> DEFINE u == IoPathSpend(np, "namespaces")
           x == [u.path[p] EXCEPT !.in = FALSE]
           list == RemoveFirst(u.ch.list, p)
           n == [u EXCEPT !.path[p] = x, !.ch.list = list]
           o == [u EXCEPT !.path[p].in = FALSE, !.ch.list = list]
<1>1. np.left["namespaces"] > 0
  BY DEF PathRemoved
<1>2. NpInv(u)
  BY <1>1, SpendKeeps
<1>3. np' = ClearCurrent(o)
  BY Zenon DEF PathRemoved
<1> HIDE DEF u
<1>4. u \in NpStates /\ u.path[p] \in NpPaths
  BY <1>2, PathParts
<1>5. x \in NpPaths
  BY <1>4 DEF NpPaths
<1>6. u.ch.list \in Seq(NvmePaths) /\ IsInjective(u.ch.list) /\ \A q \in ToSet(u.ch.list) : u.path[q].in
  BY <1>2, ListParts DEF NpInv, ListSound
<1>7. list \in Seq(NvmePaths) /\ IsInjective(list) /\ ToSet(list) = ToSet(u.ch.list) \ {p}
  BY <1>6, RemovedFacts
<1> HIDE DEF list
<1>8. \A q \in ToSet(list) : IF q = p THEN x.in ELSE u.path[q].in
  BY <1>6, <1>7
<1>10. o = n
  BY <1>4 DEF NpStates, NpPaths
<1> HIDE DEF n, x, o
<1>9. n = [u EXCEPT !.path[p] = x, !.ch.list = list]
  BY DEF n
<1> QED BY <1>2, <1>3, <1>5, <1>7, <1>8, <1>9, <1>10, SetListPath

(* bdev_nvme_set_preferred_path. *)
LEMMA SetPreferredSound ==
    ASSUME NpInv(np), NEW p \in NvmePaths, SetPreferred(p)
    PROVE  NpInv(np')
<1> DEFINE u == IoPathSpend(np, "settings")
           rest == RemoveFirst(u.ch.list, p)
           list == <<p>> \o rest
           x == u.path[p]
           n == [u EXCEPT !.path[p] = x, !.ch.list = list]
           o == [u EXCEPT !.ch.list = list]
<1>1. np.left["settings"] > 0 /\ np.path[p].in
  BY DEF SetPreferred
<1>2. NpInv(u) /\ u.path = np.path
  BY <1>1, SpendKeeps DEF SameButLeft
<1>3. np' = ClearCurrent(o)
  BY Zenon DEF SetPreferred
<1> HIDE DEF u
<1>4. u \in NpStates /\ u.path[p] \in NpPaths
  BY <1>2, PathParts
<1>5. u.ch.list \in Seq(NvmePaths) /\ IsInjective(u.ch.list) /\ \A q \in ToSet(u.ch.list) : u.path[q].in
  BY <1>2, ListParts DEF NpInv, ListSound
<1>6. rest \in Seq(NvmePaths) /\ IsInjective(rest) /\ ToSet(rest) = ToSet(u.ch.list) \ {p}
  BY <1>5, RemovedFacts
<1> HIDE DEF rest
<1>7. list \in Seq(NvmePaths) /\ IsInjective(list) /\ ToSet(list) = ToSet(rest) \cup {p}
  BY <1>6, PrefixedFacts
<1> HIDE DEF list
<1>8. \A q \in ToSet(list) : IF q = p THEN x.in ELSE u.path[q].in
  BY <1>1, <1>2, <1>5, <1>6, <1>7
<1>9. x \in NpPaths
  BY <1>4
<1>10. o = n
  BY <1>4 DEF NpStates
<1> HIDE DEF n, x, o
<1>11. n = [u EXCEPT !.path[p] = x, !.ch.list = list]
  BY DEF n
<1> QED BY <1>2, <1>3, <1>7, <1>8, <1>9, <1>10, <1>11, SetListPath

(* bdev_nvme_set_multipath_policy. *)
LEMMA SetPolicySound ==
    ASSUME NpInv(np), NEW policy \in IoPathPolicies, SetPolicy(policy)
    PROVE  NpInv(np')
<1> DEFINE u == IoPathSpend(np, "settings")
           c == [u.ch EXCEPT !.policy = policy]
           n == [u EXCEPT !.ch = c]
           o == [u EXCEPT !.ch.policy = policy]
<1>1. np.left["settings"] > 0
  BY DEF SetPolicy
<1>2. NpInv(u)
  BY <1>1, SpendKeeps
<1>3. np' = ClearCurrent(o)
  BY Zenon DEF SetPolicy
<1> HIDE DEF u
<1>4. u \in NpStates /\ u.ch \in NpChannels
  BY <1>2, NpParts DEF NpInv
<1>5. o = n
  BY <1>4 DEF NpStates
<1>6. c \in NpChannels /\ c.list = u.ch.list /\ c.retry = u.ch.retry /\ c.poll = u.ch.poll
  BY <1>4 DEF NpChannels
<1> HIDE DEF c
<1>7. OutsideChannel(n, u) /\ n.ch = c
  BY <1>4, <1>6, SetChannel
<1> HIDE DEF n, o
<1>8. SameIos(n, u) /\ n.stale = u.stale
  BY <1>6, <1>7 DEF SameIos, OutsideChannel
<1>9. ListSound(n)
  BY <1>2, <1>6, <1>7 DEF NpInv, ListSound, OutsideChannel
<1> QED BY <1>2, <1>3, <1>5, <1>8, <1>9, ClearedKeeps

(* Time passes. *)
LEMMA IoPathTickSound ==
    ASSUME NpInv(np), IoPathTick
    PROVE  NpInv(np')
<1> DEFINE t == np.now + 1
<1>1. np \in NpStates /\ np.now \in 0 .. MaxTicks /\ MaxTicks \in Nat
  BY NpParts, IoPathAssumption DEF NpInv
<1>2. t \in 0 .. MaxTicks /\ np' = [np EXCEPT !.now = t]
  BY <1>1 DEF IoPathTick
<1> HIDE DEF t
<1>3. /\ SameIos(np', np) /\ np'.path = np.path /\ np'.ch = np.ch /\ np'.left = np.left
      /\ np'.stale = np.stale /\ np'.seen = np.seen
  BY <1>1, <1>2 DEF NpStates, SameIos
<1>4. ListSound(np') /\ CacheSound(np')
  BY <1>3, CacheKept DEF NpInv, ListSound
<1> QED BY <1>3, <1>4, PathsKeep

(* The beginning. *)
LEMMA IoPathBegins ==
    ASSUME IoPathInit
    PROVE  NpInv(np)
<1>1. PICK mix \in IoPathMixes :
        np = [path |-> [p \in NvmePaths |-> [in |-> p \in ToSet(mix.paths), gen |-> 0, qp |-> "up", ctrlr |-> "up",
                                             ana |-> "optimized", updating |-> FALSE, reading |-> FALSE, walk |-> "no"]],
              ch   |-> [list |-> mix.paths, cur |-> NoIoPath, rr |-> 0, policy |-> mix.policy,
                        retry |-> <<>>, poll |-> -1],
              io   |-> [i \in NvmeIos |-> FreeIo],
              now  |-> 0, stale |-> 0, left |-> mix, crash |-> "no", seen |-> {}]
  BY DEF IoPathInit
<1>2. mix \in NpBounds /\ IsInjective(mix.paths)
  BY IoPathMixesAssumption DEF NpBounds
<1>3. mix.paths \in Seq(NvmePaths) /\ mix.policy \in IoPathPolicies
  BY <1>2 DEF NpBounds
<1> DEFINE in(p) == p \in ToSet(mix.paths)
           path(p) == [in |-> in(p), gen |-> 0, qp |-> "up", ctrlr |-> "up",
                       ana |-> "optimized", updating |-> FALSE, reading |-> FALSE, walk |-> "no"]
           paths == [p \in NvmePaths |-> path(p)]
           ch == [list |-> mix.paths, cur |-> NoIoPath, rr |-> 0, policy |-> mix.policy, retry |-> <<>>, poll |-> -1]
           io == [i \in NvmeIos |-> FreeIo]
<1>4. paths \in [NvmePaths -> NpPaths] /\ \A p \in NvmePaths : paths[p].in <=> p \in ToSet(mix.paths)
  <2>1. \A p \in NvmePaths : in(p) \in BOOLEAN /\ (in(p) <=> p \in ToSet(mix.paths))
    OBVIOUS
  <2> HIDE DEF in
  <2>2. \A p \in NvmePaths : path(p) \in NpPaths /\ path(p).in = in(p)
    BY <2>1 DEF NpPaths
  <2> HIDE DEF path
  <2> QED BY <2>1, <2>2
<1>5. ch \in NpChannels
  <2>1. 0 \in 0 .. RrMinIo - 1
    BY IoPathAssumption
  <2>2. -1 \in -1 .. MaxTicks + 1
    BY IoPathAssumption
  <2>3. <<>> \in Seq(NvmeIos)
    BY EmptySeq
  <2> QED BY <1>3, <2>1, <2>2, <2>3 DEF NpChannels
<1>6. io \in [NvmeIos -> NpIos] /\ \A i \in NvmeIos : io[i].st = "free"
  BY FreeIoType
<1>7. ch.list = mix.paths /\ ch.cur = NoIoPath /\ ch.retry = <<>>
  OBVIOUS
<1>8. np = [path |-> paths, ch |-> ch, io |-> io, now |-> 0, stale |-> 0, left |-> mix, crash |-> "no", seen |-> {}]
  BY <1>1
<1> HIDE DEF paths, ch, io
<1>9. /\ np \in NpStates /\ np.path = paths /\ np.ch = ch /\ np.io = io /\ np.stale = 0 /\ np.crash = "no"
  <2>1. 0 \in 0 .. MaxTicks
    BY IoPathAssumption
  <2> QED BY <1>2, <1>4, <1>5, <1>6, <1>8, <2>1 DEF NpStates, NpCrashes
<1>10. IosSound(np) /\ CrashSound(np)
  BY <1>6, <1>9 DEF IosSound, CrashSound
<1>11. RetrySound(np)
  <2>1. np.ch.retry = <<>> /\ DOMAIN <<>> = {} /\ ToSet(<<>>) = {}
    BY <1>7, <1>9 DEF ToSet
  <2>2. IsInjective(np.ch.retry)
    BY <2>1 DEF IsInjective
  <2> QED BY <1>6, <1>9, <2>1, <2>2 DEF RetrySound
<1>12. ListSound(np)
  <2>1. \A p \in ToSet(mix.paths) : p \in NvmePaths
    BY <1>3, LenProperties, ElementOfSeq DEF ToSet
  <2> QED BY <1>2, <1>4, <1>7, <1>9, <2>1 DEF ListSound
<1>13. CacheSound(np)
  BY <1>7, <1>9, ClearedSound
<1> QED BY <1>9, <1>10, <1>11, <1>12, <1>13 DEF NpInv

(* Every step. *)
LEMMA IoPathContinues ==
    ASSUME NpInv(np), IoPathNext
    PROVE  NpInv(np')
  BY IoSubmitSound, GotBufferSound, IoDoneSound, IoAbortSound, RetryPollSound, IoPathTickSound, PathLostSound,
     PathDisconnectedSound, PathResetSound, AnaEventSound, AnaReadSound, WalkCachesSound, PathAddedSound,
     PathRemovedSound, SetPreferredSound, SetPolicySound
     DEF IoPathNext

(* What the invariant says of the channel. *)
LEMMA IoPathTold ==
    ASSUME NpInv(np)
    PROVE  IoPathTypeOK /\ PathIos
<1>1. np \in NpStates
  BY DEF NpInv
<1>2. IoPathTypeOK
  <2>1. \A i \in NvmeIos :
           np.io[i].st \in {"free", "buf", "out", "verify", "retry"} /\ np.io[i].tries \in 0 .. NvmeRetries
    BY IoParts DEF NpIos
  <2> QED BY <1>1, <2>1, ChannelParts DEF IoPathTypeOK
<1>3. RetriesComeDue
  <2>1. /\ DOMAIN np.ch.retry = 1 .. Len(np.ch.retry) /\ Len(np.ch.retry) \in Nat
        /\ \A k \in 1 .. Len(np.ch.retry) : np.ch.retry[k] \in NvmeIos
    BY <1>1, RetryParts
  <2>2. RetrySound(np)
    BY DEF NpInv
  <2>3. {i \in NvmeIos : np.io[i].st = "retry"} = ToSet(np.ch.retry) /\ IsInjective(np.ch.retry)
    BY <2>1, <2>2 DEF RetrySound, ToSet
  <2>4. \A k \in 2 .. Len(np.ch.retry) : np.io[np.ch.retry[k - 1]].at <= np.io[np.ch.retry[k]].at
    <3> SUFFICES ASSUME NEW k \in 2 .. Len(np.ch.retry)
                 PROVE  np.io[np.ch.retry[k - 1]].at <= np.io[np.ch.retry[k]].at
      OBVIOUS
    <3>1. k - 1 \in DOMAIN np.ch.retry /\ k \in DOMAIN np.ch.retry /\ k - 1 < k BY <2>1
    <3> QED BY <2>2, <3>1 DEF RetrySound
  <2>5. np.ch.retry # <<>> => Head(np.ch.retry) = np.ch.retry[1]
    BY <1>1, ChannelParts
  <2> QED BY <2>2, <2>3, <2>4, <2>5 DEF RetrySound, RetriesComeDue
<1>4. CacheIsCurrent
  <2>1. np.left.wrapped \/ np.stale <= 1
    <3>1. np.left.wrapped \/ np.stale = 0 \/ np.stale = 1 BY DEF NpInv, CacheSound
    <3>2. CASE np.left.wrapped
      BY <3>2
    <3>3. CASE np.stale = 0 \/ np.stale = 1
      BY <3>3
    <3> QED BY <3>1, <3>2, <3>3
  <2>2. np.ch.cur = NoIoPath \/ np.ch.cur \in ToSet(np.ch.list)
    BY DEF NpInv, CacheSound
  <2> QED BY <2>1, <2>2, Zenon DEF CacheIsCurrent
<1>5. CacheSettles
  <2>1. np.ch.cur \in NvmePaths \cup {NoIoPath}
    BY <1>1, ChannelParts
  <2> QED BY <2>1 DEF NpInv, CacheSound, CacheSettles
<1> QED BY <1>2, <1>3, <1>4, <1>5 DEF PathIos, NpInv, CrashSound

(* In every behaviour the retries come due in their order, the cached path
   is one of the bdev's and an optimized one when nothing is under way, no
   I/O is answered twice, and only a wrapped one misses a list: PathIos. *)
THEOREM IoPathSoundness == IoPathSpec => [](IoPathTypeOK /\ PathIos)
<1>1. IoPathInit => NpInv(np)
  BY IoPathBegins
<1>2. NpInv(np) /\ [IoPathNext]_npVars => NpInv(np')
  BY IoPathContinues DEF npVars
<1>3. NpInv(np) => IoPathTypeOK /\ PathIos
  BY IoPathTold
<1> DEFINE I == NpInv(np)
<1>4. I' = NpInv(np')
  OBVIOUS
<1>5. IoPathInit => I
  BY <1>1
<1>6. I /\ [IoPathNext]_npVars => I'
  BY <1>2
<1>7. I => IoPathTypeOK /\ PathIos
  BY <1>3
<1> HIDE DEF I
<1> QED BY <1>5, <1>6, <1>7, PTL DEF IoPathSpec


---------------------------------------------------------------------------
(* The parts together *)

(* Each part moves as its own module says, or not at all. *)
LEMMA NvmeImplements == NvmeSpec => Spec /\ DiscoverySpec /\ IoPathSpec
<1>1. NvmeInit => Init /\ DiscoveryInit /\ IoPathInit
  BY DEF NvmeInit
<1>2. [NvmeNext]_nvmeVars => [Next]_vars /\ [DiscoveryNext]_dvVars /\ [IoPathNext]_npVars
  BY DEF NvmeNext, nvmeVars, vars, dvVars, npVars
<1> QED BY <1>1, <1>2, PTL DEF NvmeSpec, Spec, DiscoverySpec, IoPathSpec

(* And so does the controller. *)
THEOREM NvmeControllers ==
    NvmeSpec => [](TypeOK /\ RefCounts /\ OneResetAtATime /\ ParkedIsContinued /\ UnregisteredUnused)
  BY NvmeImplements, CtrlrTyping, ReferencesCounted, OneReset, ParkedContinued, Unregistered, PTL

(* The client of a composition keeps what it keeps alone. *)
THEOREM DiscoveryFollowing == NvmeSpec => []DiscoveryFollows
<1>1. DiscoveryTypeOK /\ DiscoveryKeeps => DiscoveryFollows
  BY DEF DiscoveryFollows
<1> QED BY <1>1, NvmeImplements, DiscoverySoundness, PTL

(* The I/Os of a composition are served as those of a channel alone: the
   retries come due in order, the cached path is current, and each answer
   is the first. *)
THEOREM PathsServing == NvmeSpec => []PathsServeIos
<1>1. IoPathTypeOK /\ PathIos => PathsServeIos
  BY DEF PathsServeIos
<1> QED BY <1>1, NvmeImplements, IoPathSoundness, PTL
===============================================================================
