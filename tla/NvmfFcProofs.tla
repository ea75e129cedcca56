----------------------------- MODULE NvmfFcProofs -----------------------------
(***************************************************************************)
(* Proofs about NvmfFcReq: the commands of the FC transport keep their     *)
(* resources, every abort comes to its end, and the answers to ABTS are    *)
(* true, for every number of hwqps, commands, buffers and frames.          *)
(***************************************************************************)
EXTENDS NvmfFcReq, SumFacts

(* Queues of messages *)

(* A message is in a queue; it is there once at the most; every end of a
   synchronisation is behind the message that announces it. *)
At(s, m) == \E j \in DOMAIN s : s[j] = m
Once(s, m) == \A j, k \in DOMAIN s : s[j] = m /\ s[k] = m => j = k
Note(k, i) == [k |-> k, i |-> i]
Ordered(s, i) ==
    \A j \in DOMAIN s : s[j] = Note("sync_done", i) => \E k \in 1 .. j - 1 : s[k] = Note("sync", i)

(* t is s with a message behind it. *)
LEMMA AppendedQueue ==
    ASSUME NEW S, NEW s \in Seq(S), NEW e \in S
    PROVE  /\ Append(s, e) \in Seq(S)
           /\ \A m : At(Append(s, e), m) <=> At(s, m) \/ m = e
           /\ \A m : Once(s, m) /\ (m = e => ~At(s, m)) => Once(Append(s, e), m)
           /\ \A i : Ordered(s, i) /\ (e = Note("sync_done", i) => At(s, Note("sync", i))) => Ordered(Append(s, e), i)
<1> DEFINE t == Append(s, e)
           n == Len(s)
<1>1. /\ t \in Seq(S) /\ Len(t) = n + 1 /\ n \in Nat /\ DOMAIN s = 1 .. n /\ DOMAIN t = 1 .. n + 1
      /\ \A j \in 1 .. n : t[j] = s[j]
      /\ t[n + 1] = e
  <2>1. t \in Seq(S) /\ Len(t) = n + 1 /\ (\A j \in 1 .. n : t[j] = s[j]) /\ t[n + 1] = e
    BY AppendProperties
  <2> HIDE DEF t
  <2> QED BY <2>1, LenProperties
<1> HIDE DEF t, n
<1>2. \A j \in 1 .. n + 1 : j \in 1 .. n \/ j = n + 1
  BY <1>1
<1>3. ASSUME NEW m PROVE At(t, m) <=> At(s, m) \/ m = e
  <2>1. ASSUME At(t, m) PROVE At(s, m) \/ m = e
    BY <1>1, <1>2, <2>1 DEF At
  <2>2. ASSUME At(s, m) PROVE At(t, m)
    BY <1>1, <2>2 DEF At
  <2>3. ASSUME m = e PROVE At(t, m)
    <3>1. n + 1 \in DOMAIN t BY <1>1
    <3> QED BY <1>1, <2>3, <3>1 DEF At
  <2> QED BY <2>1, <2>2, <2>3
<1>4. ASSUME NEW m, Once(s, m), m = e => ~At(s, m) PROVE Once(t, m)
  <2> SUFFICES ASSUME NEW j \in DOMAIN t, NEW k \in DOMAIN t, t[j] = m, t[k] = m PROVE j = k
    BY DEF Once
  <2>1. CASE j \in 1 .. n /\ k \in 1 .. n
    BY <1>1, <1>4, <2>1 DEF Once
  <2>2. CASE j = n + 1 /\ k = n + 1
    BY <2>2
  <2>3. CASE j = n + 1 /\ k \in 1 .. n
    BY <1>1, <1>4, <2>3 DEF At
  <2>4. CASE k = n + 1 /\ j \in 1 .. n
    BY <1>1, <1>4, <2>4 DEF At
  <2> QED BY <1>1, <1>2, <2>1, <2>2, <2>3, <2>4
<1>5. ASSUME NEW i, Ordered(s, i), e = Note("sync_done", i) => At(s, Note("sync", i)) PROVE Ordered(t, i)
  <2> SUFFICES ASSUME NEW j \in DOMAIN t,
                      t[j] = Note("sync_done", i) PROVE \E k \in 1 .. j - 1 : t[k] = Note("sync", i)
    BY Zenon DEF Ordered
  <2>1. CASE j \in 1 .. n
    <3>1. PICK k \in 1 .. j - 1 : s[k] = Note("sync", i)
      <4>1. s[j] = Note("sync_done", i) /\ j \in DOMAIN s BY <1>1, <2>1
      <4> QED BY <1>5, <4>1, Zenon DEF Ordered
    <3>2. k \in 1 .. n BY <2>1, <1>1
    <3> QED BY <3>1, <3>2, <1>1
  <2>2. CASE j = n + 1
    <3>1. PICK k \in DOMAIN s : s[k] = Note("sync", i)
      BY <1>1, <1>5, <2>2 DEF At
    <3>2. k \in 1 .. j - 1 /\ t[k] = s[k] BY <1>1, <2>2
    <3> QED BY <3>1, <3>2
  <2> QED BY <1>1, <1>2, <2>1, <2>2
<1> QED BY <1>1, <1>3, <1>4, <1>5 DEF t

(* The rest of a queue. *)
LEMMA RestOfQueue ==
    ASSUME NEW S, NEW s \in Seq(S), s # <<>>
    PROVE  /\ Tail(s) \in Seq(S) /\ Head(s) \in S /\ At(s, Head(s))
           /\ \A m : At(s, m) <=> At(Tail(s), m) \/ m = Head(s)
           /\ \A m : Once(s, m) => Once(Tail(s), m)
           /\ \A m : Once(s, m) /\ m = Head(s) => ~At(Tail(s), m)
           /\ \A i : Ordered(s, i) /\ Head(s) # Note("sync", i) => Ordered(Tail(s), i)
           /\ \A i : Ordered(s, i) => Head(s) # Note("sync_done", i)
<1> DEFINE t == Tail(s)
           n == Len(s)
           e == Head(s)
<1>1. /\ t \in Seq(S) /\ Len(t) = n - 1 /\ n \in Nat \ {0} /\ DOMAIN s = 1 .. n /\ DOMAIN t = 1 .. n - 1
      /\ \A j \in 1 .. n - 1 : t[j] = s[j + 1]
      /\ s[1] = e /\ e \in S
  <2>1. t \in Seq(S) /\ Len(t) = n - 1 /\ (\A j \in 1 .. Len(t) : t[j] = s[j + 1]) /\ e \in S
    BY HeadTailProperties
  <2>2. n \in Nat \ {0} /\ DOMAIN s = 1 .. n /\ e = s[1]
    BY LenProperties, EmptySeq
  <2> HIDE DEF t, n, e
  <2> QED BY <2>1, <2>2, LenProperties
<1> HIDE DEF t, n, e
<1>2. \A j \in 1 .. n : j = 1 \/ (j - 1 \in 1 .. n - 1 /\ t[j - 1] = s[j])
  BY <1>1
<1>3. \A j \in 1 .. n - 1 : j + 1 \in 1 .. n /\ t[j] = s[j + 1] /\ 1 \in 1 .. n
  BY <1>1
<1>4. ASSUME NEW m PROVE At(s, m) <=> At(t, m) \/ m = e
  <2>1. ASSUME At(s, m) PROVE At(t, m) \/ m = e
    BY <1>1, <1>2, <2>1 DEF At
  <2>2. ASSUME At(t, m) PROVE At(s, m)
    BY <1>1, <1>3, <2>2 DEF At
  <2>3. ASSUME m = e PROVE At(s, m)
    <3>1. 1 \in DOMAIN s BY <1>1
    <3> QED BY <1>1, <2>3, <3>1 DEF At
  <2> QED BY <2>1, <2>2, <2>3
<1>5. ASSUME NEW m, Once(s, m) PROVE Once(t, m)
  <2> SUFFICES ASSUME NEW j \in DOMAIN t, NEW k \in DOMAIN t, t[j] = m, t[k] = m PROVE j = k
    BY DEF Once
  <2>1. j + 1 \in DOMAIN s /\ k + 1 \in DOMAIN s /\ s[j + 1] = m /\ s[k + 1] = m
    BY <1>1, <1>3
  <2>2. j + 1 = k + 1
    BY <1>5, <2>1 DEF Once
  <2> QED BY <2>2, <1>1
<1>6. ASSUME NEW m, Once(s, m), m = e, At(t, m) PROVE FALSE
  <2>1. PICK j \in DOMAIN t : t[j] = m
    BY <1>6 DEF At
  <2>2. j + 1 \in DOMAIN s /\ s[j + 1] = m /\ 1 \in DOMAIN s /\ s[1] = m
    BY <1>1, <1>3, <1>6, <2>1
  <2>3. j + 1 = 1
    BY <1>6, <2>2 DEF Once
  <2> QED BY <2>1, <2>3, <1>1
<1>7. ASSUME NEW i, Ordered(s, i), e # Note("sync", i) PROVE Ordered(t, i)
  <2> SUFFICES ASSUME NEW j \in DOMAIN t,
                      t[j] = Note("sync_done", i) PROVE \E k \in 1 .. j - 1 : t[k] = Note("sync", i)
    BY Zenon DEF Ordered
  <2>1. j + 1 \in DOMAIN s /\ s[j + 1] = Note("sync_done", i)
    BY <1>1, <1>3
  <2> DEFINE above == j + 1
  <2>2. \E k \in 1 .. above - 1 : s[k] = Note("sync", i)
    BY <1>7, <2>1, Zenon DEF Ordered
  <2>6. PICK k \in 1 .. j : s[k] = Note("sync", i)
    BY <1>1, <2>2
  <2>3. k # 1
    BY <1>1, <1>7, <2>6
  <2>4. k - 1 \in 1 .. j - 1 /\ k \in 1 .. n
    BY <1>1, <2>3
  <2>5. t[k - 1] = s[k]
    BY <1>2, <2>3, <2>4
  <2> QED BY <2>6, <2>4, <2>5
<1>8. ASSUME NEW i, Ordered(s, i), e = Note("sync_done", i) PROVE FALSE
  <2>1. 1 \in DOMAIN s /\ s[1] = Note("sync_done", i)
    BY <1>1, <1>8
  <2>2. \E k \in 1 .. 1 - 1 : s[k] = Note("sync", i)
    BY <1>8, <2>1, Zenon DEF Ordered
  <2> QED BY <2>2
<1>9. At(s, e)
  BY <1>4
<1> QED BY <1>1, <1>4, <1>5, <1>6, <1>7, <1>8, <1>9 DEF t, e

(* Two queues, one behind the other. *)
LEMMA JoinedQueues ==
    ASSUME NEW S, NEW s \in Seq(S), NEW t \in Seq(S)
    PROVE  /\ s \o t \in Seq(S)
           /\ \A m : At(s \o t, m) <=> At(s, m) \/ At(t, m)
           /\ \A m : Once(s, m) /\ Once(t, m) /\ ~(At(s, m) /\ At(t, m)) => Once(s \o t, m)
           /\ \A i : Ordered(s, i) /\ ~At(t, Note("sync_done", i)) => Ordered(s \o t, i)
<1> DEFINE u == s \o t
           n == Len(s)
           l == Len(t)
<1>1. /\ u \in Seq(S) /\ n \in Nat /\ l \in Nat /\ DOMAIN s = 1 .. n /\ DOMAIN t = 1 .. l /\ DOMAIN u = 1 .. n + l
      /\ \A j \in 1 .. n + l : u[j] = IF j <= n THEN s[j] ELSE t[j - n]
  <2>1. u \in Seq(S) /\ Len(u) = n + l /\ \A j \in 1 .. n + l : u[j] = IF j <= n THEN s[j] ELSE t[j - n]
    BY ConcatProperties
  <2>2. n \in Nat /\ l \in Nat /\ DOMAIN s = 1 .. n /\ DOMAIN t = 1 .. l
    BY LenProperties
  <2> HIDE DEF u, n, l
  <2> QED BY <2>1, <2>2, LenProperties
<1> HIDE DEF u, n, l
<1>2. \A j \in 1 .. n : j \in 1 .. n + l /\ u[j] = s[j]
  BY <1>1
<1>3. \A j \in 1 .. l : n + j \in 1 .. n + l /\ u[n + j] = t[j]
  BY <1>1
<1>4. \A j \in 1 .. n + l : j \in 1 .. n \/ (j - n \in 1 .. l /\ u[j] = t[j - n])
  BY <1>1
<1>5. ASSUME NEW m PROVE At(u, m) <=> At(s, m) \/ At(t, m)
  <2>1. ASSUME At(u, m) PROVE At(s, m) \/ At(t, m)
    BY <1>1, <1>2, <1>4, <2>1 DEF At
  <2>2. ASSUME At(s, m) PROVE At(u, m)
    BY <1>1, <1>2, <2>2 DEF At
  <2>3. ASSUME At(t, m) PROVE At(u, m)
    BY <1>1, <1>3, <2>3 DEF At
  <2> QED BY <2>1, <2>2, <2>3
<1>6. ASSUME NEW m, Once(s, m), Once(t, m), ~(At(s, m) /\ At(t, m)) PROVE Once(u, m)
  <2> SUFFICES ASSUME NEW j \in DOMAIN u, NEW k \in DOMAIN u, u[j] = m, u[k] = m PROVE j = k
    BY DEF Once
  <2>1. CASE j \in 1 .. n /\ k \in 1 .. n
    BY <1>1, <1>2, <1>6, <2>1 DEF Once
  <2>2. CASE j - n \in 1 .. l /\ u[j] = t[j - n] /\ k - n \in 1 .. l /\ u[k] = t[k - n]
    <3>1. j - n = k - n BY <1>1, <1>6, <2>2 DEF Once
    <3> QED BY <3>1, <1>1
  <2>3. CASE j \in 1 .. n /\ k - n \in 1 .. l /\ u[k] = t[k - n]
    BY <1>1, <1>2, <1>6, <2>3 DEF At
  <2>4. CASE k \in 1 .. n /\ j - n \in 1 .. l /\ u[j] = t[j - n]
    BY <1>1, <1>2, <1>6, <2>4 DEF At
  <2> QED BY <1>1, <1>4, <2>1, <2>2, <2>3, <2>4
<1>7. ASSUME NEW i, Ordered(s, i), ~At(t, Note("sync_done", i)) PROVE Ordered(u, i)
  <2> SUFFICES ASSUME NEW j \in DOMAIN u,
                      u[j] = Note("sync_done", i) PROVE \E k \in 1 .. j - 1 : u[k] = Note("sync", i)
    BY Zenon DEF Ordered
  <2>1. j \in 1 .. n
    BY <1>1, <1>4, <1>7 DEF At
  <2>2. j \in DOMAIN s /\ s[j] = Note("sync_done", i)
    BY <1>1, <1>2, <2>1
  <2>3. PICK k \in 1 .. j - 1 : s[k] = Note("sync", i)
    BY <1>7, <2>2, Zenon DEF Ordered
  <2>4. k \in 1 .. n
    BY <2>1, <1>1
  <2> QED BY <2>3, <2>4, <1>2
<1> QED BY <1>1, <1>5, <1>6, <1>7 DEF u

(* The messages about a set of commands, in some order. *)
OneOf(k, S, m) == \E r \in S : m = [k |-> k, r |-> r]

(* Each message of a set is in its sequence, once. *)
LEMMA MessagesOf ==
    ASSUME NEW S, IsFiniteSet(S), NEW k
    PROVE  /\ SetToSeq(S) \in Seq(S) /\ IsInjective(SetToSeq(S)) /\ ToSet(SetToSeq(S)) = S
           /\ Len(SetToSeq(S)) = Cardinality(S)
           /\ Messages(k, SetToSeq(S)) \in Seq([k : {k}, r : S])
           /\ \A m : At(Messages(k, SetToSeq(S)), m) <=> OneOf(k, S, m)
           /\ \A m : Once(Messages(k, SetToSeq(S)), m)
<1> DEFINE n == Cardinality(S)
           s == SetToSeq(S)
           t == Messages(k, s)
<1>1. n \in Nat /\ s \in [1 .. n -> S] /\ IsInjective(s)
  <2>1. n \in Nat /\ ExistsBijection(1 .. n, S)
    BY FS_CardinalityType
  <2>2. \E f \in [1 .. n -> S] : IsInjective(f)
    <3> HIDE DEF n
    <3> QED BY <2>1, Zenon DEF ExistsBijection, Bijection, Injection
  <2> HIDE DEF n
  <2>3. s = CHOOSE f \in [1 .. n -> S] : IsInjective(f)
    BY DEF SetToSeq, n
  <2> HIDE DEF s
  <2> QED BY <2>1, <2>2, <2>3
<1>2. s \in Surjection(1 .. n, S)
  <2>1. IsFiniteSet(1 .. n) /\ Cardinality(1 .. n) = n
    <3>1. Cardinality(1 .. n) = IF 1 > n THEN 0 ELSE n - 1 + 1 BY <1>1, FS_Interval
    <3> HIDE DEF n
    <3> QED BY <1>1, <3>1, FS_Interval
  <2>2. s \in Injection(1 .. n, S)
    BY <1>1 DEF Injection
  <2> HIDE DEF s
  <2> QED BY <2>1, <2>2, FS_Injection DEF n
<1> HIDE DEF s, n
<1>3. s \in Seq(S) /\ DOMAIN s = 1 .. n /\ Len(s) = n
  <2>1. s \in Seq(S)
    BY <1>1
  <2> QED BY <1>1, <2>1, LenProperties
<1>4. ToSet(s) = S
  BY <1>1, <1>2, <1>3 DEF Surjection, ToSet
<1>5. t = [j \in 1 .. n |-> [k |-> k, r |-> s[j]]]
  BY <1>3 DEF Messages
<1> HIDE DEF t
<1>6. DOMAIN t = 1 .. n /\ (\A j \in 1 .. n : t[j] = [k |-> k, r |-> s[j]] /\ s[j] \in S)
      /\ t \in [1 .. n -> [k : {k}, r : S]]
  BY <1>1, <1>5
<1>7. t \in Seq([k : {k}, r : S])
  <2> DEFINE R == [k : {k}, r : S]
  <2>1. t \in [1 .. n -> R]
    BY <1>6
  <2> HIDE DEF R
  <2>2. t \in Seq(R)
    BY <1>1, <2>1
  <2> QED BY <2>2 DEF R
<1>8. ASSUME NEW m PROVE At(t, m) <=> \E r \in S : m = [k |-> k, r |-> r]
  <2>1. ASSUME At(t, m) PROVE \E r \in S : m = [k |-> k, r |-> r]
    BY <1>6, <2>1 DEF At
  <2>2. ASSUME NEW r \in S, m = [k |-> k, r |-> r] PROVE At(t, m)
    <3>1. PICK j \in 1 .. n : s[j] = r
      BY <1>2, <2>2 DEF Surjection
    <3> QED BY <1>6, <2>2, <3>1 DEF At
  <2> QED BY <2>1, <2>2
<1>9. ASSUME NEW m PROVE Once(t, m)
  <2> SUFFICES ASSUME NEW j \in DOMAIN t, NEW l \in DOMAIN t, t[j] = m, t[l] = m PROVE j = l
    BY DEF Once
  <2>1. t[j].r = s[j] /\ t[l].r = s[l]
    BY <1>6
  <2> QED BY <1>1, <1>3, <1>6, <2>1 DEF IsInjective
<1> QED BY <1>1, <1>3, <1>4, <1>7, <1>8, <1>9 DEF s, t, n, OneOf

---------------------------------------------------------------------------
(* The invariant of the commands *)

AbtsIds == 1 .. FcAbtsIds
FqKinds == {"none", "read", "write", "aer"}
FqPhases == {"free", "init", "pending", "aborted"} \cup InBdev \cup InXfer
FqReq == [st : FqPhases, data : FqKinds, xchg : BOOLEAN, buf : BOOLEAN, aborted : BOOLEAN, cbs : Seq(AbtsIds),
         del : BOOLEAN]
FqMsg == [k : {"aborted", "bdev_abort"}, r : FcReqs] \cup [k : {"abts", "sync", "sync_done"}, i : AbtsIds]
         \cup [k : {"del", "quiesce"}]
FqHw == [on : BOOLEAN, msgs : Seq(FqMsg), syncs : SUBSET AbtsIds, pending : Seq(FcReqs),
         conn : {"created", "deleting", "deleted"}, left : Nat]
FqMain == [k : {"abts"}, i : AbtsIds, h : FcHwqps, found : BOOLEAN] \cup [k : {"synced"}, i : AbtsIds, h : FcHwqps]
FqAbts == [st : {"unused", "asked", "answered"}, req : FcReqs \cup {"none"}, asked : SUBSET FcHwqps,
           waits : Int, handled : BOOLEAN, synced : BOOLEAN]
FqLeft == [cmds : SUBSET FqKinds, max : Nat, abts : Nat, dels : Nat, faults : Nat,
           dead : BOOLEAN, sync : BOOLEAN, xchgs : Nat]
FqCrashes == {"no", "freed twice"}
FqWrongs == SUBSET {"accept", "reject", "left behind"}
FqType == [req : [FcReqs -> FqReq], hw : [FcHwqps -> FqHw], abts : [AbtsIds -> FqAbts], main : Seq(FqMain),
           air : SUBSET FcReqs, markers : SUBSET (AbtsIds \X FcHwqps), dead : BOOLEAN, left : FqLeft,
           crash : FqCrashes, wrong : FqWrongs]

Ended(r) == [k |-> "aborted", r |-> r]
Quiet == [k |-> "quiesce"]
Del == [k |-> "del"]

(* A command: what its state says of its resources and of those who wait. *)
ReqAt(w, r) ==
    LET q == w.req[r]
    IN  /\ q.st # "init"
        /\ q.st = "free" => ~q.xchg /\ ~q.buf /\ ~q.aborted /\ q.cbs = <<>> /\ ~q.del
        /\ q.st # "free" => r \notin w.air
        /\ q.cbs # <<>> \/ q.del \/ q.st = "aborted" => q.aborted
        /\ q.st = "pending" => ~q.aborted /\ ~q.xchg /\ ~q.buf
        /\ q.del => q.data # "aer"
        /\ q.data = "aer" => q.st \in {"free", "pending", "none_bdev", "aborted"}

(* The commands that wait are those of the queue. *)
PendingAt(w, h) ==
    /\ IsInjective(w.hw[h].pending)
    /\ {r \in FcSlots[h] : w.req[r].st = "pending"} = ToSet(w.hw[h].pending)

CapAt(w, h) == FcUsed(w, h, "xchg") <= w.left.xchgs /\ FcUsed(w, h, "buf") <= FcBuffers

(* Every aborted command has a message that ends it; two only when the
   quiesced hwqp has sent the second, and then the first frees it. *)
EndAt(w, h) ==
    LET s == w.hw[h].msgs
    IN  /\ At(s, Quiet) => ~w.hw[h].on
        /\ Once(s, Quiet)
        /\ \A r \in FcReqs :
              /\ r \in FcSlots[h] /\ w.req[r].st = "aborted" => At(s, Ended(r))
              /\ At(s, Ended(r)) =>
                    /\ r \in FcSlots[h]
                    /\ \/ w.req[r].st = "aborted"
                       \/ /\ ~w.hw[h].on /\ ~At(s, Quiet)
                          /\ \/ w.req[r].st \in InXfer /\ w.req[r].aborted
                             \/ w.dead /\ w.req[r].st = "free"
              /\ w.hw[h].on \/ At(s, Quiet) \/ ~w.dead => Once(s, Ended(r))

(* The deletion of a connection is a message, or commands that it waits
   for; a deleted connection has only event requests left. *)
DelSet(w, h) == {r \in FcSlots[h] : w.req[r].del}
ConnAt(w, h) ==
    LET s == w.hw[h].msgs
        conn == w.hw[h].conn
    IN  /\ At(s, Del) => conn = "deleting" /\ DelSet(w, h) = {} /\ Once(s, Del)
        /\ conn = "deleting" /\ ~At(s, Del) =>
              /\ DelSet(w, h) # {}
              /\ \A r \in FcSlots[h] : w.req[r].del \/ w.req[r].data = "aer" \/ w.req[r].st = "free"
        /\ conn # "deleting" => DelSet(w, h) = {}
        /\ conn = "deleted" => \A r \in FcSlots[h] : w.req[r].st = "free" \/ w.req[r].data = "aer"
        /\ w.hw[h].left = Cardinality(DelSet(w, h))

Core(w) ==
    /\ w \in FqType /\ w.crash = "no"
    /\ \A r \in FcReqs : ReqAt(w, r)
    /\ \A h \in FcHwqps : PendingAt(w, h) /\ CapAt(w, h) /\ EndAt(w, h)

---------------------------------------------------------------------------
(* Fields *)

(* A command has one hwqp. *)
LEMMA HomeOf ==
    /\ \A r \in FcReqs : HwqpOf(r) \in FcHwqps /\ r \in FcSlots[HwqpOf(r)]
    /\ \A h \in FcHwqps : FcSlots[h] \subseteq FcReqs /\ IsFiniteSet(FcSlots[h]) /\ \A r \in FcSlots[h] : HwqpOf(r) = h
    /\ IsFiniteSet(FcHwqps)
<1>1. \A h, k \in FcHwqps : h # k => FcSlots[h] \cap FcSlots[k] = {}
  BY FcSlotsAssumption
<1>2. \A r \in FcReqs : \E h \in FcHwqps : r \in FcSlots[h]
  BY DEF FcReqs
<1>3. \A r \in FcReqs : HwqpOf(r) \in FcHwqps /\ r \in FcSlots[HwqpOf(r)]
  BY <1>2 DEF HwqpOf
<1>4. \A h \in FcHwqps : FcSlots[h] \subseteq FcReqs
  BY DEF FcReqs
<1> QED BY <1>1, <1>3, <1>4, FcSlotsAssumption

(* The fields of a state. *)
LEMMA FqFields ==
    ASSUME NEW w \in FqType
    PROVE  /\ w.req \in [FcReqs -> FqReq] /\ w.hw \in [FcHwqps -> FqHw] /\ w.abts \in [AbtsIds -> FqAbts]
           /\ w.main \in Seq(FqMain) /\ w.air \in SUBSET FcReqs /\ w.markers \in SUBSET (AbtsIds \X FcHwqps)
           /\ w.dead \in BOOLEAN /\ w.left \in FqLeft /\ w.crash \in FqCrashes /\ w.wrong \in FqWrongs
  BY DEF FqType

(* And their parts. *)
LEMMA FqParts ==
    ASSUME NEW w \in FqType
    PROVE  /\ \A r \in FcReqs : /\ w.req[r] \in FqReq /\ w.req[r].st \in FqPhases /\ w.req[r].data \in FqKinds
                                /\ w.req[r].xchg \in BOOLEAN /\ w.req[r].buf \in BOOLEAN /\ w.req[r].aborted \in BOOLEAN
                                /\ w.req[r].cbs \in Seq(AbtsIds) /\ w.req[r].del \in BOOLEAN
           /\ \A h \in FcHwqps : /\ w.hw[h] \in FqHw /\ w.hw[h].on \in BOOLEAN /\ w.hw[h].msgs \in Seq(FqMsg)
                                 /\ w.hw[h].syncs \in SUBSET AbtsIds /\ w.hw[h].pending \in Seq(FcReqs)
                                 /\ w.hw[h].conn \in {"created", "deleting", "deleted"} /\ w.hw[h].left \in Nat
           /\ \A i \in AbtsIds : /\ w.abts[i] \in FqAbts /\ w.abts[i].st \in {"unused", "asked", "answered"}
                                 /\ w.abts[i].req \in FcReqs \cup {"none"} /\ w.abts[i].asked \in SUBSET FcHwqps
                                 /\ w.abts[i].waits \in Int /\ w.abts[i].handled \in BOOLEAN
                                 /\ w.abts[i].synced \in BOOLEAN
  BY FqFields DEF FqReq, FqHw, FqAbts

(* A state keeps its type when a field gets another value. *)
LEMMA FqRetyped ==
    ASSUME NEW w \in FqType
    PROVE  /\ \A x \in [FcReqs -> FqReq] : [w EXCEPT !.req = x] \in FqType
           /\ \A x \in [FcHwqps -> FqHw] : [w EXCEPT !.hw = x] \in FqType
           /\ \A x \in [AbtsIds -> FqAbts] : [w EXCEPT !.abts = x] \in FqType
           /\ \A x \in Seq(FqMain) : [w EXCEPT !.main = x] \in FqType
           /\ \A x \in SUBSET FcReqs : [w EXCEPT !.air = x] \in FqType
           /\ \A x \in SUBSET (AbtsIds \X FcHwqps) : [w EXCEPT !.markers = x] \in FqType
           /\ \A x \in FqLeft : [w EXCEPT !.left = x] \in FqType
           /\ \A x \in BOOLEAN : [w EXCEPT !.dead = x] \in FqType
           /\ \A x \in FqCrashes : [w EXCEPT !.crash = x] \in FqType
           /\ \A x \in FqWrongs : [w EXCEPT !.wrong = x] \in FqType
  BY DEF FqType

(* The fields that v shares with w, when only commands and hwqps differ. *)
Around(w, v) ==
    /\ v.abts = w.abts /\ v.main = w.main /\ v.air = w.air /\ v.markers = w.markers /\ v.dead = w.dead
    /\ v.left = w.left /\ v.crash = w.crash /\ v.wrong = w.wrong

(* A new value of the commands and of the hwqps. *)
Put(w, R, H) == [w EXCEPT !.req = R, !.hw = H]

(* The rest of the state stays. *)
LEMMA PutFacts ==
    ASSUME NEW w \in FqType, NEW R \in [FcReqs -> FqReq], NEW H \in [FcHwqps -> FqHw]
    PROVE  /\ Put(w, R, H) \in FqType /\ Put(w, R, H).req = R /\ Put(w, R, H).hw = H /\ Around(w, Put(w, R, H))
  BY DEF FqType, Put, Around

(* One command and one hwqp. *)
PutOne(w, r, q, h, x) == Put(w, [w.req EXCEPT ![r] = q], [w.hw EXCEPT ![h] = x])
OneChanged(w, v, r, q, h, x) ==
    /\ v \in FqType /\ Around(w, v)
    /\ v.req[r] = q /\ \A p \in FcReqs \ {r} : v.req[p] = w.req[p]
    /\ v.hw[h] = x /\ \A k \in FcHwqps \ {h} : v.hw[k] = w.hw[k]

(* The others stay. *)
LEMMA PutOneFacts ==
    ASSUME NEW w \in FqType, NEW r \in FcReqs, NEW q \in FqReq, NEW h \in FcHwqps, NEW x \in FqHw
    PROVE  OneChanged(w, PutOne(w, r, q, h, x), r, q, h, x)
<1> DEFINE R == [w.req EXCEPT ![r] = q]
           H == [w.hw EXCEPT ![h] = x]
<1>1. R \in [FcReqs -> FqReq] /\ R[r] = q /\ \A p \in FcReqs \ {r} : R[p] = w.req[p]
  BY FqFields
<1>2. H \in [FcHwqps -> FqHw] /\ H[h] = x /\ \A k \in FcHwqps \ {h} : H[k] = w.hw[k]
  BY FqFields
<1> HIDE DEF R, H
<1>3. /\ Put(w, R, H) \in FqType /\ Put(w, R, H).req = R /\ Put(w, R, H).hw = H /\ Around(w, Put(w, R, H))
  BY <1>1, <1>2, PutFacts
<1>4. OneChanged(w, Put(w, R, H), r, q, h, x)
  BY <1>1, <1>2, <1>3 DEF OneChanged
<1> QED BY <1>4 DEF PutOne, R, H

---------------------------------------------------------------------------
(* What a change leaves alone *)

(* The exchanges and buffers of a connection. *)
Holders(w, h, what) == {r \in FcSlots[h] : w.req[r][what]}
Capacities(w, h) == Cardinality(Holders(w, h, "xchg")) <= w.left.xchgs /\ Cardinality(Holders(w, h, "buf")) <= FcBuffers

(* What CapAt counts, as sets. *)
LEMMA CapIsCount ==
    ASSUME NEW w, NEW h
    PROVE  /\ CapAt(w, h) <=> Capacities(w, h)
           /\ Holders(w, h, "xchg") = {r \in FcSlots[h] : w.req[r].xchg}
           /\ Holders(w, h, "buf") = {r \in FcSlots[h] : w.req[r].buf}
  BY DEF CapAt, Capacities, FcUsed, Holders

(* Fewer of them are used. *)
LEMMA CapShrinks ==
    ASSUME NEW w, NEW v, NEW h \in FcHwqps, CapAt(w, h), w.left.xchgs \in Nat, v.left.xchgs = w.left.xchgs,
           \A r \in FcSlots[h] : (v.req[r].xchg => w.req[r].xchg) /\ (v.req[r].buf => w.req[r].buf)
    PROVE  CapAt(v, h)
<1> DEFINE X == {r \in FcSlots[h] : w.req[r].xchg}
           Y == {r \in FcSlots[h] : v.req[r].xchg}
           B == {r \in FcSlots[h] : w.req[r].buf}
           C == {r \in FcSlots[h] : v.req[r].buf}
<1>1. IsFiniteSet(X) /\ IsFiniteSet(B) /\ Y \subseteq X /\ C \subseteq B
  BY HomeOf, FS_Subset
<1>2. Cardinality(X) <= w.left.xchgs /\ Cardinality(B) <= FcBuffers
  BY CapIsCount DEF Capacities
<1> HIDE DEF X, Y, B, C
<1>3. Cardinality(Y) <= Cardinality(X) /\ Cardinality(C) <= Cardinality(B)
      /\ Cardinality(X) \in Nat /\ Cardinality(B) \in Nat /\ Cardinality(Y) \in Nat /\ Cardinality(C) \in Nat
  BY <1>1, FS_Subset, FS_CardinalityType
<1>4. Cardinality(Y) <= v.left.xchgs /\ Cardinality(C) <= FcBuffers
  BY <1>2, <1>3, FcReqCountsAssumption
<1> QED BY <1>4, CapIsCount DEF Capacities, Y, C

(* One more is used, of those that are left. *)
LEMMA CapGrows ==
    ASSUME NEW w \in FqType, NEW v, NEW r \in FcReqs, NEW h \in FcHwqps, r \in FcSlots[h], CapAt(w, h),
           FcCanExecute(w, r),
           v.left.xchgs = w.left.xchgs, \A p \in FcReqs \ {r} : v.req[p] = w.req[p],
           v.req[r].buf => w.req[r].data \in {"read", "write"} \/ w.req[r].buf
    PROVE  CapAt(v, h)
<1> DEFINE X == {p \in FcSlots[h] : w.req[p].xchg}
           Y == {p \in FcSlots[h] : v.req[p].xchg}
           B == {p \in FcSlots[h] : w.req[p].buf}
           C == {p \in FcSlots[h] : v.req[p].buf}
           more == w.req[r].data \in {"read", "write"}
<1>1. IsFiniteSet(X) /\ IsFiniteSet(B) /\ Y \subseteq X \cup {r} /\ C \subseteq B \cup {r} /\ (~more => C \subseteq B)
  BY HomeOf, FS_Subset
<1>2. Cardinality(X) <= w.left.xchgs /\ Cardinality(B) <= FcBuffers
  BY CapIsCount DEF Capacities
<1>3. Cardinality(X) < w.left.xchgs /\ (more => Cardinality(B) < FcBuffers)
  BY HomeOf, CapIsCount DEF FcCanExecute, FcUsed, Holders
<1>4. w.left.xchgs \in Nat /\ FcBuffers \in Nat
  BY FqFields, FcReqCountsAssumption DEF FqLeft
<1> HIDE DEF X, Y, B, C, more
<1>5. /\ Cardinality(X \cup {r}) <= Cardinality(X) + 1 /\ Cardinality(B \cup {r}) <= Cardinality(B) + 1
      /\ Cardinality(X) \in Nat /\ Cardinality(B) \in Nat /\ IsFiniteSet(X \cup {r}) /\ IsFiniteSet(B \cup {r})
      /\ Cardinality(X \cup {r}) \in Nat /\ Cardinality(B \cup {r}) \in Nat
  <2>1. ASSUME NEW T, IsFiniteSet(T)
        PROVE  /\ Cardinality(T \cup {r}) <= Cardinality(T) + 1 /\ Cardinality(T) \in Nat
               /\ IsFiniteSet(T \cup {r}) /\ Cardinality(T \cup {r}) \in Nat
    <3>1. IsFiniteSet(T \cup {r}) /\ Cardinality(T \cup {r}) = IF r \in T THEN Cardinality(T) ELSE Cardinality(T) + 1
      BY <2>1, FS_AddElement
    <3>2. Cardinality(T) \in Nat BY <2>1, FS_CardinalityType
    <3> QED BY <3>1, <3>2
  <2> QED BY <1>1, <2>1
<1>6. /\ Cardinality(Y) <= Cardinality(X \cup {r}) /\ Cardinality(C) <= Cardinality(B \cup {r})
      /\ (~more => Cardinality(C) <= Cardinality(B)) /\ Cardinality(Y) \in Nat /\ Cardinality(C) \in Nat
  BY <1>1, <1>5, FS_Subset, FS_CardinalityType
<1>7. Cardinality(Y) <= v.left.xchgs /\ Cardinality(C) <= FcBuffers
  BY <1>2, <1>3, <1>4, <1>5, <1>6
<1> QED BY <1>7, CapIsCount DEF Capacities, Y, C

(* Another hwqp keeps what it has. *)
LEMMA OtherHwqp ==
    ASSUME NEW w \in FqType, NEW v, NEW h \in FcHwqps, v.hw[h] = w.hw[h], v.dead = w.dead,
           v.left.xchgs = w.left.xchgs, \A r \in FcSlots[h] : v.req[r] = w.req[r]
    PROVE  /\ PendingAt(w, h) => PendingAt(v, h)
           /\ CapAt(w, h) => CapAt(v, h)
           /\ EndAt(w, h) => EndAt(v, h)
           /\ ConnAt(w, h) => ConnAt(v, h)
<1>1. w.left.xchgs \in Nat
  BY FqFields DEF FqLeft
<1>2. CapAt(w, h) => CapAt(v, h)
  BY <1>1, CapShrinks
<1>3. PendingAt(w, h) => PendingAt(v, h)
  BY DEF PendingAt
<1>4. ConnAt(w, h) => ConnAt(v, h)
  <2>1. DelSet(v, h) = DelSet(w, h)
    BY DEF DelSet
  <2> QED BY <2>1 DEF ConnAt
<1>5. EndAt(w, h) => EndAt(v, h)
  <2> SUFFICES ASSUME EndAt(w, h) PROVE EndAt(v, h)
    OBVIOUS
  <2>1. \A r \in FcReqs : r \in FcSlots[h] => v.req[r] = w.req[r]
    OBVIOUS
  <2> QED BY <2>1 DEF EndAt
<1> QED BY <1>2, <1>3, <1>4, <1>5

(* The same with what the deletion of a connection looks at. *)
SameDeletion(w, v, h) ==
    /\ v.hw[h].conn = w.hw[h].conn /\ v.hw[h].left = w.hw[h].left
    /\ At(v.hw[h].msgs, Del) <=> At(w.hw[h].msgs, Del)
    /\ Once(w.hw[h].msgs, Del) => Once(v.hw[h].msgs, Del)
    /\ \A r \in FcSlots[h] : /\ v.req[r].del = w.req[r].del
                             /\ v.req[r].st = "free" \/ (w.req[r].st # "free" /\ v.req[r].data = w.req[r].data)
                                \/ w.hw[h].conn = "created"

(* A deletion goes on where its commands stay. *)
LEMMA DeletionKept ==
    ASSUME NEW w \in FqType, NEW v, NEW h \in FcHwqps, ConnAt(w, h), SameDeletion(w, v, h)
    PROVE  ConnAt(v, h)
<1>1. DelSet(v, h) = DelSet(w, h)
  BY DEF SameDeletion, DelSet
<1>2. \A r \in FcSlots[h] : w.hw[h].conn # "created" /\ w.req[r].st = "free" => v.req[r].st = "free"
  BY DEF SameDeletion
<1>3. \A r \in FcSlots[h] : w.hw[h].conn # "created" /\ w.req[r].data = "aer"
      => v.req[r].data = "aer" \/ v.req[r].st = "free"
  BY DEF SameDeletion
<1> QED BY <1>1, <1>2, <1>3 DEF ConnAt, SameDeletion

(* The end of an abort as it was, and commands that keep their state or
   are neither aborted nor free on either side. *)
SameEnds(w, v, h) ==
    /\ v.hw[h].on = w.hw[h].on /\ v.dead = w.dead
    /\ At(v.hw[h].msgs, Quiet) <=> At(w.hw[h].msgs, Quiet)
    /\ Once(w.hw[h].msgs, Quiet) => Once(v.hw[h].msgs, Quiet)
    /\ \A r \in FcReqs : /\ At(v.hw[h].msgs, Ended(r)) <=> At(w.hw[h].msgs, Ended(r))
                         /\ Once(w.hw[h].msgs, Ended(r)) => Once(v.hw[h].msgs, Ended(r))

(* The ends of the aborts stay where their messages do. *)
LEMMA EndsKept ==
    ASSUME NEW w \in FqType, NEW v, NEW h \in FcHwqps, EndAt(w, h), SameEnds(w, v, h),
           \A r \in FcSlots[h] : \/ v.req[r].st = w.req[r].st /\ (w.req[r].aborted => v.req[r].aborted)
                                 \/ v.req[r].st # "aborted" /\ ~At(w.hw[h].msgs, Ended(r))
    PROVE  EndAt(v, h)
<1> DEFINE s == w.hw[h].msgs
           t == v.hw[h].msgs
<1>1. (At(t, Quiet) => ~v.hw[h].on) /\ Once(t, Quiet)
  BY DEF EndAt, SameEnds
<1>2. ASSUME NEW r \in FcReqs
      PROVE  /\ r \in FcSlots[h] /\ v.req[r].st = "aborted" => At(t, Ended(r))
             /\ At(t, Ended(r)) =>
                   /\ r \in FcSlots[h]
                   /\ \/ v.req[r].st = "aborted"
                      \/ /\ ~v.hw[h].on /\ ~At(t, Quiet)
                         /\ \/ v.req[r].st \in InXfer /\ v.req[r].aborted
                            \/ v.dead /\ v.req[r].st = "free"
             /\ v.hw[h].on \/ At(t, Quiet) \/ ~v.dead => Once(t, Ended(r))
  <2>1. (At(t, Ended(r)) <=> At(s, Ended(r))) /\ (Once(s, Ended(r)) => Once(t, Ended(r)))
        /\ v.hw[h].on = w.hw[h].on /\ v.dead = w.dead /\ (At(t, Quiet) <=> At(s, Quiet))
    BY DEF SameEnds
  <2>2. v.hw[h].on \/ At(t, Quiet) \/ ~v.dead => Once(t, Ended(r))
    BY <2>1 DEF EndAt
  <2>3. CASE r \notin FcSlots[h]
    BY <2>1, <2>2, <2>3 DEF EndAt
  <2>4. CASE r \in FcSlots[h] /\ v.req[r].st = w.req[r].st /\ (w.req[r].aborted => v.req[r].aborted)
    BY <2>1, <2>2, <2>4 DEF EndAt
  <2>5. CASE r \in FcSlots[h] /\ v.req[r].st # "aborted" /\ ~At(w.hw[h].msgs, Ended(r))
    BY <2>1, <2>2, <2>5
  <2> QED BY <2>3, <2>4, <2>5
<1> QED BY <1>1, <1>2 DEF EndAt

(* The queue as it was, with new messages of other kinds behind it. *)
LEMMA KindsDiffer ==
    /\ \A r, p : Ended(r) = Ended(p) => r = p
    /\ \A r : Ended(r) # Quiet /\ Ended(r) # Del
    /\ \A r, k, i : Note(k, i) # Ended(r)
    /\ \A k, i : Note(k, i) # Quiet /\ Note(k, i) # Del
    /\ \A k, i, l, j : Note(k, i) = Note(l, j) => k = l /\ i = j
    /\ Quiet # Del
<1>1. \A r : Ended(r).k = "aborted" /\ Ended(r).r = r
  BY DEF Ended
<1>2. Quiet.k = "quiesce" /\ Del.k = "del"
  BY DEF Quiet, Del
<1>3. \A k, i : Note(k, i).i = i /\ Note(k, i).k = k
  BY DEF Note
<1>4. \A k, i : DOMAIN Note(k, i) = {"k", "i"}
  BY DEF Note
<1>5. \A r : DOMAIN Ended(r) = {"k", "r"}
  BY DEF Ended
<1>6. DOMAIN Quiet = {"k"} /\ DOMAIN Del = {"k"}
  BY DEF Quiet, Del
<1>7. \A r, k, i : Note(k, i) # Ended(r)
  BY <1>4, <1>5
<1>8. \A k, i : Note(k, i) # Quiet /\ Note(k, i) # Del
  BY <1>4, <1>6
<1> QED BY <1>1, <1>2, <1>3, <1>7, <1>8

---------------------------------------------------------------------------
(* The invariant of the ABTS frames *)

Found(i, h) == [k |-> "abts", i |-> i, h |-> h, found |-> TRUE]
NotFound(i, h) == [k |-> "abts", i |-> i, h |-> h, found |-> FALSE]
QueueSynced(i, h) == [k |-> "synced", i |-> i, h |-> h]
Gone(w, r) == w.req[r].st = "free" /\ r \notin w.air

(* Where the question to a hwqp is: sent to it, with a command, answered;
   or the synchronisation of its queue: with the HBA, done, reported. *)
Asking(w, i, h) == At(w.hw[h].msgs, Note("abts", i))
Waiting(w, i, h) == w.abts[i].req \in FcSlots[h] /\ At(w.req[w.abts[i].req].cbs, i)
Answered(w, i, h) == At(w.main, Found(i, h)) \/ At(w.main, NotFound(i, h))
Marked(w, i, h) == <<i, h>> \in w.markers \/ At(w.hw[h].msgs, Note("sync_done", i))
AbtsPart(w, i, h) == Asking(w, i, h) \/ Waiting(w, i, h) \/ Answered(w, i, h)
SyncPart(w, i, h) == Marked(w, i, h) \/ At(w.main, QueueSynced(i, h))
OpenAt(w, i) == {h \in FcHwqps : AbtsPart(w, i, h) \/ SyncPart(w, i, h)}
Syncing(w, i) == \E h \in FcHwqps : SyncPart(w, i, h)

(* It is in one place, once, and the HBA's report finds what announced it. *)
PlacesAt(w, i, h) ==
    LET s == w.hw[h].msgs
    IN  /\ Once(s, Note("abts", i)) /\ Once(s, Note("sync", i)) /\ Once(s, Note("sync_done", i))
        /\ Once(w.main, Found(i, h)) /\ Once(w.main, NotFound(i, h)) /\ Once(w.main, QueueSynced(i, h))
        /\ Asking(w, i, h) => ~Waiting(w, i, h) /\ ~Answered(w, i, h)
        /\ Waiting(w, i, h) => ~Answered(w, i, h)
        /\ At(w.main, Found(i, h)) => ~At(w.main, NotFound(i, h))
        /\ <<i, h>> \in w.markers => ~At(s, Note("sync_done", i))
        /\ Marked(w, i, h) => ~At(w.main, QueueSynced(i, h))
        /\ At(s, Note("sync", i)) => Marked(w, i, h) /\ i \notin w.hw[h].syncs
        /\ i \in w.hw[h].syncs => Marked(w, i, h)
        /\ <<i, h>> \in w.markers => i \in w.hw[h].syncs \/ At(s, Note("sync", i))
        /\ i \notin w.hw[h].syncs => Ordered(s, i)

(* Only the command that it is about is told of it. *)
ToldAt(w, i) ==
    \A r \in FcReqs : /\ Once(w.req[r].cbs, i)
                      /\ At(w.req[r].cbs, i) => w.abts[i].st = "asked" /\ r = w.abts[i].req

(* An ABTS counts its questions; a command that was found is gone, and one
   that was not found in synchronised queues cannot appear any more. *)
FrameAt(w, i) ==
    LET b == w.abts[i]
    IN  /\ OpenAt(w, i) \subseteq b.asked /\ b.waits = Cardinality(OpenAt(w, i))
        /\ b.st = "asked" <=> OpenAt(w, i) # {}
        /\ b.st = "unused" => b = NewAbts
        /\ b.st # "unused" => b.req \in FcReqs
        /\ \A h, k \in FcHwqps : ~(AbtsPart(w, i, h) /\ SyncPart(w, i, k))
TruthAt(w, i) ==
    LET b == w.abts[i]
        home == HwqpOf(b.req)
    IN  b.st = "asked" =>
        /\ b.handled \/ (\E h \in FcHwqps : At(w.main, Found(i, h))) => Gone(w, b.req)
        /\ home \notin b.asked => w.hw[home].conn = "deleted"
        /\ Syncing(w, i) => ~b.handled /\ ~b.synced
        /\ home \in b.asked =>
              /\ Syncing(w, i) /\ <<i, home>> \notin w.markers => b.req \notin w.air
              /\ b.synced => b.req \notin w.air
              /\ b.synced /\ ~Asking(w, i, home) /\ ~Waiting(w, i, home) =>
                    Gone(w, b.req) \/ w.hw[home].conn = "deleted"
AbtsAt(w, i) == (\A h \in FcHwqps : PlacesAt(w, i, h)) /\ ToldAt(w, i) /\ FrameAt(w, i) /\ TruthAt(w, i)

TruthOf(w) == "accept" \notin w.wrong /\ (w.left.sync => "reject" \notin w.wrong)
Sound(w) == Core(w) /\ (\A h \in FcHwqps : ConnAt(w, h)) /\ (\A i \in AbtsIds : AbtsAt(w, i)) /\ TruthOf(w)
FqInv(w) == (w.crash # "no" /\ w.dead) \/ Sound(w)

---------------------------------------------------------------------------
(* Steps that no ABTS is concerned with *)

(* Messages of an ABTS that stay, in a queue that may have changed else. *)
NotesKept(s, t) ==
    \A i \in AbtsIds : /\ \A k \in {"abts", "sync", "sync_done"} :
                             /\ At(t, Note(k, i)) <=> At(s, Note(k, i))
                             /\ Once(s, Note(k, i)) => Once(t, Note(k, i))
                       /\ Ordered(s, i) => Ordered(t, i)

(* A queue that stays keeps its messages. *)
LEMMA NotesStay == \A s : NotesKept(s, s)
  BY DEF NotesKept

NotesTheSame(w, v, i, h) ==
    /\ Asking(v, i, h) <=> Asking(w, i, h)
    /\ At(v.hw[h].msgs, Note("sync", i)) <=> At(w.hw[h].msgs, Note("sync", i))
    /\ At(v.hw[h].msgs, Note("sync_done", i)) <=> At(w.hw[h].msgs, Note("sync_done", i))
    /\ Once(w.hw[h].msgs, Note("abts", i)) => Once(v.hw[h].msgs, Note("abts", i))
    /\ Once(w.hw[h].msgs, Note("sync", i)) => Once(v.hw[h].msgs, Note("sync", i))
    /\ Once(w.hw[h].msgs, Note("sync_done", i)) => Once(v.hw[h].msgs, Note("sync_done", i))
    /\ Ordered(w.hw[h].msgs, i) => Ordered(v.hw[h].msgs, i)

(* What a queue that keeps its messages says of one ABTS. *)
LEMMA NotesAre ==
    ASSUME NEW w, NEW v, NEW h, NotesKept(w.hw[h].msgs, v.hw[h].msgs), NEW i \in AbtsIds
    PROVE  NotesTheSame(w, v, i, h)
  BY DEF NotesKept, NotesTheSame, Asking

NotAsked(w, r) == \A i \in AbtsIds : w.abts[i].req = r => w.abts[i].st # "asked"

(* All that an ABTS looks at. *)
SameAbts(w, v) ==
    /\ v.abts = w.abts /\ v.main = w.main /\ v.markers = w.markers
    /\ \A h \in FcHwqps : /\ v.hw[h].syncs = w.hw[h].syncs /\ NotesKept(w.hw[h].msgs, v.hw[h].msgs)
                          /\ w.hw[h].conn = "deleted" => v.hw[h].conn = "deleted"
    /\ \A r \in FcReqs : /\ v.req[r].cbs = w.req[r].cbs
                         /\ NotAsked(w, r) \/ ((r \notin w.air => r \notin v.air) /\ (Gone(w, r) => Gone(v, r)))

(* Such a step keeps every ABTS. *)
LEMMA AbtsKept ==
    ASSUME NEW w \in FqType, NEW v, SameAbts(w, v), NEW i \in AbtsIds, AbtsAt(w, i)
    PROVE  AbtsAt(v, i)
<1> DEFINE b == w.abts[i]
           home == HwqpOf(b.req)
<1>1. v.abts[i] = b /\ v.main = w.main /\ v.markers = w.markers
  BY DEF SameAbts
<1>2. \A h \in FcHwqps : NotesTheSame(w, v, i, h) /\ v.hw[h].syncs = w.hw[h].syncs
  BY NotesAre DEF SameAbts
<1>3. \A h \in FcHwqps : Waiting(v, i, h) <=> Waiting(w, i, h)
  BY <1>1, HomeOf DEF Waiting, SameAbts
<1>4. \A h \in FcHwqps : /\ Asking(v, i, h) <=> Asking(w, i, h)
                         /\ Answered(v, i, h) <=> Answered(w, i, h)
                         /\ Marked(v, i, h) <=> Marked(w, i, h)
  BY <1>1, <1>2 DEF Answered, Marked, NotesTheSame
<1>5. \A h \in FcHwqps : /\ AbtsPart(v, i, h) <=> AbtsPart(w, i, h)
                         /\ SyncPart(v, i, h) <=> SyncPart(w, i, h)
  BY <1>1, <1>3, <1>4 DEF AbtsPart, SyncPart
<1>6. OpenAt(v, i) = OpenAt(w, i) /\ (Syncing(v, i) <=> Syncing(w, i))
  BY <1>5 DEF OpenAt, Syncing
<1>7. ASSUME NEW h \in FcHwqps PROVE PlacesAt(v, i, h)
  <2>1. PlacesAt(w, i, h)
    BY DEF AbtsAt
  <2> QED BY <1>1, <1>2, <1>3, <1>4, <2>1 DEF PlacesAt, NotesTheSame
<1>8. ToldAt(v, i)
  BY <1>1 DEF AbtsAt, ToldAt, SameAbts
<1>9. FrameAt(v, i)
  BY <1>1, <1>5, <1>6 DEF AbtsAt, FrameAt
<1>10. TruthAt(v, i)
  <2> SUFFICES ASSUME b.st = "asked" PROVE TruthAt(v, i)
    BY <1>1 DEF TruthAt
  <2>1. b.req \in FcReqs /\ home \in FcHwqps
    BY HomeOf DEF AbtsAt, FrameAt
  <2>2. (b.req \notin w.air => b.req \notin v.air) /\ (Gone(w, b.req) => Gone(v, b.req))
    BY <2>1 DEF SameAbts, NotAsked
  <2>3. w.hw[home].conn = "deleted" => v.hw[home].conn = "deleted"
    BY <2>1 DEF SameAbts
  <2>4. TruthAt(w, i)
    BY DEF AbtsAt
  <2>5. (Asking(v, i, home) <=> Asking(w, i, home)) /\ (Waiting(v, i, home) <=> Waiting(w, i, home))
        /\ (Marked(v, i, home) <=> Marked(w, i, home))
    BY <1>3, <1>4, <2>1
  <2> QED BY <1>1, <1>6, <2>2, <2>3, <2>4, <2>5 DEF TruthAt
<1> QED BY <1>7, <1>8, <1>9, <1>10 DEF AbtsAt

---------------------------------------------------------------------------
(* A step of one command at its hwqp *)

(* One of the bounds is spent. *)
LEMMA SpendFacts ==
    ASSUME NEW w \in FqType, NEW what \in {"max", "abts", "dels", "faults"}, w.left[what] > 0
    PROVE  /\ FcSpend(w, what) \in FqType /\ FcSpend(w, what).left.sync = w.left.sync
           /\ FcSpend(w, what).left.xchgs = w.left.xchgs
           /\ FcSpend(w, what).req = w.req /\ FcSpend(w, what).hw = w.hw /\ FcSpend(w, what).abts = w.abts
           /\ FcSpend(w, what).main = w.main /\ FcSpend(w, what).air = w.air /\ FcSpend(w, what).markers = w.markers
           /\ FcSpend(w, what).dead = w.dead /\ FcSpend(w, what).crash = w.crash /\ FcSpend(w, what).wrong = w.wrong
<1> DEFINE x == [w.left EXCEPT ![what] = @ - 1]
           v == [w EXCEPT !.left = x]
<1>1. w.left \in FqLeft
  BY FqFields
<1>2. x \in FqLeft /\ x.sync = w.left.sync /\ x.xchgs = w.left.xchgs
  <2>1. CASE what = "max"
    BY <1>1, <2>1 DEF FqLeft
  <2>2. CASE what = "abts"
    BY <1>1, <2>2 DEF FqLeft
  <2>3. CASE what = "dels"
    BY <1>1, <2>3 DEF FqLeft
  <2>4. CASE what = "faults"
    BY <1>1, <2>4 DEF FqLeft
  <2> QED BY <2>1, <2>2, <2>3, <2>4
<1> HIDE DEF x
<1>3. v \in FqType
  BY <1>2, FqRetyped
<1>4. /\ v.left = x /\ v.req = w.req /\ v.hw = w.hw /\ v.abts = w.abts /\ v.main = w.main /\ v.air = w.air
      /\ v.markers = w.markers /\ v.dead = w.dead /\ v.crash = w.crash /\ v.wrong = w.wrong
  BY DEF FqType
<1>5. FcSpend(w, what) = v
  BY DEF FcSpend, x
<1> QED BY <1>2, <1>3, <1>4, <1>5

(* What the invariant looks at besides commands, hwqps and ABTS. *)
Background(w, v) ==
    /\ v \in FqType /\ v.crash = "no" /\ v.dead = w.dead /\ v.wrong = w.wrong
    /\ v.left.sync = w.left.sync /\ v.left.xchgs = w.left.xchgs

(* Only r and its hwqp change. *)
OneStep(w, v, r) ==
    /\ Background(w, v)
    /\ \A p \in FcReqs \ {r} : v.req[p] = w.req[p] /\ (p \notin w.air => p \notin v.air)
    /\ \A k \in FcHwqps \ {HwqpOf(r)} : v.hw[k] = w.hw[k]
HwqpAt(w, h) == PendingAt(w, h) /\ CapAt(w, h) /\ EndAt(w, h) /\ ConnAt(w, h)

(* It keeps the invariant if it does around the command. *)
LEMMA OneStepSound ==
    ASSUME NEW w, Sound(w), NEW v, NEW r \in FcReqs, OneStep(w, v, r),
           ReqAt(v, r), HwqpAt(v, HwqpOf(r)), \A i \in AbtsIds : AbtsAt(v, i)
    PROVE  Sound(v)
<1>1. w \in FqType /\ HwqpOf(r) \in FcHwqps
  BY HomeOf DEF Sound, Core
<1>2. ASSUME NEW p \in FcReqs \ {r} PROVE ReqAt(v, p)
  <2>1. ReqAt(w, p) /\ v.req[p] = w.req[p] /\ (p \notin w.air => p \notin v.air)
    BY DEF Sound, Core, OneStep
  <2> QED BY <2>1 DEF ReqAt
<1>3. ASSUME NEW k \in FcHwqps \ {HwqpOf(r)} PROVE HwqpAt(v, k)
  <2>1. HwqpAt(w, k)
    BY DEF Sound, Core, HwqpAt
  <2>2. \A p \in FcSlots[k] : v.req[p] = w.req[p]
    BY HomeOf DEF OneStep
  <2>3. v.hw[k] = w.hw[k] /\ v.dead = w.dead /\ v.left.xchgs = w.left.xchgs
    BY DEF OneStep, Background
  <2> QED BY <1>1, <2>1, <2>2, <2>3, OtherHwqp DEF HwqpAt
<1>4. TruthOf(v)
  BY DEF Sound, TruthOf, OneStep, Background
<1>5. v \in FqType /\ v.crash = "no"
  BY DEF OneStep, Background
<1>6. (\A p \in FcReqs : ReqAt(v, p)) /\ \A k \in FcHwqps : HwqpAt(v, k)
  BY <1>2, <1>3
<1> QED BY <1>4, <1>5, <1>6 DEF Sound, Core, HwqpAt

(* The same for a step that does not concern the ABTS. *)
SameFrames(w, v, r) ==
    /\ v.abts = w.abts /\ v.main = w.main /\ v.markers = w.markers
    /\ LET h == HwqpOf(r)
       IN  /\ v.hw[h].syncs = w.hw[h].syncs /\ NotesKept(w.hw[h].msgs, v.hw[h].msgs)
           /\ w.hw[h].conn = "deleted" => v.hw[h].conn = "deleted"
    /\ v.req[r].cbs = w.req[r].cbs
    /\ NotAsked(w, r) \/ ((r \notin w.air => r \notin v.air) /\ (Gone(w, r) => Gone(v, r)))

(* It disturbs no ABTS. *)
LEMMA OneStepKeepsAbts ==
    ASSUME NEW w, Sound(w), NEW v, NEW r \in FcReqs, OneStep(w, v, r), SameFrames(w, v, r)
    PROVE  \A i \in AbtsIds : AbtsAt(v, i)
<1>1. \A h \in FcHwqps : /\ v.hw[h].syncs = w.hw[h].syncs /\ NotesKept(w.hw[h].msgs, v.hw[h].msgs)
                         /\ w.hw[h].conn = "deleted" => v.hw[h].conn = "deleted"
  BY NotesStay DEF OneStep, SameFrames
<1>2. \A p \in FcReqs \ {r} : v.req[p].cbs = w.req[p].cbs /\ (p \notin w.air => p \notin v.air) /\ (Gone(w, p)
      => Gone(v, p))
  BY DEF OneStep, Gone
<1>3. SameAbts(w, v)
  BY <1>1, <1>2 DEF SameAbts, SameFrames
<1>4. w \in FqType /\ \A i \in AbtsIds : AbtsAt(w, i)
  BY DEF Sound, Core
<1> QED BY <1>3, <1>4, AbtsKept

---------------------------------------------------------------------------
(* The host's commands *)

(* A command in the air is free. *)
LEMMA SendKeeps ==
    ASSUME Sound(fcr), NEW r \in FcReqs, NEW data \in fcr.left.cmds, FcSend(r, data)
    PROVE  Sound(fcr')
<1> DEFINE w == fcr
           v == fcr'
           h == HwqpOf(r)
           q == [w.req[r] EXCEPT !.data = data]
           a == FcSpend(w, "max")
<1>1. w \in FqType /\ h \in FcHwqps /\ r \in FcSlots[h] /\ w.req[r] \in FqReq /\ data \in FqKinds /\ w.crash = "no"
  <2>1. w \in FqType /\ w.crash = "no"
    BY DEF Sound, Core
  <2> QED BY <2>1, HomeOf, FqFields, FqParts DEF FqLeft
<1>2. /\ w.left.max > 0 /\ w.req[r].st = "free" /\ r \notin w.air /\ w.hw[h].conn = "created"
      /\ NotAsked(w, r)
      /\ v = [a EXCEPT !.air = @ \cup {r}, !.req[r].data = data]
  BY DEF FcSend, NotAsked, AbtsIds
<1>3. /\ a \in FqType /\ a.left.sync = w.left.sync /\ a.left.xchgs = w.left.xchgs
      /\ a.req = w.req /\ a.hw = w.hw /\ a.abts = w.abts /\ a.main = w.main /\ a.air = w.air
      /\ a.markers = w.markers /\ a.dead = w.dead /\ a.crash = w.crash /\ a.wrong = w.wrong
  <2>1. w.left["max"] > 0
    BY <1>2
  <2> QED BY <1>1, <2>1, SpendFacts
<1> HIDE DEF a
<1>4. q \in FqReq /\ q.data = data /\ q.st = w.req[r].st /\ q.xchg = w.req[r].xchg /\ q.buf = w.req[r].buf
      /\ q.aborted = w.req[r].aborted /\ q.cbs = w.req[r].cbs /\ q.del = w.req[r].del
  BY <1>1 DEF FqReq
<1>5. /\ v \in FqType /\ v.req = [w.req EXCEPT ![r] = q] /\ v.air = w.air \cup {r} /\ v.hw = w.hw
      /\ v.abts = w.abts /\ v.main = w.main /\ v.markers = w.markers /\ v.dead = w.dead /\ v.left = a.left
      /\ v.crash = w.crash /\ v.wrong = w.wrong
  <2> DEFINE R == [w.req EXCEPT ![r] = q]
  <2>1. R \in [FcReqs -> FqReq]
    BY <1>1, <1>4, FqFields
  <2>2. v = [[a EXCEPT !.air = w.air \cup {r}] EXCEPT !.req = R]
    BY <1>2, <1>3
  <2>3. w.air \cup {r} \in SUBSET FcReqs
    BY <1>1, FqFields
  <2> DEFINE air == w.air \cup {r}
             u == [a EXCEPT !.air = air]
  <2> HIDE DEF R, q, w, v, air
  <2>4. u \in FqType
    BY <1>3, <2>3, FqRetyped DEF air
  <2>5. u.air = air /\ u.hw = a.hw /\ u.abts = a.abts /\ u.main = a.main /\ u.markers = a.markers /\ u.dead = a.dead
        /\ u.left = a.left /\ u.crash = a.crash /\ u.wrong = a.wrong
    BY <1>3 DEF FqType
  <2>6. v = [u EXCEPT !.req = R]
    BY <2>2 DEF air
  <2> HIDE DEF u
  <2>7. v \in FqType
    BY <2>1, <2>4, <2>6, FqRetyped
  <2>8. v.req = R /\ v.air = u.air /\ v.hw = u.hw /\ v.abts = u.abts /\ v.main = u.main /\ v.markers = u.markers
        /\ v.dead = u.dead /\ v.left = u.left /\ v.crash = u.crash /\ v.wrong = u.wrong
    BY <2>4, <2>6 DEF FqType
  <2> QED BY <1>3, <2>5, <2>7, <2>8 DEF R, air
<1>6. v.req[r] = q /\ \A p \in FcReqs \ {r} : v.req[p] = w.req[p]
  BY <1>1, <1>4, <1>5, FqFields
<1> HIDE DEF w, v, q, h
<1>7. OneStep(w, v, r)
  BY <1>1, <1>3, <1>5, <1>6 DEF OneStep, Background
<1>8. SameFrames(w, v, r)
  BY <1>1, <1>2, <1>4, <1>5, <1>6, NotesStay DEF SameFrames, h
<1>9. ReqAt(w, r) /\ HwqpAt(w, h)
  BY <1>1 DEF Sound, Core, HwqpAt, w
<1>10. ReqAt(v, r)
  BY <1>2, <1>4, <1>6, <1>9 DEF ReqAt
<1>11. HwqpAt(v, h)
  <2>1. \A p \in FcSlots[h] : p \in FcReqs
    BY <1>1, HomeOf
  <2>2. PendingAt(v, h)
    <3>1. \A p \in FcSlots[h] : v.req[p].st = w.req[p].st BY <1>4, <1>6, <2>1
    <3> QED BY <1>5, <1>9, <3>1 DEF HwqpAt, PendingAt
  <2>3. CapAt(v, h)
    <3>1. \A p \in FcSlots[h] : (v.req[p].xchg => w.req[p].xchg) /\ (v.req[p].buf => w.req[p].buf)
      BY <1>4, <1>6, <2>1
    <3>2. w.left.xchgs \in Nat BY <1>1, FqFields DEF FqLeft
    <3> QED BY <1>1, <1>3, <1>5, <1>9, <3>1, <3>2, CapShrinks DEF HwqpAt
  <2>4. EndAt(v, h)
    <3>1. SameEnds(w, v, h) BY <1>5 DEF SameEnds
    <3>2. \A p \in FcSlots[h] : v.req[p].st = w.req[p].st /\ (w.req[p].aborted => v.req[p].aborted)
      BY <1>4, <1>6, <2>1
    <3> QED BY <1>1, <1>9, <3>1, <3>2, EndsKept DEF HwqpAt
  <2>5. ConnAt(v, h)
    <3>1. SameDeletion(w, v, h) BY <1>2, <1>4, <1>5, <1>6, <2>1 DEF SameDeletion
    <3> QED BY <1>1, <1>9, <3>1, DeletionKept DEF HwqpAt
  <2> QED BY <2>2, <2>3, <2>4, <2>5 DEF HwqpAt
<1> QED BY <1>7, <1>8, <1>10, <1>11, OneStepSound, OneStepKeepsAbts DEF w, v, h

(* A command and its hwqp, the frames in the air and the bounds change. *)
Moved(w, r, q, x, air, left) ==
    [w EXCEPT !.req = [w.req EXCEPT ![r] = q], !.hw = [w.hw EXCEPT ![HwqpOf(r)] = x], !.air = air, !.left = left]
HasMoved(w, v, r, q, x, air, left) ==
    /\ v \in FqType /\ v.req[r] = q /\ v.hw[HwqpOf(r)] = x /\ v.air = air /\ v.left = left
    /\ \A p \in FcReqs \ {r} : v.req[p] = w.req[p]
    /\ \A k \in FcHwqps \ {HwqpOf(r)} : v.hw[k] = w.hw[k]
    /\ v.abts = w.abts /\ v.main = w.main /\ v.markers = w.markers /\ v.dead = w.dead
    /\ v.crash = w.crash /\ v.wrong = w.wrong

(* The fields of such a state. *)
LEMMA MovedFacts ==
    ASSUME NEW w \in FqType, NEW r \in FcReqs, NEW q \in FqReq, NEW x \in FqHw, NEW air \in SUBSET FcReqs,
           NEW left \in FqLeft
    PROVE  HasMoved(w, Moved(w, r, q, x, air, left), r, q, x, air, left)
<1> DEFINE R == [w.req EXCEPT ![r] = q]
           H == [w.hw EXCEPT ![HwqpOf(r)] = x]
           v == [w EXCEPT !.req = R, !.hw = H, !.air = air, !.left = left]
<1>1. R \in [FcReqs -> FqReq] /\ R[r] = q /\ \A p \in FcReqs \ {r} : R[p] = w.req[p]
  BY FqFields
<1>2. H \in [FcHwqps -> FqHw] /\ H[HwqpOf(r)] = x /\ \A k \in FcHwqps \ {HwqpOf(r)} : H[k] = w.hw[k]
  BY FqFields, HomeOf
<1> HIDE DEF R, H
<1>3. v \in FqType
  BY <1>1, <1>2 DEF FqType
<1>4. v.req = R /\ v.hw = H /\ v.air = air /\ v.left = left /\ v.abts = w.abts /\ v.main = w.main
      /\ v.markers = w.markers /\ v.dead = w.dead /\ v.crash = w.crash /\ v.wrong = w.wrong
  BY DEF FqType
<1>5. Moved(w, r, q, x, air, left) = v
  BY DEF Moved, R, H
<1> HIDE DEF v
<1> QED BY <1>1, <1>2, <1>3, <1>4, <1>5 DEF HasMoved

(* A step that leaves the hwqp but for the queue of waiting commands, and
   gives the command a state in which it is not aborted. *)
Reached(w, v, r) ==
    LET h == HwqpOf(r)
    IN  /\ v.hw[h].on = w.hw[h].on /\ v.hw[h].msgs = w.hw[h].msgs /\ v.hw[h].syncs = w.hw[h].syncs
        /\ v.hw[h].conn = w.hw[h].conn /\ v.hw[h].left = w.hw[h].left
        /\ v.req[r].st # "aborted" /\ ~At(w.hw[h].msgs, Ended(r))
        /\ v.req[r].del = w.req[r].del /\ v.req[r].cbs = w.req[r].cbs
        /\ v.req[r].st = "free" \/ (w.req[r].st # "free" /\ v.req[r].data = w.req[r].data) \/ w.hw[h].conn = "created"

(* A command that moves on keeps the invariant. *)
LEMMA ReachedSound ==
    ASSUME NEW w, Sound(w), NEW v, NEW r \in FcReqs, OneStep(w, v, r), Reached(w, v, r),
           v.abts = w.abts, v.main = w.main, v.markers = w.markers,
           (r \notin w.air => r \notin v.air) /\ (Gone(w, r) => Gone(v, r)),
           ReqAt(v, r), PendingAt(v, HwqpOf(r)), CapAt(v, HwqpOf(r))
    PROVE  Sound(v)
<1> DEFINE h == HwqpOf(r)
<1>1. w \in FqType /\ h \in FcHwqps /\ r \in FcSlots[h] /\ \A p \in FcSlots[h] : p \in FcReqs
  BY HomeOf DEF Sound, Core
<1>2. EndAt(w, h) /\ ConnAt(w, h)
  BY <1>1 DEF Sound, Core
<1> HIDE DEF h
<1>3. EndAt(v, h)
  <2>1. SameEnds(w, v, h)
    BY DEF SameEnds, Reached, OneStep, Background, h
  <2>2. \A p \in FcSlots[h] : \/ v.req[p].st = w.req[p].st /\ (w.req[p].aborted => v.req[p].aborted)
                              \/ v.req[p].st # "aborted" /\ ~At(w.hw[h].msgs, Ended(p))
    BY <1>1 DEF OneStep, Reached, h
  <2> QED BY <1>1, <1>2, <2>1, <2>2, EndsKept
<1>4. ConnAt(v, h)
  <2>1. SameDeletion(w, v, h)
    BY <1>1 DEF SameDeletion, Reached, OneStep, h
  <2> QED BY <1>1, <1>2, <2>1, DeletionKept
<1>5. SameFrames(w, v, r)
  BY NotesStay DEF SameFrames, Reached
<1>6. HwqpAt(v, HwqpOf(r))
  BY <1>3, <1>4 DEF HwqpAt, h
<1> QED BY <1>5, <1>6, OneStepSound, OneStepKeepsAbts

(* The commands that wait stay the same. *)
LEMMA PendingSame ==
    ASSUME NEW w, NEW v, NEW h \in FcHwqps, PendingAt(w, h), v.hw[h].pending = w.hw[h].pending,
           \A p \in FcSlots[h] : v.req[p].st = "pending" <=> w.req[p].st = "pending"
    PROVE  PendingAt(v, h)
  BY DEF PendingAt

(* The execution of a command, by its data. *)
Executed(q) ==
    [q EXCEPT !.xchg = TRUE, !.buf = (q.data \in {"read", "write"}),
              !.st = CASE q.data = "write" -> "write_xfer" [] q.data = "read" -> "read_bdev" [] OTHER -> "none_bdev"]

(* The fields of a command that is executed. *)
LEMMA ExecutedFacts ==
    ASSUME NEW q \in FqReq
    PROVE  /\ Executed(q) \in FqReq /\ Executed(q).data = q.data /\ Executed(q).aborted = q.aborted
           /\ Executed(q).cbs = q.cbs /\ Executed(q).del = q.del /\ Executed(q).st \in InBdev \cup InXfer
           /\ Executed(q).buf = (q.data \in {"read", "write"})
           /\ q.data = "aer" => Executed(q).st = "none_bdev"
<1> DEFINE st == CASE q.data = "write" -> "write_xfer" [] q.data = "read" -> "read_bdev" [] OTHER -> "none_bdev"
           buf == q.data \in {"read", "write"}
<1>1. st \in InBdev \cup InXfer /\ (q.data = "aer" => st = "none_bdev") /\ buf \in BOOLEAN
  BY DEF InBdev, InXfer
<1>2. Executed(q) = [q EXCEPT !.xchg = TRUE, !.buf = buf, !.st = st]
  BY DEF Executed
<1> HIDE DEF st
<1>3. st \in FqPhases
  BY <1>1 DEF FqPhases
<1> QED BY <1>1, <1>2, <1>3 DEF FqReq

(* nvmf_fc_request_execute leaves the command executed. *)
LEMMA ExecuteIs ==
    ASSUME NEW w \in FqType, NEW r \in FcReqs
    PROVE  FcExecute(w, r, FALSE) = [w EXCEPT !.req = [w.req EXCEPT ![r] = Executed(w.req[r])]]
<1> DEFINE q == w.req[r]
           used == [q EXCEPT !.xchg = TRUE, !.buf = (q.data \in {"read", "write"})]
           taken == [w EXCEPT !.req = [w.req EXCEPT ![r] = used]]
<1>1. q \in FqReq /\ w.req \in [FcReqs -> FqReq]
  BY FqFields
<1>2. \A st : SetFcReq(taken, r, st) = [w EXCEPT !.req = [w.req EXCEPT ![r] = [used EXCEPT !.st = st]]]
  BY <1>1 DEF SetFcReq, FqType
<1>3. \A st : [used EXCEPT !.st = st] = [q EXCEPT !.xchg = TRUE, !.buf = (q.data \in {"read", "write"}), !.st = st]
  BY <1>1 DEF FqReq
<1>4. [w EXCEPT !.req[r] = [@ EXCEPT !.xchg = TRUE, !.buf = (q.data \in {"read", "write"})]] = taken
  OBVIOUS
<1> HIDE DEF taken, used
<1>5. CASE q.data = "write"
  <2>1. FcExecute(w, r, FALSE) = SetFcReq(taken, r, "write_xfer")
    BY <1>4, <1>5 DEF FcExecute
  <2> QED BY <1>2, <1>3, <1>5, <2>1 DEF Executed
<1>6. CASE q.data = "read"
  <2>1. FcExecute(w, r, FALSE) = SetFcReq(taken, r, "read_bdev")
    BY <1>4, <1>6 DEF FcExecute
  <2> QED BY <1>2, <1>3, <1>6, <2>1 DEF Executed
<1>7. CASE q.data \notin {"read", "write"}
  <2>1. FcExecute(w, r, FALSE) = SetFcReq(taken, r, "none_bdev")
    BY <1>4, <1>7 DEF FcExecute
  <2> QED BY <1>2, <1>3, <1>7, <2>1 DEF Executed
<1> QED BY <1>5, <1>6, <1>7

(* A free command. *)
LEMMA FreeIs ==
    /\ FreeFcReq \in FqReq /\ FreeFcReq.st = "free" /\ FreeFcReq.data = "none" /\ FreeFcReq.xchg = FALSE
    /\ FreeFcReq.buf = FALSE /\ FreeFcReq.aborted = FALSE /\ FreeFcReq.cbs = <<>> /\ FreeFcReq.del = FALSE
  BY DEF FreeFcReq, FqReq, FqPhases, FqKinds

---------------------------------------------------------------------------
(* Lists of commands *)

(* The least of a set of numbers is in it. *)
LEMMA MinIsElement ==
    ASSUME NEW S, S \subseteq Nat, S # {}
    PROVE  Min(S) \in S /\ \A y \in S : Min(S) <= y
<1>1. PICK x \in S : \A y \in S : x <= y
  BY LeastNumber
<1> QED BY <1>1 DEF Min

(* What is left of a list without one of its elements. *)
Shortened(t, s, e) ==
    \E at \in 1 .. Len(s) : /\ s[at] = e /\ Len(t) = Len(s) - 1
                            /\ \A j \in 1 .. Len(t) : t[j] = IF j < at THEN s[j] ELSE s[j + 1]

(* A list that has the element loses its first occurrence of it. *)
LEMMA RemoveShortens ==
    ASSUME NEW S, NEW s \in Seq(S), NEW e, \E i \in 1 .. Len(s) : s[i] = e
    PROVE  RemoveFirst(s, e) \in Seq(S) /\ Shortened(RemoveFirst(s, e), s, e)
<1> DEFINE I == {i \in 1 .. Len(s) : s[i] = e}
           at == Min(I)
           a == SubSeq(s, 1, at - 1)
           b == SubSeq(s, at + 1, Len(s))
<1>1. Len(s) \in Nat /\ \A i \in 1 .. Len(s) : s[i] \in S
  BY LenProperties, ElementOfSeq
<1>2. at \in I
  <2>1. I \subseteq Nat /\ I # {}
    BY <1>1
  <2> HIDE DEF I
  <2> QED BY <2>1, MinIsElement
<1>3. RemoveFirst(s, e) = a \o b
  <2>1. SelectInSeq(s, LAMBDA v : v = e) = at
    BY <1>2 DEF SelectInSeq
  <2> QED BY <2>1 DEF RemoveFirst, RemoveAt
<1> HIDE DEF at
<1>4. at \in 1 .. Len(s) /\ s[at] = e
  BY <1>2
<1>5. /\ a \in Seq(S) /\ Len(a) = at - 1 /\ \A j \in 1 .. at - 1 : a[j] = s[j]
  <2>1. 1 \in Int /\ at - 1 \in Int /\ \A i \in 1 .. at - 1 : s[i] \in S
    BY <1>1, <1>4
  <2>2. /\ a \in Seq(S) /\ Len(a) = (IF 1 <= at - 1 THEN at - 1 - 1 + 1 ELSE 0)
        /\ \A i \in 1 .. at - 1 - 1 + 1 : a[i] = s[1 + i - 1]
    BY <2>1, SubSeqProperties
  <2> HIDE DEF a
  <2> QED BY <2>2, <1>1, <1>4
<1>6. /\ b \in Seq(S) /\ Len(b) = Len(s) - at /\ \A j \in 1 .. Len(s) - at : b[j] = s[at + j]
  <2>1. at + 1 \in Int /\ Len(s) \in Int /\ \A i \in at + 1 .. Len(s) : s[i] \in S
    BY <1>1, <1>4
  <2>2. /\ b \in Seq(S) /\ Len(b) = (IF at + 1 <= Len(s) THEN Len(s) - (at + 1) + 1 ELSE 0)
        /\ \A i \in 1 .. Len(s) - (at + 1) + 1 : b[i] = s[(at + 1) + i - 1]
    BY <2>1, SubSeqProperties
  <2> HIDE DEF b
  <2> QED BY <2>2, <1>1, <1>4
<1> HIDE DEF a, b
<1> DEFINE t == a \o b
<1>7. /\ t \in Seq(S) /\ Len(t) = Len(a) + Len(b)
      /\ \A i \in 1 .. Len(a) + Len(b) : t[i] = IF i <= Len(a) THEN a[i] ELSE b[i - Len(a)]
  BY <1>5, <1>6, ConcatProperties
<1> HIDE DEF t
<1>8. Shortened(t, s, e)
  <2>1. Len(t) = Len(s) - 1
    BY <1>1, <1>4, <1>5, <1>6, <1>7
  <2>2. ASSUME NEW j \in 1 .. Len(t) PROVE t[j] = IF j < at THEN s[j] ELSE s[j + 1]
    <3>0. j \in 1 .. Len(s) - 1 /\ t[j] = IF j <= at - 1 THEN a[j] ELSE b[j - (at - 1)]
      <4>1. Len(a) = at - 1 /\ Len(a) + Len(b) = Len(t) BY <1>5, <1>7
      <4> QED BY <4>1, <1>7, <2>1
    <3>1. CASE j < at
      <4>1. j \in 1 .. at - 1 BY <3>0, <3>1, <1>1, <1>4
      <4> QED BY <3>0, <3>1, <4>1, <1>5
    <3>2. CASE ~(j < at)
      <4>1. t[j] = b[j - (at - 1)] /\ j - (at - 1) \in 1 .. Len(s) - at
        BY <3>0, <3>2, <1>1, <1>4
      <4>2. b[j - (at - 1)] = s[at + (j - (at - 1))] /\ at + (j - (at - 1)) = j + 1
        BY <4>1, <1>1, <1>4, <1>6
      <4> QED BY <3>2, <4>1, <4>2
    <3> QED BY <3>1, <3>2
  <2> QED BY <1>4, <2>1, <2>2 DEF Shortened
<1> QED BY <1>3, <1>7, <1>8 DEF t

(* In a list that names each element once the others stay, in order. *)
LEMMA ShortenedElements ==
    ASSUME NEW S, NEW s \in Seq(S), NEW t \in Seq(S), NEW e, IsInjective(s), Shortened(t, s, e)
    PROVE  IsInjective(t) /\ ToSet(t) = ToSet(s) \ {e}
<1>1. PICK at \in 1 .. Len(s) : /\ s[at] = e /\ Len(t) = Len(s) - 1
                                /\ \A j \in 1 .. Len(t) : t[j] = IF j < at THEN s[j] ELSE s[j + 1]
  BY DEF Shortened
<1>2. Len(s) \in Nat /\ DOMAIN s = 1 .. Len(s) /\ DOMAIN t = 1 .. Len(t) /\ Len(t) \in Nat
  BY LenProperties
<1> DEFINE up(j) == IF j < at THEN j ELSE j + 1
<1>3. \A j \in 1 .. Len(t) : t[j] = s[up(j)] /\ up(j) \in 1 .. Len(s) /\ up(j) # at
  BY <1>1, <1>2
<1>4. \A j, k \in 1 .. Len(t) : up(j) = up(k) => j = k
  BY <1>1, <1>2
<1>5. \A m \in 1 .. Len(s) : m # at => \E j \in 1 .. Len(t) : up(j) = m
  <2> SUFFICES ASSUME NEW m \in 1 .. Len(s), m # at PROVE \E j \in 1 .. Len(t) : up(j) = m
    OBVIOUS
  <2>1. CASE m < at
    BY <2>1, <1>1, <1>2
  <2>2. CASE m > at
    <3>1. m - 1 \in 1 .. Len(t) /\ up(m - 1) = m BY <2>2, <1>1, <1>2
    <3> QED BY <3>1
  <2> QED BY <2>1, <2>2, <1>1, <1>2
<1> HIDE DEF up
<1>6. IsInjective(t)
  <2>1. ASSUME NEW j \in 1 .. Len(t), NEW k \in 1 .. Len(t), t[j] = t[k] PROVE j = k
    <3>1. up(j) = up(k) BY <1>2, <1>3, <2>1 DEF IsInjective
    <3> QED BY <1>4, <3>1
  <2> QED BY <1>2, <2>1 DEF IsInjective
<1>7. ASSUME NEW x \in ToSet(t) PROVE x \in ToSet(s) /\ x # e
  <2>1. PICK j \in 1 .. Len(t) : x = t[j]
    BY <1>2, <1>7 DEF ToSet
  <2>2. x = s[up(j)] /\ up(j) \in 1 .. Len(s) /\ up(j) # at
    BY <1>3, <2>1
  <2> QED BY <1>1, <1>2, <2>2 DEF ToSet, IsInjective
<1>8. ASSUME NEW x \in ToSet(s), x # e PROVE x \in ToSet(t)
  <2>1. PICK m \in 1 .. Len(s) : x = s[m]
    BY <1>2, <1>8 DEF ToSet
  <2>2. PICK j \in 1 .. Len(t) : up(j) = m
    BY <1>1, <1>5, <1>8, <2>1
  <2> QED BY <1>2, <1>3, <2>1, <2>2 DEF ToSet
<1> QED BY <1>6, <1>7, <1>8

(* An element is taken from a list. *)
LEMMA RemovedFacts ==
    ASSUME NEW S, NEW s \in Seq(S), NEW e, IsInjective(s)
    PROVE  /\ RemoveFirst(s, e) \in Seq(S) /\ IsInjective(RemoveFirst(s, e))
           /\ ToSet(RemoveFirst(s, e)) = ToSet(s) \ {e}
<1>1. CASE \E i \in 1 .. Len(s) : s[i] = e
  <2> DEFINE t == RemoveFirst(s, e)
  <2>1. t \in Seq(S) /\ Shortened(t, s, e)
    BY <1>1, RemoveShortens
  <2> HIDE DEF t
  <2>2. IsInjective(t) /\ ToSet(t) = ToSet(s) \ {e}
    BY <2>1, ShortenedElements
  <2> QED BY <2>1, <2>2 DEF t
<1>2. CASE ~\E i \in 1 .. Len(s) : s[i] = e
  <2>1. RemoveFirst(s, e) = s
    BY <1>2 DEF RemoveFirst
  <2>2. e \notin ToSet(s)
    BY <1>2, LenProperties DEF ToSet
  <2> QED BY <2>1, <2>2
<1> QED BY <1>1, <1>2

(* The elements of a list, and when it holds none twice. *)
LEMMA ListIsQueue ==
    /\ \A s, x : x \in ToSet(s) <=> At(s, x)
    /\ \A s : IsInjective(s) <=> \A x : Once(s, x)
  BY DEF ToSet, At, Once, IsInjective

(* One is put behind it. *)
LEMMA AppendedList ==
    ASSUME NEW S, NEW s \in Seq(S), NEW e \in S, IsInjective(s), e \notin ToSet(s)
    PROVE  /\ Append(s, e) \in Seq(S) /\ IsInjective(Append(s, e)) /\ ToSet(Append(s, e)) = ToSet(s) \cup {e}
<1> DEFINE t == Append(s, e)
<1>1. /\ t \in Seq(S) /\ (\A m : At(t, m) <=> At(s, m) \/ m = e)
      /\ (\A m : Once(s, m) /\ (m = e => ~At(s, m)) => Once(t, m))
  BY AppendedQueue
<1> HIDE DEF t
<1>2. \A m : Once(t, m)
  BY <1>1, ListIsQueue
<1>3. ToSet(t) = ToSet(s) \cup {e}
  BY <1>1, ListIsQueue
<1> QED BY <1>1, <1>2, <1>3, ListIsQueue DEF t

(* The queue takes a command behind it, or loses one. *)
LEMMA PendingJoins ==
    ASSUME NEW w \in FqType, NEW v, NEW r \in FcReqs, PendingAt(w, HwqpOf(r)), w.req[r].st # "pending",
           v.hw[HwqpOf(r)].pending = Append(w.hw[HwqpOf(r)].pending, r), v.req[r].st = "pending",
           \A p \in FcReqs \ {r} : v.req[p] = w.req[p]
    PROVE  PendingAt(v, HwqpOf(r))
<1> DEFINE h == HwqpOf(r)
           s == w.hw[h].pending
<1>1. h \in FcHwqps /\ r \in FcSlots[h] /\ s \in Seq(FcReqs) /\ \A p \in FcSlots[h] : p \in FcReqs
  BY HomeOf, FqParts
<1>2. IsInjective(s) /\ ToSet(s) = {p \in FcSlots[h] : w.req[p].st = "pending"}
  BY DEF PendingAt
<1>3. IsInjective(Append(s, r)) /\ ToSet(Append(s, r)) = ToSet(s) \cup {r}
  BY <1>1, <1>2, AppendedList
<1>4. {p \in FcSlots[h] : v.req[p].st = "pending"} = ToSet(s) \cup {r}
  BY <1>1, <1>2
<1> QED BY <1>3, <1>4 DEF PendingAt

(* A command leaves the list of those that wait for buffers. *)
LEMMA PendingLeaves ==
    ASSUME NEW w \in FqType, NEW v, NEW r \in FcReqs, PendingAt(w, HwqpOf(r)),
           v.hw[HwqpOf(r)].pending = RemoveFirst(w.hw[HwqpOf(r)].pending, r), v.req[r].st # "pending",
           \A p \in FcReqs \ {r} : v.req[p] = w.req[p]
    PROVE  PendingAt(v, HwqpOf(r)) /\ RemoveFirst(w.hw[HwqpOf(r)].pending, r) \in Seq(FcReqs)
<1> DEFINE h == HwqpOf(r)
           s == w.hw[h].pending
<1>1. h \in FcHwqps /\ r \in FcSlots[h] /\ s \in Seq(FcReqs) /\ \A p \in FcSlots[h] : p \in FcReqs
  BY HomeOf, FqParts
<1>2. IsInjective(s) /\ ToSet(s) = {p \in FcSlots[h] : w.req[p].st = "pending"}
  BY DEF PendingAt
<1>3. /\ RemoveFirst(s, r) \in Seq(FcReqs) /\ IsInjective(RemoveFirst(s, r)) /\ ToSet(RemoveFirst(s, r)) = ToSet(s) \ {r}
  BY <1>1, <1>2, RemovedFacts
<1>4. {p \in FcSlots[h] : v.req[p].st = "pending"} = ToSet(s) \ {r}
  BY <1>1, <1>2
<1> QED BY <1>3, <1>4 DEF PendingAt

(* Nobody ends the abort of a command that is not aborted, and is not free
   or its hwqp is polled; nor that of one in the library or the queue. *)
LEMMA NoEnd ==
    ASSUME NEW w, Sound(w), NEW r \in FcReqs, w.req[r].st # "aborted",
           w.hw[HwqpOf(r)].on \/ w.req[r].st \in InBdev \cup {"pending"} \/ At(w.hw[HwqpOf(r)].msgs, Quiet)
    PROVE  ~At(w.hw[HwqpOf(r)].msgs, Ended(r))
<1>1. EndAt(w, HwqpOf(r))
  BY HomeOf DEF Sound, Core
<1> QED BY <1>1 DEF EndAt, InBdev, InXfer

(* A step that moves one command and changes no message. *)
LEMMA MoveSound ==
    ASSUME NEW w, Sound(w), NEW r \in FcReqs, NEW q \in FqReq, NEW x \in FqHw, NEW air, NEW left \in FqLeft, NEW v,
           air \in {w.air, w.air \ {r}}, left.sync = w.left.sync, left.xchgs = w.left.xchgs,
           v = Moved(w, r, q, x, air, left), ReqAt(v, r), PendingAt(v, HwqpOf(r)), CapAt(v, HwqpOf(r)), Reached(w, v, r),
           w.req[r].st # "free" \/ r \in w.air
    PROVE  Sound(v)
<1>1. w \in FqType /\ w.crash = "no" /\ air \in SUBSET FcReqs
  BY FqFields DEF Sound, Core
<1>2. HasMoved(w, v, r, q, x, air, left)
  BY <1>1, MovedFacts
<1>3. OneStep(w, v, r)
  BY <1>1, <1>2 DEF OneStep, Background, HasMoved
<1>4. (r \notin w.air => r \notin v.air) /\ ~Gone(w, r)
  BY <1>2 DEF HasMoved, Gone
<1> QED BY <1>2, <1>3, <1>4, ReachedSound DEF HasMoved

(* The last fault that is taken. *)
LEMMA Faulty ==
    ASSUME NEW w \in FqType, w.left.faults > 0
    PROVE  LET left == [w.left EXCEPT !["faults"] = @ - 1]
           IN  left \in FqLeft /\ left.sync = w.left.sync /\ left.xchgs = w.left.xchgs
<1>1. w.left \in FqLeft
  BY FqFields
<1> QED BY <1>1 DEF FqLeft

(* A frame that is dropped, waits, is executed, or fails to be. *)
FrameMoves(w, r) ==
    LET h == HwqpOf(r)
        q == w.req[r]
        x == w.hw[h]
        air == w.air \ {r}
    IN  [dropped  |-> Moved(w, r, FreeFcReq, x, air, w.left),
         waits    |-> Moved(w, r, [q EXCEPT !.st = "pending"], [x EXCEPT !.pending = Append(x.pending, r)], air, w.left),
         executed |-> Moved(w, r, Executed(q), x, air, w.left),
         failed   |-> Moved(w, r, FreeFcReq, x, air, [w.left EXCEPT !["faults"] = @ - 1])]

(* Each outcome of a frame keeps the invariant. *)
LEMMA FrameMovesKeep ==
    ASSUME NEW w, Sound(w), NEW r \in FcReqs, r \in w.air, w.hw[HwqpOf(r)].on, NEW v,
           \/ v = FrameMoves(w, r).dropped
           \/ w.hw[HwqpOf(r)].conn = "created" /\ v = FrameMoves(w, r).waits
           \/ w.hw[HwqpOf(r)].conn = "created" /\ FcCanExecute(w, r) /\ v = FrameMoves(w, r).executed
           \/ w.left.faults > 0 /\ v = FrameMoves(w, r).failed
    PROVE  Sound(v)
<1> DEFINE h == HwqpOf(r)
           q == w.req[r]
           x == w.hw[h]
           air == w.air \ {r}
<1>1. /\ w \in FqType /\ h \in FcHwqps /\ r \in FcSlots[h] /\ q \in FqReq /\ x \in FqHw /\ w.crash = "no"
      /\ air \in SUBSET FcReqs /\ w.left \in FqLeft /\ w.left.xchgs \in Nat
      /\ \A p \in FcSlots[h] : p \in FcReqs
  <2>1. w \in FqType /\ w.crash = "no"
    BY DEF Sound, Core
  <2>2. w.left \in FqLeft
    BY <2>1, FqFields
  <2>3. w.left.xchgs \in Nat
    BY <2>2 DEF FqLeft
  <2> QED BY <2>1, <2>2, <2>3, HomeOf, FqFields, FqParts
<1>2. r \in w.air /\ w.hw[h].on
  OBVIOUS
<1>3. ReqAt(w, r) /\ PendingAt(w, h) /\ CapAt(w, h) /\ q.st = "free"
  <2>1. ReqAt(w, r) /\ PendingAt(w, h) /\ CapAt(w, h)
    BY <1>1 DEF Sound, Core
  <2> QED BY <1>2, <2>1 DEF ReqAt
<1>4. q.xchg = FALSE /\ q.buf = FALSE /\ q.aborted = FALSE /\ q.cbs = <<>> /\ q.del = FALSE
  BY <1>1, <1>3 DEF ReqAt, FqReq
<1>5. ~At(x.msgs, Ended(r))
  BY <1>2, <1>3, NoEnd
<1>6. CASE v = Moved(w, r, FreeFcReq, x, air, w.left)
  <2>1. HasMoved(w, v, r, FreeFcReq, x, air, w.left)
    BY <1>1, <1>6, FreeIs, MovedFacts
  <2>2. ReqAt(v, r)
    BY <2>1, FreeIs DEF ReqAt, HasMoved
  <2>3. PendingAt(v, h)
    BY <1>1, <1>3, <2>1, FreeIs, PendingSame DEF HasMoved
  <2>4. CapAt(v, h)
    <3>1. \A p \in FcSlots[h] : (v.req[p].xchg => w.req[p].xchg) /\ (v.req[p].buf => w.req[p].buf)
      BY <1>1, <2>1, FreeIs DEF HasMoved
    <3> QED BY <1>1, <1>3, <2>1, <3>1, CapShrinks DEF HasMoved
  <2>5. Reached(w, v, r)
    BY <1>4, <1>5, <2>1, FreeIs DEF Reached, HasMoved
  <2> QED BY <1>1, <1>2, <1>6, <2>2, <2>3, <2>4, <2>5, FreeIs, MoveSound
<1>7. CASE x.conn = "created"
           /\ v = Moved(w, r, [q EXCEPT !.st = "pending"], [x EXCEPT !.pending = Append(x.pending, r)], air, w.left)
  <2> DEFINE p1 == [q EXCEPT !.st = "pending"]
             y == [x EXCEPT !.pending = Append(x.pending, r)]
  <2>1. p1 \in FqReq /\ p1.st = "pending" /\ p1.data = q.data /\ p1.xchg = FALSE /\ p1.buf = FALSE /\ p1.aborted = FALSE
        /\ p1.cbs = <<>> /\ p1.del = FALSE
    BY <1>1, <1>4 DEF FqReq, FqPhases
  <2>2. y \in FqHw /\ y.pending = Append(x.pending, r) /\ y.on = x.on /\ y.msgs = x.msgs /\ y.syncs = x.syncs
        /\ y.conn = x.conn /\ y.left = x.left
    <3>1. Append(x.pending, r) \in Seq(FcReqs) BY <1>1, FqParts, AppendProperties
    <3> QED BY <1>1, <3>1 DEF FqHw
  <2> HIDE DEF p1, y
  <2>3. v = Moved(w, r, p1, y, air, w.left)
    BY <1>7 DEF p1, y
  <2>4. HasMoved(w, v, r, p1, y, air, w.left)
    BY <1>1, <2>1, <2>2, <2>3, MovedFacts
  <2>5. ReqAt(v, r)
    BY <2>1, <2>4 DEF ReqAt, HasMoved
  <2>6. PendingAt(v, h)
    BY <1>1, <1>3, <2>1, <2>2, <2>4, PendingJoins DEF HasMoved
  <2>7. CapAt(v, h)
    <3>1. \A p \in FcSlots[h] : (v.req[p].xchg => w.req[p].xchg) /\ (v.req[p].buf => w.req[p].buf)
      BY <1>1, <2>1, <2>4 DEF HasMoved
    <3> QED BY <1>1, <1>3, <2>4, <3>1, CapShrinks DEF HasMoved
  <2>8. Reached(w, v, r)
    <3>1. v.hw[h] = y /\ v.req[r] = p1 BY <2>4 DEF HasMoved
    <3>2. x.conn = "created" BY <1>7
    <3> QED BY <1>4, <1>5, <2>1, <2>2, <3>1, <3>2 DEF Reached
  <2> QED BY <1>1, <1>2, <2>1, <2>2, <2>3, <2>5, <2>6, <2>7, <2>8, MoveSound
<1>8. CASE x.conn = "created" /\ FcCanExecute(w, r) /\ v = Moved(w, r, Executed(q), x, air, w.left)
  <2> DEFINE e == Executed(q)
  <2>1. e \in FqReq /\ e.data = q.data /\ e.aborted = FALSE /\ e.cbs = <<>> /\ e.del = FALSE /\ e.st \in InBdev \cup InXfer
        /\ e.buf = (q.data \in {"read", "write"}) /\ (q.data = "aer" => e.st = "none_bdev")
    BY <1>1, <1>4, ExecutedFacts
  <2> HIDE DEF e
  <2>2. HasMoved(w, v, r, e, x, air, w.left)
    BY <1>1, <1>8, <2>1, MovedFacts DEF e
  <2>3. e.st \notin {"init", "free", "pending", "aborted"}
    BY <2>1 DEF InBdev, InXfer
  <2>4. ReqAt(v, r)
    BY <2>1, <2>2, <2>3 DEF ReqAt, HasMoved
  <2>5. PendingAt(v, h)
    BY <1>1, <1>3, <2>2, <2>3, PendingSame DEF HasMoved
  <2>6. CapAt(v, h)
    <3>1. v.left.xchgs = w.left.xchgs /\ (\A p \in FcReqs \ {r} : v.req[p] = w.req[p]) /\ v.req[r] = e
      BY <2>2 DEF HasMoved
    <3>2. v.req[r].buf => w.req[r].data \in {"read", "write"} BY <2>1, <3>1
    <3>3. FcCanExecute(w, r) BY <1>8
    <3> HIDE DEF h, q, x, air
    <3> QED BY <1>1, <1>3, <3>1, <3>2, <3>3, CapGrows
  <2>7. Reached(w, v, r)
    <3>1. v.hw[h] = x /\ v.req[r] = e BY <2>2 DEF HasMoved
    <3>2. x.conn = "created" BY <1>8
    <3> QED BY <1>4, <1>5, <2>1, <2>3, <3>1, <3>2 DEF Reached
  <2> QED BY <1>1, <1>2, <1>8, <2>1, <2>4, <2>5, <2>6, <2>7, MoveSound DEF e
<1>9. CASE w.left.faults > 0 /\ v = Moved(w, r, FreeFcReq, x, air, [w.left EXCEPT !["faults"] = @ - 1])
  <2> DEFINE left == [w.left EXCEPT !["faults"] = @ - 1]
  <2>1. left \in FqLeft /\ left.sync = w.left.sync /\ left.xchgs = w.left.xchgs
    BY <1>1, <1>9, Faulty
  <2> HIDE DEF left
  <2>2. HasMoved(w, v, r, FreeFcReq, x, air, left)
    BY <1>1, <1>9, <2>1, FreeIs, MovedFacts DEF left
  <2>3. ReqAt(v, r)
    BY <2>2, FreeIs DEF ReqAt, HasMoved
  <2>4. PendingAt(v, h)
    BY <1>1, <1>3, <2>2, FreeIs, PendingSame DEF HasMoved
  <2>5. CapAt(v, h)
    <3>1. \A p \in FcSlots[h] : (v.req[p].xchg => w.req[p].xchg) /\ (v.req[p].buf => w.req[p].buf)
      BY <1>1, <2>2, FreeIs DEF HasMoved
    <3> QED BY <1>1, <1>3, <2>1, <2>2, <3>1, CapShrinks DEF HasMoved
  <2>6. Reached(w, v, r)
    BY <1>4, <1>5, <2>2, FreeIs DEF Reached, HasMoved
  <2>7. v = Moved(w, r, FreeFcReq, x, air, left)
    BY <1>9 DEF left
  <2>8. air \in {w.air, w.air \ {r}} /\ (w.req[r].st # "free" \/ r \in w.air)
    BY <1>2
  <2> HIDE DEF air, x
  <2> QED BY <1>1, <2>1, <2>3, <2>4, <2>5, <2>6, <2>7, <2>8, FreeIs, MoveSound DEF h
<1> QED BY <1>6, <1>7, <1>8, <1>9 DEF FrameMoves

(* nvmf_fc_hwqp_process_frame keeps the invariant. *)
LEMMA FrameKeeps ==
    ASSUME Sound(fcr), NEW r \in FcReqs, FcFrame(r)
    PROVE  Sound(fcr')
<1> DEFINE w == fcr
           v == fcr'
           h == HwqpOf(r)
           q == w.req[r]
           x == w.hw[h]
           air == w.air \ {r}
           a == [w EXCEPT !.air = air]
<1>1. /\ w \in FqType /\ h \in FcHwqps /\ r \in FcSlots[h] /\ q \in FqReq /\ x \in FqHw /\ w.crash = "no"
      /\ air \in SUBSET FcReqs /\ w.left \in FqLeft /\ w.left.xchgs \in Nat
      /\ \A p \in FcSlots[h] : p \in FcReqs
  <2>1. w \in FqType /\ w.crash = "no"
    BY DEF Sound, Core
  <2>2. w.left \in FqLeft
    BY <2>1, FqFields
  <2>3. w.left.xchgs \in Nat
    BY <2>2 DEF FqLeft
  <2> QED BY <2>1, <2>2, <2>3, HomeOf, FqFields, FqParts
<1>2. r \in w.air /\ w.hw[h].on
  BY DEF FcFrame
<1>10. a \in FqType /\ a.req = w.req /\ a.hw = w.hw /\ a.left = w.left /\ a.air = air
  BY <1>1 DEF FqType
<1>11. FcCanExecute(a, r) <=> FcCanExecute(w, r)
  BY <1>10 DEF FcCanExecute, FcUsed
<1>12. [a EXCEPT !.req[r] = FreeFcReq] = Moved(w, r, FreeFcReq, x, air, w.left)
  BY <1>1 DEF Moved, FqType
<1>13. [SetFcReq(a, r, "pending") EXCEPT !.hw[h].pending = Append(@, r)]
       = Moved(w, r, [q EXCEPT !.st = "pending"], [x EXCEPT !.pending = Append(x.pending, r)], air, w.left)
  BY <1>1 DEF Moved, FqType, SetFcReq
<1>14. FcExecute(a, r, FALSE) = Moved(w, r, Executed(q), x, air, w.left)
  <2>1. FcExecute(a, r, FALSE) = [a EXCEPT !.req = [a.req EXCEPT ![r] = Executed(a.req[r])]]
    BY <1>10, ExecuteIs
  <2>2. FcExecute(a, r, FALSE) = [a EXCEPT !.req = [w.req EXCEPT ![r] = Executed(q)]]
    BY <1>10, <2>1
  <2> DEFINE R == [w.req EXCEPT ![r] = Executed(q)]
  <2> HIDE DEF R
  <2>3. [a EXCEPT !.req = R] = [w EXCEPT !.req = R, !.hw = [w.hw EXCEPT ![h] = x], !.air = air, !.left = w.left]
    BY <1>1 DEF FqType
  <2> QED BY <2>2, <2>3 DEF Moved, R
<1>15. ASSUME q.data = "write", w.left.faults > 0
       PROVE  FcExecute(SetFcReq(a, r, "init"), r, TRUE) = Moved(w, r, FreeFcReq, x, air,
              [w.left EXCEPT !["faults"] = @ - 1])
  <2> DEFINE i == SetFcReq(a, r, "init")
             taken == [i EXCEPT !.req[r] = [@ EXCEPT !.xchg = TRUE, !.buf = i.req[r].data \in {"read", "write"}]]
             spent == FcSpend(taken, "faults")
  <2>1. i.req[r].data = "write"
    BY <1>1, <1>10, <1>15 DEF SetFcReq, FqType, FqReq
  <2>2. FcExecute(i, r, TRUE) = FreeFc(spent, r)
    BY <2>1 DEF FcExecute
  <2>3. spent.req[r].st = "init"
    BY <1>1, <1>10 DEF FcSpend, SetFcReq, FqType, FqReq
  <2>4. FreeFc(spent, r) = [spent EXCEPT !.req[r] = FreeFcReq]
    BY <2>3 DEF FreeFc
  <2> DEFINE R == [w.req EXCEPT ![r] = FreeFcReq]
             left == [w.left EXCEPT !["faults"] = @ - 1]
  <2>5. [spent EXCEPT !.req[r] = FreeFcReq] = [a EXCEPT !.req = R, !.left = left]
    <3> DEFINE R1 == [w.req EXCEPT ![r] = [q EXCEPT !.st = "init"]]
               q2 == [R1[r] EXCEPT !.xchg = TRUE, !.buf = i.req[r].data \in {"read", "write"}]
               R2 == [R1 EXCEPT ![r] = q2]
    <3>1. i = [a EXCEPT !.req = R1] /\ i.req = R1 BY <1>10 DEF SetFcReq, FqType
    <3>2. taken = [i EXCEPT !.req = R2] BY <3>1
    <3>3. [R2 EXCEPT ![r] = FreeFcReq] = R BY <1>1, FqFields
    <3> HIDE DEF R1, R2, R, i
    <3>4. taken = [a EXCEPT !.req = R2] BY <3>1, <3>2
    <3>5. taken.left = w.left /\ taken.req = R2 BY <1>10, <3>4 DEF FqType
    <3>6. spent = [taken EXCEPT !.left = left] BY <3>5 DEF FcSpend
    <3> HIDE DEF left, taken
    <3>7. spent = [a EXCEPT !.req = R2, !.left = left] BY <3>4, <3>6
    <3>8. spent.req = R2 BY <1>10, <3>7 DEF FqType
    <3> HIDE DEF spent
    <3>9. [spent EXCEPT !.req[r] = FreeFcReq] = [spent EXCEPT !.req = R] BY <3>3, <3>8
    <3> QED BY <3>7, <3>9
  <2> HIDE DEF R, left
  <2>6. [a EXCEPT !.req = R, !.left = left] = [w EXCEPT !.req = R, !.hw = [w.hw EXCEPT ![h] = x], !.air = air,
        !.left = left]
    BY <1>1 DEF FqType
  <2>7. [spent EXCEPT !.req[r] = FreeFcReq] = Moved(w, r, FreeFcReq, x, air, left)
    BY <2>5, <2>6 DEF Moved, R
  <2> QED BY <2>2, <2>4, <2>7 DEF left
<1> HIDE DEF a, air
<1>16. \/ v = [a EXCEPT !.req[r] = FreeFcReq]
       \/ x.conn = "created" /\ v = [SetFcReq(a, r, "pending") EXCEPT !.hw[h].pending = Append(@, r)]
       \/ x.conn = "created" /\ FcCanExecute(a, r) /\ v = FcExecute(a, r, FALSE)
       \/ q.data = "write" /\ w.left.faults > 0 /\ v = FcExecute(SetFcReq(a, r, "init"), r, TRUE)
  BY DEF FcFrame, a, air
<1>17. \/ v = FrameMoves(w, r).dropped
       \/ x.conn = "created" /\ v = FrameMoves(w, r).waits
       \/ x.conn = "created" /\ FcCanExecute(w, r) /\ v = FrameMoves(w, r).executed
       \/ w.left.faults > 0 /\ v = FrameMoves(w, r).failed
  BY <1>11, <1>12, <1>13, <1>14, <1>15, <1>16 DEF FrameMoves, air
<1> QED BY <1>2, <1>17, FrameMovesKeep

---------------------------------------------------------------------------
(* Walks over a list of commands *)

(* Counting up to a number. *)
LEMMA CountedUp ==
    ASSUME NEW N \in Nat, NEW Good, 0 \in Good, \A n \in 0 .. N : n + 1 \in 0 .. N /\ n \in Good => n + 1 \in Good
    PROVE  \A n \in 0 .. N : n \in Good
<1> DEFINE Bad == {n \in 0 .. N : n \notin Good}
<1>1. SUFFICES ASSUME Bad # {} PROVE FALSE
  OBVIOUS
<1>2. PICK m \in Bad : \A k \in Bad : m <= k
  <2>1. Bad \subseteq Nat
    OBVIOUS
  <2> HIDE DEF Bad
  <2> QED BY <1>1, <2>1, LeastNumber
<1>3. m \in 0 .. N /\ m \notin Good
  BY <1>2
<1>4. m - 1 \in 0 .. N /\ m - 1 \notin Bad
  BY <1>2, <1>3
<1>5. m - 1 + 1 = m
  BY <1>3
<1> QED BY <1>3, <1>4, <1>5

(* A step of one of the three walks, and the walk. *)
FcTurn(k, w, r) ==
    CASE k = "pending" -> FcExecutePending(w, r)
      [] k = "aborts"  -> FcAbortComplete(w, r)
      [] OTHER         -> FcAbort([w EXCEPT !.req[r].del = TRUE], r)
Turns(f, k, w, s) == f[0] = w /\ \A n \in 1 .. Len(s) : f[n] = FcTurn(k, f[n - 1], s[n])

(* Such a walk exists for every list. *)
LEMMA TurnsExist ==
    ASSUME NEW k, NEW w, NEW s, Len(s) \in Nat
    PROVE  \E f : f = [n \in 0 .. Len(s) |-> f[n]] /\ Turns(f, k, w, s)
<1> DEFINE T(f, m) == f[0] = w /\ \A n \in 1 .. m : f[n] = FcTurn(k, f[n - 1], s[n])
           Good == {m \in 0 .. Len(s) : \E f : f = [n \in 0 .. m |-> f[n]] /\ T(f, m)}
<1>1. 0 \in Good
  <2> DEFINE f == [n \in 0 .. 0 |-> w]
  <2>1. f = [n \in 0 .. 0 |-> f[n]] /\ T(f, 0)
    OBVIOUS
  <2> HIDE DEF f
  <2> QED BY <2>1
<1>2. ASSUME NEW m \in 0 .. Len(s), m + 1 \in 0 .. Len(s), m \in Good PROVE m + 1 \in Good
  <2>1. PICK f : f = [n \in 0 .. m |-> f[n]] /\ T(f, m)
    BY <1>2
  <2> DEFINE e == FcTurn(k, f[m], s[m + 1])
             g == [n \in 0 .. m + 1 |-> IF n = m + 1 THEN e ELSE f[n]]
  <2> HIDE DEF e
  <2>2. g[0] = w /\ g = [n \in 0 .. m + 1 |-> g[n]]
    BY <2>1
  <2>3. ASSUME NEW n \in 1 .. m + 1 PROVE g[n] = FcTurn(k, g[n - 1], s[n])
    <3>1. CASE n = m + 1
      <4>1. g[n] = e /\ g[n - 1] = f[m] /\ s[n] = s[m + 1] BY <3>1
      <4> QED BY <4>1 DEF e
    <3>2. CASE n # m + 1
      <4>1. n \in 1 .. m /\ g[n] = f[n] /\ g[n - 1] = f[n - 1] BY <3>2
      <4> QED BY <2>1, <4>1
    <3> QED BY <3>1, <3>2
  <2> HIDE DEF g
  <2>4. T(g, m + 1)
    BY <2>2, <2>3
  <2> QED BY <1>2, <2>2, <2>4
<1> HIDE DEF Good
<1> DEFINE N == Len(s)
<1>3. N \in Good
  <2>1. \A m \in 0 .. N : m + 1 \in 0 .. N /\ m \in Good => m + 1 \in Good
    BY <1>2
  <2>2. N \in Nat /\ N \in 0 .. N
    OBVIOUS
  <2> HIDE DEF N
  <2> QED BY <1>1, <2>1, <2>2, CountedUp
<1> QED BY <1>3 DEF Good, Turns

(* The three walks of the model are such walks. *)
PendingWalk(f, w, s) == f = [n \in 0 .. Len(s) |-> IF n = 0 THEN w ELSE FcExecutePending(f[n - 1], s[n])]
AbortsWalk(f, w, s) == f = [n \in 0 .. Len(s) |-> IF n = 0 THEN w ELSE FcAbortComplete(f[n - 1], s[n])]
DeletionWalk(f, w, s) ==
    f = [n \in 0 .. Len(s) |-> IF n = 0 THEN w ELSE FcAbort([f[n - 1] EXCEPT !.req[s[n]].del = TRUE], s[n])]

(* The walk over the commands that wait, as the model chooses it. *)
LEMMA PendingIsWalk == ASSUME NEW w, NEW s PROVE PendingExecuted(w, s) = (CHOOSE f : PendingWalk(f, w, s))[Len(s)]
  BY Zenon DEF PendingExecuted, PendingWalk

(* The walk over the aborts that end, as the model chooses it. *)
LEMMA AbortsIsWalk == ASSUME NEW w, NEW s PROVE AbortsCompleted(w, s) = (CHOOSE f : AbortsWalk(f, w, s))[Len(s)]
  BY Zenon DEF AbortsCompleted, AbortsWalk

(* The walk over a connection's commands, as the model chooses it. *)
LEMMA DeletionIsWalk == ASSUME NEW w, NEW s PROVE DeletionAborts(w, s) = (CHOOSE f : DeletionWalk(f, w, s))[Len(s)]
  BY Zenon DEF DeletionAborts, DeletionWalk

(* The walk over the commands that wait, turn by turn. *)
LEMMA PendingTurns ==
    ASSUME NEW w, NEW s, Len(s) \in Nat
    PROVE  \E f : Turns(f, "pending", w, s) /\ PendingExecuted(w, s) = f[Len(s)]
<1>1. PICK f : f = [n \in 0 .. Len(s) |-> f[n]] /\ Turns(f, "pending", w, s)
  BY TurnsExist
<1>2. PendingWalk(f, w, s)
  <2>1. \A n \in 0 .. Len(s) : f[n] = IF n = 0 THEN w ELSE FcExecutePending(f[n - 1], s[n])
    BY <1>1 DEF Turns, FcTurn
  <2> QED BY <1>1, <2>1 DEF PendingWalk
<1> DEFINE g == CHOOSE g : PendingWalk(g, w, s)
<1>3. PendingWalk(g, w, s)
  BY <1>2
<1> HIDE DEF g
<1>4. Turns(g, "pending", w, s)
  BY <1>3 DEF PendingWalk, Turns, FcTurn
<1>5. PendingExecuted(w, s) = g[Len(s)]
  BY PendingIsWalk DEF g
<1> QED BY <1>4, <1>5

(* The walk over the aborts that end, turn by turn. *)
LEMMA AbortsTurns ==
    ASSUME NEW w, NEW s, Len(s) \in Nat
    PROVE  \E f : Turns(f, "aborts", w, s) /\ AbortsCompleted(w, s) = f[Len(s)]
<1>1. PICK f : f = [n \in 0 .. Len(s) |-> f[n]] /\ Turns(f, "aborts", w, s)
  BY TurnsExist
<1>2. AbortsWalk(f, w, s)
  <2>1. \A n \in 0 .. Len(s) : f[n] = IF n = 0 THEN w ELSE FcAbortComplete(f[n - 1], s[n])
    BY <1>1 DEF Turns, FcTurn
  <2> QED BY <1>1, <2>1 DEF AbortsWalk
<1> DEFINE g == CHOOSE g : AbortsWalk(g, w, s)
<1>3. AbortsWalk(g, w, s)
  BY <1>2
<1> HIDE DEF g
<1>4. Turns(g, "aborts", w, s)
  BY <1>3 DEF AbortsWalk, Turns, FcTurn
<1>5. AbortsCompleted(w, s) = g[Len(s)]
  BY AbortsIsWalk DEF g
<1> QED BY <1>4, <1>5

(* A turn of the walk over a connection's commands. *)
LEMMA DeletionTurn == ASSUME NEW x, NEW r PROVE FcTurn("deletion", x, r) = FcAbort([x EXCEPT !.req[r].del = TRUE], r)
  BY DEF FcTurn

(* The walk over a connection's commands, turn by turn. *)
LEMMA DeletionTurns ==
    ASSUME NEW w, NEW s, Len(s) \in Nat
    PROVE  \E f : Turns(f, "deletion", w, s) /\ DeletionAborts(w, s) = f[Len(s)]
<1>1. PICK f : f = [n \in 0 .. Len(s) |-> f[n]] /\ Turns(f, "deletion", w, s)
  BY TurnsExist
<1>2. DeletionWalk(f, w, s)
  <2>1. ASSUME NEW n \in 0 .. Len(s)
        PROVE  f[n] = IF n = 0 THEN w ELSE FcAbort([f[n - 1] EXCEPT !.req[s[n]].del = TRUE], s[n])
    <3>1. CASE n = 0
      BY <1>1, <3>1 DEF Turns
    <3>2. CASE n # 0
      <4>1. n \in 1 .. Len(s) BY <3>2
      <4>2. f[n] = FcTurn("deletion", f[n - 1], s[n]) BY <1>1, <4>1 DEF Turns
      <4> QED BY <3>2, <4>2, DeletionTurn
    <3> QED BY <3>1, <3>2
  <2> QED BY <1>1, <2>1 DEF DeletionWalk
<1> DEFINE g == CHOOSE g : DeletionWalk(g, w, s)
<1>3. DeletionWalk(g, w, s)
  BY <1>2
<1> HIDE DEF g
<1>4. Turns(g, "deletion", w, s)
  <2>1. g[0] = w
    BY <1>3 DEF DeletionWalk
  <2>2. ASSUME NEW n \in 1 .. Len(s) PROVE g[n] = FcTurn("deletion", g[n - 1], s[n])
    <3>1. n \in 0 .. Len(s) /\ n # 0 OBVIOUS
    <3>2. g[n] = FcAbort([g[n - 1] EXCEPT !.req[s[n]].del = TRUE], s[n])
      BY <1>3, <3>1 DEF DeletionWalk
    <3> QED BY <3>2, DeletionTurn
  <2> QED BY <2>1, <2>2 DEF Turns
<1>5. DeletionAborts(w, s) = g[Len(s)]
  BY DeletionIsWalk DEF g
<1> QED BY <1>4, <1>5

---------------------------------------------------------------------------
(* The queue of waiting commands *)

(* A command of the queue is executed, when it can be. *)
LEMMA PendingTurnKeeps ==
    ASSUME NEW w, Sound(w), NEW r \in FcReqs, w.req[r].st = "pending"
    PROVE  /\ Sound(FcExecutePending(w, r))
           /\ \A p \in FcReqs \ {r} : FcExecutePending(w, r).req[p] = w.req[p]
<1> DEFINE h == HwqpOf(r)
           q == w.req[r]
           x == w.hw[h]
           e == Executed(q)
           s == RemoveFirst(x.pending, r)
           y == [x EXCEPT !.pending = s]
           v == FcExecutePending(w, r)
<1>1. /\ w \in FqType /\ h \in FcHwqps /\ r \in FcSlots[h] /\ q \in FqReq /\ x \in FqHw /\ w.crash = "no"
      /\ w.left \in FqLeft /\ w.air \in SUBSET FcReqs
  <2>1. w \in FqType /\ w.crash = "no"
    BY DEF Sound, Core
  <2> QED BY <2>1, HomeOf, FqFields, FqParts
<1>2. ReqAt(w, r) /\ PendingAt(w, h) /\ CapAt(w, h) /\ EndAt(w, h)
  BY <1>1 DEF Sound, Core
<1>3. CASE ~FcCanExecute(w, r)
  BY <1>3 DEF FcExecutePending
<1>4. CASE FcCanExecute(w, r)
  <2>1. /\ e \in FqReq /\ e.data = q.data /\ e.aborted = q.aborted /\ e.cbs = q.cbs /\ e.del = q.del
        /\ e.st \in InBdev \cup InXfer /\ e.buf = (q.data \in {"read", "write"}) /\ (q.data = "aer" => e.st = "none_bdev")
    BY <1>1, ExecutedFacts
  <2>2. e.st \notin {"init", "free", "pending", "aborted"}
    BY <2>1 DEF InBdev, InXfer
  <2>3. s \in Seq(FcReqs)
    <3>1. x.pending \in Seq(FcReqs) /\ IsInjective(x.pending)
      BY <1>1, <1>2, FqParts DEF PendingAt
    <3> QED BY <3>1, RemovedFacts
  <2>4. y \in FqHw /\ y.pending = s /\ y.on = x.on /\ y.msgs = x.msgs /\ y.syncs = x.syncs
        /\ y.conn = x.conn /\ y.left = x.left
    BY <1>1, <2>3 DEF FqHw
  <2>5. v = Moved(w, r, e, y, w.air, w.left)
    <3> DEFINE R == [w.req EXCEPT ![r] = e]
               u == FcExecute(w, r, FALSE)
               H == [w.hw EXCEPT ![h] = y]
    <3>1. u = [w EXCEPT !.req = R] BY <1>1, ExecuteIs
    <3>2. v = [u EXCEPT !.hw[h].pending = RemoveFirst(@, r)] BY <1>4 DEF FcExecutePending
    <3> HIDE DEF u, R
    <3>3. u.hw = w.hw BY <1>1, <3>1 DEF FqType
    <3>4. v = [u EXCEPT !.hw = H] BY <3>2, <3>3
    <3> HIDE DEF H, v
    <3>5. v = [w EXCEPT !.req = R, !.hw = H, !.air = w.air, !.left = w.left]
      BY <1>1, <3>1, <3>4 DEF FqType
    <3> QED BY <3>5 DEF Moved, R, H
  <2> HIDE DEF e, y, s, v
  <2>6. HasMoved(w, v, r, e, y, w.air, w.left)
    BY <1>1, <2>1, <2>4, <2>5, MovedFacts
  <2>7. v.req[r] = e /\ v.hw[h] = y /\ v.left.xchgs = w.left.xchgs /\ (\A p \in FcReqs \ {r} : v.req[p] = w.req[p])
        /\ v.air = w.air
    BY <2>6 DEF HasMoved
  <2>8. ReqAt(v, r)
    BY <1>2, <2>1, <2>2, <2>7 DEF ReqAt
  <2>9. PendingAt(v, h)
    <3>1. v.hw[h].pending = RemoveFirst(w.hw[h].pending, r) /\ v.req[r].st # "pending"
      BY <2>2, <2>4, <2>7 DEF s
    <3> QED BY <1>1, <1>2, <2>7, <3>1, PendingLeaves
  <2>10. CapAt(v, h)
    <3>1. v.req[r].buf => w.req[r].data \in {"read", "write"} BY <2>1, <2>7
    <3> HIDE DEF h, q, x
    <3> QED BY <1>1, <1>2, <1>4, <2>7, <3>1, CapGrows
  <2>11. Reached(w, v, r)
    <3>1. ~At(x.msgs, Ended(r)) BY <1>2 DEF EndAt, InXfer
    <3> QED BY <2>1, <2>2, <2>4, <2>7, <3>1 DEF Reached
  <2>12. Sound(v)
    <3> HIDE DEF x, q
    <3> QED BY <1>1, <2>1, <2>4, <2>5, <2>8, <2>9, <2>10, <2>11, MoveSound DEF q
  <2> QED BY <2>7, <2>12 DEF v
<1> QED BY <1>3, <1>4

(* The walk over the queue: every command of it still waits when its turn
   comes. *)
LEMMA ProcessPendingKeeps ==
    ASSUME Sound(fcr), NEW h \in FcHwqps, FcProcessPending(h)
    PROVE  Sound(fcr')
<1> DEFINE w == fcr
           s == w.hw[h].pending
           N == Len(s)
<1>1. /\ w \in FqType /\ s \in Seq(FcReqs) /\ N \in Nat /\ DOMAIN s = 1 .. N
      /\ \A n \in 1 .. N : s[n] \in FcReqs /\ w.req[s[n]].st = "pending"
      /\ \A n, m \in 1 .. N : s[n] = s[m] => n = m
  <2>1. w \in FqType /\ PendingAt(w, h)
    BY DEF Sound, Core
  <2>2. s \in Seq(FcReqs)
    BY <2>1, FqParts
  <2> QED BY <2>1, <2>2 DEF PendingAt, IsInjective, ToSet
<1>2. PICK f : Turns(f, "pending", w, s) /\ PendingExecuted(w, s) = f[N]
  BY <1>1, PendingTurns
<1> DEFINE Kept(n) == Sound(f[n]) /\ \A j \in 1 .. N : j > n => f[n].req[s[j]].st = "pending"
           Good == {n \in 0 .. N : Kept(n)}
<1>3. 0 \in Good
  BY <1>1, <1>2 DEF Turns
<1>4. ASSUME NEW n \in 0 .. N, n + 1 \in 0 .. N, n \in Good PROVE n + 1 \in Good
  <2>1. f[n + 1] = FcExecutePending(f[n], s[n + 1])
    <3>1. n + 1 \in 1 .. N /\ n + 1 - 1 = n BY <1>4
    <3>2. f[n + 1] = FcTurn("pending", f[n + 1 - 1], s[n + 1]) BY <1>2, <3>1 DEF Turns
    <3> QED BY <3>1, <3>2 DEF FcTurn
  <2>2. Sound(f[n]) /\ s[n + 1] \in FcReqs /\ f[n].req[s[n + 1]].st = "pending"
    BY <1>1, <1>4
  <2>3. /\ Sound(f[n + 1])
        /\ \A p \in FcReqs \ {s[n + 1]} : f[n + 1].req[p] = f[n].req[p]
    BY <2>1, <2>2, PendingTurnKeeps
  <2>4. ASSUME NEW j \in 1 .. N, j > n + 1 PROVE f[n + 1].req[s[j]].st = "pending"
    <3>1. s[j] \in FcReqs \ {s[n + 1]} BY <1>1, <1>4, <2>4
    <3>2. f[n].req[s[j]].st = "pending" BY <1>4, <2>4
    <3> QED BY <2>3, <3>1, <3>2
  <2> QED BY <1>4, <2>3, <2>4
<1> HIDE DEF Good
<1>5. N \in Good
  <2>1. \A n \in 0 .. N : n + 1 \in 0 .. N /\ n \in Good => n + 1 \in Good
    BY <1>4
  <2>2. N \in Nat /\ N \in 0 .. N
    BY <1>1
  <2> HIDE DEF N
  <2> QED BY <1>3, <2>1, <2>2, CountedUp
<1>6. fcr' = f[N]
  BY <1>2 DEF FcProcessPending
<1> QED BY <1>5, <1>6 DEF Good

---------------------------------------------------------------------------
(* A step of one hwqp *)

(* The invariant without the deletion of h's connection. *)
Calm(w, h) ==
    Core(w) /\ (\A k \in FcHwqps \ {h} : ConnAt(w, k)) /\ (\A i \in AbtsIds : AbtsAt(w, i)) /\ TruthOf(w)

(* The invariant is that and the deletion. *)
LEMMA SoundIsCalm ==
    ASSUME NEW w, NEW h \in FcHwqps
    PROVE  Sound(w) <=> Calm(w, h) /\ ConnAt(w, h)
  BY DEF Sound, Calm

(* Only h and its commands change, and perhaps answers to the main thread. *)
HwqpStep(w, v, h) ==
    /\ Background(w, v) /\ v.abts = w.abts /\ v.markers = w.markers /\ v.air = w.air
    /\ \A p \in FcReqs \ FcSlots[h] : v.req[p] = w.req[p]
    /\ \A k \in FcHwqps \ {h} : v.hw[k] = w.hw[k]

(* Such a step keeps the commands if it does on h. *)
LEMMA HwqpStepCore ==
    ASSUME NEW w \in FqType, NEW h \in FcHwqps, NEW v, HwqpStep(w, v, h),
           \A p \in FcReqs \ FcSlots[h] : ReqAt(w, p),
           \A k \in FcHwqps \ {h} : PendingAt(w, k) /\ CapAt(w, k) /\ EndAt(w, k),
           \A p \in FcSlots[h] : ReqAt(v, p), PendingAt(v, h), CapAt(v, h), EndAt(v, h)
    PROVE  Core(v)
<1>1. ASSUME NEW p \in FcReqs PROVE ReqAt(v, p)
  <2>1. CASE p \in FcReqs \ FcSlots[h]
    <3>1. ReqAt(w, p) /\ v.req[p] = w.req[p] /\ v.air = w.air BY <2>1 DEF HwqpStep
    <3> QED BY <3>1 DEF ReqAt
  <2> QED BY <2>1
<1>2. ASSUME NEW k \in FcHwqps \ {h} PROVE PendingAt(v, k) /\ CapAt(v, k) /\ EndAt(v, k)
  <2>1. \A p \in FcSlots[k] : v.req[p] = w.req[p]
    BY HomeOf DEF HwqpStep
  <2>2. v.hw[k] = w.hw[k] /\ v.dead = w.dead /\ v.left.xchgs = w.left.xchgs
    BY DEF HwqpStep, Background
  <2> QED BY <2>1, <2>2, OtherHwqp
<1>3. v \in FqType /\ v.crash = "no"
  BY DEF HwqpStep, Background
<1> QED BY <1>1, <1>2, <1>3 DEF Core

(* The reports to the main thread of a hwqp on an ABTS. *)
ReportsKept(w, v, i, h) ==
    /\ At(v.main, Found(i, h)) <=> At(w.main, Found(i, h))
    /\ At(v.main, NotFound(i, h)) <=> At(w.main, NotFound(i, h))
    /\ At(v.main, QueueSynced(i, h)) <=> At(w.main, QueueSynced(i, h))
    /\ Once(w.main, Found(i, h)) => Once(v.main, Found(i, h))
    /\ Once(w.main, NotFound(i, h)) => Once(v.main, NotFound(i, h))
    /\ Once(w.main, QueueSynced(i, h)) => Once(v.main, QueueSynced(i, h))

(* The question to h stays open, wherever it goes. *)
AbtsMoves(w, v, i, h) ==
    LET r == w.abts[i].req
    IN  /\ \A k \in FcHwqps \ {h} : ReportsKept(w, v, i, k)
        /\ PlacesAt(v, i, h) /\ ToldAt(v, i)
        /\ AbtsPart(v, i, h) <=> AbtsPart(w, i, h)
        /\ SyncPart(v, i, h) <=> SyncPart(w, i, h)
        /\ w.hw[h].conn = "deleted" => v.hw[h].conn = "deleted"
        /\ w.abts[i].st = "asked" /\ Gone(w, r) => Gone(v, r)
        /\ At(v.main, Found(i, h)) => At(w.main, Found(i, h)) \/ Gone(v, r)
        /\ w.abts[i].synced /\ w.abts[i].st = "asked" /\ HwqpOf(r) = h /\ ~Asking(v, i, h) /\ ~Waiting(v, i, h) =>
              (~Asking(w, i, h) /\ ~Waiting(w, i, h)) \/ Gone(v, r) \/ v.hw[h].conn = "deleted"

(* It keeps an ABTS whose messages it keeps. *)
LEMMA AbtsMoved ==
    ASSUME NEW w \in FqType, NEW h \in FcHwqps, NEW v, HwqpStep(w, v, h), NEW i \in AbtsIds, AbtsAt(w, i),
           AbtsMoves(w, v, i, h)
    PROVE  AbtsAt(v, i)
<1> DEFINE b == w.abts[i]
           r == b.req
           home == HwqpOf(r)
<1>1. v.abts[i] = b /\ v.abts[i].req = r /\ v.markers = w.markers /\ v.air = w.air
  BY DEF HwqpStep
<1>2. ASSUME NEW k \in FcHwqps \ {h}
      PROVE  /\ v.hw[k] = w.hw[k] /\ (Asking(v, i, k) <=> Asking(w, i, k)) /\ (Waiting(v, i, k) <=> Waiting(w, i, k))
             /\ (Answered(v, i, k) <=> Answered(w, i, k)) /\ (Marked(v, i, k) <=> Marked(w, i, k))
             /\ ReportsKept(w, v, i, k)
  <2>1. v.hw[k] = w.hw[k]
    BY DEF HwqpStep
  <2>2. ReportsKept(w, v, i, k)
    BY DEF AbtsMoves
  <2>3. r \in FcSlots[k] => v.req[r] = w.req[r]
    BY HomeOf DEF HwqpStep
  <2>4. Waiting(v, i, k) <=> Waiting(w, i, k)
    BY <1>1, <2>3 DEF Waiting
  <2>5. (Asking(v, i, k) <=> Asking(w, i, k)) /\ (Marked(v, i, k) <=> Marked(w, i, k))
    BY <1>1, <2>1 DEF Asking, Marked
  <2>6. Answered(v, i, k) <=> Answered(w, i, k)
    BY <2>2 DEF Answered, ReportsKept
  <2> QED BY <2>1, <2>2, <2>4, <2>5, <2>6
<1>3. ASSUME NEW k \in FcHwqps
      PROVE  (AbtsPart(v, i, k) <=> AbtsPart(w, i, k)) /\ (SyncPart(v, i, k) <=> SyncPart(w, i, k))
  <2>1. CASE k = h
    BY <2>1 DEF AbtsMoves
  <2>2. CASE k # h
    BY <1>2, <2>2 DEF AbtsPart, SyncPart, ReportsKept
  <2> QED BY <2>1, <2>2
<1>4. OpenAt(v, i) = OpenAt(w, i) /\ (Syncing(v, i) <=> Syncing(w, i))
  BY <1>3 DEF OpenAt, Syncing
<1>5. ASSUME NEW k \in FcHwqps PROVE PlacesAt(v, i, k)
  <2>1. CASE k = h
    BY <2>1 DEF AbtsMoves
  <2>2. CASE k # h
    <3>1. PlacesAt(w, i, k) BY DEF AbtsAt
    <3>2. /\ v.hw[k] = w.hw[k] /\ (Asking(v, i, k) <=> Asking(w, i, k)) /\ (Waiting(v, i, k) <=> Waiting(w, i, k))
          /\ (Answered(v, i, k) <=> Answered(w, i, k)) /\ (Marked(v, i, k) <=> Marked(w, i, k))
          /\ ReportsKept(w, v, i, k)
      BY <1>2, <2>2
    <3> QED BY <1>1, <3>1, <3>2 DEF PlacesAt, ReportsKept
  <2> QED BY <2>1, <2>2
<1>6. FrameAt(v, i)
  BY <1>1, <1>3, <1>4 DEF AbtsAt, FrameAt
<1>7. TruthAt(v, i)
  <2> SUFFICES ASSUME b.st = "asked" PROVE TruthAt(v, i)
    BY <1>1 DEF TruthAt
  <2>1. r \in FcReqs /\ home \in FcHwqps
    BY HomeOf DEF AbtsAt, FrameAt
  <2>2. TruthAt(w, i)
    BY DEF AbtsAt
  <2>3. Gone(w, r) => Gone(v, r)
    BY DEF AbtsMoves
  <2>4. w.hw[home].conn = "deleted" => v.hw[home].conn = "deleted"
    <3>1. CASE home = h
      BY <3>1 DEF AbtsMoves
    <3>2. CASE home # h
      BY <1>2, <2>1, <3>2
    <3> QED BY <3>1, <3>2
  <2>5. b.handled \/ (\E k \in FcHwqps : At(v.main, Found(i, k))) => Gone(v, r)
    <3>1. CASE b.handled
      BY <2>2, <2>3, <3>1 DEF TruthAt
    <3>2. ASSUME NEW k \in FcHwqps, At(v.main, Found(i, k)) PROVE Gone(v, r)
      <4>1. At(w.main, Found(i, k)) \/ Gone(v, r) BY <1>2, <3>2 DEF AbtsMoves, ReportsKept
      <4> QED BY <2>2, <2>3, <4>1 DEF TruthAt
    <3> QED BY <3>1, <3>2
  <2>6. b.synced /\ home \in b.asked /\ ~Asking(v, i, home) /\ ~Waiting(v, i, home) =>
           Gone(v, r) \/ v.hw[home].conn = "deleted"
    <3> SUFFICES ASSUME b.synced, home \in b.asked, ~Asking(v, i, home), ~Waiting(v, i, home)
                 PROVE  Gone(v, r) \/ v.hw[home].conn = "deleted"
      OBVIOUS
    <3>1. (~Asking(w, i, home) /\ ~Waiting(w, i, home)) \/ Gone(v, r) \/ v.hw[home].conn = "deleted"
      <4>1. CASE home = h
        BY <4>1 DEF AbtsMoves
      <4>2. CASE home # h
        BY <1>2, <2>1, <4>2
      <4> QED BY <4>1, <4>2
    <3> QED BY <2>2, <2>3, <2>4, <3>1 DEF TruthAt
  <2> QED BY <1>1, <1>4, <2>2, <2>4, <2>5, <2>6 DEF TruthAt
<1>8. ToldAt(v, i)
  BY DEF AbtsMoves
<1> QED BY <1>5, <1>6, <1>7, <1>8 DEF AbtsAt

(* A step of the hwqp keeps the invariant when it keeps what concerns it. *)
LEMMA HwqpStepCalm ==
    ASSUME NEW w, NEW h \in FcHwqps, Calm(w, h), NEW v, HwqpStep(w, v, h), Core(v), \A i \in AbtsIds : AbtsAt(v, i)
    PROVE  Calm(v, h)
<1>1. w \in FqType
  BY DEF Calm, Core
<1>2. ASSUME NEW k \in FcHwqps \ {h} PROVE ConnAt(v, k)
  <2>1. \A p \in FcSlots[k] : v.req[p] = w.req[p]
    BY HomeOf DEF HwqpStep
  <2>2. v.hw[k] = w.hw[k] /\ v.dead = w.dead /\ v.left.xchgs = w.left.xchgs
    BY DEF HwqpStep, Background
  <2>3. ConnAt(w, k)
    BY DEF Calm
  <2> QED BY <1>1, <2>1, <2>2, <2>3, OtherHwqp
<1>3. TruthOf(v)
  BY DEF Calm, TruthOf, HwqpStep, Background
<1> QED BY <1>2, <1>3 DEF Calm

---------------------------------------------------------------------------
(* An abort *)

(* Messages that neither an ABTS nor the deletion nor a reset sends. *)
Unnoticed(s, t) ==
    /\ NotesKept(s, t)
    /\ At(t, Quiet) <=> At(s, Quiet)
    /\ Once(s, Quiet) => Once(t, Quiet)
    /\ At(t, Del) <=> At(s, Del)
    /\ Once(s, Del) => Once(t, Del)

(* A message that is no note joins the queue unnoticed. *)
LEMMA UnnoticedAppended ==
    ASSUME NEW s \in Seq(FqMsg), NEW e \in FqMsg, \A k, i : Note(k, i) # e, e # Quiet, e # Del
    PROVE  Unnoticed(s, Append(s, e))
<1> DEFINE t == Append(s, e)
<1>1. \A m : At(t, m) <=> At(s, m) \/ m = e
  BY AppendedQueue
<1>2. \A m : Once(s, m) /\ (m = e => ~At(s, m)) => Once(t, m)
  BY AppendedQueue
<1>3. \A i : Ordered(s, i) /\ (e = Note("sync_done", i) => At(s, Note("sync", i))) => Ordered(t, i)
  BY AppendedQueue
<1> HIDE DEF t
<1>4. NotesKept(s, t)
  BY <1>1, <1>2, <1>3 DEF NotesKept
<1>5. (At(t, Quiet) <=> At(s, Quiet)) /\ (At(t, Del) <=> At(s, Del))
  BY <1>1
<1>6. (Once(s, Quiet) => Once(t, Quiet)) /\ (Once(s, Del) => Once(t, Del))
  BY <1>2
<1> QED BY <1>4, <1>5, <1>6 DEF Unnoticed, t

(* A queue that stays is unnoticed. *)
LEMMA UnnoticedStay == \A s : Unnoticed(s, s)
  BY NotesStay DEF Unnoticed

(* Ends of aborts are messages. *)
LEMMA EndIsMessage ==
    ASSUME NEW r \in FcReqs
    PROVE  Ended(r) \in FqMsg /\ (\A k, i : Note(k, i) # Ended(r)) /\ Ended(r) # Quiet /\ Ended(r) # Del
  BY KindsDiffer DEF Ended, FqMsg
BdevAbort(r) == [k |-> "bdev_abort", r |-> r]

(* An abort for the bdev is a message of its own kind. *)
LEMMA BdevAbortIsMessage ==
    ASSUME NEW r \in FcReqs
    PROVE  /\ BdevAbort(r) \in FqMsg /\ (\A k, i : Note(k, i) # BdevAbort(r)) /\ BdevAbort(r) # Quiet /\ BdevAbort(r) # Del
           /\ \A p : BdevAbort(r) # Ended(p)
<1>1. BdevAbort(r).k = "bdev_abort" /\ DOMAIN BdevAbort(r) = {"k", "r"}
  BY DEF BdevAbort
<1>2. \A k, i : DOMAIN Note(k, i) = {"k", "i"}
  BY DEF Note
<1>3. Quiet.k = "quiesce" /\ Del.k = "del" /\ \A p : Ended(p).k = "aborted"
  BY DEF Quiet, Del, Ended
<1>4. \A k, i : Note(k, i) # BdevAbort(r)
  BY <1>1, <1>2
<1>5. BdevAbort(r) \in FqMsg
  BY DEF BdevAbort, FqMsg
<1> QED BY <1>1, <1>3, <1>4, <1>5

(* What the abort of a command that somebody waits for does. *)
AbortTold(w, r, c, d) == FcAbort([w EXCEPT !.req = [w.req EXCEPT ![r] = [w.req[r] EXCEPT !.cbs = c, !.del = d]]], r)
Aborted(w, v, r, c, d) ==
    LET h == HwqpOf(r)
    IN  /\ v \in FqType /\ Around(w, v)
        /\ \A p \in FcReqs \ {r} : v.req[p] = w.req[p]
        /\ \A k \in FcHwqps \ {h} : v.hw[k] = w.hw[k]
        /\ v.req[r].data = w.req[r].data /\ v.req[r].cbs = c /\ v.req[r].del = d /\ v.req[r].aborted = TRUE
        /\ v.req[r].st \in {w.req[r].st, "aborted"}
        /\ v.hw[h].on = w.hw[h].on /\ v.hw[h].syncs = w.hw[h].syncs /\ v.hw[h].conn = w.hw[h].conn
        /\ v.hw[h].left = w.hw[h].left
        /\ Unnoticed(w.hw[h].msgs, v.hw[h].msgs)

(* It leaves the command's state or ends it, with a message. *)
EndShape(w, q, x, r, c, d, e, y) ==
    \/ /\ e = [q EXCEPT !.cbs = c, !.del = d, !.aborted = TRUE]
       /\ y = x \/ y = [x EXCEPT !.msgs = Append(x.msgs, BdevAbort(r))]
       /\ q.st # "pending" /\ q.st # "free"
    \/ /\ e = [q EXCEPT !.cbs = c, !.del = d, !.aborted = TRUE, !.st = "aborted"]
       /\ \/ y = [x EXCEPT !.msgs = Append(x.msgs, Ended(r))] /\ q.st \in InXfer /\ w.dead
          \/ /\ y = [x EXCEPT !.msgs = Append(x.msgs, Ended(r)), !.pending = RemoveFirst(x.pending, r)]
             /\ q.st = "pending"

(* The state that an abort leaves has that shape. *)
LEMMA AbortShape ==
    ASSUME NEW w \in FqType, NEW r \in FcReqs, ReqAt(w, r), w.req[r].st # "free", NEW c \in Seq(AbtsIds),
           NEW d \in BOOLEAN
    PROVE  \E e, y : /\ AbortTold(w, r, c, d) = PutOne(w, r, e, HwqpOf(r), y)
                     /\ EndShape(w, w.req[r], w.hw[HwqpOf(r)], r, c, d, e, y)
<1> DEFINE h == HwqpOf(r)
           q == w.req[r]
           x == w.hw[h]
           a == [q EXCEPT !.cbs = c, !.del = d]
           A == [w.req EXCEPT ![r] = a]
           u == [w EXCEPT !.req = A]
           e1 == [q EXCEPT !.cbs = c, !.del = d, !.aborted = TRUE]
           e2 == [q EXCEPT !.cbs = c, !.del = d, !.aborted = TRUE, !.st = "aborted"]
           v == FcAbort(u, r)
<1>1. q \in FqReq /\ x \in FqHw /\ h \in FcHwqps /\ w.req \in [FcReqs -> FqReq] /\ w.hw \in [FcHwqps -> FqHw]
  BY HomeOf, FqFields, FqParts
<1>2. a.st = q.st /\ a.aborted = q.aborted /\ [a EXCEPT !.aborted = TRUE] = e1
      /\ [a EXCEPT !.aborted = TRUE, !.st = "aborted"] = e2
  BY <1>1 DEF FqReq
<1>3. q.st # "init" /\ (q.st = "aborted" => q.aborted) /\ (q.st = "pending" => ~q.aborted) /\ q.st \in FqPhases
      /\ q.aborted \in BOOLEAN
  BY <1>1 DEF ReqAt, FqReq
<1> HIDE DEF e1, e2, a
<1>4. A \in [FcReqs -> [st : FqPhases, data : FqKinds, xchg : BOOLEAN, buf : BOOLEAN, aborted : BOOLEAN,
                        cbs : Seq(AbtsIds), del : BOOLEAN]] /\ A[r] = a
      /\ [A EXCEPT ![r] = e1] = [w.req EXCEPT ![r] = e1] /\ [A EXCEPT ![r] = e2] = [w.req EXCEPT ![r] = e2]
  <2>1. a \in FqReq
    BY <1>1 DEF a, FqReq
  <2> QED BY <1>1, <2>1 DEF FqReq
<1> HIDE DEF A
<1>5. u.req = A /\ u.hw = w.hw /\ u.dead = w.dead
  BY DEF FqType
<1> DEFINE Marks == [u EXCEPT !.req = [w.req EXCEPT ![r] = e1]]
           Ends == [u EXCEPT !.req = [w.req EXCEPT ![r] = e2]]
<1>6. /\ [u EXCEPT !.req[r].aborted = TRUE] = Marks
      /\ [u EXCEPT !.req[r] = [@ EXCEPT !.aborted = TRUE, !.st = "aborted"]] = Ends
  BY <1>2, <1>4, <1>5
<1>7. /\ Marks = [w EXCEPT !.req = [w.req EXCEPT ![r] = e1]] /\ Ends = [w EXCEPT !.req = [w.req EXCEPT ![r] = e2]]
      /\ Marks.hw = w.hw /\ Ends.hw = w.hw
  BY DEF FqType
<1>8. /\ ToHwqp(Marks, h, BdevAbort(r))
         = [Marks EXCEPT !.hw = [w.hw EXCEPT ![h] = [x EXCEPT !.msgs = Append(x.msgs, BdevAbort(r))]]]
      /\ AbortMessage(Ends, r) = [Ends EXCEPT !.hw = [w.hw EXCEPT ![h] = [x EXCEPT !.msgs = Append(x.msgs, Ended(r))]]]
  BY <1>7 DEF ToHwqp, AbortMessage, Ended
<1>9. AbortMessage([Ends EXCEPT !.hw[h].pending = RemoveFirst(@, r)], r)
      = [Ends EXCEPT !.hw = [w.hw EXCEPT ![h] = [x EXCEPT !.msgs = Append(x.msgs, Ended(r)),
      !.pending = RemoveFirst(x.pending, r)]]]
  <2> DEFINE s == RemoveFirst(x.pending, r)
             y == [x EXCEPT !.pending = s]
             H == [w.hw EXCEPT ![h] = y]
  <2>1. [Ends EXCEPT !.hw[h].pending = RemoveFirst(@, r)] = [Ends EXCEPT !.hw = H]
    BY <1>7
  <2> HIDE DEF s
  <2>2. H[h] = y /\ y.msgs = x.msgs
    BY <1>1 DEF FqHw
  <2>3. [H EXCEPT ![h] = [y EXCEPT !.msgs = Append(x.msgs, Ended(r))]]
        = [w.hw EXCEPT ![h] = [x EXCEPT !.msgs = Append(x.msgs, Ended(r)), !.pending = s]]
    BY <1>1 DEF FqHw
  <2> HIDE DEF H, y, Ends
  <2>4. Ends \in [req : {Ends.req}, hw : {Ends.hw}, abts : {Ends.abts}, main : {Ends.main}, air : {Ends.air},
                  markers : {Ends.markers}, dead : {Ends.dead}, left : {Ends.left}, crash : {Ends.crash},
                  wrong : {Ends.wrong}]
    BY DEF FqType, Ends
  <2> DEFINE B == [Ends EXCEPT !.hw = H]
  <2>5. B.hw = H /\ \A K : [B EXCEPT !.hw = K] = [Ends EXCEPT !.hw = K]
    BY <2>4
  <2> HIDE DEF B
  <2>6. ToHwqp(B, h, Ended(r)) = [B EXCEPT !.hw = [H EXCEPT ![h] = [y EXCEPT !.msgs = Append(x.msgs, Ended(r))]]]
    BY <2>2, <2>5 DEF ToHwqp
  <2>7. AbortMessage(B, r) = ToHwqp(B, h, Ended(r))
    BY DEF AbortMessage, Ended
  <2> QED BY <2>1, <2>3, <2>5, <2>6, <2>7 DEF B, s
<1> HIDE DEF u
<1> DEFINE Result(e, y) == v = PutOne(w, r, e, h, y) /\ EndShape(w, q, x, r, c, d, e, y)
<1>10. \A e, y : PutOne(w, r, e, h, y) = [w EXCEPT !.req = [w.req EXCEPT ![r] = e], !.hw = [w.hw EXCEPT ![h] = y]]
  BY DEF PutOne, Put
<1>11. /\ Marks = PutOne(w, r, e1, h, x)
       /\ \A y : [Marks EXCEPT !.hw = [w.hw EXCEPT ![h] = y]] = PutOne(w, r, e1, h, y)
       /\ \A y : [Ends EXCEPT !.hw = [w.hw EXCEPT ![h] = y]] = PutOne(w, r, e2, h, y)
  <2>1. [w.hw EXCEPT ![h] = x] = w.hw
    BY <1>1
  <2> DEFINE R1 == [w.req EXCEPT ![r] = e1]
             R2 == [w.req EXCEPT ![r] = e2]
  <2>2. Marks = [w EXCEPT !.req = R1] /\ Ends = [w EXCEPT !.req = R2]
    BY <1>7
  <2> HIDE DEF R1, R2, Marks, Ends
  <2>3. \A H : [Marks EXCEPT !.hw = H] = [w EXCEPT !.req = R1, !.hw = H]
        /\ [Ends EXCEPT !.hw = H] = [w EXCEPT !.req = R2, !.hw = H]
    BY <2>2 DEF FqType
  <2>4. Marks = [w EXCEPT !.req = R1, !.hw = w.hw]
    BY <2>2 DEF FqType
  <2>5. \A y : /\ PutOne(w, r, e1, h, y) = [w EXCEPT !.req = R1, !.hw = [w.hw EXCEPT ![h] = y]]
               /\ PutOne(w, r, e2, h, y) = [w EXCEPT !.req = R2, !.hw = [w.hw EXCEPT ![h] = y]]
    BY <1>10 DEF R1, R2
  <2>6. \A y : /\ [Marks EXCEPT !.hw = [w.hw EXCEPT ![h] = y]] = PutOne(w, r, e1, h, y)
               /\ [Ends EXCEPT !.hw = [w.hw EXCEPT ![h] = y]] = PutOne(w, r, e2, h, y)
    BY <2>3, <2>5
  <2>7. Marks = PutOne(w, r, e1, h, x)
    BY <2>1, <2>4, <2>5
  <2> QED BY <2>6, <2>7
<1>12. /\ FcAbort(u, r) = CASE w.dead /\ q.st \in InXfer       -> AbortMessage(Ends, r)
                            [] ~w.dead /\ q.st \in InXfer      -> Marks
                            [] q.st \notin InXfer /\ q.aborted -> u
                            [] ~q.aborted /\ q.st \in InBdev   -> ToHwqp(Marks, h, BdevAbort(r))
                            [] ~q.aborted
                            /\ q.st = "pending"  -> AbortMessage([Ends EXCEPT !.hw[h].pending = RemoveFirst(@, r)], r)
                            [] OTHER                           -> AbortMessage(Ends, r)
  <2>1. u.req[r] = a /\ u.dead = w.dead
    BY <1>4, <1>5
  <2> HIDE DEF Ends, Marks
  <2> QED BY <1>2, <1>6, <2>1 DEF FcAbort, BdevAbort
<1>13. q.st \in InBdev => q.st \notin InXfer /\ q.st # "pending" /\ q.st # "free"
  BY DEF InBdev, InXfer
<1>14. q.st \in InXfer => q.st # "pending" /\ q.st # "free"
  BY DEF InXfer
<1> HIDE DEF Marks, Ends, h, q, x
<1>15. ASSUME w.dead, q.st \in InXfer PROVE \E e, y : Result(e, y)
  <2> DEFINE y == [x EXCEPT !.msgs = Append(x.msgs, Ended(r))]
  <2>1. v = PutOne(w, r, e2, h, y)
    <3>1. v = AbortMessage(Ends, r) BY <1>12, <1>13, <1>14, <1>15
    <3> HIDE DEF v
    <3> QED BY <1>8, <1>11, <3>1
  <2>2. EndShape(w, q, x, r, c, d, e2, y)
    BY <1>15 DEF EndShape, e2
  <2> QED BY <2>1, <2>2
<1>16. ASSUME ~w.dead, q.st \in InXfer PROVE \E e, y : Result(e, y)
  <2>1. v = PutOne(w, r, e1, h, x)
    <3>1. v = Marks BY <1>12, <1>13, <1>14, <1>16
    <3> QED BY <1>11, <3>1
  <2>2. EndShape(w, q, x, r, c, d, e1, x)
    BY <1>14, <1>16 DEF EndShape, e1
  <2> QED BY <2>1, <2>2
<1>17. ASSUME q.st \notin InXfer, q.aborted PROVE \E e, y : Result(e, y)
  <2>1. a = e1
    BY <1>1, <1>3, <1>17 DEF a, e1, FqReq
  <2>2. u = Marks
    BY <2>1, <1>7 DEF u, A
  <2>3. v = PutOne(w, r, e1, h, x)
    BY <1>11, <1>12, <1>17, <2>2
  <2>4. EndShape(w, q, x, r, c, d, e1, x)
    BY <1>3, <1>17 DEF EndShape, e1, q
  <2> QED BY <2>3, <2>4
<1>18. ASSUME ~q.aborted, q.st \in InBdev PROVE \E e, y : Result(e, y)
  <2> DEFINE y == [x EXCEPT !.msgs = Append(x.msgs, BdevAbort(r))]
  <2>1. v = PutOne(w, r, e1, h, y)
    BY <1>8, <1>11, <1>12, <1>13, <1>18
  <2>2. EndShape(w, q, x, r, c, d, e1, y)
    BY <1>13, <1>18 DEF EndShape, e1
  <2> QED BY <2>1, <2>2
<1>19. ASSUME ~q.aborted, q.st = "pending" PROVE \E e, y : Result(e, y)
  <2> DEFINE y == [x EXCEPT !.msgs = Append(x.msgs, Ended(r)), !.pending = RemoveFirst(x.pending, r)]
  <2>1. q.st \notin InXfer /\ q.st \notin InBdev
    BY <1>19 DEF InXfer, InBdev
  <2>2. v = PutOne(w, r, e2, h, y)
    BY <1>9, <1>11, <1>12, <1>19, <2>1
  <2>3. EndShape(w, q, x, r, c, d, e2, y)
    BY <1>19 DEF EndShape, e2
  <2> QED BY <2>2, <2>3
<1>20. \E e, y : Result(e, y)
  <2>1. q.st \in InXfer \/ q.st \in InBdev \/ q.st = "pending" \/ q.aborted
    BY <1>3 DEF FqPhases, q
  <2>2. w.dead \in BOOLEAN /\ q.aborted \in BOOLEAN
    BY <1>3, FqFields
  <2> QED BY <1>15, <1>16, <1>17, <1>18, <1>19, <2>1, <2>2
<1>21. AbortTold(w, r, c, d) = v
  BY DEF AbortTold, u, A, a, q
<1> QED BY <1>20, <1>21 DEF q, x, h

(* The queue of messages of a hwqp after an abort. *)
EndsAfter(s, t, r, ended) ==
    /\ Unnoticed(s, t)
    /\ \A p \in FcReqs : /\ At(t, Ended(p)) <=> At(s, Ended(p)) \/ (ended /\ p = r)
                         /\ Once(s, Ended(p)) /\ ~(ended /\ p = r /\ At(s, Ended(p))) => Once(t, Ended(p))

(* How the ends of aborts stand after one more message. *)
LEMMA EndsAfterAppend ==
    ASSUME NEW s \in Seq(FqMsg), NEW r \in FcReqs
    PROVE  /\ EndsAfter(s, s, r, FALSE)
           /\ EndsAfter(s, Append(s, BdevAbort(r)), r, FALSE) /\ Append(s, BdevAbort(r)) \in Seq(FqMsg)
           /\ EndsAfter(s, Append(s, Ended(r)), r, TRUE) /\ Append(s, Ended(r)) \in Seq(FqMsg)
<1>1. EndsAfter(s, s, r, FALSE)
  BY UnnoticedStay DEF EndsAfter
<1>2. EndsAfter(s, Append(s, BdevAbort(r)), r, FALSE) /\ Append(s, BdevAbort(r)) \in Seq(FqMsg)
  <2> DEFINE e == BdevAbort(r)
             t == Append(s, e)
  <2>1. e \in FqMsg /\ (\A k, i : Note(k, i) # e) /\ e # Quiet /\ e # Del /\ \A p : e # Ended(p)
    BY BdevAbortIsMessage
  <2> HIDE DEF e
  <2>2. /\ t \in Seq(FqMsg) /\ (\A m : At(t, m) <=> At(s, m) \/ m = e)
        /\ \A m : Once(s, m) /\ (m = e => ~At(s, m)) => Once(t, m)
    BY <2>1, AppendedQueue
  <2>3. Unnoticed(s, t)
    BY <2>1, UnnoticedAppended
  <2> HIDE DEF t
  <2>4. EndsAfter(s, t, r, FALSE)
    BY <2>1, <2>2, <2>3 DEF EndsAfter
  <2> QED BY <2>2, <2>4 DEF t, e
<1>3. EndsAfter(s, Append(s, Ended(r)), r, TRUE) /\ Append(s, Ended(r)) \in Seq(FqMsg)
  <2> DEFINE e == Ended(r)
             t == Append(s, e)
  <2>1. e \in FqMsg /\ (\A k, i : Note(k, i) # e) /\ e # Quiet /\ e # Del /\ \A p : e = Ended(p) <=> p = r
    BY EndIsMessage, KindsDiffer
  <2> HIDE DEF e
  <2>2. /\ t \in Seq(FqMsg) /\ (\A m : At(t, m) <=> At(s, m) \/ m = e)
        /\ \A m : Once(s, m) /\ (m = e => ~At(s, m)) => Once(t, m)
    BY <2>1, AppendedQueue
  <2>3. Unnoticed(s, t)
    BY <2>1, UnnoticedAppended
  <2> HIDE DEF t
  <2>4. EndsAfter(s, t, r, TRUE)
    BY <2>1, <2>2, <2>3 DEF EndsAfter
  <2> QED BY <2>2, <2>4 DEF t, e
<1> QED BY <1>1, <1>2, <1>3

(* The shape again, as what the abort leaves of the command and the hwqp. *)
EndResult(w, q, x, r, c, d, e, y, ended) ==
    /\ e \in FqReq /\ e.data = q.data /\ e.xchg = q.xchg /\ e.buf = q.buf /\ e.cbs = c /\ e.del = d /\ e.aborted = TRUE
    /\ e.st = (IF ended THEN "aborted" ELSE q.st)
    /\ y \in FqHw /\ y.on = x.on /\ y.syncs = x.syncs /\ y.conn = x.conn /\ y.left = x.left
    /\ EndsAfter(x.msgs, y.msgs, r, ended)
    /\ y.pending = (IF q.st = "pending" THEN RemoveFirst(x.pending, r) ELSE x.pending)
    /\ ended => (q.st \in InXfer /\ w.dead) \/ q.st = "pending"
    /\ ~ended => q.st # "pending" /\ q.st # "free"

(* What an abort of that shape leaves behind. *)
LEMMA EndShapeResult ==
    ASSUME NEW w, NEW q \in FqReq, NEW x \in FqHw, NEW r \in FcReqs, NEW c \in Seq(AbtsIds), NEW d \in BOOLEAN,
           NEW e, NEW y,
           EndShape(w, q, x, r, c, d, e, y), IsInjective(x.pending)
    PROVE  \E ended \in BOOLEAN : EndResult(w, q, x, r, c, d, e, y, ended)
<1>1. x.msgs \in Seq(FqMsg) /\ x.pending \in Seq(FcReqs)
  BY DEF FqHw
<1> DEFINE tb == Append(x.msgs, BdevAbort(r))
           te == Append(x.msgs, Ended(r))
           s == RemoveFirst(x.pending, r)
<1>2. /\ EndsAfter(x.msgs, x.msgs, r, FALSE) /\ EndsAfter(x.msgs, tb, r, FALSE) /\ EndsAfter(x.msgs, te, r, TRUE)
      /\ tb \in Seq(FqMsg) /\ te \in Seq(FqMsg) /\ s \in Seq(FcReqs)
  BY <1>1, EndsAfterAppend, RemovedFacts
<1> HIDE DEF tb, te, s
<1>3. ASSUME NEW t \in Seq(FqMsg)
      PROVE  LET z == [x EXCEPT !.msgs = t]
             IN  z \in FqHw /\ z.on = x.on /\ z.syncs = x.syncs /\ z.conn = x.conn /\ z.left = x.left /\ z.msgs = t
                 /\ z.pending = x.pending
  BY <1>3 DEF FqHw
<1>4. LET z == [x EXCEPT !.msgs = te, !.pending = s]
      IN  z \in FqHw /\ z.on = x.on /\ z.syncs = x.syncs /\ z.conn = x.conn /\ z.left = x.left /\ z.msgs = te
          /\ z.pending = s
  BY <1>2 DEF FqHw
<1>5. LET g == [q EXCEPT !.cbs = c, !.del = d, !.aborted = TRUE]
      IN  g \in FqReq /\ g.data = q.data /\ g.xchg = q.xchg /\ g.buf = q.buf /\ g.cbs = c /\ g.del = d /\ g.aborted = TRUE
          /\ g.st = q.st
  BY DEF FqReq
<1>6. LET g == [q EXCEPT !.cbs = c, !.del = d, !.aborted = TRUE, !.st = "aborted"]
      IN  g \in FqReq /\ g.data = q.data /\ g.xchg = q.xchg /\ g.buf = q.buf /\ g.cbs = c /\ g.del = d /\ g.aborted = TRUE
          /\ g.st = "aborted"
  BY DEF FqReq, FqPhases
<1>7. CASE /\ e = [q EXCEPT !.cbs = c, !.del = d, !.aborted = TRUE]
           /\ y = x \/ y = [x EXCEPT !.msgs = tb]
           /\ q.st # "pending" /\ q.st # "free"
  <2>1. /\ y \in FqHw /\ y.on = x.on /\ y.syncs = x.syncs /\ y.conn = x.conn /\ y.left = x.left
        /\ y.pending = x.pending /\ EndsAfter(x.msgs, y.msgs, r, FALSE)
    <3>1. CASE y = x
      BY <1>2, <3>1
    <3>2. CASE y = [x EXCEPT !.msgs = tb]
      <4>1. /\ y \in FqHw /\ y.on = x.on /\ y.syncs = x.syncs /\ y.conn = x.conn /\ y.left = x.left
            /\ y.pending = x.pending /\ y.msgs = tb
        BY <1>2, <1>3, <3>2
      <4> QED BY <1>2, <4>1
    <3> QED BY <1>7, <3>1, <3>2
  <2>2. /\ e \in FqReq /\ e.data = q.data /\ e.xchg = q.xchg /\ e.buf = q.buf /\ e.cbs = c /\ e.del = d /\ e.aborted = TRUE
        /\ e.st = q.st
    BY <1>5, <1>7
  <2>3. EndResult(w, q, x, r, c, d, e, y, FALSE)
    BY <1>7, <2>1, <2>2 DEF EndResult
  <2> QED BY <2>3
<1>8. CASE /\ e = [q EXCEPT !.cbs = c, !.del = d, !.aborted = TRUE, !.st = "aborted"]
           /\ y = [x EXCEPT !.msgs = te] /\ q.st \in InXfer /\ w.dead
  <2>1. /\ y \in FqHw /\ y.on = x.on /\ y.syncs = x.syncs /\ y.conn = x.conn /\ y.left = x.left
        /\ y.pending = x.pending /\ EndsAfter(x.msgs, y.msgs, r, TRUE)
    BY <1>2, <1>3, <1>8
  <2>2. /\ e \in FqReq /\ e.data = q.data /\ e.xchg = q.xchg /\ e.buf = q.buf /\ e.cbs = c /\ e.del = d /\ e.aborted = TRUE
        /\ e.st = "aborted"
    BY <1>6, <1>8
  <2>3. q.st # "pending"
    BY <1>8 DEF InXfer
  <2>4. EndResult(w, q, x, r, c, d, e, y, TRUE)
    BY <1>8, <2>1, <2>2, <2>3 DEF EndResult
  <2> QED BY <2>4
<1>9. CASE /\ e = [q EXCEPT !.cbs = c, !.del = d, !.aborted = TRUE, !.st = "aborted"]
           /\ y = [x EXCEPT !.msgs = te, !.pending = s] /\ q.st = "pending"
  <2>1. /\ y \in FqHw /\ y.on = x.on /\ y.syncs = x.syncs /\ y.conn = x.conn /\ y.left = x.left
        /\ y.pending = s /\ EndsAfter(x.msgs, y.msgs, r, TRUE)
    BY <1>2, <1>4, <1>9
  <2>2. /\ e \in FqReq /\ e.data = q.data /\ e.xchg = q.xchg /\ e.buf = q.buf /\ e.cbs = c /\ e.del = d /\ e.aborted = TRUE
        /\ e.st = "aborted"
    BY <1>6, <1>9
  <2>3. EndResult(w, q, x, r, c, d, e, y, TRUE)
    BY <1>9, <2>1, <2>2 DEF EndResult, s
  <2> QED BY <2>3
<1> QED BY <1>7, <1>8, <1>9 DEF EndShape, tb, te, s

(* An abort keeps what concerns the commands. *)
LEMMA AbortCore ==
    ASSUME NEW w, Core(w), NEW r \in FcReqs, w.req[r].st # "free", NEW c \in Seq(AbtsIds), NEW d \in BOOLEAN,
           d => w.req[r].data # "aer"
    PROVE  Core(AbortTold(w, r, c, d)) /\ Aborted(w, AbortTold(w, r, c, d), r, c, d)
<1> DEFINE h == HwqpOf(r)
           q == w.req[r]
           x == w.hw[h]
           v == AbortTold(w, r, c, d)
<1>1. /\ w \in FqType /\ h \in FcHwqps /\ r \in FcSlots[h] /\ q \in FqReq /\ x \in FqHw /\ w.crash = "no"
      /\ w.left.xchgs \in Nat /\ \A p \in FcSlots[h] : p \in FcReqs
  <2>1. w \in FqType /\ w.crash = "no"
    BY DEF Core
  <2>2. w.left.xchgs \in Nat
    BY <2>1, FqFields DEF FqLeft
  <2> QED BY <2>1, <2>2, HomeOf, FqParts
<1>2. ReqAt(w, r) /\ PendingAt(w, h) /\ CapAt(w, h) /\ EndAt(w, h)
  BY <1>1 DEF Core
<1>3. PICK e, y : v = PutOne(w, r, e, h, y) /\ EndShape(w, q, x, r, c, d, e, y)
  BY <1>1, <1>2, AbortShape
<1>4. PICK ended \in BOOLEAN : EndResult(w, q, x, r, c, d, e, y, ended)
  <2>1. IsInjective(x.pending)
    BY <1>2 DEF PendingAt
  <2> HIDE DEF q, x
  <2> QED BY <1>1, <1>3, <2>1, EndShapeResult
<1> HIDE DEF v
<1>5. OneChanged(w, v, r, e, h, y)
  <2>1. e \in FqReq /\ y \in FqHw
    BY <1>4 DEF EndResult
  <2> QED BY <1>1, <1>3, <2>1, PutOneFacts
<1>6. /\ v \in FqType /\ Around(w, v) /\ v.req[r] = e /\ v.hw[h] = y
      /\ (\A p \in FcReqs \ {r} : v.req[p] = w.req[p]) /\ \A k \in FcHwqps \ {h} : v.hw[k] = w.hw[k]
  BY <1>5 DEF OneChanged
<1>7. /\ e.data = q.data /\ e.xchg = q.xchg /\ e.buf = q.buf /\ e.cbs = c /\ e.del = d /\ e.aborted = TRUE
      /\ e.st = (IF ended THEN "aborted" ELSE q.st)
      /\ (ended => (q.st \in InXfer /\ w.dead) \/ q.st = "pending") /\ (~ended => q.st # "pending" /\ q.st # "free")
  BY <1>4 DEF EndResult
<1>8. /\ y.on = x.on /\ y.syncs = x.syncs /\ y.conn = x.conn /\ y.left = x.left
      /\ EndsAfter(x.msgs, y.msgs, r, ended)
         /\ y.pending = (IF q.st = "pending" THEN RemoveFirst(x.pending, r) ELSE x.pending)
  BY <1>4 DEF EndResult
<1>9. v.air = w.air /\ v.dead = w.dead /\ v.left = w.left /\ v.crash = w.crash /\ v.wrong = w.wrong
      /\ v.abts = w.abts /\ v.markers = w.markers
  BY <1>6 DEF Around
<1>10. ReqAt(v, r)
  BY <1>2, <1>6, <1>7, <1>9 DEF ReqAt
<1>11. PendingAt(v, h)
  <2>1. CASE q.st = "pending"
    <3>1. v.hw[h].pending = RemoveFirst(x.pending, r) /\ v.req[r].st # "pending"
      BY <1>6, <1>7, <1>8, <2>1
    <3> QED BY <1>1, <1>2, <1>6, <3>1, PendingLeaves
  <2>2. CASE q.st # "pending"
    <3>1. v.hw[h].pending = x.pending /\ v.req[r].st # "pending" BY <1>6, <1>7, <1>8, <2>2
    <3>2. \A p \in FcSlots[h] : v.req[p].st = "pending" <=> w.req[p].st = "pending"
      BY <1>1, <1>6, <2>2, <3>1
    <3> QED BY <1>1, <1>2, <3>1, <3>2, PendingSame
  <2> QED BY <2>1, <2>2
<1>12. CapAt(v, h)
  <2>1. \A p \in FcSlots[h] : (v.req[p].xchg => w.req[p].xchg) /\ (v.req[p].buf => w.req[p].buf)
    BY <1>1, <1>6, <1>7
  <2> QED BY <1>1, <1>2, <1>9, <2>1, CapShrinks
<1>13. EndAt(v, h)
  <2> DEFINE s == x.msgs
             t == y.msgs
  <2>1. /\ (At(t, Quiet) <=> At(s, Quiet)) /\ (Once(s, Quiet) => Once(t, Quiet))
        /\ \A p \in FcReqs : /\ At(t, Ended(p)) <=> At(s, Ended(p)) \/ (ended /\ p = r)
                             /\ Once(s, Ended(p)) /\ ~(ended /\ p = r /\ At(s, Ended(p))) => Once(t, Ended(p))
    BY <1>8 DEF EndsAfter, Unnoticed
  <2>2. v.hw[h].msgs = t /\ v.hw[h].on = x.on /\ v.dead = w.dead
    BY <1>6, <1>8, <1>9
  <2>3. CASE ~ended
    <3>1. SameEnds(w, v, h) BY <2>1, <2>2, <2>3 DEF SameEnds
    <3>2. \A p \in FcSlots[h] : v.req[p].st = w.req[p].st /\ (w.req[p].aborted => v.req[p].aborted)
      BY <1>1, <1>6, <1>7, <2>3
    <3> QED BY <1>1, <1>2, <3>1, <3>2, EndsKept
  <2>4. CASE ended
    <3>1. (At(t, Quiet) => ~v.hw[h].on) /\ Once(t, Quiet) BY <1>2, <2>1, <2>2 DEF EndAt
    <3>2. ASSUME NEW p \in FcReqs
          PROVE  /\ p \in FcSlots[h] /\ v.req[p].st = "aborted" => At(t, Ended(p))
                 /\ At(t, Ended(p)) =>
                       /\ p \in FcSlots[h]
                       /\ \/ v.req[p].st = "aborted"
                          \/ /\ ~v.hw[h].on /\ ~At(t, Quiet)
                             /\ \/ v.req[p].st \in InXfer /\ v.req[p].aborted
                                \/ v.dead /\ v.req[p].st = "free"
                 /\ v.hw[h].on \/ At(t, Quiet) \/ ~v.dead => Once(t, Ended(p))
      <4>1. CASE p = r
        <5>1. At(s, Ended(r)) => ~x.on /\ ~At(s, Quiet) /\ w.dead
          BY <1>2, <1>7, <2>4 DEF EndAt, InXfer
        <5>2. Once(s, Ended(r)) \/ (~x.on /\ ~At(s, Quiet) /\ w.dead) BY <1>2 DEF EndAt
        <5>3. v.req[r].st = "aborted" /\ At(t, Ended(r)) BY <1>6, <1>7, <2>1, <2>4
        <5> QED BY <1>1, <2>1, <2>2, <2>4, <4>1, <5>1, <5>2, <5>3
      <4>2. CASE p # r
        <5>1. v.req[p] = w.req[p] BY <1>6, <4>2
        <5>2. (At(t, Ended(p)) <=> At(s, Ended(p))) /\ (Once(s, Ended(p)) => Once(t, Ended(p)))
          BY <2>1, <4>2
        <5> QED BY <1>2, <2>1, <2>2, <5>1, <5>2 DEF EndAt
      <4> QED BY <4>1, <4>2
    <3> QED BY <2>2, <3>1, <3>2 DEF EndAt
  <2> QED BY <2>3, <2>4
<1>14. HwqpStep(w, v, h)
  BY <1>1, <1>6, <1>9 DEF HwqpStep, Background
<1>15. Core(v)
  <2>1. \A p \in FcSlots[h] : ReqAt(v, p)
    <3>1. ASSUME NEW p \in FcSlots[h], p # r PROVE ReqAt(v, p)
      <4>1. p \in FcReqs /\ ReqAt(w, p) /\ v.req[p] = w.req[p]
        BY <1>1, <1>6, <3>1 DEF Core
      <4> QED BY <1>9, <4>1 DEF ReqAt
    <3> QED BY <1>10, <3>1
  <2>2. (\A p \in FcReqs \ FcSlots[h] : ReqAt(w, p)) /\ \A k \in FcHwqps \ {h} : PendingAt(w, k) /\ CapAt(w, k)
        /\ EndAt(w, k)
    BY DEF Core
  <2> HIDE DEF h
  <2> QED BY <1>1, <1>11, <1>12, <1>13, <1>14, <2>1, <2>2, HwqpStepCore
<1>16. Aborted(w, v, r, c, d)
  <2>1. v.req[r].st \in {q.st, "aborted"}
    BY <1>6, <1>7
  <2>2. Unnoticed(x.msgs, y.msgs)
    BY <1>8 DEF EndsAfter
  <2> QED BY <1>6, <1>7, <1>8, <2>1, <2>2 DEF Aborted
<1> QED BY <1>15, <1>16 DEF v

(* Ends of several aborts, behind a queue. *)
EndsJoined(s, t, S) ==
    /\ t \in Seq(FqMsg) /\ Unnoticed(s, t)
    /\ \A p \in FcReqs : /\ At(t, Ended(p)) <=> At(s, Ended(p)) \/ p \in S
                         /\ Once(s, Ended(p)) /\ ~(p \in S /\ At(s, Ended(p))) => Once(t, Ended(p))

(* The ends of a set of aborts join a queue. *)
LEMMA JoinedEnds ==
    ASSUME NEW s \in Seq(FqMsg), NEW S, S \subseteq FcReqs, IsFiniteSet(S)
    PROVE  EndsJoined(s, s \o Messages("aborted", SetToSeq(S)), S)
<1> DEFINE M == Messages("aborted", SetToSeq(S))
           t == s \o M
<1>1. M \in Seq([k : {"aborted"}, r : S]) /\ (\A m : At(M, m) <=> OneOf("aborted", S, m)) /\ \A m : Once(M, m)
  BY MessagesOf
<1> HIDE DEF M
<1>2. M \in Seq(FqMsg)
  <2>1. [k : {"aborted"}, r : S] \subseteq FqMsg
    BY DEF FqMsg
  <2> DEFINE E == [k : {"aborted"}, r : S]
  <2>2. M \in Seq(E) /\ E \subseteq FqMsg
    BY <1>1, <2>1
  <2> HIDE DEF E
  <2> QED BY <2>2
<1>3. \A m : At(M, m) <=> \E r \in S : m = Ended(r)
  BY <1>1 DEF Ended, OneOf
<1>4. /\ t \in Seq(FqMsg) /\ (\A m : At(t, m) <=> At(s, m) \/ At(M, m))
      /\ (\A m : Once(s, m) /\ Once(M, m) /\ ~(At(s, m) /\ At(M, m)) => Once(t, m))
      /\ \A i : Ordered(s, i) /\ ~At(M, Note("sync_done", i)) => Ordered(t, i)
  BY <1>2, JoinedQueues
<1> HIDE DEF t
<1>5. /\ \A k, i : ~At(M, Note(k, i))
      /\ ~At(M, Quiet) /\ ~At(M, Del)
      /\ \A p : At(M, Ended(p)) <=> p \in S
  BY <1>3, KindsDiffer
<1>6. NotesKept(s, t)
  BY <1>1, <1>4, <1>5 DEF NotesKept
<1>7. Unnoticed(s, t)
  BY <1>1, <1>4, <1>5, <1>6 DEF Unnoticed
<1>8. EndsJoined(s, t, S)
  BY <1>1, <1>4, <1>5, <1>7 DEF EndsJoined
<1> QED BY <1>8 DEF t, M

(* The event requests of a hwqp are freed: those that are not aborted yet
   are, and end. *)
AersFreed(w, v, h) ==
    /\ v \in FqType /\ Around(w, v)
    /\ \A p \in FcReqs \ FcSlots[h] : v.req[p] = w.req[p]
    /\ \A k \in FcHwqps \ {h} : v.hw[k] = w.hw[k]
    /\ v.hw[h].on = w.hw[h].on /\ v.hw[h].syncs = w.hw[h].syncs /\ v.hw[h].pending = w.hw[h].pending
    /\ v.hw[h].conn = w.hw[h].conn /\ v.hw[h].left = w.hw[h].left
    /\ Unnoticed(w.hw[h].msgs, v.hw[h].msgs)
    /\ \A p \in FcSlots[h] :
          /\ v.req[p].data = w.req[p].data /\ v.req[p].xchg = w.req[p].xchg /\ v.req[p].buf = w.req[p].buf
          /\ v.req[p].cbs = w.req[p].cbs /\ v.req[p].del = w.req[p].del
          /\ \/ v.req[p].st = w.req[p].st /\ v.req[p].aborted = w.req[p].aborted
             \/ /\ w.req[p].data = "aer" /\ w.req[p].st = "none_bdev" /\ w.req[p].aborted = FALSE
                /\ v.req[p].st = "aborted" /\ v.req[p].aborted = TRUE

(* The event requests that are freed keep the commands sound. *)
LEMMA FreeAersCore ==
    ASSUME NEW w, Core(w), NEW h \in FcHwqps
    PROVE  Core(FreeAers(w, h)) /\ AersFreed(w, FreeAers(w, h), h)
<1> DEFINE S == FcAers(w, h, FALSE)
           x == w.hw[h]
           s == x.msgs
           t == s \o Messages("aborted", SetToSeq(S))
           y == [x EXCEPT !.msgs = t]
           R == [p \in FcReqs |-> IF p \in S THEN [w.req[p] EXCEPT !.st = "aborted", !.aborted = TRUE] ELSE w.req[p]]
           H == [w.hw EXCEPT ![h] = y]
           v == FreeAers(w, h)
<1>1. /\ w \in FqType /\ x \in FqHw /\ w.crash = "no" /\ s \in Seq(FqMsg)
      /\ w.left.xchgs \in Nat /\ \A p \in FcSlots[h] : p \in FcReqs
      /\ w.req \in [FcReqs -> FqReq] /\ w.hw \in [FcHwqps -> FqHw]
  <2>1. w \in FqType /\ w.crash = "no"
    BY DEF Core
  <2>2. w.left.xchgs \in Nat
    BY <2>1, FqFields DEF FqLeft
  <2> QED BY <2>1, <2>2, HomeOf, FqFields, FqParts
<1>2. PendingAt(w, h) /\ CapAt(w, h) /\ EndAt(w, h)
  BY DEF Core
<1>3. /\ \A p \in S : /\ p \in FcSlots[h] /\ w.req[p].data = "aer" /\ w.req[p].st = "none_bdev"
                      /\ w.req[p].aborted = FALSE
      /\ S \subseteq FcReqs /\ IsFiniteSet(S)
  BY <1>1, HomeOf, FS_Subset DEF FcAers
<1> HIDE DEF S
<1>4. EndsJoined(s, t, S)
  BY <1>1, <1>3, JoinedEnds
<1>5. t \in Seq(FqMsg)
  BY <1>4 DEF EndsJoined
<1> HIDE DEF t
<1>6. y \in FqHw /\ y.msgs = t /\ y.on = x.on /\ y.syncs = x.syncs /\ y.pending = x.pending /\ y.conn = x.conn
      /\ y.left = x.left
  BY <1>1, <1>5 DEF FqHw
<1>7. \A p \in FcReqs : /\ p \in S => R[p].st = "aborted" /\ R[p].aborted = TRUE
                        /\ p \notin S => R[p] = w.req[p]
                        /\ R[p] \in FqReq /\ R[p].data = w.req[p].data /\ R[p].xchg = w.req[p].xchg
                        /\ R[p].buf = w.req[p].buf /\ R[p].cbs = w.req[p].cbs /\ R[p].del = w.req[p].del
  <2> SUFFICES ASSUME NEW p \in FcReqs
               PROVE  /\ p \in S => R[p].st = "aborted" /\ R[p].aborted = TRUE
                      /\ p \notin S => R[p] = w.req[p]
                      /\ R[p] \in FqReq /\ R[p].data = w.req[p].data /\ R[p].xchg = w.req[p].xchg
                      /\ R[p].buf = w.req[p].buf /\ R[p].cbs = w.req[p].cbs /\ R[p].del = w.req[p].del
    OBVIOUS
  <2>1. w.req[p] \in FqReq
    BY <1>1
  <2> QED BY <2>1 DEF FqReq, FqPhases
<1>8. R \in [FcReqs -> FqReq]
  BY <1>7
<1>9. H \in [FcHwqps -> FqHw] /\ H[h] = y /\ \A k \in FcHwqps \ {h} : H[k] = w.hw[k]
  BY <1>1, <1>6
<1>10. v = Put(w, R, H)
  <2>1. Put(w, R, H) = [w EXCEPT !.req = R, !.hw = H]
    BY DEF Put
  <2>2. v = [w EXCEPT !.req = R, !.hw[h].msgs = t]
    BY DEF FreeAers, S, t
  <2>3. [w EXCEPT !.req = R, !.hw[h].msgs = t] = [w EXCEPT !.req = R, !.hw = H]
    <3> HIDE DEF R
    <3> QED BY <1>1 DEF FqType
  <2> QED BY <2>1, <2>2, <2>3
<1> HIDE DEF R, H, y, v
<1>11. /\ v \in FqType /\ v.req = R /\ v.hw = H /\ Around(w, v)
  BY <1>1, <1>8, <1>9, <1>10, PutFacts
<1>12. v.air = w.air /\ v.dead = w.dead /\ v.left = w.left /\ v.crash = w.crash /\ v.wrong = w.wrong
       /\ v.abts = w.abts /\ v.markers = w.markers
  BY <1>11 DEF Around
<1>13. \A p \in FcReqs \ FcSlots[h] : v.req[p] = w.req[p]
  BY <1>3, <1>7, <1>11
<1>14. HwqpStep(w, v, h)
  BY <1>1, <1>9, <1>11, <1>12, <1>13 DEF HwqpStep, Background
<1>15. ASSUME NEW p \in FcSlots[h] PROVE ReqAt(v, p)
  <2>1. p \in FcReqs /\ ReqAt(w, p) /\ w.req[p] \in FqReq
    BY <1>1 DEF Core
  <2>2. CASE p \notin S
    <3>1. v.req[p] = w.req[p] BY <1>7, <1>11, <2>1, <2>2
    <3> QED BY <1>12, <2>1, <3>1 DEF ReqAt
  <2>3. CASE p \in S
    <3>1. v.req[p].st = "aborted" /\ v.req[p].aborted = TRUE /\ v.req[p].data = w.req[p].data /\ v.req[p].del = w.req[p].del
      BY <1>7, <1>11, <2>1, <2>3
    <3> QED BY <1>3, <1>12, <2>1, <2>3, <3>1 DEF ReqAt
  <2> QED BY <2>2, <2>3
<1>16. PendingAt(v, h)
  <2>1. v.hw[h].pending = x.pending
    BY <1>6, <1>9, <1>11
  <2>2. \A p \in FcSlots[h] : v.req[p].st = "pending" <=> w.req[p].st = "pending"
    BY <1>1, <1>3, <1>7, <1>11
  <2> QED BY <1>2, <2>1, <2>2, PendingSame
<1>17. CapAt(v, h)
  <2>1. \A p \in FcSlots[h] : (v.req[p].xchg => w.req[p].xchg) /\ (v.req[p].buf => w.req[p].buf)
    BY <1>1, <1>7, <1>11
  <2> QED BY <1>1, <1>2, <1>12, <2>1, CapShrinks
<1>18. EndAt(v, h)
  <2>1. /\ (At(t, Quiet) <=> At(s, Quiet)) /\ (Once(s, Quiet) => Once(t, Quiet))
        /\ \A p \in FcReqs : /\ At(t, Ended(p)) <=> At(s, Ended(p)) \/ p \in S
                             /\ Once(s, Ended(p)) /\ ~(p \in S /\ At(s, Ended(p))) => Once(t, Ended(p))
    BY <1>4 DEF EndsJoined, Unnoticed
  <2>2. v.hw[h].msgs = t /\ v.hw[h].on = x.on /\ v.dead = w.dead
    BY <1>6, <1>9, <1>11, <1>12
  <2>3. (At(t, Quiet) => ~v.hw[h].on) /\ Once(t, Quiet)
    BY <1>2, <2>1, <2>2 DEF EndAt
  <2>4. ASSUME NEW p \in FcReqs
        PROVE  /\ p \in FcSlots[h] /\ v.req[p].st = "aborted" => At(t, Ended(p))
               /\ At(t, Ended(p)) =>
                     /\ p \in FcSlots[h]
                     /\ \/ v.req[p].st = "aborted"
                        \/ /\ ~v.hw[h].on /\ ~At(t, Quiet)
                           /\ \/ v.req[p].st \in InXfer /\ v.req[p].aborted
                              \/ v.dead /\ v.req[p].st = "free"
               /\ v.hw[h].on \/ At(t, Quiet) \/ ~v.dead => Once(t, Ended(p))
    <3>1. CASE p \in S
      <4>1. ~At(s, Ended(p)) /\ p \in FcSlots[h] BY <1>2, <1>3, <3>1 DEF EndAt, InXfer
      <4>2. Once(s, Ended(p)) BY <4>1 DEF At, Once
      <4>3. v.req[p].st = "aborted" /\ At(t, Ended(p)) BY <1>7, <1>11, <2>1, <3>1
      <4> QED BY <2>1, <4>1, <4>2, <4>3
    <3>2. CASE p \notin S
      <4>1. v.req[p] = w.req[p] BY <1>7, <1>11, <3>2
      <4>2. (At(t, Ended(p)) <=> At(s, Ended(p))) /\ (Once(s, Ended(p)) => Once(t, Ended(p)))
        BY <2>1, <3>2
      <4> QED BY <1>2, <2>1, <2>2, <4>1, <4>2 DEF EndAt
    <3> QED BY <3>1, <3>2
  <2> QED BY <2>2, <2>3, <2>4 DEF EndAt
<1>19. Core(v)
  <2>1. (\A p \in FcReqs \ FcSlots[h] : ReqAt(w, p)) /\ \A k \in FcHwqps \ {h} : PendingAt(w, k) /\ CapAt(w, k)
        /\ EndAt(w, k)
    BY DEF Core
  <2> QED BY <1>1, <1>14, <1>15, <1>16, <1>17, <1>18, <2>1, HwqpStepCore
<1>20. AersFreed(w, v, h)
  <2>1. Unnoticed(s, t)
    BY <1>4 DEF EndsJoined
  <2>2. v.hw[h] = y
    BY <1>9, <1>11
  <2>3. ASSUME NEW p \in FcSlots[h]
        PROVE  /\ v.req[p].data = w.req[p].data /\ v.req[p].xchg = w.req[p].xchg /\ v.req[p].buf = w.req[p].buf
               /\ v.req[p].cbs = w.req[p].cbs /\ v.req[p].del = w.req[p].del
               /\ \/ v.req[p].st = w.req[p].st /\ v.req[p].aborted = w.req[p].aborted
                  \/ /\ w.req[p].data = "aer" /\ w.req[p].st = "none_bdev" /\ w.req[p].aborted = FALSE
                     /\ v.req[p].st = "aborted" /\ v.req[p].aborted = TRUE
    BY <1>1, <1>3, <1>7, <1>11
  <2> QED BY <1>6, <1>9, <1>11, <1>13, <2>1, <2>2, <2>3 DEF AersFreed
<1> QED BY <1>19, <1>20 DEF v

(* That is not an ABTS's concern, nor the deletion's. *)
LEMMA FreeAersCalm ==
    ASSUME NEW w, NEW h \in FcHwqps, Calm(w, h)
    PROVE  /\ Calm(FreeAers(w, h), h) /\ AersFreed(w, FreeAers(w, h), h)
           /\ ConnAt(w, h) => ConnAt(FreeAers(w, h), h)
<1> DEFINE v == FreeAers(w, h)
<1>1. Core(w) /\ w \in FqType
  BY DEF Calm, Core
<1>2. Core(v) /\ AersFreed(w, v, h)
  BY <1>1, FreeAersCore
<1> HIDE DEF v
<1>3. HwqpStep(w, v, h)
  BY <1>1, <1>2 DEF HwqpStep, Background, AersFreed, Around, Core
<1>4. SameAbts(w, v)
  <2>1. v.abts = w.abts /\ v.main = w.main /\ v.markers = w.markers /\ v.air = w.air
    BY <1>2 DEF AersFreed, Around
  <2>2. ASSUME NEW k \in FcHwqps
        PROVE  /\ v.hw[k].syncs = w.hw[k].syncs /\ NotesKept(w.hw[k].msgs, v.hw[k].msgs)
               /\ w.hw[k].conn = "deleted" => v.hw[k].conn = "deleted"
    <3>1. CASE k = h
      BY <1>2, <3>1 DEF AersFreed, Unnoticed
    <3>2. CASE k # h
      <4>1. v.hw[k] = w.hw[k] BY <1>2, <3>2 DEF AersFreed
      <4> QED BY <4>1, NotesStay
    <3> QED BY <3>1, <3>2
  <2>3. ASSUME NEW p \in FcReqs PROVE v.req[p].cbs = w.req[p].cbs /\ (Gone(w, p) => Gone(v, p))
    <3>1. CASE p \in FcSlots[h]
      BY <1>2, <2>1, <3>1 DEF AersFreed, Gone
    <3>2. CASE p \notin FcSlots[h]
      BY <1>2, <2>1, <3>2 DEF AersFreed, Gone
    <3> QED BY <3>1, <3>2
  <2> QED BY <2>1, <2>2, <2>3 DEF SameAbts
<1>5. \A i \in AbtsIds : AbtsAt(v, i)
  BY <1>1, <1>4, AbtsKept DEF Calm
<1>6. Calm(v, h)
  BY <1>2, <1>3, <1>5, HwqpStepCalm
<1>7. ConnAt(w, h) => ConnAt(v, h)
  <2>1. SameDeletion(w, v, h)
    BY <1>2 DEF SameDeletion, AersFreed, Unnoticed
  <2> QED BY <1>1, <2>1, DeletionKept
<1> QED BY <1>2, <1>6, <1>7 DEF v

(* The connection's state and the number of its aborts concern nobody
   else. *)
SetHwqp(w, h, y) == [w EXCEPT !.hw = [w.hw EXCEPT ![h] = y]]
HwqpSet(w, u, h, y) ==
    /\ u \in FqType /\ u.req = w.req /\ u.hw[h] = y /\ (\A k \in FcHwqps \ {h} : u.hw[k] = w.hw[k]) /\ Around(w, u)
SameButConn(x, y) ==
    /\ y.on = x.on /\ y.msgs = x.msgs /\ y.syncs = x.syncs /\ y.pending = x.pending
    /\ x.conn = "deleted" => y.conn = "deleted"

(* The fields of such a state. *)
LEMMA SetHwqpFacts ==
    ASSUME NEW w \in FqType, NEW h \in FcHwqps, NEW y \in FqHw
    PROVE  HwqpSet(w, SetHwqp(w, h, y), h, y)
<1> DEFINE H == [w.hw EXCEPT ![h] = y]
<1>1. H \in [FcHwqps -> FqHw] /\ H[h] = y /\ \A k \in FcHwqps \ {h} : H[k] = w.hw[k]
  BY FqFields
<1> HIDE DEF H
<1>2. SetHwqp(w, h, y) = Put(w, w.req, H)
  BY DEF Put, FqType, SetHwqp, H
<1>3. w.req \in [FcReqs -> FqReq]
  BY FqFields
<1> QED BY <1>1, <1>2, <1>3, PutFacts DEF HwqpSet

(* A connection moves on and the rest stays calm. *)
LEMMA SetConnCalm ==
    ASSUME NEW w, NEW h \in FcHwqps, Calm(w, h), NEW y \in FqHw, SameButConn(w.hw[h], y)
    PROVE  Calm(SetHwqp(w, h, y), h)
<1> DEFINE x == w.hw[h]
           u == SetHwqp(w, h, y)
<1>1. Core(w) /\ w \in FqType /\ w.crash = "no" /\ (\A p \in FcSlots[h] : p \in FcReqs) /\ w.left.xchgs \in Nat
  <2>1. Core(w) /\ w \in FqType /\ w.crash = "no"
    BY DEF Calm, Core
  <2>2. w.left.xchgs \in Nat
    BY <2>1, FqFields DEF FqLeft
  <2> QED BY <2>1, <2>2, HomeOf
<1>2. y.on = x.on /\ y.msgs = x.msgs /\ y.syncs = x.syncs /\ y.pending = x.pending /\ (x.conn = "deleted"
      => y.conn = "deleted")
  BY DEF SameButConn
<1>3. HwqpSet(w, u, h, y)
  BY <1>1, SetHwqpFacts
<1> HIDE DEF u
<1>4. u \in FqType /\ u.req = w.req /\ u.hw[h] = y /\ (\A k \in FcHwqps \ {h} : u.hw[k] = w.hw[k]) /\ Around(w, u)
  BY <1>3 DEF HwqpSet
<1>5. /\ u.air = w.air /\ u.dead = w.dead /\ u.left = w.left /\ u.crash = w.crash /\ u.wrong = w.wrong
      /\ u.abts = w.abts /\ u.markers = w.markers /\ u.main = w.main
  BY <1>4 DEF Around
<1>6. HwqpStep(w, u, h)
  BY <1>1, <1>4, <1>5 DEF HwqpStep, Background
<1>7. Core(u)
  <2>1. PendingAt(w, h) /\ CapAt(w, h) /\ EndAt(w, h)
    BY <1>1 DEF Core
  <2>2. PendingAt(u, h)
    BY <1>2, <1>4, <2>1, PendingSame
  <2>3. CapAt(u, h)
    <3>1. \A p \in FcSlots[h] : (u.req[p].xchg => w.req[p].xchg) /\ (u.req[p].buf => w.req[p].buf)
      BY <1>4
    <3> QED BY <1>1, <1>5, <2>1, <3>1, CapShrinks
  <2>4. EndAt(u, h)
    <3>1. SameEnds(w, u, h) BY <1>2, <1>4, <1>5 DEF SameEnds
    <3>2. \A p \in FcSlots[h] : u.req[p].st = w.req[p].st /\ (w.req[p].aborted => u.req[p].aborted)
      BY <1>4
    <3> QED BY <1>1, <2>1, <3>1, <3>2, EndsKept
  <2>5. ASSUME NEW p \in FcReqs PROVE ReqAt(u, p) /\ ReqAt(w, p)
    <3>1. ReqAt(w, p) BY <1>1 DEF Core
    <3> QED BY <1>4, <1>5, <3>1 DEF ReqAt
  <2>6. \A k \in FcHwqps \ {h} : PendingAt(w, k) /\ CapAt(w, k) /\ EndAt(w, k)
    BY <1>1 DEF Core
  <2>7. \A p \in FcSlots[h] : ReqAt(u, p)
    BY <1>1, <2>5
  <2> QED BY <1>1, <1>6, <2>2, <2>3, <2>4, <2>5, <2>6, <2>7, HwqpStepCore
<1>8. SameAbts(w, u)
  <2>1. ASSUME NEW k \in FcHwqps
        PROVE  /\ u.hw[k].syncs = w.hw[k].syncs /\ NotesKept(w.hw[k].msgs, u.hw[k].msgs)
               /\ w.hw[k].conn = "deleted" => u.hw[k].conn = "deleted"
    <3>1. CASE k = h
      BY <1>2, <1>4, <3>1, NotesStay
    <3>2. CASE k # h
      <4>1. u.hw[k] = w.hw[k] BY <1>4, <3>2
      <4> QED BY <4>1, NotesStay
    <3> QED BY <3>1, <3>2
  <2> QED BY <1>4, <1>5, <2>1 DEF SameAbts, Gone
<1>9. \A i \in AbtsIds : AbtsAt(u, i)
  BY <1>1, <1>8, AbtsKept DEF Calm
<1>10. Calm(u, h)
  BY <1>6, <1>7, <1>9, HwqpStepCalm
<1> QED BY <1>10 DEF u

(* A connection without commands but event requests is left. *)
LEMMA LeaveSound ==
    ASSUME NEW w, NEW h \in FcHwqps, Calm(w, h), DelSet(w, h) = {}, w.hw[h].left = 0, ~At(w.hw[h].msgs, Del),
           \A p \in FcSlots[h] : w.req[p].st = "free" \/ w.req[p].data = "aer"
    PROVE  Sound(LeaveHwqp(w, h))
<1> DEFINE x == w.hw[h]
           y == [x EXCEPT !.conn = "deleted"]
           u == SetHwqp(w, h, y)
<1>1. w \in FqType /\ x \in FqHw
  BY FqParts DEF Calm, Core
<1>2. y \in FqHw /\ y.conn = "deleted" /\ y.on = x.on /\ y.msgs = x.msgs /\ y.syncs = x.syncs /\ y.pending = x.pending
      /\ y.left = x.left
  BY <1>1 DEF FqHw
<1>3. u = [w EXCEPT !.hw[h].conn = "deleted"]
  BY DEF SetHwqp
<1> HIDE DEF u, y
<1>4. HwqpSet(w, u, h, y)
  BY <1>1, <1>2, SetHwqpFacts DEF u
<1>5. Calm(u, h)
  BY <1>2, SetConnCalm DEF u, SameButConn
<1>6. ConnAt(u, h)
  <2>1. u.req = w.req /\ u.hw[h] = y
    BY <1>4 DEF HwqpSet
  <2>2. DelSet(u, h) = {}
    BY <2>1 DEF DelSet
  <2>3. Cardinality(DelSet(u, h)) = 0
    BY <2>2, FS_EmptySet
  <2> QED BY <1>2, <2>1, <2>2, <2>3 DEF ConnAt
<1>7. LeaveHwqp(w, h) = FreeAers(u, h)
  BY <1>3 DEF LeaveHwqp
<1> QED BY <1>5, <1>6, <1>7, FreeAersCalm, SoundIsCalm

---------------------------------------------------------------------------
(* The end of an abort *)

(* Everybody who waits is told. *)
FoundList(h, ids) == [j \in DOMAIN ids |-> Found(ids[j], h)]

(* Reports of different ABTS, hwqps and kinds differ. *)
LEMMA ReportsDiffer ==
    /\ \A i, j, h, k : Found(i, h) = Found(j, k) => i = j /\ h = k
    /\ \A i, j, h, k : Found(i, h) # NotFound(j, k)
    /\ \A i, j, h, k : Found(i, h) # QueueSynced(j, k)
    /\ \A i, j, h, k : NotFound(i, h) = NotFound(j, k) => i = j /\ h = k
    /\ \A i, j, h, k : NotFound(i, h) # QueueSynced(j, k)
    /\ \A i, j, h, k : QueueSynced(i, h) = QueueSynced(j, k) => i = j /\ h = k
<1>1. \A i, h : Found(i, h).i = i /\ Found(i, h).h = h /\ Found(i, h).found = TRUE /\ Found(i, h).k = "abts"
  BY DEF Found
<1>2. \A i, h : NotFound(i, h).i = i /\ NotFound(i, h).h = h /\ NotFound(i, h).found = FALSE /\ NotFound(i, h).k = "abts"
  BY DEF NotFound
<1>3. \A i, h : QueueSynced(i, h).i = i /\ QueueSynced(i, h).h = h /\ QueueSynced(i, h).k = "synced"
  BY DEF QueueSynced
<1>4. \A i, j, h, k : Found(i, h) # NotFound(j, k)
  BY <1>1, <1>2
<1>5. \A i, j, h, k : Found(i, h) # QueueSynced(j, k) /\ NotFound(i, h) # QueueSynced(j, k)
  BY <1>1, <1>2, <1>3
<1>6. \A i, j, h, k : Found(i, h) = Found(j, k) => i = j /\ h = k
  BY <1>1
<1>7. \A i, j, h, k : NotFound(i, h) = NotFound(j, k) => i = j /\ h = k
  BY <1>2
<1>8. \A i, j, h, k : QueueSynced(i, h) = QueueSynced(j, k) => i = j /\ h = k
  BY <1>3
<1> QED BY <1>4, <1>5, <1>6, <1>7, <1>8
ReportsAre(s, t, h, ids) ==
    /\ t \in Seq(FqMain)
    /\ \A i, k : /\ At(t, Found(i, k)) <=> At(s, Found(i, k)) \/ (k = h /\ At(ids, i))
                 /\ At(t, NotFound(i, k)) <=> At(s, NotFound(i, k))
                 /\ At(t, QueueSynced(i, k)) <=> At(s, QueueSynced(i, k))
                 /\ Once(s, Found(i, k)) /\ (k = h => Once(ids, i) /\ ~(At(ids, i) /\ At(s, Found(i, k))))
                    => Once(t, Found(i, k))
                 /\ Once(s, NotFound(i, k)) => Once(t, NotFound(i, k))
                 /\ Once(s, QueueSynced(i, k)) => Once(t, QueueSynced(i, k))

(* The reports of a command's callbacks join the main queue. *)
LEMMA JoinedReports ==
    ASSUME NEW s \in Seq(FqMain), NEW h \in FcHwqps, NEW ids \in Seq(AbtsIds)
    PROVE  ReportsAre(s, s \o FoundList(h, ids), h, ids)
<1> DEFINE L == FoundList(h, ids)
           t == s \o L
           n == Len(ids)
<1>1. n \in Nat /\ DOMAIN ids = 1 .. n /\ \A j \in 1 .. n : ids[j] \in AbtsIds
  OBVIOUS
<1>2. L \in Seq(FqMain) /\ DOMAIN L = 1 .. n /\ \A j \in 1 .. n : L[j] = Found(ids[j], h)
  <2>1. L = [j \in 1 .. n |-> Found(ids[j], h)]
    BY <1>1 DEF FoundList
  <2>2. \A j \in 1 .. n : Found(ids[j], h) \in FqMain
    BY <1>1 DEF Found, FqMain
  <2> HIDE DEF L, n
  <2>3. L \in [1 .. n -> FqMain]
    BY <2>1, <2>2
  <2> QED BY <1>1, <2>1, <2>3
<1> HIDE DEF L, n
<1>3. \A i, k : At(L, Found(i, k)) <=> k = h /\ At(ids, i)
  BY <1>1, <1>2, ReportsDiffer DEF At
<1>4. \A i, k : ~At(L, NotFound(i, k)) /\ ~At(L, QueueSynced(i, k))
  BY <1>2, ReportsDiffer DEF At
<1>5. \A i, k : Once(L, NotFound(i, k)) /\ Once(L, QueueSynced(i, k))
  BY <1>2, ReportsDiffer DEF Once
<1>6. \A i, k : (k = h => Once(ids, i)) => Once(L, Found(i, k))
  BY <1>1, <1>2, ReportsDiffer DEF Once
<1>7. /\ t \in Seq(FqMain) /\ (\A m : At(t, m) <=> At(s, m) \/ At(L, m))
      /\ (\A m : Once(s, m) /\ Once(L, m) /\ ~(At(s, m) /\ At(L, m)) => Once(t, m))
  BY <1>2, JoinedQueues
<1> HIDE DEF t
<1>8. \A i, k : /\ At(t, Found(i, k)) <=> At(s, Found(i, k)) \/ (k = h /\ At(ids, i))
                /\ At(t, NotFound(i, k)) <=> At(s, NotFound(i, k))
                /\ At(t, QueueSynced(i, k)) <=> At(s, QueueSynced(i, k))
  BY <1>3, <1>4, <1>7
<1>9. \A i, k : Once(s, Found(i, k)) /\ (k = h => Once(ids, i) /\ ~(At(ids, i) /\ At(s, Found(i, k))))
      => Once(t, Found(i, k))
  BY <1>3, <1>6, <1>7
<1>10. \A i, k : /\ Once(s, NotFound(i, k)) => Once(t, NotFound(i, k))
                 /\ Once(s, QueueSynced(i, k)) => Once(t, QueueSynced(i, k))
  BY <1>4, <1>5, <1>7
<1> QED BY <1>7, <1>8, <1>9, <1>10 DEF ReportsAre, t, L

(* A command ends, while its hwqp's messages become T: it is free, and the
   ABTS frames that waited for it are answered. *)
Told(w, r, T) ==
    [w EXCEPT !.req = [w.req EXCEPT ![r] = FreeFcReq],
    !.hw = [w.hw EXCEPT ![HwqpOf(r)] = [w.hw[HwqpOf(r)] EXCEPT !.msgs = T]],
              !.main = w.main \o FoundList(HwqpOf(r), w.req[r].cbs)]
HasTold(w, v, r, T) ==
    LET h == HwqpOf(r)
    IN  /\ v \in FqType /\ v.req[r] = FreeFcReq /\ \A p \in FcReqs \ {r} : v.req[p] = w.req[p]
        /\ \A k \in FcHwqps \ {h} : v.hw[k] = w.hw[k]
        /\ v.hw[h].msgs = T /\ v.hw[h].on = w.hw[h].on /\ v.hw[h].syncs = w.hw[h].syncs
        /\ v.hw[h].pending = w.hw[h].pending /\ v.hw[h].conn = w.hw[h].conn /\ v.hw[h].left = w.hw[h].left
        /\ v.abts = w.abts /\ v.air = w.air /\ v.markers = w.markers /\ v.dead = w.dead
        /\ v.left = w.left /\ v.crash = w.crash /\ v.wrong = w.wrong
        /\ ReportsAre(w.main, v.main, h, w.req[r].cbs)

(* The fields of such a state. *)
LEMMA ToldFacts ==
    ASSUME NEW w \in FqType, NEW r \in FcReqs, NEW T \in Seq(FqMsg)
    PROVE  HasTold(w, Told(w, r, T), r, T)
<1> DEFINE h == HwqpOf(r)
           x == w.hw[h]
           y == [x EXCEPT !.msgs = T]
           R == [w.req EXCEPT ![r] = FreeFcReq]
           H == [w.hw EXCEPT ![h] = y]
           M == w.main \o FoundList(h, w.req[r].cbs)
           v == [w EXCEPT !.req = R, !.hw = H, !.main = M]
<1>1. h \in FcHwqps /\ x \in FqHw /\ w.req[r].cbs \in Seq(AbtsIds) /\ w.main \in Seq(FqMain)
      /\ w.hw \in [FcHwqps -> FqHw] /\ w.req \in [FcReqs -> FqReq]
  BY HomeOf, FqFields, FqParts
<1>2. y \in FqHw /\ y.msgs = T /\ y.on = x.on /\ y.syncs = x.syncs /\ y.pending = x.pending /\ y.conn = x.conn
      /\ y.left = x.left
  BY <1>1 DEF FqHw
<1> HIDE DEF y
<1>3. H \in [FcHwqps -> FqHw] /\ H[h] = y /\ \A k \in FcHwqps \ {h} : H[k] = w.hw[k]
  BY <1>1, <1>2
<1>4. R \in [FcReqs -> FqReq] /\ R[r] = FreeFcReq /\ \A p \in FcReqs \ {r} : R[p] = w.req[p]
  BY <1>1, FreeIs
<1>5. ReportsAre(w.main, M, h, w.req[r].cbs)
  BY <1>1, JoinedReports
<1> HIDE DEF M, R, H
<1>6. M \in Seq(FqMain)
  BY <1>5 DEF ReportsAre
<1>7. v \in FqType
  BY <1>3, <1>4, <1>6 DEF FqType
<1>8. /\ v.req = R /\ v.hw = H /\ v.main = M /\ v.abts = w.abts /\ v.air = w.air /\ v.markers = w.markers
      /\ v.dead = w.dead /\ v.left = w.left /\ v.crash = w.crash /\ v.wrong = w.wrong
  BY DEF FqType
<1>9. Told(w, r, T) = v
  BY DEF Told, R, H, M, y
<1> HIDE DEF v
<1> QED BY <1>2, <1>3, <1>4, <1>5, <1>7, <1>8, <1>9 DEF HasTold

(* An ABTS that waited is answered, and the others see no difference. *)
LEMMA ToldAbts ==
    ASSUME NEW w, Sound(w), NEW r \in FcReqs, w.req[r].st # "free", NEW v, NEW T, HasTold(w, v, r, T),
           NotesKept(w.hw[HwqpOf(r)].msgs, T), NEW i \in AbtsIds
    PROVE  AbtsAt(v, i)
<1> DEFINE h == HwqpOf(r)
           b == w.abts[i]
           ids == w.req[r].cbs
<1>1. w \in FqType /\ w.crash = "no" /\ ReqAt(w, r) /\ h \in FcHwqps /\ r \in FcSlots[h]
      /\ (\A p \in FcSlots[h] : p \in FcReqs)
      /\ AbtsAt(w, i)
  BY HomeOf DEF Sound, Core
<1>2. PlacesAt(w, i, h) /\ ToldAt(w, i)
  BY <1>1 DEF AbtsAt
<1>3. /\ v.abts = w.abts /\ v.air = w.air /\ v.markers = w.markers /\ v.req[r] = FreeFcReq
      /\ (\A p \in FcReqs \ {r} : v.req[p] = w.req[p]) /\ (\A k \in FcHwqps \ {h} : v.hw[k] = w.hw[k])
      /\ v.hw[h].msgs = T /\ v.hw[h].syncs = w.hw[h].syncs /\ v.hw[h].conn = w.hw[h].conn
      /\ ReportsAre(w.main, v.main, h, ids)
  BY DEF HasTold
<1>4. NotesTheSame(w, v, i, h)
  BY <1>3, NotesAre
<1>5. At(ids, i) => Waiting(w, i, h) /\ b.req = r /\ b.st = "asked"
  BY <1>1, <1>2 DEF ToldAt, Waiting
<1>6. Gone(v, r)
  BY <1>1, <1>3, FreeIs DEF Gone, ReqAt
<1>7. ~At(<<>>, i)
  BY DEF At
<1>8. Waiting(v, i, h) => Waiting(w, i, h) /\ b.req # r /\ ~At(ids, i)
  <2> SUFFICES ASSUME Waiting(v, i, h) PROVE Waiting(w, i, h) /\ b.req # r /\ ~At(ids, i)
    OBVIOUS
  <2>1. b.req \in FcSlots[h] /\ At(v.req[b.req].cbs, i)
    BY <1>3 DEF Waiting
  <2>2. b.req # r
    BY <1>3, <1>7, <2>1, FreeIs
  <2>3. v.req[b.req] = w.req[b.req]
    BY <1>1, <1>3, <2>1, <2>2
  <2> QED BY <1>5, <2>1, <2>2, <2>3 DEF Waiting
<1>9. Waiting(w, i, h) /\ ~Waiting(v, i, h) => b.req = r /\ At(ids, i)
  <2> SUFFICES ASSUME Waiting(w, i, h), ~Waiting(v, i, h) PROVE b.req = r /\ At(ids, i)
    OBVIOUS
  <2>1. b.req \in FcSlots[h] /\ At(w.req[b.req].cbs, i)
    BY DEF Waiting
  <2>2. b.req = r
    <3>1. CASE b.req # r
      <4>1. v.req[b.req] = w.req[b.req] BY <1>1, <1>3, <2>1, <3>1
      <4> QED BY <1>3, <2>1, <4>1 DEF Waiting
    <3> QED BY <3>1
  <2> QED BY <2>1, <2>2
<1> HIDE DEF h, b, ids
<1>10. /\ (At(v.main, Found(i, h)) <=> At(w.main, Found(i, h)) \/ At(ids, i))
       /\ (At(v.main, NotFound(i, h)) <=> At(w.main, NotFound(i, h)))
       /\ (At(v.main, QueueSynced(i, h)) <=> At(w.main, QueueSynced(i, h)))
  BY <1>3 DEF ReportsAre
<1>11. Once(v.main, Found(i, h)) /\ Once(v.main, NotFound(i, h)) /\ Once(v.main, QueueSynced(i, h))
  <2>1. Once(w.main, Found(i, h)) /\ Once(w.main, NotFound(i, h)) /\ Once(w.main, QueueSynced(i, h))
    BY <1>2 DEF PlacesAt
  <2>2. Once(ids, i)
    BY <1>2 DEF ToldAt, ids
  <2>3. ~(At(ids, i) /\ At(w.main, Found(i, h)))
    BY <1>2, <1>5 DEF PlacesAt, Answered
  <2> QED BY <1>3, <2>1, <2>2, <2>3 DEF ReportsAre
<1>12. Answered(v, i, h) <=> Answered(w, i, h) \/ At(ids, i)
  BY <1>10 DEF Answered
<1>13. (Asking(v, i, h) <=> Asking(w, i, h)) /\ (Marked(v, i, h) <=> Marked(w, i, h))
  BY <1>3, <1>4 DEF NotesTheSame, Marked
<1>14. PlacesAt(v, i, h)
  <2>1. Asking(v, i, h) => ~Waiting(v, i, h) /\ ~Answered(v, i, h)
    BY <1>2, <1>5, <1>8, <1>12, <1>13 DEF PlacesAt
  <2>2. Waiting(v, i, h) => ~Answered(v, i, h)
    BY <1>2, <1>8, <1>12 DEF PlacesAt
  <2>3. At(v.main, Found(i, h)) => ~At(v.main, NotFound(i, h))
    BY <1>2, <1>5, <1>10 DEF PlacesAt, Answered
  <2> QED
    BY <1>2, <1>3, <1>4, <1>10, <1>11, <1>13, <2>1, <2>2, <2>3 DEF PlacesAt, NotesTheSame
<1>15. ToldAt(v, i)
  <2>1. \A p \in FcReqs : v.req[p].cbs = w.req[p].cbs \/ v.req[p].cbs = <<>>
    BY <1>3, FreeIs
  <2>2. Once(<<>>, i)
    BY DEF Once
  <2>3. ASSUME NEW p \in FcReqs
        PROVE  Once(v.req[p].cbs, i) /\ (At(v.req[p].cbs, i) => v.abts[i].st = "asked" /\ p = v.abts[i].req)
    BY <1>2, <1>3, <1>7, <2>1, <2>2 DEF ToldAt
  <2> QED BY <2>3 DEF ToldAt
<1>16. AbtsPart(v, i, h) <=> AbtsPart(w, i, h)
  BY <1>5, <1>8, <1>9, <1>12, <1>13 DEF AbtsPart
<1>17. SyncPart(v, i, h) <=> SyncPart(w, i, h)
  BY <1>10, <1>13 DEF SyncPart
<1>18. \A k \in FcHwqps \ {h} : ReportsKept(w, v, i, k)
  BY <1>3 DEF ReportsAre, ReportsKept
<1>19. b.st = "asked" /\ Gone(w, b.req) => Gone(v, b.req)
  <2>1. CASE b.req = r
    BY <1>6, <2>1
  <2>2. CASE b.req # r /\ b.st = "asked"
    <3>1. b.req \in FcReqs BY <1>1, <2>2 DEF AbtsAt, FrameAt, b
    <3> QED BY <1>3, <2>2, <3>1 DEF Gone
  <2> QED BY <2>1, <2>2
<1>20. AbtsMoves(w, v, i, h)
  BY <1>3, <1>5, <1>6, <1>9, <1>10, <1>13, <1>14, <1>15, <1>16, <1>17, <1>18, <1>19 DEF AbtsMoves, b
<1>21. HwqpStep(w, v, h)
  BY <1>1, <1>3 DEF HwqpStep, Background, HasTold, h
<1> QED BY <1>1, <1>20, <1>21, AbtsMoved DEF h

(* The messages of the hwqp when a command ends: one that said so may have
   been taken, and another is left only when the port is dead and quiesced. *)
EndTaken(w, r, T) ==
    LET x == w.hw[HwqpOf(r)]
    IN  /\ T \in Seq(FqMsg) /\ Unnoticed(x.msgs, T)
        /\ \A p \in FcReqs \ {r} : /\ At(T, Ended(p)) <=> At(x.msgs, Ended(p))
                                   /\ Once(x.msgs, Ended(p)) => Once(T, Ended(p))
        /\ At(T, Ended(r)) => ~x.on /\ ~At(x.msgs, Quiet) /\ w.dead

(* A command that ends tells all who wait and leaves the rest calm. *)
LEMMA ToldCalm ==
    ASSUME NEW w, Sound(w), NEW r \in FcReqs, w.req[r].st \notin {"free", "pending"}, NEW T, EndTaken(w, r, T)
    PROVE  Calm(Told(w, r, T), HwqpOf(r)) /\ HasTold(w, Told(w, r, T), r, T)
<1> DEFINE h == HwqpOf(r)
           x == w.hw[h]
           s == x.msgs
           v == Told(w, r, T)
<1>1. /\ w \in FqType /\ w.crash = "no" /\ h \in FcHwqps /\ r \in FcSlots[h] /\ T \in Seq(FqMsg) /\ w.left.xchgs \in Nat
      /\ \A p \in FcSlots[h] : p \in FcReqs
  <2>1. w \in FqType /\ w.crash = "no"
    BY DEF Sound, Core
  <2>2. w.left.xchgs \in Nat
    BY <2>1, FqFields DEF FqLeft
  <2> QED BY <2>1, <2>2, HomeOf DEF EndTaken
<1>2. /\ (\A p \in FcReqs : ReqAt(w, p)) /\ (\A k \in FcHwqps : PendingAt(w, k) /\ CapAt(w, k) /\ EndAt(w, k))
      /\ Calm(w, h)
  BY <1>1, SoundIsCalm DEF Sound, Core
<1>3. HasTold(w, v, r, T)
  BY <1>1, ToldFacts
<1> HIDE DEF v
<1>4. /\ v \in FqType /\ v.abts = w.abts /\ v.air = w.air /\ v.markers = w.markers /\ v.req[r] = FreeFcReq
         /\ v.dead = w.dead
      /\ (\A p \in FcReqs \ {r} : v.req[p] = w.req[p]) /\ (\A k \in FcHwqps \ {h} : v.hw[k] = w.hw[k])
      /\ v.hw[h].msgs = T /\ v.hw[h].on = x.on /\ v.hw[h].pending = x.pending
      /\ v.left = w.left /\ v.crash = w.crash /\ v.wrong = w.wrong
  BY <1>3 DEF HasTold
<1>5. HwqpStep(w, v, h)
  BY <1>1, <1>4 DEF HwqpStep, Background
<1>6. ASSUME NEW p \in FcSlots[h] PROVE ReqAt(v, p)
  <2>1. CASE p = r
    BY <1>4, <2>1, FreeIs DEF ReqAt
  <2>2. CASE p # r
    <3>1. p \in FcReqs /\ ReqAt(w, p) /\ v.req[p] = w.req[p] BY <1>1, <1>2, <1>4, <2>2
    <3> QED BY <1>4, <3>1 DEF ReqAt
  <2> QED BY <2>1, <2>2
<1>7. PendingAt(v, h)
  <2>1. \A p \in FcSlots[h] : v.req[p].st = "pending" <=> w.req[p].st = "pending"
    BY <1>1, <1>4, FreeIs
  <2> QED BY <1>1, <1>2, <1>4, <2>1, PendingSame
<1>8. CapAt(v, h)
  <2>1. \A p \in FcSlots[h] : (v.req[p].xchg => w.req[p].xchg) /\ (v.req[p].buf => w.req[p].buf)
    BY <1>1, <1>4, FreeIs
  <2> QED BY <1>1, <1>2, <1>4, <2>1, CapShrinks
<1>9. EndAt(v, h)
  <2>1. /\ (At(T, Quiet) <=> At(s, Quiet)) /\ (Once(s, Quiet) => Once(T, Quiet))
        /\ \A p \in FcReqs \ {r} : /\ At(T, Ended(p)) <=> At(s, Ended(p))
                                   /\ Once(s, Ended(p)) => Once(T, Ended(p))
        /\ At(T, Ended(r)) => ~x.on /\ ~At(s, Quiet) /\ w.dead
    BY DEF EndTaken, Unnoticed
  <2>2. EndAt(w, h)
    BY <1>1, <1>2
  <2>3. (At(T, Quiet) => ~v.hw[h].on) /\ Once(T, Quiet)
    BY <1>4, <2>1, <2>2 DEF EndAt
  <2>4. ASSUME NEW p \in FcReqs
        PROVE  /\ p \in FcSlots[h] /\ v.req[p].st = "aborted" => At(T, Ended(p))
               /\ At(T, Ended(p)) =>
                     /\ p \in FcSlots[h]
                     /\ \/ v.req[p].st = "aborted"
                        \/ /\ ~v.hw[h].on /\ ~At(T, Quiet)
                           /\ \/ v.req[p].st \in InXfer /\ v.req[p].aborted
                              \/ v.dead /\ v.req[p].st = "free"
               /\ v.hw[h].on \/ At(T, Quiet) \/ ~v.dead => Once(T, Ended(p))
    <3>1. CASE p = r
      <4>1. v.req[r].st = "free" BY <1>4, FreeIs
      <4>2. ~At(T, Ended(r)) => Once(T, Ended(r)) BY DEF At, Once
      <4> QED BY <1>1, <1>4, <2>1, <3>1, <4>1, <4>2
    <3>2. CASE p # r
      <4>1. v.req[p] = w.req[p] BY <1>4, <3>2
      <4>2. (At(T, Ended(p)) <=> At(s, Ended(p))) /\ (Once(s, Ended(p)) => Once(T, Ended(p)))
        BY <2>1, <3>2
      <4> QED BY <1>4, <2>1, <2>2, <4>1, <4>2 DEF EndAt
    <3> QED BY <3>1, <3>2
  <2> QED BY <1>4, <2>3, <2>4 DEF EndAt
<1>10. Core(v)
  <2>1. (\A p \in FcReqs \ FcSlots[h] : ReqAt(w, p)) /\ \A k \in FcHwqps \ {h} : PendingAt(w, k) /\ CapAt(w, k)
        /\ EndAt(w, k)
    BY <1>2
  <2> HIDE DEF h
  <2> QED BY <1>1, <1>5, <1>6, <1>7, <1>8, <1>9, <2>1, HwqpStepCore
<1>11. \A i \in AbtsIds : AbtsAt(v, i)
  <2>1. NotesKept(s, T)
    BY DEF EndTaken, Unnoticed
  <2> QED BY <1>3, <2>1, ToldAbts
<1>12. Calm(v, h)
  <2> HIDE DEF h
  <2> QED BY <1>1, <1>2, <1>5, <1>10, <1>11, HwqpStepCalm
<1> QED BY <1>3, <1>12 DEF v

(* nvmf_fc_poller_conn_abort_done: the deletion counts the commands that
   it waits for, and the last one lets it end. *)
LEMMA ConnAbortDoneSound ==
    ASSUME NEW v, NEW h \in FcHwqps, Calm(v, h), v.hw[h].conn = "deleting",
           v.hw[h].left = Cardinality(DelSet(v, h)) + 1,
           ~At(v.hw[h].msgs, Del), \A p \in FcSlots[h] : v.req[p].del \/ v.req[p].data = "aer" \/ v.req[p].st = "free"
    PROVE  Sound(ConnAbortDone(v, h))
<1> DEFINE x == v.hw[h]
           n == Cardinality(DelSet(v, h))
           y == [x EXCEPT !.left = n]
           u == SetHwqp(v, h, y)
<1>1. v \in FqType /\ x \in FqHw /\ IsFiniteSet(DelSet(v, h)) /\ n \in Nat
  <2>1. v \in FqType
    BY DEF Calm, Core
  <2>2. IsFiniteSet(DelSet(v, h))
    BY HomeOf, FS_Subset DEF DelSet
  <2> QED BY <2>1, <2>2, FqParts, FS_CardinalityType
<1>2. y \in FqHw /\ y.conn = x.conn /\ y.on = x.on /\ y.msgs = x.msgs /\ y.syncs = x.syncs /\ y.pending = x.pending
      /\ y.left = n
  BY <1>1 DEF FqHw
<1>3. (IF x.left > 0 THEN x.left - 1 ELSE 0) = n
  BY <1>1
<1>4. ConnAbortDone(v, h) = IF n = 0 THEN LeaveHwqp([v EXCEPT !.hw[h].left = n], h) ELSE [v EXCEPT !.hw[h].left = n]
  <2> HIDE DEF n
  <2> QED BY <1>3 DEF ConnAbortDone
<1>5. u = [v EXCEPT !.hw[h].left = n]
  BY DEF SetHwqp
<1> HIDE DEF u, y, n
<1>6. HwqpSet(v, u, h, y)
  BY <1>1, <1>2, SetHwqpFacts DEF u
<1>7. Calm(u, h)
  BY <1>2, SetConnCalm DEF u, SameButConn
<1>8. u.req = v.req /\ u.hw[h] = y /\ DelSet(u, h) = DelSet(v, h)
  BY <1>6 DEF HwqpSet, DelSet
<1>9. ~At(u.hw[h].msgs, Del) /\ u.hw[h].conn = "deleting" /\ u.hw[h].left = n
      /\ \A p \in FcSlots[h] : u.req[p].del \/ u.req[p].data = "aer" \/ u.req[p].st = "free"
  BY <1>2, <1>8
<1>10. CASE n = 0
  <2>1. DelSet(u, h) = {}
    BY <1>1, <1>8, <1>10, FS_EmptySet DEF n
  <2>2. \A p \in FcSlots[h] : u.req[p].st = "free" \/ u.req[p].data = "aer"
    BY <1>9, <2>1 DEF DelSet
  <2>3. Sound(LeaveHwqp(u, h))
    BY <1>7, <1>9, <1>10, <2>1, <2>2, LeaveSound
  <2> QED BY <1>4, <1>5, <1>10, <2>3
<1>11. CASE n # 0
  <2>1. DelSet(u, h) # {} /\ Cardinality(DelSet(u, h)) = n
    BY <1>8, <1>11, FS_EmptySet DEF n
  <2>2. ConnAt(u, h)
    BY <1>9, <2>1 DEF ConnAt
  <2>3. Sound(u)
    BY <1>7, <2>2, SoundIsCalm
  <2> QED BY <1>4, <1>5, <1>11, <2>3
<1> QED BY <1>10, <1>11

(* nvmf_fc_request_abort_complete: the invariant holds again. *)
WithMsgs(w, h, T) == [w EXCEPT !.hw = [w.hw EXCEPT ![h] = [w.hw[h] EXCEPT !.msgs = T]]]

(* What the completion leaves. *)
LEMMA CompleteIs ==
    ASSUME NEW w \in FqType, NEW r \in FcReqs, NEW T \in Seq(FqMsg), w.req[r].st # "free"
    PROVE  FcAbortComplete(WithMsgs(w, HwqpOf(r), T), r)
           = IF w.req[r].del THEN ConnAbortDone(Told(w, r, T), HwqpOf(r)) ELSE Told(w, r, T)
<1> DEFINE h == HwqpOf(r)
           H == [w.hw EXCEPT ![h] = [w.hw[h] EXCEPT !.msgs = T]]
           u == WithMsgs(w, h, T)
           R == [w.req EXCEPT ![r] = FreeFcReq]
           L == FoundList(h, w.req[r].cbs)
<1>1. u = [w EXCEPT !.hw = H] /\ u.req = w.req /\ u.main = w.main
  BY DEF WithMsgs, FqType
<1>2. FreeFc(u, r) = [u EXCEPT !.req = R]
  BY <1>1 DEF FreeFc
<1>3. [u EXCEPT !.req = R] = [w EXCEPT !.req = R, !.hw = H]
    <2> HIDE DEF R, H, u
    <2> QED BY <1>1 DEF FqType
<1>4. AbtsDone(FreeFc(u, r), h, w.req[r].cbs) = [FreeFc(u, r) EXCEPT !.main = FreeFc(u, r).main \o L]
  BY DEF AbtsDone, FoundList, Found
<1>5. Told(w, r, T) = [w EXCEPT !.req = R, !.hw = H, !.main = w.main \o L]
  BY DEF Told
<1> HIDE DEF R, H, L, u
<1>6. AbtsDone(FreeFc(u, r), h, w.req[r].cbs) = Told(w, r, T)
  <2>1. FreeFc(u, r) = [w EXCEPT !.req = R, !.hw = H]
    BY <1>2, <1>3
  <2>2. FreeFc(u, r).main = w.main
    BY <2>1 DEF FqType
  <2>3. \A M : [[w EXCEPT !.req = R, !.hw = H] EXCEPT !.main = M] = [w EXCEPT !.req = R, !.hw = H, !.main = M]
    BY DEF FqType
  <2> QED BY <1>4, <1>5, <2>1, <2>2, <2>3
<1>7. FcAbortComplete(u, r) = IF w.req[r].del THEN ConnAbortDone(Told(w, r, T), h) ELSE Told(w, r, T)
  BY <1>1, <1>6 DEF FcAbortComplete
<1> QED BY <1>7 DEF u

(* It keeps the invariant. *)
LEMMA CompleteKeeps ==
    ASSUME NEW w, Sound(w), NEW r \in FcReqs, w.req[r].st \notin {"free", "pending"}, NEW T, EndTaken(w, r, T)
    PROVE  Sound(FcAbortComplete(WithMsgs(w, HwqpOf(r), T), r))
<1> DEFINE h == HwqpOf(r)
           v == Told(w, r, T)
<1>1. w \in FqType /\ h \in FcHwqps /\ r \in FcSlots[h] /\ T \in Seq(FqMsg) /\ ConnAt(w, h) /\ ReqAt(w, r)
      /\ \A p \in FcSlots[h] : p \in FcReqs
  BY HomeOf DEF Sound, Core, EndTaken
<1>2. Calm(v, h) /\ HasTold(w, v, r, T)
  BY ToldCalm
<1>3. FcAbortComplete(WithMsgs(w, h, T), r) = IF w.req[r].del THEN ConnAbortDone(v, h) ELSE v
  BY <1>1, CompleteIs
<1> HIDE DEF v, h
<1>4. /\ v.req[r] = FreeFcReq /\ (\A p \in FcReqs \ {r} : v.req[p] = w.req[p]) /\ v.hw[h].msgs = T
      /\ v.hw[h].conn = w.hw[h].conn /\ v.hw[h].left = w.hw[h].left
  BY <1>2 DEF HasTold, h
<1>5. (At(T, Del) <=> At(w.hw[h].msgs, Del)) /\ (Once(w.hw[h].msgs, Del) => Once(T, Del))
  BY DEF EndTaken, Unnoticed, h
<1>6. CASE ~w.req[r].del
  <2>1. \A p \in FcSlots[h] : /\ v.req[p].del = w.req[p].del
                              /\ v.req[p].st = "free" \/ (w.req[p].st # "free" /\ v.req[p].data = w.req[p].data)
                                 \/ w.hw[h].conn = "created" \/ v.req[p] = w.req[p]
    <3>1. w.req[r].del = FALSE BY <1>1, <1>6, FqParts
    <3> QED BY <1>1, <1>4, <3>1, FreeIs
  <2>2. SameDeletion(w, v, h)
    BY <1>4, <1>5, <2>1 DEF SameDeletion
  <2>3. ConnAt(v, h)
    BY <1>1, <2>2, DeletionKept
  <2> QED BY <1>1, <1>2, <1>3, <1>6, <2>3, SoundIsCalm DEF h
<1>7. CASE w.req[r].del
  <2>1. r \in DelSet(w, h)
    BY <1>1, <1>7 DEF DelSet
  <2>2. /\ w.hw[h].conn = "deleting" /\ ~At(w.hw[h].msgs, Del) /\ w.hw[h].left = Cardinality(DelSet(w, h))
        /\ \A p \in FcSlots[h] : w.req[p].del \/ w.req[p].data = "aer" \/ w.req[p].st = "free"
    BY <1>1, <2>1 DEF ConnAt
  <2>3. DelSet(v, h) = DelSet(w, h) \ {r}
    BY <1>1, <1>4, FreeIs DEF DelSet
  <2>4. w.hw[h].left = Cardinality(DelSet(v, h)) + 1
    <3>1. IsFiniteSet(DelSet(w, h)) BY <1>1, HomeOf, FS_Subset DEF DelSet
    <3>2. Cardinality(DelSet(w, h) \ {r}) = Cardinality(DelSet(w, h)) - 1 /\ Cardinality(DelSet(w, h)) \in Nat
      <4> DEFINE D == DelSet(w, h)
      <4> HIDE DEF D
      <4>1. IsFiniteSet(D) /\ r \in D BY <2>1, <3>1 DEF D
      <4>2. Cardinality(D \ {r}) = Cardinality(D) - 1 /\ Cardinality(D) \in Nat
        BY <4>1, FS_RemoveElement, FS_CardinalityType
      <4> QED BY <4>2 DEF D
    <3> QED BY <2>2, <2>3, <3>2
  <2>5. \A p \in FcSlots[h] : v.req[p].del \/ v.req[p].data = "aer" \/ v.req[p].st = "free"
    BY <1>1, <1>4, <2>2, FreeIs
  <2>6. Sound(ConnAbortDone(v, h))
    BY <1>1, <1>2, <1>4, <1>5, <2>2, <2>4, <2>5, ConnAbortDoneSound
  <2> QED BY <1>3, <1>7, <2>6 DEF h
<1> QED BY <1>6, <1>7

---------------------------------------------------------------------------
(* Completions *)

(* A command that is executed and not aborted: nobody waits for it, and it
   goes on or is freed. *)
LEMMA NotAborted ==
    ASSUME NEW w, Sound(w), NEW r \in FcReqs, w.req[r].st \in InBdev \cup InXfer, ~w.req[r].aborted
    PROVE  /\ w.req[r].aborted = FALSE /\ w.req[r].cbs = <<>> /\ w.req[r].del = FALSE
           /\ ~At(w.hw[HwqpOf(r)].msgs, Ended(r))
           /\ w.req[r].st \notin {"free", "init", "pending", "aborted"}
<1>1. w \in FqType /\ ReqAt(w, r) /\ EndAt(w, HwqpOf(r))
  BY HomeOf DEF Sound, Core
<1>2. w.req[r].aborted \in BOOLEAN /\ w.req[r].del \in BOOLEAN
  BY <1>1, FqParts
<1>3. w.req[r].st \notin {"free", "init", "pending", "aborted"}
  BY DEF InBdev, InXfer
<1> QED BY <1>1, <1>2, <1>3 DEF ReqAt, EndAt

(* A command that goes to another phase keeps the invariant. *)
LEMMA PhaseMoves ==
    ASSUME NEW w, Sound(w), NEW r \in FcReqs, w.req[r].st \in InBdev \cup InXfer, ~w.req[r].aborted,
           w.req[r].data # "aer",
           NEW st \in InBdev \cup InXfer
    PROVE  Sound(SetFcReq(w, r, st))
<1> DEFINE h == HwqpOf(r)
           q == w.req[r]
           x == w.hw[h]
           e == [q EXCEPT !.st = st]
           v == Moved(w, r, e, x, w.air, w.left)
<1>1. /\ w \in FqType /\ h \in FcHwqps /\ r \in FcSlots[h] /\ q \in FqReq /\ x \in FqHw /\ w.crash = "no"
      /\ w.left \in FqLeft /\ w.left.xchgs \in Nat /\ w.air \in SUBSET FcReqs
      /\ w.hw \in [FcHwqps -> FqHw] /\ w.req \in [FcReqs -> FqReq]
      /\ \A p \in FcSlots[h] : p \in FcReqs
  <2>1. w \in FqType /\ w.crash = "no"
    BY DEF Sound, Core
  <2>2. w.left \in FqLeft
    BY <2>1, FqFields
  <2>3. w.left.xchgs \in Nat
    BY <2>2 DEF FqLeft
  <2> QED BY <2>1, <2>2, <2>3, HomeOf, FqFields, FqParts
<1>2. ReqAt(w, r) /\ PendingAt(w, h) /\ CapAt(w, h)
  BY <1>1 DEF Sound, Core
<1>3. /\ q.aborted = FALSE /\ q.cbs = <<>> /\ q.del = FALSE /\ ~At(x.msgs, Ended(r))
      /\ q.st \notin {"free", "init", "pending", "aborted"}
  BY NotAborted
<1>4. /\ e \in FqReq /\ e.st = st /\ e.data = q.data /\ e.xchg = q.xchg /\ e.buf = q.buf /\ e.aborted = q.aborted
      /\ e.cbs = q.cbs /\ e.del = q.del /\ st \notin {"free", "init", "pending", "aborted"}
  BY <1>1 DEF FqReq, FqPhases, InBdev, InXfer
<1> HIDE DEF e, v
<1>5. HasMoved(w, v, r, e, x, w.air, w.left)
  BY <1>1, <1>4, MovedFacts DEF v
<1>6. /\ v.req[r] = e /\ v.hw[h] = x /\ v.air = w.air /\ v.left = w.left /\ \A p \in FcReqs \ {r} : v.req[p] = w.req[p]
  BY <1>5 DEF HasMoved
<1>7. ReqAt(v, r)
  BY <1>2, <1>3, <1>4, <1>6 DEF ReqAt
<1>8. PendingAt(v, h)
  <2>1. \A p \in FcSlots[h] : v.req[p].st = "pending" <=> w.req[p].st = "pending"
    BY <1>1, <1>3, <1>4, <1>6
  <2> QED BY <1>1, <1>2, <1>6, <2>1, PendingSame
<1>9. CapAt(v, h)
  <2>1. \A p \in FcSlots[h] : (v.req[p].xchg => w.req[p].xchg) /\ (v.req[p].buf => w.req[p].buf)
    BY <1>1, <1>4, <1>6
  <2> QED BY <1>1, <1>2, <1>6, <2>1, CapShrinks
<1>10. Reached(w, v, r)
  BY <1>3, <1>4, <1>6 DEF Reached
<1>11. Sound(v)
  <2> HIDE DEF x, q
  <2> QED BY <1>1, <1>3, <1>4, <1>7, <1>8, <1>9, <1>10, MoveSound DEF v, q
<1>12. SetFcReq(w, r, st) = v
  <2>1. [w.hw EXCEPT ![h] = x] = w.hw
    BY <1>1
  <2>2. SetFcReq(w, r, st) = [w EXCEPT !.req = [w.req EXCEPT ![r] = e]]
    BY DEF SetFcReq, e
  <2> DEFINE R == [w.req EXCEPT ![r] = e]
  <2>3. v = [w EXCEPT !.req = R, !.hw = w.hw, !.air = w.air, !.left = w.left]
    BY <2>1 DEF v, Moved
  <2> HIDE DEF R
  <2>4. [w EXCEPT !.req = R, !.hw = w.hw, !.air = w.air, !.left = w.left] = [w EXCEPT !.req = R]
    BY <1>1 DEF FqType
  <2> QED BY <2>2, <2>3, <2>4 DEF R
<1> QED BY <1>11, <1>12

(* A command that is freed keeps the invariant. *)
LEMMA FreeMoves ==
    ASSUME NEW w, Sound(w), NEW r \in FcReqs, w.req[r].st \in InBdev \cup InXfer, ~w.req[r].aborted,
           NEW left \in FqLeft, left.sync = w.left.sync, left.xchgs = w.left.xchgs
    PROVE  Sound([w EXCEPT !.req = [w.req EXCEPT ![r] = FreeFcReq], !.left = left])
<1> DEFINE h == HwqpOf(r)
           q == w.req[r]
           x == w.hw[h]
           v == Moved(w, r, FreeFcReq, x, w.air, left)
<1>1. /\ w \in FqType /\ h \in FcHwqps /\ r \in FcSlots[h] /\ q \in FqReq /\ x \in FqHw /\ w.crash = "no"
      /\ w.left.xchgs \in Nat /\ w.air \in SUBSET FcReqs
      /\ w.hw \in [FcHwqps -> FqHw] /\ w.req \in [FcReqs -> FqReq]
      /\ \A p \in FcSlots[h] : p \in FcReqs
  <2>1. w \in FqType /\ w.crash = "no"
    BY DEF Sound, Core
  <2>2. w.left \in FqLeft
    BY <2>1, FqFields
  <2>3. w.left.xchgs \in Nat
    BY <2>2 DEF FqLeft
  <2> QED BY <2>1, <2>3, HomeOf, FqFields, FqParts
<1>2. ReqAt(w, r) /\ PendingAt(w, h) /\ CapAt(w, h)
  BY <1>1 DEF Sound, Core
<1>3. /\ q.aborted = FALSE /\ q.cbs = <<>> /\ q.del = FALSE /\ ~At(x.msgs, Ended(r))
      /\ q.st \notin {"free", "init", "pending", "aborted"}
  BY NotAborted
<1> HIDE DEF v
<1>5. HasMoved(w, v, r, FreeFcReq, x, w.air, left)
  BY <1>1, FreeIs, MovedFacts DEF v
<1>6. /\ v.req[r] = FreeFcReq /\ v.hw[h] = x /\ v.air = w.air /\ v.left = left
         /\ \A p \in FcReqs \ {r} : v.req[p] = w.req[p]
  BY <1>5 DEF HasMoved
<1>7. ReqAt(v, r)
  BY <1>6, FreeIs DEF ReqAt
<1>8. PendingAt(v, h)
  <2>1. \A p \in FcSlots[h] : v.req[p].st = "pending" <=> w.req[p].st = "pending"
    BY <1>1, <1>3, <1>6, FreeIs
  <2> QED BY <1>1, <1>2, <1>6, <2>1, PendingSame
<1>9. CapAt(v, h)
  <2>1. \A p \in FcSlots[h] : (v.req[p].xchg => w.req[p].xchg) /\ (v.req[p].buf => w.req[p].buf)
    BY <1>1, <1>6, FreeIs
  <2> QED BY <1>1, <1>2, <1>6, <2>1, CapShrinks
<1>10. Reached(w, v, r)
  BY <1>3, <1>6, FreeIs DEF Reached
<1>11. Sound(v)
  <2> HIDE DEF x, q
  <2> QED BY <1>1, <1>3, <1>7, <1>8, <1>9, <1>10, FreeIs, MoveSound DEF v, q
<1>12. [w EXCEPT !.req = [w.req EXCEPT ![r] = FreeFcReq], !.left = left] = v
  <2>1. [w.hw EXCEPT ![h] = x] = w.hw
    BY <1>1
  <2> DEFINE R == [w.req EXCEPT ![r] = FreeFcReq]
  <2>3. v = [w EXCEPT !.req = R, !.hw = w.hw, !.air = w.air, !.left = left]
    BY <2>1 DEF v, Moved
  <2> HIDE DEF R
  <2>4. [w EXCEPT !.req = R, !.hw = w.hw, !.air = w.air, !.left = left] = [w EXCEPT !.req = R, !.left = left]
    BY <1>1 DEF FqType
  <2> QED BY <2>3, <2>4 DEF R
<1> QED BY <1>11, <1>12

(* A command that was aborted while the library had it ends, with a
   message. *)
LEMMA LibraryEnds ==
    ASSUME NEW w, Sound(w), NEW r \in FcReqs, w.req[r].st \in InBdev, w.req[r].aborted
    PROVE  Sound(AbortMessage(SetFcReq(w, r, "aborted"), r))
<1> DEFINE h == HwqpOf(r)
           q == w.req[r]
           x == w.hw[h]
           s == x.msgs
           t == Append(s, Ended(r))
           e == [q EXCEPT !.st = "aborted"]
           y == [x EXCEPT !.msgs = t]
           v == PutOne(w, r, e, h, y)
<1>1. /\ w \in FqType /\ h \in FcHwqps /\ r \in FcSlots[h] /\ q \in FqReq /\ x \in FqHw /\ w.crash = "no"
         /\ s \in Seq(FqMsg)
      /\ w.left.xchgs \in Nat /\ \A p \in FcSlots[h] : p \in FcReqs
  <2>1. w \in FqType /\ w.crash = "no"
    BY DEF Sound, Core
  <2>2. w.left.xchgs \in Nat
    BY <2>1, FqFields DEF FqLeft
  <2> QED BY <2>1, <2>2, HomeOf, FqFields, FqParts
<1>2. ReqAt(w, r) /\ PendingAt(w, h) /\ CapAt(w, h) /\ EndAt(w, h) /\ ConnAt(w, h)
  BY <1>1 DEF Sound, Core
<1>3. EndsAfter(s, t, r, TRUE) /\ t \in Seq(FqMsg)
  BY <1>1, EndsAfterAppend
<1>4. q.st \notin {"free", "init", "pending", "aborted"} \cup InXfer
  BY DEF InBdev, InXfer
<1>5. ~At(s, Ended(r))
  BY <1>2, <1>4 DEF EndAt
<1>6. /\ e \in FqReq /\ e.st = "aborted" /\ e.data = q.data /\ e.xchg = q.xchg /\ e.buf = q.buf /\ e.aborted = q.aborted
      /\ e.cbs = q.cbs /\ e.del = q.del
  BY <1>1 DEF FqReq, FqPhases
<1> HIDE DEF t
<1>7. y \in FqHw /\ y.msgs = t /\ y.conn = x.conn /\ y.on = x.on /\ y.syncs = x.syncs /\ y.pending = x.pending
      /\ y.left = x.left
  BY <1>1, <1>3 DEF FqHw
<1> HIDE DEF e, y
<1>8. AbortMessage(SetFcReq(w, r, "aborted"), r) = v
  <2> DEFINE R == [w.req EXCEPT ![r] = e]
             H == [w.hw EXCEPT ![h] = y]
             a == SetFcReq(w, r, "aborted")
  <2>1. a = [w EXCEPT !.req = R]
    BY DEF SetFcReq, e
  <2> HIDE DEF R, a
  <2>2. a.hw = w.hw
    BY <1>1, <2>1 DEF FqType
  <2>3. AbortMessage(a, r) = [a EXCEPT !.hw = H]
    BY <2>2 DEF AbortMessage, ToHwqp, Ended, y, t
  <2> HIDE DEF H
  <2>4. [a EXCEPT !.hw = H] = [w EXCEPT !.req = R, !.hw = H]
    BY <1>1, <2>1 DEF FqType
  <2> QED BY <2>3, <2>4 DEF PutOne, Put, R, H, a
<1> HIDE DEF v
<1>9. OneChanged(w, v, r, e, h, y)
  BY <1>1, <1>6, <1>7, PutOneFacts DEF v
<1>10. /\ v \in FqType /\ Around(w, v) /\ v.req[r] = e /\ v.hw[h] = y
       /\ (\A p \in FcReqs \ {r} : v.req[p] = w.req[p]) /\ \A k \in FcHwqps \ {h} : v.hw[k] = w.hw[k]
  BY <1>9 DEF OneChanged
<1>11. v.air = w.air /\ v.dead = w.dead /\ v.left = w.left /\ v.crash = w.crash /\ v.wrong = w.wrong
       /\ v.abts = w.abts /\ v.markers = w.markers /\ v.main = w.main
  BY <1>10 DEF Around
<1>12. OneStep(w, v, r)
  BY <1>1, <1>10, <1>11 DEF OneStep, Background
<1>13. ReqAt(v, r)
  BY <1>2, <1>4, <1>6, <1>10, <1>11 DEF ReqAt
<1>14. PendingAt(v, h)
  <2>1. \A p \in FcSlots[h] : v.req[p].st = "pending" <=> w.req[p].st = "pending"
    BY <1>1, <1>4, <1>6, <1>10
  <2> QED BY <1>1, <1>2, <1>7, <1>10, <2>1, PendingSame
<1>15. CapAt(v, h)
  <2>1. \A p \in FcSlots[h] : (v.req[p].xchg => w.req[p].xchg) /\ (v.req[p].buf => w.req[p].buf)
    BY <1>1, <1>6, <1>10
  <2> QED BY <1>1, <1>2, <1>11, <2>1, CapShrinks
<1>16. EndAt(v, h)
  <2>1. /\ (At(t, Quiet) <=> At(s, Quiet)) /\ (Once(s, Quiet) => Once(t, Quiet))
        /\ \A p \in FcReqs : /\ At(t, Ended(p)) <=> At(s, Ended(p)) \/ p = r
                             /\ Once(s, Ended(p)) /\ ~(p = r /\ At(s, Ended(p))) => Once(t, Ended(p))
    BY <1>3 DEF EndsAfter, Unnoticed
  <2>2. v.hw[h].msgs = t /\ v.hw[h].on = x.on /\ v.dead = w.dead
    BY <1>7, <1>10, <1>11
  <2>3. (At(t, Quiet) => ~v.hw[h].on) /\ Once(t, Quiet)
    BY <1>2, <2>1, <2>2 DEF EndAt
  <2>4. ASSUME NEW p \in FcReqs
        PROVE  /\ p \in FcSlots[h] /\ v.req[p].st = "aborted" => At(t, Ended(p))
               /\ At(t, Ended(p)) =>
                     /\ p \in FcSlots[h]
                     /\ \/ v.req[p].st = "aborted"
                        \/ /\ ~v.hw[h].on /\ ~At(t, Quiet)
                           /\ \/ v.req[p].st \in InXfer /\ v.req[p].aborted
                              \/ v.dead /\ v.req[p].st = "free"
               /\ v.hw[h].on \/ At(t, Quiet) \/ ~v.dead => Once(t, Ended(p))
    <3>1. CASE p = r
      <4>1. Once(s, Ended(r)) BY <1>5 DEF At, Once
      <4> QED BY <1>1, <1>5, <1>6, <1>10, <2>1, <3>1, <4>1
    <3>2. CASE p # r
      <4>1. v.req[p] = w.req[p] BY <1>10, <3>2
      <4>2. (At(t, Ended(p)) <=> At(s, Ended(p))) /\ (Once(s, Ended(p)) => Once(t, Ended(p)))
        BY <2>1, <3>2
      <4> QED BY <1>2, <2>1, <2>2, <4>1, <4>2 DEF EndAt
    <3> QED BY <3>1, <3>2
  <2> QED BY <2>2, <2>3, <2>4 DEF EndAt
<1>17. ConnAt(v, h)
  <2>1. SameDeletion(w, v, h)
    BY <1>1, <1>3, <1>4, <1>6, <1>7, <1>10 DEF SameDeletion, EndsAfter, Unnoticed
  <2> QED BY <1>1, <1>2, <2>1, DeletionKept
<1>18. SameFrames(w, v, r)
  <2>1. NotesKept(s, t)
    BY <1>3 DEF EndsAfter, Unnoticed
  <2>2. ~Gone(w, r)
    BY <1>4 DEF Gone
  <2> QED BY <1>6, <1>7, <1>10, <1>11, <2>1, <2>2 DEF SameFrames
<1>19. HwqpAt(v, HwqpOf(r))
  BY <1>14, <1>15, <1>16, <1>17 DEF HwqpAt
<1>20. Sound(v)
  BY <1>12, <1>13, <1>18, <1>19, OneStepSound, OneStepKeepsAbts
<1> QED BY <1>8, <1>20

(* The library answers, in time or late. *)
LEMMA LibraryKeeps ==
    ASSUME Sound(fcr), NEW r \in FcReqs, LibraryCompletes(r)
    PROVE  Sound(fcr')
<1>1. fcr.req[r].st \in InBdev /\ fcr.req[r].data # "aer"
  BY DEF LibraryCompletes
<1>2. CASE fcr.req[r].aborted
  BY <1>1, <1>2, LibraryEnds DEF LibraryCompletes
<1>3. CASE ~fcr.req[r].aborted
  <2>1. \/ fcr' = SetFcReq(fcr, r, "read_xfer")
        \/ fcr' = SetFcReq(fcr, r, FcRsp(r))
        \/ fcr.left.faults > 0 /\ fcr' = FreeFc(FcSpend(fcr, "faults"), r)
    BY <1>3 DEF LibraryCompletes
  <2>2. FcRsp(r) \in InBdev \cup InXfer /\ "read_xfer" \in InBdev \cup InXfer
    BY DEF FcRsp, InXfer
  <2>3. \A st \in InBdev \cup InXfer : Sound(SetFcReq(fcr, r, st))
    BY <1>1, <1>3, PhaseMoves
  <2>4. CASE fcr.left.faults > 0 /\ fcr' = FreeFc(FcSpend(fcr, "faults"), r)
    <3> DEFINE left == [fcr.left EXCEPT !["faults"] = @ - 1]
               u == FcSpend(fcr, "faults")
    <3>1. fcr \in FqType BY DEF Sound, Core
    <3>2. left \in FqLeft /\ left.sync = fcr.left.sync /\ left.xchgs = fcr.left.xchgs
      BY <2>4, <3>1, Faulty
    <3>3. u = [fcr EXCEPT !.left = left] BY DEF FcSpend
    <3> HIDE DEF left, u
    <3>4. u.req = fcr.req BY <3>1, <3>3 DEF FqType
    <3>5. FreeFc(u, r) = [u EXCEPT !.req = [fcr.req EXCEPT ![r] = FreeFcReq]]
      BY <1>1, <3>4 DEF FreeFc, InBdev
    <3> DEFINE R == [fcr.req EXCEPT ![r] = FreeFcReq]
    <3> HIDE DEF R
    <3>6. [u EXCEPT !.req = R] = [fcr EXCEPT !.req = R, !.left = left]
      BY <3>1, <3>3 DEF FqType
    <3>7. Sound([fcr EXCEPT !.req = [fcr.req EXCEPT ![r] = FreeFcReq], !.left = left])
      BY <1>1, <1>3, <3>2, FreeMoves
    <3> QED BY <2>4, <3>5, <3>6, <3>7 DEF R, u
  <2> QED BY <2>1, <2>2, <2>3, <2>4
<1> QED BY <1>2, <1>3

(* The HBA ends a transfer or its abort. *)
LEMMA HbaKeeps ==
    ASSUME Sound(fcr), NEW r \in FcReqs, HbaCompletes(r)
    PROVE  Sound(fcr')
<1> DEFINE w == fcr
           h == HwqpOf(r)
<1>1. w.req[r].st \in InXfer /\ ~w.dead /\ w.hw[h].on
  BY DEF HbaCompletes
<1>2. w \in FqType /\ h \in FcHwqps /\ EndAt(w, h) /\ w.hw[h].msgs \in Seq(FqMsg) /\ w.hw \in [FcHwqps -> FqHw]
      /\ w.left \in FqLeft
  <2>1. w \in FqType /\ h \in FcHwqps
    BY HomeOf DEF Sound, Core
  <2> QED BY <2>1, FqParts, FqFields DEF Sound, Core
<1>3. w.req[r].st \notin {"free", "pending", "aborted"}
  BY <1>1 DEF InXfer
<1>4. CASE w.req[r].aborted
  <2> DEFINE T == w.hw[h].msgs
  <2>1. ~At(T, Ended(r))
    BY <1>1, <1>2, <1>3 DEF EndAt
  <2>2. EndTaken(w, r, T)
    BY <1>2, <2>1, UnnoticedStay DEF EndTaken
  <2>3. WithMsgs(w, h, T) = w
    <3>1. [w.hw EXCEPT ![h] = [w.hw[h] EXCEPT !.msgs = T]] = w.hw BY <1>2 DEF FqHw
    <3> QED BY <1>2, <3>1 DEF WithMsgs, FqType
  <2>4. Sound(FcAbortComplete(WithMsgs(w, h, T), r))
    BY <1>3, <2>2, CompleteKeeps
  <2> QED BY <1>4, <2>3, <2>4 DEF HbaCompletes
<1>5. CASE ~w.req[r].aborted
  <2>1. /\ w.req[r].st = "write_xfer" => w.req[r].data # "aer"
        /\ w.req[r].st = "read_xfer" => w.req[r].data # "aer"
    BY DEF Sound, Core, ReqAt
  <2>2. \/ w.req[r].st = "write_xfer" /\ fcr' = SetFcReq(w, r, "write_bdev")
        \/ w.req[r].st = "read_xfer" /\ fcr' = SetFcReq(w, r, "read_rsp")
        \/ w.req[r].st \notin {"write_xfer", "read_xfer"} /\ fcr' = FreeFc(w, r)
    BY <1>5 DEF HbaCompletes
  <2>3. CASE w.req[r].st = "write_xfer" /\ fcr' = SetFcReq(w, r, "write_bdev")
    <3>1. "write_bdev" \in InBdev \cup InXfer BY DEF InBdev
    <3> QED BY <1>1, <1>5, <2>1, <2>3, <3>1, PhaseMoves
  <2>4. CASE w.req[r].st = "read_xfer" /\ fcr' = SetFcReq(w, r, "read_rsp")
    <3>1. "read_rsp" \in InBdev \cup InXfer BY DEF InXfer
    <3> QED BY <1>1, <1>5, <2>1, <2>4, <3>1, PhaseMoves
  <2>5. CASE fcr' = FreeFc(w, r)
    <3> DEFINE R == [w.req EXCEPT ![r] = FreeFcReq]
    <3>1. FreeFc(w, r) = [w EXCEPT !.req = R] BY <1>3 DEF FreeFc
    <3>2. Sound([w EXCEPT !.req = R, !.left = w.left]) BY <1>1, <1>2, <1>5, FreeMoves
    <3> HIDE DEF R
    <3>3. [w EXCEPT !.req = R, !.left = w.left] = [w EXCEPT !.req = R] BY <1>2 DEF FqType
    <3> QED BY <2>5, <3>1, <3>2, <3>3
  <2> QED BY <2>2, <2>3, <2>4, <2>5
<1> QED BY <1>4, <1>5

---------------------------------------------------------------------------
(* The messages of a hwqp, one by one *)

(* Queues with the same messages about ended commands and resets. *)
EndsStay(s, t) ==
    /\ t \in Seq(FqMsg)
    /\ At(t, Quiet) <=> At(s, Quiet)
    /\ Once(s, Quiet) => Once(t, Quiet)
    /\ \A p \in FcReqs : (At(t, Ended(p)) <=> At(s, Ended(p))) /\ (Once(s, Ended(p)) => Once(t, Ended(p)))

(* They stay as other messages come and go. *)
LEMMA EndsStayFacts ==
    ASSUME NEW s \in Seq(FqMsg)
    PROVE  /\ EndsStay(s, s)
           /\ \A e \in FqMsg : e # Quiet /\ (\A p \in FcReqs : e # Ended(p)) => EndsStay(s, Append(s, e))
           /\ s # <<>> /\ Head(s) # Quiet /\ (\A p \in FcReqs : Head(s) # Ended(p)) => EndsStay(s, Tail(s))
<1>1. ASSUME NEW e \in FqMsg, e # Quiet, \A p \in FcReqs : e # Ended(p) PROVE EndsStay(s, Append(s, e))
  BY <1>1, AppendedQueue DEF EndsStay
<1>2. ASSUME s # <<>>, Head(s) # Quiet, \A p \in FcReqs : Head(s) # Ended(p) PROVE EndsStay(s, Tail(s))
  BY <1>2, RestOfQueue DEF EndsStay
<1> QED BY <1>1, <1>2 DEF EndsStay

(* The same with what an ABTS and the deletion look at. *)
LEMMA TailUnnoticed ==
    ASSUME NEW s \in Seq(FqMsg), s # <<>>, \A k, i : Note(k, i) # Head(s), Head(s) # Quiet, Head(s) # Del
    PROVE  Unnoticed(s, Tail(s))
<1>1. /\ \A m : At(s, m) <=> At(Tail(s), m) \/ m = Head(s)
      /\ \A m : Once(s, m) => Once(Tail(s), m)
      /\ \A i : Ordered(s, i) /\ Head(s) # Note("sync", i) => Ordered(Tail(s), i)
  BY RestOfQueue
<1> QED BY <1>1 DEF Unnoticed, NotesKept

(* A step of no command and no end of one. *)
SameCommands(w, v) ==
    /\ v \in FqType /\ v.crash = "no" /\ v.req = w.req /\ v.dead = w.dead /\ v.left.xchgs = w.left.xchgs
    /\ v.air \subseteq w.air
    /\ \A h \in FcHwqps : /\ v.hw[h].on = w.hw[h].on /\ v.hw[h].pending = w.hw[h].pending
                          /\ EndsStay(w.hw[h].msgs, v.hw[h].msgs)

(* Commands that stay keep what is said of them. *)
LEMMA SameCommandsCore ==
    ASSUME NEW w, Core(w), NEW v, SameCommands(w, v)
    PROVE  Core(v)
<1>1. w \in FqType /\ w.left.xchgs \in Nat
  BY FqFields DEF Core, FqLeft
<1>2. /\ v \in FqType /\ v.crash = "no" /\ v.req = w.req /\ v.dead = w.dead /\ v.left.xchgs = w.left.xchgs
      /\ v.air \subseteq w.air
  BY DEF SameCommands
<1>3. ASSUME NEW r \in FcReqs PROVE ReqAt(v, r)
  <2>1. ReqAt(w, r)
    BY DEF Core
  <2> QED BY <1>2, <2>1 DEF ReqAt
<1>4. ASSUME NEW h \in FcHwqps PROVE PendingAt(v, h) /\ CapAt(v, h) /\ EndAt(v, h)
  <2>1. v.hw[h].on = w.hw[h].on /\ v.hw[h].pending = w.hw[h].pending /\ EndsStay(w.hw[h].msgs, v.hw[h].msgs)
    BY DEF SameCommands
  <2>2. PendingAt(w, h) /\ CapAt(w, h) /\ EndAt(w, h)
    BY DEF Core
  <2>3. PendingAt(v, h)
    BY <1>2, <2>1, <2>2, PendingSame
  <2>4. CapAt(v, h)
    BY <1>1, <1>2, <2>2, CapShrinks
  <2>5. SameEnds(w, v, h)
    BY <1>2, <2>1 DEF SameEnds, EndsStay
  <2>6. EndAt(v, h)
    BY <1>1, <1>2, <2>2, <2>5, EndsKept
  <2> QED BY <2>3, <2>4, <2>6
<1> QED BY <1>2, <1>3, <1>4 DEF Core

(* The messages of a hwqp become T. *)
MsgsSet(w, u, h, T) ==
    /\ u \in FqType /\ u.req = w.req /\ (\A k \in FcHwqps \ {h} : u.hw[k] = w.hw[k]) /\ Around(w, u)
    /\ u.hw[h].msgs = T /\ u.hw[h].on = w.hw[h].on /\ u.hw[h].pending = w.hw[h].pending
    /\ u.hw[h].syncs = w.hw[h].syncs /\ u.hw[h].conn = w.hw[h].conn /\ u.hw[h].left = w.hw[h].left

(* The fields of such a state. *)
LEMMA WithMsgsFacts ==
    ASSUME NEW w \in FqType, NEW h \in FcHwqps, NEW T \in Seq(FqMsg)
    PROVE  MsgsSet(w, WithMsgs(w, h, T), h, T)
<1> DEFINE x == w.hw[h]
           y == [x EXCEPT !.msgs = T]
<1>1. x \in FqHw
  BY FqParts
<1>2. y \in FqHw /\ y.msgs = T /\ y.on = x.on /\ y.pending = x.pending /\ y.syncs = x.syncs /\ y.conn = x.conn
      /\ y.left = x.left
  BY <1>1 DEF FqHw
<1>3. WithMsgs(w, h, T) = SetHwqp(w, h, y)
  BY DEF WithMsgs, SetHwqp
<1> HIDE DEF y
<1>4. HwqpSet(w, SetHwqp(w, h, y), h, y)
  BY <1>2, SetHwqpFacts
<1> QED BY <1>2, <1>3, <1>4 DEF HwqpSet, MsgsSet

(* The same with messages that nobody but the commands cares for. *)
LEMMA QuietMsgsSound ==
    ASSUME NEW w, Sound(w), NEW h \in FcHwqps, NEW T, EndsStay(w.hw[h].msgs, T), Unnoticed(w.hw[h].msgs, T)
    PROVE  Sound(WithMsgs(w, h, T)) /\ MsgsSet(w, WithMsgs(w, h, T), h, T)
<1> DEFINE u == WithMsgs(w, h, T)
<1>1. w \in FqType /\ Core(w) /\ T \in Seq(FqMsg) /\ w.crash = "no"
  BY DEF Sound, Core, EndsStay
<1>2. MsgsSet(w, u, h, T)
  BY <1>1, WithMsgsFacts
<1> HIDE DEF u
<1>3. /\ u \in FqType /\ u.req = w.req /\ (\A k \in FcHwqps \ {h} : u.hw[k] = w.hw[k])
      /\ u.hw[h].msgs = T /\ u.hw[h].on = w.hw[h].on /\ u.hw[h].pending = w.hw[h].pending
      /\ u.hw[h].syncs = w.hw[h].syncs /\ u.hw[h].conn = w.hw[h].conn /\ u.hw[h].left = w.hw[h].left
      /\ u.abts = w.abts /\ u.main = w.main /\ u.air = w.air /\ u.markers = w.markers /\ u.dead = w.dead
      /\ u.left = w.left /\ u.crash = w.crash /\ u.wrong = w.wrong
  BY <1>2 DEF MsgsSet, Around
<1>4. ASSUME NEW k \in FcHwqps
      PROVE  /\ u.hw[k].on = w.hw[k].on /\ u.hw[k].pending = w.hw[k].pending /\ u.hw[k].syncs = w.hw[k].syncs
             /\ u.hw[k].conn = w.hw[k].conn /\ u.hw[k].left = w.hw[k].left
             /\ EndsStay(w.hw[k].msgs, u.hw[k].msgs) /\ Unnoticed(w.hw[k].msgs, u.hw[k].msgs)
  <2>1. CASE k = h
    BY <1>3, <2>1
  <2>2. CASE k # h
    <3>1. w.hw[k].msgs \in Seq(FqMsg) /\ u.hw[k] = w.hw[k] BY <1>1, <1>3, <2>2, FqParts
    <3> QED BY <3>1, EndsStayFacts, UnnoticedStay
  <2> QED BY <2>1, <2>2
<1>5. Core(u)
  <2>1. SameCommands(w, u)
    BY <1>1, <1>3, <1>4 DEF SameCommands
  <2> QED BY <1>1, <2>1, SameCommandsCore
<1>6. ASSUME NEW k \in FcHwqps PROVE ConnAt(u, k)
  <2>1. SameDeletion(w, u, k)
    BY <1>3, <1>4 DEF SameDeletion, Unnoticed
  <2> QED BY <1>1, <2>1, DeletionKept DEF Sound
<1>7. SameAbts(w, u)
  BY <1>3, <1>4 DEF SameAbts, Unnoticed, Gone
<1>8. \A i \in AbtsIds : AbtsAt(u, i)
  BY <1>1, <1>7, AbtsKept DEF Sound
<1>9. TruthOf(u)
  BY <1>3 DEF Sound, TruthOf
<1> QED BY <1>2, <1>5, <1>6, <1>8, <1>9 DEF Sound, u

(* A command has ended: it is completed, or freed a second time on a dead
   port. *)
LEMMA AbortedMessageKeeps ==
    ASSUME NEW w, Sound(w), NEW h \in FcHwqps, NEW r \in FcReqs, w.hw[h].msgs # <<>>, Head(w.hw[h].msgs) = Ended(r)
    PROVE  FqInv(FcAbortComplete(WithMsgs(w, h, Tail(w.hw[h].msgs)), r))
<1> DEFINE s == w.hw[h].msgs
           T == Tail(s)
<1>1. w \in FqType /\ s \in Seq(FqMsg) /\ EndAt(w, h) /\ ReqAt(w, r)
  <2>1. w \in FqType
    BY DEF Sound, Core
  <2> QED BY <2>1, FqParts DEF Sound, Core
<1>2. /\ T \in Seq(FqMsg) /\ At(s, Ended(r))
      /\ \A m : At(s, m) <=> At(T, m) \/ m = Ended(r)
      /\ \A m : Once(s, m) => Once(T, m)
      /\ Once(s, Ended(r)) => ~At(T, Ended(r))
  BY <1>1, RestOfQueue
<1>3. Unnoticed(s, T)
  BY <1>1, EndIsMessage, TailUnnoticed
<1> HIDE DEF T
<1>4. /\ r \in FcSlots[h]
      /\ \/ w.req[r].st = "aborted"
         \/ w.req[r].st \in InXfer /\ w.req[r].aborted
         \/ w.dead /\ w.req[r].st = "free"
  BY <1>1, <1>2 DEF EndAt
<1>5. HwqpOf(r) = h
  BY <1>4, HomeOf
<1>6. CASE w.req[r].st = "free"
  <2> DEFINE u == WithMsgs(w, h, T)
             v == FcAbortComplete(u, r)
  <2>1. u \in FqType /\ u.req = w.req /\ u.dead = w.dead /\ u.crash = "no"
    <3>1. MsgsSet(w, u, h, T) BY <1>1, <1>2, WithMsgsFacts
    <3>2. w.crash = "no" BY DEF Sound, Core
    <3> HIDE DEF u
    <3> QED BY <3>1, <3>2 DEF MsgsSet, Around
  <2>2. ~w.req[r].del /\ w.dead
    BY <1>1, <1>4, <1>6 DEF ReqAt, InXfer
  <2> HIDE DEF u
  <2>3. FreeFc(u, r) = [u EXCEPT !.crash = "freed twice"]
    BY <1>6, <2>1 DEF FreeFc, FcReqCrash
  <2>4. v = AbtsDone(FreeFc(u, r), HwqpOf(r), u.req[r].cbs)
    BY <2>1, <2>2 DEF FcAbortComplete
  <2>5. v.crash = "freed twice" /\ v.dead = u.dead
    BY <2>1, <2>3, <2>4 DEF AbtsDone, FqType
  <2> QED BY <2>1, <2>2, <2>5 DEF FqInv, u, T
<1>7. CASE w.req[r].st # "free"
  <2>1. w.req[r].st \notin {"free", "pending"}
    BY <1>4, <1>7 DEF InXfer
  <2>2. ASSUME NEW p \in FcReqs \ {r}
        PROVE  (At(T, Ended(p)) <=> At(s, Ended(p))) /\ (Once(s, Ended(p)) => Once(T, Ended(p)))
    <3>1. Ended(p) # Ended(r) BY KindsDiffer
    <3> QED BY <1>2, <3>1
  <2>3. ASSUME At(T, Ended(r)) PROVE ~w.hw[h].on /\ ~At(s, Quiet) /\ w.dead
    BY <1>1, <1>2, <2>3 DEF EndAt
  <2>4. EndTaken(w, r, T)
    BY <1>2, <1>3, <1>5, <2>2, <2>3 DEF EndTaken
  <2>5. Sound(FcAbortComplete(WithMsgs(w, HwqpOf(r), T), r))
    BY <2>1, <2>4, CompleteKeeps
  <2> QED BY <1>5, <2>5 DEF FqInv, T
<1> QED BY <1>6, <1>7

(* A command that nobody has ended yet is completed. *)
LEMMA CompleteNow ==
    ASSUME NEW w, Sound(w), NEW r \in FcReqs, w.req[r].st = "none_bdev", w.req[r].data = "aer"
    PROVE  /\ Sound(FcAbortComplete(w, r))
           /\ \A p \in FcReqs \ {r} : FcAbortComplete(w, r).req[p] = w.req[p]
<1> DEFINE h == HwqpOf(r)
           T == w.hw[h].msgs
<1>1. /\ w \in FqType /\ h \in FcHwqps /\ EndAt(w, h) /\ T \in Seq(FqMsg) /\ w.hw \in [FcHwqps -> FqHw]
      /\ ReqAt(w, r) /\ w.req[r].del \in BOOLEAN
  <2>1. w \in FqType /\ h \in FcHwqps
    BY HomeOf DEF Sound, Core
  <2> QED BY <2>1, FqParts, FqFields DEF Sound, Core
<1>2. ~At(T, Ended(r))
  BY <1>1 DEF EndAt, InXfer
<1>3. EndTaken(w, r, T)
  BY <1>1, <1>2, UnnoticedStay DEF EndTaken
<1>4. WithMsgs(w, h, T) = w
  <2>1. [w.hw EXCEPT ![h] = [w.hw[h] EXCEPT !.msgs = T]] = w.hw
    BY <1>1 DEF FqHw
  <2> QED BY <1>1, <2>1 DEF WithMsgs, FqType
<1>5. w.req[r].del = FALSE
  BY <1>1 DEF ReqAt
<1>6. FcAbortComplete(WithMsgs(w, h, T), r) = Told(w, r, T)
  BY <1>1, <1>5, CompleteIs
<1>7. Sound(FcAbortComplete(WithMsgs(w, h, T), r))
  BY <1>3, CompleteKeeps
<1>8. HasTold(w, Told(w, r, T), r, T)
  BY <1>1, ToldFacts
<1>9. \A p \in FcReqs \ {r} : Told(w, r, T).req[p] = w.req[p]
  <2> DEFINE v == Told(w, r, T)
  <2> HIDE DEF v
  <2>1. HasTold(w, v, r, T)
    BY <1>8 DEF v
  <2>2. \A p \in FcReqs \ {r} : v.req[p] = w.req[p]
    BY <2>1 DEF HasTold
  <2> QED BY <2>2 DEF v
<1> QED BY <1>4, <1>6, <1>7, <1>9

(* All event requests that are aborted already are completed. *)
LEMMA AersComplete ==
    ASSUME NEW w, Sound(w), NEW S, S \subseteq FcReqs, IsFiniteSet(S),
           \A p \in S : w.req[p].st = "none_bdev" /\ w.req[p].data = "aer"
    PROVE  Sound(AbortsCompleted(w, SetToSeq(S)))
<1> DEFINE s == SetToSeq(S)
           N == Len(s)
<1>1. s \in Seq(S) /\ IsInjective(s)
  BY MessagesOf
<1> HIDE DEF s
<1>2. /\ N \in Nat /\ DOMAIN s = 1 .. N /\ \A n \in 1 .. N : s[n] \in S
      /\ \A n, m \in 1 .. N : s[n] = s[m] => n = m
  BY <1>1, LenProperties, ElementOfSeq DEF IsInjective
<1>3. PICK f : Turns(f, "aborts", w, s) /\ AbortsCompleted(w, s) = f[N]
  BY <1>2, AbortsTurns
<1> DEFINE Kept(n) == Sound(f[n]) /\ \A j \in 1 .. N : j > n => f[n].req[s[j]].st = "none_bdev"
                      /\ f[n].req[s[j]].data = "aer"
           Good == {n \in 0 .. N : Kept(n)}
<1>4. 0 \in Good
  BY <1>2, <1>3 DEF Turns
<1>5. ASSUME NEW n \in 0 .. N, n + 1 \in 0 .. N, n \in Good PROVE n + 1 \in Good
  <2>1. f[n + 1] = FcAbortComplete(f[n], s[n + 1])
    <3>1. n + 1 \in 1 .. N /\ n + 1 - 1 = n BY <1>5
    <3>2. f[n + 1] = FcTurn("aborts", f[n + 1 - 1], s[n + 1]) BY <1>3, <3>1 DEF Turns
    <3> QED BY <3>1, <3>2 DEF FcTurn
  <2>2. Sound(f[n]) /\ s[n + 1] \in FcReqs /\ f[n].req[s[n + 1]].st = "none_bdev" /\ f[n].req[s[n + 1]].data = "aer"
    BY <1>2, <1>5
  <2>3. /\ Sound(f[n + 1])
        /\ \A p \in FcReqs \ {s[n + 1]} : f[n + 1].req[p] = f[n].req[p]
    BY <2>1, <2>2, CompleteNow
  <2>4. ASSUME NEW j \in 1 .. N, j > n + 1
        PROVE  f[n + 1].req[s[j]].st = "none_bdev" /\ f[n + 1].req[s[j]].data = "aer"
    <3>1. s[j] \in FcReqs \ {s[n + 1]} BY <1>2, <1>5, <2>4
    <3>2. f[n].req[s[j]].st = "none_bdev" /\ f[n].req[s[j]].data = "aer" BY <1>5, <2>4
    <3> QED BY <2>3, <3>1, <3>2
  <2> QED BY <1>5, <2>3, <2>4
<1> HIDE DEF Good
<1>6. N \in Good
  <2>1. \A n \in 0 .. N : n + 1 \in 0 .. N /\ n \in Good => n + 1 \in Good
    BY <1>5
  <2>2. N \in Nat /\ N \in 0 .. N
    BY <1>2
  <2> HIDE DEF N
  <2> QED BY <1>4, <2>1, <2>2, CountedUp
<1> QED BY <1>3, <1>6 DEF Good, s

(* The library aborts an event request: the connection's are freed. *)
LEMMA BdevAbortKeeps ==
    ASSUME NEW w, Sound(w), NEW r \in FcReqs
    PROVE  Sound(FcBdevAbort(w, r))
<1> DEFINE h == HwqpOf(r)
           u == FreeAers(w, h)
           S == FcAers(w, h, TRUE)
<1>1. h \in FcHwqps /\ FcSlots[h] \subseteq FcReqs /\ IsFiniteSet(FcSlots[h])
  BY HomeOf
<1>2. Calm(w, h) /\ ConnAt(w, h)
  BY <1>1, SoundIsCalm
<1>3. Sound(u) /\ AersFreed(w, u, h)
  BY <1>1, <1>2, FreeAersCalm, SoundIsCalm
<1>4. S \subseteq FcSlots[h] /\ \A p \in S : w.req[p].data = "aer" /\ w.req[p].st = "none_bdev" /\ w.req[p].aborted = TRUE
  BY DEF FcAers
<1>5. S \subseteq FcReqs /\ IsFiniteSet(S)
  BY <1>1, <1>4, FS_Subset
<1> HIDE DEF u, S
<1>6. \A p \in S : u.req[p].st = "none_bdev" /\ u.req[p].data = "aer"
  BY <1>3, <1>4 DEF AersFreed
<1>7. Sound(AbortsCompleted(u, SetToSeq(S)))
  BY <1>3, <1>5, <1>6, AersComplete
<1> QED BY <1>7 DEF FcBdevAbort, u, S

(* A message about an ABTS is taken from a queue. *)
Taken(s, T, k, i) ==
    /\ EndsStay(s, T)
    /\ At(T, Del) <=> At(s, Del)
    /\ Once(s, Del) => Once(T, Del)
    /\ At(s, Note(k, i)) /\ (Once(s, Note(k, i)) => ~At(T, Note(k, i)))
    /\ \A l, j : /\ Once(s, Note(l, j)) => Once(T, Note(l, j))
                 /\ l # k \/ j # i => (At(T, Note(l, j)) <=> At(s, Note(l, j)))
    /\ \A j : Ordered(s, j) /\ (k # "sync" \/ j # i) => Ordered(T, j)
    /\ k = "sync_done" => ~Ordered(s, i)

(* The first note of a queue is taken off it. *)
LEMMA NoteTaken ==
    ASSUME NEW s \in Seq(FqMsg), s # <<>>, NEW k, NEW i, Head(s) = Note(k, i)
    PROVE  Taken(s, Tail(s), k, i)
<1>1. /\ At(s, Head(s))
      /\ \A m : At(s, m) <=> At(Tail(s), m) \/ m = Head(s)
      /\ \A m : Once(s, m) => Once(Tail(s), m)
      /\ \A m : Once(s, m) /\ m = Head(s) => ~At(Tail(s), m)
      /\ \A j : Ordered(s, j) /\ Head(s) # Note("sync", j) => Ordered(Tail(s), j)
      /\ \A j : Ordered(s, j) => Head(s) # Note("sync_done", j)
  BY RestOfQueue
<1>2. EndsStay(s, Tail(s))
  BY EndsStayFacts, KindsDiffer
<1>3. Head(s) # Del /\ \A l, j : l # k \/ j # i => Head(s) # Note(l, j)
  BY KindsDiffer
<1> QED BY <1>1, <1>2, <1>3 DEF Taken

(* What a hwqp's question looks like: nobody else has it. *)
LEMMA AskedOf ==
    ASSUME NEW w, Sound(w), NEW h \in FcHwqps, NEW i \in AbtsIds, Asking(w, i, h)
    PROVE  /\ w.abts[i].st = "asked" /\ w.abts[i].req \in FcReqs /\ h \in w.abts[i].asked
           /\ ~Waiting(w, i, h) /\ ~Answered(w, i, h) /\ ~SyncPart(w, i, h)
<1>1. PlacesAt(w, i, h) /\ FrameAt(w, i)
  BY DEF Sound, AbtsAt
<1>2. h \in OpenAt(w, i) /\ AbtsPart(w, i, h)
  BY DEF OpenAt, AbtsPart
<1> QED BY <1>1, <1>2 DEF PlacesAt, FrameAt

(* The hwqp has the command: it is aborted, and the ABTS waits for it. *)
LEMMA AbtsFoundKeeps ==
    ASSUME NEW w, Sound(w), NEW h \in FcHwqps, NEW i \in AbtsIds, NEW T, Taken(w.hw[h].msgs, T, "abts", i),
           NEW r \in FcSlots[h], r = w.abts[i].req, w.req[r].st # "free"
    PROVE  Sound(AbortTold(WithMsgs(w, h, T), r, Append(w.req[r].cbs, i), w.req[r].del))
<1> DEFINE s == w.hw[h].msgs
           u == WithMsgs(w, h, T)
           c == Append(w.req[r].cbs, i)
           d == w.req[r].del
           v == AbortTold(u, r, c, d)
<1>1. /\ w \in FqType /\ Core(w) /\ w.crash = "no" /\ r \in FcReqs /\ HwqpOf(r) = h /\ s \in Seq(FqMsg)
      /\ w.req[r].cbs \in Seq(AbtsIds) /\ d \in BOOLEAN /\ ReqAt(w, r) /\ ConnAt(w, h)
  <2>1. w \in FqType /\ w.crash = "no" /\ r \in FcReqs /\ HwqpOf(r) = h
    BY HomeOf DEF Sound, Core
  <2> QED BY <2>1, FqParts DEF Sound, Core
<1>2. Asking(w, i, h) /\ PlacesAt(w, i, h) /\ ToldAt(w, i)
  BY DEF Sound, AbtsAt, Taken, Asking
<1>3. w.abts[i].st = "asked" /\ ~Waiting(w, i, h) /\ ~Answered(w, i, h)
  BY <1>2, AskedOf
<1>4. ~At(T, Note("abts", i))
  BY <1>2 DEF Taken, PlacesAt
<1>5. /\ c \in Seq(AbtsIds) /\ \A j : At(c, j) <=> At(w.req[r].cbs, j) \/ j = i
      /\ \A j : Once(w.req[r].cbs, j) /\ (j = i => ~At(w.req[r].cbs, j)) => Once(c, j)
  BY <1>1, AppendedQueue
<1>6. MsgsSet(w, u, h, T)
  BY <1>1, WithMsgsFacts DEF Taken, EndsStay
<1> HIDE DEF u
<1>7. /\ u \in FqType /\ u.req = w.req /\ (\A k \in FcHwqps \ {h} : u.hw[k] = w.hw[k])
      /\ u.hw[h].msgs = T /\ u.hw[h].on = w.hw[h].on /\ u.hw[h].pending = w.hw[h].pending
      /\ u.hw[h].syncs = w.hw[h].syncs /\ u.hw[h].conn = w.hw[h].conn /\ u.hw[h].left = w.hw[h].left
      /\ u.abts = w.abts /\ u.main = w.main /\ u.air = w.air /\ u.markers = w.markers /\ u.dead = w.dead
      /\ u.left = w.left /\ u.crash = w.crash /\ u.wrong = w.wrong
  BY <1>6 DEF MsgsSet, Around
<1>8. Core(u)
  <2>1. ASSUME NEW k \in FcHwqps
        PROVE  u.hw[k].on = w.hw[k].on /\ u.hw[k].pending = w.hw[k].pending /\ EndsStay(w.hw[k].msgs, u.hw[k].msgs)
    <3>1. CASE k = h
      BY <1>7, <3>1 DEF Taken
    <3>2. CASE k # h
      <4>1. w.hw[k].msgs \in Seq(FqMsg) /\ u.hw[k] = w.hw[k] BY <1>1, <1>7, <3>2, FqParts
      <4> QED BY <4>1, EndsStayFacts
    <3> QED BY <3>1, <3>2
  <2>2. SameCommands(w, u)
    BY <1>1, <1>7, <2>1 DEF SameCommands
  <2> QED BY <1>1, <2>2, SameCommandsCore
<1> HIDE DEF c, d
<1>9. Core(v) /\ Aborted(u, v, r, c, d)
  <2>1. d => u.req[r].data # "aer"
    BY <1>1, <1>7 DEF ReqAt, d
  <2>2. u.req[r].st # "free" /\ d \in BOOLEAN
    BY <1>1, <1>7
  <2> QED BY <1>1, <1>5, <1>8, <2>1, <2>2, AbortCore
<1> HIDE DEF v
<1>10. /\ v \in FqType /\ v.abts = w.abts /\ v.main = w.main /\ v.air = w.air /\ v.markers = w.markers /\ v.dead = w.dead
       /\ v.left = w.left /\ v.crash = w.crash /\ v.wrong = w.wrong
       /\ (\A p \in FcReqs \ {r} : v.req[p] = w.req[p]) /\ (\A k \in FcHwqps \ {h} : v.hw[k] = w.hw[k])
       /\ v.req[r].data = w.req[r].data /\ v.req[r].cbs = c /\ v.req[r].del = w.req[r].del
       /\ v.req[r].st # "free"
       /\ v.hw[h].syncs = w.hw[h].syncs /\ v.hw[h].conn = w.hw[h].conn /\ v.hw[h].left = w.hw[h].left
       /\ Unnoticed(T, v.hw[h].msgs)
  <2>1. /\ v \in FqType /\ Around(u, v)
        /\ (\A p \in FcReqs \ {r} : v.req[p] = u.req[p]) /\ (\A k \in FcHwqps \ {h} : v.hw[k] = u.hw[k])
        /\ v.req[r].data = u.req[r].data /\ v.req[r].cbs = c /\ v.req[r].del = d
        /\ v.req[r].st \in {u.req[r].st, "aborted"}
        /\ v.hw[h].syncs = u.hw[h].syncs /\ v.hw[h].conn = u.hw[h].conn /\ v.hw[h].left = u.hw[h].left
        /\ Unnoticed(u.hw[h].msgs, v.hw[h].msgs)
    BY <1>1, <1>9 DEF Aborted
  <2>2. v.req[r].st # "free"
    BY <1>7, <2>1
  <2>3. \A k \in FcHwqps \ {h} : v.hw[k] = w.hw[k]
    BY <1>7, <2>1
  <2>4. \A p \in FcReqs \ {r} : v.req[p] = w.req[p]
    BY <1>7, <2>1
  <2> QED BY <1>7, <2>1, <2>2, <2>3, <2>4 DEF Around, d
<1>11. HwqpStep(w, v, h)
  BY <1>1, <1>10 DEF HwqpStep, Background
<1>12. ConnAt(v, h)
  <2>1. \A p \in FcSlots[h] : /\ v.req[p].del = w.req[p].del
                              /\ v.req[p].st = "free" \/ (w.req[p].st # "free" /\ v.req[p].data = w.req[p].data)
    <3>1. ASSUME NEW p \in FcSlots[h]
          PROVE  /\ v.req[p].del = w.req[p].del
                 /\ v.req[p].st = "free" \/ (w.req[p].st # "free" /\ v.req[p].data = w.req[p].data)
      <4>1. p \in FcReqs BY HomeOf
      <4> QED BY <1>1, <1>10, <4>1
    <3> QED BY <3>1
  <2>2. SameDeletion(w, v, h)
    BY <1>10, <2>1 DEF SameDeletion, Unnoticed, Taken
  <2> QED BY <1>1, <2>2, DeletionKept
<1>13. ASSUME NEW j \in AbtsIds PROVE AbtsMoves(w, v, j, h)
  <2> DEFINE V == v.hw[h].msgs
             o == w.abts[j].req
  <2>1. PlacesAt(w, j, h) /\ ToldAt(w, j) /\ FrameAt(w, j)
    BY DEF Sound, AbtsAt
  <2>2. /\ \A k \in {"abts", "sync", "sync_done"} :
              (At(V, Note(k, j)) <=> At(T, Note(k, j))) /\ (Once(T, Note(k, j)) => Once(V, Note(k, j)))
        /\ Ordered(T, j) => Ordered(V, j)
    BY <1>10 DEF Unnoticed, NotesKept
  <2>3. /\ \A k \in {"abts", "sync", "sync_done"} : Once(s, Note(k, j)) => Once(V, Note(k, j))
        /\ Ordered(s, j) => Ordered(V, j)
        /\ \A k \in {"sync", "sync_done"} : At(V, Note(k, j)) <=> At(s, Note(k, j))
        /\ j # i => (At(V, Note("abts", j)) <=> At(s, Note("abts", j)))
    BY <2>2 DEF Taken
  <2>4. j = i => ~At(V, Note("abts", j))
    BY <1>4, <2>2
  <2> HIDE DEF V
  <2>5. ASSUME NEW p \in FcReqs
        PROVE  /\ Once(v.req[p].cbs, j)
               /\ At(v.req[p].cbs, j) <=> At(w.req[p].cbs, j) \/ (p = r /\ j = i)
    <3>1. CASE p = r
      <4>1. j = i => ~At(w.req[r].cbs, j) BY <1>3 DEF Waiting
      <4> QED BY <1>1, <1>5, <1>10, <2>1, <3>1, <4>1 DEF ToldAt
    <3>2. CASE p # r
      BY <1>10, <2>1, <3>2 DEF ToldAt
    <3> QED BY <3>1, <3>2
  <2>6. ToldAt(v, j)
    <3>1. j = i => w.abts[j].st = "asked" /\ r = w.abts[j].req BY <1>3
    <3> QED BY <1>10, <2>1, <2>5, <3>1 DEF ToldAt
  <2>7. \A k \in FcHwqps : ReportsKept(w, v, j, k)
    BY <1>10 DEF ReportsKept
  <2>8. Asking(v, j, h) <=> j # i /\ Asking(w, j, h)
    BY <2>3, <2>4 DEF Asking, V
  <2>9. Waiting(v, j, h) <=> j = i \/ Waiting(w, j, h)
    <3>1. o \in FcSlots[h] => o \in FcReqs BY HomeOf
    <3>2. j = i => o = r OBVIOUS
    <3> QED BY <1>10, <2>5, <3>1, <3>2 DEF Waiting
  <2>10. /\ Answered(v, j, h) <=> Answered(w, j, h)
         /\ Marked(v, j, h) <=> Marked(w, j, h)
         /\ SyncPart(v, j, h) <=> SyncPart(w, j, h)
    BY <1>10, <2>3 DEF Answered, Marked, SyncPart, V
  <2>11. AbtsPart(v, j, h) <=> AbtsPart(w, j, h)
    BY <1>2, <2>8, <2>9, <2>10 DEF AbtsPart
  <2>12. PlacesAt(v, j, h)
    BY <1>3, <1>10, <2>1, <2>3, <2>8, <2>9, <2>10 DEF PlacesAt, V, Answered
  <2>13. w.abts[j].st = "asked" /\ Gone(w, o) => Gone(v, o)
    <3>1. w.abts[j].st = "asked" => o \in FcReqs BY <2>1 DEF FrameAt
    <3> QED BY <1>10, <3>1 DEF Gone
  <2> QED BY <1>10, <2>6, <2>7, <2>8, <2>9, <2>10, <2>11, <2>12, <2>13 DEF AbtsMoves
<1>14. \A j \in AbtsIds : AbtsAt(v, j)
  BY <1>1, <1>11, <1>13, AbtsMoved DEF Sound
<1>15. Sound(v)
  BY <1>9, <1>11, <1>12, <1>14, HwqpStepCalm, SoundIsCalm
<1> QED BY <1>15 DEF v, u, c, d

(* A report is put behind those to the main thread. *)
ReportJoins(m, n, e) ==
    /\ n \in Seq(FqMain)
    /\ \A x : /\ At(n, x) <=> At(m, x) \/ x = e
              /\ Once(m, x) /\ (x = e => ~At(m, x)) => Once(n, x)

(* A report joins the main queue. *)
LEMMA ReportJoined ==
    ASSUME NEW m \in Seq(FqMain), NEW e \in FqMain
    PROVE  ReportJoins(m, Append(m, e), e)
  BY AppendedQueue DEF ReportJoins

(* Reports are messages to the main thread. *)
LEMMA ReportsAreMessages ==
    ASSUME NEW i \in AbtsIds, NEW h \in FcHwqps
    PROVE  Found(i, h) \in FqMain /\ NotFound(i, h) \in FqMain /\ QueueSynced(i, h) \in FqMain
  BY DEF Found, NotFound, QueueSynced, FqMain

(* A hwqp's queue, what it waits for and its reports change. *)
Reported(w, h, T, syncs, e) ==
    [w EXCEPT !.hw = [w.hw EXCEPT ![h] = [w.hw[h] EXCEPT !.msgs = T, !.syncs = syncs]], !.main = Append(w.main, e)]
HasReported(w, v, h, T, syncs, e) ==
    /\ v \in FqType /\ v.req = w.req /\ (\A k \in FcHwqps \ {h} : v.hw[k] = w.hw[k])
    /\ v.hw[h].msgs = T /\ v.hw[h].on = w.hw[h].on /\ v.hw[h].pending = w.hw[h].pending
    /\ v.hw[h].syncs = syncs /\ v.hw[h].conn = w.hw[h].conn /\ v.hw[h].left = w.hw[h].left
    /\ v.abts = w.abts /\ v.air = w.air /\ v.markers = w.markers /\ v.dead = w.dead
    /\ v.left = w.left /\ v.crash = w.crash /\ v.wrong = w.wrong
    /\ ReportJoins(w.main, v.main, e)

(* The fields of such a state. *)
LEMMA ReportedFacts ==
    ASSUME NEW w \in FqType, NEW h \in FcHwqps, NEW T \in Seq(FqMsg), NEW syncs \in SUBSET AbtsIds, NEW e \in FqMain
    PROVE  HasReported(w, Reported(w, h, T, syncs, e), h, T, syncs, e)
<1> DEFINE x == w.hw[h]
           y == [x EXCEPT !.msgs = T, !.syncs = syncs]
           H == [w.hw EXCEPT ![h] = y]
           M == Append(w.main, e)
           v == [w EXCEPT !.hw = H, !.main = M]
<1>1. x \in FqHw /\ w.main \in Seq(FqMain)
  BY FqParts, FqFields
<1>2. y \in FqHw /\ y.msgs = T /\ y.syncs = syncs /\ y.on = x.on /\ y.pending = x.pending /\ y.conn = x.conn
      /\ y.left = x.left
  BY <1>1 DEF FqHw
<1> HIDE DEF y
<1>3. H \in [FcHwqps -> FqHw] /\ H[h] = y /\ \A k \in FcHwqps \ {h} : H[k] = w.hw[k]
  BY <1>2, FqFields
<1>4. M \in Seq(FqMain) /\ ReportJoins(w.main, M, e)
  BY <1>1, ReportJoined DEF ReportJoins
<1> HIDE DEF H, M
<1>5. /\ v \in FqType /\ v.req = w.req /\ v.hw = H /\ v.main = M /\ v.abts = w.abts /\ v.air = w.air
      /\ v.markers = w.markers /\ v.dead = w.dead /\ v.left = w.left /\ v.crash = w.crash /\ v.wrong = w.wrong
  BY <1>3, <1>4 DEF FqType
<1>6. Reported(w, h, T, syncs, e) = v
  BY DEF Reported, v, H, M, y
<1> HIDE DEF v
<1> QED BY <1>2, <1>3, <1>4, <1>5, <1>6 DEF HasReported

(* Such a step keeps all but the ABTS. *)
LEMMA ReportedCore ==
    ASSUME NEW w, Sound(w), NEW h \in FcHwqps, NEW T, NEW syncs, NEW e, NEW v, HasReported(w, v, h, T, syncs, e),
           EndsStay(w.hw[h].msgs, T), At(T, Del) <=> At(w.hw[h].msgs, Del), Once(w.hw[h].msgs, Del) => Once(T, Del)
    PROVE  Core(v) /\ HwqpStep(w, v, h) /\ ConnAt(v, h)
<1>1. w \in FqType /\ w.crash = "no" /\ Core(w)
  BY DEF Sound, Core
<1>2. /\ v \in FqType /\ v.req = w.req /\ (\A k \in FcHwqps \ {h} : v.hw[k] = w.hw[k])
      /\ v.hw[h].msgs = T /\ v.hw[h].on = w.hw[h].on /\ v.hw[h].pending = w.hw[h].pending
      /\ v.hw[h].conn = w.hw[h].conn /\ v.hw[h].left = w.hw[h].left
      /\ v.abts = w.abts /\ v.air = w.air /\ v.markers = w.markers /\ v.dead = w.dead
      /\ v.left = w.left /\ v.crash = w.crash /\ v.wrong = w.wrong
  BY DEF HasReported
<1>3. ASSUME NEW k \in FcHwqps
      PROVE  v.hw[k].on = w.hw[k].on /\ v.hw[k].pending = w.hw[k].pending /\ EndsStay(w.hw[k].msgs, v.hw[k].msgs)
  <2>1. CASE k = h
    BY <1>2, <2>1
  <2>2. CASE k # h
    <3>1. w.hw[k].msgs \in Seq(FqMsg) /\ v.hw[k] = w.hw[k] BY <1>1, <1>2, <2>2, FqParts
    <3> QED BY <3>1, EndsStayFacts
  <2> QED BY <2>1, <2>2
<1>4. Core(v)
  <2>1. SameCommands(w, v)
    BY <1>1, <1>2, <1>3 DEF SameCommands
  <2> QED BY <1>1, <2>1, SameCommandsCore
<1>5. HwqpStep(w, v, h)
  BY <1>1, <1>2 DEF HwqpStep, Background
<1>6. ConnAt(v, h)
  <2>1. SameDeletion(w, v, h)
    BY <1>2 DEF SameDeletion
  <2> QED BY <1>1, <2>1, DeletionKept DEF Sound
<1> QED BY <1>4, <1>5, <1>6

(* The hwqp does not have the command, and says so. *)
LEMMA AbtsNotFoundKeeps ==
    ASSUME NEW w, Sound(w), NEW h \in FcHwqps, NEW i \in AbtsIds, NEW T, Taken(w.hw[h].msgs, T, "abts", i),
           ~(w.abts[i].req \in FcInUse(w, h) /\ w.hw[h].conn # "deleted")
    PROVE  Sound(Reported(w, h, T, w.hw[h].syncs, NotFound(i, h)))
<1> DEFINE s == w.hw[h].msgs
           x == w.hw[h]
           v == Reported(w, h, T, x.syncs, NotFound(i, h))
           r == w.abts[i].req
<1>1. w \in FqType /\ s \in Seq(FqMsg) /\ x.syncs \in SUBSET AbtsIds /\ T \in Seq(FqMsg)
  <2>1. w \in FqType
    BY DEF Sound, Core
  <2> QED BY <2>1, FqParts DEF Taken, EndsStay
<1>2. Asking(w, i, h) /\ PlacesAt(w, i, h) /\ TruthAt(w, i)
  BY DEF Sound, AbtsAt, Taken, Asking
<1>3. w.abts[i].st = "asked" /\ h \in w.abts[i].asked /\ r \in FcReqs /\ ~Waiting(w, i, h) /\ ~Answered(w, i, h)
  BY <1>2, AskedOf
<1>4. ~At(T, Note("abts", i))
  BY <1>2 DEF Taken, PlacesAt
<1>5. HasReported(w, v, h, T, x.syncs, NotFound(i, h))
  BY <1>1, ReportsAreMessages, ReportedFacts
<1> HIDE DEF v
<1>6. Core(v) /\ HwqpStep(w, v, h) /\ ConnAt(v, h)
  BY <1>5, ReportedCore DEF Taken
<1>7. /\ v.req = w.req /\ v.hw[h].msgs = T /\ v.hw[h].syncs = x.syncs /\ v.hw[h].conn = x.conn
      /\ v.abts = w.abts /\ v.air = w.air /\ v.markers = w.markers
      /\ \A m : /\ At(v.main, m) <=> At(w.main, m) \/ m = NotFound(i, h)
                /\ Once(w.main, m) /\ (m = NotFound(i, h) => ~At(w.main, m)) => Once(v.main, m)
  BY <1>5 DEF HasReported, ReportJoins
<1>8. ASSUME NEW j \in AbtsIds PROVE AbtsMoves(w, v, j, h)
  <2> DEFINE o == w.abts[j].req
  <2>1. PlacesAt(w, j, h) /\ ToldAt(w, j)
    BY DEF Sound, AbtsAt
  <2>2. /\ \A k \in {"abts", "sync", "sync_done"} : Once(s, Note(k, j)) => Once(T, Note(k, j))
        /\ Ordered(s, j) => Ordered(T, j)
        /\ \A k \in {"sync", "sync_done"} : At(T, Note(k, j)) <=> At(s, Note(k, j))
        /\ j # i => (At(T, Note("abts", j)) <=> At(s, Note("abts", j)))
    BY DEF Taken
  <2>3. ToldAt(v, j)
    BY <1>7, <2>1 DEF ToldAt
  <2>4. ASSUME NEW k \in FcHwqps
        PROVE  /\ (At(v.main, Found(j, k)) <=> At(w.main, Found(j, k)))
               /\ (At(v.main, QueueSynced(j, k)) <=> At(w.main, QueueSynced(j, k)))
               /\ (At(v.main, NotFound(j, k)) <=> At(w.main, NotFound(j, k)) \/ (j = i /\ k = h))
               /\ (Once(w.main, Found(j, k)) => Once(v.main, Found(j, k)))
               /\ (Once(w.main, QueueSynced(j, k)) => Once(v.main, QueueSynced(j, k)))
               /\ (Once(w.main, NotFound(j, k)) => Once(v.main, NotFound(j, k)))
    <3>1. Found(j, k) # NotFound(i, h) /\ QueueSynced(j, k) # NotFound(i, h)
          /\ (NotFound(j, k) = NotFound(i, h) <=> j = i /\ k = h)
      BY ReportsDiffer
    <3>2. ~At(w.main, NotFound(i, h)) BY <1>3 DEF Answered
    <3> QED BY <1>7, <3>1, <3>2
  <2>5. \A k \in FcHwqps \ {h} : ReportsKept(w, v, j, k)
    BY <2>4 DEF ReportsKept
  <2>6. Asking(v, j, h) <=> j # i /\ Asking(w, j, h)
    BY <1>4, <1>7, <2>2 DEF Asking
  <2>7. Waiting(v, j, h) <=> Waiting(w, j, h)
    BY <1>7 DEF Waiting
  <2>8. /\ Answered(v, j, h) <=> Answered(w, j, h) \/ j = i
        /\ Marked(v, j, h) <=> Marked(w, j, h)
        /\ SyncPart(v, j, h) <=> SyncPart(w, j, h)
    BY <1>7, <2>2, <2>4 DEF Answered, Marked, SyncPart
  <2>9. AbtsPart(v, j, h) <=> AbtsPart(w, j, h)
    BY <1>2, <2>6, <2>7, <2>8 DEF AbtsPart
  <2>10. PlacesAt(v, j, h)
    <3>1. j = i => ~Asking(v, j, h) /\ ~Waiting(v, j, h) /\ ~At(v.main, Found(j, h))
      BY <1>3, <2>4, <2>6, <2>7 DEF Answered
    <3>2. j # i => (At(v.main, NotFound(j, h)) <=> At(w.main, NotFound(j, h))) BY <2>4
    <3> QED BY <1>7, <2>1, <2>2, <2>4, <2>6, <2>7, <2>8, <3>1, <3>2 DEF PlacesAt
  <2>11. Gone(w, o) => Gone(v, o)
    BY <1>7 DEF Gone
  <2>12. w.abts[j].synced /\ w.abts[j].st = "asked" /\ HwqpOf(o) = h /\ ~Asking(v, j, h) /\ ~Waiting(v, j, h) =>
              (~Asking(w, j, h) /\ ~Waiting(w, j, h)) \/ Gone(v, o) \/ v.hw[h].conn = "deleted"
    <3>1. CASE j # i
      BY <2>6, <2>7, <3>1
    <3>2. CASE j = i
      <4> SUFFICES ASSUME w.abts[i].synced, HwqpOf(r) = h, v.hw[h].conn # "deleted" PROVE Gone(v, r)
        BY <3>2
      <4>1. r \in FcSlots[h] BY <1>3, HomeOf
      <4>2. w.req[r].st = "free" BY <1>7, <4>1 DEF FcInUse
      <4>3. r \notin w.air BY <1>2, <1>3 DEF TruthAt
      <4> QED BY <1>7, <4>2, <4>3 DEF Gone
    <3> QED BY <3>1, <3>2
  <2> QED BY <1>7, <2>3, <2>4, <2>5, <2>8, <2>9, <2>10, <2>11, <2>12 DEF AbtsMoves
<1>9. \A j \in AbtsIds : AbtsAt(v, j)
  BY <1>1, <1>6, <1>8, AbtsMoved DEF Sound
<1>10. Sound(v)
  BY <1>6, <1>9, HwqpStepCalm, SoundIsCalm
<1> QED BY <1>10 DEF v

(* nvmf_fc_poller_api_abts_received. *)
LEMMA AbtsReceivedKeeps ==
    ASSUME NEW w, Sound(w), NEW h \in FcHwqps, NEW i \in AbtsIds, NEW T, Taken(w.hw[h].msgs, T, "abts", i)
    PROVE  Sound(AbtsReceived(WithMsgs(w, h, T), h, i))
<1> DEFINE u == WithMsgs(w, h, T)
           x == w.hw[h]
           r == w.abts[i].req
<1>1. w \in FqType /\ T \in Seq(FqMsg) /\ w.req \in [FcReqs -> FqReq] /\ w.hw \in [FcHwqps -> FqHw] /\ x \in FqHw
  <2>1. w \in FqType
    BY DEF Sound, Core
  <2> QED BY <2>1, FqFields DEF Taken, EndsStay
<1>2. MsgsSet(w, u, h, T)
  BY <1>1, WithMsgsFacts
<1> HIDE DEF u
<1>3. u \in FqType /\ u.req = w.req /\ u.abts = w.abts /\ u.main = w.main /\ u.hw[h].conn = x.conn
  BY <1>2 DEF MsgsSet, Around
<1>4. FcInUse(u, h) = FcInUse(w, h)
  BY <1>3 DEF FcInUse
<1>5. CASE r \in FcInUse(w, h) /\ x.conn # "deleted"
  <2> DEFINE c == Append(w.req[r].cbs, i)
             d == w.req[r].del
  <2>1. r \in FcSlots[h] /\ r \in FcReqs /\ w.req[r].st # "free"
    BY <1>5, HomeOf DEF FcInUse
  <2>2. AbtsReceived(u, h, i) = FcAbort([u EXCEPT !.req[r].cbs = Append(@, i)], r)
    BY <1>3, <1>4, <1>5 DEF AbtsReceived
  <2>3. [u EXCEPT !.req[r].cbs = Append(@, i)] = [u EXCEPT !.req = [u.req EXCEPT ![r] = [u.req[r] EXCEPT !.cbs = c,
        !.del = d]]]
    <3>1. u.req[r] \in FqReq /\ u.req[r].del = d /\ u.req[r].cbs = w.req[r].cbs
      BY <1>1, <1>3, <2>1
    <3>2. [u.req[r] EXCEPT !.cbs = c, !.del = d] = [u.req[r] EXCEPT !.cbs = c]
      BY <3>1 DEF FqReq
    <3> QED BY <3>1, <3>2
  <2>4. AbtsReceived(u, h, i) = AbortTold(u, r, c, d)
    BY <2>2, <2>3 DEF AbortTold
  <2>5. Sound(AbortTold(WithMsgs(w, h, T), r, Append(w.req[r].cbs, i), w.req[r].del))
    BY <2>1, AbtsFoundKeeps
  <2> QED BY <2>4, <2>5 DEF u
<1>6. CASE ~(r \in FcInUse(w, h) /\ x.conn # "deleted")
  <2>1. AbtsReceived(u, h, i) = [u EXCEPT !.main = Append(w.main, NotFound(i, h))]
    BY <1>3, <1>4, <1>6 DEF AbtsReceived, TellMain, NotFound
  <2> DEFINE H == [w.hw EXCEPT ![h] = [w.hw[h] EXCEPT !.msgs = T]]
  <2>2. u = [w EXCEPT !.hw = H]
    BY DEF u, WithMsgs
  <2>3. H = [w.hw EXCEPT ![h] = [w.hw[h] EXCEPT !.msgs = T, !.syncs = x.syncs]]
    BY <1>1 DEF FqHw
  <2> DEFINE M == Append(w.main, NotFound(i, h))
  <2> HIDE DEF H, M
  <2>4. [u EXCEPT !.main = M] = [w EXCEPT !.hw = H, !.main = M]
    BY <1>1, <2>2 DEF FqType
  <2>5. [u EXCEPT !.main = M] = Reported(w, h, T, x.syncs, NotFound(i, h))
    BY <2>3, <2>4 DEF Reported, M
  <2>6. Sound(Reported(w, h, T, x.syncs, NotFound(i, h)))
    BY <1>6, AbtsNotFoundKeeps
  <2> QED BY <2>1, <2>5, <2>6 DEF u, M
<1> QED BY <1>5, <1>6

(* The hwqp is told to expect a marker. *)
LEMMA SyncKeeps ==
    ASSUME NEW w, Sound(w), NEW h \in FcHwqps, NEW i \in AbtsIds, NEW T, Taken(w.hw[h].msgs, T, "sync", i)
    PROVE  Sound([WithMsgs(w, h, T) EXCEPT !.hw[h].syncs = @ \cup {i}])
<1> DEFINE s == w.hw[h].msgs
           x == w.hw[h]
           y == [x EXCEPT !.msgs = T, !.syncs = x.syncs \cup {i}]
           v == SetHwqp(w, h, y)
<1>1. w \in FqType /\ Core(w) /\ w.crash = "no" /\ x \in FqHw /\ s \in Seq(FqMsg) /\ T \in Seq(FqMsg)
      /\ x.syncs \in SUBSET AbtsIds
      /\ w.hw \in [FcHwqps -> FqHw]
  <2>1. w \in FqType /\ w.crash = "no"
    BY DEF Sound, Core
  <2> QED BY <2>1, FqParts, FqFields DEF Sound, Taken, EndsStay
<1>2. y \in FqHw /\ y.msgs = T /\ y.syncs = x.syncs \cup {i} /\ y.on = x.on /\ y.pending = x.pending /\ y.conn = x.conn
      /\ y.left = x.left
  BY <1>1 DEF FqHw
<1>3. [WithMsgs(w, h, T) EXCEPT !.hw[h].syncs = @ \cup {i}] = v
  <2> DEFINE z == [x EXCEPT !.msgs = T]
             Z == [w.hw EXCEPT ![h] = z]
             u == [w EXCEPT !.hw = Z]
  <2>1. u = WithMsgs(w, h, T)
    BY DEF WithMsgs
  <2>2. z.syncs = x.syncs /\ y = [z EXCEPT !.syncs = x.syncs \cup {i}]
    BY <1>1 DEF FqHw
  <2> HIDE DEF z, y
  <2>3. Z[h] = z /\ [Z EXCEPT ![h] = y] = [w.hw EXCEPT ![h] = y]
    BY <1>1
  <2> HIDE DEF Z
  <2>4. u.hw = Z
    BY <1>1 DEF FqType
  <2>5. [u EXCEPT !.hw[h].syncs = @ \cup {i}] = [u EXCEPT !.hw = [w.hw EXCEPT ![h] = y]]
    BY <2>2, <2>3, <2>4
  <2> DEFINE Y == [w.hw EXCEPT ![h] = y]
  <2> HIDE DEF Y
  <2>6. [u EXCEPT !.hw = Y] = [w EXCEPT !.hw = Y]
    BY <1>1 DEF FqType
  <2> QED BY <2>1, <2>5, <2>6 DEF SetHwqp, Y
<1> HIDE DEF y
<1>4. HwqpSet(w, v, h, y)
  BY <1>1, <1>2, SetHwqpFacts
<1> HIDE DEF v
<1>5. /\ v \in FqType /\ v.req = w.req /\ v.hw[h] = y /\ (\A k \in FcHwqps \ {h} : v.hw[k] = w.hw[k])
      /\ v.abts = w.abts /\ v.main = w.main /\ v.air = w.air /\ v.markers = w.markers /\ v.dead = w.dead
      /\ v.left = w.left /\ v.crash = w.crash /\ v.wrong = w.wrong
  BY <1>4 DEF HwqpSet, Around
<1>6. Core(v)
  <2>1. ASSUME NEW k \in FcHwqps
        PROVE  v.hw[k].on = w.hw[k].on /\ v.hw[k].pending = w.hw[k].pending /\ EndsStay(w.hw[k].msgs, v.hw[k].msgs)
    <3>1. CASE k = h
      BY <1>2, <1>5, <3>1 DEF Taken
    <3>2. CASE k # h
      <4>1. w.hw[k].msgs \in Seq(FqMsg) /\ v.hw[k] = w.hw[k] BY <1>1, <1>5, <3>2, FqParts
      <4> QED BY <4>1, EndsStayFacts
    <3> QED BY <3>1, <3>2
  <2>2. SameCommands(w, v)
    BY <1>1, <1>5, <2>1 DEF SameCommands
  <2> QED BY <1>1, <2>2, SameCommandsCore
<1>7. HwqpStep(w, v, h)
  BY <1>1, <1>5 DEF HwqpStep, Background
<1>8. ConnAt(v, h)
  <2>1. SameDeletion(w, v, h)
    BY <1>2, <1>5 DEF SameDeletion, Taken
  <2> QED BY <1>1, <2>1, DeletionKept DEF Sound
<1>9. ASSUME NEW j \in AbtsIds PROVE AbtsMoves(w, v, j, h)
  <2> DEFINE o == w.abts[j].req
  <2>1. PlacesAt(w, j, h) /\ ToldAt(w, j)
    BY DEF Sound, AbtsAt
  <2>2. /\ \A k \in {"abts", "sync", "sync_done"} : Once(s, Note(k, j)) => Once(T, Note(k, j))
        /\ j # i /\ Ordered(s, j) => Ordered(T, j)
        /\ \A k \in {"abts", "sync_done"} : At(T, Note(k, j)) <=> At(s, Note(k, j))
        /\ j # i => (At(T, Note("sync", j)) <=> At(s, Note("sync", j)))
        /\ j = i => At(s, Note("sync", j)) /\ (Once(s, Note("sync", j)) => ~At(T, Note("sync", j)))
    BY DEF Taken
  <2>3. ToldAt(v, j)
    BY <1>5, <2>1 DEF ToldAt
  <2>4. \A k \in FcHwqps : ReportsKept(w, v, j, k)
    BY <1>5 DEF ReportsKept
  <2>5. /\ Asking(v, j, h) <=> Asking(w, j, h)
        /\ Waiting(v, j, h) <=> Waiting(w, j, h)
        /\ Answered(v, j, h) <=> Answered(w, j, h)
        /\ Marked(v, j, h) <=> Marked(w, j, h)
        /\ SyncPart(v, j, h) <=> SyncPart(w, j, h)
        /\ AbtsPart(v, j, h) <=> AbtsPart(w, j, h)
    BY <1>2, <1>5, <2>2 DEF Asking, Waiting, Answered, Marked, SyncPart, AbtsPart
  <2>6. PlacesAt(v, j, h)
    BY <1>2, <1>5, <2>1, <2>2, <2>5 DEF PlacesAt
  <2>7. Gone(w, o) => Gone(v, o)
    BY <1>5 DEF Gone
  <2> QED BY <1>2, <1>5, <2>3, <2>4, <2>5, <2>6, <2>7 DEF AbtsMoves
<1>10. \A j \in AbtsIds : AbtsAt(v, j)
  BY <1>1, <1>7, <1>9, AbtsMoved DEF Sound
<1>11. Sound(v)
  BY <1>6, <1>7, <1>8, <1>10, HwqpStepCalm, SoundIsCalm
<1> QED BY <1>3, <1>11

(* The driver has seen the marker: the hwqp was told, and says so. *)
LEMMA SyncDoneKeeps ==
    ASSUME NEW w, Sound(w), NEW h \in FcHwqps, NEW i \in AbtsIds, NEW T, Taken(w.hw[h].msgs, T, "sync_done", i)
    PROVE  Sound(SyncDone(WithMsgs(w, h, T), h, i))
<1> DEFINE s == w.hw[h].msgs
           x == w.hw[h]
           syncs == x.syncs \ {i}
           v == Reported(w, h, T, syncs, QueueSynced(i, h))
<1>1. w \in FqType /\ x \in FqHw /\ w.hw \in [FcHwqps -> FqHw] /\ s \in Seq(FqMsg) /\ syncs \in SUBSET AbtsIds
      /\ T \in Seq(FqMsg)
  <2>1. w \in FqType
    BY DEF Sound, Core
  <2> QED BY <2>1, FqParts, FqFields DEF Taken, EndsStay
<1>2. PlacesAt(w, i, h) /\ At(s, Note("sync_done", i)) /\ ~Ordered(s, i) /\ ~At(T, Note("sync_done", i))
  BY DEF Sound, AbtsAt, Taken, PlacesAt
<1>3. /\ i \in x.syncs /\ <<i, h>> \notin w.markers /\ ~At(w.main, QueueSynced(i, h)) /\ ~At(s, Note("sync", i))
      /\ SyncPart(w, i, h)
  BY <1>2 DEF PlacesAt, Marked, SyncPart
<1>4. SyncDone(WithMsgs(w, h, T), h, i) = v
  <2> DEFINE z == [x EXCEPT !.msgs = T]
             Z == [w.hw EXCEPT ![h] = z]
             u == [w EXCEPT !.hw = Z]
             y == [x EXCEPT !.msgs = T, !.syncs = syncs]
             Y == [w.hw EXCEPT ![h] = y]
             M == Append(w.main, QueueSynced(i, h))
  <2>1. u = WithMsgs(w, h, T)
    BY DEF WithMsgs
  <2>2. z.syncs = x.syncs /\ y = [z EXCEPT !.syncs = syncs]
    BY <1>1 DEF FqHw
  <2> HIDE DEF z, y
  <2>3. Z[h] = z /\ [Z EXCEPT ![h] = y] = Y
    BY <1>1
  <2> HIDE DEF Z
  <2>4. u.hw = Z /\ u.main = w.main
    BY <1>1 DEF FqType
  <2> HIDE DEF u
  <2>5. SyncDone(u, h, i) = TellMain([u EXCEPT !.hw[h].syncs = @ \ {i}], QueueSynced(i, h))
    BY <1>3, <2>2, <2>3, <2>4 DEF SyncDone, QueueSynced
  <2>6. [u EXCEPT !.hw[h].syncs = @ \ {i}] = [u EXCEPT !.hw = Y]
    BY <2>2, <2>3, <2>4
  <2> HIDE DEF Y
  <2>7. TellMain([u EXCEPT !.hw = Y], QueueSynced(i,
        h)) = [[u EXCEPT !.hw = Y] EXCEPT !.main = Append([u EXCEPT !.hw = Y].main, QueueSynced(i, h))]
    BY DEF TellMain
  <2>8. [u EXCEPT !.hw = Y] = [w EXCEPT !.hw = Y]
    BY <1>1 DEF FqType, u
  <2> DEFINE a == [w EXCEPT !.hw = Y]
  <2>9. a.main = w.main
    BY <1>1 DEF FqType
  <2>10. [a EXCEPT !.main = M] = [w EXCEPT !.hw = Y, !.main = M]
    <3> HIDE DEF M
    <3> QED BY <1>1 DEF FqType
  <2> HIDE DEF a
  <2>11. SyncDone(u, h, i) = [a EXCEPT !.main = M]
    BY <2>5, <2>6, <2>7, <2>8, <2>9 DEF a
  <2> QED BY <2>1, <2>10, <2>11 DEF Reported, Y, M, y
<1>5. HasReported(w, v, h, T, syncs, QueueSynced(i, h))
  BY <1>1, ReportsAreMessages, ReportedFacts
<1> HIDE DEF v
<1>6. Core(v) /\ HwqpStep(w, v, h) /\ ConnAt(v, h)
  BY <1>5, ReportedCore DEF Taken
<1>7. /\ v.req = w.req /\ v.hw[h].msgs = T /\ v.hw[h].syncs = syncs /\ v.hw[h].conn = x.conn
      /\ v.abts = w.abts /\ v.air = w.air /\ v.markers = w.markers
      /\ \A m : /\ At(v.main, m) <=> At(w.main, m) \/ m = QueueSynced(i, h)
                /\ Once(w.main, m) /\ (m = QueueSynced(i, h) => ~At(w.main, m)) => Once(v.main, m)
  BY <1>5 DEF HasReported, ReportJoins
<1>8. ASSUME NEW j \in AbtsIds PROVE AbtsMoves(w, v, j, h)
  <2> DEFINE o == w.abts[j].req
  <2>1. PlacesAt(w, j, h) /\ ToldAt(w, j)
    BY DEF Sound, AbtsAt
  <2>2. /\ \A k \in {"abts", "sync", "sync_done"} : Once(s, Note(k, j)) => Once(T, Note(k, j))
        /\ Ordered(s, j) => Ordered(T, j)
        /\ \A k \in {"abts", "sync"} : At(T, Note(k, j)) <=> At(s, Note(k, j))
        /\ j # i => (At(T, Note("sync_done", j)) <=> At(s, Note("sync_done", j)))
    BY DEF Taken
  <2>3. ToldAt(v, j)
    BY <1>7, <2>1 DEF ToldAt
  <2>4. ASSUME NEW k \in FcHwqps
        PROVE  /\ (At(v.main, Found(j, k)) <=> At(w.main, Found(j, k)))
               /\ (At(v.main, NotFound(j, k)) <=> At(w.main, NotFound(j, k)))
               /\ (At(v.main, QueueSynced(j, k)) <=> At(w.main, QueueSynced(j, k)) \/ (j = i /\ k = h))
               /\ (Once(w.main, Found(j, k)) => Once(v.main, Found(j, k)))
               /\ (Once(w.main, QueueSynced(j, k)) => Once(v.main, QueueSynced(j, k)))
               /\ (Once(w.main, NotFound(j, k)) => Once(v.main, NotFound(j, k)))
    <3>1. Found(j, k) # QueueSynced(i, h) /\ NotFound(j, k) # QueueSynced(i, h)
          /\ (QueueSynced(j, k) = QueueSynced(i, h) <=> j = i /\ k = h)
      BY ReportsDiffer
    <3> QED BY <1>3, <1>7, <3>1
  <2>5. \A k \in FcHwqps \ {h} : ReportsKept(w, v, j, k)
    BY <2>4 DEF ReportsKept
  <2>6. /\ Asking(v, j, h) <=> Asking(w, j, h)
        /\ Waiting(v, j, h) <=> Waiting(w, j, h)
        /\ Answered(v, j, h) <=> Answered(w, j, h)
        /\ AbtsPart(v, j, h) <=> AbtsPart(w, j, h)
        /\ Marked(v, j, h) <=> j # i /\ Marked(w, j, h)
    BY <1>2, <1>3, <1>7, <2>2, <2>4 DEF Asking, Waiting, Answered, AbtsPart, Marked
  <2>7. SyncPart(v, j, h) <=> SyncPart(w, j, h)
    BY <1>3, <2>4, <2>6 DEF SyncPart
  <2>8. PlacesAt(v, j, h)
    <3>1. j = i => ~At(T, Note("sync", j)) /\ j \notin syncs /\ <<j, h>> \notin v.markers /\ ~At(T, Note("sync_done", j))
      BY <1>2, <1>3, <1>7, <2>2
    <3>2. j = i => Ordered(T, j) BY <3>1 DEF Ordered, At
    <3>3. j # i => (At(v.main, QueueSynced(j, h)) <=> At(w.main, QueueSynced(j, h))) /\ (j \in syncs <=> j \in x.syncs)
      BY <2>4
    <3> HIDE DEF syncs
    <3> QED BY <1>7, <2>1, <2>2, <2>4, <2>6, <3>1, <3>2, <3>3 DEF PlacesAt
  <2>9. Gone(w, o) => Gone(v, o)
    BY <1>7 DEF Gone
  <2> QED BY <1>7, <2>3, <2>4, <2>5, <2>6, <2>7, <2>8, <2>9 DEF AbtsMoves
<1>9. \A j \in AbtsIds : AbtsAt(v, j)
  BY <1>1, <1>6, <1>8, AbtsMoved DEF Sound
<1>10. Sound(v)
  BY <1>6, <1>9, HwqpStepCalm, SoundIsCalm
<1> QED BY <1>4, <1>10

(* The deletion of a connection aborts a command. *)
LEMMA DeletionTurnCalm ==
    ASSUME NEW w, NEW h \in FcHwqps, Calm(w, h), NEW r \in FcSlots[h], w.req[r].st # "free", w.req[r].data # "aer",
           NEW v,
           v = FcTurn("deletion", w, r)
    PROVE  Calm(v, h) /\ Aborted(w, v, r, w.req[r].cbs, TRUE)
<1> DEFINE c == w.req[r].cbs
<1>1. w \in FqType /\ Core(w) /\ w.crash = "no" /\ r \in FcReqs /\ HwqpOf(r) = h /\ w.req[r] \in FqReq /\ c \in Seq(AbtsIds)
  <2>1. w \in FqType /\ Core(w) /\ w.crash = "no" /\ r \in FcReqs /\ HwqpOf(r) = h
    BY HomeOf DEF Calm, Core
  <2> QED BY <2>1, FqParts
<1>2. v = AbortTold(w, r, c, TRUE)
  <2>1. [w.req[r] EXCEPT !.del = TRUE] = [w.req[r] EXCEPT !.cbs = c, !.del = TRUE]
    BY <1>1 DEF FqReq
  <2>2. v = FcAbort([w EXCEPT !.req[r].del = TRUE], r)
    BY DeletionTurn
  <2> QED BY <2>1, <2>2 DEF AbortTold
<1>3. Core(v) /\ Aborted(w, v, r, c, TRUE)
  BY <1>1, <1>2, AbortCore
<1>4. /\ v \in FqType /\ Around(w, v)
      /\ (\A p \in FcReqs \ {r} : v.req[p] = w.req[p]) /\ (\A k \in FcHwqps \ {h} : v.hw[k] = w.hw[k])
      /\ v.req[r].cbs = c
      /\ v.hw[h].syncs = w.hw[h].syncs /\ v.hw[h].conn = w.hw[h].conn
      /\ Unnoticed(w.hw[h].msgs, v.hw[h].msgs)
  BY <1>1, <1>3 DEF Aborted
<1>5. HwqpStep(w, v, h)
  BY <1>1, <1>4 DEF HwqpStep, Background, Around
<1>6. SameAbts(w, v)
  <2>1. ASSUME NEW k \in FcHwqps
        PROVE  /\ v.hw[k].syncs = w.hw[k].syncs /\ NotesKept(w.hw[k].msgs, v.hw[k].msgs)
               /\ w.hw[k].conn = "deleted" => v.hw[k].conn = "deleted"
    <3>1. CASE k = h
      BY <1>4, <3>1 DEF Unnoticed
    <3>2. CASE k # h
      BY <1>4, <3>2, NotesStay
    <3> QED BY <3>1, <3>2
  <2>2. ASSUME NEW p \in FcReqs
        PROVE  v.req[p].cbs = w.req[p].cbs /\ (p \notin w.air => p \notin v.air) /\ (Gone(w, p) => Gone(v, p))
    <3>1. CASE p = r
      BY <1>4, <3>1 DEF Gone, Around
    <3>2. CASE p # r
      BY <1>4, <3>2 DEF Gone, Around
    <3> QED BY <3>1, <3>2
  <2> QED BY <1>4, <2>1, <2>2 DEF SameAbts, Around
<1>7. \A i \in AbtsIds : AbtsAt(v, i)
  BY <1>1, <1>6, AbtsKept DEF Calm
<1>8. Calm(v, h)
  BY <1>3, <1>5, <1>7, HwqpStepCalm
<1> QED BY <1>3, <1>8

(* It aborts all of them, and waits for them. *)
Deleting(w, v, h, S) ==
    /\ Calm(v, h) /\ v.hw[h].conn = w.hw[h].conn /\ v.hw[h].left = w.hw[h].left
    /\ At(v.hw[h].msgs, Del) <=> At(w.hw[h].msgs, Del)
    /\ \A p \in FcSlots[h] : /\ v.req[p].data = w.req[p].data
                             /\ v.req[p].st = "free" <=> w.req[p].st = "free"
                             /\ v.req[p].del <=> p \in S

(* The walk of a deletion aborts the commands of its set. *)
LEMMA DeletionWalkKeeps ==
    ASSUME NEW w, NEW h \in FcHwqps, Calm(w, h), DelSet(w, h) = {}, NEW S, S \subseteq FcSlots[h],
           \A p \in S : w.req[p].st # "free" /\ w.req[p].data # "aer"
    PROVE  Deleting(w, DeletionAborts(w, SetToSeq(S)), h, S)
<1> DEFINE s == SetToSeq(S)
           N == Len(s)
<1>1. IsFiniteSet(S) /\ S \subseteq FcReqs /\ FcSlots[h] \subseteq FcReqs
  BY HomeOf, FS_Subset
<1>2. s \in Seq(S) /\ IsInjective(s) /\ ToSet(s) = S
  BY <1>1, MessagesOf
<1> HIDE DEF s
<1>3. /\ N \in Nat /\ DOMAIN s = 1 .. N /\ \A n \in 1 .. N : s[n] \in S
      /\ \A n, m \in 1 .. N : s[n] = s[m] => n = m
      /\ \A p \in S : \E n \in 1 .. N : s[n] = p
  BY <1>2, LenProperties, ElementOfSeq DEF IsInjective, ToSet
<1>4. PICK f : Turns(f, "deletion", w, s) /\ DeletionAborts(w, s) = f[N]
  BY <1>3, DeletionTurns
<1> DEFINE Begun(n) == {s[j] : j \in 1 .. n}
           Good == {n \in 0 .. N : Deleting(w, f[n], h, Begun(n))}
<1>5. 0 \in Good
  <2>1. f[0] = w
    BY <1>4 DEF Turns
  <2>2. Begun(0) = {}
    OBVIOUS
  <2>3. \A p \in FcSlots[h] : ~w.req[p].del
    BY DEF DelSet
  <2>4. Deleting(w, w, h, {})
    BY <2>3 DEF Deleting
  <2> HIDE DEF Begun
  <2>5. Deleting(w, f[0], h, Begun(0))
    BY <2>1, <2>2, <2>4
  <2> QED BY <1>3, <2>5
<1>6. ASSUME NEW n \in 0 .. N, n + 1 \in 0 .. N, n \in Good PROVE n + 1 \in Good
  <2> DEFINE a == f[n]
             v == f[n + 1]
             r == s[n + 1]
             A == Begun(n)
             B == Begun(n + 1)
  <2>1. v = FcTurn("deletion", a, r)
    <3>1. n + 1 \in 1 .. N /\ n + 1 - 1 = n BY <1>6
    <3> QED BY <1>4, <3>1 DEF Turns
  <2>2. Deleting(w, a, h, A)
    BY <1>6
  <2>3. r \in S /\ r \in FcSlots[h] /\ r \in FcReqs /\ HwqpOf(r) = h
    BY <1>1, <1>3, <1>6, HomeOf
  <2>4. B = A \cup {r}
    <3>1. 1 .. n + 1 = (1 .. n) \cup {n + 1} BY <1>6
    <3> QED BY <3>1
  <2> HIDE DEF a, v, r, A, B
  <2>5. a.req[r].st # "free" /\ a.req[r].data # "aer"
    BY <2>2, <2>3 DEF Deleting
  <2>6. Calm(v, h) /\ Aborted(a, v, r, a.req[r].cbs, TRUE)
    BY <2>1, <2>2, <2>3, <2>5, DeletionTurnCalm DEF Deleting
  <2>7. /\ \A p \in FcReqs \ {r} : v.req[p] = a.req[p]
        /\ v.req[r].data = a.req[r].data /\ v.req[r].del = TRUE /\ v.req[r].st \in {a.req[r].st, "aborted"}
        /\ v.hw[h].conn = a.hw[h].conn /\ v.hw[h].left = a.hw[h].left
        /\ At(v.hw[h].msgs, Del) <=> At(a.hw[h].msgs, Del)
    BY <2>3, <2>6 DEF Aborted, Unnoticed
  <2>8. ASSUME NEW p \in FcSlots[h]
        PROVE  /\ v.req[p].data = w.req[p].data
               /\ v.req[p].st = "free" <=> w.req[p].st = "free"
               /\ v.req[p].del <=> p \in B
    <3>1. /\ a.req[p].data = w.req[p].data
          /\ a.req[p].st = "free" <=> w.req[p].st = "free"
          /\ a.req[p].del <=> p \in A
      BY <2>2 DEF Deleting
    <3>2. CASE p = r
      BY <2>4, <2>5, <2>7, <3>1, <3>2
    <3>3. CASE p # r
      <4>1. v.req[p] = a.req[p] BY <1>1, <2>7, <3>3
      <4> QED BY <2>4, <3>1, <3>3, <4>1
    <3> QED BY <3>2, <3>3
  <2>9. Deleting(w, v, h, B)
    BY <2>2, <2>6, <2>7, <2>8 DEF Deleting
  <2> QED BY <1>6, <2>9 DEF v, B
<1> HIDE DEF Good
<1>7. N \in Good
  <2>1. \A n \in 0 .. N : n + 1 \in 0 .. N /\ n \in Good => n + 1 \in Good
    BY <1>6
  <2>2. N \in Nat /\ N \in 0 .. N
    BY <1>3
  <2> HIDE DEF N
  <2> QED BY <1>5, <2>1, <2>2, CountedUp
<1>8. Deleting(w, f[N], h, Begun(N))
  BY <1>7 DEF Good
<1>9. Begun(N) = S
  BY <1>3
<1> QED BY <1>4, <1>8, <1>9 DEF s

(* nvmf_fc_poller_api_del_connection. *)
LEMMA DeletionKeeps ==
    ASSUME NEW w, Sound(w), NEW h \in FcHwqps, w.hw[h].msgs # <<>>, Head(w.hw[h].msgs) = Del
    PROVE  Sound(DeleteFcConn(WithMsgs(w, h, Tail(w.hw[h].msgs)), h))
<1> DEFINE s == w.hw[h].msgs
           T == Tail(s)
           u == WithMsgs(w, h, T)
<1>1. w \in FqType /\ Core(w) /\ w.crash = "no" /\ s \in Seq(FqMsg) /\ ConnAt(w, h) /\ Calm(w, h)
  <2>1. w \in FqType
    BY DEF Sound, Core
  <2> QED BY <2>1, FqParts, SoundIsCalm DEF Sound, Core
<1>2. /\ T \in Seq(FqMsg) /\ At(s, Del)
      /\ \A m : At(s, m) <=> At(T, m) \/ m = Del
      /\ \A m : Once(s, m) => Once(T, m)
      /\ Once(s, Del) => ~At(T, Del)
      /\ \A i : Ordered(s, i) /\ Del # Note("sync", i) => Ordered(T, i)
  BY <1>1, RestOfQueue
<1>3. EndsStay(s, T) /\ NotesKept(s, T)
  <2>1. Del # Quiet /\ (\A p \in FcReqs : Del # Ended(p)) /\ \A k, i : Note(k, i) # Del
    BY KindsDiffer
  <2> QED BY <1>2, <2>1 DEF EndsStay, NotesKept
<1> HIDE DEF T
<1>4. w.hw[h].conn = "deleting" /\ DelSet(w, h) = {} /\ w.hw[h].left = 0 /\ ~At(T, Del)
  <2>1. DelSet(w, h) = {} /\ w.hw[h].left = Cardinality(DelSet(w, h))
    BY <1>1, <1>2 DEF ConnAt
  <2>2. w.hw[h].left = 0
    BY <2>1, FS_EmptySet
  <2> QED BY <1>1, <1>2, <2>1, <2>2 DEF ConnAt
<1>5. MsgsSet(w, u, h, T)
  BY <1>1, <1>2, WithMsgsFacts
<1> HIDE DEF u
<1>6. /\ u \in FqType /\ u.req = w.req /\ (\A k \in FcHwqps \ {h} : u.hw[k] = w.hw[k])
      /\ u.hw[h].msgs = T /\ u.hw[h].on = w.hw[h].on /\ u.hw[h].pending = w.hw[h].pending
      /\ u.hw[h].syncs = w.hw[h].syncs /\ u.hw[h].conn = w.hw[h].conn /\ u.hw[h].left = w.hw[h].left
      /\ u.abts = w.abts /\ u.main = w.main /\ u.air = w.air /\ u.markers = w.markers /\ u.dead = w.dead
      /\ u.left = w.left /\ u.crash = w.crash /\ u.wrong = w.wrong
  BY <1>5 DEF MsgsSet, Around
<1>7. ASSUME NEW k \in FcHwqps
      PROVE  /\ u.hw[k].on = w.hw[k].on /\ u.hw[k].pending = w.hw[k].pending /\ u.hw[k].syncs = w.hw[k].syncs
             /\ u.hw[k].conn = w.hw[k].conn
             /\ EndsStay(w.hw[k].msgs, u.hw[k].msgs) /\ NotesKept(w.hw[k].msgs, u.hw[k].msgs)
  <2>1. CASE k = h
    BY <1>3, <1>6, <2>1
  <2>2. CASE k # h
    <3>1. w.hw[k].msgs \in Seq(FqMsg) /\ u.hw[k] = w.hw[k] BY <1>1, <1>6, <2>2, FqParts
    <3> QED BY <3>1, EndsStayFacts, NotesStay
  <2> QED BY <2>1, <2>2
<1>8. Calm(u, h)
  <2>1. SameCommands(w, u)
    BY <1>1, <1>6, <1>7 DEF SameCommands
  <2>2. Core(u)
    BY <1>1, <2>1, SameCommandsCore
  <2>3. SameAbts(w, u)
    BY <1>6, <1>7 DEF SameAbts, Gone
  <2>4. \A i \in AbtsIds : AbtsAt(u, i)
    BY <1>1, <2>3, AbtsKept DEF Sound
  <2>5. HwqpStep(w, u, h)
    BY <1>1, <1>6 DEF HwqpStep, Background
  <2> QED BY <1>1, <2>2, <2>4, <2>5, HwqpStepCalm
<1>9. DelSet(u, h) = {}
  BY <1>4, <1>6 DEF DelSet
<1> DEFINE S == {r \in FcInUse(u, h) : u.req[r].data # "aer"}
<1>10. /\ S \subseteq FcSlots[h] /\ (\A p \in S : u.req[p].st # "free" /\ u.req[p].data # "aer")
       /\ \A p \in FcSlots[h] : p \notin S => u.req[p].st = "free" \/ u.req[p].data = "aer"
  BY DEF FcInUse
<1>11. DeleteFcConn(u, h) = IF S = {} THEN LeaveHwqp([u EXCEPT !.hw[h].left = 0], h)
                            ELSE DeletionAborts([u EXCEPT !.hw[h].left = Cardinality(S)], SetToSeq(S))
  BY DEF DeleteFcConn
<1> HIDE DEF S
<1>12. IsFiniteSet(S) /\ Cardinality(S) \in Nat
  BY <1>10, HomeOf, FS_Subset, FS_CardinalityType
<1> DEFINE x == u.hw[h]
           y(n) == [x EXCEPT !.left = n]
<1>13. x \in FqHw
  BY <1>6, FqParts
<1>14. \A n \in Nat : /\ y(n) \in FqHw /\ y(n).left = n /\ y(n).conn = x.conn /\ y(n).msgs = x.msgs /\ y(n).on = x.on
                      /\ y(n).syncs = x.syncs /\ y(n).pending = x.pending
  BY <1>13 DEF FqHw
<1>15. CASE S = {}
  <2>1. u.hw \in [FcHwqps -> FqHw]
    BY <1>6, FqFields
  <2>2. y(0) = x
    BY <1>4, <1>6, <1>13 DEF FqHw
  <2>3. [u EXCEPT !.hw[h].left = 0] = u
    <3>1. [u.hw EXCEPT ![h] = y(0)] = u.hw BY <2>1, <2>2
    <3> QED BY <1>6, <3>1 DEF FqType
  <2>4. Sound(LeaveHwqp(u, h))
    BY <1>4, <1>6, <1>8, <1>9, <1>10, <1>15, LeaveSound
  <2> QED BY <1>11, <1>15, <2>3, <2>4 DEF u, T
<1>16. CASE S # {}
  <2> DEFINE n == Cardinality(S)
             Y == y(n)
             a == SetHwqp(u, h, Y)
             v == DeletionAborts(a, SetToSeq(S))
  <2>1. a = [u EXCEPT !.hw[h].left = n]
    BY DEF SetHwqp
  <2>2. Y \in FqHw /\ Y.left = n /\ Y.conn = x.conn /\ Y.msgs = x.msgs /\ Y.on = x.on /\ Y.syncs = x.syncs
        /\ Y.pending = x.pending
    BY <1>12, <1>14
  <2> HIDE DEF Y, a
  <2>3. HwqpSet(u, a, h, Y)
    BY <1>6, <2>2, SetHwqpFacts DEF a
  <2>4. Calm(a, h)
    BY <1>8, <2>2, SetConnCalm DEF a, SameButConn
  <2>5. a.req = u.req /\ a.hw[h] = Y
    BY <2>3 DEF HwqpSet
  <2>6. DelSet(a, h) = {}
    BY <1>9, <2>5 DEF DelSet
  <2>7. Deleting(a, v, h, S)
    BY <1>10, <2>4, <2>5, <2>6, DeletionWalkKeeps
  <2> HIDE DEF v
  <2>8. /\ Calm(v, h) /\ v.hw[h].conn = "deleting" /\ v.hw[h].left = n /\ ~At(v.hw[h].msgs, Del)
        /\ \A p \in FcSlots[h] : /\ v.req[p].data = u.req[p].data
                                 /\ v.req[p].st = "free" <=> u.req[p].st = "free"
                                 /\ v.req[p].del <=> p \in S
    BY <1>4, <1>6, <2>2, <2>5, <2>7 DEF Deleting
  <2>9. DelSet(v, h) = S
    BY <1>10, <2>8 DEF DelSet
  <2>10. ConnAt(v, h)
    BY <1>10, <1>16, <2>8, <2>9 DEF ConnAt
  <2>11. Sound(v)
    BY <2>8, <2>10, SoundIsCalm
  <2>12. DeleteFcConn(u, h) = v
    BY <1>11, <1>16, <2>1 DEF v
  <2> QED BY <2>11, <2>12 DEF u, T
<1> QED BY <1>15, <1>16

(* nvmf_fc_poller_api_quiesce_queue: the HBA will not end the aborts that
   it has, so the hwqp ends them; those that wait for their end already
   have a message. *)
LEMMA QuiesceQueueKeeps ==
    ASSUME NEW w, Sound(w), NEW h \in FcHwqps, w.hw[h].msgs # <<>>, Head(w.hw[h].msgs) = Quiet
    PROVE  Sound(QuiesceQueue(WithMsgs(w, h, Tail(w.hw[h].msgs)), h))
<1> DEFINE s == w.hw[h].msgs
           x == w.hw[h]
           T == Tail(s)
           S == {r \in FcInUse(w, h) : w.req[r].st \in InXfer /\ w.req[r].aborted}
           V == T \o Messages("aborted", SetToSeq(S))
           v == WithMsgs(w, h, V)
<1>1. w \in FqType /\ Core(w) /\ w.crash = "no" /\ x \in FqHw /\ s \in Seq(FqMsg) /\ EndAt(w, h) /\ ConnAt(w, h)
      /\ Calm(w, h)
      /\ w.hw \in [FcHwqps -> FqHw] /\ w.left.xchgs \in Nat
  <2>1. w \in FqType
    BY DEF Sound, Core
  <2>2. w.left.xchgs \in Nat
    BY <2>1, FqFields DEF FqLeft
  <2> QED BY <2>1, <2>2, FqParts, FqFields, SoundIsCalm DEF Sound, Core
<1>2. /\ T \in Seq(FqMsg) /\ At(s, Quiet)
      /\ \A m : At(s, m) <=> At(T, m) \/ m = Quiet
      /\ \A m : Once(s, m) => Once(T, m)
      /\ Once(s, Quiet) => ~At(T, Quiet)
      /\ \A i : Ordered(s, i) /\ Quiet # Note("sync", i) => Ordered(T, i)
  BY <1>1, RestOfQueue
<1>3. Quiet # Del /\ (\A p \in FcReqs : Quiet # Ended(p)) /\ \A k, i : Note(k, i) # Quiet
  BY KindsDiffer
<1>4. ~x.on /\ ~At(T, Quiet)
  BY <1>1, <1>2 DEF EndAt
<1>5. NotesKept(s, T) /\ (At(T, Del) <=> At(s, Del)) /\ (Once(s, Del) => Once(T, Del))
  BY <1>2, <1>3 DEF NotesKept
<1>6. /\ S \subseteq FcSlots[h] /\ S \subseteq FcReqs /\ IsFiniteSet(S)
      /\ \A p \in S : w.req[p].st \in InXfer /\ w.req[p].aborted
  <2>1. S \subseteq FcSlots[h] /\ \A p \in S : w.req[p].st \in InXfer /\ w.req[p].aborted
    BY DEF FcInUse
  <2> HIDE DEF S
  <2> QED BY <2>1, HomeOf, FS_Subset
<1>7. QuiesceQueue(WithMsgs(w, h, T), h) = v
  <2> DEFINE z == [x EXCEPT !.msgs = T]
             Z == [w.hw EXCEPT ![h] = z]
             u == [w EXCEPT !.hw = Z]
             y == [x EXCEPT !.msgs = V]
             Y == [w.hw EXCEPT ![h] = y]
  <2> HIDE DEF S, T
  <2>1. u = WithMsgs(w, h, T)
    BY DEF WithMsgs
  <2>2. z.msgs = T /\ y = [z EXCEPT !.msgs = V]
    <3> HIDE DEF V
    <3> QED BY <1>1 DEF FqHw
  <2> HIDE DEF z, y
  <2>3. Z[h] = z /\ [Z EXCEPT ![h] = y] = Y
    BY <1>1
  <2> HIDE DEF Z
  <2>4. u.hw = Z /\ u.req = w.req
    BY <1>1 DEF FqType
  <2> HIDE DEF u
  <2>5. {r \in FcInUse(u, h) : u.req[r].st \in InXfer /\ u.req[r].aborted} = S
    BY <2>4 DEF FcInUse, S
  <2>6. QuiesceQueue(u, h) = [u EXCEPT !.hw[h].msgs = @ \o Messages("aborted", SetToSeq(S))]
    BY <2>5 DEF QuiesceQueue
  <2>7. [u EXCEPT !.hw[h].msgs = @ \o Messages("aborted", SetToSeq(S))] = [u EXCEPT !.hw = Y]
    BY <2>2, <2>3, <2>4
  <2> HIDE DEF Y
  <2>8. [u EXCEPT !.hw = Y] = [w EXCEPT !.hw = Y]
    BY <1>1 DEF FqType, u
  <2> QED BY <2>1, <2>6, <2>7, <2>8 DEF WithMsgs, Y, y
<1> HIDE DEF S, T
<1>8. EndsJoined(T, V, S)
  BY <1>2, <1>6, JoinedEnds
<1> HIDE DEF V
<1>9. /\ V \in Seq(FqMsg) /\ ~At(V, Quiet) /\ Once(V, Quiet)
      /\ NotesKept(s, V) /\ (At(V, Del) <=> At(s, Del)) /\ (Once(s, Del) => Once(V, Del))
      /\ \A p \in FcReqs : /\ At(V, Ended(p)) <=> At(s, Ended(p)) \/ p \in S
                           /\ Once(s, Ended(p)) /\ ~(p \in S /\ At(s, Ended(p))) => Once(V, Ended(p))
  <2>1. /\ V \in Seq(FqMsg) /\ (At(V, Quiet) <=> At(T, Quiet)) /\ (Once(T, Quiet) => Once(V, Quiet))
        /\ NotesKept(T, V) /\ (At(V, Del) <=> At(T, Del)) /\ (Once(T, Del) => Once(V, Del))
        /\ \A p \in FcReqs : /\ At(V, Ended(p)) <=> At(T, Ended(p)) \/ p \in S
                             /\ Once(T, Ended(p)) /\ ~(p \in S /\ At(T, Ended(p))) => Once(V, Ended(p))
    BY <1>8 DEF EndsJoined, Unnoticed
  <2>2. Once(T, Quiet)
    BY <1>4 DEF At, Once
  <2>3. NotesKept(s, V)
    BY <1>5, <2>1 DEF NotesKept
  <2> QED BY <1>2, <1>3, <1>4, <1>5, <2>1, <2>2, <2>3
<1>10. MsgsSet(w, v, h, V)
  BY <1>1, <1>9, WithMsgsFacts
<1> HIDE DEF v
<1>11. /\ v \in FqType /\ v.req = w.req /\ (\A k \in FcHwqps \ {h} : v.hw[k] = w.hw[k])
       /\ v.hw[h].msgs = V /\ v.hw[h].on = x.on /\ v.hw[h].pending = x.pending
       /\ v.hw[h].syncs = x.syncs /\ v.hw[h].conn = x.conn /\ v.hw[h].left = x.left
       /\ v.abts = w.abts /\ v.main = w.main /\ v.air = w.air /\ v.markers = w.markers /\ v.dead = w.dead
       /\ v.left = w.left /\ v.crash = w.crash /\ v.wrong = w.wrong
  BY <1>10 DEF MsgsSet, Around
<1>12. HwqpStep(w, v, h)
  BY <1>1, <1>11 DEF HwqpStep, Background
<1>13. EndAt(v, h)
  <2>1. ASSUME NEW p \in FcReqs
        PROVE  /\ p \in FcSlots[h] /\ v.req[p].st = "aborted" => At(V, Ended(p))
               /\ At(V, Ended(p)) =>
                     /\ p \in FcSlots[h]
                     /\ \/ v.req[p].st = "aborted"
                        \/ /\ ~v.hw[h].on /\ ~At(V, Quiet)
                           /\ \/ v.req[p].st \in InXfer /\ v.req[p].aborted
                              \/ v.dead /\ v.req[p].st = "free"
               /\ v.hw[h].on \/ At(V, Quiet) \/ ~v.dead => Once(V, Ended(p))
    <3>1. /\ p \in FcSlots[h] /\ w.req[p].st = "aborted" => At(s, Ended(p))
          /\ At(s, Ended(p)) => p \in FcSlots[h] /\ w.req[p].st = "aborted"
          /\ Once(s, Ended(p))
      BY <1>1, <1>2 DEF EndAt
    <3>2. p \in S => ~At(s, Ended(p)) /\ p \in FcSlots[h] /\ w.req[p].st \in InXfer /\ w.req[p].aborted
      BY <1>6, <3>1 DEF InXfer
    <3> QED BY <1>4, <1>9, <1>11, <3>1, <3>2
  <2> QED BY <1>9, <1>11, <2>1 DEF EndAt
<1>14. Core(v)
  <2>1. PendingAt(w, h) /\ CapAt(w, h)
    BY <1>1 DEF Core
  <2>2. PendingAt(v, h)
    BY <1>11, <2>1, PendingSame
  <2>3. CapAt(v, h)
    BY <1>1, <1>11, <2>1, CapShrinks
  <2>4. ASSUME NEW p \in FcReqs PROVE ReqAt(v, p) /\ ReqAt(w, p)
    <3>1. ReqAt(w, p) BY <1>1 DEF Core
    <3> QED BY <1>11, <3>1 DEF ReqAt
  <2>5. \A k \in FcHwqps \ {h} : PendingAt(w, k) /\ CapAt(w, k) /\ EndAt(w, k)
    BY <1>1 DEF Core
  <2>6. \A p \in FcSlots[h] : ReqAt(v, p)
    BY <2>4, HomeOf
  <2> QED BY <1>1, <1>12, <1>13, <2>2, <2>3, <2>4, <2>5, <2>6, HwqpStepCore
<1>15. ConnAt(v, h)
  <2>1. SameDeletion(w, v, h)
    BY <1>9, <1>11 DEF SameDeletion
  <2> QED BY <1>1, <2>1, DeletionKept
<1>16. SameAbts(w, v)
  <2>1. ASSUME NEW k \in FcHwqps
        PROVE  /\ v.hw[k].syncs = w.hw[k].syncs /\ NotesKept(w.hw[k].msgs, v.hw[k].msgs)
               /\ w.hw[k].conn = "deleted" => v.hw[k].conn = "deleted"
    <3>1. CASE k = h
      BY <1>9, <1>11, <3>1
    <3>2. CASE k # h
      BY <1>11, <3>2, NotesStay
    <3> QED BY <3>1, <3>2
  <2> QED BY <1>11, <2>1 DEF SameAbts, Gone
<1>17. \A i \in AbtsIds : AbtsAt(v, i)
  BY <1>1, <1>16, AbtsKept DEF Sound
<1>18. Sound(v)
  BY <1>1, <1>12, <1>14, <1>15, <1>17, HwqpStepCalm, SoundIsCalm
<1> QED BY <1>7, <1>18 DEF T

(* The messages of a hwqp. *)
LEMMA MessageKinds ==
    ASSUME NEW m \in FqMsg
    PROVE  /\ m.k = "aborted" => m.r \in FcReqs /\ m = Ended(m.r)
           /\ m.k = "bdev_abort" => m.r \in FcReqs /\ m = BdevAbort(m.r)
           /\ m.k = "abts" => m.i \in AbtsIds /\ m = Note("abts", m.i)
           /\ m.k = "sync" => m.i \in AbtsIds /\ m = Note("sync", m.i)
           /\ m.k = "sync_done" => m.i \in AbtsIds /\ m = Note("sync_done", m.i)
           /\ m.k = "del" => m = Del
           /\ m.k = "quiesce" => m = Quiet
  BY DEF FqMsg, Ended, BdevAbort, Note, Del, Quiet

(* nvmf_fc_poller_api: each message to a hwqp keeps the invariant. *)
LEMMA HwqpMessageKeeps ==
    ASSUME Sound(fcr), NEW h \in FcHwqps, HwqpMessage(h)
    PROVE  FqInv(fcr')
<1> DEFINE w == fcr
           s == w.hw[h].msgs
           T == Tail(s)
           m == Head(s)
           u == WithMsgs(w, h, T)
<1>1. w \in FqType /\ s \in Seq(FqMsg) /\ s # <<>> /\ m \in FqMsg /\ w.hw \in [FcHwqps -> FqHw]
  <2>1. w \in FqType
    BY DEF Sound, Core
  <2>2. s \in Seq(FqMsg) /\ s # <<>> /\ w.hw \in [FcHwqps -> FqHw]
    BY <2>1, FqParts, FqFields DEF HwqpMessage
  <2> QED BY <2>1, <2>2, RestOfQueue
<1>2. [fcr EXCEPT !.hw[h].msgs = Tail(@)] = u
  BY <1>1 DEF WithMsgs
<1> HIDE DEF u
<1>3. \/ m.k = "abts"       /\ fcr' = AbtsReceived(u, h, m.i)
      \/ m.k = "sync"       /\ fcr' = [u EXCEPT !.hw[h].syncs = @ \cup {m.i}]
      \/ m.k = "sync_done"  /\ fcr' = SyncDone(u, h, m.i)
      \/ m.k = "aborted"    /\ fcr' = FcAbortComplete(u, m.r)
      \/ m.k = "bdev_abort" /\ fcr' = FcBdevAbort(u, m.r)
      \/ m.k = "del"        /\ fcr' = DeleteFcConn(u, h)
      \/ m.k = "quiesce"    /\ fcr' = QuiesceQueue(u, h)
  BY <1>2 DEF HwqpMessage
<1>4. CASE m.k = "abts" /\ fcr' = AbtsReceived(u, h, m.i)
  <2>1. m.i \in AbtsIds /\ m = Note("abts", m.i)
    BY <1>1, <1>4, MessageKinds
  <2>2. Taken(s, T, "abts", m.i)
    BY <1>1, <2>1, NoteTaken
  <2> HIDE DEF m, T
  <2> QED BY <1>4, <2>1, <2>2, AbtsReceivedKeeps DEF FqInv, u
<1>5. CASE m.k = "sync" /\ fcr' = [u EXCEPT !.hw[h].syncs = @ \cup {m.i}]
  <2>1. m.i \in AbtsIds /\ m = Note("sync", m.i)
    BY <1>1, <1>5, MessageKinds
  <2>2. Taken(s, T, "sync", m.i)
    BY <1>1, <2>1, NoteTaken
  <2> HIDE DEF m, T
  <2>3. Sound([WithMsgs(w, h, T) EXCEPT !.hw[h].syncs = @ \cup {m.i}])
    BY <2>1, <2>2, SyncKeeps
  <2> QED BY <1>5, <2>3 DEF FqInv, u
<1>6. CASE m.k = "sync_done" /\ fcr' = SyncDone(u, h, m.i)
  <2>1. m.i \in AbtsIds /\ m = Note("sync_done", m.i)
    BY <1>1, <1>6, MessageKinds
  <2>2. Taken(s, T, "sync_done", m.i)
    BY <1>1, <2>1, NoteTaken
  <2> HIDE DEF m, T
  <2> QED BY <1>6, <2>1, <2>2, SyncDoneKeeps DEF FqInv, u
<1>7. CASE m.k = "aborted" /\ fcr' = FcAbortComplete(u, m.r)
  <2>1. m.r \in FcReqs /\ m = Ended(m.r)
    BY <1>1, <1>7, MessageKinds
  <2>2. FqInv(FcAbortComplete(WithMsgs(w, h, T), m.r))
    BY <1>1, <2>1, AbortedMessageKeeps
  <2> QED BY <1>7, <2>2 DEF u
<1>8. CASE m.k = "bdev_abort" /\ fcr' = FcBdevAbort(u, m.r)
  <2>1. m.r \in FcReqs /\ m = BdevAbort(m.r)
    BY <1>1, <1>8, MessageKinds
  <2>2. /\ \A k, i : Note(k, i) # m
        /\ m # Quiet /\ m # Del /\ \A p \in FcReqs : m # Ended(p)
    BY <2>1, BdevAbortIsMessage
  <2>3. EndsStay(s, T) /\ Unnoticed(s, T)
    BY <1>1, <2>2, EndsStayFacts, TailUnnoticed
  <2>4. Sound(WithMsgs(w, h, T))
    <3> HIDE DEF T
    <3> QED BY <2>3, QuietMsgsSound
  <2> HIDE DEF m
  <2> QED BY <1>8, <2>1, <2>4, BdevAbortKeeps DEF FqInv, u
<1>9. CASE m.k = "del" /\ fcr' = DeleteFcConn(u, h)
  <2>1. m = Del
    BY <1>1, <1>9, MessageKinds
  <2>2. Sound(DeleteFcConn(WithMsgs(w, h, Tail(w.hw[h].msgs)), h))
    BY <1>1, <2>1, DeletionKeeps
  <2> QED BY <1>9, <2>2 DEF FqInv, u
<1>10. CASE m.k = "quiesce" /\ fcr' = QuiesceQueue(u, h)
  <2>1. m = Quiet
    BY <1>1, <1>10, MessageKinds
  <2>2. Sound(QuiesceQueue(WithMsgs(w, h, Tail(w.hw[h].msgs)), h))
    BY <1>1, <2>1, QuiesceQueueKeeps
  <2> QED BY <1>10, <2>2 DEF FqInv, u
<1> QED BY <1>3, <1>4, <1>5, <1>6, <1>7, <1>8, <1>9, <1>10

---------------------------------------------------------------------------
(* The main thread *)

(* The deletion of a connection begins. *)
LEMMA FcDeleteKeeps ==
    ASSUME Sound(fcr), NEW h \in FcHwqps, FcDelete(h)
    PROVE  Sound(fcr')
<1> DEFINE w == fcr
           x == w.hw[h]
           s == x.msgs
           V == Append(s, Del)
           y == [x EXCEPT !.conn = "deleting", !.msgs = V]
           b == FcSpend(w, "dels")
           v == SetHwqp(b, h, y)
<1>1. w \in FqType /\ Core(w) /\ w.crash = "no" /\ x \in FqHw /\ s \in Seq(FqMsg) /\ ConnAt(w, h) /\ Calm(w, h)
      /\ w.hw \in [FcHwqps -> FqHw]
  <2>1. w \in FqType
    BY DEF Sound, Core
  <2> QED BY <2>1, FqParts, FqFields, SoundIsCalm DEF Sound, Core
<1>2. x.conn = "created" /\ w.left["dels"] > 0
  BY DEF FcDelete
<1>3. /\ b \in FqType /\ b.req = w.req /\ b.hw = w.hw /\ b.abts = w.abts /\ b.main = w.main /\ b.air = w.air
      /\ b.markers = w.markers /\ b.dead = w.dead /\ b.crash = w.crash /\ b.wrong = w.wrong
      /\ b.left.sync = w.left.sync /\ b.left.xchgs = w.left.xchgs
  BY <1>1, <1>2, SpendFacts
<1> HIDE DEF b
<1>4. Del \in FqMsg /\ Del # Quiet /\ (\A p \in FcReqs : Del # Ended(p)) /\ \A k, i : Note(k, i) # Del
  BY KindsDiffer DEF Del, FqMsg
<1>5. /\ V \in Seq(FqMsg) /\ \A m : At(V, m) <=> At(s, m) \/ m = Del
      /\ \A m : Once(s, m) /\ (m = Del => ~At(s, m)) => Once(V, m)
      /\ \A i : Ordered(s, i) /\ (Del = Note("sync_done", i) => At(s, Note("sync", i))) => Ordered(V, i)
  BY <1>1, <1>4, AppendedQueue
<1>6. EndsStay(s, V)
  BY <1>1, <1>4, EndsStayFacts
<1>7. NotesKept(s, V)
  BY <1>4, <1>5 DEF NotesKept
<1> HIDE DEF V
<1>8. y \in FqHw /\ y.conn = "deleting" /\ y.msgs = V /\ y.on = x.on /\ y.syncs = x.syncs /\ y.pending = x.pending
      /\ y.left = x.left
  BY <1>1, <1>5 DEF FqHw
<1>9. fcr' = v
  <2> DEFINE z == [x EXCEPT !.conn = "deleting"]
             Z == [w.hw EXCEPT ![h] = z]
             a == [b EXCEPT !.hw = Z]
             Y == [w.hw EXCEPT ![h] = y]
  <2>1. z.msgs = s /\ y = [z EXCEPT !.msgs = V]
    BY <1>1 DEF FqHw
  <2>2. a = [b EXCEPT !.hw[h].conn = "deleting"]
    BY <1>3
  <2> HIDE DEF z, y
  <2>3. Z[h] = z /\ [Z EXCEPT ![h] = y] = Y
    BY <1>1
  <2> HIDE DEF Z
  <2>4. a.hw = Z
    BY <1>3 DEF FqType
  <2> HIDE DEF a
  <2>5. fcr' = [a EXCEPT !.hw[h].msgs = Append(@, Del)]
    BY <2>2 DEF FcDelete, ToHwqp, Del, b
  <2>6. [a EXCEPT !.hw[h].msgs = Append(@, Del)] = [a EXCEPT !.hw = Y]
    BY <2>1, <2>3, <2>4 DEF V
  <2> HIDE DEF Y
  <2>7. [a EXCEPT !.hw = Y] = [b EXCEPT !.hw = Y]
    BY <1>3 DEF FqType, a
  <2> QED BY <1>3, <2>5, <2>6, <2>7 DEF SetHwqp, Y
<1> HIDE DEF y
<1>10. HwqpSet(b, v, h, y)
  BY <1>3, <1>8, SetHwqpFacts
<1> HIDE DEF v
<1>11. /\ v \in FqType /\ v.req = w.req /\ v.hw[h] = y /\ (\A k \in FcHwqps \ {h} : v.hw[k] = w.hw[k])
       /\ v.abts = w.abts /\ v.main = w.main /\ v.air = w.air /\ v.markers = w.markers /\ v.dead = w.dead
       /\ v.left.sync = w.left.sync /\ v.left.xchgs = w.left.xchgs /\ v.crash = w.crash /\ v.wrong = w.wrong
  BY <1>3, <1>10 DEF HwqpSet, Around
<1>12. ASSUME NEW k \in FcHwqps
       PROVE  /\ v.hw[k].on = w.hw[k].on /\ v.hw[k].pending = w.hw[k].pending /\ EndsStay(w.hw[k].msgs, v.hw[k].msgs)
              /\ v.hw[k].syncs = w.hw[k].syncs /\ NotesKept(w.hw[k].msgs, v.hw[k].msgs)
              /\ w.hw[k].conn = "deleted" => v.hw[k].conn = "deleted"
  <2>1. CASE k = h
    BY <1>2, <1>6, <1>7, <1>8, <1>11, <2>1
  <2>2. CASE k # h
    <3>1. w.hw[k].msgs \in Seq(FqMsg) /\ v.hw[k] = w.hw[k] BY <1>1, <1>11, <2>2, FqParts
    <3> QED BY <3>1, EndsStayFacts, NotesStay
  <2> QED BY <2>1, <2>2
<1>13. Core(v)
  <2>1. SameCommands(w, v)
    BY <1>1, <1>11, <1>12 DEF SameCommands
  <2> QED BY <1>1, <2>1, SameCommandsCore
<1>14. HwqpStep(w, v, h)
  BY <1>1, <1>11 DEF HwqpStep, Background
<1>15. ConnAt(v, h)
  <2>1. ~At(s, Del) /\ DelSet(w, h) = {} /\ x.left = Cardinality(DelSet(w, h))
    BY <1>1, <1>2 DEF ConnAt
  <2>2. DelSet(v, h) = DelSet(w, h)
    BY <1>11 DEF DelSet
  <2>3. Once(V, Del) /\ At(V, Del)
    <3>1. Once(s, Del) BY <2>1 DEF At, Once
    <3> QED BY <1>5, <2>1, <3>1
  <2> QED BY <1>8, <1>11, <2>1, <2>2, <2>3 DEF ConnAt
<1>16. SameAbts(w, v)
  BY <1>11, <1>12 DEF SameAbts, Gone
<1>17. \A i \in AbtsIds : AbtsAt(v, i)
  BY <1>1, <1>16, AbtsKept DEF Calm
<1>18. Sound(v)
  BY <1>1, <1>13, <1>14, <1>15, <1>17, HwqpStepCalm, SoundIsCalm
<1> QED BY <1>9, <1>18

(* The port dies. *)
LEMMA FcDiesKeeps ==
    ASSUME Sound(fcr), FcDies
    PROVE  Sound(fcr')
<1> DEFINE w == fcr
           v == [w EXCEPT !.dead = TRUE]
<1>1. w \in FqType /\ Core(w) /\ w.left.xchgs \in Nat
  <2>1. w \in FqType /\ Core(w)
    BY DEF Sound, Core
  <2> QED BY <2>1, FqFields DEF FqLeft
<1>2. fcr' = v /\ ~w.dead
  BY DEF FcDies
<1>3. /\ v \in FqType /\ v.req = w.req /\ v.hw = w.hw /\ v.abts = w.abts /\ v.main = w.main /\ v.air = w.air
      /\ v.markers = w.markers /\ v.left = w.left /\ v.crash = w.crash /\ v.wrong = w.wrong /\ v.dead = TRUE
  BY <1>1 DEF FqType
<1> HIDE DEF v
<1>4. ASSUME NEW r \in FcReqs PROVE ReqAt(v, r)
  <2>1. ReqAt(w, r)
    BY <1>1 DEF Core
  <2> QED BY <1>3, <2>1 DEF ReqAt
<1>5. ASSUME NEW h \in FcHwqps PROVE PendingAt(v, h) /\ CapAt(v, h) /\ EndAt(v, h) /\ ConnAt(v, h)
  <2>1. PendingAt(w, h) /\ CapAt(w, h) /\ EndAt(w, h) /\ ConnAt(w, h)
    BY DEF Sound, Core
  <2>2. PendingAt(v, h)
    BY <1>3, <2>1, PendingSame
  <2>3. CapAt(v, h)
    BY <1>1, <1>3, <2>1, CapShrinks
  <2>4. EndAt(v, h)
    BY <1>2, <1>3, <2>1 DEF EndAt
  <2>5. ConnAt(v, h)
    <3>1. DelSet(v, h) = DelSet(w, h) BY <1>3 DEF DelSet
    <3> QED BY <1>3, <2>1, <3>1 DEF ConnAt
  <2> QED BY <2>2, <2>3, <2>4, <2>5
<1>6. SameAbts(w, v)
  BY <1>3, NotesStay DEF SameAbts, Gone
<1>7. \A i \in AbtsIds : AbtsAt(v, i)
  BY <1>1, <1>6, AbtsKept DEF Sound
<1>8. Core(v) /\ TruthOf(v)
  BY <1>1, <1>3, <1>4, <1>5 DEF Sound, Core, TruthOf
<1> QED BY <1>2, <1>5, <1>7, <1>8 DEF Sound

(* A reset quiesces the hwqps. *)
LEMMA FcQuiesceKeeps ==
    ASSUME Sound(fcr), FcQuiesce
    PROVE  Sound(fcr')
<1> DEFINE w == fcr
           y(h) == [w.hw[h] EXCEPT !.on = FALSE, !.msgs = Append(w.hw[h].msgs, Quiet)]
           H == [h \in FcHwqps |-> y(h)]
           v == [w EXCEPT !.hw = H]
<1>1. w \in FqType /\ Core(w) /\ w.left.xchgs \in Nat /\ w.crash = "no"
  <2>1. w \in FqType /\ Core(w) /\ w.crash = "no"
    BY DEF Sound, Core
  <2> QED BY <2>1, FqFields DEF FqLeft
<1>2. fcr' = v /\ \A h \in FcHwqps : w.hw[h].on
  <2>1. fcr' = [w EXCEPT !.hw = [h \in FcHwqps |-> [w.hw[h] EXCEPT !.on = FALSE, !.msgs = Append(@, Quiet)]]]
    BY DEF FcQuiesce, Quiet
  <2>2. \A h \in FcHwqps : [w.hw[h] EXCEPT !.on = FALSE, !.msgs = Append(@, Quiet)] = y(h)
    OBVIOUS
  <2>3. \A h \in FcHwqps : w.hw[h].on
    BY DEF FcQuiesce
  <2> HIDE DEF y
  <2>4. [h \in FcHwqps |-> [w.hw[h] EXCEPT !.on = FALSE, !.msgs = Append(@, Quiet)]] = H
    BY <2>2
  <2> QED BY <2>1, <2>3, <2>4
<1>3. ASSUME NEW h \in FcHwqps
      PROVE  /\ y(h) \in FqHw /\ y(h).on = FALSE /\ y(h).msgs = Append(w.hw[h].msgs, Quiet) /\ y(h).conn = w.hw[h].conn
             /\ y(h).syncs = w.hw[h].syncs /\ y(h).pending = w.hw[h].pending /\ y(h).left = w.hw[h].left
  <2>1. w.hw[h] \in FqHw /\ w.hw[h].msgs \in Seq(FqMsg) /\ Quiet \in FqMsg
    BY <1>1, FqParts DEF Quiet, FqMsg
  <2>2. Append(w.hw[h].msgs, Quiet) \in Seq(FqMsg)
    BY <2>1, AppendProperties
  <2> DEFINE V == Append(w.hw[h].msgs, Quiet)
  <2> HIDE DEF V
  <2>3. V \in Seq(FqMsg)
    BY <2>2 DEF V
  <2>4. y(h) = [w.hw[h] EXCEPT !.on = FALSE, !.msgs = V]
    BY DEF V
  <2> QED BY <2>1, <2>3, <2>4 DEF FqHw, V
<1> HIDE DEF y
<1>4. H \in [FcHwqps -> FqHw] /\ \A h \in FcHwqps : H[h] = y(h)
  BY <1>3
<1> HIDE DEF H
<1>5. /\ v \in FqType /\ v.req = w.req /\ v.hw = H /\ v.abts = w.abts /\ v.main = w.main /\ v.air = w.air
      /\ v.markers = w.markers /\ v.left = w.left /\ v.crash = w.crash /\ v.wrong = w.wrong /\ v.dead = w.dead
  BY <1>1, <1>4 DEF FqType
<1> HIDE DEF v
<1>6. ASSUME NEW r \in FcReqs PROVE ReqAt(v, r)
  <2>1. ReqAt(w, r)
    BY <1>1 DEF Core
  <2> QED BY <1>5, <2>1 DEF ReqAt
<1>7. ASSUME NEW h \in FcHwqps
      PROVE  /\ PendingAt(v, h) /\ CapAt(v, h) /\ EndAt(v, h) /\ ConnAt(v, h)
             /\ v.hw[h].syncs = w.hw[h].syncs /\ NotesKept(w.hw[h].msgs, v.hw[h].msgs) /\ v.hw[h].conn = w.hw[h].conn
  <2> DEFINE s == w.hw[h].msgs
             V == Append(s, Quiet)
  <2>1. PendingAt(w, h) /\ CapAt(w, h) /\ EndAt(w, h) /\ ConnAt(w, h) /\ w.hw[h].on
    BY <1>2 DEF Sound, Core
  <2>2. /\ v.hw[h].on = FALSE /\ v.hw[h].msgs = V /\ v.hw[h].conn = w.hw[h].conn
        /\ v.hw[h].syncs = w.hw[h].syncs /\ v.hw[h].pending = w.hw[h].pending /\ v.hw[h].left = w.hw[h].left
    BY <1>3, <1>4, <1>5
  <2>3. s \in Seq(FqMsg) /\ Quiet \in FqMsg
    BY <1>1, FqParts DEF Quiet, FqMsg
  <2>4. /\ \A m : At(V, m) <=> At(s, m) \/ m = Quiet
        /\ \A m : Once(s, m) /\ (m = Quiet => ~At(s, m)) => Once(V, m)
        /\ \A i : Ordered(s, i) /\ (Quiet = Note("sync_done", i) => At(s, Note("sync", i))) => Ordered(V, i)
    BY <2>3, AppendedQueue
  <2> HIDE DEF V
  <2>5. Quiet # Del /\ (\A p \in FcReqs : Quiet # Ended(p)) /\ \A k, i : Note(k, i) # Quiet
    BY KindsDiffer
  <2>6. PendingAt(v, h)
    BY <1>5, <2>1, <2>2, PendingSame
  <2>7. CapAt(v, h)
    BY <1>1, <1>5, <2>1, CapShrinks
  <2>8. EndAt(v, h)
    <3>1. ~At(s, Quiet) BY <2>1 DEF EndAt
    <3>2. Once(V, Quiet)
      <4>1. Once(s, Quiet) BY <3>1 DEF At, Once
      <4> QED BY <2>4, <3>1, <4>1
    <3>3. ASSUME NEW p \in FcReqs
          PROVE  /\ p \in FcSlots[h] /\ w.req[p].st = "aborted" => At(V, Ended(p))
                 /\ At(V, Ended(p)) => p \in FcSlots[h] /\ w.req[p].st = "aborted"
                 /\ Once(V, Ended(p))
      BY <2>1, <2>4, <2>5 DEF EndAt
    <3> QED BY <1>5, <2>2, <3>2, <3>3 DEF EndAt
  <2>9. ConnAt(v, h)
    <3>1. SameDeletion(w, v, h) BY <1>5, <2>2, <2>4, <2>5 DEF SameDeletion
    <3> QED BY <1>1, <2>1, <3>1, DeletionKept
  <2>10. NotesKept(s, V)
    BY <2>4, <2>5 DEF NotesKept
  <2> QED BY <2>2, <2>6, <2>7, <2>8, <2>9, <2>10
<1>8. SameAbts(w, v)
  BY <1>5, <1>7 DEF SameAbts, Gone
<1>9. \A i \in AbtsIds : AbtsAt(v, i)
  BY <1>1, <1>8, AbtsKept DEF Sound
<1>10. Core(v) /\ TruthOf(v)
  BY <1>1, <1>5, <1>6, <1>7 DEF Sound, Core, TruthOf
<1> QED BY <1>2, <1>7, <1>9, <1>10 DEF Sound

(* What an ABTS looks at, when others may have changed. *)
AbtsView(w, v, i) ==
    /\ v.abts[i] = w.abts[i] /\ v.req = w.req /\ v.air = w.air
    /\ \A h \in FcHwqps : /\ NotesTheSame(w, v, i, h) /\ ReportsKept(w, v, i, h)
                          /\ i \in v.hw[h].syncs <=> i \in w.hw[h].syncs
                          /\ <<i, h>> \in v.markers <=> <<i, h>> \in w.markers
                          /\ v.hw[h].conn = w.hw[h].conn

(* An ABTS that sees nothing change is kept. *)
LEMMA AbtsViewKept ==
    ASSUME NEW w, NEW v, NEW i \in AbtsIds, AbtsView(w, v, i), AbtsAt(w, i)
    PROVE  AbtsAt(v, i)
<1> DEFINE b == w.abts[i]
           home == HwqpOf(b.req)
<1>1. v.abts[i] = b /\ v.req = w.req /\ v.air = w.air
  BY DEF AbtsView
<1>2. ASSUME NEW h \in FcHwqps
      PROVE  /\ NotesTheSame(w, v, i, h) /\ ReportsKept(w, v, i, h)
             /\ i \in v.hw[h].syncs <=> i \in w.hw[h].syncs
             /\ <<i, h>> \in v.markers <=> <<i, h>> \in w.markers
             /\ v.hw[h].conn = w.hw[h].conn
  BY DEF AbtsView
<1>3. ASSUME NEW h \in FcHwqps
      PROVE  /\ Waiting(v, i, h) <=> Waiting(w, i, h)
             /\ Asking(v, i, h) <=> Asking(w, i, h)
             /\ Answered(v, i, h) <=> Answered(w, i, h)
             /\ Marked(v, i, h) <=> Marked(w, i, h)
             /\ At(v.main, Found(i, h)) <=> At(w.main, Found(i, h))
             /\ At(v.main, QueueSynced(i, h)) <=> At(w.main, QueueSynced(i, h))
  BY <1>1, <1>2 DEF Waiting, Answered, Marked, NotesTheSame, ReportsKept
<1>4. \A h \in FcHwqps : (AbtsPart(v, i, h) <=> AbtsPart(w, i, h)) /\ (SyncPart(v, i, h) <=> SyncPart(w, i, h))
  BY <1>3 DEF AbtsPart, SyncPart
<1>5. OpenAt(v, i) = OpenAt(w, i) /\ (Syncing(v, i) <=> Syncing(w, i))
  BY <1>4 DEF OpenAt, Syncing
<1>6. ASSUME NEW h \in FcHwqps PROVE PlacesAt(v, i, h)
  <2>1. PlacesAt(w, i, h)
    BY DEF AbtsAt
  <2> QED BY <1>2, <1>3, <2>1 DEF PlacesAt, NotesTheSame, ReportsKept
<1>7. ToldAt(v, i)
  BY <1>1 DEF AbtsAt, ToldAt
<1>8. FrameAt(v, i)
  BY <1>1, <1>4, <1>5 DEF AbtsAt, FrameAt
<1>9. TruthAt(v, i)
  <2> SUFFICES ASSUME b.st = "asked" PROVE TruthAt(v, i)
    BY <1>1 DEF TruthAt
  <2>1. home \in FcHwqps
    BY HomeOf DEF AbtsAt, FrameAt
  <2>2. Gone(v, b.req) <=> Gone(w, b.req)
    BY <1>1 DEF Gone
  <2>3. TruthAt(w, i)
    BY DEF AbtsAt
  <2>4. /\ Asking(v, i, home) <=> Asking(w, i, home)
        /\ Waiting(v, i, home) <=> Waiting(w, i, home)
        /\ v.hw[home].conn = w.hw[home].conn
        /\ <<i, home>> \in v.markers <=> <<i, home>> \in w.markers
    BY <1>2, <1>3, <2>1
  <2>5. (\E h \in FcHwqps : At(v.main, Found(i, h))) <=> (\E h \in FcHwqps : At(w.main, Found(i, h)))
    BY <1>3
  <2> QED BY <1>1, <1>5, <2>2, <2>3, <2>4, <2>5 DEF TruthAt
<1> QED BY <1>6, <1>7, <1>8, <1>9 DEF AbtsAt

(* A message about an ABTS joins a queue. *)
LEMMA NoteJoined ==
    ASSUME NEW s \in Seq(FqMsg), NEW k \in {"abts", "sync", "sync_done"}, NEW i \in AbtsIds
    PROVE  /\ Append(s, Note(k, i)) \in Seq(FqMsg) /\ EndsStay(s, Append(s, Note(k, i)))
           /\ At(Append(s, Note(k, i)), Del) <=> At(s, Del)
           /\ Once(s, Del) => Once(Append(s, Note(k, i)), Del)
           /\ \A l, j : /\ At(Append(s, Note(k, i)), Note(l, j)) <=> At(s, Note(l, j)) \/ (l = k /\ j = i)
                        /\ Once(s, Note(l, j)) /\ (l = k /\ j = i => ~At(s, Note(l, j)))
                           => Once(Append(s, Note(k, i)), Note(l, j))
           /\ \A j : Ordered(s, j) /\ (k = "sync_done" /\ j = i => At(s, Note("sync", i)))
              => Ordered(Append(s, Note(k, i)), j)
<1> DEFINE e == Note(k, i)
           V == Append(s, e)
<1>1. e \in FqMsg
  BY DEF Note, FqMsg
<1>2. e # Quiet /\ e # Del /\ (\A p \in FcReqs : e # Ended(p)) /\ \A l, j : e = Note(l, j) <=> l = k /\ j = i
  BY KindsDiffer
<1> HIDE DEF e
<1>3. /\ V \in Seq(FqMsg)
      /\ \A m : At(V, m) <=> At(s, m) \/ m = e
      /\ \A m : Once(s, m) /\ (m = e => ~At(s, m)) => Once(V, m)
      /\ \A j : Ordered(s, j) /\ (e = Note("sync_done", j) => At(s, Note("sync", j))) => Ordered(V, j)
  BY <1>1, AppendedQueue
<1>4. EndsStay(s, V)
  BY <1>1, <1>2, EndsStayFacts
<1> HIDE DEF V
<1>5. \A j : Ordered(s, j) /\ (k = "sync_done" /\ j = i => At(s, Note("sync", i))) => Ordered(V, j)
  BY <1>2, <1>3
<1>6. \A l, j : /\ At(V, Note(l, j)) <=> At(s, Note(l, j)) \/ (l = k /\ j = i)
                /\ Once(s, Note(l, j)) /\ (l = k /\ j = i => ~At(s, Note(l, j))) => Once(V, Note(l, j))
  BY <1>2, <1>3
<1>7. (At(V, Del) <=> At(s, Del)) /\ (Once(s, Del) => Once(V, Del)) /\ V \in Seq(FqMsg)
  BY <1>2, <1>3
<1> QED BY <1>4, <1>5, <1>6, <1>7 DEF V, e

(* The marker has come through a hwqp. *)
LEMMA MarkerKeeps ==
    ASSUME Sound(fcr), NEW m \in fcr.markers, Marker(m)
    PROVE  Sound(fcr')
<1> DEFINE w == fcr
           i == m[1]
           h == m[2]
           x == w.hw[h]
           s == x.msgs
           V == Append(s, Note("sync_done", i))
           y == [x EXCEPT !.msgs = V]
           rest == w.markers \ {m}
           b == [w EXCEPT !.markers = rest]
           v == SetHwqp(b, h, y)
<1>1. /\ w \in FqType /\ Core(w) /\ w.crash = "no" /\ w.hw \in [FcHwqps -> FqHw]
      /\ w.markers \in SUBSET (AbtsIds \X FcHwqps)
  <2>1. w \in FqType
    BY DEF Sound, Core
  <2> QED BY <2>1, FqFields DEF Sound, Core
<1>2. i \in AbtsIds /\ h \in FcHwqps /\ m = <<i, h>> /\ rest \in SUBSET (AbtsIds \X FcHwqps)
  BY <1>1
<1>3. x \in FqHw /\ s \in Seq(FqMsg) /\ ConnAt(w, h) /\ AbtsAt(w, i)
  BY <1>1, <1>2, FqParts DEF Sound
<1>4. HwqpOf(w.abts[i].req) = h => w.abts[i].req \notin w.air
  BY DEF Marker
<1>5. fcr' = ToHwqp(b, h, Note("sync_done", i))
  BY DEF Marker, Note
<1>6. <<i, h>> \in w.markers
  BY <1>2
<1> HIDE DEF i, h
<1>7. /\ V \in Seq(FqMsg) /\ EndsStay(s, V) /\ (At(V, Del) <=> At(s, Del)) /\ (Once(s, Del) => Once(V, Del))
      /\ \A l, j : /\ At(V, Note(l, j)) <=> At(s, Note(l, j)) \/ (l = "sync_done" /\ j = i)
                   /\ Once(s, Note(l, j)) /\ (l = "sync_done" /\ j = i => ~At(s, Note(l, j))) => Once(V, Note(l, j))
      /\ \A j : Ordered(s, j) /\ (j = i => At(s, Note("sync", i))) => Ordered(V, j)
  BY <1>2, <1>3, NoteJoined
<1>8. y \in FqHw /\ y.msgs = V /\ y.conn = x.conn /\ y.on = x.on /\ y.syncs = x.syncs /\ y.pending = x.pending
      /\ y.left = x.left
  <2> HIDE DEF V
  <2> QED BY <1>3, <1>7 DEF FqHw
<1>9. /\ b \in FqType /\ b.req = w.req /\ b.hw = w.hw /\ b.abts = w.abts /\ b.main = w.main /\ b.air = w.air
      /\ b.markers = rest /\ b.dead = w.dead /\ b.crash = w.crash /\ b.wrong = w.wrong /\ b.left = w.left
  BY <1>1, <1>2 DEF FqType
<1> HIDE DEF b
<1>10. fcr' = v
  BY <1>5, <1>9 DEF ToHwqp, SetHwqp
<1> HIDE DEF y, V
<1>11. HwqpSet(b, v, h, y)
  BY <1>2, <1>8, <1>9, SetHwqpFacts
<1> HIDE DEF v
<1>12. /\ v \in FqType /\ v.req = w.req /\ v.hw[h] = y /\ (\A k \in FcHwqps \ {h} : v.hw[k] = w.hw[k])
       /\ v.abts = w.abts /\ v.main = w.main /\ v.air = w.air /\ v.markers = rest /\ v.dead = w.dead
       /\ v.left = w.left /\ v.crash = w.crash /\ v.wrong = w.wrong
  BY <1>9, <1>11 DEF HwqpSet, Around
<1>13. ASSUME NEW k \in FcHwqps
       PROVE  /\ v.hw[k].on = w.hw[k].on /\ v.hw[k].pending = w.hw[k].pending /\ EndsStay(w.hw[k].msgs, v.hw[k].msgs)
              /\ v.hw[k].syncs = w.hw[k].syncs /\ v.hw[k].conn = w.hw[k].conn /\ ConnAt(v, k)
  <2>1. ConnAt(w, k)
    BY DEF Sound
  <2>2. CASE k = h
    <3>1. SameDeletion(w, v, k) BY <1>7, <1>8, <1>12, <2>2 DEF SameDeletion
    <3>2. ConnAt(v, k) BY <1>1, <2>1, <3>1, DeletionKept
    <3> QED BY <1>7, <1>8, <1>12, <2>2, <3>2
  <2>3. CASE k # h
    <3>1. w.hw[k].msgs \in Seq(FqMsg) /\ v.hw[k] = w.hw[k] BY <1>1, <1>12, <2>3, FqParts
    <3>2. ConnAt(v, k) BY <1>1, <1>12, <2>1, <3>1, OtherHwqp
    <3> QED BY <3>1, <3>2, EndsStayFacts
  <2> QED BY <2>2, <2>3
<1>14. Core(v)
  <2>1. SameCommands(w, v)
    BY <1>1, <1>12, <1>13 DEF SameCommands
  <2> QED BY <1>1, <2>1, SameCommandsCore
<1>15. ASSUME NEW j \in AbtsIds, j # i PROVE AbtsAt(v, j)
  <2>1. AbtsAt(w, j)
    BY DEF Sound
  <2>2. ASSUME NEW k \in FcHwqps PROVE NotesTheSame(w, v, j, k)
    <3>1. CASE k = h
      <4>1. v.hw[k].msgs = V /\ w.hw[k].msgs = s BY <1>8, <1>12, <3>1
      <4> QED BY <1>7, <1>15, <4>1 DEF NotesTheSame, Asking
    <3>2. CASE k # h
      <4>1. v.hw[k] = w.hw[k] BY <1>12, <3>2
      <4> QED BY <4>1 DEF NotesTheSame, Asking
    <3> QED BY <3>1, <3>2
  <2>3. \A k \in FcHwqps : <<j, k>> \in v.markers <=> <<j, k>> \in w.markers
    BY <1>2, <1>12, <1>15
  <2>4. AbtsView(w, v, j)
    BY <1>12, <1>13, <2>2, <2>3 DEF AbtsView, ReportsKept
  <2> QED BY <2>1, <2>4, AbtsViewKept
<1>16. AbtsAt(v, i)
  <2> DEFINE o == w.abts[i].req
             home == HwqpOf(o)
  <2>1. PlacesAt(w, i, h) /\ ToldAt(w, i) /\ FrameAt(w, i) /\ TruthAt(w, i) /\ \A k \in FcHwqps : PlacesAt(w, i, k)
    BY <1>2, <1>3 DEF AbtsAt
  <2>2. ~At(s, Note("sync_done", i)) /\ (i \in x.syncs \/ At(s, Note("sync", i)))
    BY <1>6, <2>1 DEF PlacesAt
  <2>3. \A k \in FcHwqps \ {h} : (<<i, k>> \in v.markers <=> <<i, k>> \in w.markers) /\ v.hw[k] = w.hw[k]
    BY <1>2, <1>12
  <2>4. <<i, h>> \notin v.markers /\ v.hw[h].msgs = V /\ v.hw[h].syncs = x.syncs
    BY <1>2, <1>8, <1>12
  <2>5. ASSUME NEW k \in FcHwqps
        PROVE  /\ Waiting(v, i, k) <=> Waiting(w, i, k)
               /\ Asking(v, i, k) <=> Asking(w, i, k)
               /\ Answered(v, i, k) <=> Answered(w, i, k)
               /\ Marked(v, i, k) <=> Marked(w, i, k)
               /\ AbtsPart(v, i, k) <=> AbtsPart(w, i, k)
               /\ SyncPart(v, i, k) <=> SyncPart(w, i, k)
    <3>1. CASE k = h
      BY <1>6, <1>7, <1>12, <2>4, <3>1 DEF Waiting, Asking, Answered, Marked, AbtsPart, SyncPart
    <3>2. CASE k # h
      <4>1. v.hw[k] = w.hw[k] /\ (<<i, k>> \in v.markers <=> <<i, k>> \in w.markers)
        BY <2>3, <3>2
      <4> QED BY <1>12, <4>1 DEF Waiting, Asking, Answered, Marked, AbtsPart, SyncPart
    <3> QED BY <3>1, <3>2
  <2>6. OpenAt(v, i) = OpenAt(w, i) /\ (Syncing(v, i) <=> Syncing(w, i))
    BY <2>5 DEF OpenAt, Syncing
  <2>7. ASSUME NEW k \in FcHwqps PROVE PlacesAt(v, i, k)
    <3>1. PlacesAt(w, i, k) BY <2>1
    <3>2. CASE k = h
      <4>1. /\ \A l : At(V, Note(l, i)) <=> At(s, Note(l, i)) \/ l = "sync_done"
            /\ \A l \in {"abts", "sync"} : Once(s, Note(l, i)) => Once(V, Note(l, i))
            /\ Once(s, Note("sync_done", i)) => Once(V, Note("sync_done", i))
            /\ i \notin x.syncs => Ordered(s, i) /\ At(s, Note("sync", i))
        <5>1. i \notin x.syncs => Ordered(s, i) /\ At(s, Note("sync", i))
          BY <2>1, <2>2 DEF PlacesAt
        <5> QED BY <1>7, <2>2, <5>1
      <4>2. i \notin x.syncs => Ordered(V, i) BY <1>7, <4>1
      <4> QED BY <1>6, <1>12, <2>4, <2>5, <3>1, <3>2, <4>1, <4>2 DEF PlacesAt
    <3>3. CASE k # h
      <4>1. v.hw[k] = w.hw[k] /\ (<<i, k>> \in v.markers <=> <<i, k>> \in w.markers)
        BY <2>3, <3>3
      <4> QED BY <1>12, <2>5, <3>1, <4>1 DEF PlacesAt
    <3> QED BY <3>2, <3>3
  <2>8. ToldAt(v, i)
    BY <1>12, <2>1 DEF ToldAt
  <2>9. FrameAt(v, i)
    BY <1>12, <2>1, <2>5, <2>6 DEF FrameAt
  <2>10. TruthAt(v, i)
    <3> SUFFICES ASSUME w.abts[i].st = "asked" PROVE TruthAt(v, i)
      BY <1>12 DEF TruthAt
    <3>1. home \in FcHwqps BY HomeOf, <2>1 DEF FrameAt
    <3>2. Gone(v, o) <=> Gone(w, o) BY <1>12 DEF Gone
    <3>3. /\ Asking(v, i, home) <=> Asking(w, i, home)
          /\ Waiting(v, i, home) <=> Waiting(w, i, home)
          /\ v.hw[home].conn = w.hw[home].conn
      BY <1>13, <2>5, <3>1
    <3>4. <<i, home>> \notin v.markers => home = h \/ <<i, home>> \notin w.markers
      BY <2>3, <3>1
    <3> QED BY <1>4, <1>12, <2>1, <2>6, <3>2, <3>3, <3>4 DEF TruthAt
  <2> QED BY <2>7, <2>8, <2>9, <2>10 DEF AbtsAt
<1>17. TruthOf(v)
  BY <1>12 DEF Sound, TruthOf
<1>18. Sound(v)
  BY <1>13, <1>14, <1>15, <1>16, <1>17 DEF Sound
<1> QED BY <1>10, <1>18

(* The hwqps of A are sent a message about an ABTS, and no other ABTS sees
   a difference. *)
AskedHw(w, v, i, k, A) ==
    \A h \in FcHwqps :
        /\ v.hw[h].on = w.hw[h].on /\ v.hw[h].pending = w.hw[h].pending /\ v.hw[h].syncs = w.hw[h].syncs
        /\ v.hw[h].conn = w.hw[h].conn /\ v.hw[h].left = w.hw[h].left
        /\ v.hw[h].msgs = (IF h \in A THEN Append(w.hw[h].msgs, Note(k, i)) ELSE w.hw[h].msgs)
OthersSame(w, v, i) ==
    \A j \in AbtsIds \ {i} : /\ v.abts[j] = w.abts[j]
                             /\ \A h \in FcHwqps : ReportsKept(w, v, j, h)
                                /\ (<<j, h>> \in v.markers <=> <<j, h>> \in w.markers)
MainStep(w, v, i, k, A) ==
    /\ v \in FqType /\ v.crash = "no" /\ v.req = w.req /\ v.air = w.air /\ v.dead = w.dead /\ v.left.xchgs = w.left.xchgs
    /\ AskedHw(w, v, i, k, A) /\ OthersSame(w, v, i)

(* A step of the main thread keeps the invariant if it does for i. *)
LEMMA MainStepSound ==
    ASSUME NEW w, Sound(w), NEW v, NEW i \in AbtsIds, NEW k \in {"abts", "sync"}, NEW A, MainStep(w, v, i, k, A),
           AbtsAt(v, i), TruthOf(v)
    PROVE  Sound(v)
<1>1. w \in FqType /\ Core(w)
  BY DEF Sound, Core
<1>2. /\ v \in FqType /\ v.crash = "no" /\ v.req = w.req /\ v.air = w.air /\ v.dead = w.dead /\ v.left.xchgs = w.left.xchgs
      /\ AskedHw(w, v, i, k, A) /\ OthersSame(w, v, i)
  BY DEF MainStep
<1>3. ASSUME NEW h \in FcHwqps
      PROVE  /\ v.hw[h].on = w.hw[h].on /\ v.hw[h].pending = w.hw[h].pending /\ EndsStay(w.hw[h].msgs, v.hw[h].msgs)
             /\ v.hw[h].syncs = w.hw[h].syncs /\ v.hw[h].conn = w.hw[h].conn
             /\ SameDeletion(w, v, h) /\ \A j \in AbtsIds \ {i} : NotesTheSame(w, v, j, h)
  <2> DEFINE s == w.hw[h].msgs
             V == v.hw[h].msgs
  <2>1. s \in Seq(FqMsg)
    BY <1>1, FqParts
  <2>2. /\ v.hw[h].on = w.hw[h].on /\ v.hw[h].pending = w.hw[h].pending /\ v.hw[h].syncs = w.hw[h].syncs
        /\ v.hw[h].conn = w.hw[h].conn /\ v.hw[h].left = w.hw[h].left
        /\ V = (IF h \in A THEN Append(s, Note(k, i)) ELSE s)
    BY <1>2 DEF AskedHw
  <2>3. /\ EndsStay(s, V) /\ (At(V, Del) <=> At(s, Del)) /\ (Once(s, Del) => Once(V, Del))
        /\ \A j \in AbtsIds \ {i} : \A l : /\ At(V, Note(l, j)) <=> At(s, Note(l, j))
                                           /\ Once(s, Note(l, j)) => Once(V, Note(l, j))
                                           /\ Ordered(s, j) => Ordered(V, j)
    <3>1. CASE h \in A
      <4>1. V = Append(s, Note(k, i)) BY <2>2, <3>1
      <4> QED BY <2>1, <4>1, NoteJoined
    <3>2. CASE h \notin A
      <4>1. V = s BY <2>2, <3>2
      <4> QED BY <2>1, <4>1, EndsStayFacts
    <3> QED BY <3>1, <3>2
  <2>4. SameDeletion(w, v, h)
    BY <1>2, <2>2, <2>3 DEF SameDeletion
  <2>5. \A j \in AbtsIds \ {i} : NotesTheSame(w, v, j, h)
    BY <2>3 DEF NotesTheSame, Asking
  <2> QED BY <2>2, <2>3, <2>4, <2>5
<1>4. Core(v)
  <2>1. SameCommands(w, v)
    BY <1>2, <1>3 DEF SameCommands
  <2> QED BY <1>1, <2>1, SameCommandsCore
<1>5. \A h \in FcHwqps : ConnAt(v, h)
  BY <1>1, <1>3, DeletionKept DEF Sound
<1>6. ASSUME NEW j \in AbtsIds PROVE AbtsAt(v, j)
  <2>1. CASE j = i
    BY <2>1
  <2>2. CASE j # i
    <3>1. AbtsView(w, v, j) BY <1>2, <1>3, <2>2 DEF AbtsView, OthersSame
    <3> QED BY <3>1, AbtsViewKept DEF Sound
  <2> QED BY <2>1, <2>2
<1> QED BY <1>4, <1>5, <1>6 DEF Sound

(* An ABTS without open questions is nowhere. *)
Nowhere(w, i) ==
    /\ \A h \in FcHwqps : /\ \A k \in {"abts", "sync", "sync_done"} : ~At(w.hw[h].msgs, Note(k, i))
                          /\ i \notin w.hw[h].syncs /\ <<i, h>> \notin w.markers
                          /\ ~At(w.main, Found(i, h)) /\ ~At(w.main, NotFound(i, h)) /\ ~At(w.main, QueueSynced(i, h))
    /\ \A r \in FcReqs : ~At(w.req[r].cbs, i)

(* An ABTS that waits for no hwqp is nowhere any more. *)
LEMMA NoneOpen ==
    ASSUME NEW w, NEW i \in AbtsIds, \A h \in FcHwqps : PlacesAt(w, i, h), ToldAt(w, i), OpenAt(w, i) = {}
    PROVE  Nowhere(w, i)
<1>1. ASSUME NEW h \in FcHwqps
      PROVE  ~Asking(w, i, h) /\ ~Waiting(w, i, h) /\ ~Answered(w, i, h) /\ ~Marked(w, i, h)
             /\ ~At(w.main, QueueSynced(i, h))
  BY DEF OpenAt, AbtsPart, SyncPart
<1>2. ASSUME NEW h \in FcHwqps
      PROVE  /\ \A k \in {"abts", "sync", "sync_done"} : ~At(w.hw[h].msgs, Note(k, i))
             /\ i \notin w.hw[h].syncs /\ <<i, h>> \notin w.markers
             /\ ~At(w.main, Found(i, h)) /\ ~At(w.main, NotFound(i, h)) /\ ~At(w.main, QueueSynced(i, h))
  <2>1. PlacesAt(w, i, h)
    OBVIOUS
  <2> QED BY <1>1, <2>1 DEF PlacesAt, Asking, Answered, Marked
<1>3. ASSUME NEW r \in FcReqs PROVE ~At(w.req[r].cbs, i)
  <2>1. At(w.req[r].cbs, i) => r = w.abts[i].req
    BY DEF ToldAt
  <2>2. HwqpOf(r) \in FcHwqps /\ r \in FcSlots[HwqpOf(r)]
    BY HomeOf
  <2> QED BY <1>1, <2>1, <2>2 DEF Waiting
<1> QED BY <1>2, <1>3 DEF Nowhere

(* From nowhere, an ABTS is where it has been sent. *)
LEMMA SentAbts ==
    ASSUME NEW w \in FqType, NEW v, NEW i \in AbtsIds, NEW k \in {"abts", "sync"}, NEW A, Nowhere(w, i),
           AskedHw(w, v, i, k, A),
           v.req = w.req, v.main = w.main,
           A \subseteq v.abts[i].asked, A \subseteq FcHwqps,
           \A h \in FcHwqps : <<i, h>> \in v.markers <=> k = "sync" /\ h \in A,
           v.abts[i].st \in {"asked", "answered"}, v.abts[i].st = "asked" <=> A # {}, v.abts[i].req \in FcReqs,
           v.abts[i].waits = Cardinality(A)
    PROVE  /\ \A h \in FcHwqps : PlacesAt(v, i, h)
           /\ ToldAt(v, i) /\ FrameAt(v, i)
           /\ \A h \in FcHwqps : /\ Asking(v, i, h) <=> k = "abts" /\ h \in A
                                 /\ SyncPart(v, i, h) <=> k = "sync" /\ h \in A
                                 /\ ~At(v.main, Found(i, h)) /\ ~Waiting(v, i, h)
<1>1. ASSUME NEW h \in FcHwqps
      PROVE  /\ \A l \in {"abts", "sync", "sync_done"} : /\ At(v.hw[h].msgs, Note(l, i)) <=> l = k /\ h \in A
                                                         /\ Once(v.hw[h].msgs, Note(l, i))
             /\ Ordered(v.hw[h].msgs, i)
             /\ i \notin v.hw[h].syncs
             /\ ~At(v.main, Found(i, h)) /\ ~At(v.main, NotFound(i, h)) /\ ~At(v.main, QueueSynced(i, h))
  <2> DEFINE s == w.hw[h].msgs
             V == v.hw[h].msgs
  <2>1. s \in Seq(FqMsg)
    BY FqParts
  <2>2. /\ \A l \in {"abts", "sync", "sync_done"} : ~At(s, Note(l, i))
        /\ i \notin w.hw[h].syncs
        /\ ~At(w.main, Found(i, h)) /\ ~At(w.main, NotFound(i, h)) /\ ~At(w.main, QueueSynced(i, h))
    BY DEF Nowhere
  <2>3. v.hw[h].syncs = w.hw[h].syncs /\ V = (IF h \in A THEN Append(s, Note(k, i)) ELSE s)
    BY DEF AskedHw
  <2>4. /\ \A l \in {"abts", "sync", "sync_done"} : Once(s, Note(l, i))
        /\ Ordered(s, i)
    BY <2>2 DEF At, Once, Ordered
  <2>5. /\ \A l \in {"abts", "sync", "sync_done"} : /\ At(V, Note(l, i)) <=> l = k /\ h \in A
                                                    /\ Once(V, Note(l, i))
        /\ Ordered(V, i)
    <3>1. CASE h \in A
      <4>1. V = Append(s, Note(k, i)) BY <2>3, <3>1
      <4>2. /\ \A l, j : /\ At(V, Note(l, j)) <=> At(s, Note(l, j)) \/ (l = k /\ j = i)
                         /\ Once(s, Note(l, j)) /\ (l = k /\ j = i => ~At(s, Note(l, j))) => Once(V, Note(l, j))
            /\ \A j : Ordered(s, j) /\ (k = "sync_done" /\ j = i => At(s, Note("sync", i))) => Ordered(V, j)
        BY <2>1, <4>1, NoteJoined
      <4> QED BY <2>2, <2>4, <3>1, <4>2
    <3>2. CASE h \notin A
      <4>1. V = s BY <2>3, <3>2
      <4> QED BY <2>2, <2>4, <3>2, <4>1
    <3> QED BY <3>1, <3>2
  <2> QED BY <2>2, <2>3, <2>5
<1>2. \A r \in FcReqs : ~At(v.req[r].cbs, i)
  BY DEF Nowhere
<1>3. ASSUME NEW h \in FcHwqps
      PROVE  /\ Asking(v, i, h) <=> k = "abts" /\ h \in A
             /\ ~Waiting(v, i, h) /\ ~Answered(v, i, h)
             /\ Marked(v, i, h) <=> k = "sync" /\ h \in A
             /\ SyncPart(v, i, h) <=> k = "sync" /\ h \in A
             /\ AbtsPart(v, i, h) <=> k = "abts" /\ h \in A
  BY <1>1, <1>2 DEF Asking, Waiting, Answered, Marked, SyncPart, AbtsPart
<1>4. ASSUME NEW h \in FcHwqps PROVE PlacesAt(v, i, h)
  <2>1. Once(v.main, Found(i, h)) /\ Once(v.main, NotFound(i, h)) /\ Once(v.main, QueueSynced(i, h))
    BY <1>1 DEF At, Once
  <2> QED BY <1>1, <1>3, <2>1 DEF PlacesAt
<1>5. ToldAt(v, i)
  BY <1>2 DEF ToldAt, At, Once
<1>6. OpenAt(v, i) = A
  BY <1>3 DEF OpenAt
<1>7. FrameAt(v, i)
  BY <1>3, <1>6 DEF FrameAt
<1> QED BY <1>1, <1>3, <1>4, <1>5, <1>7

(* The messages to the main thread. *)
LEMMA MainKinds ==
    ASSUME NEW m \in FqMain
    PROVE  /\ m.i \in AbtsIds /\ m.h \in FcHwqps /\ m.k \in {"abts", "synced"}
           /\ m.k = "abts" => m.found \in BOOLEAN /\ m = (IF m.found THEN Found(m.i, m.h) ELSE NotFound(m.i, m.h))
           /\ m.k = "synced" => m = QueueSynced(m.i, m.h)
  BY DEF FqMain, Found, NotFound, QueueSynced

(* One of them is taken, and counted. *)
Heard(b, m) == [b EXCEPT !.waits = b.waits - 1, !.handled = (b.handled \/ (m.k = "abts" /\ m.found))]
PopMain(w, m) == [w EXCEPT !.main = Tail(w.main), !.abts = [w.abts EXCEPT ![m.i] = Heard(w.abts[m.i], m)]]

(* What is left of the ABTS then. *)
PoppedAbts(w, v, m) ==
    LET i == m.i
        b == w.abts[i]
        c == v.abts[i]
    IN  /\ b.st = "asked" /\ b.req \in FcReqs /\ b.asked \in SUBSET FcHwqps /\ m.h \in b.asked
        /\ c.st = b.st /\ c.req = b.req /\ c.asked = b.asked /\ c.synced = b.synced
        /\ OpenAt(v, i) \subseteq b.asked /\ c.waits = Cardinality(OpenAt(v, i)) /\ IsFiniteSet(OpenAt(v, i))
        /\ \A h \in FcHwqps : PlacesAt(v, i, h)
        /\ ToldAt(v, i)
        /\ \A h, k \in FcHwqps : ~(AbtsPart(v, i, h) /\ SyncPart(v, i, k))
        /\ TruthAt(v, i)
        /\ m.k = "synced" /\ HwqpOf(b.req) \in b.asked /\ <<i, HwqpOf(b.req)>> \notin w.markers => b.req \notin w.air
PoppedState(w, v, m) ==
    /\ v \in FqType /\ v.req = w.req /\ v.hw = w.hw /\ v.air = w.air /\ v.markers = w.markers /\ v.dead = w.dead
    /\ v.left = w.left /\ v.crash = w.crash /\ v.wrong = w.wrong
    /\ MainStep(w, v, m.i, "abts", {})
    /\ PoppedAbts(w, v, m)

(* The message that is taken leaves its ABTS ready for the answer. *)
LEMMA PopKeeps ==
    ASSUME NEW w, Sound(w), w.main # <<>>, NEW m, m = Head(w.main)
    PROVE  m.i \in AbtsIds /\ m.k \in {"abts", "synced"} /\ PoppedState(w, PopMain(w, m), m)
<1> DEFINE i == m.i
           g == m.h
           b == w.abts[i]
           c == Heard(b, m)
           B == [w.abts EXCEPT ![i] = c]
           M == Tail(w.main)
           v == [w EXCEPT !.main = M, !.abts = B]
<1>1. w \in FqType /\ w.crash = "no" /\ w.main \in Seq(FqMain) /\ w.abts \in [AbtsIds -> FqAbts]
  <2>1. w \in FqType /\ w.crash = "no"
    BY DEF Sound, Core
  <2> QED BY <2>1, FqFields
<1>2. /\ M \in Seq(FqMain) /\ m \in FqMain /\ At(w.main, m)
      /\ \A x : At(w.main, x) <=> At(M, x) \/ x = m
      /\ \A x : Once(w.main, x) => Once(M, x)
      /\ Once(w.main, m) => ~At(M, m)
  BY <1>1, RestOfQueue
<1>3. i \in AbtsIds /\ g \in FcHwqps /\ m.k \in {"abts", "synced"}
      /\ (m.k = "abts" => m.found \in BOOLEAN /\ m = (IF m.found THEN Found(i, g) ELSE NotFound(i, g)))
      /\ (m.k = "synced" => m = QueueSynced(i, g))
  BY <1>2, MainKinds
<1>4. b \in FqAbts /\ b.waits \in Int /\ b.handled \in BOOLEAN /\ b.asked \in SUBSET FcHwqps
  BY <1>1, <1>3, FqParts
<1>5. /\ c \in FqAbts /\ c.st = b.st /\ c.req = b.req /\ c.asked = b.asked /\ c.synced = b.synced
      /\ c.waits = b.waits - 1 /\ (c.handled <=> b.handled \/ (m.k = "abts" /\ m.found))
  <2> DEFINE hd == b.handled \/ (m.k = "abts" /\ m.found)
             n == b.waits - 1
  <2>1. hd \in BOOLEAN /\ n \in Int
    BY <1>4
  <2>2. (hd <=> b.handled \/ (m.k = "abts" /\ m.found)) /\ n = b.waits - 1 /\ c = [b EXCEPT !.waits = n, !.handled = hd]
    BY DEF Heard
  <2> HIDE DEF hd, n, c
  <2>3. /\ c \in FqAbts /\ c.st = b.st /\ c.req = b.req /\ c.asked = b.asked /\ c.synced = b.synced
        /\ c.waits = n /\ c.handled = hd
    BY <1>4, <2>1, <2>2 DEF FqAbts
  <2> QED BY <2>2, <2>3
<1> HIDE DEF c
<1>6. B \in [AbtsIds -> FqAbts] /\ B[i] = c /\ \A j \in AbtsIds \ {i} : B[j] = w.abts[j]
  BY <1>1, <1>3, <1>5
<1> HIDE DEF B, M
<1>7. /\ v \in FqType /\ v.req = w.req /\ v.hw = w.hw /\ v.main = M /\ v.abts = B /\ v.air = w.air
      /\ v.markers = w.markers /\ v.dead = w.dead /\ v.left = w.left /\ v.crash = w.crash /\ v.wrong = w.wrong
  BY <1>1, <1>2, <1>6 DEF FqType
<1>8. PopMain(w, m) = v
  BY DEF PopMain, v, M, B, c
<1> HIDE DEF v
<1>9. ASSUME NEW j \in AbtsIds, NEW h \in FcHwqps, j # i \/ h # g PROVE ReportsKept(w, v, j, h)
  <2>1. Found(j, h) # m /\ NotFound(j, h) # m /\ QueueSynced(j, h) # m
    BY <1>3, <1>9, ReportsDiffer
  <2> QED BY <1>2, <1>7, <2>1 DEF ReportsKept
<1>10. MainStep(w, v, i, "abts", {})
  <2>1. AskedHw(w, v, i, "abts", {})
    BY <1>7 DEF AskedHw
  <2>2. OthersSame(w, v, i)
    BY <1>6, <1>7, <1>9 DEF OthersSame
  <2> QED BY <1>1, <1>7, <2>1, <2>2 DEF MainStep
<1>11. ToldAt(w, i) /\ FrameAt(w, i) /\ TruthAt(w, i) /\ \A h \in FcHwqps : PlacesAt(w, i, h)
  BY <1>3 DEF Sound, AbtsAt
<1>12. \A h \in FcHwqps : /\ Asking(v, i, h) <=> Asking(w, i, h)
                          /\ Waiting(v, i, h) <=> Waiting(w, i, h)
                          /\ Marked(v, i, h) <=> Marked(w, i, h)
  BY <1>5, <1>6, <1>7 DEF Asking, Waiting, Marked
<1>13. ASSUME NEW h \in FcHwqps, h # g
       PROVE  /\ AbtsPart(v, i, h) <=> AbtsPart(w, i, h)
              /\ SyncPart(v, i, h) <=> SyncPart(w, i, h)
  <2>1. ReportsKept(w, v, i, h)
    BY <1>3, <1>9, <1>13
  <2> QED BY <1>12, <2>1 DEF AbtsPart, SyncPart, Answered, ReportsKept
<1>14. /\ At(v.main, Found(i, g)) => At(w.main, Found(i, g)) /\ m # Found(i, g)
       /\ At(v.main, NotFound(i, g)) => At(w.main, NotFound(i, g)) /\ m # NotFound(i, g)
       /\ At(v.main, QueueSynced(i, g)) => At(w.main, QueueSynced(i, g)) /\ m # QueueSynced(i, g)
       /\ Once(v.main, Found(i, g)) /\ Once(v.main, NotFound(i, g)) /\ Once(v.main, QueueSynced(i, g))
  BY <1>2, <1>3, <1>7, <1>11 DEF PlacesAt
<1>15. m.k = "abts" => Answered(w, i, g) /\ AbtsPart(w, i, g)
  BY <1>2, <1>3 DEF Answered, AbtsPart
<1>16. m.k = "synced" => At(w.main, QueueSynced(i, g)) /\ SyncPart(w, i, g)
  BY <1>2, <1>3 DEF SyncPart
<1>17. ~AbtsPart(v, i, g) /\ ~SyncPart(v, i, g)
  <2>1. CASE m.k = "abts"
    <3>1. ~SyncPart(w, i, g) /\ ~Asking(w, i, g) /\ ~Waiting(w, i, g) /\ ~(At(w.main, Found(i, g))
          /\ At(w.main, NotFound(i, g)))
      BY <1>3, <1>11, <1>15, <2>1 DEF FrameAt, PlacesAt
    <3>2. m = Found(i, g) \/ m = NotFound(i, g) BY <1>3, <2>1
    <3>3. ~Answered(v, i, g) BY <1>2, <1>14, <3>1, <3>2 DEF Answered
    <3> QED BY <1>3, <1>12, <1>14, <3>1, <3>3 DEF AbtsPart, SyncPart
  <2>2. CASE m.k = "synced"
    <3>1. ~AbtsPart(w, i, g) /\ ~Marked(w, i, g)
      BY <1>3, <1>11, <1>16, <2>2 DEF FrameAt, PlacesAt
    <3>2. ~At(v.main, QueueSynced(i, g)) BY <1>3, <1>14, <2>2
    <3> QED BY <1>3, <1>12, <1>14, <3>1, <3>2 DEF AbtsPart, SyncPart, Answered
  <2> QED BY <1>3, <2>1, <2>2
<1>18. OpenAt(v, i) = OpenAt(w, i) \ {g} /\ g \in OpenAt(w, i)
  BY <1>3, <1>13, <1>15, <1>16, <1>17 DEF OpenAt
<1>19. /\ OpenAt(w, i) \subseteq b.asked /\ b.waits = Cardinality(OpenAt(w, i)) /\ b.st = "asked" /\ b.req \in FcReqs
  <2>1. b.st = "asked" /\ "asked" # "unused"
    BY <1>11, <1>18 DEF FrameAt
  <2> QED BY <1>11, <2>1 DEF FrameAt
<1>20. IsFiniteSet(OpenAt(w, i)) /\ IsFiniteSet(OpenAt(v, i)) /\ c.waits = Cardinality(OpenAt(v, i))
  <2>1. IsFiniteSet(OpenAt(w, i))
    BY <1>4, <1>19, HomeOf, FS_Subset
  <2> DEFINE P == OpenAt(w, i)
  <2>2. P = OpenAt(w, i)
    OBVIOUS
  <2> HIDE DEF P
  <2>3. IsFiniteSet(P \ {g}) /\ Cardinality(P \ {g}) = Cardinality(P) - 1
    BY <1>18, <2>1, <2>2, FS_RemoveElement
  <2> QED BY <1>5, <1>18, <1>19, <2>1, <2>2, <2>3
<1>21. ASSUME NEW h \in FcHwqps PROVE PlacesAt(v, i, h)
  <2>1. PlacesAt(w, i, h)
    BY <1>11
  <2>2. v.hw = w.hw /\ v.markers = w.markers
    BY <1>7
  <2>3. CASE h # g
    <3>1. ReportsKept(w, v, i, h) BY <1>3, <1>9, <2>3
    <3>2. Answered(v, i, h) <=> Answered(w, i, h) BY <3>1 DEF Answered, ReportsKept
    <3> QED BY <1>12, <2>1, <2>2, <3>1, <3>2 DEF PlacesAt, ReportsKept
  <2>4. CASE h = g
    <3>1. ~Asking(v, i, h) /\ ~Waiting(v, i, h) /\ ~Answered(v, i, h) /\ ~Marked(v, i, h) /\ ~At(v.main, QueueSynced(i, h))
      BY <1>17, <2>4 DEF AbtsPart, SyncPart
    <3> QED BY <1>12, <1>14, <2>1, <2>2, <2>4, <3>1 DEF PlacesAt, Answered
  <2> QED BY <2>3, <2>4
<1>22. ToldAt(v, i)
  BY <1>5, <1>6, <1>7, <1>11 DEF ToldAt
<1>23. \A h, k \in FcHwqps : ~(AbtsPart(v, i, h) /\ SyncPart(v, i, k))
  BY <1>11, <1>13, <1>17 DEF FrameAt
<1>24. TruthAt(v, i)
  <2> DEFINE r == b.req
             home == HwqpOf(r)
  <2>1. home \in FcHwqps /\ (Gone(v, r) <=> Gone(w, r))
    BY <1>7, <1>19, HomeOf DEF Gone
  <2>2. c.handled \/ (\E h \in FcHwqps : At(v.main, Found(i, h))) => Gone(v, r)
    <3>1. ASSUME NEW h \in FcHwqps, At(v.main, Found(i, h)) PROVE At(w.main, Found(i, h))
      BY <1>2, <1>7, <3>1
    <3>2. m.k = "abts" /\ m.found => At(w.main, Found(i, g)) BY <1>2, <1>3
    <3> QED BY <1>3, <1>5, <1>11, <1>19, <2>1, <3>1, <3>2 DEF TruthAt
  <2>3. Syncing(v, i) => Syncing(w, i) /\ m.k = "synced"
    <3>1. ASSUME NEW h \in FcHwqps, SyncPart(v, i, h) PROVE SyncPart(w, i, h) /\ m.k = "synced"
      <4>1. SyncPart(w, i, h) BY <1>13, <1>17, <3>1
      <4>2. ~AbtsPart(w, i, g) BY <1>3, <1>11, <4>1 DEF FrameAt
      <4> QED BY <1>3, <1>15, <4>1, <4>2
    <3> QED BY <3>1 DEF Syncing
  <2>4. (Asking(v, i, home) <=> Asking(w, i, home)) /\ (Waiting(v, i, home) <=> Waiting(w, i, home))
    BY <1>12, <2>1
  <2>5. v.abts[i] = c
    BY <1>6, <1>7
  <2>6. /\ home \notin b.asked => w.hw[home].conn = "deleted"
        /\ Syncing(w, i) => ~b.handled /\ ~b.synced
        /\ home \in b.asked =>
              /\ Syncing(w, i) /\ <<i, home>> \notin w.markers => r \notin w.air
              /\ b.synced => r \notin w.air
              /\ b.synced /\ ~Asking(w, i, home) /\ ~Waiting(w, i, home) =>
                    Gone(w, r) \/ w.hw[home].conn = "deleted"
    BY <1>11, <1>19 DEF TruthAt
  <2>7. Syncing(v, i) => ~c.handled /\ ~c.synced
    BY <1>5, <2>3, <2>6
  <2>8. /\ c.req = r /\ c.asked = b.asked /\ c.synced = b.synced
        /\ v.hw = w.hw /\ v.air = w.air /\ v.markers = w.markers
    BY <1>5, <1>7
  <2> HIDE DEF r, home
  <2> QED BY <2>1, <2>2, <2>3, <2>4, <2>5, <2>6, <2>7, <2>8 DEF TruthAt, home
<1>25. m.k = "synced" /\ HwqpOf(b.req) \in b.asked /\ <<i, HwqpOf(b.req)>> \notin w.markers => b.req \notin w.air
  <2>1. m.k = "synced" => Syncing(w, i)
    BY <1>3, <1>16 DEF Syncing
  <2> QED BY <1>11, <1>19, <2>1 DEF TruthAt
<1>26. PoppedAbts(w, v, m)
  <2>1. g \in b.asked /\ OpenAt(v, i) \subseteq b.asked
    BY <1>18, <1>19
  <2>2. v.abts[i] = c
    BY <1>6, <1>7
  <2> QED
    BY <1>4, <1>5, <1>19, <1>20, <1>21, <1>22, <1>23, <1>24, <1>25, <2>1, <2>2 DEF PoppedAbts
<1> QED BY <1>3, <1>7, <1>8, <1>10, <1>26 DEF PoppedState

(* What the hwqps are asked. *)
Asks(w, v, i, k) ==
    /\ v \in FqType /\ v.req = w.req /\ v.abts = w.abts /\ v.main = w.main /\ v.air = w.air /\ v.markers = w.markers
    /\ v.dead = w.dead /\ v.left = w.left /\ v.crash = w.crash /\ v.wrong = w.wrong
    /\ AskedHw(w, v, i, k, w.abts[i].asked)

(* nvmf_fc_handle_abts_frame: who is asked. *)
LEMMA AskFacts ==
    ASSUME NEW w \in FqType, NEW i \in AbtsIds, NEW k \in {"abts", "sync"}
    PROVE  Asks(w, AskHwqps(w, i, k), i, k)
<1> DEFINE A == w.abts[i].asked
           X(h) == [w.hw[h] EXCEPT !.msgs = Append(w.hw[h].msgs, Note(k, i))]
           H == [h \in FcHwqps |-> IF h \in A THEN X(h) ELSE w.hw[h]]
           v == [w EXCEPT !.hw = H]
<1>1. v = AskHwqps(w, i, k)
  BY DEF AskHwqps, v, Note
<1>2. ASSUME NEW h \in FcHwqps
      PROVE  /\ X(h) \in FqHw /\ X(h).msgs = Append(w.hw[h].msgs, Note(k, i)) /\ X(h).on = w.hw[h].on
             /\ X(h).pending = w.hw[h].pending /\ X(h).syncs = w.hw[h].syncs /\ X(h).conn = w.hw[h].conn
             /\ X(h).left = w.hw[h].left
  <2>1. w.hw[h] \in FqHw /\ w.hw[h].msgs \in Seq(FqMsg)
    BY <1>2, FqParts
  <2>2. Append(w.hw[h].msgs, Note(k, i)) \in Seq(FqMsg)
    BY <2>1, NoteJoined
  <2> QED BY <2>1, <2>2 DEF FqHw
<1> HIDE DEF X
<1>3. \A h \in FcHwqps : w.hw[h] \in FqHw
  BY FqParts
<1>4. H \in [FcHwqps -> FqHw] /\ \A h \in FcHwqps : H[h] = IF h \in A THEN X(h) ELSE w.hw[h]
  BY <1>2, <1>3
<1> HIDE DEF H
<1>5. v \in FqType /\ v.hw = H
  <2>1. v \in FqType
    BY <1>4, FqRetyped
  <2>2. [w EXCEPT !.hw = H].hw = H
    BY DEF FqType
  <2> QED BY <2>1, <2>2
<1>6. /\ v.req = w.req /\ v.abts = w.abts /\ v.main = w.main /\ v.air = w.air /\ v.markers = w.markers
      /\ v.dead = w.dead /\ v.left = w.left /\ v.crash = w.crash /\ v.wrong = w.wrong
  BY DEF FqType
<1> HIDE DEF v
<1>7. AskedHw(w, v, i, k, A)
  <2> SUFFICES ASSUME NEW h \in FcHwqps
               PROVE  /\ v.hw[h].on = w.hw[h].on /\ v.hw[h].pending = w.hw[h].pending /\ v.hw[h].syncs = w.hw[h].syncs
                      /\ v.hw[h].conn = w.hw[h].conn /\ v.hw[h].left = w.hw[h].left
                      /\ v.hw[h].msgs = (IF h \in A THEN Append(w.hw[h].msgs, Note(k, i)) ELSE w.hw[h].msgs)
    BY DEF AskedHw
  <2>1. v.hw[h] = IF h \in A THEN X(h) ELSE w.hw[h]
    BY <1>4, <1>5
  <2> QED BY <1>2, <2>1
<1> QED BY <1>1, <1>5, <1>6, <1>7 DEF Asks

(* The record of an ABTS gets another value. *)
AbtsSet(w, v, i, b) ==
    /\ v \in FqType /\ v.req = w.req /\ v.hw = w.hw /\ v.main = w.main /\ v.air = w.air /\ v.markers = w.markers
    /\ v.dead = w.dead /\ v.left = w.left /\ v.crash = w.crash
    /\ v.abts[i] = b /\ \A j \in AbtsIds \ {i} : v.abts[j] = w.abts[j]

(* The fields of such a state. *)
LEMMA AbtsSetFacts ==
    ASSUME NEW w \in FqType, NEW i \in AbtsIds, NEW b \in FqAbts
    PROVE  AbtsSet(w, [w EXCEPT !.abts[i] = b], i, b) /\ [w EXCEPT !.abts[i] = b].wrong = w.wrong
<1> DEFINE B == [w.abts EXCEPT ![i] = b]
<1>1. B \in [AbtsIds -> FqAbts] /\ B[i] = b /\ \A j \in AbtsIds \ {i} : B[j] = w.abts[j]
  BY FqFields
<1>2. [w EXCEPT !.abts[i] = b] = [w EXCEPT !.abts = B]
  OBVIOUS
<1> HIDE DEF B
<1>3. [w EXCEPT !.abts = B] \in FqType
  BY <1>1, FqRetyped
<1>4. /\ [w EXCEPT !.abts = B].abts = B /\ [w EXCEPT !.abts = B].req = w.req /\ [w EXCEPT !.abts = B].hw = w.hw
      /\ [w EXCEPT !.abts = B].main = w.main /\ [w EXCEPT !.abts = B].air = w.air
      /\ [w EXCEPT !.abts = B].markers = w.markers /\ [w EXCEPT !.abts = B].dead = w.dead
      /\ [w EXCEPT !.abts = B].left = w.left /\ [w EXCEPT !.abts = B].crash = w.crash
      /\ [w EXCEPT !.abts = B].wrong = w.wrong
  BY DEF FqType
<1> QED BY <1>1, <1>2, <1>3, <1>4 DEF AbtsSet

(* An answer is true, when the command of one that is accepted is gone, and
   that of one that is rejected too, or left behind by its connection. *)
LEMMA AnswerIsTrue ==
    ASSUME NEW w \in FqType, NEW i \in AbtsIds, NEW b, b = w.abts[i], b.req \in FcReqs, TruthOf(w),
           b.handled => Gone(w, b.req), ConnAt(w, HwqpOf(b.req)),
           ~b.handled /\ w.left.sync => Gone(w, b.req) \/ w.hw[HwqpOf(b.req)].conn = "deleted"
    PROVE  /\ AbtsSet(w, AnswerAbts(w, i), i, [b EXCEPT !.st = "answered"])
           /\ TruthOf(AnswerAbts(w, i))
<1> DEFINE c == [b EXCEPT !.st = "answered"]
           said == [w EXCEPT !.abts[i] = c]
           r == b.req
           home == HwqpOf(r)
           runs == \/ w.req[r].st \notin {"free", "aborted"}
                   \/ r \in w.air /\ w.hw[home].conn = "created"
           why == IF w.req[r].data = "aer" /\ w.hw[home].conn = "deleted" THEN "left behind" ELSE "reject"
           wrong == said.wrong \cup {why}
           late == [said EXCEPT !.wrong = wrong]
<1>1. b \in FqAbts /\ c \in FqAbts /\ b.handled \in BOOLEAN
  <2>1. b \in FqAbts /\ b.handled \in BOOLEAN
    BY FqParts
  <2> QED BY <2>1 DEF FqAbts
<1>2. AbtsSet(w, said, i, c) /\ said.wrong = w.wrong
  BY <1>1, AbtsSetFacts
<1>3. [w EXCEPT !.abts[i].st = "answered"] = said
  OBVIOUS
<1> HIDE DEF c, said
<1>4. home \in FcHwqps /\ r \in FcSlots[home]
  BY HomeOf
<1>5. ~(b.handled /\ w.req[r].st # "free")
  BY DEF Gone
<1>6. AnswerAbts(w, i) = (IF ~b.handled /\ runs THEN late ELSE said)
  BY <1>1, <1>3, <1>5 DEF AnswerAbts
<1>7. why \in {"left behind", "reject"} /\ (~b.handled /\ runs /\ w.left.sync => why = "left behind")
  <2>1. ASSUME ~b.handled, runs, w.left.sync PROVE w.req[r].data = "aer" /\ w.hw[home].conn = "deleted"
    <3>1. ~Gone(w, r) BY <2>1 DEF Gone
    <3>2. w.hw[home].conn = "deleted" BY <2>1, <3>1
    <3>3. w.req[r].st # "free" BY <2>1, <3>2
    <3> QED BY <1>4, <3>2, <3>3 DEF ConnAt
  <2> QED BY <2>1
<1> HIDE DEF why
<1>8. w.wrong \in FqWrongs /\ wrong \in FqWrongs
  BY <1>2, <1>7, FqFields DEF FqWrongs
<1> HIDE DEF wrong
<1>9. AbtsSet(w, late, i, c) /\ late.wrong = wrong
  <2>1. said \in FqType
    BY <1>2 DEF AbtsSet
  <2>2. late \in FqType
    BY <1>8, <2>1, FqRetyped
  <2>3. /\ late.req = said.req /\ late.hw = said.hw /\ late.main = said.main /\ late.air = said.air
        /\ late.markers = said.markers /\ late.dead = said.dead /\ late.left = said.left /\ late.crash = said.crash
        /\ late.abts = said.abts /\ late.wrong = wrong
    BY <2>1 DEF FqType
  <2> HIDE DEF late
  <2> QED BY <1>2, <2>2, <2>3 DEF AbtsSet
<1> HIDE DEF late, runs
<1>10. CASE ~b.handled /\ runs
  <2>1. "accept" \notin wrong /\ (w.left.sync => "reject" \notin wrong)
    BY <1>2, <1>7, <1>10 DEF TruthOf, wrong
  <2> QED BY <1>6, <1>9, <1>10, <2>1 DEF TruthOf, AbtsSet, c
<1>11. CASE ~(~b.handled /\ runs)
  BY <1>2, <1>6, <1>11 DEF TruthOf, AbtsSet, c
<1> QED BY <1>10, <1>11

(* A step of the main thread about one ABTS, from a state in which only
   that ABTS differs, and has no question open. *)
Apart(w, u, i) ==
    /\ u \in FqType /\ u.crash = "no" /\ u.req = w.req /\ u.hw = w.hw /\ u.air = w.air /\ u.dead = w.dead
    /\ u.left.xchgs = w.left.xchgs /\ OthersSame(w, u, i)
Onward(u, v, i, k, A) ==
    /\ v \in FqType /\ v.crash = u.crash /\ v.req = u.req /\ v.air = u.air /\ v.dead = u.dead /\ v.left = u.left
    /\ v.main = u.main /\ AskedHw(u, v, i, k, A)
    /\ \A j \in AbtsIds \ {i} : /\ v.abts[j] = u.abts[j]
                                /\ \A h \in FcHwqps : <<j, h>> \in v.markers <=> <<j, h>> \in u.markers

(* Asking is a step of the main thread. *)
LEMMA GoingOn ==
    ASSUME NEW w, NEW u, NEW v, NEW i \in AbtsIds, NEW k, NEW A, Apart(w, u, i), Onward(u, v, i, k, A)
    PROVE  MainStep(w, v, i, k, A)
<1>1. AskedHw(w, v, i, k, A)
  BY DEF Apart, Onward, AskedHw
<1>2. ASSUME NEW j \in AbtsIds \ {i}, NEW h \in FcHwqps
      PROVE  v.abts[j] = w.abts[j] /\ ReportsKept(w, v, j, h) /\ (<<j, h>> \in v.markers <=> <<j, h>> \in w.markers)
  BY <1>2 DEF Apart, Onward, OthersSame, ReportsKept
<1>3. OthersSame(w, v, i)
  BY <1>2, HomeOf DEF OthersSame, Apart, Onward
<1> QED BY <1>1, <1>3 DEF MainStep, Apart, Onward

(* The ABTS is answered. *)
LEMMA AnswerKeeps ==
    ASSUME NEW w, Sound(w), NEW u, NEW i \in AbtsIds, Apart(w, u, i), u.wrong = w.wrong, u.left.sync = w.left.sync,
           Nowhere(u, i), u.abts[i].req \in FcReqs, u.abts[i].waits = 0,
           u.abts[i].handled => Gone(u, u.abts[i].req),
           ~u.abts[i].handled /\ u.left.sync =>
               Gone(u, u.abts[i].req) \/ u.hw[HwqpOf(u.abts[i].req)].conn = "deleted"
    PROVE  Sound(AnswerAbts(u, i))
<1> DEFINE b == u.abts[i]
           c == [b EXCEPT !.st = "answered"]
           v == AnswerAbts(u, i)
<1>1. u \in FqType /\ b \in FqAbts
  BY FqParts DEF Apart
<1>2. c.st = "answered" /\ c.req = b.req /\ c.asked = b.asked /\ c.waits = b.waits
  BY <1>1 DEF FqAbts
<1>3. HwqpOf(b.req) \in FcHwqps /\ TruthOf(u)
  BY HomeOf DEF Sound, TruthOf
<1>4. ConnAt(u, HwqpOf(b.req))
  <2>1. ConnAt(w, HwqpOf(b.req))
    BY <1>3 DEF Sound
  <2> QED BY <2>1 DEF Apart, ConnAt, DelSet
<1>5. AbtsSet(u, v, i, c) /\ TruthOf(v)
  BY <1>1, <1>3, <1>4, AnswerIsTrue
<1> HIDE DEF c, v
<1>6. AskedHw(u, v, i, "abts", {}) /\ v.abts[i] = c /\ v.req = u.req /\ v.main = u.main /\ v.markers = u.markers
  BY <1>5 DEF AbtsSet, AskedHw
<1>7. Onward(u, v, i, "abts", {})
  BY <1>5, <1>6 DEF Onward, AbtsSet
<1>8. MainStep(w, v, i, "abts", {})
  BY <1>7, GoingOn
<1>9. \A h \in FcHwqps : <<i, h>> \notin v.markers
  BY <1>6 DEF Nowhere
<1>10. Cardinality({}) = 0
  BY FS_EmptySet
<1>11. (\A h \in FcHwqps : PlacesAt(v, i, h)) /\ ToldAt(v, i) /\ FrameAt(v, i)
  <2>1. /\ {} \subseteq v.abts[i].asked /\ {} \subseteq FcHwqps
        /\ \A h \in FcHwqps : <<i, h>> \in v.markers <=> "abts" = "sync" /\ h \in {}
        /\ v.abts[i].st \in {"asked", "answered"} /\ (v.abts[i].st = "asked" <=> {} # {}) /\ v.abts[i].req \in FcReqs
        /\ v.abts[i].waits = Cardinality({})
    BY <1>2, <1>6, <1>9, <1>10
  <2> QED BY <1>1, <1>6, <2>1, SentAbts
<1>12. TruthAt(v, i)
  BY <1>2, <1>6 DEF TruthAt
<1>13. AbtsAt(v, i)
  BY <1>11, <1>12 DEF AbtsAt
<1>14. Sound(v)
  BY <1>5, <1>8, <1>13, MainStepSound
<1> QED BY <1>14 DEF v

(* It asks the hwqps. *)
Asked(u, b) ==
    /\ b.st = "asked" /\ b.req \in FcReqs /\ b.asked \subseteq FcHwqps /\ b.asked # {} /\ b.waits = Cardinality(b.asked)
    /\ ~b.handled
    /\ HwqpOf(b.req) \notin b.asked => u.hw[HwqpOf(b.req)].conn = "deleted"

(* Asking the hwqps about a command keeps the invariant. *)
LEMMA AskingKeeps ==
    ASSUME NEW w, Sound(w), NEW u, NEW v, NEW i \in AbtsIds, Apart(w, u, i), NEW k \in {"abts", "sync"},
           NEW b, b = v.abts[i], Onward(u, v, i, k, b.asked), v.wrong = w.wrong, v.left.sync = w.left.sync,
           Nowhere(u, i), Asked(u, b),
           \A h \in FcHwqps : <<i, h>> \in v.markers <=> k = "sync" /\ h \in b.asked,
           k = "sync" => ~b.synced, k = "abts" /\ b.synced /\ HwqpOf(b.req) \in b.asked => b.req \notin u.air
    PROVE  Sound(v)
<1> DEFINE A == b.asked
           home == HwqpOf(b.req)
<1>1. MainStep(w, v, i, k, A)
  BY GoingOn
<1>2. /\ \A h \in FcHwqps : PlacesAt(v, i, h)
      /\ ToldAt(v, i) /\ FrameAt(v, i)
      /\ \A h \in FcHwqps : /\ Asking(v, i, h) <=> k = "abts" /\ h \in A
                            /\ SyncPart(v, i, h) <=> k = "sync" /\ h \in A
                            /\ ~At(v.main, Found(i, h)) /\ ~Waiting(v, i, h)
  <2>1. u \in FqType /\ AskedHw(u, v, i, k, A) /\ v.req = u.req /\ v.main = u.main
    BY DEF Apart, Onward
  <2>2. /\ A \subseteq v.abts[i].asked /\ A \subseteq FcHwqps
        /\ v.abts[i].st \in {"asked", "answered"} /\ (v.abts[i].st = "asked" <=> A # {}) /\ v.abts[i].req \in FcReqs
        /\ v.abts[i].waits = Cardinality(A)
    BY DEF Asked
  <2>3. \A h \in FcHwqps : <<i, h>> \in v.markers <=> k = "sync" /\ h \in A
    OBVIOUS
  <2> HIDE DEF A
  <2> QED BY <2>1, <2>2, <2>3, SentAbts
<1>3. home \in FcHwqps /\ v.hw[home].conn = u.hw[home].conn /\ v.air = u.air
  BY HomeOf DEF Asked, Onward, AskedHw
<1>4. Syncing(v, i) => k = "sync"
  BY <1>2 DEF Syncing
<1>5. ~b.handled /\ (home \notin b.asked => v.hw[home].conn = "deleted")
  BY <1>3 DEF Asked
<1> HIDE DEF home
<1>6. TruthAt(v, i)
  <2>1. ~(b.handled \/ \E h \in FcHwqps : At(v.main, Found(i, h)))
    BY <1>2, <1>5
  <2>2. Syncing(v, i) => ~b.handled /\ ~b.synced
    BY <1>4, <1>5
  <2>3. home \in b.asked /\ Syncing(v, i) => <<i, home>> \in v.markers
    BY <1>3, <1>4
  <2>4. home \in b.asked /\ b.synced => b.req \notin v.air /\ Asking(v, i, home)
    BY <1>2, <1>3 DEF home
  <2> QED BY <1>5, <2>1, <2>2, <2>3, <2>4 DEF TruthAt, home
<1>7. AbtsAt(v, i)
  BY <1>2, <1>6 DEF AbtsAt
<1>8. TruthOf(v)
  BY DEF Sound, TruthOf
<1> QED BY <1>1, <1>7, <1>8, MainStepSound

(* The host sends an ABTS frame. *)
LEMMA AbtsFrameKeeps ==
    ASSUME Sound(fcr), NEW i \in AbtsIds, NEW r \in FcReqs, AbtsFrame(i, r)
    PROVE  Sound(fcr')
<1> DEFINE hwqps == {h \in FcHwqps : fcr.hw[h].conn # "deleted"}
           s == FcSpend(fcr, "abts")
           c == [s.abts[i] EXCEPT !.st = "asked", !.req = r, !.asked = hwqps, !.waits = Cardinality(hwqps)]
           u == [s EXCEPT !.abts[i] = c]
           v == AskHwqps(u, i, "abts")
<1>1. fcr \in FqType /\ fcr.crash = "no" /\ fcr.left.abts > 0 /\ fcr.abts[i].st = "unused"
  BY DEF Sound, Core, AbtsFrame
<1>2. fcr' = IF hwqps = {} THEN AnswerAbts(u, i) ELSE v
  BY DEF AbtsFrame
<1>3. /\ s \in FqType /\ s.left.sync = fcr.left.sync /\ s.left.xchgs = fcr.left.xchgs
      /\ s.req = fcr.req /\ s.hw = fcr.hw /\ s.abts = fcr.abts /\ s.main = fcr.main /\ s.air = fcr.air
      /\ s.markers = fcr.markers /\ s.dead = fcr.dead /\ s.crash = fcr.crash /\ s.wrong = fcr.wrong
  BY <1>1, SpendFacts
<1> HIDE DEF s
<1>4. AbtsAt(fcr, i)
  BY DEF Sound
<1>5. s.abts[i] = NewAbts /\ OpenAt(fcr, i) = {}
  BY <1>1, <1>3, <1>4 DEF AbtsAt, FrameAt
<1>6. Nowhere(fcr, i)
  BY <1>4, <1>5, NoneOpen DEF AbtsAt
<1>7. hwqps \in SUBSET FcHwqps /\ IsFiniteSet(hwqps) /\ Cardinality(hwqps) \in Nat
  <2>1. hwqps \in SUBSET FcHwqps
    OBVIOUS
  <2> HIDE DEF hwqps
  <2> QED BY <2>1, HomeOf, FS_Subset, FS_CardinalityType
<1>8. HwqpOf(r) \in FcHwqps /\ (HwqpOf(r) \notin hwqps => fcr.hw[HwqpOf(r)].conn = "deleted")
  BY HomeOf
<1> HIDE DEF hwqps
<1>9. /\ c \in FqAbts /\ c.st = "asked" /\ c.req = r /\ c.asked = hwqps /\ c.waits = Cardinality(hwqps)
      /\ c.handled = FALSE /\ c.synced = FALSE
  <2>1. s.abts[i] \in FqAbts /\ s.abts[i].handled = FALSE /\ s.abts[i].synced = FALSE
    BY <1>3, <1>5, FqParts DEF NewAbts
  <2> DEFINE a == s.abts[i]
             n == Cardinality(hwqps)
  <2>2. c = [a EXCEPT !.st = "asked", !.req = r, !.asked = hwqps, !.waits = n] /\ a \in FqAbts /\ a.handled = FALSE
        /\ a.synced = FALSE /\ n \in Int
    BY <1>7, <2>1
  <2> HIDE DEF a, n, c
  <2>3. /\ c \in FqAbts /\ c.st = "asked" /\ c.req = r /\ c.asked = hwqps /\ c.waits = n
        /\ c.handled = FALSE /\ c.synced = FALSE
    BY <1>7, <2>2 DEF FqAbts
  <2> QED BY <2>3 DEF n
<1> HIDE DEF c
<1>10. AbtsSet(s, u, i, c) /\ u.wrong = s.wrong
  BY <1>3, <1>9, AbtsSetFacts
<1> HIDE DEF u
<1>11. u.abts[i] = c /\ u.main = fcr.main /\ u.markers = fcr.markers /\ u.left.sync = fcr.left.sync /\ u.air = fcr.air
       /\ u.hw = fcr.hw /\ u.crash = "no" /\ u.wrong = fcr.wrong /\ u \in FqType
  BY <1>1, <1>3, <1>10 DEF AbtsSet
<1>12. Apart(fcr, u, i)
  BY <1>1, <1>3, <1>10 DEF AbtsSet, Apart, OthersSame, ReportsKept
<1>13. Nowhere(u, i)
  <2>1. u.req = fcr.req
    BY <1>3, <1>10 DEF AbtsSet
  <2> QED BY <1>6, <1>11, <2>1 DEF Nowhere
<1>14. CASE hwqps = {}
  <2>1. c.waits = 0 /\ fcr.hw[HwqpOf(r)].conn = "deleted"
    BY <1>8, <1>9, <1>14, FS_EmptySet
  <2>2. /\ u.abts[i].req \in FcReqs /\ u.abts[i].waits = 0
        /\ u.abts[i].handled => Gone(u, u.abts[i].req)
        /\ ~u.abts[i].handled /\ u.left.sync =>
               Gone(u, u.abts[i].req) \/ u.hw[HwqpOf(u.abts[i].req)].conn = "deleted"
    BY <1>9, <1>11, <2>1
  <2>3. Sound(AnswerAbts(u, i))
    BY <1>11, <1>12, <1>13, <2>2, AnswerKeeps
  <2> QED BY <1>2, <1>14, <2>3
<1>15. CASE hwqps # {}
  <2>1. Asks(u, v, i, "abts")
    BY <1>11, AskFacts
  <2> HIDE DEF v
  <2>2. c = v.abts[i] /\ v.wrong = fcr.wrong /\ v.left.sync = fcr.left.sync /\ v.markers = fcr.markers
    BY <1>11, <2>1 DEF Asks
  <2>3. Onward(u, v, i, "abts", c.asked)
    BY <1>11, <2>1 DEF Asks, Onward
  <2>4. Asked(u, c)
    BY <1>7, <1>8, <1>9, <1>11, <1>15 DEF Asked
  <2>5. /\ \A h \in FcHwqps : <<i, h>> \in v.markers <=> "abts" = "sync" /\ h \in c.asked
        /\ "abts" = "sync" => ~c.synced
        /\ "abts" = "abts" /\ c.synced /\ HwqpOf(c.req) \in c.asked => c.req \notin u.air
    BY <1>6, <1>9, <2>2 DEF Nowhere
  <2>6. Sound(v)
    BY <1>12, <1>13, <2>2, <2>3, <2>4, <2>5, AskingKeeps
  <2> QED BY <1>2, <1>15, <2>6
<1> QED BY <1>14, <1>15

(* A message to the main thread is taken, and what it leads to. *)
LEMMA MainMessageKeeps ==
    ASSUME Sound(fcr), FcMainMessage
    PROVE  Sound(fcr')
<1> DEFINE m == Head(fcr.main)
           u == PopMain(fcr, m)
           i == m.i
           b == fcr.abts[i]
           w == [fcr EXCEPT !.main = Tail(@), !.abts[i].waits = @ - 1,
                            !.abts[i].handled = (@ \/ (m.k = "abts" /\ m.found))]
<1>1. fcr \in FqType /\ fcr.crash = "no" /\ fcr.main # <<>>
  BY DEF Sound, Core, FcMainMessage
<1>2. i \in AbtsIds /\ m.k \in {"abts", "synced"} /\ PoppedState(fcr, u, m)
  BY <1>1, PopKeeps
<1>3. w = u
  <2> DEFINE hd == b.handled \/ (m.k = "abts" /\ m.found)
             b1 == [b EXCEPT !.waits = b.waits - 1]
             b2 == [b1 EXCEPT !.handled = (b1.handled \/ (m.k = "abts" /\ m.found))]
             B1 == [fcr.abts EXCEPT ![i] = b1]
             B2 == [B1 EXCEPT ![i] = b2]
             B == [fcr.abts EXCEPT ![i] = Heard(b, m)]
             M == Tail(fcr.main)
             w1 == [fcr EXCEPT !.main = M]
             w2 == [w1 EXCEPT !.abts = B1]
             T1(x) == [x EXCEPT !.abts[i].waits = @ - 1]
             T2(x) == [x EXCEPT !.abts[i].handled = (@ \/ (m.k = "abts" /\ m.found))]
  <2>1. fcr.abts \in [AbtsIds -> FqAbts] /\ b \in FqAbts
    BY <1>1, <1>2, FqFields, FqParts
  <2>2. b1.handled = b.handled /\ b2 = Heard(b, m)
    BY <2>1 DEF Heard, FqAbts
  <2>3. w1.abts = fcr.abts /\ w1.main = M
    BY <1>1 DEF FqType
  <2> HIDE DEF b1
  <2>4. B1[i] = b1 /\ B2 = B
    BY <1>2, <2>1, <2>2
  <2> HIDE DEF B1
  <2>5. w2.abts = B1
    BY <1>1, <2>3 DEF FqType
  <2>6. w = [w2 EXCEPT !.abts = B2]
    <3>1. w = T2(T1(w1)) OBVIOUS
    <3>2. T1(w1) = w2 BY <2>3 DEF b1, B1
    <3>3. T2(w2) = [w2 EXCEPT !.abts = [w2.abts EXCEPT ![i] =
                        [w2.abts[i] EXCEPT !.handled = (w2.abts[i].handled \/ (m.k = "abts" /\ m.found))]]]
      OBVIOUS
    <3> HIDE DEF w2, w, T1, T2
    <3> QED BY <2>4, <2>5, <3>1, <3>2, <3>3
  <2>7. u = [fcr EXCEPT !.main = M, !.abts = B]
    BY DEF PopMain
  <2> HIDE DEF M, B, B2
  <2>8. [w2 EXCEPT !.abts = B2] = [fcr EXCEPT !.main = M, !.abts = B]
    BY <1>1, <2>4 DEF FqType
  <2> QED BY <2>6, <2>7, <2>8
<1>4. \/ u.abts[i].waits > 0 /\ fcr' = u
      \/ u.abts[i].waits = 0 /\ m.k = "abts" /\ fcr' = AllAnswered(u, i)
      \/ u.abts[i].waits = 0 /\ m.k = "synced" /\ fcr' = AllSynced(u, i)
  BY <1>3 DEF FcMainMessage
<1> HIDE DEF u, m
<1>5. /\ u \in FqType /\ u.crash = "no" /\ u.req = fcr.req /\ u.hw = fcr.hw /\ u.air = fcr.air /\ u.markers = fcr.markers
      /\ u.dead = fcr.dead /\ u.left = fcr.left /\ u.wrong = fcr.wrong /\ MainStep(fcr, u, i, "abts", {})
  BY <1>1, <1>2 DEF PoppedState
<1>6. Apart(fcr, u, i)
  BY <1>5 DEF Apart, MainStep
<1> DEFINE c == u.abts[i]
           A == c.asked
           home == HwqpOf(c.req)
<1>7. /\ c \in FqAbts /\ c.st = "asked" /\ c.req \in FcReqs /\ A \subseteq FcHwqps /\ A # {}
      /\ OpenAt(u, i) \subseteq A /\ c.waits = Cardinality(OpenAt(u, i)) /\ IsFiniteSet(OpenAt(u, i))
      /\ \A h \in FcHwqps : PlacesAt(u, i, h)
      /\ ToldAt(u, i) /\ TruthAt(u, i)
      /\ \A h, k \in FcHwqps : ~(AbtsPart(u, i, h) /\ SyncPart(u, i, k))
      /\ m.k = "synced" /\ home \in A /\ <<i, home>> \notin u.markers => c.req \notin u.air
  <2>1. c \in FqAbts
    BY <1>2, <1>5, FqParts
  <2>2. PoppedAbts(fcr, u, m)
    BY <1>2 DEF PoppedState
  <2> QED BY <1>5, <2>1, <2>2 DEF PoppedAbts
<1>8. home \in FcHwqps /\ IsFiniteSet(A) /\ Cardinality(A) \in Nat
  BY <1>7, HomeOf, FS_Subset, FS_CardinalityType
<1>9. /\ c.handled \in BOOLEAN /\ c.synced \in BOOLEAN
      /\ c.handled => Gone(u, c.req)
      /\ home \notin A => u.hw[home].conn = "deleted"
      /\ home \in A /\ c.synced => c.req \notin u.air
      /\ home \in A /\ c.synced /\ ~Asking(u, i, home) /\ ~Waiting(u, i, home) =>
            Gone(u, c.req) \/ u.hw[home].conn = "deleted"
  BY <1>7 DEF TruthAt, FqAbts
<1>10. c.waits = 0 => Nowhere(u, i)
  <2>1. c.waits = 0 => OpenAt(u, i) = {}
    BY <1>7, FS_EmptySet
  <2> QED BY <1>2, <1>7, <2>1, NoneOpen
<1>11. CASE c.waits > 0 /\ fcr' = u
  <2>1. OpenAt(u, i) # {}
    BY <1>7, <1>11, FS_EmptySet
  <2>2. FrameAt(u, i)
    BY <1>7, <2>1 DEF FrameAt
  <2>3. AbtsAt(u, i)
    BY <1>7, <2>2 DEF AbtsAt
  <2>4. TruthOf(u)
    BY <1>5 DEF Sound, TruthOf
  <2>5. Sound(u)
    BY <1>2, <1>5, <2>3, <2>4, MainStepSound
  <2> QED BY <1>11, <2>5
<1>12. CASE c.waits = 0 /\ m.k = "abts" /\ fcr' = AllAnswered(u, i)
  <2>1. CASE ~c.handled /\ ~c.synced /\ u.left.sync
    <3> DEFINE d == [c EXCEPT !.waits = Cardinality(A)]
               s == [u EXCEPT !.abts[i] = d]
               t == AskHwqps(s, i, "sync")
               P == {<<i, h>> : h \in A}
               N == t.markers \cup P
               v == [t EXCEPT !.markers = N]
    <3>1. AllAnswered(u, i) = v
      <4>1. [u EXCEPT !.abts[i].waits = Cardinality(u.abts[i].asked)] = s OBVIOUS
      <4>2. AllAnswered(u, i) = [AskHwqps([u EXCEPT !.abts[i].waits = Cardinality(u.abts[i].asked)], i, "sync") EXCEPT
                !.markers = @ \cup {<<i, h>> : h \in u.abts[i].asked}]
        BY <2>1 DEF AllAnswered
      <4> QED BY <4>1, <4>2
    <3>2. d \in FqAbts /\ d.waits = Cardinality(A) /\ d.st = "asked" /\ d.req = c.req /\ d.asked = A
          /\ d.handled = c.handled /\ d.synced = c.synced
      <4> DEFINE n == Cardinality(A)
      <4>1. n \in Int /\ d = [c EXCEPT !.waits = n] BY <1>8
      <4> HIDE DEF n, d
      <4>2. d \in FqAbts /\ d.waits = n /\ d.st = c.st /\ d.req = c.req /\ d.asked = c.asked
            /\ d.handled = c.handled /\ d.synced = c.synced
        BY <1>7, <4>1 DEF FqAbts
      <4> QED BY <1>7, <4>2 DEF n
    <3> HIDE DEF d
    <3>3. AbtsSet(u, s, i, d) /\ s.wrong = u.wrong BY <1>2, <1>5, <3>2, AbtsSetFacts
    <3> HIDE DEF s
    <3>4. Asks(s, t, i, "sync") BY <1>2, <3>3, AskFacts DEF AbtsSet
    <3> HIDE DEF t
    <3>5. t \in FqType /\ t.markers = u.markers /\ t.wrong = fcr.wrong /\ t.left = u.left /\ t.abts = s.abts
          /\ s.abts[i] = d
          /\ AskedHw(s, t, i, "sync", A) /\ t.main = u.main /\ t.req = u.req /\ t.air = u.air /\ t.dead = u.dead
          /\ t.crash = u.crash /\ s.hw = u.hw /\ \A j \in AbtsIds \ {i} : s.abts[j] = u.abts[j]
      BY <1>5, <3>2, <3>3, <3>4 DEF Asks, AbtsSet
    <3>6. N \in SUBSET (AbtsIds \X FcHwqps) /\ \A j \in AbtsIds, h \in FcHwqps :
              <<j, h>> \in N <=> <<j, h>> \in u.markers \/ (j = i /\ h \in A)
      <4>1. u.markers \in SUBSET (AbtsIds \X FcHwqps) BY <1>5, FqFields
      <4> QED BY <1>2, <1>7, <3>5, <4>1
    <3> HIDE DEF N
    <3>7. v \in FqType BY <3>5, <3>6, FqRetyped
    <3>8. v.markers = N /\ v.req = t.req /\ v.hw = t.hw /\ v.main = t.main /\ v.abts = t.abts /\ v.air = t.air
          /\ v.dead = t.dead /\ v.left = t.left /\ v.crash = t.crash /\ v.wrong = t.wrong
      BY <3>5 DEF FqType
    <3> HIDE DEF v
    <3>9. AskedHw(u, v, i, "sync", d.asked) BY <3>2, <3>5, <3>8 DEF AskedHw
    <3>10. Onward(u, v, i, "sync", d.asked) BY <3>5, <3>6, <3>7, <3>8, <3>9 DEF Onward
    <3>11. Asked(u, d) BY <1>7, <1>9, <2>1, <3>2 DEF Asked
    <3>12. d = v.abts[i] /\ v.wrong = fcr.wrong /\ v.left.sync = fcr.left.sync
      BY <1>5, <3>5, <3>8
    <3>13. Nowhere(u, i) BY <1>10, <1>12
    <3>14. /\ \A h \in FcHwqps : <<i, h>> \in v.markers <=> "sync" = "sync" /\ h \in d.asked
           /\ "sync" = "sync" => ~d.synced
           /\ "sync" = "abts" /\ d.synced /\ HwqpOf(d.req) \in d.asked => d.req \notin u.air
      BY <1>2, <2>1, <3>2, <3>6, <3>8, <3>13 DEF Nowhere
    <3>15. Sound(v) BY <1>2, <1>6, <3>10, <3>11, <3>12, <3>13, <3>14, AskingKeeps
    <3> QED BY <1>12, <3>1, <3>15
  <2>2. CASE ~(~c.handled /\ ~c.synced /\ u.left.sync)
    <3>1. AllAnswered(u, i) = AnswerAbts(u, i) BY <2>2 DEF AllAnswered
    <3>2. Nowhere(u, i) BY <1>10, <1>12
    <3>3. ~c.handled /\ u.left.sync => Gone(u, c.req) \/ u.hw[home].conn = "deleted"
      <4>1. ~Asking(u, i, home) /\ ~Waiting(u, i, home)
        BY <1>7, <1>8, <3>2 DEF Nowhere, Asking, Waiting
      <4> QED BY <1>9, <2>2, <4>1
    <3>4. Sound(AnswerAbts(u, i))
      BY <1>2, <1>5, <1>6, <1>7, <1>9, <1>12, <3>2, <3>3, AnswerKeeps
    <3> QED BY <1>12, <3>1, <3>4
  <2> QED BY <2>1, <2>2
<1>13. CASE c.waits = 0 /\ m.k = "synced" /\ fcr' = AllSynced(u, i)
  <2> DEFINE d == [c EXCEPT !.synced = TRUE, !.handled = FALSE, !.waits = Cardinality(A)]
             s == [u EXCEPT !.abts[i] = d]
             v == AskHwqps(s, i, "abts")
  <2>1. AllSynced(u, i) = v
    BY DEF AllSynced
  <2>2. d \in FqAbts /\ d.waits = Cardinality(A) /\ d.st = "asked" /\ d.req = c.req /\ d.asked = A
        /\ d.handled = FALSE
    <3> DEFINE n == Cardinality(A)
    <3>1. n \in Int /\ d = [c EXCEPT !.synced = TRUE, !.handled = FALSE, !.waits = n]
      BY <1>8
    <3> HIDE DEF n, d
    <3>2. d \in FqAbts /\ d.waits = n /\ d.st = c.st /\ d.req = c.req /\ d.asked = c.asked
          /\ d.handled = FALSE
      BY <1>7, <3>1 DEF FqAbts
    <3> QED BY <1>7, <3>2 DEF n
  <2> HIDE DEF d
  <2>3. AbtsSet(u, s, i, d) /\ s.wrong = u.wrong
    BY <1>2, <1>5, <2>2, AbtsSetFacts
  <2> HIDE DEF s
  <2>4. Asks(s, v, i, "abts")
    BY <1>2, <2>3, AskFacts DEF AbtsSet
  <2> HIDE DEF v
  <2>5. v \in FqType /\ v.markers = u.markers /\ v.wrong = fcr.wrong /\ v.left = u.left /\ v.abts = s.abts /\ s.abts[i] = d
        /\ AskedHw(s, v, i, "abts", d.asked) /\ v.main = u.main /\ v.req = u.req /\ v.air = u.air /\ v.dead = u.dead
        /\ v.crash = u.crash /\ s.hw = u.hw /\ \A j \in AbtsIds \ {i} : s.abts[j] = u.abts[j]
    BY <1>5, <2>2, <2>3, <2>4 DEF Asks, AbtsSet
  <2>6. AskedHw(u, v, i, "abts", d.asked)
    BY <2>5 DEF AskedHw
  <2>7. Onward(u, v, i, "abts", d.asked)
    BY <2>5, <2>6 DEF Onward
  <2>8. Asked(u, d)
    BY <1>7, <1>9, <2>2 DEF Asked
  <2>9. d = v.abts[i] /\ v.wrong = fcr.wrong /\ v.left.sync = fcr.left.sync
    BY <1>5, <2>5
  <2>10. Nowhere(u, i)
    BY <1>10, <1>13
  <2>11. /\ \A h \in FcHwqps : <<i, h>> \in v.markers <=> "abts" = "sync" /\ h \in d.asked
         /\ "abts" = "sync" => ~d.synced
         /\ "abts" = "abts" /\ d.synced /\ HwqpOf(d.req) \in d.asked => d.req \notin u.air
    BY <1>7, <1>8, <1>13, <2>2, <2>5, <2>10 DEF Nowhere
  <2>12. Sound(v)
    BY <1>2, <1>6, <2>7, <2>8, <2>9, <2>10, <2>11, AskingKeeps
  <2> QED BY <1>13, <2>1, <2>12
<1> QED BY <1>4, <1>11, <1>12, <1>13

(* A list without repetitions is as long as the set of its elements. *)
LEMMA LengthIsCount ==
    ASSUME NEW S, NEW s \in Seq(S), IsInjective(s)
    PROVE  Len(s) = Cardinality(ToSet(s))
<1> DEFINE n == Len(s)
           T == ToSet(s)
<1>1. n \in Nat /\ DOMAIN s = 1 .. n
  BY LenProperties
<1>2. s \in Surjection(1 .. n, T) /\ s \in Injection(1 .. n, T)
  <2>1. s \in [1 .. n -> T]
    BY <1>1 DEF ToSet
  <2> QED BY <1>1, <2>1 DEF IsInjective, Surjection, Injection, ToSet
<1>3. IsFiniteSet(1 .. n) /\ Cardinality(1 .. n) = n
  <2>1. Cardinality(1 .. n) = IF 1 > n THEN 0 ELSE n - 1 + 1
    BY <1>1, FS_Interval
  <2> HIDE DEF n
  <2> QED BY <1>1, <2>1, FS_Interval
<1> HIDE DEF n, T
<1>4. s \in Bijection(1 .. n, T)
  BY <1>2 DEF Bijection
<1>5. Cardinality(T) = Cardinality(1 .. n)
  BY <1>3, <1>4, FS_Bijection DEF ExistsBijection
<1> QED BY <1>3, <1>5 DEF n, T

(* The beginning. *)
LEMMA FqInit == FcReqInit => Sound(fcr)
<1> SUFFICES ASSUME FcReqInit PROVE Sound(fcr)
  OBVIOUS
<1> DEFINE R == [r \in FcReqs |-> FreeFcReq]
           x == [on |-> TRUE, msgs |-> <<>>, syncs |-> {}, pending |-> <<>>, conn |-> "created", left |-> 0]
           H == [h \in FcHwqps |-> x]
           B == [i \in AbtsIds |-> NewAbts]
<1>1. PICK mix \in FcReqMixes :
          fcr = [req |-> R, hw |-> H, abts |-> B, main |-> <<>>, air |-> {}, markers |-> {}, dead |-> FALSE,
                 left |-> mix, crash |-> "no", wrong |-> {}]
  BY DEF FcReqInit, AbtsIds
<1>2. mix \in FqLeft
  BY FcReqMixesAssumption DEF FqLeft, FqKinds
<1>3. FreeFcReq \in FqReq /\ x \in FqHw /\ NewAbts \in FqAbts
  <2>1. <<>> \in Seq(AbtsIds) /\ <<>> \in Seq(FqMsg) /\ <<>> \in Seq(FcReqs)
    OBVIOUS
  <2> QED BY <2>1 DEF FreeFcReq, NewAbts, FqReq, FqHw, FqAbts, FqPhases, FqKinds
<1>4. /\ R \in [FcReqs -> FqReq] /\ H \in [FcHwqps -> FqHw] /\ B \in [AbtsIds -> FqAbts]
      /\ (\A r \in FcReqs : R[r] = FreeFcReq) /\ (\A h \in FcHwqps : H[h] = x) /\ (\A i \in AbtsIds : B[i] = NewAbts)
  BY <1>3
<1>5. x.on = TRUE /\ x.msgs = <<>> /\ x.syncs = {} /\ x.pending = <<>> /\ x.conn = "created" /\ x.left = 0
  OBVIOUS
<1> HIDE DEF R, H, B, x
<1>6. /\ fcr.req = R /\ fcr.hw = H /\ fcr.abts = B /\ fcr.main = <<>> /\ fcr.air = {} /\ fcr.markers = {}
      /\ fcr.dead = FALSE /\ fcr.left = mix /\ fcr.crash = "no" /\ fcr.wrong = {}
  BY <1>1
<1>7. fcr \in FqType
  <2>1. <<>> \in Seq(FqMain) /\ "no" \in FqCrashes /\ {} \in FqWrongs
    BY DEF FqCrashes, FqWrongs
  <2> QED BY <1>1, <1>2, <1>4, <2>1 DEF FqType
<1>8. \A m : ~At(<<>>, m) /\ Once(<<>>, m)
  BY DEF At, Once
<1>9. \A i : Ordered(<<>>, i)
  BY DEF Ordered
<1>10. \A r \in FcReqs : ReqAt(fcr, r)
  BY <1>4, <1>6 DEF ReqAt, FreeFcReq
<1>11. \A h \in FcHwqps : PendingAt(fcr, h)
  <2> SUFFICES ASSUME NEW h \in FcHwqps PROVE PendingAt(fcr, h)
    OBVIOUS
  <2>1. \A r \in FcSlots[h] : fcr.req[r].st = "free"
    BY <1>4, <1>6, HomeOf DEF FreeFcReq
  <2>2. fcr.hw[h].pending = <<>> /\ IsInjective(<<>>) /\ ToSet(<<>>) = {}
    BY <1>4, <1>5, <1>6 DEF IsInjective, ToSet
  <2> QED BY <2>1, <2>2 DEF PendingAt
<1>12. Cardinality({}) = 0
  BY FS_EmptySet
<1>13. \A h \in FcHwqps : CapAt(fcr, h)
  <2> SUFFICES ASSUME NEW h \in FcHwqps PROVE CapAt(fcr, h)
    OBVIOUS
  <2>1. \A r \in FcSlots[h] : fcr.req[r].xchg = FALSE /\ fcr.req[r].buf = FALSE
    BY <1>4, <1>6, HomeOf DEF FreeFcReq
  <2>2. {r \in FcSlots[h] : fcr.req[r].xchg} = {} /\ {r \in FcSlots[h] : fcr.req[r].buf} = {}
    BY <2>1
  <2>3. Holders(fcr, h, "xchg") = {} /\ Holders(fcr, h, "buf") = {}
    BY <2>2, CapIsCount
  <2>4. fcr.left.xchgs \in Nat
    BY <1>2, <1>6 DEF FqLeft
  <2>5. Capacities(fcr, h)
    BY <1>12, <2>3, <2>4, FcReqCountsAssumption DEF Capacities
  <2> QED BY <2>5, CapIsCount
<1>14. \A h \in FcHwqps : EndAt(fcr, h)
  BY <1>4, <1>5, <1>6, <1>8, HomeOf DEF EndAt, FreeFcReq
<1>15. \A h \in FcHwqps : DelSet(fcr, h) = {}
  BY <1>4, <1>6, HomeOf DEF DelSet, FreeFcReq
<1>16. \A h \in FcHwqps : ConnAt(fcr, h)
  <2> SUFFICES ASSUME NEW h \in FcHwqps PROVE ConnAt(fcr, h)
    OBVIOUS
  <2>1. fcr.hw[h].conn = "created" /\ fcr.hw[h].left = 0 /\ ~At(fcr.hw[h].msgs, Del) /\ DelSet(fcr, h) = {}
    BY <1>4, <1>5, <1>6, <1>8, <1>15
  <2> QED BY <1>12, <2>1 DEF ConnAt
<1>17. ASSUME NEW i \in AbtsIds PROVE AbtsAt(fcr, i)
  <2>1. fcr.abts[i] = NewAbts
    BY <1>4, <1>6
  <2>2. \A r \in FcReqs : fcr.req[r].cbs = <<>>
    BY <1>4, <1>6 DEF FreeFcReq
  <2>3. ASSUME NEW h \in FcHwqps
        PROVE  fcr.hw[h].msgs = <<>> /\ fcr.hw[h].syncs = {} /\ <<i, h>> \notin fcr.markers
    BY <1>4, <1>5, <1>6
  <2>4. ASSUME NEW h \in FcHwqps
        PROVE  ~Asking(fcr, i, h) /\ ~Waiting(fcr, i, h) /\ ~Answered(fcr, i, h) /\ ~Marked(fcr, i, h)
    <3>1. NewAbts.req \in FcSlots[h] => NewAbts.req \in FcReqs BY HomeOf
    <3> QED BY <1>6, <1>8, <2>1, <2>2, <2>3, <3>1 DEF Asking, Waiting, Answered, Marked
  <2>5. \A h \in FcHwqps : PlacesAt(fcr, i, h)
    BY <1>6, <1>8, <1>9, <2>3, <2>4 DEF PlacesAt
  <2>6. ToldAt(fcr, i)
    BY <1>8, <2>2 DEF ToldAt
  <2>7. \A h \in FcHwqps : ~AbtsPart(fcr, i, h) /\ ~SyncPart(fcr, i, h)
    BY <1>6, <1>8, <2>4 DEF AbtsPart, SyncPart
  <2>8. OpenAt(fcr, i) = {}
    BY <2>7 DEF OpenAt
  <2>9. FrameAt(fcr, i)
    BY <1>12, <2>1, <2>7, <2>8 DEF FrameAt, NewAbts
  <2>10. TruthAt(fcr, i)
    BY <2>1 DEF TruthAt, NewAbts
  <2> QED BY <2>5, <2>6, <2>9, <2>10 DEF AbtsAt
<1>18. TruthOf(fcr)
  BY <1>6 DEF TruthOf
<1> QED BY <1>6, <1>7, <1>10, <1>11, <1>13, <1>14, <1>16, <1>17, <1>18 DEF Sound, Core

(* Every step. *)
LEMMA FqInvStep == FqInv(fcr) /\ [FcReqNext]_fcrVars => FqInv(fcr')
<1> SUFFICES ASSUME FqInv(fcr), [FcReqNext]_fcrVars PROVE FqInv(fcr')
  OBVIOUS
<1>1. CASE UNCHANGED fcrVars
  BY <1>1 DEF fcrVars
<1>2. CASE FcReqNext
  <2>1. FcReqAlive
    BY <1>2 DEF FcReqNext, FcSend, FcFrame, LibraryCompletes, HbaCompletes, AbtsFrame, FcProcessPending,
       HwqpMessage,
                FcDelete, FcMainMessage, FcDies, FcQuiesce, Marker
  <2>2. Sound(fcr)
    BY <2>1 DEF FqInv, FcReqAlive
  <2>3. ASSUME NEW r \in FcReqs, NEW data \in fcr.left.cmds, FcSend(r, data) PROVE Sound(fcr')
    BY <2>2, <2>3, SendKeeps
  <2>4. ASSUME NEW r \in FcReqs, FcFrame(r) \/ LibraryCompletes(r) \/ HbaCompletes(r) PROVE Sound(fcr')
    BY <2>2, <2>4, FrameKeeps, LibraryKeeps, HbaKeeps
  <2>5. ASSUME NEW r \in FcReqs, NEW i \in AbtsIds, AbtsFrame(i, r) PROVE Sound(fcr')
    BY <2>2, <2>5, AbtsFrameKeeps
  <2>6. ASSUME NEW h \in FcHwqps, FcProcessPending(h) \/ FcDelete(h) PROVE Sound(fcr')
    BY <2>2, <2>6, ProcessPendingKeeps, FcDeleteKeeps
  <2>7. ASSUME NEW h \in FcHwqps, HwqpMessage(h) PROVE FqInv(fcr')
    BY <2>2, <2>7, HwqpMessageKeeps
  <2>8. ASSUME FcMainMessage \/ FcDies \/ FcQuiesce PROVE Sound(fcr')
    BY <2>2, <2>8, MainMessageKeeps, FcDiesKeeps, FcQuiesceKeeps
  <2>9. ASSUME NEW m \in fcr.markers, Marker(m) PROVE Sound(fcr')
    BY <2>2, <2>9, MarkerKeeps
  <2>10. Sound(fcr') => FqInv(fcr')
    BY DEF FqInv
  <2> QED BY <1>2, <2>3, <2>4, <2>5, <2>6, <2>7, <2>8, <2>9, <2>10 DEF FcReqNext, AbtsIds
<1> QED BY <1>1, <1>2

(* What it says of the commands. *)
LEMMA FqInvCommands == FqInv(fcr) => FcCommands
<1> SUFFICES ASSUME FqInv(fcr) PROVE FcCommands
  OBVIOUS
<1>1. CASE fcr.crash # "no" /\ fcr.dead
  BY <1>1 DEF FcCommands, FcReqAlive
<1>2. CASE Sound(fcr)
  <2>1. fcr \in FqType /\ fcr.crash = "no"
    BY <1>2 DEF Sound, Core
  <2>2. FcResources
    <3> SUFFICES ASSUME NEW h \in FcHwqps
                 PROVE  /\ {r \in FcSlots[h] : fcr.req[r].st = "pending"} = ToSet(fcr.hw[h].pending)
                        /\ Len(fcr.hw[h].pending) = Cardinality(ToSet(fcr.hw[h].pending))
                        /\ FcUsed(fcr, h, "xchg") <= fcr.left.xchgs /\ FcUsed(fcr, h, "buf") <= FcBuffers
      BY DEF FcResources
    <3>1. PendingAt(fcr, h) /\ CapAt(fcr, h) BY <1>2 DEF Sound, Core
    <3>2. fcr.hw[h].pending \in Seq(FcReqs) /\ IsInjective(fcr.hw[h].pending)
      BY <2>1, <3>1, FqParts DEF PendingAt
    <3>3. Len(fcr.hw[h].pending) = Cardinality(ToSet(fcr.hw[h].pending))
      BY <3>2, LengthIsCount
    <3> QED BY <3>1, <3>3 DEF PendingAt, CapAt
  <2>3. AbtsTruth
    BY <1>2 DEF Sound, TruthOf, AbtsTruth
  <2>4. AbortsEnd
    <3> SUFFICES ASSUME fcr.main = <<>>, \A h \in FcHwqps : fcr.hw[h].msgs = <<>> /\ fcr.hw[h].on
                 PROVE  /\ \A r \in FcReqs : fcr.req[r].st # "aborted"
                        /\ \A i \in AbtsIds :
                              fcr.abts[i].st = "asked" =>
                                 \/ i \in ToSet(fcr.req[fcr.abts[i].req].cbs)
                                 \/ \E h \in FcHwqps : <<i, h>> \in fcr.markers
                        /\ \A h \in FcHwqps : fcr.hw[h].conn = "deleting" =>
                              \E r \in FcInUse(fcr, h) : fcr.req[r].del
      BY DEF AbortsEnd, AbtsIds
    <3>1. \A m : ~At(<<>>, m) BY DEF At
    <3>2. ASSUME NEW r \in FcReqs PROVE fcr.req[r].st # "aborted"
      <4>1. EndAt(fcr, HwqpOf(r)) /\ HwqpOf(r) \in FcHwqps /\ r \in FcSlots[HwqpOf(r)]
        BY <1>2, HomeOf DEF Sound, Core
      <4> QED BY <3>1, <4>1 DEF EndAt
    <3>3. ASSUME NEW i \in AbtsIds, fcr.abts[i].st = "asked"
          PROVE  \/ i \in ToSet(fcr.req[fcr.abts[i].req].cbs)
                 \/ \E h \in FcHwqps : <<i, h>> \in fcr.markers
      <4>1. OpenAt(fcr, i) # {} BY <1>2, <3>3 DEF Sound, AbtsAt, FrameAt
      <4>2. PICK h \in FcHwqps : AbtsPart(fcr, i, h) \/ SyncPart(fcr, i, h)
        BY <4>1 DEF OpenAt
      <4>3. Waiting(fcr, i, h) \/ <<i, h>> \in fcr.markers
        BY <3>1, <4>2 DEF AbtsPart, SyncPart, Asking, Answered, Marked
      <4> QED BY <4>3 DEF Waiting, At, ToSet
    <3>4. ASSUME NEW h \in FcHwqps, fcr.hw[h].conn = "deleting" PROVE \E r \in FcInUse(fcr, h) : fcr.req[r].del
      <4>1. DelSet(fcr, h) # {} BY <1>2, <3>1, <3>4 DEF Sound, ConnAt
      <4>2. PICK r \in FcSlots[h] : fcr.req[r].del
        BY <4>1 DEF DelSet
      <4>3. fcr.req[r].st # "free" BY <1>2, <4>2, HomeOf DEF Sound, Core, ReqAt
      <4> QED BY <4>2, <4>3 DEF FcInUse
    <3> QED BY <3>2, <3>3, <3>4
  <2> QED BY <2>1, <2>2, <2>3, <2>4 DEF FcCommands
<1> QED BY <1>1, <1>2 DEF FqInv

(* No more exchanges and buffers are used than there are, ABTS is answered
   truly, and every abort, ABTS and deletion waits for somebody who will
   answer it; a command is freed twice only on a dead port. *)
THEOREM FcCommandSoundness == FcReqSpec => []FcCommands
<1>1. FcReqInit => FqInv(fcr)
  BY FqInit DEF FqInv
<1>2. FqInv(fcr) /\ [FcReqNext]_fcrVars => FqInv(fcr)'
  BY FqInvStep
<1>3. FqInv(fcr) => FcCommands
  BY FqInvCommands
<1> QED BY <1>1, <1>2, <1>3, PTL DEF FcReqSpec
===============================================================================
