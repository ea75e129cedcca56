---------------------------- MODULE NvmfVfioProofs ----------------------------
(***************************************************************************)
(* Proofs about the vfio-user transport, for every number of controllers,  *)
(* poll groups and queues, every size of the rings and every bound: no     *)
(* poll group sleeps over a command, the queues of a controller outlive    *)
(* resets, removals of memory and the loss of the guest, and an endpoint   *)
(* answers everyone who waits.                                             *)
(***************************************************************************)
EXTENDS NvmfVfioUser, NvmfVfioQueue, NvmfVfioDoorbell, SumFacts

---------------------------------------------------------------------------
(* The rings *)

Slots == 0 .. RingSize - 1

(* Entries from one index to another. *)
Ahead(a, b) == (a - b) % RingSize

(* The remainder of a number that is at most one turn away. *)
LEMMA Modulo ==
    ASSUME NEW m \in Nat \ {0}, NEW d \in Int, -m <= d, d < m
    PROVE  d % m = IF d >= 0 THEN d ELSE d + m
<1> DEFINE q == d \div m
           r == d % m
<1>1. q \in Int /\ r \in 0 .. m - 1 /\ d = m * q + r
  OBVIOUS
<1> HIDE DEF q, r
<1>2. CASE q >= 1
  <2>1. m * q >= m
    BY <1>2, <1>1
  <2> QED BY <2>1, <1>1
<1>3. CASE q <= -2
  <2>1. m * q <= m * (-2)
    BY <1>3, <1>1
  <2> QED BY <2>1, <1>1
<1>4. CASE q = 0
  BY <1>1, <1>4 DEF r
<1>5. CASE q = -1
  <2>1. m * q = -m
    BY <1>5, <1>1
  <2> QED BY <1>1, <2>1 DEF r
<1> QED BY <1>1, <1>2, <1>3, <1>4, <1>5

(* The size of a ring. *)
LEMMA Sizes == RingSize \in Nat \ {0} /\ RingSize >= 2 /\ RingSize <= 65536
  BY RingSizeAssumption

(* The number of attempts. *)
LEMMA Attempts == RearmAttempts \in Nat /\ 0 \in 0 .. RearmAttempts - 1
  BY RearmAssumption

(* What they are on indices. *)
LEMMA RingFacts ==
    ASSUME NEW a \in Slots, NEW b \in Slots
    PROVE  /\ Ahead(a, b) = IF b <= a THEN a - b ELSE (a - b) + RingSize
           /\ Ahead(a, b) \in Slots
           /\ Advance(a) = IF a = RingSize - 1 THEN 0 ELSE a + 1
           /\ Advance(a) \in Slots
           /\ 0 \in Slots
<1> DEFINE d == a - b
           e == a + 1
<1>1. RingSize \in Nat \ {0} /\ a \in 0 .. RingSize - 1 /\ b \in 0 .. RingSize - 1
  BY Sizes DEF Slots
<1>2. d \in Int /\ -RingSize <= d /\ d < RingSize /\ (d >= 0 <=> b <= a)
  BY <1>1
<1> HIDE DEF d
<1>3. d % RingSize = IF d >= 0 THEN d ELSE d + RingSize
  BY <1>1, <1>2, Modulo
<1>4. Ahead(a, b) = IF b <= a THEN d ELSE d + RingSize
  BY <1>2, <1>3 DEF Ahead, d
<1>5. Ahead(a, b) = IF b <= a THEN a - b ELSE (a - b) + RingSize
  BY <1>4 DEF d
<1>6. Ahead(a, b) \in Slots
  BY <1>1, <1>5 DEF Slots
<1>7. e \in Int /\ (a # RingSize - 1 => -RingSize <= e /\ e < RingSize /\ e >= 0)
      /\ (a = RingSize - 1 => e = RingSize)
  BY <1>1
<1> HIDE DEF e
<1>8. e % RingSize = IF a = RingSize - 1 THEN 0 ELSE e
  <2>1. CASE a = RingSize - 1
    <3>1. RingSize % RingSize = 0 BY <1>1
    <3> QED BY <1>7, <2>1, <3>1
  <2>2. CASE a # RingSize - 1
    BY <1>1, <1>7, <2>2, Modulo
  <2> QED BY <2>1, <2>2
<1>9. Advance(a) = IF a = RingSize - 1 THEN 0 ELSE a + 1
  BY <1>8 DEF Advance, e
<1> QED BY <1>1, <1>5, <1>6, <1>9 DEF Slots

(* How the entries between two indices grow and shrink. *)
LEMMA Advances ==
    ASSUME NEW a \in Slots, NEW b \in Slots
    PROVE  /\ Ahead(a, a) = 0
           /\ Ahead(a, b) = 0 => a = b
           /\ Ahead(a, b) # RingSize - 1 => Ahead(Advance(a), b) = Ahead(a, b) + 1
           /\ a # b => Ahead(a, Advance(b)) = Ahead(a, b) - 1
           /\ Advance(a) = b <=> Ahead(a, b) = RingSize - 1
           /\ Advance(a) # a
<1> DEFINE nextA == Advance(a)
           nextB == Advance(b)
           x == Ahead(a, b)
           y == Ahead(nextA, b)
           z == Ahead(a, nextB)
           top == RingSize - 1
<1>1. top \in Int /\ top >= 1 /\ RingSize = top + 1 /\ a \in 0 .. top /\ b \in 0 .. top
  BY Sizes DEF Slots
<1>2. nextA \in Slots /\ nextB \in Slots
  BY RingFacts
<1>3. nextA = (IF a = top THEN 0 ELSE a + 1) /\ nextB = (IF b = top THEN 0 ELSE b + 1)
  BY RingFacts
<1> HIDE DEF nextA, nextB
<1>4. Ahead(a, a) = a - a /\ x = IF b <= a THEN a - b ELSE (a - b) + RingSize
  BY RingFacts, <1>1
<1>5. y = IF b <= nextA THEN nextA - b ELSE (nextA - b) + RingSize
  BY <1>2, RingFacts
<1>6. z = IF nextB <= a THEN a - nextB ELSE (a - nextB) + RingSize
  BY <1>2, RingFacts
<1> HIDE DEF x, y, z, top
<1>7. Ahead(a, a) = 0 /\ (x = 0 => a = b) /\ nextA # a
  BY <1>1, <1>3, <1>4
<1>8. (x # top => y = x + 1) /\ (nextA = b <=> x = top)
  <2>1. CASE a = top
    BY <1>1, <1>3, <1>4, <1>5, <2>1
  <2>2. CASE a # top
    BY <1>1, <1>3, <1>4, <1>5, <2>2
  <2> QED BY <2>1, <2>2
<1>9. a # b => z = x - 1
  <2>1. CASE b = top
    BY <1>1, <1>3, <1>4, <1>6, <2>1
  <2>2. CASE b # top
    BY <1>1, <1>3, <1>4, <1>6, <2>2
  <2> QED BY <2>1, <2>2
<1> QED BY <1>7, <1>8, <1>9 DEF nextA, nextB, x, y, z, top

(* One step back from a distance that is not zero is nearer. *)
LEMMA OneBack ==
    ASSUME NEW m \in Nat \ {0}, NEW new \in 0 .. m - 1, NEW old \in 0 .. m - 1, new # old
    PROVE  (new - old - 1) % m < (new - old) % m
<1> DEFINE d == new - old
           e == new - old - 1
<1>1. d \in Int /\ -m < d /\ -m <= d /\ d < m /\ d # 0 /\ e = d - 1
  OBVIOUS
<1> HIDE DEF d
<1>2. e \in Int
  BY <1>1
<1> HIDE DEF e
<1>3. d % m = IF d >= 0 THEN d ELSE d + m
  BY <1>1, Modulo
<1>5. -m <= e /\ e < m
  BY <1>1, <1>2
<1>6. e % m = IF e >= 0 THEN e ELSE e + m
  BY <1>2, <1>5, Modulo
<1>7. e % m < d % m
  BY <1>1, <1>3, <1>6
<1> QED BY <1>7 DEF d, e

(* The guest looks at the event index after it has put one command in: at
   the tail before it, BAR0 is asked for. *)
LEMMA EventAtOldTail ==
    ASSUME NEW new \in Slots, NEW old \in Slots, new # old
    PROVE  NeedEvent(old, new, old)
<1>1. RingSize \in Int /\ RingSize <= 65536
  BY Sizes
<1>2. ASSUME NEW m \in Nat \ {0}, RingSize <= m
      PROVE  (new - old - 1) % m < (new - old) % m
  <2>1. new \in 0 .. m - 1 /\ old \in 0 .. m - 1
    BY <1>1, <1>2 DEF Slots
  <2> QED BY <2>1, OneBack
<1>3. (new - old - 1) % 65536 < (new - old) % 65536
  BY <1>1, <1>2
<1> QED BY <1>3 DEF NeedEvent

---------------------------------------------------------------------------
(* Types *)

MixType == [intr : BOOLEAN, commands : Nat, pauses : Nat, creates : Nat]
GuestType == [tail : Slots, was : Slots, pc : {"idle", "written"}, open : Slots, handler : BOOLEAN]
PollType == [pc : {"poll", "sleep", "rearm", "write", "check"}, wake : BOOLEAN, old : Slots,
             tries : 0 .. RearmAttempts - 1]
SqType == [head : Slots, eidx : Slots, rearm : BOOLEAN]
CqType == [tail : Slots, head : Slots, lastHead : Slots, lastIrq : Slots, irq : BOOLEAN, idle : 0 .. 2]
DbType == [intr : BOOLEAN, state : {"running", "paused"}, failed : BOOLEAN, left : MixType,
           guest : GuestType, pg : PollType, sq : SqType, cq : CqType, busy : Slots]

(* Every open command of the guest is in the submission queue, under way,
   or in the completion queue. *)
Accounted(w) ==
    ~w.failed => Ahead(w.guest.tail, w.sq.head) + w.busy + Ahead(w.cq.tail, w.cq.head) = w.guest.open

(* A guest that still has to look at the event index has put in one
   command since. *)
TailWritten(w) == w.guest.pc = "written" => w.guest.tail = Advance(w.guest.was)

(* What the poll group writes to the event index is not past the tail. *)
Behind(w) ==
    /\ w.pg.pc = "write" => Ahead(w.pg.old, w.sq.head) <= Ahead(w.guest.tail, w.sq.head)
    /\ w.pg.pc = "check" => Ahead(w.sq.eidx, w.sq.head) <= Ahead(w.guest.tail, w.sq.head)

(* Who sleeps left the event index at the head; a guest that has put in a
   command since is about to look. *)
Sleeps(w) ==
    w.intr /\ w.pg.pc = "sleep" /\ ~w.pg.wake /\ w.state = "running" /\ ~w.failed =>
        \/ w.guest.tail = w.sq.head /\ w.sq.eidx = w.sq.head
        \/ w.guest.pc = "written" /\ w.guest.was = w.sq.eidx

Modes(w) == (w.pg.pc = "poll" <=> ~w.intr)

DbInv(w) == w \in DbType /\ Accounted(w) /\ TailWritten(w) /\ Behind(w) /\ Sleeps(w) /\ Modes(w)

(* The fields of a state. *)
LEMMA DbFields ==
    ASSUME NEW w \in DbType
    PROVE  /\ w.guest \in GuestType /\ w.pg \in PollType /\ w.sq \in SqType /\ w.cq \in CqType
           /\ w.left \in MixType /\ w.intr \in BOOLEAN /\ w.failed \in BOOLEAN
           /\ w.state \in {"running", "paused"} /\ w.busy \in Slots
  BY DEF DbType

(* A state with another field is one. *)
LEMMA Retyped ==
    ASSUME NEW w \in DbType
    PROVE  /\ \A x \in GuestType : [w EXCEPT !.guest = x] \in DbType
           /\ \A x \in PollType : [w EXCEPT !.pg = x] \in DbType
           /\ \A x \in SqType : [w EXCEPT !.sq = x] \in DbType
           /\ \A x \in CqType : [w EXCEPT !.cq = x] \in DbType
           /\ \A x \in Slots : [w EXCEPT !.busy = x] \in DbType
           /\ \A x \in MixType : [w EXCEPT !.left = x] \in DbType
           /\ \A x \in BOOLEAN : [w EXCEPT !.failed = x] \in DbType
           /\ \A x \in {"running", "paused"} : [w EXCEPT !.state = x] \in DbType
  BY DEF DbType

(* handle_suppressed_irq leaves the queues as they are. *)
LEMMA SuppressedFacts ==
    ASSUME NEW w \in DbType
    PROVE  \E c \in CqType : /\ c.tail = w.cq.tail /\ c.head = w.cq.head
                             /\ SuppressedIrq(w) = [w EXCEPT !.cq = c]
<1> DEFINE c == w.cq
           late == c.head # c.tail /\ c.head = c.lastHead
           up(k) == IF k < 2 THEN k + 1 ELSE k
           same == [c EXCEPT !.idle = up(c.idle)]
           seenHead == [c EXCEPT !.lastHead = c.head, !.idle = IF late /\ c.idle < 2 THEN c.idle + 1 ELSE c.idle]
           sent == [seenHead EXCEPT !.irq = TRUE, !.lastIrq = c.tail]
<1>1. c \in CqType
  BY DbFields
<1>2. up(c.idle) \in 0 .. 2
  BY <1>1 DEF CqType
<1>3. same \in CqType /\ same.tail = c.tail /\ same.head = c.head
  <2> DEFINE u == up(c.idle)
  <2> HIDE DEF u
  <2>1. \A x \in 0 .. 2 : LET s == [c EXCEPT !.idle = x] IN s \in CqType /\ s.tail = c.tail /\ s.head = c.head
    BY <1>1 DEF CqType
  <2> QED BY <1>2, <2>1
<1> DEFINE j == IF late /\ c.idle < 2 THEN c.idle + 1 ELSE c.idle
<1>4. j \in 0 .. 2
  BY <1>1 DEF CqType
<1> HIDE DEF j
<1>5. seenHead = [c EXCEPT !.lastHead = c.head, !.idle = j]
  BY DEF j
<1>6. \A x \in 0 .. 2 : LET s == [c EXCEPT !.lastHead = c.head, !.idle = x]
                        IN  s \in CqType /\ s.tail = c.tail /\ s.head = c.head
  BY <1>1 DEF CqType
<1> HIDE DEF seenHead
<1>7. seenHead \in CqType /\ seenHead.tail = c.tail /\ seenHead.head = c.head
  BY <1>4, <1>5, <1>6
<1>8. sent \in CqType /\ sent.tail = c.tail /\ sent.head = c.head
  BY <1>1, <1>7 DEF CqType
<1>9. SuppressedIrq(w) \in {[w EXCEPT !.cq = same], [w EXCEPT !.cq = seenHead], [w EXCEPT !.cq = sent]}
  <2>1. w.cq = c /\ w \in DbType
    OBVIOUS
  <2>2. CASE c.tail = c.lastIrq
    <3>1. SuppressedIrq(w) = [w EXCEPT !.cq.idle = IF @ < 2 THEN @ + 1 ELSE @]
      BY <2>2 DEF SuppressedIrq
    <3>2. SuppressedIrq(w) = [w EXCEPT !.cq = same] BY <3>1
    <3> QED BY <3>2
  <2> DEFINE v == [w EXCEPT !.cq.lastHead = c.head, !.cq.idle = IF late /\ @ < 2 THEN @ + 1 ELSE @]
  <2>3. v = [w EXCEPT !.cq = seenHead]
    BY DEF seenHead, DbType
  <2>4. CASE c.tail # c.lastIrq /\ ~late
    <3>1. SuppressedIrq(w) = v BY <2>4 DEF SuppressedIrq
    <3> QED BY <2>3, <3>1
  <2>5. CASE c.tail # c.lastIrq /\ late
    <3>1. SuppressedIrq(w) = [v EXCEPT !.cq.irq = TRUE, !.cq.lastIrq = c.tail]
      BY <2>5 DEF SuppressedIrq
    <3> HIDE DEF v
    <3>2. v \in DbType /\ v.cq = seenHead BY <1>7, <2>3, Retyped DEF DbType
    <3>3. [v EXCEPT !.cq.irq = TRUE, !.cq.lastIrq = c.tail] = [v EXCEPT !.cq = sent]
      BY <3>2 DEF DbType
    <3>4. [v EXCEPT !.cq = sent] = [w EXCEPT !.cq = sent] BY <2>3 DEF DbType
    <3> QED BY <3>1, <3>3, <3>4
  <2> QED BY <2>2, <2>4, <2>5
<1> QED BY <1>3, <1>7, <1>8, <1>9

(* nvmf_vfio_user_sq_poll takes all the commands of a running queue. *)
LEMMA PollFacts ==
    ASSUME NEW w \in DbType, Accounted(w), ~w.failed
    PROVE  /\ PollSq(w) \in DbType /\ Accounted(PollSq(w))
           /\ PollSq(w).intr = w.intr /\ PollSq(w).state = w.state /\ ~PollSq(w).failed
           /\ PollSq(w).guest = w.guest /\ PollSq(w).pg = w.pg
           /\ PollSq(w).sq.eidx = w.sq.eidx
           /\ w.state = "running" => PollSq(w).sq.head = w.guest.tail /\ PollSq(w).sq.rearm = w.intr
           /\ w.state # "running" => PollSq(w) = w
<1>1. CASE w.state # "running"
  BY <1>1 DEF PollSq
<1>2. CASE w.state = "running"
  <2>1. PICK v : PollSq(w) = Consume(v) /\ v \in {w, SuppressedIrq(w)}
    BY <1>2, DbFields DEF PollSq
  <2>2. \E c \in CqType : c.tail = w.cq.tail /\ c.head = w.cq.head /\ v = [w EXCEPT !.cq = c]
    <3>1. w = [w EXCEPT !.cq = w.cq] /\ w.cq \in CqType BY DEF DbType
    <3> QED BY <2>1, <3>1, SuppressedFacts
  <2>3. /\ v \in DbType /\ v.intr = w.intr /\ v.state = w.state /\ v.failed = w.failed
        /\ v.guest = w.guest /\ v.pg = w.pg /\ v.sq = w.sq /\ v.busy = w.busy
        /\ v.cq.tail = w.cq.tail /\ v.cq.head = w.cq.head
    BY <2>2, Retyped DEF DbType
  <2> DEFINE tail == w.guest.tail
             n == Ahead(tail, w.sq.head)
             m == Ahead(w.cq.tail, w.cq.head)
             s == [w.sq EXCEPT !.head = tail, !.rearm = w.intr]
  <2>4. /\ tail \in Slots /\ w.sq.head \in Slots /\ w.cq.tail \in Slots /\ w.cq.head \in Slots
        /\ w.busy \in Slots /\ w.guest.open \in Slots /\ w.intr \in BOOLEAN
    BY DbFields DEF GuestType, SqType, CqType
  <2>5. n \in Slots /\ m \in Slots /\ Ahead(tail, tail) = 0
    BY <2>4, RingFacts, Advances
  <2>6. n + w.busy + m = w.guest.open
    BY DEF Accounted
  <2>7. w.busy + n \in Slots
    <3> HIDE DEF n, m
    <3> QED BY <2>4, <2>5, <2>6, Sizes DEF Slots
  <2>8. s \in SqType /\ s.head = tail /\ s.eidx = w.sq.eidx /\ s.rearm = w.intr
    BY <2>4, DbFields DEF SqType
  <2>9. Consume(v) = [v EXCEPT !.sq = s, !.busy = w.busy + n]
    BY <2>3 DEF Consume, NewCommands, Ahead, DbType
  <2> DEFINE b == w.busy + n
  <2>10. Consume(v) = [[v EXCEPT !.sq = s] EXCEPT !.busy = b]
    BY <2>9
  <2> HIDE DEF s, b
  <2>11. /\ Consume(v) \in DbType /\ Consume(v).intr = v.intr /\ Consume(v).state = v.state
         /\ Consume(v).failed = v.failed /\ Consume(v).guest = v.guest /\ Consume(v).pg = v.pg
         /\ Consume(v).sq = s /\ Consume(v).busy = b /\ Consume(v).cq = v.cq
    <3> DEFINE taken == [v EXCEPT !.sq = s]
    <3>1. taken \in DbType /\ b \in Slots BY <2>3, <2>7, <2>8, Retyped DEF b
    <3>2. /\ taken.intr = v.intr /\ taken.state = v.state /\ taken.failed = v.failed /\ taken.guest = v.guest
          /\ taken.pg = v.pg /\ taken.sq = s /\ taken.cq = v.cq
      BY <2>3 DEF DbType
    <3>3. Consume(v) = [taken EXCEPT !.busy = b] BY <2>10
    <3> HIDE DEF taken
    <3>4. /\ Consume(v) \in DbType /\ Consume(v).intr = taken.intr /\ Consume(v).state = taken.state
          /\ Consume(v).failed = taken.failed /\ Consume(v).guest = taken.guest /\ Consume(v).pg = taken.pg
          /\ Consume(v).sq = taken.sq /\ Consume(v).busy = b /\ Consume(v).cq = taken.cq
      BY <3>1, <3>3, Retyped DEF DbType
    <3> QED BY <3>2, <3>4
  <2>12. Accounted(Consume(v))
    <3> HIDE DEF n, m, tail
    <3>1. 0 + b + m = w.guest.open BY <2>4, <2>5, <2>6, Sizes DEF b, Slots
    <3> QED BY <2>3, <2>5, <2>8, <2>11, <3>1 DEF Accounted, m, tail
  <2> QED BY <1>2, <2>1, <2>3, <2>8, <2>11, <2>12
<1> QED BY <1>1, <1>2

---------------------------------------------------------------------------
(* The steps *)

(* The values of a state of the invariant. *)
LEMMA DbValues ==
    ASSUME NEW w \in DbType
    PROVE  /\ w.guest.tail \in Slots /\ w.guest.was \in Slots /\ w.guest.open \in Slots
           /\ w.guest.pc \in {"idle", "written"} /\ w.guest.handler \in BOOLEAN
           /\ w.pg.pc \in {"poll", "sleep", "rearm", "write", "check"} /\ w.pg.wake \in BOOLEAN
           /\ w.pg.old \in Slots /\ w.pg.tries \in 0 .. RearmAttempts - 1
           /\ w.sq.head \in Slots /\ w.sq.eidx \in Slots /\ w.sq.rearm \in BOOLEAN
           /\ w.cq.tail \in Slots /\ w.cq.head \in Slots
           /\ w.cq.irq \in BOOLEAN /\ w.cq.idle \in 0 .. 2
           /\ w.left.commands \in Nat /\ w.left.pauses \in Nat /\ w.left.creates \in Nat
  BY DbFields DEF GuestType, PollType, SqType, CqType, MixType

(* A step that leaves the queues and the indices alone; the sleeper is to
   be looked at. *)
LEMMA QuietStep ==
    ASSUME NEW w, DbInv(w), NEW v \in DbType,
           v.intr = w.intr, v.failed = w.failed, v.busy = w.busy,
           v.guest.tail = w.guest.tail, v.guest.open = w.guest.open, v.sq.head = w.sq.head,
           v.cq.tail = w.cq.tail, v.cq.head = w.cq.head,
           v.guest.pc = "written" => v.guest.tail = Advance(v.guest.was),
           v.pg.pc = "poll" <=> ~v.intr,
           Behind(v), Sleeps(v)
    PROVE  DbInv(v)
  BY DEF DbInv, Accounted, TailWritten, Modes

(* PollGroup keeps the invariant. *)
LEMMA PollGroupKeeps ==
    ASSUME DbInv(db), ~db.failed, PollGroup PROVE DbInv(db')
<1>1. db \in DbType /\ Accounted(db) /\ TailWritten(db) /\ Modes(db) /\ db' = PollSq(db)
  BY DEF DbInv, PollGroup
<1>2. /\ db' \in DbType /\ Accounted(db') /\ db'.intr = db.intr
      /\ db'.guest = db.guest /\ db'.pg = db.pg
  BY <1>1, PollFacts
<1>3. db.pg.pc = "poll" /\ ~db.intr
  BY DEF PollGroup
<1> QED BY <1>1, <1>2, <1>3 DEF DbInv, TailWritten, Behind, Sleeps, Modes

(* WakeGroup keeps the invariant. *)
LEMMA WakeGroupKeeps ==
    ASSUME DbInv(db), ~db.failed, WakeGroup PROVE DbInv(db')
<1> DEFINE p == [db.pg EXCEPT !.wake = FALSE]
           w == [db EXCEPT !.pg = p]
           v == PollSq(w)
           q == [v.pg EXCEPT !.pc = IF v.sq.rearm THEN "rearm" ELSE "sleep", !.tries = 0]
<1>1. db \in DbType /\ Accounted(db) /\ TailWritten(db) /\ Modes(db)
  BY DEF DbInv
<1>2. p \in PollType /\ db.pg.pc = "sleep"
  BY <1>1, DbFields DEF PollType, WakeGroup
<1> HIDE DEF p
<1>3. w \in DbType /\ w.intr = db.intr /\ w.failed = db.failed /\ w.guest = db.guest
      /\ w.sq = db.sq /\ w.cq = db.cq /\ w.busy = db.busy /\ w.state = db.state
  BY <1>1, <1>2, Retyped DEF DbType
<1>4. db' = [v EXCEPT !.pg = q]
  BY DEF WakeGroup, p
<1> HIDE DEF w
<1>5. Accounted(w)
  BY <1>1, <1>3 DEF Accounted
<1>6. /\ v \in DbType /\ Accounted(v) /\ v.intr = w.intr /\ v.state = w.state /\ ~v.failed
      /\ v.guest = w.guest /\ v.pg = w.pg /\ v.sq.eidx = w.sq.eidx
      /\ w.state = "running" => v.sq.head = w.guest.tail /\ v.sq.rearm = w.intr
      /\ w.state # "running" => v = w
  BY <1>3, <1>5, PollFacts
<1> HIDE DEF v
<1>7. q \in PollType /\ q.pc = IF v.sq.rearm THEN "rearm" ELSE "sleep"
  <2>1. v.pg \in PollType /\ 0 \in 0 .. RearmAttempts - 1
    BY <1>6, DbFields, Attempts
  <2> QED BY <2>1 DEF PollType
<1> HIDE DEF q
<1>8. db' \in DbType /\ db'.intr = v.intr /\ db'.failed = v.failed /\ db'.guest = v.guest
      /\ db'.sq = v.sq /\ db'.cq = v.cq /\ db'.busy = v.busy /\ db'.state = v.state /\ db'.pg = q
  BY <1>4, <1>6, <1>7, Retyped DEF DbType
<1>9. db'.intr
  BY <1>1, <1>2, <1>3, <1>6, <1>8 DEF Modes, DbType
<1>10. Accounted(db') /\ TailWritten(db')
  BY <1>1, <1>3, <1>6, <1>8 DEF Accounted, TailWritten
<1>11. Behind(db') /\ Modes(db')
  BY <1>7, <1>8, <1>9 DEF Behind, Modes
<1>12. Sleeps(db')
  <2>1. CASE db'.state = "running"
    <3>1. db'.pg.pc = "rearm" BY <1>3, <1>6, <1>7, <1>8, <1>9, <2>1
    <3> QED BY <3>1 DEF Sleeps
  <2>2. CASE db'.state # "running"
    BY <2>2 DEF Sleeps
  <2> QED BY <2>1, <2>2
<1> QED BY <1>8, <1>10, <1>11, <1>12 DEF DbInv

(* ReadTail keeps the invariant. *)
LEMMA ReadTailKeeps ==
    ASSUME DbInv(db), ~db.failed, ReadTail PROVE DbInv(db')
<1> DEFINE p == [db.pg EXCEPT !.pc = "write", !.old = db.guest.tail]
<1>1. db \in DbType /\ Accounted(db) /\ TailWritten(db) /\ Modes(db) /\ db.pg.pc = "rearm"
  BY DEF DbInv, ReadTail
<1>2. p \in PollType /\ p.pc = "write" /\ p.old = db.guest.tail
  BY <1>1, DbFields, DbValues DEF PollType
<1>3. db' = [db EXCEPT !.pg = p]
  BY DEF ReadTail
<1> HIDE DEF p
<1>4. db' \in DbType /\ db'.pg = p /\ db'.intr = db.intr /\ db'.failed = db.failed
      /\ db'.guest = db.guest /\ db'.sq = db.sq /\ db'.cq = db.cq /\ db'.busy = db.busy
  BY <1>1, <1>2, <1>3, Retyped DEF DbType
<1>5. Behind(db')
  <2>1. Ahead(db.guest.tail, db.sq.head) \in Slots
    BY <1>1, DbValues, RingFacts
  <2>2. Ahead(db.guest.tail, db.sq.head) <= Ahead(db.guest.tail, db.sq.head)
    BY <2>1, Sizes DEF Slots
  <2> QED BY <1>2, <1>4, <2>2 DEF Behind
<1>6. Sleeps(db')
  BY <1>2, <1>4 DEF Sleeps
<1> QED BY <1>1, <1>2, <1>4, <1>5, <1>6, QuietStep DEF TailWritten, Modes

(* WriteEventidx keeps the invariant. *)
LEMMA WriteEventidxKeeps ==
    ASSUME DbInv(db), ~db.failed, WriteEventidx PROVE DbInv(db')
<1> DEFINE p == [db.pg EXCEPT !.pc = "check"]
           s == [db.sq EXCEPT !.eidx = db.pg.old]
           w == [db EXCEPT !.pg = p]
<1>1. db \in DbType /\ TailWritten(db) /\ Modes(db) /\ Behind(db) /\ db.pg.pc = "write"
  BY DEF DbInv, WriteEventidx
<1>2. p \in PollType /\ p.pc = "check" /\ s \in SqType /\ s.head = db.sq.head /\ s.eidx = db.pg.old
  BY <1>1, DbFields, DbValues DEF PollType, SqType
<1>3. db' = [w EXCEPT !.sq = s]
  BY DEF WriteEventidx
<1> HIDE DEF p, s
<1>4. w \in DbType /\ w.pg = p /\ w.intr = db.intr /\ w.failed = db.failed
      /\ w.guest = db.guest /\ w.cq = db.cq /\ w.busy = db.busy
  BY <1>1, <1>2, Retyped DEF DbType
<1> HIDE DEF w
<1>5. db' \in DbType /\ db'.pg = w.pg /\ db'.intr = w.intr /\ db'.failed = w.failed
      /\ db'.guest = w.guest /\ db'.sq = s /\ db'.cq = w.cq /\ db'.busy = w.busy
  BY <1>2, <1>3, <1>4, Retyped DEF DbType
<1>6. Behind(db') /\ Sleeps(db')
  BY <1>1, <1>2, <1>4, <1>5 DEF Behind, Sleeps
<1> QED BY <1>1, <1>2, <1>4, <1>5, <1>6, QuietStep DEF TailWritten, Modes

(* CheckTail keeps the invariant. *)
LEMMA CheckTailKeeps ==
    ASSUME DbInv(db), ~db.failed, CheckTail PROVE DbInv(db')
<1> DEFINE v == PollSq(db)
           slept == [v EXCEPT !.pg.pc = "sleep"]
           last == db.pg.tries + 1 = RearmAttempts
<1>1. /\ db \in DbType /\ Accounted(db) /\ TailWritten(db) /\ Behind(db) /\ Modes(db)
      /\ db.pg.pc = "check" /\ db.intr
  BY DEF DbInv, CheckTail, Modes
<1>2. /\ v \in DbType /\ Accounted(v) /\ v.intr = db.intr /\ v.state = db.state /\ ~v.failed
      /\ v.guest = db.guest /\ v.pg = db.pg /\ v.sq.eidx = db.sq.eidx
      /\ db.state = "running" => v.sq.head = db.guest.tail
      /\ db.state # "running" => v = db
  BY <1>1, PollFacts
<1> HIDE DEF v
<1> DEFINE q == [v.pg EXCEPT !.pc = "sleep"]
<1>3. q \in PollType /\ q.pc = "sleep"
  BY <1>2, DbFields DEF PollType
<1>4. slept = [v EXCEPT !.pg = q]
  OBVIOUS
<1> HIDE DEF q
<1>5. /\ slept \in DbType /\ slept.intr = v.intr /\ slept.state = v.state /\ slept.failed = v.failed
      /\ slept.guest = v.guest /\ slept.pg = q /\ slept.sq = v.sq /\ slept.cq = v.cq
      /\ slept.busy = v.busy
  BY <1>2, <1>3, <1>4, Retyped DEF DbType
<1> HIDE DEF slept
<1>6. CASE db.guest.tail = db.sq.head
  <2> DEFINE s == [db.sq EXCEPT !.rearm = FALSE]
             r == [db.pg EXCEPT !.pc = "sleep"]
             w == [db EXCEPT !.sq = s]
  <2>1. s \in SqType /\ s.head = db.sq.head /\ s.eidx = db.sq.eidx /\ r \in PollType /\ r.pc = "sleep"
    BY <1>1, DbFields DEF SqType, PollType
  <2>2. db' = [w EXCEPT !.pg = r]
    BY <1>6 DEF CheckTail
  <2> HIDE DEF s, r
  <2>3. w \in DbType /\ w.sq = s /\ w.intr = db.intr /\ w.failed = db.failed
        /\ w.guest = db.guest /\ w.cq = db.cq /\ w.busy = db.busy
    <3>1. w \in DbType BY <1>1, <2>1, Retyped
    <3>2. w.sq = s /\ w.intr = db.intr /\ w.failed = db.failed
          /\ w.guest = db.guest /\ w.cq = db.cq /\ w.busy = db.busy
      BY <1>1 DEF DbType
    <3> QED BY <3>1, <3>2
  <2> HIDE DEF w
  <2>4. db' \in DbType /\ db'.sq = w.sq /\ db'.intr = w.intr /\ db'.failed = w.failed
        /\ db'.guest = w.guest /\ db'.cq = w.cq /\ db'.busy = w.busy /\ db'.pg = r
    <3>1. db' \in DbType BY <2>1, <2>2, <2>3, Retyped
    <3>2. db'.sq = w.sq /\ db'.intr = w.intr /\ db'.failed = w.failed
          /\ db'.guest = w.guest /\ db'.cq = w.cq /\ db'.busy = w.busy /\ db'.pg = r
      BY <2>2, <2>3 DEF DbType
    <3> QED BY <3>1, <3>2
  <2>5. db.sq.eidx = db.sq.head
    <3>1. db.guest.tail \in Slots /\ db.sq.head \in Slots /\ db.sq.eidx \in Slots
      BY <1>1, DbValues
    <3>2. /\ Ahead(db.sq.eidx, db.sq.head) \in Slots
          /\ Ahead(db.guest.tail, db.sq.head) = 0
          /\ Ahead(db.sq.eidx, db.sq.head) = 0 => db.sq.eidx = db.sq.head
      BY <1>6, <3>1, RingFacts, Advances
    <3>3. Ahead(db.sq.eidx, db.sq.head) <= 0 BY <1>1, <3>2 DEF Behind
    <3> QED BY <3>2, <3>3, Sizes DEF Slots
  <2>6. Behind(db') /\ Sleeps(db')
    BY <1>6, <2>1, <2>3, <2>4, <2>5 DEF Behind, Sleeps
  <2>7. /\ db'.intr = db.intr /\ db'.failed = db.failed /\ db'.busy = db.busy
        /\ db'.guest = db.guest /\ db'.cq = db.cq /\ db'.sq.head = db.sq.head
    BY <2>1, <2>3, <2>4
  <2>8. db'.guest.pc = "written" => db'.guest.tail = Advance(db'.guest.was)
    BY <1>1, <2>7 DEF TailWritten
  <2>9. db'.pg.pc = "poll" <=> ~db'.intr
    BY <1>1, <2>1, <2>4, <2>7
  <2> QED BY <2>4, <2>6, <2>7, <2>8, <2>9, QuietStep
<1>7. CASE db.guest.tail # db.sq.head /\ v.sq.head = db.sq.head
  <2>1. db' = [slept EXCEPT !.failed = TRUE]
    BY <1>7 DEF CheckTail, Fail, v, slept
  <2>2. db' \in DbType /\ db'.failed
    BY <1>5, <2>1, Retyped DEF DbType
  <2>3. db'.intr = slept.intr /\ db'.guest = slept.guest /\ db'.pg = slept.pg
    BY <1>5, <2>1 DEF DbType
  <2> QED
    BY <1>1, <1>2, <1>3, <1>5, <2>2, <2>3 DEF DbInv, Accounted, TailWritten, Behind, Sleeps, Modes
<1>8. CASE db.guest.tail # db.sq.head /\ v.sq.head # db.sq.head /\ last
  <2> DEFINE r == [slept.pg EXCEPT !.wake = TRUE]
  <2>1. r \in PollType /\ r.pc = "sleep" /\ r.wake
    BY <1>3, <1>5, DbFields DEF PollType
  <2>2. db' = [slept EXCEPT !.pg = r]
    BY <1>8 DEF CheckTail, v, slept
  <2> HIDE DEF r
  <2>3. /\ db' \in DbType /\ db'.intr = slept.intr /\ db'.state = slept.state /\ db'.failed = slept.failed
        /\ db'.guest = slept.guest /\ db'.pg = r /\ db'.sq = slept.sq /\ db'.cq = slept.cq
        /\ db'.busy = slept.busy
    BY <1>5, <2>1, <2>2, Retyped DEF DbType
  <2>4. Accounted(db') /\ TailWritten(db')
    BY <1>1, <1>2, <1>5, <2>3 DEF Accounted, TailWritten
  <2>5. Behind(db') /\ Sleeps(db') /\ Modes(db')
    BY <1>1, <1>2, <1>5, <2>1, <2>3 DEF Behind, Sleeps, Modes
  <2> QED BY <2>3, <2>4, <2>5 DEF DbInv
<1>9. CASE db.guest.tail # db.sq.head /\ v.sq.head # db.sq.head /\ ~last
  <2> DEFINE k == v.pg.tries + 1
             r == [v.pg EXCEPT !.pc = "rearm", !.tries = k]
  <2>1. k \in 0 .. RearmAttempts - 1
    BY <1>1, <1>2, <1>9, DbValues, Attempts
  <2>2. db' = [v EXCEPT !.pg = r]
    BY <1>9 DEF CheckTail, v
  <2> HIDE DEF k
  <2>3. r \in PollType /\ r.pc = "rearm"
    BY <1>2, <2>1, DbFields DEF PollType
  <2> HIDE DEF r
  <2>4. /\ db' \in DbType /\ db'.intr = v.intr /\ db'.state = v.state /\ db'.failed = v.failed
        /\ db'.guest = v.guest /\ db'.pg = r /\ db'.sq = v.sq /\ db'.cq = v.cq
        /\ db'.busy = v.busy
    BY <1>2, <2>2, <2>3, Retyped DEF DbType
  <2>5. Accounted(db') /\ TailWritten(db')
    BY <1>1, <1>2, <2>4 DEF Accounted, TailWritten
  <2>6. Behind(db') /\ Sleeps(db') /\ Modes(db')
    BY <1>1, <1>2, <2>3, <2>4 DEF Behind, Sleeps, Modes
  <2> QED BY <2>4, <2>5, <2>6 DEF DbInv
<1> QED BY <1>6, <1>7, <1>8, <1>9

(* PostCompletion keeps the invariant. *)
LEMMA PostCompletionKeeps ==
    ASSUME DbInv(db), ~db.failed, PostCompletion PROVE DbInv(db')
<1> DEFINE next == Advance(db.cq.tail)
           b == db.busy - 1
           w == [db EXCEPT !.busy = b]
           c == [db.cq EXCEPT !.tail = next, !.irq = db.cq.irq \/ db.intr, !.idle = 0]
<1>1. /\ db \in DbType /\ Accounted(db) /\ TailWritten(db) /\ Behind(db) /\ Sleeps(db) /\ Modes(db)
      /\ db.busy > 0
  BY DEF DbInv, PostCompletion
<1>2. /\ db.busy \in Slots /\ db.cq.tail \in Slots /\ db.cq.head \in Slots
      /\ db.guest.tail \in Slots /\ db.sq.head \in Slots /\ db.guest.open \in Slots
  BY <1>1, DbFields, DbValues
<1>3. b \in Slots
  BY <1>1, <1>2, Sizes DEF Slots
<1> HIDE DEF b
<1>4. /\ w \in DbType /\ w.busy = b /\ w.intr = db.intr /\ w.failed = db.failed /\ w.state = db.state
      /\ w.guest = db.guest /\ w.pg = db.pg /\ w.sq = db.sq /\ w.cq = db.cq
  BY <1>1, <1>3, Retyped DEF DbType
<1>5. CASE next = db.cq.head
  <2>1. db' = [w EXCEPT !.failed = TRUE]
    BY <1>5 DEF PostCompletion, Fail, b
  <2> HIDE DEF w
  <2>2. db' \in DbType /\ db'.failed
    BY <1>4, <2>1, Retyped DEF DbType
  <2>3. db'.intr = w.intr /\ db'.guest = w.guest /\ db'.pg = w.pg /\ db'.sq = w.sq
    BY <1>4, <2>1 DEF DbType
  <2> QED
    BY <1>1, <1>4, <2>2, <2>3 DEF DbInv, Accounted, TailWritten, Behind, Sleeps, Modes
<1>6. CASE next # db.cq.head
  <2>1. next \in Slots /\ (db.cq.irq \/ db.intr) \in BOOLEAN /\ 0 \in 0 .. 2
    BY <1>1, <1>2, RingFacts
  <2>2. c \in CqType /\ c.tail = next /\ c.head = db.cq.head
    <3> DEFINE e == db.cq.irq \/ db.intr
    <3>1. e \in BOOLEAN OBVIOUS
    <3>2. c = [db.cq EXCEPT !.tail = next, !.irq = e, !.idle = 0] OBVIOUS
    <3> HIDE DEF e, next
    <3> QED BY <1>1, <2>1, <3>1, <3>2, DbFields DEF CqType
  <2>3. db' = [w EXCEPT !.cq = c]
    BY <1>6 DEF PostCompletion, b, DbType
  <2> HIDE DEF c, w
  <2>4. /\ db' \in DbType /\ db'.busy = w.busy /\ db'.intr = w.intr /\ db'.failed = w.failed
        /\ db'.state = w.state /\ db'.guest = w.guest /\ db'.pg = w.pg /\ db'.sq = w.sq /\ db'.cq = c
    BY <1>4, <2>2, <2>3, Retyped DEF DbType
  <2>5. Accounted(db')
    <3> DEFINE n == Ahead(db.guest.tail, db.sq.head)
               m == Ahead(db.cq.tail, db.cq.head)
    <3>1. n \in Slots /\ m \in Slots BY <1>2, RingFacts
    <3>2. Ahead(next, db.cq.head) = m + 1 BY <1>2, <1>6, Advances
    <3>3. n + db.busy + m = db.guest.open BY <1>1 DEF Accounted
    <3>4. db'.guest = db.guest /\ db'.sq = db.sq /\ db'.busy = b
          /\ db'.cq.tail = next /\ db'.cq.head = db.cq.head
      BY <1>4, <2>2, <2>4
    <3> HIDE DEF n, m, next
    <3>5. n + b + (m + 1) = db.guest.open BY <1>2, <3>1, <3>3, Sizes DEF Slots, b
    <3> QED BY <3>2, <3>4, <3>5 DEF Accounted, n
  <2>6. TailWritten(db') /\ Behind(db') /\ Modes(db')
    BY <1>1, <1>4, <2>4 DEF TailWritten, Behind, Modes
  <2>7. Sleeps(db')
    BY <1>1, <1>4, <2>4 DEF Sleeps
  <2> QED BY <2>4, <2>5, <2>6, <2>7 DEF DbInv
<1> QED BY <1>5, <1>6

(* The controller's pause and its resumption keep the invariant. *)
LEMMA PauseKeeps ==
    ASSUME DbInv(db), ~db.failed, PauseCtrlr \/ ResumeRunning PROVE DbInv(db')
<1>1. db \in DbType /\ TailWritten(db) /\ Modes(db) /\ Behind(db)
  BY DEF DbInv
<1>2. CASE PauseCtrlr
  <2> DEFINE k == db.left.pauses - 1
             l == [db.left EXCEPT !.pauses = k]
             w == [db EXCEPT !.state = "paused"]
  <2>1. k \in Nat
    BY <1>1, <1>2, DbValues DEF PauseCtrlr
  <2>2. db' = [w EXCEPT !.left = l]
    BY <1>2 DEF PauseCtrlr
  <2> HIDE DEF k
  <2>3. l \in MixType
    BY <1>1, <2>1, DbFields DEF MixType
  <2> HIDE DEF l
  <2>4. /\ w \in DbType /\ w.busy = db.busy /\ w.intr = db.intr /\ w.failed = db.failed
        /\ w.guest = db.guest /\ w.pg = db.pg /\ w.sq = db.sq /\ w.cq = db.cq /\ w.state = "paused"
    BY <1>1, Retyped DEF DbType
  <2> HIDE DEF w
  <2>5. /\ db' \in DbType /\ db'.busy = w.busy /\ db'.intr = w.intr /\ db'.failed = w.failed
        /\ db'.guest = w.guest /\ db'.pg = w.pg /\ db'.sq = w.sq /\ db'.cq = w.cq /\ db'.state = w.state
    BY <2>2, <2>3, <2>4, Retyped DEF DbType
  <2>6. Behind(db') /\ Sleeps(db')
    BY <1>1, <2>4, <2>5 DEF Behind, Sleeps
  <2> QED BY <1>1, <2>4, <2>5, <2>6, QuietStep DEF TailWritten, Modes
<1>3. CASE ResumeRunning
  <2> DEFINE p == [db.pg EXCEPT !.wake = db.pg.wake \/ db.intr]
             w == [db EXCEPT !.state = "running"]
  <2>1. p \in PollType /\ p.pc = db.pg.pc /\ p.old = db.pg.old /\ (db.intr => p.wake)
    BY <1>1, DbFields DEF PollType
  <2>2. db' = [w EXCEPT !.pg = p]
    BY <1>3 DEF ResumeRunning
  <2> HIDE DEF p
  <2>3. /\ w \in DbType /\ w.busy = db.busy /\ w.intr = db.intr /\ w.failed = db.failed
        /\ w.guest = db.guest /\ w.sq = db.sq /\ w.cq = db.cq
    BY <1>1, Retyped DEF DbType
  <2> HIDE DEF w
  <2>4. /\ db' \in DbType /\ db'.busy = w.busy /\ db'.intr = w.intr /\ db'.failed = w.failed
        /\ db'.guest = w.guest /\ db'.pg = p /\ db'.sq = w.sq /\ db'.cq = w.cq
    BY <2>1, <2>2, <2>3, Retyped DEF DbType
  <2>5. Behind(db') /\ Sleeps(db')
    BY <1>1, <2>1, <2>3, <2>4 DEF Behind, Sleeps
  <2> QED BY <1>1, <2>1, <2>3, <2>4, <2>5, QuietStep DEF TailWritten, Modes
<1> QED BY <1>2, <1>3

(* CreateAgain keeps the invariant. *)
LEMMA CreateAgainKeeps ==
    ASSUME DbInv(db), ~db.failed, CreateAgain PROVE DbInv(db')
<1> DEFINE k == db.left.creates - 1
           l == [db.left EXCEPT !.creates = k]
           g == [db.guest EXCEPT !.tail = 0]
           s == [db.sq EXCEPT !.head = 0]
           c == [db.cq EXCEPT !.tail = 0, !.head = 0, !.idle = 0]
           w == [db EXCEPT !.left = l]
           x == [w EXCEPT !.guest = g]
           y == [x EXCEPT !.sq = s]
<1>1. /\ db \in DbType /\ Accounted(db) /\ Modes(db)
      /\ ~db.intr /\ db.guest.open = 0 /\ db.guest.pc = "idle" /\ db.pg.pc = "poll" /\ db.left.creates > 0
  BY DEF DbInv, CreateAgain
<1>2. k \in Nat /\ 0 \in Slots /\ 0 \in 0 .. 2
  BY <1>1, DbValues, Sizes DEF Slots
<1>3. db' = [y EXCEPT !.cq = c]
  BY <1>1 DEF CreateAgain, DbType
<1> HIDE DEF k
<1>4. l \in MixType
  BY <1>1, <1>2, DbFields DEF MixType
<1>5. g \in GuestType /\ g.tail = 0 /\ g.pc = "idle" /\ g.open = 0
  BY <1>1, <1>2, DbFields DEF GuestType
<1>6. s \in SqType /\ s.head = 0
  BY <1>1, <1>2, DbFields DEF SqType
<1>7. c \in CqType /\ c.tail = 0 /\ c.head = 0
  BY <1>1, <1>2, DbFields DEF CqType
<1> HIDE DEF l, g, s, c
<1>8. w \in DbType /\ w.intr = db.intr /\ w.pg = db.pg /\ w.busy = db.busy
  BY <1>1, <1>4, Retyped DEF DbType
<1> HIDE DEF w
<1>9. x \in DbType /\ x.intr = w.intr /\ x.pg = w.pg /\ x.busy = w.busy /\ x.guest = g
  BY <1>5, <1>8, Retyped DEF DbType
<1> HIDE DEF x
<1>10. y \in DbType /\ y.intr = x.intr /\ y.pg = x.pg /\ y.busy = x.busy /\ y.guest = x.guest /\ y.sq = s
  BY <1>6, <1>9, Retyped DEF DbType
<1> HIDE DEF y
<1>11. /\ db' \in DbType /\ db'.intr = y.intr /\ db'.pg = y.pg /\ db'.busy = y.busy
       /\ db'.guest = y.guest /\ db'.sq = y.sq /\ db'.cq = c
  BY <1>3, <1>7, <1>10, Retyped DEF DbType
<1>12. db.busy = 0
  <2> DEFINE n == Ahead(db.guest.tail, db.sq.head)
             m == Ahead(db.cq.tail, db.cq.head)
  <2>1. n \in Slots /\ m \in Slots /\ db.busy \in Slots
    BY <1>1, DbFields, DbValues, RingFacts
  <2>2. n + db.busy + m = 0
    BY <1>1 DEF Accounted
  <2> HIDE DEF n, m
  <2> QED BY <2>1, <2>2, Sizes DEF Slots
<1>13. Ahead(0, 0) = 0
  BY <1>2, Advances
<1>14. Accounted(db')
  <2>1. /\ db'.guest.tail = 0 /\ db'.sq.head = 0 /\ db'.busy = 0 /\ db'.guest.open = 0
        /\ db'.cq.tail = 0 /\ db'.cq.head = 0
    BY <1>5, <1>6, <1>7, <1>8, <1>9, <1>10, <1>11, <1>12
  <2> QED BY <1>13, <2>1 DEF Accounted
<1>15. /\ db'.pg = db.pg /\ db'.intr = db.intr /\ db'.guest.pc = "idle"
  BY <1>5, <1>8, <1>9, <1>10, <1>11
<1> QED BY <1>1, <1>11, <1>14, <1>15 DEF DbInv, TailWritten, Behind, Sleeps, Modes

(* Ring keeps the invariant: the tail runs ahead of the event index. *)
LEMMA RingKeeps ==
    ASSUME DbInv(db), ~db.failed, Ring PROVE DbInv(db')
<1> DEFINE k == db.left.commands - 1
           l == [db.left EXCEPT !.commands = k]
           tail == db.guest.tail
           next == Advance(tail)
           o == db.guest.open + 1
           u == IF db.intr THEN "written" ELSE "idle"
           g == [db.guest EXCEPT !.was = tail, !.tail = next, !.open = o, !.pc = u]
           w == [db EXCEPT !.guest = g]
           n == Ahead(tail, db.sq.head)
           m == Ahead(db.cq.tail, db.cq.head)
<1>1. /\ db \in DbType /\ Accounted(db) /\ TailWritten(db) /\ Behind(db) /\ Sleeps(db) /\ Modes(db)
      /\ db.guest.pc = "idle" /\ db.left.commands > 0 /\ db.guest.open < RingSize - 1
  BY DEF DbInv, Ring
<1>2. /\ tail \in Slots /\ db.sq.head \in Slots /\ db.cq.tail \in Slots /\ db.cq.head \in Slots
      /\ db.busy \in Slots /\ db.guest.open \in Slots /\ db.left.commands \in Nat
      /\ db.pg.old \in Slots /\ db.sq.eidx \in Slots
  BY <1>1, DbFields, DbValues
<1>3. k \in Nat /\ o \in Slots /\ next \in Slots
  <2>1. k \in Nat
    BY <1>1, <1>2
  <2>2. o \in Slots
    BY <1>1, <1>2, Sizes DEF Slots
  <2>3. next \in Slots
    BY <1>2, RingFacts
  <2> QED BY <2>1, <2>2, <2>3
<1>4. n \in Slots /\ m \in Slots /\ n + db.busy + m = db.guest.open
  BY <1>1, <1>2, RingFacts DEF Accounted
<1>5. n # RingSize - 1
  <2> HIDE DEF n, m
  <2> QED BY <1>1, <1>2, <1>4, Sizes DEF Slots
<1>6. Ahead(next, db.sq.head) = n + 1
  BY <1>2, <1>5, Advances
<1>7. u \in {"idle", "written"} /\ (u = "written" => db.intr)
  OBVIOUS
<1>8. db' = [w EXCEPT !.left = l]
  BY <1>1 DEF Ring, DbType
<1>15. db.intr => u = "written"
  OBVIOUS
<1> HIDE DEF k, next, o, u
<1>9. g \in GuestType /\ g.was = tail /\ g.tail = next /\ g.open = o /\ g.pc = u
  BY <1>1, <1>2, <1>3, <1>7, DbFields DEF GuestType
<1>10. l \in MixType
  BY <1>1, <1>3, DbFields DEF MixType
<1> HIDE DEF l, g
<1>11. /\ w \in DbType /\ w.busy = db.busy /\ w.intr = db.intr /\ w.failed = db.failed
       /\ w.state = db.state /\ w.guest = g /\ w.pg = db.pg /\ w.sq = db.sq /\ w.cq = db.cq
  BY <1>1, <1>9, Retyped DEF DbType
<1> HIDE DEF w
<1>12. /\ db' \in DbType /\ db'.busy = w.busy /\ db'.intr = w.intr /\ db'.failed = w.failed
       /\ db'.state = w.state /\ db'.guest = w.guest /\ db'.pg = w.pg /\ db'.sq = w.sq /\ db'.cq = w.cq
  BY <1>8, <1>10, <1>11, Retyped DEF DbType
<1>13. Accounted(db')
  <2>1. db'.busy = db.busy /\ db'.guest.tail = next /\ db'.guest.open = o
        /\ db'.sq = db.sq /\ db'.cq = db.cq
    BY <1>9, <1>11, <1>12
  <2> HIDE DEF n, m
  <2>2. (n + 1) + db.busy + m = o
    BY <1>2, <1>4, Sizes DEF Slots, o
  <2> QED BY <1>6, <2>1, <2>2 DEF Accounted, m
<1>14. TailWritten(db')
  BY <1>9, <1>11, <1>12 DEF TailWritten, next
<1>16. Behind(db')
  <2>1. /\ db'.pg = db.pg /\ db'.sq = db.sq /\ db'.guest.tail = next
    BY <1>9, <1>11, <1>12
  <2>2. Ahead(db.pg.old, db.sq.head) \in Slots /\ Ahead(db.sq.eidx, db.sq.head) \in Slots
    BY <1>2, RingFacts
  <2>3. /\ db.pg.pc = "write" => Ahead(db.pg.old, db.sq.head) <= n
        /\ db.pg.pc = "check" => Ahead(db.sq.eidx, db.sq.head) <= n
    BY <1>1 DEF Behind
  <2> HIDE DEF n
  <2>4. \A i \in Slots : i <= n => i <= n + 1
    BY <1>4, Sizes DEF Slots
  <2>5. /\ db.pg.pc = "write" => Ahead(db.pg.old, db.sq.head) <= n + 1
        /\ db.pg.pc = "check" => Ahead(db.sq.eidx, db.sq.head) <= n + 1
    BY <2>2, <2>3, <2>4
  <2> QED BY <1>6, <2>1, <2>5 DEF Behind
<1>17. Sleeps(db')
  <2>1. db'.pg = db.pg /\ db'.sq = db.sq /\ db'.intr = db.intr /\ db'.state = db.state
        /\ db'.failed = db.failed /\ db'.guest.was = tail /\ db'.guest.pc = u
    BY <1>9, <1>11, <1>12
  <2> QED BY <1>1, <1>15, <2>1 DEF Sleeps
<1>18. Modes(db')
  BY <1>1, <1>11, <1>12 DEF Modes
<1> QED BY <1>12, <1>13, <1>14, <1>16, <1>17, <1>18 DEF DbInv

(* LookAtEventidx keeps the invariant: at the event index the sleeper left
   behind, a guest that has written its tail finds that BAR0 is asked for. *)
LEMMA LookAtEventidxKeeps ==
    ASSUME DbInv(db), ~db.failed, LookAtEventidx PROVE DbInv(db')
<1> DEFINE e == NeedEvent(db.sq.eidx, db.guest.tail, db.guest.was)
           a == db.pg.wake \/ e
           g == [db.guest EXCEPT !.pc = "idle"]
           p == [db.pg EXCEPT !.wake = a]
           w == [db EXCEPT !.guest = g]
<1>1. /\ db \in DbType /\ TailWritten(db) /\ Behind(db) /\ Sleeps(db) /\ Modes(db)
      /\ db.guest.pc = "written" /\ db.guest.tail = Advance(db.guest.was)
      /\ db.guest.tail \in Slots /\ db.guest.was \in Slots
  BY DbValues DEF DbInv, LookAtEventidx, TailWritten
<1>2. a \in BOOLEAN
  OBVIOUS
<1>3. db.guest.was = db.sq.eidx => e
  BY <1>1, Advances, EventAtOldTail
<1>4. db' = [w EXCEPT !.pg = p]
  BY DEF LookAtEventidx
<1>5. e => a
  OBVIOUS
<1>6. db.pg.wake => a
  OBVIOUS
<1> HIDE DEF e, a
<1>7. g \in GuestType /\ g.tail = db.guest.tail /\ g.open = db.guest.open /\ g.pc = "idle"
  BY <1>1, DbFields DEF GuestType
<1>8. p \in PollType /\ p.pc = db.pg.pc /\ p.old = db.pg.old /\ p.wake = a
  BY <1>1, <1>2, DbFields DEF PollType
<1> HIDE DEF g, p
<1>9. /\ w \in DbType /\ w.busy = db.busy /\ w.intr = db.intr /\ w.failed = db.failed
      /\ w.state = db.state /\ w.guest = g /\ w.sq = db.sq /\ w.cq = db.cq
  BY <1>1, <1>7, Retyped DEF DbType
<1> HIDE DEF w
<1>10. /\ db' \in DbType /\ db'.busy = w.busy /\ db'.intr = w.intr /\ db'.failed = w.failed
       /\ db'.state = w.state /\ db'.guest = w.guest /\ db'.pg = p /\ db'.sq = w.sq /\ db'.cq = w.cq
  BY <1>4, <1>8, <1>9, Retyped DEF DbType
<1>11. Behind(db')
  BY <1>1, <1>7, <1>8, <1>9, <1>10 DEF Behind
<1>12. Sleeps(db')
  <2> SUFFICES ASSUME db'.intr, db'.pg.pc = "sleep", ~db'.pg.wake, db'.state = "running", ~db'.failed
               PROVE  db'.guest.tail = db'.sq.head /\ db'.sq.eidx = db'.sq.head
    BY DEF Sleeps
  <2>1. ~a /\ db.intr /\ db.pg.pc = "sleep" /\ db.state = "running"
    BY <1>8, <1>9, <1>10
  <2>2. db.guest.was # db.sq.eidx /\ ~db.pg.wake
    BY <1>3, <1>5, <1>6, <2>1
  <2>3. db.guest.tail = db.sq.head /\ db.sq.eidx = db.sq.head
    BY <1>1, <2>1, <2>2 DEF Sleeps
  <2> QED BY <1>7, <1>9, <1>10, <2>3
<1> QED BY <1>1, <1>7, <1>8, <1>9, <1>10, <1>11, <1>12, QuietStep DEF Modes

(* The interrupt and the end of its handler keep the invariant. *)
LEMMA InterruptKeeps ==
    ASSUME DbInv(db), ~db.failed, Interrupt \/ HandlerDone PROVE DbInv(db')
<1> DEFINE g(h) == [db.guest EXCEPT !.handler = h]
           c == [db.cq EXCEPT !.irq = FALSE]
           w == [db EXCEPT !.cq = c]
<1>1. db \in DbType /\ TailWritten(db) /\ Modes(db) /\ Behind(db) /\ Sleeps(db)
  BY DEF DbInv
<1>2. \A h \in BOOLEAN : g(h) \in GuestType /\ g(h).tail = db.guest.tail /\ g(h).open = db.guest.open
                         /\ g(h).pc = db.guest.pc /\ g(h).was = db.guest.was
  BY <1>1, DbFields DEF GuestType
<1>3. c \in CqType /\ c.tail = db.cq.tail /\ c.head = db.cq.head
  BY <1>1, DbFields DEF CqType
<1>4. Interrupt => db' = [w EXCEPT !.guest = g(TRUE)]
  BY DEF Interrupt
<1>5. HandlerDone => db' = [db EXCEPT !.guest = g(FALSE)]
  BY DEF HandlerDone
<1> HIDE DEF c, g
<1>6. /\ w \in DbType /\ w.busy = db.busy /\ w.intr = db.intr /\ w.failed = db.failed
      /\ w.state = db.state /\ w.guest = db.guest /\ w.pg = db.pg /\ w.sq = db.sq /\ w.cq = c
  BY <1>1, <1>3, Retyped DEF DbType
<1> HIDE DEF w
<1>7. PICK h \in BOOLEAN, v \in {db, w} : db' = [v EXCEPT !.guest = g(h)]
  BY <1>4, <1>5
<1>8. /\ v \in DbType /\ v.busy = db.busy /\ v.intr = db.intr /\ v.failed = db.failed
      /\ v.state = db.state /\ v.guest = db.guest /\ v.pg = db.pg /\ v.sq = db.sq
      /\ v.cq.tail = db.cq.tail /\ v.cq.head = db.cq.head
  BY <1>1, <1>3, <1>6
<1> DEFINE y == g(h)
<1>9. /\ y \in GuestType /\ y.tail = db.guest.tail /\ y.open = db.guest.open
      /\ y.pc = db.guest.pc /\ y.was = db.guest.was /\ db' = [v EXCEPT !.guest = y]
  BY <1>2, <1>7
<1> HIDE DEF y
<1>10. /\ db' \in DbType /\ db'.busy = v.busy /\ db'.intr = v.intr /\ db'.failed = v.failed
       /\ db'.state = v.state /\ db'.guest = y /\ db'.pg = v.pg /\ db'.sq = v.sq /\ db'.cq = v.cq
  BY <1>8, <1>9, Retyped DEF DbType
<1>11. Behind(db') /\ Sleeps(db')
  BY <1>1, <1>8, <1>9, <1>10 DEF Behind, Sleeps
<1>12. /\ db'.intr = db.intr /\ db'.failed = db.failed /\ db'.busy = db.busy
       /\ db'.guest.tail = db.guest.tail /\ db'.guest.open = db.guest.open
       /\ db'.sq.head = db.sq.head /\ db'.cq.tail = db.cq.tail /\ db'.cq.head = db.cq.head
       /\ db'.guest.pc = db.guest.pc /\ db'.guest.was = db.guest.was /\ db'.pg = db.pg
  BY <1>8, <1>9, <1>10
<1>13. db'.guest.pc = "written" => db'.guest.tail = Advance(db'.guest.was)
  BY <1>1, <1>12 DEF TailWritten
<1>14. db'.pg.pc = "poll" <=> ~db'.intr
  BY <1>1, <1>12 DEF Modes
<1> QED BY <1>10, <1>11, <1>12, <1>13, <1>14, QuietStep

(* HandleCompletion keeps the invariant. *)
LEMMA HandleCompletionKeeps ==
    ASSUME DbInv(db), ~db.failed, HandleCompletion PROVE DbInv(db')
<1> DEFINE head == Advance(db.cq.head)
           o == db.guest.open - 1
           c == [db.cq EXCEPT !.head = head, !.idle = 0]
           g == [db.guest EXCEPT !.open = o]
           w == [db EXCEPT !.cq = c]
           n == Ahead(db.guest.tail, db.sq.head)
           m == Ahead(db.cq.tail, db.cq.head)
<1>1. /\ db \in DbType /\ Accounted(db) /\ TailWritten(db) /\ Behind(db) /\ Sleeps(db) /\ Modes(db)
      /\ db.cq.head # db.cq.tail
  BY DEF DbInv, HandleCompletion
<1>2. /\ db.guest.tail \in Slots /\ db.sq.head \in Slots /\ db.cq.tail \in Slots /\ db.cq.head \in Slots
      /\ db.busy \in Slots /\ db.guest.open \in Slots
  BY <1>1, DbFields, DbValues
<1>3. n \in Slots /\ m \in Slots /\ n + db.busy + m = db.guest.open
  BY <1>1, <1>2, RingFacts DEF Accounted
<1>4. m # 0 /\ Ahead(db.cq.tail, head) = m - 1 /\ head \in Slots /\ 0 \in 0 .. 2
  <2>1. /\ m = 0 => db.cq.tail = db.cq.head
        /\ db.cq.tail # db.cq.head => Ahead(db.cq.tail, head) = m - 1
    BY <1>2, Advances
  <2>2. head \in Slots /\ 0 \in 0 .. 2
    BY <1>2, RingFacts
  <2> QED BY <1>1, <2>1, <2>2
<1>5. o \in Slots /\ n + db.busy + (m - 1) = o
  <2> HIDE DEF n, m
  <2> QED BY <1>2, <1>3, <1>4, Sizes DEF Slots
<1>6. db' = [w EXCEPT !.guest = g]
  BY <1>1 DEF HandleCompletion, DbType
<1> HIDE DEF head, o
<1>7. c \in CqType /\ c.tail = db.cq.tail /\ c.head = head
  BY <1>1, <1>4, DbFields DEF CqType
<1>8. /\ g \in GuestType /\ g.tail = db.guest.tail /\ g.open = o
      /\ g.pc = db.guest.pc /\ g.was = db.guest.was
  BY <1>1, <1>5, DbFields DEF GuestType
<1> HIDE DEF c, g
<1>9. /\ w \in DbType /\ w.busy = db.busy /\ w.intr = db.intr /\ w.failed = db.failed
      /\ w.state = db.state /\ w.pg = db.pg /\ w.sq = db.sq /\ w.cq = c
  BY <1>1, <1>7, Retyped DEF DbType
<1> HIDE DEF w
<1>10. /\ db' \in DbType /\ db'.busy = w.busy /\ db'.intr = w.intr /\ db'.failed = w.failed
       /\ db'.state = w.state /\ db'.guest = g /\ db'.pg = w.pg /\ db'.sq = w.sq /\ db'.cq = w.cq
  BY <1>6, <1>8, <1>9, Retyped DEF DbType
<1>11. Accounted(db')
  <2>1. /\ db'.guest.tail = db.guest.tail /\ db'.guest.open = o /\ db'.sq = db.sq /\ db'.busy = db.busy
        /\ db'.cq.tail = db.cq.tail /\ db'.cq.head = head
    BY <1>7, <1>8, <1>9, <1>10
  <2> HIDE DEF m
  <2> QED BY <1>4, <1>5, <2>1 DEF Accounted
<1>12. TailWritten(db') /\ Behind(db') /\ Modes(db')
  BY <1>1, <1>8, <1>9, <1>10 DEF TailWritten, Behind, Modes
<1>13. Sleeps(db')
  BY <1>1, <1>8, <1>9, <1>10 DEF Sleeps
<1> QED BY <1>10, <1>11, <1>12, <1>13 DEF DbInv

(* The invariant holds at first. *)
LEMMA DoorbellStarts == DoorbellInit => DbInv(db)
<1> SUFFICES ASSUME DoorbellInit PROVE DbInv(db)
  OBVIOUS
<1>1. PICK mix \in DoorbellMixes :
    db = [intr |-> mix.intr, state |-> "running", failed |-> FALSE, left |-> mix,
          guest |-> [tail |-> 0, was |-> 0, pc |-> "idle", open |-> 0, handler |-> FALSE],
          pg |-> [pc |-> IF mix.intr THEN "rearm" ELSE "poll", wake |-> FALSE, old |-> 0, tries |-> 0],
          sq |-> [head |-> 0, eidx |-> 0, rearm |-> mix.intr],
          cq |-> [tail |-> 0, head |-> 0, lastHead |-> 0, lastIrq |-> 0, irq |-> FALSE, idle |-> 0],
          busy |-> 0]
  BY DEF DoorbellInit
<1>2. mix \in MixType /\ mix.intr \in BOOLEAN
  BY DoorbellMixesAssumption DEF MixType
<1>3. 0 \in Slots /\ 0 \in 0 .. 2 /\ 0 \in 0 .. RearmAttempts - 1
  BY Sizes, Attempts DEF Slots
<1>4. /\ db.intr = mix.intr /\ db.state = "running" /\ db.failed = FALSE /\ db.left = mix /\ db.busy = 0
      /\ db.guest = [tail |-> 0, was |-> 0, pc |-> "idle", open |-> 0, handler |-> FALSE]
      /\ db.pg = [pc |-> IF mix.intr THEN "rearm" ELSE "poll", wake |-> FALSE, old |-> 0, tries |-> 0]
      /\ db.sq = [head |-> 0, eidx |-> 0, rearm |-> mix.intr]
      /\ db.cq = [tail |-> 0, head |-> 0, lastHead |-> 0, lastIrq |-> 0, irq |-> FALSE, idle |-> 0]
  BY <1>1
<1>5. db.guest \in GuestType /\ db.pg \in PollType
  BY <1>3, <1>4 DEF GuestType, PollType
<1>6. db.sq \in SqType /\ db.cq \in CqType
  BY <1>2, <1>3, <1>4 DEF SqType, CqType
<1>7. db \in DbType
  <2>1. db = [intr |-> db.intr, state |-> db.state, failed |-> db.failed, left |-> db.left,
              guest |-> db.guest, pg |-> db.pg, sq |-> db.sq, cq |-> db.cq, busy |-> db.busy]
    BY <1>1
  <2>2. db.intr \in BOOLEAN /\ db.state \in {"running", "paused"} /\ db.failed \in BOOLEAN
        /\ db.left \in MixType /\ db.busy \in Slots
    BY <1>2, <1>3, <1>4
  <2> QED BY <1>5, <1>6, <2>1, <2>2 DEF DbType
<1>8. Ahead(0, 0) = 0
  BY <1>3, Advances
<1>9. /\ db.guest.tail = 0 /\ db.sq.head = 0 /\ db.cq.tail = 0 /\ db.cq.head = 0 /\ db.busy = 0
      /\ db.guest.open = 0 /\ db.guest.pc = "idle" /\ db.pg.pc = IF db.intr THEN "rearm" ELSE "poll"
  BY <1>4
<1>10. Accounted(db)
  BY <1>8, <1>9 DEF Accounted
<1>11. db.intr => db.pg.pc = "rearm"
  BY <1>9
<1>12. ~db.intr => db.pg.pc = "poll"
  BY <1>9
<1> QED BY <1>7, <1>9, <1>10, <1>11, <1>12 DEF DbInv, TailWritten, Behind, Sleeps, Modes

(* Every step keeps it. *)
LEMMA DoorbellKept == DbInv(db) /\ [DoorbellNext]_dbVars => DbInv(db')
<1> SUFFICES ASSUME DbInv(db), DoorbellNext PROVE DbInv(db')
  BY DEF dbVars
<1>1. ~db.failed
  BY DEF DoorbellNext
<1> QED
  BY <1>1, PollGroupKeeps, WakeGroupKeeps, ReadTailKeeps, WriteEventidxKeeps, CheckTailKeeps,
     PostCompletionKeeps, PauseKeeps, CreateAgainKeeps, RingKeeps, LookAtEventidxKeeps,
     InterruptKeeps, HandleCompletionKeeps DEF DoorbellNext

(* The inductive invariant of the doorbells. *)
THEOREM DoorbellInvariance == DoorbellSpec => []DbInv(db)
<1>1. DoorbellInit => DbInv(db)
  BY DoorbellStarts
<1>2. DbInv(db) /\ [DoorbellNext]_dbVars => DbInv(db)'
  BY DoorbellKept
<1> QED BY <1>1, <1>2, PTL DEF DoorbellSpec

(* The rings keep their types. *)
THEOREM DoorbellTyping == DoorbellSpec => []DoorbellTypeOK
<1>1. DbInv(db) => DoorbellTypeOK
  <2> SUFFICES ASSUME DbInv(db) PROVE DoorbellTypeOK
    OBVIOUS
  <2>1. db \in DbType
    BY DEF DbInv
  <2> QED BY <2>1, DbFields, DbValues DEF DoorbellTypeOK, Slots
<1> QED BY <1>1, DoorbellInvariance, PTL

(* vfio_user_sq_rearm: for every size of the ring, a poll group that
   sleeps over a command of a running queue is going to be woken, whenever
   the guest writes its tail between the poll group's steps. *)
THEOREM NeverSleptThrough == DoorbellSpec => []WakesUp
<1>1. DbInv(db) => WakesUp
  <2> SUFFICES ASSUME DbInv(db), db.intr, db.pg.pc = "sleep", ~db.pg.wake, db.state = "running",
                      ~db.failed, db.guest.tail # db.sq.head
               PROVE  db.guest.pc = "written" /\ NeedEvent(db.sq.eidx, db.guest.tail, db.guest.was)
    BY DEF WakesUp
  <2>1. db \in DbType /\ db.guest.pc = "written" /\ db.guest.was = db.sq.eidx
    BY DEF DbInv, Sleeps
  <2>2. db.guest.tail = Advance(db.guest.was) /\ db.guest.tail \in Slots /\ db.guest.was \in Slots
    BY <2>1, DbValues DEF DbInv, TailWritten
  <2>3. NeedEvent(db.guest.was, db.guest.tail, db.guest.was)
    BY <2>2, Advances, EventAtOldTail
  <2> QED BY <2>1, <2>3
<1> QED BY <1>1, DoorbellInvariance, PTL

---------------------------------------------------------------------------
(* The queues of a controller *)

(* The values of the queues of a controller. *)
VfuSqs == [st : {"unused", "created", "active", "inactive", "deleted"}, size : BOOLEAN, mapped : BOOLEAN,
           cq : AllIds, qp : {"none", "new", "on", "off", "out"}, listed : BOOLEAN, busy : 0 .. 1,
           create : BOOLEAN, delete : BOOLEAN]
VfuCqs == [st : {"unused", "created", "deleted"}, size : BOOLEAN, mapped : BOOLEAN, ref : Nat]
VfuHosts == [sq : [Io -> {"none", "creating", "created", "deleting"}], cq : [Io -> BOOLEAN]]
VfuBounds == [creates : Nat, resets : Nat, removals : Nat, losses : Nat, commands : Nat, faults : Nat]
VqCrashes == {"no", "mapped twice", "queue pair in use", "reference", "unmapped queue", "refused connect",
              "freed queue", "freed"}
VqType == [sq : [AllIds -> VfuSqs], cq : [AllIds -> VfuCqs], en : BOOLEAN, rdy : BOOLEAN, shn : BOOLEAN,
           resetShn : BOOLEAN, gone : BOOLEAN, mem : SUBSET Regions, host : VfuHosts, left : VfuBounds,
           lost : BOOLEAN, overlap : BOOLEAN, crash : VqCrashes]

(* A submission queue by the state of its queue pair: one that takes
   commands is mapped, and one that is marked deleted before it is closed
   was deleted by the guest and is still mapped. *)
IoSound(s) ==
    /\ s.qp = "none" => s.st \in DeletedOrUnused /\ ~s.listed /\ ~s.create
    /\ s.qp = "new" => s.st = "created" /\ ~s.listed /\ s.create /\ s.mapped /\ s.size
    /\ s.qp \in {"on", "off", "out"} =>
          s.listed /\ ~s.create /\ s.size /\ s.st \in {"active", "inactive", "deleted"}
    /\ s.st = "deleted" /\ s.qp # "none" => s.delete /\ s.mapped
    /\ s.st = "active" => s.mapped
    /\ s.delete => s.qp \in {"off", "out"}

(* The admin queue is disconnected only when the client is gone; until
   then it is mapped only while its memory is there. *)
AdminSound(w) ==
    /\ ~w.gone => w.sq[0].qp = "on"
    /\ w.sq[0].qp # "new" /\ ~w.sq[0].create /\ ~w.sq[0].delete /\ w.sq[0].cq = 0
    /\ w.sq[0].qp # "none" => w.sq[0].listed /\ w.sq[0].st \in {"active", "inactive"}
    /\ w.sq[0].qp = "none" => ~w.sq[0].listed /\ w.sq[0].st = "deleted"
    /\ ~w.gone => /\ w.sq[0].mapped => "sq" \in w.mem
                  /\ w.cq[0].mapped => "cq" \in w.mem
                  /\ w.sq[0].st = "active" /\ w.sq[0].size => w.sq[0].mapped

(* What the guest knows of a queue. *)
HostSound(w, q) ==
    /\ w.host.sq[q] = "creating" /\ ~w.lost => w.sq[q].qp = "new"
    /\ w.host.sq[q] = "created" => ~w.sq[q].delete /\ w.sq[q].qp # "new"
    /\ w.host.sq[q] = "deleting" /\ ~w.lost => w.sq[q].delete

(* A reset or a shutdown, and the end. *)
FlagsSound(w) == (w.resetShn <=> ~w.en \/ w.shn) /\ (~w.rdy => ~w.en)

(* Outside of them only a deletion by the guest disconnects a queue pair;
   in them none is deleted by the guest.  With all of its memory there no
   queue is suspended. *)
PhaseSound(w, q) ==
    /\ ~w.gone /\ w.mem = Regions /\ w.sq[q].listed => w.sq[q].st # "inactive"
    /\ ~w.rdy => w.sq[q].qp \notin {"on", "off"}
    /\ ~w.overlap /\ (w.resetShn \/ w.gone) => ~w.sq[q].delete
    /\ ~w.overlap /\ ~w.resetShn /\ ~w.gone /\ w.sq[q].qp \in {"off", "out"} => w.sq[q].delete

Holding(s) == s.st \in {"created", "active", "inactive"} /\ ~s.delete
HoldersIn(w, c) == {q \in AllIds : Holding(w.sq[q]) /\ w.sq[q].cq = c}
RefsCounted(w) == ~w.overlap => \A c \in AllIds : w.cq[c].ref = Cardinality(HoldersIn(w, c))

Sound(w) ==
    /\ w \in VqType
    /\ AdminSound(w) /\ FlagsSound(w) /\ RefsCounted(w)
    /\ \A q \in Io : IoSound(w.sq[q]) /\ HostSound(w, q) /\ PhaseSound(w, q)

QueueInv(w) ==
    /\ w.crash = "no" => Sound(w)
    /\ w.crash = "reference" => w.overlap
    /\ w.crash \notin {"unmapped queue", "queue pair in use"}

---------------------------------------------------------------------------
(* Facts about the records *)

(* The identifiers. *)
LEMMA QueueIds ==
    /\ 0 \in AllIds /\ Io \subseteq AllIds /\ IsFiniteSet(AllIds) /\ VfuIds \in Nat
    /\ \A q \in Io : q # 0
    /\ \A q \in AllIds : q # 0 => q \in Io
<1>1. VfuIds \in Nat /\ AllIds = 0 .. VfuIds /\ Io = 1 .. VfuIds
  BY VfuIdsAssumption DEF AllIds, Io
<1> QED BY <1>1, FS_Interval

(* The fields of a controller. *)
LEMMA VqFields ==
    ASSUME NEW w \in VqType
    PROVE  /\ w.sq \in [AllIds -> VfuSqs] /\ w.cq \in [AllIds -> VfuCqs] /\ w.en \in BOOLEAN
           /\ w.rdy \in BOOLEAN /\ w.shn \in BOOLEAN /\ w.resetShn \in BOOLEAN /\ w.gone \in BOOLEAN
           /\ w.mem \in SUBSET Regions /\ w.host \in VfuHosts /\ w.left \in VfuBounds
           /\ w.lost \in BOOLEAN /\ w.overlap \in BOOLEAN /\ w.crash \in VqCrashes
  BY DEF VqType

(* The fields of its queues and of what the guest knows. *)
LEMMA VqParts ==
    ASSUME NEW w \in VqType
    PROVE  /\ \A q \in AllIds : /\ w.sq[q] \in VfuSqs /\ w.sq[q].cq \in AllIds /\ w.sq[q].busy \in 0 .. 1
                                /\ w.sq[q].qp \in {"none", "new", "on", "off", "out"}
                                /\ w.sq[q].st \in {"unused", "created", "active", "inactive", "deleted"}
                                /\ w.sq[q].delete \in BOOLEAN
           /\ \A c \in AllIds : w.cq[c] \in VfuCqs /\ w.cq[c].ref \in Nat
           /\ w.host.sq \in [Io -> {"none", "creating", "created", "deleting"}]
           /\ w.host.cq \in [Io -> BOOLEAN]
  BY VqFields DEF VfuSqs, VfuCqs, VfuHosts

(* A controller keeps its type when a field gets another value. *)
LEMMA VqRetyped ==
    ASSUME NEW w \in VqType
    PROVE  /\ \A x \in [AllIds -> VfuSqs] : [w EXCEPT !.sq = x] \in VqType
           /\ \A x \in [AllIds -> VfuCqs] : [w EXCEPT !.cq = x] \in VqType
           /\ \A x \in VfuHosts : [w EXCEPT !.host = x] \in VqType
           /\ \A x \in VfuBounds : [w EXCEPT !.left = x] \in VqType
           /\ \A x \in SUBSET Regions : [w EXCEPT !.mem = x] \in VqType
           /\ \A x \in VqCrashes : [w EXCEPT !.crash = x] \in VqType
           /\ \A x \in BOOLEAN : /\ [w EXCEPT !.en = x] \in VqType
                                 /\ [w EXCEPT !.rdy = x] \in VqType
                                 /\ [w EXCEPT !.shn = x] \in VqType
                                 /\ [w EXCEPT !.resetShn = x] \in VqType
                                 /\ [w EXCEPT !.gone = x] \in VqType
                                 /\ [w EXCEPT !.lost = x] \in VqType
                                 /\ [w EXCEPT !.overlap = x] \in VqType
  BY DEF VqType

(* The flags that say in which phase the controller is. *)
SameFlags(v, w) ==
    /\ v.en = w.en /\ v.rdy = w.rdy /\ v.shn = w.shn /\ v.resetShn = w.resetShn /\ v.gone = w.gone
    /\ v.overlap = w.overlap /\ v.mem = w.mem

Same(v, w) == SameFlags(v, w) /\ v.crash = w.crash /\ v.lost = w.lost

(* A change of one field leaves the others alone. *)
LEMMA PutBounds ==
    ASSUME NEW w \in VqType, NEW x \in VfuBounds
    PROVE  LET v == [w EXCEPT !.left = x]
           IN  v \in VqType /\ Same(v, w) /\ v.sq = w.sq /\ v.cq = w.cq /\ v.host = w.host /\ v.left = x
<1> DEFINE v == [w EXCEPT !.left = x]
<1>1. v \in VqType
  BY VqRetyped
<1>2. v.sq = w.sq /\ v.cq = w.cq /\ v.host = w.host /\ v.left = x
  BY DEF VqType
<1>3. Same(v, w)
  BY DEF VqType, Same, SameFlags
<1> QED BY <1>1, <1>2, <1>3

(* One submission queue. *)
LEMMA PutSq ==
    ASSUME NEW w \in VqType, NEW q \in AllIds, NEW x \in VfuSqs
    PROVE  LET v == [w EXCEPT !.sq[q] = x]
           IN  /\ v \in VqType /\ Same(v, w) /\ v.cq = w.cq /\ v.host = w.host /\ v.left = w.left
               /\ v.sq = [w.sq EXCEPT ![q] = x] /\ v.sq[q] = x /\ \A p \in AllIds \ {q} : v.sq[p] = w.sq[p]
<1> DEFINE sq == [w.sq EXCEPT ![q] = x]
           v == [w EXCEPT !.sq = sq]
<1>1. sq \in [AllIds -> VfuSqs] /\ sq[q] = x /\ \A p \in AllIds \ {q} : sq[p] = w.sq[p]
  BY VqFields
<1> HIDE DEF sq
<1>2. v \in VqType
  BY <1>1, VqRetyped
<1>3. v.sq = sq /\ v.cq = w.cq /\ v.host = w.host /\ v.left = w.left
  BY DEF VqType
<1>4. Same(v, w)
  BY DEF VqType, Same, SameFlags
<1>5. [w EXCEPT !.sq[q] = x] = v
  BY DEF sq
<1> QED BY <1>1, <1>2, <1>3, <1>4, <1>5 DEF sq

(* One completion queue. *)
LEMMA PutCq ==
    ASSUME NEW w \in VqType, NEW c \in AllIds, NEW x \in VfuCqs
    PROVE  LET v == [w EXCEPT !.cq[c] = x]
           IN  /\ v \in VqType /\ Same(v, w) /\ v.sq = w.sq /\ v.host = w.host /\ v.left = w.left
               /\ v.cq = [w.cq EXCEPT ![c] = x] /\ v.cq[c] = x /\ \A d \in AllIds \ {c} : v.cq[d] = w.cq[d]
<1> DEFINE cq == [w.cq EXCEPT ![c] = x]
           v == [w EXCEPT !.cq = cq]
<1>1. cq \in [AllIds -> VfuCqs] /\ cq[c] = x /\ \A d \in AllIds \ {c} : cq[d] = w.cq[d]
  BY VqFields
<1> HIDE DEF cq
<1>2. v \in VqType
  BY <1>1, VqRetyped
<1>3. v.sq = w.sq /\ v.cq = cq /\ v.host = w.host /\ v.left = w.left
  BY DEF VqType
<1>4. Same(v, w)
  BY DEF VqType, Same, SameFlags
<1>5. [w EXCEPT !.cq[c] = x] = v
  BY DEF cq
<1> QED BY <1>1, <1>2, <1>3, <1>4, <1>5 DEF cq

(* What the guest knows. *)
LEMMA PutHost ==
    ASSUME NEW w \in VqType, NEW x \in VfuHosts
    PROVE  LET v == [w EXCEPT !.host = x]
           IN  v \in VqType /\ Same(v, w) /\ v.sq = w.sq /\ v.cq = w.cq /\ v.left = w.left /\ v.host = x
<1> DEFINE v == [w EXCEPT !.host = x]
<1>1. v \in VqType
  BY VqRetyped
<1>2. v.sq = w.sq /\ v.cq = w.cq /\ v.left = w.left /\ v.host = x
  BY DEF VqType
<1>3. Same(v, w)
  BY DEF VqType, Same, SameFlags
<1> QED BY <1>1, <1>2, <1>3

(* What the guest knows of one submission queue. *)
LEMMA HostSqFacts ==
    ASSUME NEW w \in VqType, NEW q \in Io, NEW x \in {"none", "creating", "created", "deleting"}
    PROVE  /\ HostSq(w, q, x) \in VfuHosts /\ HostSq(w, q, x).sq[q] = x
           /\ \A p \in Io \ {q} : HostSq(w, q, x).sq[p] = w.host.sq[p]
  BY VqFields DEF HostSq, VfuHosts

(* A crash of a controller that is alive. *)
LEMMA CrashFacts ==
    ASSUME NEW w \in VqType, NEW why \in VqCrashes
    PROVE  LET v == QueueCrash(w, why)
           IN  /\ v \in VqType /\ SameFlags(v, w) /\ v.crash = IF w.crash = "no" THEN why ELSE w.crash
               /\ v.sq = w.sq /\ v.cq = w.cq /\ v.host = w.host /\ v.left = w.left /\ v.lost = w.lost
<1> DEFINE v == [w EXCEPT !.crash = why]
<1>1. v \in VqType
  BY VqRetyped
<1>2. /\ v.crash = why /\ v.sq = w.sq /\ v.cq = w.cq /\ v.host = w.host /\ v.left = w.left
      /\ v.lost = w.lost
  BY DEF VqType
<1>3. SameFlags(v, w)
  BY DEF VqType, SameFlags
<1>4. QueueCrash(w, why) = IF w.crash = "no" THEN v ELSE w
  BY DEF QueueCrash
<1> QED BY <1>1, <1>2, <1>3, <1>4 DEF SameFlags

(* An answer of the admin completion queue. *)
LEMMA PostAdminFacts ==
    ASSUME NEW w \in VqType, NEW told \in VfuHosts
    PROVE  LET v == PostAdmin(w, told)
           IN  /\ v \in VqType /\ SameFlags(v, w) /\ v.crash = w.crash /\ v.sq = w.sq /\ v.cq = w.cq
               /\ \/ v.host = told /\ v.lost = w.lost
                  \/ v.host = w.host /\ v.lost
<1> DEFINE l == [w EXCEPT !.lost = TRUE]
<1>1. l \in VqType
  BY VqRetyped
<1>2. l.crash = w.crash /\ l.sq = w.sq /\ l.cq = w.cq /\ l.host = w.host /\ l.lost
  BY DEF VqType
<1>3. SameFlags(l, w)
  BY DEF VqType, SameFlags
<1>4. PostAdmin(w, told) = IF w.cq[0].mapped THEN [w EXCEPT !.host = told] ELSE l
  BY DEF PostAdmin
<1> HIDE DEF l
<1>5. CASE w.cq[0].mapped
  <2> DEFINE h == [w EXCEPT !.host = told]
  <2>1. /\ h \in VqType /\ Same(h, w) /\ h.sq = w.sq /\ h.cq = w.cq /\ h.host = told
    BY PutHost
  <2>2. PostAdmin(w, told) = h
    BY <1>4, <1>5
  <2> HIDE DEF h
  <2> QED BY <2>1, <2>2 DEF Same
<1>6. CASE ~w.cq[0].mapped
  BY <1>1, <1>2, <1>3, <1>4, <1>6
<1> QED BY <1>5, <1>6

(* What happens to completion queues only, but for their references. *)
CqOnly(v, w) ==
    /\ v \in VqType /\ SameFlags(v, w) /\ v.sq = w.sq /\ v.host = w.host /\ v.left = w.left
    /\ v.lost = w.lost /\ \A d \in AllIds : v.cq[d].ref = w.cq[d].ref
    /\ v.cq[0].mapped => w.cq[0].mapped

(* Two changes of completion queues. *)
LEMMA CqOnlyTwice ==
    ASSUME NEW u, NEW v, NEW w, CqOnly(u, v), CqOnly(v, w) PROVE CqOnly(u, w)
  BY DEF CqOnly, SameFlags

(* The values of a completion queue. *)
LEMMA CqEdits ==
    ASSUME NEW x \in VfuCqs
    PROVE  /\ \A b \in BOOLEAN : [x EXCEPT !.size = b] \in VfuCqs /\ [x EXCEPT !.size = b].ref = x.ref
           /\ \A b \in BOOLEAN : [x EXCEPT !.mapped = b] \in VfuCqs /\ [x EXCEPT !.mapped = b].ref = x.ref
           /\ [x EXCEPT !.st = "created"] \in VfuCqs /\ [x EXCEPT !.st = "created"].ref = x.ref
           /\ \A n \in Nat : [x EXCEPT !.ref = n] \in VfuCqs /\ [x EXCEPT !.ref = n].ref = n
  BY DEF VfuCqs

(* A completion queue that keeps its references is replaced. *)
LEMMA CqReplaced ==
    ASSUME NEW w \in VqType, NEW c \in AllIds, NEW x \in VfuCqs, x.ref = w.cq[c].ref,
           c # 0 \/ ~x.mapped
    PROVE  CqOnly([w EXCEPT !.cq[c] = x], w) /\ [w EXCEPT !.cq[c] = x].crash = w.crash
<1> DEFINE v == [w EXCEPT !.cq[c] = x]
<1>1. /\ v \in VqType /\ Same(v, w) /\ v.sq = w.sq /\ v.host = w.host /\ v.left = w.left
      /\ v.cq[c] = x /\ \A d \in AllIds \ {c} : v.cq[d] = w.cq[d]
  BY PutCq
<1> HIDE DEF v
<1>2. (\A d \in AllIds : v.cq[d].ref = w.cq[d].ref) /\ (v.cq[0].mapped => w.cq[0].mapped)
  BY <1>1, QueueIds
<1>3. CqOnly(v, w) /\ v.crash = w.crash
  BY <1>1, <1>2 DEF CqOnly, Same
<1> QED BY <1>3 DEF v

(* What the code does to one of them. *)
LEMMA CqOperators ==
    ASSUME NEW w \in VqType, NEW c \in Io
    PROVE  /\ \A b \in BOOLEAN : CqOnly([w EXCEPT !.cq[c].size = b], w) /\ [w EXCEPT !.cq[c].size = b].crash = w.crash
           /\ CqOnly([w EXCEPT !.cq[c].st = "created"], w) /\ [w EXCEPT !.cq[c].st = "created"].crash = w.crash
           /\ CqOnly(MapCq(w, c), w)
           /\ MapCq(w, c).crash = IF w.crash = "no" /\ w.cq[c].mapped THEN "mapped twice" ELSE w.crash
<1>1. c \in AllIds /\ c # 0 /\ w.cq[c] \in VfuCqs
  BY QueueIds, VqParts
<1>2. ASSUME NEW b \in BOOLEAN
      PROVE  CqOnly([w EXCEPT !.cq[c].size = b], w) /\ [w EXCEPT !.cq[c].size = b].crash = w.crash
  <2> DEFINE x == [w.cq[c] EXCEPT !.size = b]
  <2>1. x \in VfuCqs /\ x.ref = w.cq[c].ref
    BY <1>1, CqEdits
  <2>2. [w EXCEPT !.cq[c].size = b] = [w EXCEPT !.cq[c] = x]
    OBVIOUS
  <2> HIDE DEF x
  <2> QED BY <1>1, <2>1, <2>2, CqReplaced
<1>3. CqOnly([w EXCEPT !.cq[c].st = "created"], w) /\ [w EXCEPT !.cq[c].st = "created"].crash = w.crash
  <2> DEFINE x == [w.cq[c] EXCEPT !.st = "created"]
  <2>1. x \in VfuCqs /\ x.ref = w.cq[c].ref
    BY <1>1, CqEdits
  <2>2. [w EXCEPT !.cq[c].st = "created"] = [w EXCEPT !.cq[c] = x]
    OBVIOUS
  <2> HIDE DEF x
  <2> QED BY <1>1, <2>1, <2>2, CqReplaced
<1>4. /\ CqOnly(MapCq(w, c), w)
      /\ MapCq(w, c).crash = IF w.crash = "no" /\ w.cq[c].mapped THEN "mapped twice" ELSE w.crash
  <2> DEFINE x == [w.cq[c] EXCEPT !.mapped = TRUE]
  <2>1. x \in VfuCqs /\ x.ref = w.cq[c].ref
    BY <1>1, CqEdits
  <2>2. MapCq(w, c) = IF w.cq[c].mapped THEN QueueCrash(w, "mapped twice") ELSE [w EXCEPT !.cq[c] = x]
    BY DEF MapCq
  <2> HIDE DEF x
  <2>3. CASE w.cq[c].mapped
    <3>1. MapCq(w, c) = QueueCrash(w, "mapped twice") BY <2>2, <2>3
    <3> DEFINE z == QueueCrash(w, "mapped twice")
    <3>2. "mapped twice" \in VqCrashes BY DEF VqCrashes
    <3>3. /\ z \in VqType /\ SameFlags(z, w) /\ z.crash = IF w.crash = "no" THEN "mapped twice" ELSE w.crash
          /\ z.sq = w.sq /\ z.cq = w.cq /\ z.host = w.host /\ z.left = w.left /\ z.lost = w.lost
      BY <3>2, CrashFacts
    <3>4. MapCq(w, c) = z BY <3>1
    <3> HIDE DEF z
    <3>5. CqOnly(z, w) BY <3>3 DEF CqOnly
    <3> QED BY <2>3, <3>3, <3>4, <3>5
  <2>4. CASE ~w.cq[c].mapped
    <3>1. MapCq(w, c) = [w EXCEPT !.cq[c] = x] BY <2>2, <2>4
    <3> QED BY <1>1, <2>1, <2>4, <3>1, CqReplaced
  <2> QED BY <2>3, <2>4
<1> QED BY <1>2, <1>3, <1>4

(* delete_cq_done *)
LEMMA DeleteCqDoneFacts ==
    ASSUME NEW w \in VqType, NEW c \in AllIds
    PROVE  CqOnly(DeleteCqDone(w, c), w) /\ DeleteCqDone(w, c).crash = w.crash
<1> DEFINE x == [w.cq[c] EXCEPT !.mapped = FALSE, !.size = FALSE, !.st = "deleted"]
<1>1. x \in VfuCqs /\ x.ref = w.cq[c].ref /\ ~x.mapped
  <2>1. w.cq[c] \in VfuCqs
    BY VqParts
  <2> QED BY <2>1 DEF VfuCqs
<1>2. DeleteCqDone(w, c) = [w EXCEPT !.cq[c] = x]
  BY DEF DeleteCqDone
<1> HIDE DEF x
<1> QED BY <1>1, <1>2, CqReplaced

---------------------------------------------------------------------------
(* References *)

(* Submission queues that hold what they held. *)
LEMMA RefsStay ==
    ASSUME NEW w, RefsCounted(w), NEW v, v.overlap = w.overlap,
           \A p \in AllIds : Holding(v.sq[p]) = Holding(w.sq[p]) /\ v.sq[p].cq = w.sq[p].cq,
           \A c \in AllIds : v.cq[c].ref = w.cq[c].ref
    PROVE  RefsCounted(v)
<1>1. \A c \in AllIds : HoldersIn(v, c) = HoldersIn(w, c)
  BY DEF HoldersIn
<1> QED BY <1>1 DEF RefsCounted

(* A submission queue joins those of a completion queue. *)
LEMMA RefsJoin ==
    ASSUME NEW w \in VqType, RefsCounted(w), NEW v, v.overlap = w.overlap, NEW q \in AllIds, NEW c \in AllIds,
           ~Holding(w.sq[q]), Holding(v.sq[q]), v.sq[q].cq = c,
           \A p \in AllIds \ {q} : v.sq[p] = w.sq[p],
           v.cq[c].ref = w.cq[c].ref + 1, \A d \in AllIds \ {c} : v.cq[d].ref = w.cq[d].ref
    PROVE  RefsCounted(v)
<1> SUFFICES ASSUME ~v.overlap, NEW d \in AllIds
             PROVE  v.cq[d].ref = Cardinality(HoldersIn(v, d))
  BY DEF RefsCounted
<1>1. w.cq[d].ref = Cardinality(HoldersIn(w, d)) /\ IsFiniteSet(HoldersIn(w, d))
  <2>1. HoldersIn(w, d) \subseteq AllIds
    BY DEF HoldersIn
  <2> QED BY <2>1, QueueIds, FS_Subset DEF RefsCounted
<1>2. CASE d = c
  <2>1. HoldersIn(v, d) = HoldersIn(w, d) \cup {q} /\ q \notin HoldersIn(w, d)
    BY <1>2 DEF HoldersIn
  <2>2. Cardinality(HoldersIn(v, d)) = Cardinality(HoldersIn(w, d)) + 1
    BY <1>1, <2>1, FS_AddElement
  <2> QED BY <1>1, <1>2, <2>2
<1>3. CASE d # c
  <2>1. HoldersIn(v, d) = HoldersIn(w, d)
    BY <1>3 DEF HoldersIn
  <2> QED BY <1>1, <1>3, <2>1
<1> QED BY <1>2, <1>3

(* One leaves. *)
LEMMA RefsLeave ==
    ASSUME NEW w \in VqType, RefsCounted(w), NEW v, v.overlap = w.overlap, NEW q \in AllIds, NEW c \in AllIds,
           Holding(w.sq[q]), w.sq[q].cq = c, ~Holding(v.sq[q]),
           \A p \in AllIds \ {q} : v.sq[p] = w.sq[p],
           v.cq[c].ref = w.cq[c].ref - 1, \A d \in AllIds \ {c} : v.cq[d].ref = w.cq[d].ref
    PROVE  RefsCounted(v)
<1> SUFFICES ASSUME ~v.overlap, NEW d \in AllIds
             PROVE  v.cq[d].ref = Cardinality(HoldersIn(v, d))
  BY DEF RefsCounted
<1>1. w.cq[d].ref = Cardinality(HoldersIn(w, d)) /\ IsFiniteSet(HoldersIn(w, d))
  <2>1. HoldersIn(w, d) \subseteq AllIds
    BY DEF HoldersIn
  <2> QED BY <2>1, QueueIds, FS_Subset DEF RefsCounted
<1>2. CASE d = c
  <2>1. HoldersIn(v, d) = HoldersIn(w, d) \ {q} /\ q \in HoldersIn(w, d)
    BY <1>2 DEF HoldersIn
  <2>2. Cardinality(HoldersIn(v, d)) = Cardinality(HoldersIn(w, d)) - 1
    BY <1>1, <2>1, FS_RemoveElement
  <2> QED BY <1>1, <1>2, <2>2
<1>3. CASE d # c
  <2>1. HoldersIn(v, d) = HoldersIn(w, d)
    BY <1>3 DEF HoldersIn
  <2> QED BY <1>1, <1>3, <2>1
<1> QED BY <1>2, <1>3

(* The completion queue of a submission queue that holds it is referenced. *)
LEMMA HeldIsReferenced ==
    ASSUME NEW w \in VqType, RefsCounted(w), ~w.overlap, NEW q \in AllIds, Holding(w.sq[q])
    PROVE  w.cq[w.sq[q].cq].ref > 0
<1> DEFINE c == w.sq[q].cq
<1>1. c \in AllIds /\ q \in HoldersIn(w, c) /\ HoldersIn(w, c) \subseteq AllIds
  BY VqParts DEF HoldersIn
<1>2. w.cq[c].ref = Cardinality(HoldersIn(w, c)) /\ IsFiniteSet(HoldersIn(w, c))
  BY <1>1, QueueIds, FS_Subset DEF RefsCounted
<1>3. Cardinality(HoldersIn(w, c)) # 0 /\ Cardinality(HoldersIn(w, c)) \in Nat
  BY <1>1, <1>2, FS_EmptySet, FS_CardinalityType
<1> QED BY <1>2, <1>3

(* What a step has to show that moves one submission queue. *)
LEMMA OneQueue ==
    ASSUME NEW w, Sound(w), NEW v \in VqType, SameFlags(v, w), w.lost => v.lost, NEW q \in Io,
           \A p \in AllIds \ {q} : v.sq[p] = w.sq[p], \A p \in Io \ {q} : v.host.sq[p] = w.host.sq[p],
           v.cq[0].mapped => w.cq[0].mapped,
           IoSound(v.sq[q]), HostSound(v, q), PhaseSound(v, q), RefsCounted(v)
    PROVE  Sound(v)
<1>1. v.sq[0] = w.sq[0]
  BY QueueIds
<1>2. AdminSound(v) /\ FlagsSound(v)
  BY <1>1 DEF Sound, SameFlags, AdminSound, FlagsSound
<1>3. ASSUME NEW p \in Io \ {q} PROVE IoSound(v.sq[p]) /\ HostSound(v, p) /\ PhaseSound(v, p)
  <2>1. v.sq[p] = w.sq[p] /\ v.host.sq[p] = w.host.sq[p]
    BY QueueIds
  <2> QED BY <2>1 DEF Sound, SameFlags, HostSound, PhaseSound
<1> QED BY <1>2, <1>3 DEF Sound

(* One that leaves the submission queues and the phase as they are. *)
LEMMA SameQueues ==
    ASSUME NEW w, Sound(w), NEW v \in VqType, SameFlags(v, w), w.lost => v.lost, v.sq = w.sq,
           v.host.sq = w.host.sq, \A c \in AllIds : v.cq[c].ref = w.cq[c].ref,
           v.cq[0].mapped => w.cq[0].mapped
    PROVE  Sound(v)
<1>1. RefsCounted(v)
  BY RefsStay DEF Sound, SameFlags
<1> QED BY <1>1 DEF Sound, SameFlags, AdminSound, FlagsSound, HostSound, PhaseSound

---------------------------------------------------------------------------
(* The steps *)

(* The process ends for a reason that the invariant allows. *)
LEMMA CrashKept ==
    ASSUME NEW v, v.crash # "no", v.crash \notin {"reference", "unmapped queue", "queue pair in use"}
    PROVE  QueueInv(v)
  BY DEF QueueInv

(* A step that does not end it. *)
LEMMA AliveKept ==
    ASSUME NEW v, v.crash = "no", Sound(v)
    PROVE  QueueInv(v)
  BY DEF QueueInv

(* A command that has been counted. *)
LEMMA Counted1 ==
    ASSUME vq \in VqType, vq.left.creates > 0
    PROVE  LET w == [vq EXCEPT !.left.creates = @ - 1]
           IN  w \in VqType /\ Same(w, vq) /\ w.sq = vq.sq /\ w.cq = vq.cq /\ w.host = vq.host
<1> DEFINE l == [vq.left EXCEPT !.creates = @ - 1]
<1>1. l \in VfuBounds
  BY VqFields DEF VfuBounds
<1>2. [vq EXCEPT !.left.creates = @ - 1] = [vq EXCEPT !.left = l]
  OBVIOUS
<1> HIDE DEF l
<1> QED BY <1>1, <1>2, PutBounds

(* A completion queue is created. *)
LEMMA CreateCqKeeps ==
    ASSUME Sound(vq), vq.crash = "no", NEW c \in Io, CreateCq(c) PROVE QueueInv(vq')
<1> DEFINE w == [vq EXCEPT !.left.creates = @ - 1]
           sized == [w EXCEPT !.cq[c].size = TRUE]
           mapped == MapCq(sized, c)
           y == [mapped EXCEPT !.cq[c].st = "created"]
           told == [vq.host EXCEPT !.cq[c] = TRUE]
<1>1. vq \in VqType /\ vq.left.creates > 0
  BY DEF Sound, CreateCq
<1>2. w \in VqType /\ Same(w, vq) /\ w.sq = vq.sq /\ w.cq = vq.cq /\ w.host = vq.host
  BY <1>1, Counted1
<1>3. vq' = w \/ vq' = sized \/ vq' = PostAdmin(y, told)
  BY DEF CreateCq
<1> HIDE DEF w
<1>4. CqOnly(sized, w) /\ sized.crash = w.crash
  BY <1>1, <1>2, CqOperators
<1> HIDE DEF sized
<1>5. CqOnly(mapped, sized) /\ mapped.crash \in {sized.crash, "mapped twice"}
  <2>1. sized \in VqType
    BY <1>4 DEF CqOnly
  <2> QED BY <2>1, CqOperators
<1> HIDE DEF mapped
<1>6. CqOnly(y, mapped) /\ y.crash = mapped.crash
  <2>1. mapped \in VqType
    BY <1>5 DEF CqOnly
  <2> QED BY <2>1, CqOperators
<1> HIDE DEF y
<1>7. told \in VfuHosts /\ told.sq = vq.host.sq
  BY <1>1, VqFields DEF VfuHosts
<1> HIDE DEF told
<1>8. CASE vq' = w
  BY <1>2, <1>8, SameQueues, AliveKept DEF Same
<1>9. CASE vq' = sized
  <2>1. vq' \in VqType /\ SameFlags(vq', vq) /\ vq'.lost = vq.lost /\ vq'.sq = vq.sq /\ vq'.host = vq.host
        /\ vq'.crash = vq.crash /\ (\A d \in AllIds : vq'.cq[d].ref = vq.cq[d].ref)
        /\ (vq'.cq[0].mapped => vq.cq[0].mapped)
    BY <1>2, <1>4, <1>9 DEF CqOnly, Same, SameFlags
  <2> QED BY <2>1, SameQueues, AliveKept
<1>10. CASE vq' = PostAdmin(y, told)
  <2>1. CqOnly(y, w)
    BY <1>4, <1>5, <1>6, CqOnlyTwice
  <2>2. /\ y \in VqType /\ SameFlags(y, vq) /\ y.sq = vq.sq /\ y.host = vq.host /\ y.lost = vq.lost
        /\ (\A d \in AllIds : y.cq[d].ref = vq.cq[d].ref) /\ (y.cq[0].mapped => vq.cq[0].mapped)
    BY <1>2, <2>1 DEF CqOnly, Same, SameFlags
  <2>3. /\ vq' \in VqType /\ SameFlags(vq', y) /\ vq'.crash = y.crash /\ vq'.sq = y.sq /\ vq'.cq = y.cq
        /\ \/ vq'.host = told /\ vq'.lost = y.lost
           \/ vq'.host = y.host /\ vq'.lost
    BY <1>7, <1>10, <2>2, PostAdminFacts
  <2>4. SameFlags(vq', vq)
    BY <2>2, <2>3 DEF SameFlags
  <2>5. vq'.sq = vq.sq /\ vq'.host.sq = vq.host.sq /\ (vq.lost => vq'.lost)
        /\ (\A d \in AllIds : vq'.cq[d].ref = vq.cq[d].ref) /\ (vq'.cq[0].mapped => vq.cq[0].mapped)
    BY <1>7, <2>2, <2>3
  <2>6. Sound(vq')
    BY <2>3, <2>4, <2>5, SameQueues
  <2>7. vq'.crash \in {"no", "mapped twice"}
    BY <1>2, <1>4, <1>5, <1>6, <2>3 DEF Same
  <2> QED BY <2>6, <2>7, AliveKept, CrashKept
<1> QED BY <1>3, <1>8, <1>9, <1>10

(* A completion queue is deleted. *)
LEMMA DeleteCqKeeps ==
    ASSUME Sound(vq), vq.crash = "no", NEW c \in Io, DeleteCq(c) PROVE QueueInv(vq')
<1> DEFINE y == DeleteCqDone(vq, c)
           told == [vq.host EXCEPT !.cq[c] = FALSE]
<1>1. vq \in VqType /\ c \in AllIds
  BY QueueIds DEF Sound
<1>2. CASE vq' = vq
  BY <1>2, AliveKept
<1>3. CASE vq' = PostAdmin(y, told)
  <2>1. CqOnly(y, vq) /\ y.crash = vq.crash
    BY <1>1, DeleteCqDoneFacts
  <2>2. told \in VfuHosts /\ told.sq = vq.host.sq
    BY <1>1, VqFields DEF VfuHosts
  <2> HIDE DEF y, told
  <2>3. /\ y \in VqType /\ SameFlags(y, vq) /\ y.sq = vq.sq /\ y.host = vq.host /\ y.lost = vq.lost
        /\ (\A d \in AllIds : y.cq[d].ref = vq.cq[d].ref) /\ (y.cq[0].mapped => vq.cq[0].mapped)
    BY <2>1 DEF CqOnly
  <2>4. /\ vq' \in VqType /\ SameFlags(vq', y) /\ vq'.crash = y.crash /\ vq'.sq = y.sq /\ vq'.cq = y.cq
        /\ \/ vq'.host = told /\ vq'.lost = y.lost
           \/ vq'.host = y.host /\ vq'.lost
    BY <1>3, <2>2, <2>3, PostAdminFacts
  <2>5. SameFlags(vq', vq)
    BY <2>3, <2>4 DEF SameFlags
  <2>6. vq'.sq = vq.sq /\ vq'.host.sq = vq.host.sq /\ (vq.lost => vq'.lost)
        /\ (\A d \in AllIds : vq'.cq[d].ref = vq.cq[d].ref) /\ (vq'.cq[0].mapped => vq.cq[0].mapped)
    BY <2>2, <2>3, <2>4
  <2> QED BY <2>1, <2>4, <2>5, <2>6, SameQueues, AliveKept
<1> QED BY <1>2, <1>3 DEF DeleteCq

(* map_q of a submission queue. *)
LEMMA MapSqFacts ==
    ASSUME NEW w \in VqType, NEW q \in AllIds
    PROVE  LET v == MapSq(w, q)
           IN  /\ v \in VqType /\ SameFlags(v, w) /\ v.lost = w.lost /\ v.cq = w.cq /\ v.host = w.host
               /\ v.left = w.left /\ v.sq = [w.sq EXCEPT ![q] = [w.sq[q] EXCEPT !.mapped = TRUE]]
               /\ v.crash = IF w.crash = "no" /\ w.sq[q].mapped THEN "mapped twice" ELSE w.crash
<1> DEFINE x == [w.sq[q] EXCEPT !.mapped = TRUE]
           z == QueueCrash(w, "mapped twice")
<1>1. x \in VfuSqs /\ w.sq[q] \in VfuSqs
  <2>1. w.sq[q] \in VfuSqs
    BY VqParts
  <2> QED BY <2>1 DEF VfuSqs
<1>2. MapSq(w, q) = IF w.sq[q].mapped THEN z ELSE [w EXCEPT !.sq[q] = x]
  BY DEF MapSq
<1>3. "mapped twice" \in VqCrashes
  BY DEF VqCrashes
<1>4. /\ z \in VqType /\ SameFlags(z, w) /\ z.crash = IF w.crash = "no" THEN "mapped twice" ELSE w.crash
      /\ z.sq = w.sq /\ z.cq = w.cq /\ z.host = w.host /\ z.left = w.left /\ z.lost = w.lost
  BY <1>3, CrashFacts
<1>5. w.sq[q].mapped => x = w.sq[q]
  BY <1>1 DEF VfuSqs
<1> HIDE DEF z, x
<1>6. CASE w.sq[q].mapped
  <2>1. [w.sq EXCEPT ![q] = x] = w.sq
    BY <1>5, <1>6, VqFields
  <2>2. MapSq(w, q) = z
    BY <1>2, <1>6
  <2> QED BY <1>4, <1>6, <2>1, <2>2 DEF x
<1>7. CASE ~w.sq[q].mapped
  <2> DEFINE v == [w EXCEPT !.sq[q] = x]
  <2>1. /\ v \in VqType /\ Same(v, w) /\ v.cq = w.cq /\ v.host = w.host /\ v.left = w.left
        /\ v.sq = [w.sq EXCEPT ![q] = x]
    BY <1>1, PutSq
  <2>2. MapSq(w, q) = v
    BY <1>2, <1>7
  <2> HIDE DEF v
  <2> QED BY <1>7, <2>1, <2>2 DEF Same, x
<1> QED BY <1>6, <1>7

(* A submission queue is created. *)
LEMMA CreateSqKeeps ==
    ASSUME Sound(vq), vq.crash = "no", NEW q \in Io, NEW c \in Io, CreateSq(q, c) PROVE QueueInv(vq')
<1> DEFINE w == [vq EXCEPT !.left.creates = @ - 1]
           sized == [w EXCEPT !.sq[q].size = TRUE]
           mapped == MapSq(sized, q)
           noRequests == [mapped EXCEPT !.left.faults = @ - 1]
           y == [mapped.sq[q] EXCEPT !.cq = c, !.st = "created", !.qp = "new", !.create = TRUE]
           created == [mapped EXCEPT !.sq[q] = y, !.cq[c].ref = @ + 1, !.host = HostSq(w, q, "creating")]
           x == [vq.sq[q] EXCEPT !.size = TRUE]
           m == [x EXCEPT !.mapped = TRUE]
<1>0. vq \in VqType /\ q \in AllIds /\ c \in AllIds
  BY QueueIds DEF Sound
<1>1. /\ vq.left.creates > 0 /\ vq.host.sq[q] = "none"
      /\ RefsCounted(vq) /\ IoSound(vq.sq[q]) /\ PhaseSound(vq, q)
  BY DEF Sound, CreateSq
<1>2. w \in VqType /\ Same(w, vq) /\ w.sq = vq.sq /\ w.cq = vq.cq /\ w.host = vq.host
  BY <1>0, <1>1, Counted1
<1>3. vq.sq[q] \in VfuSqs
  BY <1>0, VqParts
<1>4. x \in VfuSqs /\ m \in VfuSqs
  BY <1>3 DEF VfuSqs
<1>5. sized = [w EXCEPT !.sq[q] = x]
  BY <1>2
<1>6. \/ vq' = w
      \/ ~Exists(vq.sq[q].st) /\ vq' = sized
      \/ ~Exists(vq.sq[q].st) /\ vq.left.faults > 0 /\ vq' = noRequests
      \/ ~Exists(vq.sq[q].st) /\ vq' = IF vq.sq[q].qp # "none" THEN QueueCrash(created, "queue pair in use")
                                       ELSE created
  BY DEF CreateSq
<1> HIDE DEF w
<1>7. /\ sized \in VqType /\ Same(sized, w) /\ sized.cq = w.cq /\ sized.host = w.host /\ sized.left = w.left
      /\ sized.sq = [w.sq EXCEPT ![q] = x] /\ sized.sq[q] = x
      /\ \A p \in AllIds \ {q} : sized.sq[p] = w.sq[p]
  <2> HIDE DEF x, sized
  <2>1. w \in VqType
    BY <1>2
  <2> QED BY <1>0, <1>4, <1>5, <2>1, PutSq
<1> HIDE DEF sized
<1>8. x.mapped = vq.sq[q].mapped
  BY <1>3 DEF VfuSqs
<1>9. /\ mapped \in VqType /\ SameFlags(mapped, sized) /\ mapped.lost = sized.lost /\ mapped.cq = sized.cq
      /\ mapped.host = sized.host /\ mapped.left = sized.left
      /\ mapped.sq = [sized.sq EXCEPT ![q] = m]
      /\ mapped.crash = IF sized.crash = "no" /\ vq.sq[q].mapped THEN "mapped twice" ELSE sized.crash
  <2>1. sized \in VqType /\ sized.sq[q] = x
    BY <1>7
  <2> HIDE DEF x
  <2> QED BY <1>0, <1>8, <2>1, MapSqFacts
<1> HIDE DEF mapped
<1>10. /\ mapped.sq[q] = m /\ \A p \in AllIds \ {q} : mapped.sq[p] = vq.sq[p]
  <2>1. sized.sq \in [AllIds -> VfuSqs] /\ \A p \in AllIds \ {q} : sized.sq[p] = vq.sq[p]
    BY <1>2, <1>7, VqFields
  <2> HIDE DEF m
  <2> QED BY <1>0, <1>9, <2>1
<1>11. /\ SameFlags(mapped, vq) /\ mapped.lost = vq.lost /\ mapped.cq = vq.cq /\ mapped.host = vq.host
       /\ mapped.crash = IF vq.sq[q].mapped THEN "mapped twice" ELSE "no"
  BY <1>2, <1>7, <1>9 DEF Same, SameFlags
<1>12. ~Exists(vq.sq[q].st) => vq.sq[q].st \in {"unused", "deleted"}
  BY DEF Exists, DeletedOrUnused
<1>13. CASE vq' = w
  BY <1>2, <1>13, SameQueues, AliveKept DEF Same
<1>14. CASE ~Exists(vq.sq[q].st) /\ vq' = sized
  <2>1. vq' \in VqType /\ SameFlags(vq', vq) /\ vq'.lost = vq.lost /\ vq'.crash = "no"
        /\ vq'.cq = vq.cq /\ vq'.host = vq.host
    BY <1>2, <1>7, <1>14 DEF Same, SameFlags
  <2>2. vq'.sq[q] = x /\ \A p \in AllIds \ {q} : vq'.sq[p] = vq.sq[p]
    BY <1>2, <1>7, <1>14
  <2>3. x.st = vq.sq[q].st /\ x.qp = vq.sq[q].qp /\ x.delete = vq.sq[q].delete /\ x.cq = vq.sq[q].cq
        /\ x.listed = vq.sq[q].listed /\ x.create = vq.sq[q].create /\ x.mapped = vq.sq[q].mapped /\ x.size
    BY <1>3 DEF VfuSqs
  <2> HIDE DEF x
  <2>4. IoSound(vq'.sq[q]) /\ HostSound(vq', q) /\ PhaseSound(vq', q)
    BY <1>1, <2>1, <2>2, <2>3 DEF IoSound, HostSound, PhaseSound, SameFlags
  <2>5. RefsCounted(vq')
    <3>1. \A p \in AllIds : Holding(vq'.sq[p]) = Holding(vq.sq[p]) /\ vq'.sq[p].cq = vq.sq[p].cq
      BY <2>2, <2>3 DEF Holding
    <3> QED BY <1>1, <2>1, <3>1, RefsStay DEF SameFlags
  <2>6. Sound(vq')
    BY <1>0, <2>1, <2>2, <2>4, <2>5, OneQueue
  <2> QED BY <2>1, <2>6, AliveKept
<1>15. CASE ~Exists(vq.sq[q].st) /\ vq.left.faults > 0 /\ vq' = noRequests
  <2> DEFINE l == [mapped.left EXCEPT !.faults = @ - 1]
  <2>1. l \in VfuBounds
    <3>1. mapped.left = w.left BY <1>7, <1>9
    <3>2. w.left.faults = vq.left.faults BY <1>0, VqFields DEF w, VqType, VfuBounds
    <3>3. mapped.left \in VfuBounds BY <1>9, VqFields
    <3> QED BY <1>15, <3>1, <3>2, <3>3 DEF VfuBounds
  <2>2. vq' = [mapped EXCEPT !.left = l]
    BY <1>15
  <2> HIDE DEF l
  <2>3. vq' \in VqType /\ Same(vq', mapped) /\ vq'.sq = mapped.sq /\ vq'.cq = mapped.cq /\ vq'.host = mapped.host
    BY <1>9, <2>1, <2>2, PutBounds
  <2>4. vq' \in VqType /\ SameFlags(vq', vq) /\ vq'.lost = vq.lost /\ vq'.cq = vq.cq /\ vq'.host = vq.host
        /\ vq'.crash \in {"no", "mapped twice"}
    BY <1>11, <2>3 DEF Same, SameFlags
  <2>5. vq'.sq[q] = m /\ \A p \in AllIds \ {q} : vq'.sq[p] = vq.sq[p]
    BY <1>10, <2>3
  <2>6. m.st = vq.sq[q].st /\ m.qp = vq.sq[q].qp /\ m.delete = vq.sq[q].delete /\ m.cq = vq.sq[q].cq
        /\ m.listed = vq.sq[q].listed /\ m.create = vq.sq[q].create /\ m.mapped /\ m.size
    BY <1>3, <1>4 DEF VfuSqs
  <2> HIDE DEF m
  <2>7. IoSound(vq'.sq[q]) /\ HostSound(vq', q) /\ PhaseSound(vq', q)
    BY <1>1, <2>4, <2>5, <2>6 DEF IoSound, HostSound, PhaseSound, SameFlags
  <2>8. RefsCounted(vq')
    <3>1. \A p \in AllIds : Holding(vq'.sq[p]) = Holding(vq.sq[p]) /\ vq'.sq[p].cq = vq.sq[p].cq
      BY <2>5, <2>6 DEF Holding
    <3> QED BY <1>1, <2>4, <3>1, RefsStay DEF SameFlags
  <2>9. Sound(vq')
    BY <1>0, <2>4, <2>5, <2>7, <2>8, OneQueue
  <2> QED BY <2>4, <2>9, AliveKept, CrashKept
<1>16. CASE /\ ~Exists(vq.sq[q].st)
            /\ vq' = IF vq.sq[q].qp # "none" THEN QueueCrash(created, "queue pair in use") ELSE created
  <2> DEFINE n == mapped.cq[c].ref + 1
             d == [mapped.cq[c] EXCEPT !.ref = n]
             h == HostSq(w, q, "creating")
             v1q == [mapped EXCEPT !.sq[q] = y]
             v2q == [v1q EXCEPT !.cq[c] = d]
  <2>1. y \in VfuSqs /\ y.cq = c /\ y.st = "created" /\ y.qp = "new" /\ y.create /\ y.mapped /\ y.size
        /\ y.listed = vq.sq[q].listed /\ y.delete = vq.sq[q].delete
    <3>1. m.mapped /\ m.size /\ m.listed = vq.sq[q].listed /\ m.delete = vq.sq[q].delete
      BY <1>3 DEF VfuSqs
    <3>2. y = [m EXCEPT !.cq = c, !.st = "created", !.qp = "new", !.create = TRUE]
      BY <1>10
    <3> HIDE DEF y, m
    <3> QED BY <1>0, <1>4, <3>1, <3>2 DEF VfuSqs
  <2>2. mapped.cq[c] \in VfuCqs /\ mapped.cq[c].ref \in Nat /\ mapped.cq[c] = vq.cq[c]
    BY <1>0, <1>9, <1>11, VqParts
  <2>3. d \in VfuCqs /\ d.ref = vq.cq[c].ref + 1 /\ d.mapped = vq.cq[c].mapped
    BY <2>2 DEF VfuCqs
  <2>4. h \in VfuHosts /\ h.sq[q] = "creating" /\ \A p \in Io \ {q} : h.sq[p] = vq.host.sq[p]
    BY <1>2, HostSqFacts
  <2>5. created = [v2q EXCEPT !.host = h]
    OBVIOUS
  <2> HIDE DEF y, d, h
  <2>6. /\ v1q \in VqType /\ Same(v1q, mapped) /\ v1q.cq = mapped.cq /\ v1q.sq[q] = y
        /\ \A p \in AllIds \ {q} : v1q.sq[p] = mapped.sq[p]
    <3>1. mapped \in VqType /\ y \in VfuSqs BY <1>9, <2>1
    <3> QED BY <1>0, <3>1, PutSq
  <2> HIDE DEF v1q
  <2>7. /\ v2q \in VqType /\ Same(v2q, v1q) /\ v2q.sq = v1q.sq /\ v2q.cq[c] = d
        /\ \A e \in AllIds \ {c} : v2q.cq[e] = v1q.cq[e]
    <3>1. v1q \in VqType /\ d \in VfuCqs BY <2>3, <2>6
    <3> QED BY <1>0, <3>1, PutCq
  <2> HIDE DEF v2q
  <2>8. created \in VqType /\ Same(created, v2q) /\ created.sq = v2q.sq /\ created.cq = v2q.cq /\ created.host = h
    <3> HIDE DEF created
    <3>1. v2q \in VqType /\ h \in VfuHosts BY <2>4, <2>7
    <3> QED BY <2>5, <3>1, PutHost
  <2> HIDE DEF created
  <2>9. /\ created.crash = IF vq.sq[q].mapped THEN "mapped twice" ELSE "no"
        /\ SameFlags(created, vq) /\ created.lost = vq.lost
    BY <1>11, <2>6, <2>7, <2>8 DEF Same, SameFlags
  <2>10. CASE vq.sq[q].mapped
    <3>1. "queue pair in use" \in VqCrashes BY DEF VqCrashes
    <3>2. QueueCrash(created, "queue pair in use").crash = "mapped twice"
      BY <2>8, <2>9, <2>10, <3>1, CrashFacts
    <3>3. vq'.crash = "mapped twice" BY <1>16, <2>9, <2>10, <3>2
    <3> QED BY <3>3, CrashKept
  <2>11. CASE ~vq.sq[q].mapped
    <3>1. vq.sq[q].qp = "none" /\ ~vq.sq[q].listed /\ ~vq.sq[q].delete
      BY <1>0, <1>1, <1>3, <1>12, <1>16, <2>11, VqParts DEF IoSound
    <3>2. vq' = created BY <1>16, <3>1
    <3>3. /\ vq'.sq[q] = y /\ (\A p \in AllIds \ {q} : vq'.sq[p] = vq.sq[p])
          /\ vq'.cq[c] = d /\ (\A e \in AllIds \ {c} : vq'.cq[e] = vq.cq[e])
          /\ vq'.host = h
      <4>1. vq'.sq = v1q.sq /\ vq'.cq = v2q.cq /\ vq'.host = h BY <2>7, <2>8, <3>2
      <4>2. vq'.sq[q] = y /\ (\A p \in AllIds \ {q} : vq'.sq[p] = vq.sq[p])
        BY <1>10, <2>6, <4>1
      <4>3. vq'.cq[c] = d /\ (\A e \in AllIds \ {c} : vq'.cq[e] = vq.cq[e])
        BY <1>11, <2>6, <2>7, <4>1
      <4> QED BY <4>1, <4>2, <4>3
    <3>4. IoSound(vq'.sq[q]) BY <2>1, <3>1, <3>3 DEF IoSound
    <3>5. HostSound(vq', q) BY <2>1, <2>4, <3>3 DEF HostSound
    <3>6. PhaseSound(vq', q) BY <2>1, <3>1, <3>3 DEF PhaseSound
    <3>7. RefsCounted(vq')
      <4>1. ~Holding(vq.sq[q]) /\ Holding(vq'.sq[q]) /\ vq'.sq[q].cq = c
        BY <1>12, <1>16, <2>1, <3>1, <3>3 DEF Holding
      <4>2. vq'.overlap = vq.overlap BY <2>9, <3>2 DEF SameFlags
      <4>3. vq'.cq[c].ref = vq.cq[c].ref + 1 /\ \A e \in AllIds \ {c} : vq'.cq[e].ref = vq.cq[e].ref
        BY <2>3, <3>3
      <4> QED BY <1>0, <1>1, <3>3, <4>1, <4>2, <4>3, RefsJoin
    <3>8. vq'.cq[0].mapped => vq.cq[0].mapped BY <1>0, <2>3, <3>3, QueueIds
    <3>9. \A p \in Io \ {q} : vq'.host.sq[p] = vq.host.sq[p] BY <2>4, <3>3
    <3>10. vq' \in VqType /\ SameFlags(vq', vq) /\ (vq.lost => vq'.lost)
      BY <2>8, <2>9, <3>2
    <3>11. \A p \in AllIds \ {q} : vq'.sq[p] = vq.sq[p] BY <3>3
    <3>12. Sound(vq') BY <3>4, <3>5, <3>6, <3>7, <3>8, <3>9, <3>10, <3>11, OneQueue
    <3> QED BY <2>9, <2>11, <3>2, <3>12, AliveKept
  <2> QED BY <2>10, <2>11
<1> QED BY <1>6, <1>13, <1>14, <1>15, <1>16

(* While the admin queue serves commands no reset is under way and all of
   the memory is there. *)
LEMMA ServedFacts ==
    ASSUME Sound(vq), AdminServed
    PROVE  ~vq.resetShn /\ ~vq.gone /\ vq.mem = Regions
<1>1. ~vq.resetShn /\ ~vq.gone
  BY DEF Sound, FlagsSound, AdminServed
<1>2. vq.sq[0].mapped /\ vq.cq[0].mapped
  BY <1>1 DEF Sound, AdminSound, AdminServed
<1>3. "sq" \in vq.mem /\ "cq" \in vq.mem /\ vq.mem \subseteq Regions
  BY <1>1, <1>2, VqFields DEF Sound, AdminSound
<1> QED BY <1>1, <1>3 DEF Regions

(* A submission queue is deleted. *)
LEMMA DeleteSqKeeps ==
    ASSUME Sound(vq), vq.crash = "no", NEW q \in Io, DeleteSq(q) PROVE QueueInv(vq')
<1> DEFINE c == vq.sq[q].cq
           r == vq.cq[c].ref
           y == [vq.sq[q] EXCEPT !.st = "deleted", !.delete = TRUE,
                                 !.qp = IF vq.sq[q].qp = "on" THEN "off" ELSE vq.sq[q].qp]
           d == [vq.cq[c] EXCEPT !.ref = r - 1]
           h == HostSq(vq, q, "deleting")
           v1q == [vq EXCEPT !.sq[q] = y]
           v2q == [v1q EXCEPT !.cq[c] = d]
           less == [v2q EXCEPT !.host = h]
<1>1. vq \in VqType /\ q \in AllIds
  BY QueueIds DEF Sound
<1>2. /\ vq.sq[q] \in VfuSqs /\ c \in AllIds /\ vq.cq[c] \in VfuCqs /\ r \in Nat
      /\ vq.sq[q].qp \in {"none", "new", "on", "off", "out"}
      /\ vq.sq[q].st \in {"unused", "created", "active", "inactive", "deleted"}
  BY <1>1, VqParts
<1>3. /\ vq.host.sq[q] = "created" /\ vq.sq[q].st \notin {"unused", "deleted"} /\ AdminServed
      /\ IoSound(vq.sq[q]) /\ HostSound(vq, q) /\ PhaseSound(vq, q) /\ RefsCounted(vq)
  BY DEF DeleteSq, Exists, DeletedOrUnused, Sound
<1>4. ~vq.resetShn /\ ~vq.gone /\ vq.mem = Regions
  BY <1>3, ServedFacts
<1>5. /\ vq.sq[q].qp \in {"on", "off", "out"} /\ ~vq.sq[q].delete /\ vq.sq[q].listed
      /\ vq.sq[q].st = "active" /\ vq.sq[q].mapped /\ vq.sq[q].size /\ ~vq.sq[q].create
  BY <1>2, <1>3, <1>4 DEF IoSound, HostSound, PhaseSound, DeletedOrUnused
<1>6. Holding(vq.sq[q])
  BY <1>5 DEF Holding
<1>7. CASE r = 0
  <2>1. vq' = QueueCrash(vq, "reference")
    BY <1>7 DEF DeleteSq
  <2>2. "reference" \in VqCrashes
    BY DEF VqCrashes
  <2>3. vq'.crash = "reference" /\ SameFlags(vq', vq)
    BY <1>1, <2>1, <2>2, CrashFacts
  <2>4. vq.overlap
    BY <1>1, <1>3, <1>6, <1>7, HeldIsReferenced
  <2> QED BY <2>3, <2>4 DEF QueueInv, SameFlags
<1>8. CASE r # 0
  <2>1. vq' = less
    BY <1>8 DEF DeleteSq
  <2>2. /\ y \in VfuSqs /\ y.st = "deleted" /\ y.delete /\ y.qp \in {"off", "out"} /\ y.cq = c
        /\ y.listed /\ y.mapped /\ y.size /\ ~y.create
        /\ y.qp = "off" => vq.sq[q].qp \in {"on", "off"}
    BY <1>2, <1>5 DEF VfuSqs
  <2>3. d \in VfuCqs /\ d.ref = r - 1 /\ d.mapped = vq.cq[c].mapped
    BY <1>2, <1>8 DEF VfuCqs
  <2>4. h \in VfuHosts /\ h.sq[q] = "deleting" /\ \A p \in Io \ {q} : h.sq[p] = vq.host.sq[p]
    BY <1>1, HostSqFacts
  <2> HIDE DEF y, d, h, c
  <2>5. /\ v1q \in VqType /\ Same(v1q, vq) /\ v1q.cq = vq.cq /\ v1q.sq[q] = y
        /\ \A p \in AllIds \ {q} : v1q.sq[p] = vq.sq[p]
    BY <1>1, <2>2, PutSq
  <2> HIDE DEF v1q
  <2>6. /\ v2q \in VqType /\ Same(v2q, v1q) /\ v2q.sq = v1q.sq /\ v2q.cq[c] = d
        /\ \A e \in AllIds \ {c} : v2q.cq[e] = v1q.cq[e]
    <3>1. c \in AllIds BY <1>2
    <3> QED BY <2>3, <2>5, <3>1, PutCq
  <2> HIDE DEF v2q
  <2>7. less \in VqType /\ Same(less, v2q) /\ less.sq = v2q.sq /\ less.cq = v2q.cq /\ less.host = h
    BY <2>4, <2>6, PutHost
  <2> HIDE DEF less
  <2>8. vq' \in VqType /\ SameFlags(vq', vq) /\ vq'.lost = vq.lost /\ vq'.crash = vq.crash
    BY <2>1, <2>5, <2>6, <2>7 DEF Same, SameFlags
  <2>9. vq'.sq[q] = y /\ (\A p \in AllIds \ {q} : vq'.sq[p] = vq.sq[p]) /\ vq'.host = h
    BY <2>1, <2>5, <2>6, <2>7
  <2>10. vq'.cq[c] = d /\ (\A e \in AllIds \ {c} : vq'.cq[e] = vq.cq[e])
    BY <2>1, <2>5, <2>6, <2>7
  <2>11. IoSound(vq'.sq[q])
    BY <2>2, <2>9 DEF IoSound
  <2>12. HostSound(vq', q)
    BY <2>2, <2>4, <2>9 DEF HostSound
  <2>13. PhaseSound(vq', q)
    BY <1>3, <1>4, <2>2, <2>8, <2>9 DEF PhaseSound, SameFlags
  <2>14. RefsCounted(vq')
    <3>1. ~Holding(vq'.sq[q]) /\ vq.sq[q].cq = c /\ c \in AllIds
      BY <1>2, <2>2, <2>9 DEF Holding, c
    <3>2. vq'.cq[c].ref = vq.cq[c].ref - 1 /\ \A e \in AllIds \ {c} : vq'.cq[e].ref = vq.cq[e].ref
      BY <2>3, <2>10
    <3>3. vq'.overlap = vq.overlap BY <2>8 DEF SameFlags
    <3> QED BY <1>1, <1>3, <1>6, <2>9, <3>1, <3>2, <3>3, RefsLeave
  <2>15. vq'.cq[0].mapped => vq.cq[0].mapped
    BY <2>3, <2>10, QueueIds
  <2>16. \A p \in Io \ {q} : vq'.host.sq[p] = vq.host.sq[p]
    BY <2>4, <2>9
  <2>17. Sound(vq')
    BY <2>8, <2>9, <2>11, <2>12, <2>13, <2>14, <2>15, <2>16, OneQueue
  <2> QED BY <2>8, <2>17, AliveKept
<1> QED BY <1>7, <1>8

(* What a step has to show that moves a queue pair or a command of a
   submission queue and no reference. *)
LEMMA SqMoves ==
    ASSUME Sound(vq), NEW q \in Io, NEW x \in VfuSqs, NEW v \in VqType,
           SameFlags(v, vq), v.lost = vq.lost, v.host = vq.host, v.cq = vq.cq,
           v.sq[q] = x, \A p \in AllIds \ {q} : v.sq[p] = vq.sq[p],
           IoSound(x), Holding(x) = Holding(vq.sq[q]), x.cq = vq.sq[q].cq, x.delete = vq.sq[q].delete,
           x.qp = "new" <=> vq.sq[q].qp = "new", PhaseSound(v, q)
    PROVE  Sound(v)
<1>1. RefsCounted(v)
  <2>1. \A p \in AllIds : Holding(v.sq[p]) = Holding(vq.sq[p]) /\ v.sq[p].cq = vq.sq[p].cq
    OBVIOUS
  <2> QED BY <2>1, RefsStay DEF Sound, SameFlags
<1>2. HostSound(v, q)
  BY DEF Sound, HostSound
<1> QED BY <1>1, <1>2, OneQueue

(* A command is taken, or the process ends. *)
LEMMA SubmitIoKeeps ==
    ASSUME Sound(vq), vq.crash = "no", NEW q \in Io, SubmitIo(q) PROVE QueueInv(vq')
<1> DEFINE x == [vq.sq[q] EXCEPT !.busy = 1]
           l == [vq.left EXCEPT !.commands = @ - 1]
           v1q == [vq EXCEPT !.sq[q] = x]
<1>1. vq \in VqType /\ q \in AllIds /\ IoSound(vq.sq[q]) /\ PhaseSound(vq, q)
  BY QueueIds DEF Sound
<1>2. vq.sq[q] \in VfuSqs
  BY <1>1, VqParts
<1>3. vq.sq[q].mapped
  BY <1>1 DEF SubmitIo, IoSound
<1>4. vq' = [v1q EXCEPT !.left = l]
  BY <1>3 DEF SubmitIo
<1>5. x \in VfuSqs /\ x.st = vq.sq[q].st /\ x.qp = vq.sq[q].qp /\ x.delete = vq.sq[q].delete
      /\ x.cq = vq.sq[q].cq /\ x.listed = vq.sq[q].listed /\ x.create = vq.sq[q].create
      /\ x.mapped = vq.sq[q].mapped /\ x.size = vq.sq[q].size
  BY <1>2 DEF VfuSqs
<1>6. l \in VfuBounds
  <2>1. vq.left \in VfuBounds /\ vq.left.commands > 0
    BY <1>1, VqFields DEF SubmitIo
  <2> QED BY <2>1 DEF VfuBounds
<1> HIDE DEF x, l
<1>7. /\ v1q \in VqType /\ Same(v1q, vq) /\ v1q.cq = vq.cq /\ v1q.sq[q] = x /\ v1q.host = vq.host
      /\ \A p \in AllIds \ {q} : v1q.sq[p] = vq.sq[p]
  BY <1>1, <1>5, PutSq
<1> HIDE DEF v1q
<1>8. /\ vq' \in VqType /\ Same(vq', v1q) /\ vq'.sq = v1q.sq /\ vq'.cq = v1q.cq /\ vq'.host = v1q.host
  BY <1>4, <1>6, <1>7, PutBounds
<1>9. SameFlags(vq', vq) /\ vq'.lost = vq.lost /\ vq'.crash = vq.crash
  BY <1>7, <1>8 DEF Same, SameFlags
<1>10. vq'.sq[q] = x /\ (\A p \in AllIds \ {q} : vq'.sq[p] = vq.sq[p]) /\ vq'.host = vq.host /\ vq'.cq = vq.cq
  BY <1>7, <1>8
<1>11. IoSound(x) /\ Holding(x) = Holding(vq.sq[q])
  BY <1>1, <1>5 DEF IoSound, Holding
<1>12. PhaseSound(vq', q)
  BY <1>1, <1>5, <1>9, <1>10 DEF PhaseSound, SameFlags
<1>13. Sound(vq')
  BY <1>5, <1>8, <1>9, <1>10, <1>11, <1>12, SqMoves
<1> QED BY <1>9, <1>13, AliveKept

(* A command is completed. *)
LEMMA CompleteIoKeeps ==
    ASSUME Sound(vq), vq.crash = "no", NEW q \in Io, CompleteIo(q) PROVE QueueInv(vq')
<1> DEFINE b == vq.sq[q].busy - 1
           x == [vq.sq[q] EXCEPT !.busy = b]
<1>1. vq \in VqType /\ q \in AllIds /\ IoSound(vq.sq[q]) /\ PhaseSound(vq, q)
  BY QueueIds DEF Sound
<1>2. vq.sq[q] \in VfuSqs /\ vq.sq[q].busy \in 0 .. 1 /\ vq.sq[q].busy > 0
  BY <1>1, VqParts DEF CompleteIo
<1>3. b \in 0 .. 1
  BY <1>2
<1>4. vq' = [vq EXCEPT !.sq[q] = x]
  BY DEF CompleteIo
<1> HIDE DEF b
<1>5. x \in VfuSqs /\ x.st = vq.sq[q].st /\ x.qp = vq.sq[q].qp /\ x.delete = vq.sq[q].delete
      /\ x.cq = vq.sq[q].cq /\ x.listed = vq.sq[q].listed /\ x.create = vq.sq[q].create
      /\ x.mapped = vq.sq[q].mapped /\ x.size = vq.sq[q].size
  BY <1>2, <1>3 DEF VfuSqs
<1> HIDE DEF x
<1>6. /\ vq' \in VqType /\ Same(vq', vq) /\ vq'.cq = vq.cq /\ vq'.sq[q] = x /\ vq'.host = vq.host
      /\ \A p \in AllIds \ {q} : vq'.sq[p] = vq.sq[p]
  BY <1>1, <1>4, <1>5, PutSq
<1>7. SameFlags(vq', vq) /\ vq'.lost = vq.lost /\ vq'.crash = vq.crash
  BY <1>6 DEF Same
<1>8. IoSound(x) /\ Holding(x) = Holding(vq.sq[q])
  BY <1>1, <1>5 DEF IoSound, Holding
<1>9. PhaseSound(vq', q)
  BY <1>1, <1>5, <1>6, <1>7 DEF PhaseSound, SameFlags
<1>10. Sound(vq')
  BY <1>5, <1>6, <1>7, <1>8, <1>9, SqMoves
<1> QED BY <1>7, <1>10, AliveKept

(* What a step has to show that moves the admin queue pair only. *)
LEMMA AdminMoves ==
    ASSUME Sound(vq), NEW v \in VqType, SameFlags(v, vq), vq.lost => v.lost, v.host.sq = vq.host.sq,
           \A p \in Io : v.sq[p] = vq.sq[p], AdminSound(v), RefsCounted(v)
    PROVE  Sound(v)
<1>1. FlagsSound(v)
  BY DEF Sound, FlagsSound, SameFlags
<1>2. ASSUME NEW p \in Io PROVE IoSound(v.sq[p]) /\ HostSound(v, p) /\ PhaseSound(v, p)
  <2>1. v.sq[p] = vq.sq[p] /\ v.host.sq[p] = vq.host.sq[p]
    OBVIOUS
  <2> QED BY <2>1 DEF Sound, SameFlags, HostSound, PhaseSound
<1> QED BY <1>1, <1>2 DEF Sound

(* A queue pair goes on being disconnected. *)
LEMMA DisconnectStep ==
    ASSUME Sound(vq), vq.crash = "no", NEW q \in AllIds, NEW k \in {"off", "out"},
           vq' = [vq EXCEPT !.sq[q].qp = k],
           vq.sq[q].qp = IF k = "off" THEN "on" ELSE "off",
           k = "off" => vq.gone \/ (q # 0 /\ (~vq.en \/ vq.shn))
    PROVE  QueueInv(vq')
<1> DEFINE x == [vq.sq[q] EXCEPT !.qp = k]
<1>1. vq \in VqType /\ RefsCounted(vq) /\ AdminSound(vq) /\ FlagsSound(vq)
  BY DEF Sound
<1>2. vq.sq[q] \in VfuSqs
  BY <1>1, VqParts
<1>3. vq' = [vq EXCEPT !.sq[q] = x]
  OBVIOUS
<1>4. x \in VfuSqs /\ x.st = vq.sq[q].st /\ x.qp = k /\ x.delete = vq.sq[q].delete
      /\ x.cq = vq.sq[q].cq /\ x.listed = vq.sq[q].listed /\ x.create = vq.sq[q].create
      /\ x.mapped = vq.sq[q].mapped /\ x.size = vq.sq[q].size
  BY <1>2 DEF VfuSqs
<1> HIDE DEF x
<1>5. /\ vq' \in VqType /\ Same(vq', vq) /\ vq'.cq = vq.cq /\ vq'.sq[q] = x /\ vq'.host = vq.host
      /\ \A p \in AllIds \ {q} : vq'.sq[p] = vq.sq[p]
  <2> DEFINE z == [vq EXCEPT !.sq[q] = x]
  <2>1. x \in VfuSqs /\ vq \in VqType
    BY <1>1, <1>4
  <2>2. /\ z \in VqType /\ Same(z, vq) /\ z.cq = vq.cq /\ z.sq[q] = x /\ z.host = vq.host
        /\ \A p \in AllIds \ {q} : z.sq[p] = vq.sq[p]
    BY <2>1, PutSq
  <2>3. vq' = z
    BY <1>3
  <2> HIDE DEF z
  <2> QED BY <2>2, <2>3
<1>6. SameFlags(vq', vq) /\ vq'.lost = vq.lost /\ vq'.crash = vq.crash
  BY <1>5 DEF Same
<1>7. Holding(x) = Holding(vq.sq[q])
  BY <1>4 DEF Holding
<1>8. CASE q = 0
  <2>1. vq.gone
    BY <1>1, <1>8 DEF AdminSound
  <2>2. AdminSound(vq')
    BY <1>1, <1>4, <1>5, <1>6, <1>8, <2>1 DEF AdminSound, SameFlags
  <2>3. RefsCounted(vq')
    <3>1. \A p \in AllIds : Holding(vq'.sq[p]) = Holding(vq.sq[p]) /\ vq'.sq[p].cq = vq.sq[p].cq
      BY <1>4, <1>5, <1>7
    <3>2. vq'.overlap = vq.overlap BY <1>6 DEF SameFlags
    <3> QED BY <1>1, <1>5, <3>1, <3>2, RefsStay
  <2>4. \A p \in Io : vq'.sq[p] = vq.sq[p]
    BY <1>5, <1>8, QueueIds
  <2> QED BY <1>5, <1>6, <2>2, <2>3, <2>4, AdminMoves, AliveKept
<1>9. CASE q # 0
  <2>1. q \in Io /\ IoSound(vq.sq[q]) /\ PhaseSound(vq, q)
    BY <1>9, QueueIds DEF Sound
  <2>2. IoSound(x)
    BY <1>4, <2>1 DEF IoSound
  <2>3. k = "off" => vq.gone \/ vq.resetShn
    BY <1>1 DEF FlagsSound
  <2>4. PhaseSound(vq', q)
    BY <1>4, <1>5, <1>6, <2>1, <2>3 DEF PhaseSound, SameFlags
  <2>5. x.qp = "new" <=> vq.sq[q].qp = "new"
    BY <1>4
  <2>6. x \in VfuSqs /\ vq' \in VqType
    BY <1>4, <1>5
  <2>7. x.cq = vq.sq[q].cq /\ x.delete = vq.sq[q].delete
    BY <1>4
  <2>8. Sound(vq')
    BY <1>5, <1>6, <1>7, <2>1, <2>2, <2>4, <2>5, <2>6, <2>7, SqMoves
  <2> QED BY <1>6, <2>8, AliveKept
<1> QED BY <1>8, <1>9

(* The library disconnects a queue pair, which leaves its poll group. *)
LEMMA DisconnectQueueKeeps ==
    ASSUME Sound(vq), vq.crash = "no", NEW q \in AllIds, DisconnectQueue(q) \/ LeaveGroup(q) PROVE QueueInv(vq')
<1>1. CASE DisconnectQueue(q)
  <2>1. /\ vq' = [vq EXCEPT !.sq[q].qp = "off"] /\ vq.sq[q].qp = "on"
        /\ vq.gone \/ (q # 0 /\ (~vq.en \/ vq.shn))
    BY <1>1 DEF DisconnectQueue
  <2> QED BY <2>1, DisconnectStep
<1>2. CASE LeaveGroup(q)
  <2>1. vq' = [vq EXCEPT !.sq[q].qp = "out"] /\ vq.sq[q].qp = "off"
    BY <1>2 DEF LeaveGroup
  <2> QED BY <2>1, DisconnectStep
<1> QED BY <1>1, <1>2

(* A queue pair is connected, or refused. *)
LEMMA ConnectQueueKeeps ==
    ASSUME Sound(vq), vq.crash = "no", NEW q \in Io, ConnectQueue(q) PROVE QueueInv(vq')
<1> DEFINE x == [vq.sq[q] EXCEPT !.qp = "on", !.st = "active", !.listed = TRUE, !.create = FALSE]
           v1q == [vq EXCEPT !.sq[q] = x]
           told == IF vq.host.sq[q] = "creating" THEN HostSq(vq, q, "created") ELSE vq.host
<1>1. /\ vq \in VqType /\ q \in AllIds /\ IoSound(vq.sq[q]) /\ HostSound(vq, q) /\ PhaseSound(vq, q)
      /\ RefsCounted(vq) /\ FlagsSound(vq) /\ vq.sq[q].qp = "new"
  BY QueueIds DEF Sound, ConnectQueue
<1>2. vq.sq[q] \in VfuSqs
  BY <1>1, VqParts
<1>3. /\ vq.sq[q].st = "created" /\ vq.sq[q].create /\ vq.sq[q].mapped /\ vq.sq[q].size /\ ~vq.sq[q].delete
  BY <1>1 DEF IoSound
<1>4. CASE ~(vq.en /\ vq.sq[0].listed)
  <2>1. vq' = QueueCrash(vq, "refused connect")
    BY <1>4 DEF ConnectQueue
  <2>2. "refused connect" \in VqCrashes
    BY DEF VqCrashes
  <2>3. vq'.crash = "refused connect"
    BY <1>1, <2>1, <2>2, CrashFacts
  <2> QED BY <2>3, CrashKept
<1>5. CASE vq.en /\ vq.sq[0].listed
  <2>1. vq' = PostAdmin(v1q, told)
    BY <1>3, <1>5 DEF ConnectQueue
  <2>2. /\ x \in VfuSqs /\ x.st = "active" /\ x.qp = "on" /\ ~x.delete /\ x.cq = vq.sq[q].cq
        /\ x.listed /\ ~x.create /\ x.mapped /\ x.size
    BY <1>2, <1>3 DEF VfuSqs
  <2>3. /\ told \in VfuHosts
        /\ told.sq[q] = IF vq.host.sq[q] = "creating" THEN "created" ELSE vq.host.sq[q]
        /\ \A p \in Io \ {q} : told.sq[p] = vq.host.sq[p]
    BY <1>1, VqFields, HostSqFacts
  <2> HIDE DEF x, told
  <2>4. /\ v1q \in VqType /\ Same(v1q, vq) /\ v1q.cq = vq.cq /\ v1q.sq[q] = x /\ v1q.host = vq.host
        /\ \A p \in AllIds \ {q} : v1q.sq[p] = vq.sq[p]
    BY <1>1, <2>2, PutSq
  <2> HIDE DEF v1q
  <2>5. /\ vq' \in VqType /\ SameFlags(vq', v1q) /\ vq'.crash = v1q.crash /\ vq'.sq = v1q.sq /\ vq'.cq = v1q.cq
        /\ \/ vq'.host = told /\ vq'.lost = v1q.lost
           \/ vq'.host = v1q.host /\ vq'.lost
    BY <2>1, <2>3, <2>4, PostAdminFacts
  <2>6. SameFlags(vq', vq) /\ vq'.crash = vq.crash /\ (vq.lost => vq'.lost)
    BY <2>4, <2>5 DEF Same, SameFlags
  <2>7. vq'.sq[q] = x /\ (\A p \in AllIds \ {q} : vq'.sq[p] = vq.sq[p]) /\ vq'.cq = vq.cq
    BY <2>4, <2>5
  <2>8. \/ vq'.host = told /\ vq'.lost = vq.lost
        \/ vq'.host = vq.host /\ vq'.lost
    BY <2>4, <2>5 DEF Same
  <2>9. IoSound(vq'.sq[q])
    BY <2>2, <2>7 DEF IoSound
  <2>10. HostSound(vq', q)
    BY <1>1, <1>3, <2>2, <2>3, <2>7, <2>8 DEF HostSound
  <2>11. PhaseSound(vq', q)
    BY <1>1, <1>5, <2>2, <2>6, <2>7 DEF PhaseSound, FlagsSound, SameFlags
  <2>12. RefsCounted(vq')
    <3>1. \A p \in AllIds : Holding(vq'.sq[p]) = Holding(vq.sq[p]) /\ vq'.sq[p].cq = vq.sq[p].cq
      BY <1>3, <2>2, <2>7 DEF Holding
    <3>2. vq'.overlap = vq.overlap BY <2>6 DEF SameFlags
    <3> QED BY <1>1, <2>7, <3>1, <3>2, RefsStay
  <2>13. \A p \in Io \ {q} : vq'.host.sq[p] = vq.host.sq[p]
    BY <2>3, <2>8
  <2>14. Sound(vq')
    BY <2>5, <2>6, <2>7, <2>9, <2>10, <2>11, <2>12, <2>13, OneQueue
  <2> QED BY <2>6, <2>14, AliveKept
<1> QED BY <1>4, <1>5

(* delete_sq_done of a queue pair that has left its poll group: the
   reference is there unless it was dropped before. *)
LEMMA DeleteSqDoneFacts ==
    ASSUME Sound(vq), vq.crash = "no", NEW q \in AllIds, vq.sq[q].qp = "out"
    PROVE  LET v == DeleteSqDone(vq, q)
               c == vq.sq[q].cq
           IN  /\ v \in VqType /\ SameFlags(v, vq) /\ v.lost = vq.lost /\ v.host = vq.host
               /\ v.cq[0].mapped => vq.cq[0].mapped
               /\ \/ v.crash = "reference" /\ vq.overlap
                  \/ /\ v.crash = "no"
                     /\ v.sq = [vq.sq EXCEPT ![q] = [@ EXCEPT !.mapped = FALSE, !.size = FALSE, !.st = "deleted"]]
                     /\ v.cq[c].ref = IF vq.resetShn \/ vq.gone THEN vq.cq[c].ref - 1 ELSE vq.cq[c].ref
                     /\ \A d \in AllIds \ {c} : v.cq[d].ref = vq.cq[d].ref
<1> DEFINE c == vq.sq[q].cq
           r == vq.cq[c].ref
           x == [vq.sq[q] EXCEPT !.mapped = FALSE, !.size = FALSE, !.st = "deleted"]
           y == [vq.cq[c] EXCEPT !.ref = r - 1]
           deleted == [vq EXCEPT !.sq[q] = x]
           less == [deleted EXCEPT !.cq[c] = y]
           done == DeleteCqDone(less, c)
           v == DeleteSqDone(vq, q)
<1>1. vq \in VqType /\ RefsCounted(vq)
  BY DEF Sound
<1>2. vq.sq[q] \in VfuSqs /\ c \in AllIds /\ vq.cq[c] \in VfuCqs /\ r \in Nat
      /\ vq.sq[q].st \in {"unused", "created", "active", "inactive", "deleted"} /\ vq.sq[q].delete \in BOOLEAN
  BY <1>1, VqParts
<1>3. /\ ~vq.resetShn /\ ~vq.gone => v = deleted
      /\ (vq.resetShn \/ vq.gone) /\ r = 0 => v = QueueCrash(vq, "reference")
      /\ (vq.resetShn \/ vq.gone) /\ r > 0 => v = DropReference(deleted, c)
  <2>1. CASE ~vq.resetShn /\ ~vq.gone
    BY <2>1 DEF DeleteSqDone
  <2>2. CASE (vq.resetShn \/ vq.gone) /\ r = 0
    BY <2>2 DEF DeleteSqDone
  <2>3. CASE (vq.resetShn \/ vq.gone) /\ r > 0
    <3>1. r # 0 BY <1>2, <2>3
    <3>2. DeleteSqDone(vq, q) = DropReference(deleted, c) BY <2>3, <3>1 DEF DeleteSqDone
    <3> QED BY <2>3, <3>1, <3>2
  <2> QED BY <1>2, <2>1, <2>2, <2>3
<1>4. x \in VfuSqs
  BY <1>2 DEF VfuSqs
<1>5. r > 0 => y \in VfuCqs /\ y.ref = r - 1 /\ y.mapped = vq.cq[c].mapped
  BY <1>2 DEF VfuCqs
<1> HIDE DEF v, x, y
<1>6. /\ deleted \in VqType /\ Same(deleted, vq) /\ deleted.cq = vq.cq /\ deleted.host = vq.host
      /\ deleted.sq = [vq.sq EXCEPT ![q] = x]
  BY <1>1, <1>4, PutSq
<1> HIDE DEF deleted
<1>7. CASE ~vq.resetShn /\ ~vq.gone
  BY <1>3, <1>6, <1>7 DEF Same, x, v
<1>8. CASE (vq.resetShn \/ vq.gone) /\ r = 0
  <2>1. "reference" \in VqCrashes
    BY DEF VqCrashes
  <2>2. v = QueueCrash(vq, "reference")
    BY <1>3, <1>8
  <2>3. /\ v \in VqType /\ SameFlags(v, vq) /\ v.crash = "reference" /\ v.lost = vq.lost /\ v.host = vq.host
        /\ v.cq = vq.cq
    BY <1>1, <2>1, <2>2, CrashFacts
  <2>4. ASSUME ~vq.overlap PROVE FALSE
    <3>1. Holding(vq.sq[q])
      <4>1. CASE q = 0
        BY <4>1 DEF Sound, AdminSound, Holding
      <4>2. CASE q # 0
        <5>1. IoSound(vq.sq[q]) /\ PhaseSound(vq, q) BY <4>2, QueueIds DEF Sound
        <5>2. ~vq.sq[q].delete BY <1>8, <2>4, <5>1 DEF PhaseSound
        <5> QED BY <5>1, <5>2 DEF IoSound, Holding
      <4> QED BY <4>1, <4>2
    <3> QED BY <1>1, <1>8, <2>4, <3>1, HeldIsReferenced
  <2> QED BY <2>3, <2>4 DEF v
<1>9. CASE (vq.resetShn \/ vq.gone) /\ r > 0
  <2>0. DropReference(deleted, c) = done \/ DropReference(deleted, c) = less
    <3>1. [deleted EXCEPT !.cq[c].ref = @ - 1] = less BY <1>6 DEF y
    <3> QED BY <3>1 DEF DropReference
  <2>1. /\ less \in VqType /\ Same(less, deleted) /\ less.sq = deleted.sq /\ less.host = deleted.host
        /\ less.cq[c] = y /\ \A d \in AllIds \ {c} : less.cq[d] = deleted.cq[d]
    <3>1. y \in VfuCqs /\ deleted \in VqType BY <1>5, <1>6, <1>9
    <3> HIDE DEF c
    <3> QED BY <1>2, <3>1, PutCq
  <2> HIDE DEF less
  <2>2. CqOnly(done, less) /\ done.crash = less.crash
    BY <1>2, <2>1, DeleteCqDoneFacts
  <2> HIDE DEF done
  <2>3. v \in VqType /\ SameFlags(v, less) /\ v.sq = less.sq /\ v.host = less.host /\ v.lost = less.lost
        /\ (\A d \in AllIds : v.cq[d].ref = less.cq[d].ref) /\ v.crash = less.crash
        /\ (v.cq[0].mapped => less.cq[0].mapped)
    <3>1. v = done \/ v = less BY <1>3, <1>9, <2>0 DEF done, less
    <3>2. CASE v = done
      BY <2>2, <3>2 DEF CqOnly
    <3>3. CASE v = less
      BY <2>1, <3>3 DEF SameFlags
    <3> QED BY <3>1, <3>2, <3>3
  <2>4. SameFlags(v, vq) /\ v.lost = vq.lost /\ v.host = vq.host /\ v.crash = "no" /\ v.sq = [vq.sq EXCEPT ![q] = x]
    BY <1>6, <2>1, <2>3 DEF Same, SameFlags
  <2>5. v.cq[c].ref = r - 1 /\ \A d \in AllIds \ {c} : v.cq[d].ref = vq.cq[d].ref
    BY <1>2, <1>5, <1>6, <1>9, <2>1, <2>3
  <2>6. v.cq[0].mapped => vq.cq[0].mapped
    <3> HIDE DEF c
    <3> QED BY <1>2, <1>5, <1>6, <1>9, <2>1, <2>3, QueueIds DEF c
  <2> QED BY <1>9, <2>3, <2>4, <2>5, <2>6 DEF v, x
<1> QED BY <1>2, <1>7, <1>8, <1>9

(* A closed submission queue. *)
LEMMA ClosedFacts ==
    ASSUME Sound(vq), vq.crash = "no", NEW q \in AllIds, vq.sq[q].qp = "out"
    PROVE  LET v == [DeleteSqDone(vq, q) EXCEPT !.sq[q].listed = FALSE, !.sq[q].qp = "none",
                                                !.sq[q].delete = FALSE]
           IN  /\ v \in VqType /\ SameFlags(v, vq) /\ v.lost = vq.lost /\ v.host = vq.host
               /\ v.cq[0].mapped => vq.cq[0].mapped
               /\ \/ v.crash = "reference" /\ vq.overlap
                  \/ /\ v.crash = "no"
                     /\ v.sq[q].st = "deleted" /\ v.sq[q].qp = "none" /\ v.sq[q].cq = vq.sq[q].cq
                     /\ ~v.sq[q].listed /\ ~v.sq[q].delete /\ v.sq[q].create = vq.sq[q].create
                     /\ \A p \in AllIds \ {q} : v.sq[p] = vq.sq[p]
                     /\ v.cq[vq.sq[q].cq].ref =
                            IF vq.resetShn \/ vq.gone THEN vq.cq[vq.sq[q].cq].ref - 1 ELSE vq.cq[vq.sq[q].cq].ref
                     /\ \A d \in AllIds \ {vq.sq[q].cq} : v.cq[d].ref = vq.cq[d].ref
<1> DEFINE d == DeleteSqDone(vq, q)
           c == vq.sq[q].cq
           x == [vq.sq[q] EXCEPT !.mapped = FALSE, !.size = FALSE, !.st = "deleted"]
           z == [d.sq[q] EXCEPT !.listed = FALSE, !.qp = "none", !.delete = FALSE]
           v == [d EXCEPT !.sq[q] = z]
<1>1. /\ d \in VqType /\ SameFlags(d, vq) /\ d.lost = vq.lost /\ d.host = vq.host
      /\ d.cq[0].mapped => vq.cq[0].mapped
      /\ \/ d.crash = "reference" /\ vq.overlap
         \/ /\ d.crash = "no"
            /\ d.sq = [vq.sq EXCEPT ![q] = x]
            /\ d.cq[c].ref = IF vq.resetShn \/ vq.gone THEN vq.cq[c].ref - 1 ELSE vq.cq[c].ref
            /\ \A e \in AllIds \ {c} : d.cq[e].ref = vq.cq[e].ref
  BY DeleteSqDoneFacts
<1> HIDE DEF d
<1>2. [d EXCEPT !.sq[q].listed = FALSE, !.sq[q].qp = "none", !.sq[q].delete = FALSE] = v
  <2>1. d.sq \in [AllIds -> VfuSqs] /\ d = [d EXCEPT !.sq = d.sq]
    BY <1>1 DEF VqType
  <2> QED BY <2>1 DEF VqType
<1>3. vq.sq[q] \in VfuSqs /\ d.sq[q] \in VfuSqs /\ vq.sq \in [AllIds -> VfuSqs]
  BY <1>1, VqParts, VqFields DEF Sound
<1>4. /\ z \in VfuSqs /\ z.st = d.sq[q].st /\ z.qp = "none" /\ z.cq = d.sq[q].cq /\ ~z.listed /\ ~z.delete
      /\ z.create = d.sq[q].create
  BY <1>3 DEF VfuSqs
<1>5. x.st = "deleted" /\ x.cq = vq.sq[q].cq /\ x.create = vq.sq[q].create
  BY <1>3 DEF VfuSqs
<1> HIDE DEF z, x
<1>6. /\ v \in VqType /\ Same(v, d) /\ v.cq = d.cq /\ v.host = d.host /\ v.sq[q] = z
      /\ \A p \in AllIds \ {q} : v.sq[p] = d.sq[p]
  BY <1>1, <1>4, PutSq
<1> HIDE DEF v
<1>7. SameFlags(v, vq) /\ v.lost = vq.lost /\ v.host = vq.host /\ v.crash = d.crash
      /\ (v.cq[0].mapped => vq.cq[0].mapped)
  BY <1>1, <1>6 DEF Same, SameFlags
<1>8. CASE d.crash = "reference" /\ vq.overlap
  BY <1>2, <1>6, <1>7, <1>8 DEF d
<1>9. CASE /\ d.crash = "no" /\ d.sq = [vq.sq EXCEPT ![q] = x]
           /\ d.cq[c].ref = IF vq.resetShn \/ vq.gone THEN vq.cq[c].ref - 1 ELSE vq.cq[c].ref
           /\ \A e \in AllIds \ {c} : d.cq[e].ref = vq.cq[e].ref
  <2>1. d.sq[q] = x /\ \A p \in AllIds \ {q} : d.sq[p] = vq.sq[p]
    BY <1>3, <1>9
  <2>2. /\ v.sq[q].st = "deleted" /\ v.sq[q].qp = "none" /\ v.sq[q].cq = vq.sq[q].cq
        /\ ~v.sq[q].listed /\ ~v.sq[q].delete /\ v.sq[q].create = vq.sq[q].create
    BY <1>4, <1>5, <1>6, <2>1
  <2>3. \A p \in AllIds \ {q} : v.sq[p] = vq.sq[p]
    BY <1>6, <2>1
  <2>4. /\ v.cq[c].ref = IF vq.resetShn \/ vq.gone THEN vq.cq[c].ref - 1 ELSE vq.cq[c].ref
        /\ \A e \in AllIds \ {c} : v.cq[e].ref = vq.cq[e].ref
    BY <1>6, <1>9
  <2> QED BY <1>2, <1>6, <1>7, <1>9, <2>2, <2>3, <2>4 DEF d
<1> QED BY <1>1, <1>8, <1>9

(* A closed submission queue holds no reference. *)
LEMMA ClosedRefs ==
    ASSUME Sound(vq), NEW q \in AllIds, vq.sq[q].qp = "out", NEW v, v.overlap = vq.overlap,
           v.sq[q].st = "deleted", v.sq[q].cq = vq.sq[q].cq, \A p \in AllIds \ {q} : v.sq[p] = vq.sq[p],
           v.cq[vq.sq[q].cq].ref =
               IF vq.resetShn \/ vq.gone THEN vq.cq[vq.sq[q].cq].ref - 1 ELSE vq.cq[vq.sq[q].cq].ref,
           \A d \in AllIds \ {vq.sq[q].cq} : v.cq[d].ref = vq.cq[d].ref
    PROVE  RefsCounted(v)
<1> SUFFICES ASSUME ~vq.overlap PROVE RefsCounted(v)
  BY DEF RefsCounted
<1>1. vq \in VqType /\ RefsCounted(vq) /\ vq.sq[q].cq \in AllIds /\ vq.sq[q].delete \in BOOLEAN
      /\ vq.sq[q].st \in {"unused", "created", "active", "inactive", "deleted"}
  BY VqParts DEF Sound
<1>2. ~Holding(v.sq[q])
  BY DEF Holding
<1>3. vq.resetShn \/ vq.gone => Holding(vq.sq[q])
  <2>1. CASE q = 0
    BY <2>1 DEF Sound, AdminSound, Holding
  <2>2. CASE q # 0
    <3>1. IoSound(vq.sq[q]) /\ PhaseSound(vq, q) BY <2>2, QueueIds DEF Sound
    <3> QED BY <3>1 DEF PhaseSound, IoSound, Holding
  <2> QED BY <2>1, <2>2
<1>4. ~vq.resetShn /\ ~vq.gone => ~Holding(vq.sq[q])
  <2>1. CASE q = 0
    BY <2>1 DEF Sound, AdminSound
  <2>2. CASE q # 0
    <3>1. PhaseSound(vq, q) BY <2>2, QueueIds DEF Sound
    <3> QED BY <3>1 DEF PhaseSound, Holding
  <2> QED BY <2>1, <2>2
<1>5. CASE vq.resetShn \/ vq.gone
  <2>1. v.cq[vq.sq[q].cq].ref = vq.cq[vq.sq[q].cq].ref - 1
    BY <1>5
  <2> QED BY <1>1, <1>2, <1>3, <1>5, <2>1, RefsLeave
<1>6. CASE ~vq.resetShn /\ ~vq.gone
  <2>1. \A p \in AllIds : Holding(v.sq[p]) = Holding(vq.sq[p]) /\ v.sq[p].cq = vq.sq[p].cq
    <3>1. Holding(v.sq[q]) = Holding(vq.sq[q]) BY <1>2, <1>4, <1>6 DEF Holding
    <3> QED BY <3>1
  <2>2. \A d \in AllIds : v.cq[d].ref = vq.cq[d].ref
    BY <1>6
  <2> QED BY <1>1, <2>1, <2>2, RefsStay
<1> QED BY <1>5, <1>6

(* A queue pair is closed: the process ends with the last one. *)
LEMMA CloseQueueKeeps ==
    ASSUME Sound(vq), vq.crash = "no", NEW q \in AllIds, CloseQueue(q) PROVE QueueInv(vq')
<1> DEFINE v == [DeleteSqDone(vq, q) EXCEPT !.sq[q].listed = FALSE, !.sq[q].qp = "none",
                                            !.sq[q].delete = FALSE]
           told == IF vq.host.sq[q] = "deleting" THEN HostSq(vq, q, "none") ELSE vq.host
           freed == [v EXCEPT !.crash = IF @ = "no" THEN "freed" ELSE @]
<1>1. vq.sq[q].qp = "out" /\ vq \in VqType
  BY DEF CloseQueue, Sound
<1>2. /\ v \in VqType /\ SameFlags(v, vq) /\ v.lost = vq.lost /\ v.host = vq.host
      /\ v.cq[0].mapped => vq.cq[0].mapped
      /\ \/ v.crash = "reference" /\ vq.overlap
         \/ /\ v.crash = "no"
            /\ v.sq[q].st = "deleted" /\ v.sq[q].qp = "none" /\ v.sq[q].cq = vq.sq[q].cq
            /\ ~v.sq[q].listed /\ ~v.sq[q].delete /\ v.sq[q].create = vq.sq[q].create
            /\ \A p \in AllIds \ {q} : v.sq[p] = vq.sq[p]
            /\ v.cq[vq.sq[q].cq].ref =
                   IF vq.resetShn \/ vq.gone THEN vq.cq[vq.sq[q].cq].ref - 1 ELSE vq.cq[vq.sq[q].cq].ref
            /\ \A d \in AllIds \ {vq.sq[q].cq} : v.cq[d].ref = vq.cq[d].ref
  BY <1>1, ClosedFacts
<1>3. \/ vq' \in {QueueCrash(v, "freed queue"), freed}
      \/ vq.sq[q].delete /\ vq' = PostAdmin(v, told)
      \/ ~vq.sq[q].delete /\ vq' = v
  BY DEF CloseQueue
<1> HIDE DEF v, told
<1>4. CASE vq' \in {QueueCrash(v, "freed queue"), freed}
  <2>1. "freed queue" \in VqCrashes
    BY DEF VqCrashes
  <2>2. vq'.crash \in {"freed queue", "freed", "reference"} /\ vq'.overlap = vq.overlap
        /\ (v.crash = "no" => vq'.crash # "reference")
    <3>1. CASE vq' = QueueCrash(v, "freed queue")
      <4>1. SameFlags(vq', v) /\ vq'.crash = IF v.crash = "no" THEN "freed queue" ELSE v.crash
        BY <1>2, <2>1, <3>1, CrashFacts
      <4> QED BY <1>2, <4>1 DEF SameFlags
    <3>2. CASE vq' = freed
      BY <1>2, <3>2 DEF VqType, SameFlags
    <3> QED BY <1>4, <3>1, <3>2
  <2> QED BY <1>2, <2>2 DEF QueueInv
<1>5. CASE /\ (vq.sq[q].delete /\ vq' = PostAdmin(v, told)) \/ (~vq.sq[q].delete /\ vq' = v)
           /\ v.crash = "reference" /\ vq.overlap
  <2>1. q = 0 => ~vq.sq[q].delete
    BY DEF Sound, AdminSound
  <2>2. q # 0 => told \in VfuHosts
    <3>1. q # 0 => q \in Io BY QueueIds
    <3> QED BY <1>1, <3>1, HostSqFacts, VqFields DEF told
  <2>3. vq'.crash = v.crash /\ vq'.overlap = v.overlap
    <3>1. CASE vq.sq[q].delete /\ vq' = PostAdmin(v, told)
      <4>1. SameFlags(vq', v) /\ vq'.crash = v.crash
        BY <1>2, <2>1, <2>2, <3>1, PostAdminFacts
      <4> QED BY <4>1 DEF SameFlags
    <3>2. CASE vq' = v
      BY <3>2
    <3> QED BY <1>5, <3>1, <3>2
  <2> QED BY <1>2, <1>5, <2>3 DEF QueueInv, SameFlags
<1>6. CASE /\ (vq.sq[q].delete /\ vq' = PostAdmin(v, told)) \/ (~vq.sq[q].delete /\ vq' = v)
           /\ ~(v.crash = "reference" /\ vq.overlap)
  <2>1. /\ v.crash = "no"
        /\ v.sq[q].st = "deleted" /\ v.sq[q].qp = "none" /\ v.sq[q].cq = vq.sq[q].cq
        /\ ~v.sq[q].listed /\ ~v.sq[q].delete /\ v.sq[q].create = vq.sq[q].create
        /\ \A p \in AllIds \ {q} : v.sq[p] = vq.sq[p]
        /\ v.cq[vq.sq[q].cq].ref =
               IF vq.resetShn \/ vq.gone THEN vq.cq[vq.sq[q].cq].ref - 1 ELSE vq.cq[vq.sq[q].cq].ref
        /\ \A d \in AllIds \ {vq.sq[q].cq} : v.cq[d].ref = vq.cq[d].ref
    BY <1>2, <1>6
  <2>2. RefsCounted(v)
    <3>1. v.overlap = vq.overlap BY <1>2 DEF SameFlags
    <3> HIDE <1>2, <1>3, <1>6
    <3> QED BY <1>1, <2>1, <3>1, ClosedRefs
  <2>3. CASE q = 0
    <3>1. ~vq.sq[q].delete /\ vq' = v BY <1>6, <2>3 DEF Sound, AdminSound
    <3>2. AdminSound(v)
      <4>1. vq.gone /\ vq.sq[0].cq = 0 /\ ~vq.sq[0].create
        BY <1>1, <2>3 DEF Sound, AdminSound
      <4> QED BY <1>2, <2>1, <2>3, <4>1 DEF AdminSound, SameFlags
    <3>3. \A p \in Io : v.sq[p] = vq.sq[p] BY <2>1, <2>3, QueueIds
    <3>4. Sound(v) BY <1>2, <2>2, <3>2, <3>3, AdminMoves
    <3> QED BY <2>1, <3>1, <3>4, AliveKept
  <2>4. CASE q # 0
    <3>1. q \in Io /\ IoSound(vq.sq[q]) /\ HostSound(vq, q) BY <2>4, QueueIds DEF Sound
    <3>2. /\ told \in VfuHosts
          /\ told.sq[q] = IF vq.host.sq[q] = "deleting" THEN "none" ELSE vq.host.sq[q]
          /\ \A p \in Io \ {q} : told.sq[p] = vq.host.sq[p]
      BY <1>1, <3>1, VqFields, HostSqFacts DEF told
    <3>3. /\ vq' \in VqType /\ SameFlags(vq', v) /\ vq'.crash = v.crash /\ vq'.sq = v.sq /\ vq'.cq = v.cq
          /\ \/ vq.sq[q].delete /\ vq'.host = told /\ vq'.lost = v.lost
             \/ ~vq.sq[q].delete /\ vq'.host = v.host /\ vq'.lost = v.lost
             \/ vq'.host = v.host /\ vq'.lost
      <4>1. CASE vq.sq[q].delete /\ vq' = PostAdmin(v, told)
        <5>1. /\ vq' \in VqType /\ SameFlags(vq', v) /\ vq'.crash = v.crash /\ vq'.sq = v.sq /\ vq'.cq = v.cq
              /\ \/ vq'.host = told /\ vq'.lost = v.lost
                 \/ vq'.host = v.host /\ vq'.lost
          BY <1>2, <3>2, <4>1, PostAdminFacts
        <5> QED BY <4>1, <5>1
      <4>2. CASE ~vq.sq[q].delete /\ vq' = v
        BY <1>2, <4>2 DEF SameFlags
      <4> QED BY <1>6, <4>1, <4>2
    <3>4. SameFlags(vq', vq) /\ (vq.lost => vq'.lost) /\ vq'.crash = "no"
      BY <1>2, <2>1, <3>3 DEF SameFlags
    <3>5. \/ vq.sq[q].delete /\ vq'.host = told /\ vq'.lost = vq.lost
          \/ ~vq.sq[q].delete /\ vq'.host = vq.host /\ vq'.lost = vq.lost
          \/ vq'.host = vq.host /\ vq'.lost
      BY <1>2, <3>3
    <3>6. IoSound(vq'.sq[q]) BY <1>1, <2>1, <3>1, <3>3 DEF IoSound, DeletedOrUnused
    <3>7. HostSound(vq', q) BY <1>1, <2>1, <3>1, <3>2, <3>3, <3>5 DEF HostSound
    <3>8. PhaseSound(vq', q) BY <2>1, <3>3 DEF PhaseSound
    <3>9. RefsCounted(vq') BY <2>2, <3>3 DEF RefsCounted, HoldersIn, SameFlags
    <3>10. /\ \A p \in AllIds \ {q} : vq'.sq[p] = vq.sq[p]
           /\ \A p \in Io \ {q} : vq'.host.sq[p] = vq.host.sq[p]
           /\ vq'.cq[0].mapped => vq.cq[0].mapped
      BY <1>2, <2>1, <3>2, <3>3, <3>5
    <3>11. Sound(vq') BY <3>1, <3>3, <3>4, <3>6, <3>7, <3>8, <3>9, <3>10, OneQueue
    <3> QED BY <3>4, <3>11, AliveKept
  <2> QED BY <2>3, <2>4
<1> QED BY <1>3, <1>4, <1>5, <1>6

(* The guest forgets its queues, and nothing refers to a deletion any
   more: a reset, a shutdown or the end of the client. *)
LEMMA DownSound ==
    ASSUME Sound(vq), ~vq.gone, NEW v \in VqType, v.mem = vq.mem, v.rdy = vq.rdy,
           v.overlap = (vq.overlap \/ Deleting), v.gone \/ v.resetShn, FlagsSound(v),
           \A p \in Io : v.sq[p] = vq.sq[p],
           v.sq[0].qp = vq.sq[0].qp, v.sq[0].listed = vq.sq[0].listed, v.sq[0].create = vq.sq[0].create,
           v.sq[0].delete = vq.sq[0].delete, v.sq[0].cq = vq.sq[0].cq,
           v.sq[0] = vq.sq[0] \/ (v.sq[0].st = "inactive" /\ ~v.sq[0].mapped),
           v.cq[0].mapped => vq.cq[0].mapped,
           \A c \in AllIds : v.cq[c].ref = vq.cq[c].ref,
           v.host.sq = Forget.sq \/ (v.host = vq.host /\ v.lost = vq.lost)
    PROVE  Sound(v)
<1>1. vq \in VqType /\ AdminSound(vq) /\ RefsCounted(vq) /\ vq.sq[0].qp = "on"
  BY DEF Sound, AdminSound
<1>2. AdminSound(v)
  BY <1>1 DEF AdminSound
<1>3. RefsCounted(v)
  <2> SUFFICES ASSUME ~v.overlap PROVE RefsCounted(v)
    BY DEF RefsCounted
  <2>1. Holding(v.sq[0]) = Holding(vq.sq[0])
    BY <1>1 DEF AdminSound, Holding
  <2>2. \A p \in AllIds : Holding(v.sq[p]) = Holding(vq.sq[p]) /\ v.sq[p].cq = vq.sq[p].cq
    BY <2>1, QueueIds
  <2>3. v.overlap = vq.overlap
    BY <1>1, VqFields
  <2> QED BY <1>1, <2>2, <2>3, RefsStay
<1>4. ASSUME NEW q \in Io PROVE IoSound(v.sq[q]) /\ HostSound(v, q) /\ PhaseSound(v, q)
  <2>1. IoSound(vq.sq[q]) /\ HostSound(vq, q) /\ PhaseSound(vq, q) /\ v.sq[q] = vq.sq[q]
    BY DEF Sound
  <2>2. HostSound(v, q)
    <3>1. CASE v.host.sq = Forget.sq
      <4>1. v.host.sq[q] = "none" BY <3>1 DEF Forget
      <4> QED BY <4>1 DEF HostSound
    <3>2. CASE v.host = vq.host /\ v.lost = vq.lost
      BY <2>1, <3>2 DEF HostSound
    <3> QED BY <3>1, <3>2
  <2>3. ~v.overlap => ~vq.sq[q].delete
    BY <1>1, VqFields DEF Deleting
  <2>4. PhaseSound(v, q)
    BY <2>1, <2>3 DEF PhaseSound
  <2> QED BY <2>1, <2>2, <2>4
<1> QED BY <1>2, <1>3, <1>4 DEF Sound

(* disable_ctrlr *)
LEMMA DisableFacts ==
    ASSUME NEW w \in VqType
    PROVE  LET v == DisableCtrlr(w)
           IN  /\ v \in VqType /\ Same(v, w) /\ v.host = w.host /\ v.left = w.left
               /\ \A p \in Io : v.sq[p] = w.sq[p]
               /\ v.sq[0].qp = w.sq[0].qp /\ v.sq[0].listed = w.sq[0].listed
               /\ v.sq[0].create = w.sq[0].create /\ v.sq[0].delete = w.sq[0].delete
               /\ v.sq[0].cq = w.sq[0].cq /\ v.sq[0].st = "inactive" /\ ~v.sq[0].mapped
               /\ ~v.cq[0].mapped /\ \A c \in AllIds : v.cq[c].ref = w.cq[c].ref
<1> DEFINE x == [w.sq[0] EXCEPT !.mapped = FALSE, !.size = FALSE, !.st = "inactive"]
           y == [w.cq[0] EXCEPT !.mapped = FALSE, !.size = FALSE]
           s == [w EXCEPT !.sq[0] = x]
           v == [s EXCEPT !.cq[0] = y]
<1>1. 0 \in AllIds /\ w.sq[0] \in VfuSqs /\ w.cq[0] \in VfuCqs
  BY QueueIds, VqParts
<1>2. /\ x \in VfuSqs /\ x.qp = w.sq[0].qp /\ x.listed = w.sq[0].listed /\ x.create = w.sq[0].create
      /\ x.delete = w.sq[0].delete /\ x.cq = w.sq[0].cq /\ x.st = "inactive" /\ ~x.mapped
  BY <1>1 DEF VfuSqs
<1>3. y \in VfuCqs /\ ~y.mapped /\ y.ref = w.cq[0].ref
  BY <1>1 DEF VfuCqs
<1>4. DisableCtrlr(w) = v
  BY DEF DisableCtrlr
<1> HIDE DEF x, y
<1>5. /\ s \in VqType /\ Same(s, w) /\ s.cq = w.cq /\ s.host = w.host /\ s.left = w.left
      /\ s.sq[0] = x /\ \A p \in AllIds \ {0} : s.sq[p] = w.sq[p]
  BY <1>1, <1>2, PutSq
<1> HIDE DEF s
<1>6. /\ v \in VqType /\ Same(v, s) /\ v.sq = s.sq /\ v.host = s.host /\ v.left = s.left
      /\ v.cq[0] = y /\ \A c \in AllIds \ {0} : v.cq[c] = s.cq[c]
  BY <1>1, <1>3, <1>5, PutCq
<1> HIDE DEF v
<1>7. Same(v, w)
  BY <1>5, <1>6 DEF Same, SameFlags
<1>8. \A p \in Io : v.sq[p] = w.sq[p]
  BY <1>5, <1>6, QueueIds
<1>9. \A c \in AllIds : v.cq[c].ref = w.cq[c].ref
  BY <1>3, <1>5, <1>6
<1> QED BY <1>2, <1>3, <1>4, <1>5, <1>6, <1>7, <1>8, <1>9

(* What the guest knows after it has forgotten its queues. *)
LEMMA ForgetType == Forget \in VfuHosts
  BY DEF Forget, VfuHosts

(* The guest resets the controller, or shuts it down. *)
LEMMA ResetKeeps ==
    ASSUME Sound(vq), vq.crash = "no", ResetCtrlr \/ Shutdown PROVE QueueInv(vq')
<1> DEFINE d == DisableCtrlr(vq)
           l == [vq.left EXCEPT !.resets = @ - 1]
<1>1. vq \in VqType /\ ~vq.gone /\ vq.en
  BY DEF Sound, ResetCtrlr, Shutdown
<1>2. /\ d \in VqType /\ Same(d, vq) /\ d.host = vq.host /\ d.left = vq.left
      /\ \A p \in Io : d.sq[p] = vq.sq[p]
      /\ d.sq[0].qp = vq.sq[0].qp /\ d.sq[0].listed = vq.sq[0].listed
      /\ d.sq[0].create = vq.sq[0].create /\ d.sq[0].delete = vq.sq[0].delete
      /\ d.sq[0].cq = vq.sq[0].cq /\ d.sq[0].st = "inactive" /\ ~d.sq[0].mapped
      /\ ~d.cq[0].mapped /\ \A c \in AllIds : d.cq[c].ref = vq.cq[c].ref
  BY <1>1, DisableFacts
<1>3. \/ /\ ResetCtrlr
         /\ vq' = [d EXCEPT !.en = FALSE, !.resetShn = TRUE, !.host = Forget,
                            !.overlap = @ \/ Deleting, !.left.resets = @ - 1]
      \/ vq' = [d EXCEPT !.shn = TRUE, !.resetShn = TRUE, !.host = Forget, !.overlap = @ \/ Deleting]
  BY DEF ResetCtrlr, Shutdown
<1> HIDE DEF d
<1>4. l \in VfuBounds \/ ~ResetCtrlr
  <2>1. vq.left \in VfuBounds
    BY <1>1, VqFields
  <2> QED BY <2>1 DEF VfuBounds, ResetCtrlr
<1>5. d.overlap = vq.overlap /\ vq.overlap \in BOOLEAN /\ Deleting \in BOOLEAN
  BY <1>1, <1>2, VqFields DEF Same, SameFlags, Deleting
<1>6. ASSUME NEW ov \in BOOLEAN, ov = (vq.overlap \/ Deleting), NEW left \in VfuBounds,
             vq' = [d EXCEPT !.en = FALSE, !.resetShn = TRUE, !.host = Forget,
                             !.overlap = ov, !.left = left]
      PROVE  Sound(vq') /\ vq'.crash = "no"
  <2>1. vq' \in VqType
    BY <1>2, <1>6, ForgetType DEF VqType
  <2>2. /\ vq'.en = FALSE /\ vq'.resetShn /\ vq'.host = Forget /\ vq'.overlap = ov /\ vq'.sq = d.sq
        /\ vq'.cq = d.cq /\ vq'.mem = d.mem /\ vq'.rdy = d.rdy /\ vq'.crash = d.crash
    BY <1>2, <1>6 DEF VqType
  <2>3. FlagsSound(vq')
    BY <2>2 DEF FlagsSound
  <2>4. vq'.mem = vq.mem /\ vq'.rdy = vq.rdy /\ vq'.crash = "no"
    BY <1>2, <2>2 DEF Same, SameFlags
  <2>5. /\ \A p \in Io : vq'.sq[p] = vq.sq[p]
        /\ vq'.sq[0].qp = vq.sq[0].qp /\ vq'.sq[0].listed = vq.sq[0].listed
        /\ vq'.sq[0].create = vq.sq[0].create /\ vq'.sq[0].delete = vq.sq[0].delete
        /\ vq'.sq[0].cq = vq.sq[0].cq
        /\ vq'.sq[0] = vq.sq[0] \/ (vq'.sq[0].st = "inactive" /\ ~vq'.sq[0].mapped)
        /\ vq'.cq[0].mapped => vq.cq[0].mapped
        /\ \A c \in AllIds : vq'.cq[c].ref = vq.cq[c].ref
        /\ vq'.host.sq = Forget.sq \/ (vq'.host = vq.host /\ vq'.lost = vq.lost)
        /\ vq'.overlap = (vq.overlap \/ Deleting) /\ (vq'.gone \/ vq'.resetShn)
    BY <1>2, <1>6, <2>2
  <2>6. Sound(vq')
    BY <1>1, <2>1, <2>3, <2>4, <2>5, DownSound
  <2> QED BY <2>4, <2>6
<1>7. ASSUME NEW ov \in BOOLEAN, ov = (vq.overlap \/ Deleting),
             vq' = [d EXCEPT !.shn = TRUE, !.resetShn = TRUE, !.host = Forget, !.overlap = ov]
      PROVE  Sound(vq') /\ vq'.crash = "no"
  <2>1. vq' \in VqType
    BY <1>2, <1>7, ForgetType DEF VqType
  <2>2. /\ vq'.en = d.en /\ vq'.shn /\ vq'.resetShn /\ vq'.host = Forget /\ vq'.overlap = ov /\ vq'.sq = d.sq
        /\ vq'.cq = d.cq /\ vq'.mem = d.mem /\ vq'.rdy = d.rdy /\ vq'.crash = d.crash
    BY <1>2, <1>7 DEF VqType
  <2>3. vq'.mem = vq.mem /\ vq'.rdy = vq.rdy /\ vq'.crash = "no" /\ vq'.en = vq.en
    BY <1>2, <2>2 DEF Same, SameFlags
  <2>4. FlagsSound(vq')
    BY <2>2, <2>3 DEF FlagsSound, Sound
  <2>5. /\ \A p \in Io : vq'.sq[p] = vq.sq[p]
        /\ vq'.sq[0].qp = vq.sq[0].qp /\ vq'.sq[0].listed = vq.sq[0].listed
        /\ vq'.sq[0].create = vq.sq[0].create /\ vq'.sq[0].delete = vq.sq[0].delete
        /\ vq'.sq[0].cq = vq.sq[0].cq
        /\ vq'.sq[0] = vq.sq[0] \/ (vq'.sq[0].st = "inactive" /\ ~vq'.sq[0].mapped)
        /\ vq'.cq[0].mapped => vq.cq[0].mapped
        /\ \A c \in AllIds : vq'.cq[c].ref = vq.cq[c].ref
        /\ vq'.host.sq = Forget.sq \/ (vq'.host = vq.host /\ vq'.lost = vq.lost)
        /\ vq'.overlap = (vq.overlap \/ Deleting) /\ (vq'.gone \/ vq'.resetShn)
    BY <1>2, <1>7, <2>2
  <2>6. Sound(vq')
    BY <1>1, <2>1, <2>3, <2>4, <2>5, DownSound
  <2> QED BY <2>3, <2>6
<1>8. CASE /\ ResetCtrlr
           /\ vq' = [d EXCEPT !.en = FALSE, !.resetShn = TRUE, !.host = Forget,
                              !.overlap = @ \/ Deleting, !.left.resets = @ - 1]
  <2> DEFINE ov == vq.overlap \/ Deleting
  <2>1. vq' = [d EXCEPT !.en = FALSE, !.resetShn = TRUE, !.host = Forget, !.overlap = ov, !.left = l]
    BY <1>2, <1>5, <1>8
  <2>2. ov \in BOOLEAN /\ l \in VfuBounds
    BY <1>4, <1>5, <1>8
  <2> HIDE DEF l
  <2> QED BY <1>6, <2>1, <2>2, AliveKept
<1>9. CASE vq' = [d EXCEPT !.shn = TRUE, !.resetShn = TRUE, !.host = Forget, !.overlap = @ \/ Deleting]
  <2> DEFINE ov == vq.overlap \/ Deleting
  <2>1. vq' = [d EXCEPT !.shn = TRUE, !.resetShn = TRUE, !.host = Forget, !.overlap = ov]
    BY <1>5, <1>9
  <2>2. ov \in BOOLEAN
    BY <1>5
  <2> QED BY <1>7, <2>1, <2>2, AliveKept
<1> QED BY <1>3, <1>8, <1>9

(* The client goes away. *)
LEMMA LoseGuestKeeps ==
    ASSUME Sound(vq), vq.crash = "no", LoseGuest PROVE QueueInv(vq')
<1> DEFINE l == [vq.left EXCEPT !.losses = @ - 1]
           ov == vq.overlap \/ Deleting
<1>1. vq \in VqType /\ ~vq.gone
  BY DEF Sound, LoseGuest
<1>2. l \in VfuBounds
  <2>1. vq.left \in VfuBounds
    BY <1>1, VqFields
  <2> QED BY <2>1 DEF VfuBounds, LoseGuest
<1>3. ov \in BOOLEAN
  BY <1>1, VqFields DEF Deleting
<1>4. vq' = [vq EXCEPT !.gone = TRUE, !.overlap = ov, !.left = l]
  BY DEF LoseGuest
<1> HIDE DEF l
<1>5. vq' \in VqType
  BY <1>1, <1>2, <1>3, <1>4 DEF VqType
<1>6. /\ vq'.gone /\ vq'.overlap = ov /\ vq'.sq = vq.sq /\ vq'.cq = vq.cq /\ vq'.mem = vq.mem
      /\ vq'.rdy = vq.rdy /\ vq'.en = vq.en /\ vq'.shn = vq.shn /\ vq'.resetShn = vq.resetShn
      /\ vq'.host = vq.host /\ vq'.lost = vq.lost /\ vq'.crash = vq.crash
  BY <1>1, <1>4 DEF VqType
<1>7. FlagsSound(vq')
  BY <1>6 DEF FlagsSound, Sound
<1>8. Sound(vq')
  BY <1>1, <1>5, <1>6, <1>7, DownSound
<1> QED BY <1>6, <1>8, AliveKept

(* The I/O queue pairs are gone. *)
LEMMA ResetDoneKeeps ==
    ASSUME Sound(vq), vq.crash = "no", ResetDone PROVE QueueInv(vq')
<1>1. vq \in VqType /\ ~vq.en /\ \A q \in Io : vq.sq[q].qp \notin {"on", "off"}
  BY DEF Sound, ResetDone
<1>2. vq' = [vq EXCEPT !.rdy = FALSE]
  BY DEF ResetDone
<1>3. vq' \in VqType
  BY <1>1, <1>2, VqRetyped
<1>4. /\ vq'.gone = vq.gone /\ vq'.overlap = vq.overlap /\ vq'.sq = vq.sq /\ vq'.cq = vq.cq /\ vq'.mem = vq.mem
      /\ ~vq'.rdy /\ vq'.en = vq.en /\ vq'.shn = vq.shn /\ vq'.resetShn = vq.resetShn
      /\ vq'.host = vq.host /\ vq'.lost = vq.lost /\ vq'.crash = vq.crash
  BY <1>1, <1>2 DEF VqType
<1>5. RefsCounted(vq')
  BY <1>4 DEF Sound, RefsCounted, HoldersIn
<1>6. AdminSound(vq') /\ FlagsSound(vq')
  BY <1>1, <1>4 DEF Sound, AdminSound, FlagsSound
<1>7. ASSUME NEW q \in Io PROVE IoSound(vq'.sq[q]) /\ HostSound(vq', q) /\ PhaseSound(vq', q)
  BY <1>1, <1>4 DEF Sound, HostSound, PhaseSound
<1> QED BY <1>3, <1>4, <1>5, <1>6, <1>7, AliveKept DEF Sound

(* map_q of a completion queue. *)
LEMMA MapCqFacts ==
    ASSUME NEW w \in VqType, NEW c \in AllIds
    PROVE  LET v == MapCq(w, c)
           IN  /\ v \in VqType /\ SameFlags(v, w) /\ v.lost = w.lost /\ v.sq = w.sq /\ v.host = w.host
               /\ v.left = w.left /\ v.crash \in {w.crash, "mapped twice"}
               /\ \A d \in AllIds : v.cq[d].ref = w.cq[d].ref
<1> DEFINE y == [w.cq[c] EXCEPT !.mapped = TRUE]
           u == [w EXCEPT !.cq[c] = y]
           z == QueueCrash(w, "mapped twice")
<1>1. w.cq[c] \in VfuCqs /\ y \in VfuCqs /\ y.ref = w.cq[c].ref
  BY VqParts, CqEdits
<1>2. MapCq(w, c) = IF w.cq[c].mapped THEN z ELSE u
  BY DEF MapCq
<1>3. "mapped twice" \in VqCrashes
  BY DEF VqCrashes
<1>4. /\ z \in VqType /\ SameFlags(z, w) /\ z.crash = IF w.crash = "no" THEN "mapped twice" ELSE w.crash
      /\ z.sq = w.sq /\ z.cq = w.cq /\ z.host = w.host /\ z.left = w.left /\ z.lost = w.lost
  BY <1>3, CrashFacts
<1> HIDE DEF y, z
<1>5. /\ u \in VqType /\ Same(u, w) /\ u.sq = w.sq /\ u.host = w.host /\ u.left = w.left
      /\ u.cq[c] = y /\ \A d \in AllIds \ {c} : u.cq[d] = w.cq[d]
  BY <1>1, PutCq
<1> HIDE DEF u
<1>6. CASE w.cq[c].mapped
  BY <1>2, <1>4, <1>6
<1>7. CASE ~w.cq[c].mapped
  <2>1. \A d \in AllIds : u.cq[d].ref = w.cq[d].ref
    BY <1>1, <1>5
  <2> QED BY <1>2, <1>5, <1>7, <2>1 DEF Same
<1> QED BY <1>6, <1>7

(* enable_ctrlr *)
LEMMA EnableFacts ==
    ASSUME NEW w \in VqType
    PROVE  LET v == EnableCtrlr(w)
           IN  /\ v \in VqType /\ SameFlags(v, w) /\ v.lost = w.lost /\ v.host = w.host
               /\ v.crash \in {w.crash, "mapped twice"}
               /\ \A p \in Io : v.sq[p] = w.sq[p]
               /\ v.sq[0].qp = w.sq[0].qp /\ v.sq[0].listed = w.sq[0].listed
               /\ v.sq[0].create = w.sq[0].create /\ v.sq[0].delete = w.sq[0].delete
               /\ v.sq[0].cq = w.sq[0].cq /\ v.sq[0].st = "active" /\ v.sq[0].mapped
               /\ \A c \in AllIds : v.cq[c].ref = w.cq[c].ref
<1> DEFINE y == [w.cq[0] EXCEPT !.size = TRUE]
           a == [w EXCEPT !.cq[0] = y]
           b == MapCq(a, 0)
           x == [w.sq[0] EXCEPT !.size = TRUE]
           c == [b EXCEPT !.sq[0] = x]
           d == MapSq(c, 0)
           m == [x EXCEPT !.mapped = TRUE]
           z == [m EXCEPT !.st = "active"]
           v == [d EXCEPT !.sq[0] = z]
<1>1. 0 \in AllIds /\ w.sq[0] \in VfuSqs /\ w.cq[0] \in VfuCqs
  BY QueueIds, VqParts
<1>2. y \in VfuCqs /\ y.ref = w.cq[0].ref
  BY <1>1, CqEdits
<1>3. x \in VfuSqs /\ m \in VfuSqs
  BY <1>1 DEF VfuSqs
<1>4. /\ z \in VfuSqs /\ z.qp = w.sq[0].qp /\ z.listed = w.sq[0].listed /\ z.create = w.sq[0].create
      /\ z.delete = w.sq[0].delete /\ z.cq = w.sq[0].cq /\ z.st = "active" /\ z.mapped
  BY <1>1 DEF VfuSqs
<1> HIDE DEF y
<1>5. /\ a \in VqType /\ Same(a, w) /\ a.sq = w.sq /\ a.host = w.host /\ a.left = w.left
      /\ a.cq[0] = y /\ \A e \in AllIds \ {0} : a.cq[e] = w.cq[e]
  BY <1>1, <1>2, PutCq
<1> HIDE DEF a
<1>6. /\ b \in VqType /\ SameFlags(b, a) /\ b.lost = a.lost /\ b.sq = a.sq /\ b.host = a.host
      /\ b.crash \in {a.crash, "mapped twice"} /\ \A e \in AllIds : b.cq[e].ref = a.cq[e].ref
  BY <1>1, <1>5, MapCqFacts
<1> HIDE DEF b, x
<1>7. /\ c \in VqType /\ Same(c, b) /\ c.cq = b.cq /\ c.host = b.host
      /\ c.sq[0] = x /\ \A p \in AllIds \ {0} : c.sq[p] = b.sq[p]
  <2>1. b \in VqType /\ x \in VfuSqs
    BY <1>3, <1>6
  <2> QED BY <1>1, <2>1, PutSq
<1> HIDE DEF c
<1>8. /\ d \in VqType /\ SameFlags(d, c) /\ d.lost = c.lost /\ d.cq = c.cq /\ d.host = c.host
      /\ d.sq = [c.sq EXCEPT ![0] = m]
      /\ d.crash \in {c.crash, "mapped twice"}
  BY <1>1, <1>7, MapSqFacts
<1> HIDE DEF d, m
<1>9. d.sq[0] = m /\ \A p \in AllIds \ {0} : d.sq[p] = c.sq[p]
  <2>1. c.sq \in [AllIds -> VfuSqs]
    BY <1>7, VqFields
  <2> QED BY <1>1, <1>8, <2>1
<1> HIDE DEF z
<1>10. /\ v \in VqType /\ Same(v, d) /\ v.cq = d.cq /\ v.host = d.host
       /\ v.sq[0] = z /\ \A p \in AllIds \ {0} : v.sq[p] = d.sq[p]
  <2>1. d \in VqType /\ z \in VfuSqs
    BY <1>4, <1>8
  <2> QED BY <1>1, <2>1, PutSq
<1>11. EnableCtrlr(w) = v
  <2>1. [w EXCEPT !.cq[0].size = TRUE] = a
    BY DEF a, y
  <2>2. [b EXCEPT !.sq[0].size = TRUE] = c
    BY <1>5, <1>6 DEF c, x
  <2>3. [d EXCEPT !.sq[0].st = "active"] = v
    BY <1>9 DEF z
  <2> HIDE DEF v
  <2> QED BY <2>1, <2>2, <2>3 DEF EnableCtrlr, b, d
<1> HIDE DEF v
<1>12. SameFlags(v, w) /\ v.lost = w.lost /\ v.host = w.host /\ v.crash \in {w.crash, "mapped twice"}
  <2>1. SameFlags(b, w) /\ b.lost = w.lost /\ b.host = w.host /\ b.crash \in {w.crash, "mapped twice"}
    BY <1>5, <1>6 DEF Same, SameFlags
  <2>2. SameFlags(c, w) /\ c.lost = w.lost /\ c.host = w.host /\ c.crash \in {w.crash, "mapped twice"}
    BY <1>7, <2>1 DEF Same, SameFlags
  <2>3. SameFlags(d, w) /\ d.lost = w.lost /\ d.host = w.host /\ d.crash \in {w.crash, "mapped twice"}
    BY <1>8, <2>2 DEF SameFlags
  <2> QED BY <1>10, <2>3 DEF Same, SameFlags
<1>13. \A p \in Io : v.sq[p] = w.sq[p]
  <2> SUFFICES ASSUME NEW p \in Io PROVE v.sq[p] = w.sq[p]
    OBVIOUS
  <2>1. p \in AllIds \ {0}
    BY QueueIds
  <2>2. c.sq[p] = w.sq[p]
    BY <1>5, <1>6, <1>7, <2>1
  <2> QED BY <1>9, <1>10, <2>1, <2>2
<1>14. \A e \in AllIds : v.cq[e].ref = w.cq[e].ref
  <2> SUFFICES ASSUME NEW e \in AllIds PROVE v.cq[e].ref = w.cq[e].ref
    OBVIOUS
  <2>1. a.cq[e].ref = w.cq[e].ref
    BY <1>2, <1>5
  <2>2. b.cq[e].ref = a.cq[e].ref
    BY <1>6
  <2>3. v.cq = b.cq
    BY <1>7, <1>8, <1>10
  <2> QED BY <2>1, <2>2, <2>3
<1> QED BY <1>4, <1>10, <1>11, <1>12, <1>13, <1>14

(* The guest enables the controller again. *)
LEMMA EnableAgainKeeps ==
    ASSUME Sound(vq), vq.crash = "no", EnableAgain PROVE QueueInv(vq')
<1> DEFINE d == EnableCtrlr(vq)
           ov == vq.overlap \/ \E q \in Io : vq.sq[q].qp = "out"
<1>1. vq \in VqType /\ ~vq.en /\ ~vq.rdy /\ vq.mem = Regions /\ ~vq.gone /\ vq.sq[0].qp = "on"
  BY DEF Sound, EnableAgain, AdminSound
<1>2. /\ d \in VqType /\ SameFlags(d, vq) /\ d.lost = vq.lost /\ d.host = vq.host
      /\ d.crash \in {vq.crash, "mapped twice"}
      /\ \A p \in Io : d.sq[p] = vq.sq[p]
      /\ d.sq[0].qp = vq.sq[0].qp /\ d.sq[0].listed = vq.sq[0].listed
      /\ d.sq[0].create = vq.sq[0].create /\ d.sq[0].delete = vq.sq[0].delete
      /\ d.sq[0].cq = vq.sq[0].cq /\ d.sq[0].st = "active" /\ d.sq[0].mapped
      /\ \A c \in AllIds : d.cq[c].ref = vq.cq[c].ref
  BY <1>1, EnableFacts
<1>3. vq' = [d EXCEPT !.en = TRUE, !.rdy = TRUE, !.resetShn = FALSE, !.shn = FALSE,
                      !.overlap = @ \/ \E q \in Io : vq.sq[q].qp = "out"]
  BY DEF EnableAgain
<1> HIDE DEF d
<1>4. ov \in BOOLEAN /\ vq.overlap \in BOOLEAN
  BY <1>1, VqFields
<1>5. vq' = [d EXCEPT !.en = TRUE, !.rdy = TRUE, !.resetShn = FALSE, !.shn = FALSE, !.overlap = ov]
  BY <1>2, <1>3 DEF SameFlags
<1> HIDE DEF ov
<1>6. vq' \in VqType
  BY <1>2, <1>4, <1>5 DEF VqType
<1>7. /\ vq'.en /\ vq'.rdy /\ ~vq'.resetShn /\ ~vq'.shn /\ vq'.overlap = ov /\ vq'.sq = d.sq
      /\ vq'.cq = d.cq /\ vq'.mem = d.mem /\ vq'.gone = d.gone /\ vq'.crash = d.crash
      /\ vq'.host = d.host /\ vq'.lost = d.lost
  BY <1>2, <1>5 DEF VqType
<1>8. vq'.mem = Regions /\ ~vq'.gone
  BY <1>1, <1>2, <1>7 DEF SameFlags
<1>9. FlagsSound(vq')
  BY <1>7 DEF FlagsSound
<1>10. AdminSound(vq')
  BY <1>1, <1>2, <1>7, <1>8 DEF Sound, AdminSound, Regions
<1>11. RefsCounted(vq')
  <2> SUFFICES ASSUME ~vq'.overlap PROVE RefsCounted(vq')
    BY DEF RefsCounted
  <2>1. Holding(vq'.sq[0]) = Holding(vq.sq[0])
    BY <1>1, <1>2, <1>7 DEF Sound, AdminSound, Holding
  <2>2. \A p \in AllIds : Holding(vq'.sq[p]) = Holding(vq.sq[p]) /\ vq'.sq[p].cq = vq.sq[p].cq
    BY <1>2, <1>7, <2>1, QueueIds
  <2>3. vq'.overlap = vq.overlap
    BY <1>4, <1>7 DEF ov
  <2>4. \A c \in AllIds : vq'.cq[c].ref = vq.cq[c].ref
    BY <1>2, <1>7
  <2> QED BY <2>2, <2>3, <2>4, RefsStay DEF Sound
<1>12. ASSUME NEW q \in Io PROVE IoSound(vq'.sq[q]) /\ HostSound(vq', q) /\ PhaseSound(vq', q)
  <2>1. IoSound(vq.sq[q]) /\ HostSound(vq, q) /\ PhaseSound(vq, q) /\ vq'.sq[q] = vq.sq[q]
    BY <1>2, <1>7 DEF Sound
  <2>2. HostSound(vq', q)
    <3>1. vq'.host = vq.host /\ vq'.lost = vq.lost BY <1>2, <1>7
    <3> QED BY <2>1, <3>1 DEF HostSound
  <2>3. ~vq'.overlap => vq.sq[q].qp # "out"
    BY <1>4, <1>7 DEF ov
  <2>4. PhaseSound(vq', q)
    BY <1>1, <1>7, <1>8, <2>1, <2>3 DEF PhaseSound
  <2> QED BY <2>1, <2>2, <2>4
<1>13. Sound(vq')
  BY <1>6, <1>9, <1>10, <1>11, <1>12 DEF Sound
<1>14. vq'.crash \in {"no", "mapped twice"}
  BY <1>2, <1>7
<1> QED BY <1>13, <1>14, AliveKept, CrashKept

(* What a step has to show that moves the submission queues by a change of
   memory and leaves the phase and the host alone. *)
LEMMA MemoryMoves ==
    ASSUME Sound(vq), ~vq.gone, NEW v \in VqType,
           v.en = vq.en, v.rdy = vq.rdy, v.shn = vq.shn, v.resetShn = vq.resetShn, v.gone = vq.gone,
           v.overlap = vq.overlap, v.lost = vq.lost, v.host = vq.host,
           \A c \in AllIds : v.cq[c].ref = vq.cq[c].ref,
           \A q \in AllIds : /\ v.sq[q].qp = vq.sq[q].qp /\ v.sq[q].cq = vq.sq[q].cq
                             /\ v.sq[q].listed = vq.sq[q].listed /\ v.sq[q].create = vq.sq[q].create
                             /\ v.sq[q].delete = vq.sq[q].delete /\ v.sq[q].size = vq.sq[q].size
                             /\ Holding(v.sq[q]) = Holding(vq.sq[q]),
           \A q \in Io : IoSound(v.sq[q]),
           v.mem = Regions => \A q \in Io : v.sq[q].listed => v.sq[q].st # "inactive",
           v.sq[0].st \in {"active", "inactive"},
           v.sq[0].mapped => "sq" \in v.mem, v.cq[0].mapped => "cq" \in v.mem,
           v.sq[0].st = "active" /\ v.sq[0].size => v.sq[0].mapped
    PROVE  Sound(v)
<1>1. FlagsSound(v)
  BY DEF Sound, FlagsSound
<1>2. RefsCounted(v)
  BY RefsStay DEF Sound
<1>3. AdminSound(v)
  BY QueueIds DEF Sound, AdminSound
<1>4. ASSUME NEW q \in Io PROVE HostSound(v, q) /\ PhaseSound(v, q)
  <2>1. q \in AllIds /\ HostSound(vq, q) /\ PhaseSound(vq, q)
    BY QueueIds DEF Sound
  <2>2. HostSound(v, q)
    BY <2>1 DEF HostSound
  <2>3. PhaseSound(v, q)
    BY <2>1 DEF PhaseSound
  <2> QED BY <2>2, <2>3
<1> QED BY <1>1, <1>2, <1>3, <1>4 DEF Sound

(* A region is removed. *)
LEMMA RemoveRegionKeeps ==
    ASSUME Sound(vq), vq.crash = "no", NEW r \in Regions, RemoveRegion(r) PROVE QueueInv(vq')
<1> DEFINE l == [vq.left EXCEPT !.removals = @ - 1]
           m == vq.mem \ {r}
           w == [vq EXCEPT !.mem = m, !.left = l]
           used == {w.sq[q].cq : q \in Listed(w)}
           s == [q \in AllIds |-> IF q \in Listed(w) /\ w.sq[q].mapped
                                  THEN [w.sq[q] EXCEPT !.mapped = FALSE, !.st = "inactive"]
                                  ELSE w.sq[q]]
           y == [c \in AllIds |-> [w.cq[c] EXCEPT !.mapped = @ /\ c \notin used]]
<1>1. /\ vq \in VqType /\ ~vq.gone /\ vq.left.removals > 0 /\ AdminSound(vq) /\ 0 \in AllIds
      /\ vq.sq[0].qp = "on" /\ vq.sq[0].listed /\ vq.sq[0].cq = 0 /\ vq.sq[0].st \in {"active", "inactive"}
  BY QueueIds DEF Sound, RemoveRegion, AdminSound
<1>2. l \in VfuBounds /\ m \in SUBSET Regions
  <2>1. vq.left \in VfuBounds /\ vq.mem \in SUBSET Regions
    BY <1>1, VqFields
  <2> QED BY <1>1, <2>1 DEF VfuBounds
<1>3. /\ r = "sq" => vq' = [w EXCEPT !.sq = s]
      /\ r = "cq" => vq' = [w EXCEPT !.cq = y]
  <2>1. w = [vq EXCEPT !.mem = @ \ {r}, !.left.removals = @ - 1]
    OBVIOUS
  <2> HIDE DEF w
  <2>2. CASE r = "sq"
    BY <2>1, <2>2 DEF RemoveRegion
  <2>3. CASE r = "cq"
    BY <2>1, <2>3 DEF RemoveRegion
  <2> QED BY <2>2, <2>3 DEF Regions
<1> HIDE DEF l
<1>4. w \in VqType
  BY <1>1, <1>2 DEF VqType
<1>5. /\ w.sq = vq.sq /\ w.cq = vq.cq /\ w.mem = m /\ w.host = vq.host /\ w.lost = vq.lost /\ w.en = vq.en
      /\ w.rdy = vq.rdy /\ w.shn = vq.shn /\ w.resetShn = vq.resetShn /\ w.gone = vq.gone
      /\ w.overlap = vq.overlap /\ w.crash = vq.crash
  BY <1>1 DEF VqType
<1> HIDE DEF w
<1>6. m # Regions /\ r \in Regions /\ r \in {"sq", "cq"}
  BY DEF Regions
<1>7. Listed(w) = {q \in AllIds : vq.sq[q].listed}
  BY <1>5 DEF Listed
<1>8. CASE r = "sq"
  <2>1. ASSUME NEW q \in AllIds
        PROVE  /\ s[q] \in VfuSqs
               /\ s[q].qp = vq.sq[q].qp /\ s[q].cq = vq.sq[q].cq /\ s[q].listed = vq.sq[q].listed
               /\ s[q].create = vq.sq[q].create /\ s[q].delete = vq.sq[q].delete /\ s[q].size = vq.sq[q].size
               /\ vq.sq[q].listed /\ vq.sq[q].mapped => s[q].st = "inactive" /\ ~s[q].mapped
               /\ ~(vq.sq[q].listed /\ vq.sq[q].mapped) => s[q] = vq.sq[q]
    <3>1. vq.sq[q] \in VfuSqs BY <1>1, VqParts
    <3>2. s[q] = IF vq.sq[q].listed /\ vq.sq[q].mapped
                 THEN [vq.sq[q] EXCEPT !.mapped = FALSE, !.st = "inactive"] ELSE vq.sq[q]
      BY <1>5, <1>7
    <3> HIDE DEF s
    <3> QED BY <3>1, <3>2 DEF VfuSqs
  <2>2. s \in [AllIds -> VfuSqs]
    <3> DEFINE e(q) == IF q \in Listed(w) /\ w.sq[q].mapped
                       THEN [w.sq[q] EXCEPT !.mapped = FALSE, !.st = "inactive"] ELSE w.sq[q]
    <3>1. \A q \in AllIds : e(q) = s[q] OBVIOUS
    <3>2. \A q \in AllIds : e(q) \in VfuSqs BY <2>1, <3>1
    <3>3. s = [q \in AllIds |-> e(q)] OBVIOUS
    <3> HIDE DEF e, s
    <3> QED BY <3>2, <3>3
  <2> HIDE DEF s
  <2>3. vq' \in VqType
    BY <1>3, <1>4, <1>8, <2>2, VqRetyped
  <2>4. /\ vq'.sq = s /\ vq'.cq = w.cq /\ vq'.mem = w.mem /\ vq'.host = w.host /\ vq'.lost = w.lost /\ vq'.en = w.en
        /\ vq'.rdy = w.rdy /\ vq'.shn = w.shn /\ vq'.resetShn = w.resetShn /\ vq'.gone = w.gone
        /\ vq'.overlap = w.overlap /\ vq'.crash = w.crash
    BY <1>3, <1>4, <1>8 DEF VqType
  <2>5. ASSUME NEW q \in Io PROVE IoSound(s[q]) /\ Holding(s[q]) = Holding(vq.sq[q])
    <3>1. q \in AllIds /\ IoSound(vq.sq[q]) /\ vq.sq[q].qp \in {"none", "new", "on", "off", "out"}
      BY <1>1, QueueIds, VqParts DEF Sound
    <3>2. CASE vq.sq[q].listed /\ vq.sq[q].mapped
      <4>1. vq.sq[q].qp \in {"on", "off", "out"} BY <3>1, <3>2 DEF IoSound
      <4>2. IoSound(s[q]) BY <2>1, <3>1, <3>2, <4>1 DEF IoSound
      <4>3. Holding(s[q]) <=> Holding(vq.sq[q])
        BY <2>1, <3>1, <3>2, <4>1 DEF IoSound, Holding
      <4> QED BY <4>2, <4>3 DEF Holding
    <3>3. CASE ~(vq.sq[q].listed /\ vq.sq[q].mapped)
      BY <2>1, <3>1, <3>3
    <3> QED BY <3>2, <3>3
  <2>6. /\ s[0].st \in {"active", "inactive"} /\ ~s[0].mapped /\ s[0].size = vq.sq[0].size
        /\ s[0].st = "active" => s[0] = vq.sq[0]
    BY <1>1, <2>1
  <2>7. Holding(s[0]) = Holding(vq.sq[0])
    BY <1>1, <2>1, <2>6 DEF Holding
  <2>8. ASSUME NEW q \in AllIds
        PROVE  /\ vq'.sq[q].qp = vq.sq[q].qp /\ vq'.sq[q].cq = vq.sq[q].cq
               /\ vq'.sq[q].listed = vq.sq[q].listed /\ vq'.sq[q].create = vq.sq[q].create
               /\ vq'.sq[q].delete = vq.sq[q].delete /\ vq'.sq[q].size = vq.sq[q].size
               /\ Holding(vq'.sq[q]) = Holding(vq.sq[q])
    <3>1. Holding(s[q]) = Holding(vq.sq[q]) BY <2>5, <2>7, QueueIds
    <3> QED BY <2>1, <2>4, <3>1
  <2>9. /\ vq'.en = vq.en /\ vq'.rdy = vq.rdy /\ vq'.shn = vq.shn /\ vq'.resetShn = vq.resetShn
        /\ vq'.gone = vq.gone /\ vq'.overlap = vq.overlap /\ vq'.lost = vq.lost /\ vq'.host = vq.host
        /\ vq'.cq = vq.cq /\ vq'.mem = m /\ vq'.crash = "no"
    BY <1>5, <2>4
  <2>10. /\ vq'.sq[0].st \in {"active", "inactive"} /\ ~vq'.sq[0].mapped
         /\ vq'.cq[0].mapped => "cq" \in vq'.mem
         /\ vq'.sq[0].st = "active" /\ vq'.sq[0].size => vq'.sq[0].mapped
    BY <1>1, <1>8, <2>4, <2>6, <2>9 DEF AdminSound
  <2>11. \A q \in Io : IoSound(vq'.sq[q])
    BY <2>4, <2>5
  <2>12. vq'.mem # Regions
    BY <1>6, <2>9
  <2>13. Sound(vq')
    BY <1>1, <2>3, <2>8, <2>9, <2>10, <2>11, <2>12, MemoryMoves
  <2> QED BY <2>9, <2>13, AliveKept
<1>9. CASE r = "cq"
  <2>1. ASSUME NEW c \in AllIds
        PROVE  /\ y[c] \in VfuCqs /\ y[c].ref = vq.cq[c].ref
               /\ y[c].mapped => c \notin used
    <3>1. vq.cq[c] \in VfuCqs BY <1>1, VqParts
    <3>2. y[c] = [vq.cq[c] EXCEPT !.mapped = @ /\ c \notin used] BY <1>5
    <3> HIDE DEF y, used
    <3> QED BY <3>1, <3>2 DEF VfuCqs
  <2>2. 0 \in used
    BY <1>1, <1>5, <1>7
  <2>3. y \in [AllIds -> VfuCqs]
    BY <2>1
  <2> HIDE DEF y, used
  <2>4. vq' \in VqType
    BY <1>3, <1>4, <1>9, <2>3, VqRetyped
  <2>5. /\ vq'.sq = w.sq /\ vq'.cq = y /\ vq'.mem = w.mem /\ vq'.host = w.host /\ vq'.lost = w.lost /\ vq'.en = w.en
        /\ vq'.rdy = w.rdy /\ vq'.shn = w.shn /\ vq'.resetShn = w.resetShn /\ vq'.gone = w.gone
        /\ vq'.overlap = w.overlap /\ vq'.crash = w.crash
    BY <1>3, <1>4, <1>9 DEF VqType
  <2>6. /\ vq'.en = vq.en /\ vq'.rdy = vq.rdy /\ vq'.shn = vq.shn /\ vq'.resetShn = vq.resetShn
        /\ vq'.gone = vq.gone /\ vq'.overlap = vq.overlap /\ vq'.lost = vq.lost /\ vq'.host = vq.host
        /\ vq'.sq = vq.sq /\ vq'.mem = m /\ vq'.crash = "no"
    BY <1>5, <2>5
  <2>7. /\ vq'.sq[0].st \in {"active", "inactive"} /\ ~vq'.cq[0].mapped
        /\ vq'.sq[0].mapped => "sq" \in vq'.mem
        /\ vq'.sq[0].st = "active" /\ vq'.sq[0].size => vq'.sq[0].mapped
    BY <1>1, <1>9, <2>1, <2>2, <2>5, <2>6 DEF AdminSound
  <2>8. (\A q \in Io : IoSound(vq'.sq[q])) /\ vq'.mem # Regions
    BY <1>6, <2>6 DEF Sound
  <2>9. \A c \in AllIds : vq'.cq[c].ref = vq.cq[c].ref
    BY <2>1, <2>5
  <2>10. Sound(vq')
    BY <1>1, <2>4, <2>6, <2>7, <2>8, <2>9, MemoryMoves
  <2> QED BY <2>6, <2>10, AliveKept
<1> QED BY <1>6, <1>8, <1>9

(* A region comes back: what was suspended is mapped and goes on, when all
   of its memory is there. *)
LEMMA AddRegionKeeps ==
    ASSUME Sound(vq), vq.crash = "no", NEW r \in Regions, AddRegion(r) PROVE QueueInv(vq')
<1> DEFINE m == vq.mem \cup {r}
           w == [vq EXCEPT !.mem = m]
           idle == {q \in Listed(w) : w.sq[q].st = "inactive"}
           cqs == {c \in AllIds : (\E q \in idle : w.sq[q].cq = c) /\ w.cq[c].size /\ "cq" \in w.mem}
           with == {q \in idle : w.cq[w.sq[q].cq].size => w.cq[w.sq[q].cq].mapped \/ w.sq[q].cq \in cqs}
           back == {q \in with : w.sq[q].size => "sq" \in w.mem}
           twice == \E q \in with : w.sq[q].size /\ w.sq[q].mapped
           y == [c \in AllIds |-> [w.cq[c] EXCEPT !.mapped = @ \/ c \in cqs]]
           s == [q \in AllIds |-> IF q \notin back THEN w.sq[q]
                                  ELSE [w.sq[q] EXCEPT !.mapped = @ \/ w.sq[q].size, !.st = "active"]]
           done == [w EXCEPT !.cq = y, !.sq = s]
<1>1. /\ vq \in VqType /\ ~vq.gone /\ AdminSound(vq) /\ 0 \in AllIds
      /\ vq.sq[0].qp = "on" /\ vq.sq[0].listed /\ vq.sq[0].cq = 0 /\ vq.sq[0].st \in {"active", "inactive"}
  BY QueueIds DEF Sound, AddRegion, AdminSound
<1>2. vq' = IF twice THEN QueueCrash(done, "mapped twice") ELSE done
  BY DEF AddRegion
<1> HIDE DEF twice
<1>3. m \in SUBSET Regions
  BY <1>1, VqFields
<1>4. w \in VqType
  BY <1>1, <1>3, VqRetyped
<1>5. /\ w.sq = vq.sq /\ w.cq = vq.cq /\ w.mem = m /\ w.host = vq.host /\ w.lost = vq.lost /\ w.en = vq.en
      /\ w.rdy = vq.rdy /\ w.shn = vq.shn /\ w.resetShn = vq.resetShn /\ w.gone = vq.gone
      /\ w.overlap = vq.overlap /\ w.crash = vq.crash
  BY <1>1 DEF VqType
<1> HIDE DEF w
<1>6. \A q \in AllIds : /\ q \in idle <=> vq.sq[q].listed /\ vq.sq[q].st = "inactive"
                        /\ q \in back => q \in idle
                        /\ q \in back /\ vq.sq[q].size => "sq" \in m
  BY <1>5 DEF Listed
<1>7. ASSUME m = Regions, NEW q \in AllIds, q \in idle PROVE q \in back
  <2>1. vq.sq[q].cq \in AllIds
    BY <1>1, VqParts
  <2>2. w.cq[w.sq[q].cq].size => w.sq[q].cq \in cqs
    BY <1>5, <1>7, <2>1 DEF Regions
  <2> HIDE DEF cqs, idle
  <2>3. q \in with
    BY <1>7, <2>2
  <2> QED BY <1>5, <1>7, <2>3 DEF Regions
<1>8. ASSUME NEW c \in AllIds PROVE y[c] \in VfuCqs /\ y[c].ref = vq.cq[c].ref
                                    /\ (y[c].mapped => vq.cq[c].mapped \/ "cq" \in m)
  <2>1. vq.cq[c] \in VfuCqs
    BY <1>1, VqParts
  <2>2. y[c] = [vq.cq[c] EXCEPT !.mapped = @ \/ c \in cqs] /\ (c \in cqs => "cq" \in m)
    BY <1>5
  <2> HIDE DEF y, cqs
  <2> QED BY <2>1, <2>2 DEF VfuCqs
<1> HIDE DEF back, idle
<1>9. ASSUME NEW q \in AllIds
      PROVE  /\ s[q] \in VfuSqs
             /\ s[q].qp = vq.sq[q].qp /\ s[q].cq = vq.sq[q].cq /\ s[q].listed = vq.sq[q].listed
             /\ s[q].create = vq.sq[q].create /\ s[q].delete = vq.sq[q].delete /\ s[q].size = vq.sq[q].size
             /\ q \notin back => s[q] = vq.sq[q]
             /\ q \in back => s[q].st = "active" /\ s[q].mapped = (vq.sq[q].mapped \/ vq.sq[q].size)
  <2>1. vq.sq[q] \in VfuSqs
    BY <1>1, VqParts
  <2>2. s[q] = IF q \notin back THEN vq.sq[q]
               ELSE [vq.sq[q] EXCEPT !.mapped = vq.sq[q].mapped \/ vq.sq[q].size, !.st = "active"]
    BY <1>5
  <2> HIDE DEF s
  <2> QED BY <2>1, <2>2 DEF VfuSqs
<1>10. y \in [AllIds -> VfuCqs]
  BY <1>8
<1>11. s \in [AllIds -> VfuSqs]
  <2> DEFINE e(q) == IF q \notin back THEN w.sq[q]
                     ELSE [w.sq[q] EXCEPT !.mapped = @ \/ w.sq[q].size, !.st = "active"]
  <2>1. \A q \in AllIds : e(q) = s[q]
    OBVIOUS
  <2>2. \A q \in AllIds : e(q) \in VfuSqs
    BY <1>9, <2>1
  <2>3. s = [q \in AllIds |-> e(q)]
    OBVIOUS
  <2> HIDE DEF e, s
  <2> QED BY <2>2, <2>3
<1> HIDE DEF s, y
<1>12. done \in VqType
  BY <1>4, <1>10, <1>11 DEF VqType
<1>13. /\ done.sq = s /\ done.cq = y /\ done.mem = m /\ done.host = vq.host /\ done.lost = vq.lost
       /\ done.en = vq.en /\ done.rdy = vq.rdy /\ done.shn = vq.shn /\ done.resetShn = vq.resetShn
       /\ done.gone = vq.gone /\ done.overlap = vq.overlap /\ done.crash = "no"
  <2>1. /\ done.sq = s /\ done.cq = y /\ done.mem = w.mem /\ done.host = w.host /\ done.lost = w.lost
        /\ done.en = w.en /\ done.rdy = w.rdy /\ done.shn = w.shn /\ done.resetShn = w.resetShn
        /\ done.gone = w.gone /\ done.overlap = w.overlap /\ done.crash = w.crash
    BY <1>4 DEF VqType
  <2> QED BY <1>5, <2>1
<1> HIDE DEF done
<1>14. ASSUME NEW q \in Io PROVE IoSound(s[q]) /\ Holding(s[q]) = Holding(vq.sq[q])
  <2>1. q \in AllIds /\ IoSound(vq.sq[q]) /\ vq.sq[q].qp \in {"none", "new", "on", "off", "out"}
    BY <1>1, QueueIds, VqParts DEF Sound
  <2>2. CASE q \in back
    <3>1. vq.sq[q].listed /\ vq.sq[q].st = "inactive" BY <1>6, <2>1, <2>2
    <3>2. vq.sq[q].qp \in {"on", "off", "out"} BY <2>1, <3>1 DEF IoSound
    <3>3. IoSound(s[q]) BY <1>9, <2>1, <2>2, <3>1, <3>2 DEF IoSound
    <3>4. Holding(s[q]) <=> Holding(vq.sq[q]) BY <1>9, <2>1, <2>2, <3>1 DEF Holding
    <3> QED BY <3>3, <3>4 DEF Holding
  <2>3. CASE q \notin back
    BY <1>9, <2>1, <2>3
  <2> QED BY <2>2, <2>3
<1>15. /\ s[0].st \in {"active", "inactive"} /\ Holding(s[0]) = Holding(vq.sq[0])
       /\ s[0].mapped => "sq" \in m
       /\ s[0].st = "active" /\ s[0].size => s[0].mapped
  <2>1. CASE 0 \in back
    BY <1>1, <1>6, <1>9, <2>1 DEF AdminSound, Holding
  <2>2. CASE 0 \notin back
    BY <1>1, <1>9, <2>2 DEF AdminSound
  <2> QED BY <2>1, <2>2
<1>16. ASSUME NEW q \in AllIds
       PROVE  /\ done.sq[q].qp = vq.sq[q].qp /\ done.sq[q].cq = vq.sq[q].cq
              /\ done.sq[q].listed = vq.sq[q].listed /\ done.sq[q].create = vq.sq[q].create
              /\ done.sq[q].delete = vq.sq[q].delete /\ done.sq[q].size = vq.sq[q].size
              /\ Holding(done.sq[q]) = Holding(vq.sq[q])
  <2>1. Holding(s[q]) = Holding(vq.sq[q])
    BY <1>14, <1>15, QueueIds
  <2> QED BY <1>9, <1>13, <2>1
<1>17. ASSUME done.mem = Regions, NEW q \in Io, done.sq[q].listed PROVE done.sq[q].st # "inactive"
  <2>1. q \in AllIds /\ m = Regions
    BY <1>13, <1>17, QueueIds
  <2>2. CASE q \in back
    BY <1>9, <1>13, <2>1, <2>2
  <2>3. CASE q \notin back
    BY <1>6, <1>7, <1>9, <1>13, <1>17, <2>1, <2>3
  <2> QED BY <2>2, <2>3
<1>18. done.cq[0].mapped => "cq" \in done.mem
  BY <1>1, <1>8, <1>13 DEF AdminSound
<1>19. \A c \in AllIds : done.cq[c].ref = vq.cq[c].ref
  BY <1>8, <1>13
<1>20. /\ \A q \in Io : IoSound(done.sq[q])
       /\ done.sq[0].st \in {"active", "inactive"}
       /\ done.sq[0].mapped => "sq" \in done.mem
       /\ done.sq[0].st = "active" /\ done.sq[0].size => done.sq[0].mapped
  BY <1>13, <1>14, <1>15
<1>21. Sound(done)
  <2> HIDE <1>2, <1>6, <1>7, <1>8, <1>9, <1>14, <1>15
  <2> QED BY <1>1, <1>12, <1>13, <1>16, <1>17, <1>18, <1>19, <1>20, MemoryMoves
<1>22. CASE twice
  <2>1. "mapped twice" \in VqCrashes
    BY DEF VqCrashes
  <2>2. vq'.crash = "mapped twice"
    BY <1>2, <1>12, <1>13, <1>22, <2>1, CrashFacts
  <2> QED BY <2>2, CrashKept
<1>23. CASE ~twice
  BY <1>2, <1>13, <1>21, <1>23, AliveKept
<1> QED BY <1>22, <1>23

---------------------------------------------------------------------------
(* The invariant *)

(* It holds when the guest has just enabled the controller. *)
LEMMA QueueInvInit == QueueInit => QueueInv(vq)
<1> SUFFICES ASSUME QueueInit PROVE QueueInv(vq)
  OBVIOUS
<1> DEFINE a == [NewSq EXCEPT !.st = "active", !.size = TRUE, !.mapped = TRUE, !.qp = "on", !.listed = TRUE]
           b == [NewCq EXCEPT !.size = TRUE, !.mapped = TRUE, !.ref = 1]
           s == [q \in AllIds |-> IF q # 0 THEN NewSq ELSE a]
           y == [c \in AllIds |-> IF c # 0 THEN NewCq ELSE b]
           h == [sq |-> [q \in Io |-> "none"], cq |-> [c \in Io |-> FALSE]]
<1>1. PICK mix \in VfuQueueMixes :
          vq = [sq |-> s, cq |-> y, en |-> TRUE, rdy |-> TRUE, shn |-> FALSE, resetShn |-> FALSE, gone |-> FALSE,
                mem |-> Regions, host |-> h, left |-> mix, lost |-> FALSE, overlap |-> FALSE, crash |-> "no"]
  BY DEF QueueInit
<1>2. mix \in VfuBounds
  BY VfuQueueMixesAssumption DEF VfuBounds
<1>3. NewSq \in VfuSqs /\ a \in VfuSqs /\ NewCq \in VfuCqs /\ b \in VfuCqs
  <2>1. NewSq \in VfuSqs
    BY QueueIds DEF NewSq, VfuSqs
  <2>2. a \in VfuSqs
    BY <2>1 DEF VfuSqs
  <2>3. NewCq \in VfuCqs
    BY DEF NewCq, VfuCqs
  <2>4. b \in VfuCqs
    BY DEF NewCq, VfuCqs
  <2> QED BY <2>1, <2>2, <2>3, <2>4
<1>4. s \in [AllIds -> VfuSqs] /\ y \in [AllIds -> VfuCqs] /\ h \in VfuHosts
  BY <1>3 DEF VfuHosts
<1>5. /\ a.st = "active" /\ a.mapped /\ a.size /\ a.qp = "on" /\ a.listed /\ ~a.create /\ ~a.delete /\ a.cq = 0
      /\ NewSq.st = "unused" /\ NewSq.qp = "none" /\ ~NewSq.listed /\ ~NewSq.create /\ ~NewSq.delete
      /\ b.mapped /\ b.ref = 1 /\ NewCq.ref = 0
  BY DEF NewSq, NewCq
<1>6. s[0] = a /\ y[0] = b /\ (\A q \in Io : s[q] = NewSq) /\ (\A c \in AllIds \ {0} : y[c] = NewCq)
  BY QueueIds
<1>7. \A q \in Io : h.sq[q] = "none"
  OBVIOUS
<1> HIDE DEF a, b, s, y, h
<1>8. vq \in VqType
  <2>1. "no" \in VqCrashes /\ Regions \in SUBSET Regions
    BY DEF VqCrashes
  <2> QED BY <1>1, <1>2, <1>4, <2>1 DEF VqType
<1>9. /\ vq.sq = s /\ vq.cq = y /\ vq.en /\ vq.rdy /\ ~vq.shn /\ ~vq.resetShn /\ ~vq.gone /\ vq.mem = Regions
      /\ vq.host = h /\ vq.crash = "no"
  BY <1>1
<1>10. AdminSound(vq) /\ FlagsSound(vq)
  BY <1>5, <1>6, <1>9 DEF AdminSound, FlagsSound, Regions
<1>11. ASSUME NEW q \in Io PROVE IoSound(vq.sq[q]) /\ HostSound(vq, q) /\ PhaseSound(vq, q)
  BY <1>5, <1>6, <1>7, <1>9 DEF IoSound, HostSound, PhaseSound, DeletedOrUnused
<1>12. RefsCounted(vq)
  <2>1. Holding(vq.sq[0]) /\ vq.sq[0].cq = 0 /\ \A q \in Io : ~Holding(vq.sq[q])
    BY <1>5, <1>6, <1>9 DEF Holding
  <2>2. HoldersIn(vq, 0) = {0}
    BY <2>1, QueueIds DEF HoldersIn
  <2>3. \A c \in AllIds \ {0} : HoldersIn(vq, c) = {}
    BY <2>1, QueueIds DEF HoldersIn
  <2>4. ASSUME NEW c \in AllIds PROVE vq.cq[c].ref = Cardinality(HoldersIn(vq, c))
    <3>1. CASE c = 0
      <4>1. Cardinality({0}) = 1 BY FS_Singleton
      <4>2. vq.cq[c].ref = 1 BY <1>5, <1>6, <1>9, <3>1
      <4> QED BY <2>2, <3>1, <4>1, <4>2
    <3>2. CASE c # 0
      BY <1>5, <1>6, <1>9, <2>3, <3>2, FS_EmptySet
    <3> QED BY <3>1, <3>2
  <2> QED BY <2>4 DEF RefsCounted
<1> QED BY <1>8, <1>9, <1>10, <1>11, <1>12, AliveKept DEF Sound

(* Every step keeps it. *)
LEMMA QueueInvStep == QueueInv(vq) /\ [QueueNext]_vqVars => QueueInv(vq')
<1> SUFFICES ASSUME QueueInv(vq), [QueueNext]_vqVars PROVE QueueInv(vq')
  OBVIOUS
<1>1. CASE UNCHANGED vqVars
  BY <1>1 DEF vqVars, QueueInv
<1>2. CASE QueueNext
  <2>1. Sound(vq) /\ vq.crash = "no"
    BY <1>2 DEF QueueNext, QueueAlive, QueueInv
  <2>2. CASE ResetCtrlr \/ Shutdown \/ ResetDone \/ EnableAgain \/ LoseGuest
    BY <2>1, <2>2, ResetKeeps, ResetDoneKeeps, EnableAgainKeeps, LoseGuestKeeps
  <2>3. CASE \E q \in Io : DeleteCq(q) \/ DeleteSq(q) \/ CreateCq(q) \/ SubmitIo(q) \/ CompleteIo(q) \/ ConnectQueue(q)
    BY <2>1, <2>3, DeleteCqKeeps, DeleteSqKeeps, CreateCqKeeps, SubmitIoKeeps, CompleteIoKeeps, ConnectQueueKeeps
  <2>4. CASE \E q \in Io, c \in Io : CreateSq(q, c)
    BY <2>1, <2>4, CreateSqKeeps
  <2>5. CASE \E q \in AllIds : DisconnectQueue(q) \/ LeaveGroup(q) \/ CloseQueue(q)
    BY <2>1, <2>5, DisconnectQueueKeeps, CloseQueueKeeps
  <2>6. CASE \E r \in Regions : RemoveRegion(r) \/ AddRegion(r)
    BY <2>1, <2>6, RemoveRegionKeeps, AddRegionKeeps
  <2> QED BY <1>2, <2>2, <2>3, <2>4, <2>5, <2>6 DEF QueueNext
<1> QED BY <1>1, <1>2

(* What the invariant says of the properties. *)
LEMMA QueueInvLife == QueueInv(vq) => QueueLife
<1> SUFFICES ASSUME QueueInv(vq) PROVE QueueLife
  OBVIOUS
<1>1. CqReferences
  <2>1. \A c \in AllIds : Holders(c) = HoldersIn(vq, c)
    BY DEF Holders, HoldersIn, Holding
  <2> QED BY <2>1 DEF CqReferences, QueueInv, QueueAlive, Sound, RefsCounted
<1>2. QueueAnswers
  <2> SUFFICES ASSUME QueueAlive, ~vq.lost, NEW q \in Io
               PROVE  /\ vq.host.sq[q] = "creating" => vq.sq[q].create /\ vq.sq[q].qp = "new"
                      /\ vq.host.sq[q] = "deleting" => vq.sq[q].delete
    BY DEF QueueAnswers
  <2>1. IoSound(vq.sq[q]) /\ HostSound(vq, q)
    BY DEF QueueInv, QueueAlive, Sound
  <2> QED BY <2>1 DEF IoSound, HostSound
<1>3. QueueServed
  BY DEF QueueServed, QueueInv
<1>4. MigrationKeepsQueues
  <2> DEFINE ids == {q \in Listed(vq) : vq.sq[q].size /\ vq.cq[vq.sq[q].cq].size}
             n == Cardinality(Listed(vq))
             s == Saved(vq)
  <2> SUFFICES ASSUME QueueAlive, Listed(vq) = 0 .. n - 1, \A q \in ids : vq.sq[q].cq = q
               PROVE  /\ Restorable(s) /\ {<<q, q>> : q \in ids} \subseteq Restored(s).sqs
                      /\ \A c \in ids : Restored(s).refs[c] = 1
    BY DEF MigrationKeepsQueues
  <2>1. Sound(vq) /\ vq \in VqType
    BY DEF QueueInv, QueueAlive, Sound
  <2>2. n \in Nat /\ AllIds \subseteq Nat /\ ids \subseteq AllIds /\ Listed(vq) \subseteq AllIds
    <3>1. Listed(vq) \subseteq AllIds BY DEF Listed
    <3>2. IsFiniteSet(Listed(vq)) BY <3>1, QueueIds, FS_Subset
    <3>3. AllIds \subseteq Nat BY QueueIds DEF AllIds
    <3> QED BY <3>1, <3>2, <3>3, FS_CardinalityType
  <2> HIDE DEF n
  <2>3. ASSUME NEW i \in AllIds
        PROVE  /\ s[i].sq <=> i < n /\ vq.sq[i].size
               /\ i < n => s[i].to = vq.sq[i].cq
               /\ s[i].cq <=> i < n /\ \E q \in Listed(vq) : vq.sq[q].cq = i /\ vq.cq[i].size
    <3>1. i < n <=> vq.sq[i].listed BY <2>2 DEF Listed
    <3>2. s[i] = IF i < n
                 THEN [sq |-> vq.sq[i].listed /\ vq.sq[i].size, to |-> IF vq.sq[i].listed THEN vq.sq[i].cq ELSE 0,
                       cq |-> \E q \in Listed(vq) : vq.sq[q].cq = i /\ vq.cq[i].size]
                 ELSE [sq |-> FALSE, to |-> 0, cq |-> FALSE]
      BY DEF Saved, n
    <3>3. vq.sq[i].size \in BOOLEAN /\ vq.sq[i].listed \in BOOLEAN
      BY <2>1, VqParts DEF VfuSqs
    <3> HIDE DEF s
    <3>4. CASE i < n
      BY <3>1, <3>2, <3>3, <3>4
    <3>5. CASE ~(i < n)
      BY <3>2, <3>5
    <3> QED BY <3>4, <3>5
  <2> HIDE DEF s
  <2>4. ASSUME NEW q \in AllIds, q < n PROVE vq.sq[q].size \/ q = 0
    <3>1. vq.sq[q].listed BY <2>2, <2>4 DEF Listed
    <3>2. CASE q # 0
      BY <2>1, <3>1, <3>2, QueueIds, VqParts DEF Sound, IoSound
    <3> QED BY <3>2
  <2>5. ASSUME NEW q \in AllIds, q < n, vq.cq[vq.sq[q].cq].size PROVE vq.sq[q].cq = q
    <3>1. vq.sq[q].listed /\ q \in Listed(vq) BY <2>2, <2>5 DEF Listed
    <3>2. CASE q = 0
      BY <2>1, <3>2 DEF Sound, AdminSound
    <3>3. CASE q # 0
      BY <2>4, <2>5, <3>1, <3>3
    <3> QED BY <3>2, <3>3
  <2>6. ASSUME NEW i \in AllIds, s[i].cq PROVE i < n /\ vq.sq[i].cq = i /\ vq.cq[i].size
    <3>1. i < n BY <2>3, <2>6
    <3>2. PICK q \in Listed(vq) : vq.sq[q].cq = i /\ vq.cq[i].size
      BY <2>3, <2>6
    <3>3. q \in AllIds /\ q < n BY <2>2, <3>2
    <3>4. q = i BY <2>5, <3>2, <3>3
    <3> QED BY <3>1, <3>2, <3>4
  <2>7. Restorable(s)
    BY <2>3, <2>6 DEF Restorable
  <2>8. ASSUME NEW q \in ids PROVE q \in AllIds /\ s[q].sq /\ s[q].to = q /\ s[q].cq
    <3>1. q \in AllIds /\ q \in Listed(vq) /\ q < n /\ vq.sq[q].size /\ vq.sq[q].cq = q /\ vq.cq[q].size
      BY <2>2
    <3> QED BY <2>3, <3>1
  <2>9. {<<q, q>> : q \in ids} \subseteq Restored(s).sqs
    <3>1. Restored(s).sqs = {<<i, s[i].to>> : i \in {j \in AllIds : s[j].sq}}
      BY DEF Restored
    <3>2. ASSUME NEW q \in ids PROVE <<q, q>> \in Restored(s).sqs
      <4>1. q \in {j \in AllIds : s[j].sq} /\ <<q, q>> = <<q, s[q].to>> BY <2>8
      <4> HIDE DEF ids
      <4> QED BY <3>1, <4>1
    <3> HIDE DEF ids
    <3> QED BY <3>2
  <2>10. ASSUME NEW c \in ids PROVE Restored(s).refs[c] = 1
    <3> DEFINE to == {i \in AllIds : s[i].sq /\ s[i].to = c}
    <3>1. c \in AllIds /\ s[c].sq /\ s[c].to = c /\ s[c].cq /\ vq.cq[c].size BY <2>8
    <3> HIDE DEF ids
    <3>2. to = {c}
      <4>1. ASSUME NEW i \in AllIds, s[i].sq, s[i].to = c PROVE i = c
        <5>1. i < n /\ vq.sq[i].cq = c BY <2>3, <4>1
        <5> QED BY <2>5, <3>1, <5>1
      <4> QED BY <3>1, <4>1
    <3>3. Restored(s).refs[c] = Cardinality(to) BY <3>1 DEF Restored
    <3> QED BY <3>2, <3>3, FS_Singleton
  <2> QED BY <2>7, <2>9, <2>10
<1> QED BY <1>1, <1>2, <1>3, <1>4 DEF QueueLife

(* The queues of a controller. *)
THEOREM QueueSoundness == QueueSpec => []QueueLife
<1>1. QueueInit => QueueInv(vq)
  BY QueueInvInit
<1>2. QueueInv(vq) /\ [QueueNext]_vqVars => QueueInv(vq)'
  BY QueueInvStep
<1>3. QueueInv(vq) => QueueLife
  BY QueueInvLife
<1> QED BY <1>1, <1>2, <1>3, PTL DEF QueueSpec

---------------------------------------------------------------------------
(* An endpoint and its controllers *)

(* The values of an endpoint, its controllers and the messages. *)
CtlrIds == 1 .. VfuCtrlrs
VfuEps == [st : {"listed", "removing", "removed", "freed"}, ctrlr : 0 .. VfuCtrlrs, poller : BOOLEAN,
           needResume : BOOLEAN, needRelisten : BOOLEAN, saved : BOOLEAN]
CtlrVals == [st : {"none", "creating", "running", "pausing", "paused", "resuming", "migrating", "freeing",
                   "freed"},
             src : BOOLEAN, queued : BOOLEAN, pend : VfuRequestKinds \cup {"none", "gone"}, lost : BOOLEAN,
             en : BOOLEAN, mig : {"running", "precopy", "copying", "stopped", "resuming"},
             sqs : SUBSET VfuQueues, disc : SUBSET VfuQueues]
VfuSubs == [st : {"active", "paused", "undone"},
            busy : {"none", "vfu pause", "vfu resume", "rpc pause", "rpc resume"}]
VfuMsgs == [k : {"group"}, n : 1 .. VfuGroups] \cup [k : {"quiesced", "resumed", "relisten"}]
           \cup [k : {"free"}, g : CtlrIds] \cup [k : {"disconnect"}, g : CtlrIds, q : VfuQueues]
VfuLefts == [ctrlrs : 1 .. VfuCtrlrs, requests : Nat, rpcs : Nat, faults : Nat, removals : Nat]
VfuNotes == {"late resume", "resume refused", "pause refused"}
VfuCrashes == {"no", "no thread", "not paused", "source", "not pausing", "freed endpoint", "freed queue"}
VfuStates == [ep : VfuEps, ctl : [CtlrIds -> CtlrVals], sub : VfuSubs,
              rpc : {"none", "pausing", "paused", "resuming"}, msgs : SUBSET VfuMsgs, left : VfuLefts,
              crash : VfuCrashes, seen : SUBSET VfuNotes]

(* Who is waited for. *)
QuiescingIn(w) == (\E m \in w.msgs : m.k \in {"group", "quiesced"}) \/ w.sub.busy = "vfu pause"
ResumingIn(w) == (\E m \in w.msgs : m.k = "resumed") \/ w.sub.busy = "vfu resume"
RelistingIn(w) == \E m \in w.msgs : m.k = "relisten"
FreeSent(w, g) == \E m \in w.msgs : m.k = "free" /\ m.g = g
DisconnectSent(w, g) == \E m \in w.msgs : m.k = "disconnect" /\ m.g = g

(* One controller at a time has the endpoint, and the accept poller runs
   only while none has. *)
VfuIdle(w) == \A g \in CtlrIds : w.ctl[g].st \in {"none", "freed"}
CtlrSound(w, g) ==
    /\ w.ctl[g].st \notin {"none", "freeing", "freed"} <=> w.ep.ctrlr = g
    /\ w.ctl[g].st = "freeing" <=> FreeSent(w, g)
    /\ w.ctl[g].st = "freeing" => ~w.ep.poller /\ ~RelistingIn(w) /\ w.ep.ctrlr = NoCtrlr
                                  /\ \A h \in CtlrIds \ {g} : w.ctl[h].st \in {"none", "freed"}
    /\ w.ctl[g].st = "none" => w.ctl[g] = NewVfuCtrlr /\ ~DisconnectSent(w, g)
    /\ w.ctl[g].sqs # {} => w.ep.ctrlr = g
    /\ w.ctl[g].st = "creating" => w.ctl[g].sqs = {}
    /\ w.ctl[g].disc \subseteq w.ctl[g].sqs
    /\ w.ctl[g].st = "pausing" \/ w.ctl[g].queued => w.ctl[g].pend \in VfuRequestKinds
    /\ w.ep.st = "listed" /\ (\/ w.ctl[g].disc # {} \/ w.ctl[g].st = "freeing"
                              \/ w.ctl[g].st # "freed" /\ DisconnectSent(w, g)) => w.ep.needRelisten
EpSound(w) ==
    /\ w.ep.poller => ~RelistingIn(w)
    /\ w.ep.poller \/ RelistingIn(w) => VfuIdle(w)
    /\ w.ep.st = "listed" /\ w.ep.ctrlr = NoCtrlr =>
          w.ep.poller \/ RelistingIn(w) \/ \E g \in CtlrIds : w.ctl[g].st = "freeing"

(* A controller waits only for what is under way. *)
WaitSound(w, g) ==
    /\ w.ctl[g].st = "pausing" => QuiescingIn(w)
    /\ w.ctl[g].st = "resuming" => ResumingIn(w)
    /\ w.ctl[g].st = "paused" => "resume refused" \in w.seen
    /\ w.ctl[g].pend \notin {"none", "gone"} =>
          QuiescingIn(w) \/ (w.ctl[g].queued /\ ResumingIn(w)) \/ "pause refused" \in w.seen
ResumeSound(w) ==
    w.ep.needResume => \/ w.ep.ctrlr # NoCtrlr /\ w.ctl[w.ep.ctrlr].src
                       \/ ResumingIn(w)
                       \/ "late resume" \in w.seen \/ "resume refused" \in w.seen

VfuSound(w) ==
    /\ w \in VfuStates
    /\ \A g \in CtlrIds : CtlrSound(w, g)
    /\ EpSound(w)
    /\ w.ep.ctrlr # NoCtrlr => WaitSound(w, w.ep.ctrlr)
    /\ ResumeSound(w)
VfuInv(w) == w.crash = "no" => VfuSound(w)

---------------------------------------------------------------------------
(* Facts about the records *)

(* The fields of an endpoint's state. *)
LEMMA VfuFields ==
    ASSUME NEW w \in VfuStates
    PROVE  /\ w.ep \in VfuEps /\ w.ctl \in [CtlrIds -> CtlrVals] /\ w.sub \in VfuSubs
           /\ w.rpc \in {"none", "pausing", "paused", "resuming"} /\ w.msgs \in SUBSET VfuMsgs
           /\ w.left \in VfuLefts /\ w.crash \in VfuCrashes /\ w.seen \in SUBSET VfuNotes
  BY DEF VfuStates

(* Another value of ep. *)
LEMMA PutVfuEp ==
    ASSUME NEW w \in VfuStates, NEW x \in VfuEps
    PROVE  LET v == [w EXCEPT !.ep = x]
           IN  /\ v \in VfuStates /\ v.ep = x
               /\ v.ctl = w.ctl /\ v.sub = w.sub /\ v.rpc = w.rpc /\ v.msgs = w.msgs
               /\ v.left = w.left /\ v.crash = w.crash /\ v.seen = w.seen
  BY DEF VfuStates

(* Another value of sub. *)
LEMMA PutVfuSub ==
    ASSUME NEW w \in VfuStates, NEW x \in VfuSubs
    PROVE  LET v == [w EXCEPT !.sub = x]
           IN  /\ v \in VfuStates /\ v.sub = x
               /\ v.ep = w.ep /\ v.ctl = w.ctl /\ v.rpc = w.rpc /\ v.msgs = w.msgs
               /\ v.left = w.left /\ v.crash = w.crash /\ v.seen = w.seen
  BY DEF VfuStates

(* Another value of rpc. *)
LEMMA PutVfuRpc ==
    ASSUME NEW w \in VfuStates, NEW x \in {"none", "pausing", "paused", "resuming"}
    PROVE  LET v == [w EXCEPT !.rpc = x]
           IN  /\ v \in VfuStates /\ v.rpc = x
               /\ v.ep = w.ep /\ v.ctl = w.ctl /\ v.sub = w.sub /\ v.msgs = w.msgs
               /\ v.left = w.left /\ v.crash = w.crash /\ v.seen = w.seen
  BY DEF VfuStates

(* Another value of msgs. *)
LEMMA PutVfuMsgs ==
    ASSUME NEW w \in VfuStates, NEW x \in SUBSET VfuMsgs
    PROVE  LET v == [w EXCEPT !.msgs = x]
           IN  /\ v \in VfuStates /\ v.msgs = x
               /\ v.ep = w.ep /\ v.ctl = w.ctl /\ v.sub = w.sub /\ v.rpc = w.rpc
               /\ v.left = w.left /\ v.crash = w.crash /\ v.seen = w.seen
  BY DEF VfuStates

(* Another value of left. *)
LEMMA PutVfuLeft ==
    ASSUME NEW w \in VfuStates, NEW x \in VfuLefts
    PROVE  LET v == [w EXCEPT !.left = x]
           IN  /\ v \in VfuStates /\ v.left = x
               /\ v.ep = w.ep /\ v.ctl = w.ctl /\ v.sub = w.sub /\ v.rpc = w.rpc
               /\ v.msgs = w.msgs /\ v.crash = w.crash /\ v.seen = w.seen
  BY DEF VfuStates

(* Another value of crash. *)
LEMMA PutVfuCrash ==
    ASSUME NEW w \in VfuStates, NEW x \in VfuCrashes
    PROVE  LET v == [w EXCEPT !.crash = x]
           IN  /\ v \in VfuStates /\ v.crash = x
               /\ v.ep = w.ep /\ v.ctl = w.ctl /\ v.sub = w.sub /\ v.rpc = w.rpc
               /\ v.msgs = w.msgs /\ v.left = w.left /\ v.seen = w.seen
  BY DEF VfuStates

(* Another value of seen. *)
LEMMA PutVfuSeen ==
    ASSUME NEW w \in VfuStates, NEW x \in SUBSET VfuNotes
    PROVE  LET v == [w EXCEPT !.seen = x]
           IN  /\ v \in VfuStates /\ v.seen = x
               /\ v.ep = w.ep /\ v.ctl = w.ctl /\ v.sub = w.sub /\ v.rpc = w.rpc
               /\ v.msgs = w.msgs /\ v.left = w.left /\ v.crash = w.crash
  BY DEF VfuStates

(* Another value of a controller. *)
LEMMA PutVfuCtl ==
    ASSUME NEW w \in VfuStates, NEW g \in CtlrIds, NEW x \in CtlrVals
    PROVE  LET v == [w EXCEPT !.ctl[g] = x]
           IN  /\ v \in VfuStates /\ v.ctl[g] = x /\ \A h \in CtlrIds \ {g} : v.ctl[h] = w.ctl[h]
               /\ v.ep = w.ep /\ v.sub = w.sub /\ v.rpc = w.rpc /\ v.msgs = w.msgs
               /\ v.left = w.left /\ v.crash = w.crash /\ v.seen = w.seen
<1> DEFINE c == [w.ctl EXCEPT ![g] = x]
           v == [w EXCEPT !.ctl = c]
<1>1. c \in [CtlrIds -> CtlrVals] /\ c[g] = x /\ \A h \in CtlrIds \ {g} : c[h] = w.ctl[h]
  BY VfuFields
<1> HIDE DEF c
<1>2. v \in VfuStates /\ v.ctl = c
  BY <1>1 DEF VfuStates
<1>3. /\ v.ep = w.ep /\ v.sub = w.sub /\ v.rpc = w.rpc /\ v.msgs = w.msgs
      /\ v.left = w.left /\ v.crash = w.crash /\ v.seen = w.seen
  BY DEF VfuStates
<1>4. [w EXCEPT !.ctl[g] = x] = v
  BY DEF c
<1> HIDE DEF v
<1> QED BY <1>1, <1>2, <1>3, <1>4

(* The values of a controller. *)
LEMMA VfuCtlFields ==
    ASSUME NEW c \in CtlrVals
    PROVE  /\ c.st \in {"none", "creating", "running", "pausing", "paused", "resuming", "migrating", "freeing", "freed"}
           /\ c.src \in BOOLEAN /\ c.queued \in BOOLEAN /\ c.pend \in VfuRequestKinds \cup {"none", "gone"}
           /\ c.lost \in BOOLEAN /\ c.en \in BOOLEAN
           /\ c.mig \in {"running", "precopy", "copying", "stopped", "resuming"}
           /\ c.sqs \in SUBSET VfuQueues /\ c.disc \in SUBSET VfuQueues
  BY DEF CtlrVals
(* A controller is one of these values. *)
LEMMA VfuCtl ==
    ASSUME NEW w \in VfuStates, NEW g \in CtlrIds
    PROVE  w.ctl[g] \in CtlrVals
  BY VfuFields
(* The values of the endpoint and of the subsystem. *)
LEMMA VfuEpFields ==
    ASSUME NEW w \in VfuStates
    PROVE  /\ w.ep.st \in {"listed", "removing", "removed", "freed"} /\ w.ep.ctrlr \in 0 .. VfuCtrlrs
           /\ w.ep.poller \in BOOLEAN /\ w.ep.needResume \in BOOLEAN /\ w.ep.needRelisten \in BOOLEAN
           /\ w.ep.saved \in BOOLEAN
           /\ w.ep.ctrlr # NoCtrlr => w.ep.ctrlr \in CtlrIds
           /\ \A g \in CtlrIds : g # NoCtrlr
           /\ w.sub.st \in {"active", "paused", "undone"}
           /\ w.sub.busy \in {"none", "vfu pause", "vfu resume", "rpc pause", "rpc resume"}
<1>1. w.ep \in VfuEps /\ w.sub \in VfuSubs
  BY VfuFields
<1>2. VfuCtrlrs \in Nat
  BY VfuCountsAssumption
<1>3. /\ w.ep.st \in {"listed", "removing", "removed", "freed"} /\ w.ep.ctrlr \in 0 .. VfuCtrlrs
      /\ w.ep.poller \in BOOLEAN /\ w.ep.needResume \in BOOLEAN /\ w.ep.needRelisten \in BOOLEAN
      /\ w.ep.saved \in BOOLEAN
  BY <1>1 DEF VfuEps
<1>4. w.ep.ctrlr # NoCtrlr => w.ep.ctrlr \in CtlrIds
  BY <1>2, <1>3 DEF CtlrIds, NoCtrlr
<1>5. \A g \in CtlrIds : g # NoCtrlr
  BY <1>2 DEF CtlrIds, NoCtrlr
<1> QED BY <1>1, <1>3, <1>4, <1>5 DEF VfuSubs

---------------------------------------------------------------------------
(* What may change under a controller that keeps the endpoint *)

(* The messages about the end of a controller and the listener. *)
Ending(k) == k \in {"free", "disconnect", "relisten"}
SameEnding(v, w) == \A m \in VfuMsgs : Ending(m.k) => (m \in v.msgs <=> m \in w.msgs)
SameListener(v, w) ==
    v.ep.st = w.ep.st /\ v.ep.ctrlr = w.ep.ctrlr /\ v.ep.poller = w.ep.poller
    /\ v.ep.needRelisten = w.ep.needRelisten
Steady(v, w) == v \in VfuStates /\ SameListener(v, w) /\ SameEnding(v, w)

(* Two steady changes in a row. *)
LEMMA SteadyTwice == ASSUME NEW u, NEW v, NEW w, Steady(u, v), Steady(v, w) PROVE Steady(u, w)
  BY DEF Steady, SameListener, SameEnding

(* Who has been told of an end is told still. *)
LEMMA EndingKept ==
    ASSUME NEW v \in VfuStates, NEW w \in VfuStates, SameEnding(v, w)
    PROVE  /\ RelistingIn(v) <=> RelistingIn(w)
           /\ \A g : (FreeSent(v, g) <=> FreeSent(w, g)) /\ (DisconnectSent(v, g) <=> DisconnectSent(w, g))
<1>1. v.msgs \subseteq VfuMsgs /\ w.msgs \subseteq VfuMsgs
  BY VfuFields
<1>2. \A m : m.k \in {"free", "disconnect", "relisten"} => (m \in v.msgs <=> m \in w.msgs)
  BY <1>1 DEF SameEnding, Ending
<1>3. RelistingIn(v) <=> RelistingIn(w)
  BY <1>2 DEF RelistingIn
<1>4. ASSUME NEW g PROVE (FreeSent(v, g) <=> FreeSent(w, g)) /\ (DisconnectSent(v, g) <=> DisconnectSent(w, g))
  BY <1>2 DEF FreeSent, DisconnectSent
<1> QED BY <1>3, <1>4

(* What is left to show when the endpoint keeps its controller and its
   listener. *)
LEMMA SteadySound ==
    ASSUME NEW w, VfuSound(w), NEW v, Steady(v, w),
           \A h \in CtlrIds : h # w.ep.ctrlr => v.ctl[h] = w.ctl[h],
           w.ep.ctrlr # NoCtrlr =>
               LET c == v.ctl[w.ep.ctrlr] IN
               /\ c.st \notin {"none", "freeing", "freed"} /\ c.disc \subseteq c.sqs
               /\ c.disc \subseteq w.ctl[w.ep.ctrlr].disc
               /\ c.st = "creating" => c.sqs = {}
               /\ c.st = "pausing" \/ c.queued => c.pend \in VfuRequestKinds
               /\ WaitSound(v, w.ep.ctrlr),
           ResumeSound(v)
    PROVE  VfuSound(v)
<1> DEFINE g == w.ep.ctrlr
<1>1. v \in VfuStates /\ w \in VfuStates /\ SameListener(v, w) /\ SameEnding(v, w)
  BY DEF Steady, VfuSound
<1>2. /\ RelistingIn(v) <=> RelistingIn(w)
      /\ \A h : (FreeSent(v, h) <=> FreeSent(w, h)) /\ (DisconnectSent(v, h) <=> DisconnectSent(w, h))
  BY <1>1, EndingKept
<1>3. /\ v.ep.st = w.ep.st /\ v.ep.ctrlr = g /\ v.ep.poller = w.ep.poller
      /\ v.ep.needRelisten = w.ep.needRelisten
  BY <1>1 DEF SameListener
<1>4. (g # NoCtrlr => g \in CtlrIds) /\ \A h \in CtlrIds : h # NoCtrlr
  BY <1>1, VfuEpFields
<1>5. \A h \in CtlrIds : /\ v.ctl[h].st \in {"none", "freed"} <=> w.ctl[h].st \in {"none", "freed"}
                         /\ v.ctl[h].st = "none" <=> w.ctl[h].st = "none"
                         /\ v.ctl[h].st = "freed" <=> w.ctl[h].st = "freed"
                         /\ v.ctl[h].st = "freeing" <=> w.ctl[h].st = "freeing"
  <2> SUFFICES ASSUME NEW h \in CtlrIds
               PROVE  /\ v.ctl[h].st \in {"none", "freed"} <=> w.ctl[h].st \in {"none", "freed"}
                      /\ v.ctl[h].st = "none" <=> w.ctl[h].st = "none"
                      /\ v.ctl[h].st = "freed" <=> w.ctl[h].st = "freed"
                      /\ v.ctl[h].st = "freeing" <=> w.ctl[h].st = "freeing"
    OBVIOUS
  <2>1. CASE h = g
    <3>1. w.ctl[h].st \notin {"none", "freeing", "freed"} BY <2>1 DEF VfuSound, CtlrSound
    <3>2. v.ctl[h].st \notin {"none", "freeing", "freed"} BY <1>4, <2>1
    <3> QED BY <3>1, <3>2
  <2>2. CASE h # g
    BY <2>2
  <2> QED BY <2>1, <2>2
<1>6. ASSUME NEW h \in CtlrIds PROVE CtlrSound(v, h)
  <2>1. CtlrSound(w, h)
    BY DEF VfuSound
  <2>2. CASE h = g
    <3> DEFINE c == v.ctl[g]
    <3>1. /\ c.st \notin {"none", "freeing", "freed"} /\ c.disc \subseteq c.sqs
          /\ c.disc \subseteq w.ctl[g].disc
          /\ c.st = "creating" => c.sqs = {}
          /\ c.st = "pausing" \/ c.queued => c.pend \in VfuRequestKinds
      BY <1>4, <2>2
    <3> HIDE DEF c
    <3>2. v.ctl[h] = c BY <2>2 DEF c
    <3>3. w.ctl[h].st # "freed" /\ w.ctl[h].st # "freeing" BY <2>1, <2>2 DEF CtlrSound
    <3>4. w.ep.st = "listed" /\ (c.disc # {} \/ DisconnectSent(w, h)) => w.ep.needRelisten
      BY <2>1, <2>2, <3>1, <3>3 DEF CtlrSound
    <3> HIDE DEF g
    <3> QED BY <1>2, <1>3, <1>5, <2>1, <2>2, <3>1, <3>2, <3>4 DEF CtlrSound
  <2>3. CASE h # g
    <3>1. v.ctl[h] = w.ctl[h] BY <2>3
    <3> QED BY <1>2, <1>3, <1>5, <2>1, <3>1 DEF CtlrSound
  <2> QED BY <2>2, <2>3
<1>7. EpSound(v)
  <2>1. VfuIdle(v) <=> VfuIdle(w)
    BY <1>5 DEF VfuIdle
  <2>2. (\E h \in CtlrIds : v.ctl[h].st = "freeing") <=> \E h \in CtlrIds : w.ctl[h].st = "freeing"
    BY <1>5
  <2> QED BY <1>2, <1>3, <2>1, <2>2 DEF VfuSound, EpSound
<1> QED BY <1>1, <1>3, <1>6, <1>7 DEF VfuSound

---------------------------------------------------------------------------
(* What the operators of the code do *)

(* A controller's state. *)
VfuSts == {"none", "creating", "running", "pausing", "paused", "resuming", "migrating", "freeing", "freed"}
(* The states that the operators give a controller. *)
LEMMA VfuStsAre ==
    /\ "creating" \in VfuSts /\ "running" \in VfuSts /\ "pausing" \in VfuSts /\ "paused" \in VfuSts
    /\ "resuming" \in VfuSts /\ "migrating" \in VfuSts /\ "freeing" \in VfuSts /\ "freed" \in VfuSts
  BY DEF VfuSts
(* A controller's state is set. *)
LEMMA SetVfuFacts ==
    ASSUME NEW w \in VfuStates, NEW g \in CtlrIds, NEW s \in VfuSts
    PROVE  LET v == SetVfu(w, g, s)
           IN  /\ v \in VfuStates /\ v.ctl[g] = [w.ctl[g] EXCEPT !.st = s]
               /\ \A h \in CtlrIds \ {g} : v.ctl[h] = w.ctl[h]
               /\ v.ep = w.ep /\ v.sub = w.sub /\ v.rpc = w.rpc /\ v.msgs = w.msgs
               /\ v.left = w.left /\ v.crash = w.crash /\ v.seen = w.seen
<1> DEFINE x == [w.ctl[g] EXCEPT !.st = s]
<1>1. x \in CtlrVals
  BY VfuCtl DEF CtlrVals, VfuSts
<1>2. SetVfu(w, g, s) = [w EXCEPT !.ctl[g] = x]
  BY DEF SetVfu
<1> HIDE DEF x
<1> QED BY <1>1, <1>2, PutVfuCtl DEF x

(* A message. *)
LEMMA VfuSendFacts ==
    ASSUME NEW w \in VfuStates, NEW m \in VfuMsgs
    PROVE  LET v == VfuSend(w, m)
           IN  /\ v \in VfuStates /\ v.msgs = w.msgs \cup {m}
               /\ v.ep = w.ep /\ v.ctl = w.ctl /\ v.sub = w.sub /\ v.rpc = w.rpc
               /\ v.left = w.left /\ v.crash = w.crash /\ v.seen = w.seen
<1> DEFINE x == w.msgs \cup {m}
<1>1. x \in SUBSET VfuMsgs
  BY VfuFields
<1>2. VfuSend(w, m) = [w EXCEPT !.msgs = x]
  BY DEF VfuSend
<1> HIDE DEF x
<1> QED BY <1>1, <1>2, PutVfuMsgs DEF x

(* What has come to nothing. *)
LEMMA VfuNoteFacts ==
    ASSUME NEW w \in VfuStates, NEW n \in VfuNotes
    PROVE  LET v == VfuNote(w, n)
           IN  /\ v \in VfuStates /\ v.seen = w.seen \cup {n}
               /\ v.ep = w.ep /\ v.ctl = w.ctl /\ v.sub = w.sub /\ v.rpc = w.rpc
               /\ v.msgs = w.msgs /\ v.left = w.left /\ v.crash = w.crash
<1> DEFINE x == w.seen \cup {n}
<1>1. x \in SUBSET VfuNotes
  BY VfuFields
<1>2. VfuNote(w, n) = [w EXCEPT !.seen = x]
  BY DEF VfuNote
<1> HIDE DEF x
<1> QED BY <1>1, <1>2, PutVfuSeen DEF x

(* The process ends. *)
LEMMA VfuCrashFacts ==
    ASSUME NEW w \in VfuStates, NEW why \in VfuCrashes, why # "no"
    PROVE  VfuCrash(w, why) \in VfuStates /\ VfuCrash(w, why).crash # "no"
  BY PutVfuCrash DEF VfuCrash

(* A message to the controller that has the endpoint. *)
LEMMA VfuSendCtrlrFacts ==
    ASSUME NEW w \in VfuStates, NEW m \in VfuMsgs
    PROVE  LET v == VfuSendCtrlr(w, m)
           IN  /\ v \in VfuStates
               /\ \/ v.crash # "no" /\ w.ctl[w.ep.ctrlr].st = "creating"
                  \/ /\ v.msgs = w.msgs \cup {m}
                     /\ v.ep = w.ep /\ v.ctl = w.ctl /\ v.sub = w.sub /\ v.rpc = w.rpc
                     /\ v.left = w.left /\ v.crash = w.crash /\ v.seen = w.seen
<1>1. CASE w.ctl[w.ep.ctrlr].st = "creating"
  <2>1. "no thread" \in VfuCrashes /\ "no thread" # "no"
    BY DEF VfuCrashes
  <2>2. VfuSendCtrlr(w, m) = VfuCrash(w, "no thread")
    BY <1>1 DEF VfuSendCtrlr
  <2> QED BY <1>1, <2>1, <2>2, VfuCrashFacts
<1>2. CASE w.ctl[w.ep.ctrlr].st # "creating"
  <2>1. VfuSendCtrlr(w, m) = VfuSend(w, m)
    BY <1>2 DEF VfuSendCtrlr
  <2> QED BY <2>1, VfuSendFacts
<1> QED BY <1>1, <1>2

(* The messages of the quiesce protocol. *)
LEMMA ProtocolMsgs ==
    /\ [k |-> "quiesced"] \in VfuMsgs /\ [k |-> "resumed"] \in VfuMsgs /\ [k |-> "relisten"] \in VfuMsgs
    /\ \A n \in 1 .. VfuGroups : [k |-> "group", n |-> n] \in VfuMsgs
    /\ \A g \in CtlrIds : [k |-> "free", g |-> g] \in VfuMsgs
    /\ \A g \in CtlrIds, q \in VfuQueues : [k |-> "disconnect", g |-> g, q |-> q] \in VfuMsgs
  BY DEF VfuMsgs

---------------------------------------------------------------------------
(* Steps of the quiesce protocol *)

(* Nothing that is waited for, and no note of a failure, is lost. *)
Onward(v, w) ==
    /\ Steady(v, w) /\ v.crash = w.crash /\ w.seen \subseteq v.seen
    /\ QuiescingIn(w) => QuiescingIn(v)
    /\ ResumingIn(w) => ResumingIn(v)
SameOthers(v, w, g) == \A h \in CtlrIds : h # g => v.ctl[h] = w.ctl[h]

(* Two steps onward in a row. *)
LEMMA OnwardTwice == ASSUME NEW u, NEW v, NEW w, Onward(u, v), Onward(v, w) PROVE Onward(u, w)
  BY SteadyTwice DEF Onward

(* A value that differs in nothing that is waited for. *)
LEMMA OnwardSame ==
    ASSUME NEW v \in VfuStates, NEW w, SameListener(v, w), v.msgs = w.msgs, v.sub = w.sub,
           v.crash = w.crash, w.seen \subseteq v.seen
    PROVE  Onward(v, w)
  BY DEF Onward, Steady, SameEnding, QuiescingIn, ResumingIn

(* A message of the quiesce protocol is a step onward. *)
LEMMA SendOnward ==
    ASSUME NEW w \in VfuStates, NEW m \in VfuMsgs, ~Ending(m.k), NEW v \in VfuStates, SameListener(v, w),
           v.msgs = w.msgs \cup {m}, v.sub = w.sub, v.crash = w.crash, w.seen \subseteq v.seen
    PROVE  Onward(v, w)
  BY DEF Onward, Steady, SameEnding, QuiescingIn, ResumingIn

(* The device is asked to be quiet. *)
LEMMA QuiesceFacts ==
    ASSUME NEW w \in VfuStates, NEW g \in CtlrIds
    PROVE  LET v == Quiesce(w, g)
           IN  /\ Onward(v, w) /\ v.ep = w.ep /\ SameOthers(v, w, g)
               /\ v.ctl[g] = [w.ctl[g] EXCEPT !.st = "pausing"]
               /\ QuiescingIn(v)
<1> DEFINE m == [k |-> "group", n |-> VfuGroups]
           u == SetVfu(w, g, "pausing")
           v == VfuSend(u, m)
<1>1. VfuGroups \in 1 .. VfuGroups
  BY VfuCountsAssumption
<1>2. m \in VfuMsgs
  BY <1>1, ProtocolMsgs
<1>3. m.k = "group" /\ ~Ending(m.k)
  BY DEF Ending
<1>4. Quiesce(w, g) = v
  BY DEF Quiesce
<1> HIDE DEF m
<1>5. /\ u \in VfuStates /\ u.ctl[g] = [w.ctl[g] EXCEPT !.st = "pausing"]
      /\ \A h \in CtlrIds \ {g} : u.ctl[h] = w.ctl[h]
      /\ u.ep = w.ep /\ u.sub = w.sub /\ u.rpc = w.rpc /\ u.msgs = w.msgs
      /\ u.left = w.left /\ u.crash = w.crash /\ u.seen = w.seen
  BY SetVfuFacts, VfuStsAre
<1> HIDE DEF u
<1>6. /\ v \in VfuStates /\ v.msgs = u.msgs \cup {m}
      /\ v.ep = u.ep /\ v.ctl = u.ctl /\ v.sub = u.sub /\ v.rpc = u.rpc
      /\ v.left = u.left /\ v.crash = u.crash /\ v.seen = u.seen
  BY <1>2, <1>5, VfuSendFacts
<1> HIDE DEF v
<1>7. Onward(v, w)
  BY <1>2, <1>3, <1>5, <1>6, SendOnward DEF SameListener
<1>8. QuiescingIn(v)
  BY <1>3, <1>6 DEF QuiescingIn
<1> QED BY <1>4, <1>5, <1>6, <1>7, <1>8 DEF SameOthers

(* The subsystem has been resumed. *)
LEMMA ResumeDoneFacts ==
    ASSUME NEW w \in VfuStates
    PROVE  LET v == ResumeDone(w)
           IN  /\ v \in VfuStates
               /\ \/ v.crash # "no" /\ w.ep.ctrlr # NoCtrlr
                  \/ /\ Onward(v, w) /\ v.ep = w.ep /\ v.ctl = w.ctl /\ v.left = w.left /\ v.sub = w.sub
                     /\ w.ep.ctrlr = NoCtrlr => "late resume" \in v.seen
                     /\ w.ep.ctrlr # NoCtrlr => ResumingIn(v)
<1>1. CASE w.ep.ctrlr = NoCtrlr
  <2> DEFINE v == VfuNote(w, "late resume")
  <2>1. ResumeDone(w) = v
    BY <1>1 DEF ResumeDone
  <2>2. "late resume" \in VfuNotes
    BY DEF VfuNotes
  <2>3. /\ v \in VfuStates /\ v.seen = w.seen \cup {"late resume"}
        /\ v.ep = w.ep /\ v.ctl = w.ctl /\ v.sub = w.sub /\ v.rpc = w.rpc
        /\ v.msgs = w.msgs /\ v.left = w.left /\ v.crash = w.crash
    BY <2>2, VfuNoteFacts
  <2> HIDE DEF v
  <2>4. Onward(v, w)
    BY <2>3, OnwardSame DEF SameListener
  <2> QED BY <1>1, <2>1, <2>3, <2>4
<1>2. CASE w.ep.ctrlr # NoCtrlr
  <2> DEFINE m == [k |-> "resumed"]
             v == VfuSendCtrlr(w, m)
  <2>1. ResumeDone(w) = v
    BY <1>2 DEF ResumeDone
  <2>2. m \in VfuMsgs
    BY ProtocolMsgs
  <2>3. m.k = "resumed" /\ ~Ending(m.k)
    BY DEF Ending
  <2> HIDE DEF m
  <2>4. /\ v \in VfuStates
        /\ \/ v.crash # "no"
           \/ /\ v.msgs = w.msgs \cup {m}
              /\ v.ep = w.ep /\ v.ctl = w.ctl /\ v.sub = w.sub /\ v.rpc = w.rpc
              /\ v.left = w.left /\ v.crash = w.crash /\ v.seen = w.seen
    BY <2>2, VfuSendCtrlrFacts
  <2> HIDE DEF v
  <2>5. CASE v.crash # "no"
    BY <1>2, <2>1, <2>4, <2>5
  <2>6. CASE ~(v.crash # "no")
    <3>1. Onward(v, w) BY <2>2, <2>3, <2>4, <2>6, SendOnward DEF SameListener
    <3>2. ResumingIn(v) BY <2>3, <2>4, <2>6 DEF ResumingIn
    <3> QED BY <1>2, <2>1, <2>4, <2>6, <3>1, <3>2
  <2> QED BY <2>5, <2>6
<1> QED BY <1>1, <1>2

(* The subsystem is asked to resume. *)
LEMMA ResumeFacts ==
    ASSUME NEW w \in VfuStates
    PROVE  LET r == Resume(w)
               v == r.w
           IN  /\ r.ok \in BOOLEAN
               /\ v \in VfuStates
               /\ \/ v.crash # "no" /\ w.ep.ctrlr # NoCtrlr
                  \/ /\ Onward(v, w) /\ v.ep = w.ep /\ v.ctl = w.ctl
                     /\ \/ ~r.ok /\ "resume refused" \in v.seen
                        \/ r.ok /\ w.ep.ctrlr = NoCtrlr /\ "late resume" \in v.seen
                        \/ r.ok /\ ResumingIn(v)
<1>1. CASE w.sub.busy # "none"
  <2> DEFINE v == VfuNote(w, "resume refused")
  <2>1. Resume(w) = [ok |-> FALSE, w |-> v]
    BY <1>1 DEF Resume
  <2>2. "resume refused" \in VfuNotes
    BY DEF VfuNotes
  <2>3. /\ v \in VfuStates /\ v.seen = w.seen \cup {"resume refused"}
        /\ v.ep = w.ep /\ v.ctl = w.ctl /\ v.sub = w.sub /\ v.rpc = w.rpc
        /\ v.msgs = w.msgs /\ v.left = w.left /\ v.crash = w.crash
    BY <2>2, VfuNoteFacts
  <2> HIDE DEF v
  <2>4. Onward(v, w)
    BY <2>3, OnwardSame DEF SameListener
  <2>5. Resume(w).w = v /\ Resume(w).ok = FALSE
    BY <2>1
  <2>6. "resume refused" \in v.seen
    BY <2>3
  <2> QED BY <2>3, <2>4, <2>5, <2>6
<1>2. CASE w.sub.busy = "none" /\ w.sub.st = "active"
  <2> DEFINE v == ResumeDone(w)
  <2>1. Resume(w) = [ok |-> TRUE, w |-> v]
    BY <1>2 DEF Resume
  <2>2. /\ v \in VfuStates
        /\ \/ v.crash # "no" /\ w.ep.ctrlr # NoCtrlr
           \/ /\ Onward(v, w) /\ v.ep = w.ep /\ v.ctl = w.ctl
              /\ w.ep.ctrlr = NoCtrlr => "late resume" \in v.seen
              /\ w.ep.ctrlr # NoCtrlr => ResumingIn(v)
    BY ResumeDoneFacts
  <2> HIDE DEF v
  <2>3. Resume(w).w = v /\ Resume(w).ok = TRUE
    BY <2>1
  <2> QED BY <2>2, <2>3
<1>3. CASE w.sub.busy = "none" /\ w.sub.st # "active"
  <2> DEFINE x == [w.sub EXCEPT !.busy = "vfu resume"]
             v == [w EXCEPT !.sub = x]
  <2>1. Resume(w) = [ok |-> TRUE, w |-> v]
    BY <1>3 DEF Resume
  <2>2. x \in VfuSubs /\ x.busy = "vfu resume"
    BY VfuFields DEF VfuSubs
  <2> HIDE DEF x
  <2>3. /\ v \in VfuStates /\ v.sub = x
        /\ v.ep = w.ep /\ v.ctl = w.ctl /\ v.rpc = w.rpc /\ v.msgs = w.msgs
        /\ v.left = w.left /\ v.crash = w.crash /\ v.seen = w.seen
    BY <2>2, PutVfuSub
  <2> HIDE DEF v
  <2>4. ResumingIn(v)
    BY <2>2, <2>3 DEF ResumingIn
  <2>5. QuiescingIn(w) => QuiescingIn(v)
    BY <1>3, <2>3 DEF QuiescingIn
  <2>6. Onward(v, w)
    BY <2>3, <2>4, <2>5 DEF Onward, Steady, SameListener, SameEnding
  <2>7. Resume(w).w = v /\ Resume(w).ok = TRUE
    BY <2>1
  <2> QED BY <2>3, <2>4, <2>6, <2>7
<1> QED BY <1>1, <1>2, <1>3

(* How a controller is left by a request to resume. *)
Awaited(v, g) == \/ v.ctl[g].st = "resuming" /\ ResumingIn(v)
                 \/ v.ctl[g].st = "paused" /\ "resume refused" \in v.seen

(* Two controllers that differ only in the values the protocol sets. *)
SameCtlr(c, d) == /\ c.queued = d.queued /\ c.pend = d.pend /\ c.sqs = d.sqs /\ c.disc = d.disc

(* A controller that asks its subsystem to resume. *)
LEMMA ResumeCtrlrFacts ==
    ASSUME NEW w \in VfuStates, NEW g \in CtlrIds
    PROVE  LET v == ResumeCtrlr(w, g)
           IN  /\ v \in VfuStates
               /\ \/ v.crash # "no"
                  \/ /\ Onward(v, w) /\ v.ep = w.ep /\ SameOthers(v, w, g)
                     /\ SameCtlr(v.ctl[g], w.ctl[g])
                     /\ w.ep.ctrlr = g => Awaited(v, g)
<1> DEFINE u == SetVfu(w, g, "resuming")
           r == Resume(u)
           asked == r.w
           kept == SetVfu(asked, g, "paused")
<1>1. ResumeCtrlr(w, g) = IF r.ok THEN asked ELSE kept
  BY DEF ResumeCtrlr
<1>2. /\ u \in VfuStates /\ u.ctl[g] = [w.ctl[g] EXCEPT !.st = "resuming"]
      /\ \A h \in CtlrIds \ {g} : u.ctl[h] = w.ctl[h]
      /\ u.ep = w.ep /\ u.sub = w.sub /\ u.rpc = w.rpc /\ u.msgs = w.msgs
      /\ u.left = w.left /\ u.crash = w.crash /\ u.seen = w.seen
  BY SetVfuFacts, VfuStsAre
<1>3. g # NoCtrlr /\ w.ctl[g] \in CtlrVals
  BY VfuEpFields, VfuCtl
<1>4. u.ctl[g].st = "resuming" /\ SameCtlr(u.ctl[g], w.ctl[g])
  BY <1>2, <1>3 DEF CtlrVals, SameCtlr
<1>5. Onward(u, w)
  BY <1>2, OnwardSame DEF SameListener
<1> HIDE DEF u
<1>6. /\ r.ok \in BOOLEAN
      /\ asked \in VfuStates
      /\ \/ asked.crash # "no"
         \/ /\ Onward(asked, u) /\ asked.ep = u.ep /\ asked.ctl = u.ctl
            /\ \/ ~r.ok /\ "resume refused" \in asked.seen
               \/ r.ok /\ u.ep.ctrlr = NoCtrlr /\ "late resume" \in asked.seen
               \/ r.ok /\ ResumingIn(asked)
  BY <1>2, ResumeFacts
<1> HIDE DEF r
<1> HIDE DEF asked
<1>61. ASSUME NEW y \in VfuStates
       PROVE  LET k == SetVfu(y, g, "paused")
              IN  /\ k \in VfuStates /\ k.ctl[g] = [y.ctl[g] EXCEPT !.st = "paused"]
                  /\ SameOthers(k, y, g)
                  /\ k.ep = y.ep /\ k.sub = y.sub /\ k.msgs = y.msgs
                  /\ k.crash = y.crash /\ k.seen = y.seen
  BY SetVfuFacts, VfuStsAre DEF SameOthers
<1>62. asked \in VfuStates
  BY <1>6
<1>7. /\ kept \in VfuStates /\ kept.ctl[g] = [asked.ctl[g] EXCEPT !.st = "paused"]
      /\ SameOthers(kept, asked, g)
      /\ kept.ep = asked.ep /\ kept.sub = asked.sub /\ kept.msgs = asked.msgs
      /\ kept.crash = asked.crash /\ kept.seen = asked.seen
  BY <1>61, <1>62
<1> HIDE DEF kept
<1>8. CASE asked.crash # "no"
  BY <1>1, <1>6, <1>7, <1>8
<1>9. CASE asked.crash = "no" /\ r.ok
  <2>1. Onward(asked, w)
    BY <1>5, <1>6, <1>9, OnwardTwice
  <2>2. asked.ep = w.ep /\ asked.ctl = u.ctl /\ (w.ep.ctrlr = g => ResumingIn(asked))
    BY <1>2, <1>3, <1>6, <1>9
  <2>3. SameOthers(asked, w, g) /\ SameCtlr(asked.ctl[g], w.ctl[g]) /\ (w.ep.ctrlr = g => Awaited(asked, g))
    BY <1>2, <1>4, <2>2 DEF SameOthers, Awaited
  <2>4. ResumeCtrlr(w, g) = asked
    BY <1>1, <1>9
  <2> QED BY <1>6, <2>1, <2>2, <2>3, <2>4
<1>10. CASE asked.crash = "no" /\ ~r.ok
  <2>1. Onward(asked, w)
    BY <1>5, <1>6, <1>10, OnwardTwice
  <2>2. asked.ep = w.ep /\ asked.ctl = u.ctl /\ "resume refused" \in asked.seen
    BY <1>2, <1>6, <1>10
  <2>3. Onward(kept, w)
    BY <1>7, <2>1, OnwardSame, OnwardTwice DEF SameListener
  <2>4. u.ctl[g] \in CtlrVals
    BY <1>2, VfuCtl
  <2>41. kept.ctl[g] = [u.ctl[g] EXCEPT !.st = "paused"]
    BY <1>7, <2>2
  <2>5. kept.ctl[g].st = "paused" /\ SameCtlr(kept.ctl[g], u.ctl[g])
    BY <2>4, <2>41 DEF CtlrVals, SameCtlr
  <2>6. SameCtlr(kept.ctl[g], w.ctl[g])
    BY <1>4, <2>5 DEF SameCtlr
  <2>42. \A h \in CtlrIds : h # g => h \in CtlrIds \ {g}
    OBVIOUS
  <2>43. SameOthers(asked, w, g)
    BY <1>2, <2>2, <2>42 DEF SameOthers
  <2>44. SameOthers(kept, asked, g)
    BY <1>7
  <2>7. SameOthers(kept, w, g)
    BY <2>43, <2>44 DEF SameOthers
  <2>8. Awaited(kept, g)
    BY <1>7, <2>2, <2>5 DEF Awaited
  <2> QED BY <1>1, <1>7, <1>10, <2>2, <2>3, <2>6, <2>7, <2>8
<1> QED BY <1>6, <1>8, <1>9, <1>10

(* What a request that libvfio-user runs may change. *)
Ran(v, w, g) ==
    /\ Onward(v, w) /\ SameOthers(v, w, g) /\ SameCtlr(v.ctl[g], w.ctl[g])
    /\ v.ctl[g].st \in {w.ctl[g].st, "migrating", "running"} \/ Awaited(v, g)
    /\ v.ep.needResume => w.ep.needResume \/ v.ctl[g].src
    /\ w.ctl[g].src => v.ctl[g].src \/ ResumingIn(v) \/ "resume refused" \in v.seen

(* Another value of the fields of a controller that a request sets, and of
   the endpoint's. *)
LEMMA RanPut ==
    ASSUME NEW w \in VfuStates, NEW g \in CtlrIds, NEW x \in CtlrVals, NEW e \in VfuEps,
           SameCtlr(x, w.ctl[g]), x.st \in {w.ctl[g].st, "migrating", "running"},
           e.st = w.ep.st, e.ctrlr = w.ep.ctrlr, e.poller = w.ep.poller, e.needRelisten = w.ep.needRelisten,
           e.needResume => w.ep.needResume \/ x.src, w.ctl[g].src => x.src
    PROVE  LET v == [w EXCEPT !.ctl[g] = x, !.ep = e]
           IN  v \in VfuStates /\ Ran(v, w, g)
<1> DEFINE u == [w EXCEPT !.ctl[g] = x]
           v == [u EXCEPT !.ep = e]
<1>1. /\ u \in VfuStates /\ u.ctl[g] = x /\ \A h \in CtlrIds \ {g} : u.ctl[h] = w.ctl[h]
      /\ u.ep = w.ep /\ u.sub = w.sub /\ u.rpc = w.rpc /\ u.msgs = w.msgs
      /\ u.left = w.left /\ u.crash = w.crash /\ u.seen = w.seen
  BY PutVfuCtl
<1>2. [w EXCEPT !.ctl[g] = x, !.ep = e] = v
  BY DEF VfuStates
<1> HIDE DEF u
<1>3. /\ v \in VfuStates /\ v.ep = e
      /\ v.ctl = u.ctl /\ v.sub = u.sub /\ v.rpc = u.rpc /\ v.msgs = u.msgs
      /\ v.left = u.left /\ v.crash = u.crash /\ v.seen = u.seen
  BY <1>1, PutVfuEp
<1> HIDE DEF v
<1>4. Onward(v, w)
  BY <1>1, <1>3, OnwardSame DEF SameListener
<1>5. SameOthers(v, w, g) /\ v.ctl[g] = x
  BY <1>1, <1>3 DEF SameOthers
<1>6. Ran(v, w, g)
  BY <1>3, <1>4, <1>5 DEF Ran
<1> QED BY <1>2, <1>3, <1>6

VfuMigs == {"running", "precopy", "copying", "stopped", "resuming"}

(* A client's migration state is set. *)
LEMMA RanMig ==
    ASSUME NEW w \in VfuStates, NEW g \in CtlrIds, NEW u \in VfuStates, Ran(u, w, g), NEW s \in VfuMigs
    PROVE  LET v == [u EXCEPT !.ctl[g].mig = s] IN v \in VfuStates /\ v.crash = u.crash /\ Ran(v, w, g)
<1> DEFINE x == [u.ctl[g] EXCEPT !.mig = s]
           v == [u EXCEPT !.ctl[g] = x]
<1>1. u.ctl[g] \in CtlrVals
  BY VfuCtl
<1>2. x \in CtlrVals /\ SameCtlr(x, u.ctl[g]) /\ x.st = u.ctl[g].st /\ x.src = u.ctl[g].src
  BY <1>1 DEF CtlrVals, VfuMigs, SameCtlr
<1>3. [u EXCEPT !.ctl[g].mig = s] = v
  OBVIOUS
<1> HIDE DEF x
<1>4. /\ v \in VfuStates /\ v.ctl[g] = x /\ \A h \in CtlrIds \ {g} : v.ctl[h] = u.ctl[h]
      /\ v.ep = u.ep /\ v.sub = u.sub /\ v.rpc = u.rpc /\ v.msgs = u.msgs
      /\ v.left = u.left /\ v.crash = u.crash /\ v.seen = u.seen
  BY <1>2, PutVfuCtl
<1> HIDE DEF v
<1>5. Onward(v, u)
  BY <1>4, OnwardSame DEF SameListener
<1>6. Onward(u, w) /\ SameOthers(u, w, g) /\ SameCtlr(u.ctl[g], w.ctl[g])
  BY DEF Ran
<1>7. Onward(v, w)
  BY <1>5, <1>6, OnwardTwice
<1>8. SameOthers(v, w, g)
  BY <1>4, <1>6 DEF SameOthers
<1>9. SameCtlr(v.ctl[g], w.ctl[g])
  BY <1>2, <1>4, <1>6 DEF SameCtlr
<1>10. Awaited(u, g) => Awaited(v, g)
  BY <1>2, <1>4, <1>5 DEF Awaited, Onward
<1>11. (ResumingIn(u) => ResumingIn(v)) /\ u.seen \subseteq v.seen
  BY <1>5 DEF Onward
<1>12. Ran(v, w, g)
  <2>1. v.ctl[g].st \in {w.ctl[g].st, "migrating", "running"} \/ Awaited(v, g)
    BY <1>2, <1>4, <1>10 DEF Ran
  <2>2. v.ep.needResume => w.ep.needResume \/ v.ctl[g].src
    BY <1>2, <1>4 DEF Ran
  <2>3. w.ctl[g].src => v.ctl[g].src \/ ResumingIn(v) \/ "resume refused" \in v.seen
    BY <1>2, <1>4, <1>11 DEF Ran
  <2> QED BY <1>7, <1>8, <1>9, <2>1, <2>2, <2>3 DEF Ran
<1> QED BY <1>3, <1>4, <1>12

(* A request that changes nothing. *)
LEMMA RanSelf ==
    ASSUME NEW w \in VfuStates, NEW g \in CtlrIds
    PROVE  Ran(w, w, g)
  BY OnwardSame DEF Ran, SameOthers, SameCtlr, SameListener

(* Only the state. *)
LEMMA RanSet ==
    ASSUME NEW w \in VfuStates, NEW g \in CtlrIds, NEW s \in {"migrating", "running"}
    PROVE  LET v == SetVfu(w, g, s)
           IN  /\ v \in VfuStates /\ v.crash = w.crash /\ Ran(v, w, g)
               /\ v.ep = w.ep /\ v.ctl[g].st = s
<1> DEFINE v == SetVfu(w, g, s)
<1>1. s \in VfuSts
  BY DEF VfuSts
<1>2. /\ v \in VfuStates /\ v.ctl[g] = [w.ctl[g] EXCEPT !.st = s]
      /\ \A h \in CtlrIds \ {g} : v.ctl[h] = w.ctl[h]
      /\ v.ep = w.ep /\ v.sub = w.sub /\ v.rpc = w.rpc /\ v.msgs = w.msgs
      /\ v.left = w.left /\ v.crash = w.crash /\ v.seen = w.seen
  BY <1>1, SetVfuFacts
<1> HIDE DEF v
<1>3. w.ctl[g] \in CtlrVals
  BY VfuCtl
<1>4. v.ctl[g].st = s /\ SameCtlr(v.ctl[g], w.ctl[g]) /\ v.ctl[g].src = w.ctl[g].src
  BY <1>2, <1>3 DEF CtlrVals, SameCtlr
<1>5. Onward(v, w)
  BY <1>2, OnwardSame DEF SameListener
<1>6. SameOthers(v, w, g)
  BY <1>2 DEF SameOthers
<1>7. v.ctl[g].st \in {w.ctl[g].st, "migrating", "running"}
  BY <1>4
<1>8. Ran(v, w, g)
  BY <1>2, <1>4, <1>5, <1>6, <1>7 DEF Ran
<1> QED BY <1>2, <1>4, <1>8 DEF v

(* Migration stops and copies: the controller is a source, the endpoint
   has a saved state. *)
LEMMA RanSource ==
    ASSUME NEW w \in VfuStates, NEW g \in CtlrIds
    PROVE  LET in == SetVfu(w, g, "migrating")
               v == [in EXCEPT !.ctl[g].src = TRUE, !.ep.saved = TRUE]
           IN  v \in VfuStates /\ v.crash = w.crash /\ Ran(v, w, g)
<1> DEFINE c == w.ctl[g]
           x == [c EXCEPT !.st = "migrating", !.src = TRUE]
           e == [w.ep EXCEPT !.saved = TRUE]
           v == [w EXCEPT !.ctl[g] = x, !.ep = e]
<1>1. c \in CtlrVals /\ w.ep \in VfuEps
  BY VfuCtl, VfuFields
<1>2. [SetVfu(w, g, "migrating") EXCEPT !.ctl[g].src = TRUE, !.ep.saved = TRUE] = v
  BY VfuFields DEF SetVfu, VfuStates
<1>3. x \in CtlrVals /\ SameCtlr(x, c) /\ x.st = "migrating" /\ x.src = TRUE
  BY <1>1 DEF CtlrVals, SameCtlr
<1>4. /\ e \in VfuEps /\ e.st = w.ep.st /\ e.ctrlr = w.ep.ctrlr /\ e.poller = w.ep.poller
      /\ e.needRelisten = w.ep.needRelisten /\ e.needResume = w.ep.needResume
  BY <1>1 DEF VfuEps
<1> HIDE DEF x, e
<1>5. v \in VfuStates /\ Ran(v, w, g)
  BY <1>3, <1>4, RanPut
<1>6. v.crash = w.crash
  BY <1>5 DEF Ran, Onward
<1> QED BY <1>2, <1>5, <1>6

(* A source stops: it is resumed before the endpoint serves another. *)
LEMMA RanStop ==
    ASSUME NEW w \in VfuStates, NEW g \in CtlrIds
    PROVE  LET in == SetVfu(w, g, "migrating")
               v == [in EXCEPT !.ep.needResume = @ \/ w.ctl[g].src]
           IN  v \in VfuStates /\ v.crash = w.crash /\ Ran(v, w, g)
<1> DEFINE c == w.ctl[g]
           x == [c EXCEPT !.st = "migrating"]
           n == w.ep.needResume \/ c.src
           e == [w.ep EXCEPT !.needResume = n]
           v == [w EXCEPT !.ctl[g] = x, !.ep = e]
<1>1. c \in CtlrVals /\ w.ep \in VfuEps
  BY VfuCtl, VfuFields
<1>2. [SetVfu(w, g, "migrating") EXCEPT !.ep.needResume = @ \/ w.ctl[g].src] = v
  BY VfuFields DEF SetVfu, VfuStates
<1>3. x \in CtlrVals /\ SameCtlr(x, c) /\ x.st = "migrating" /\ x.src = c.src
  BY <1>1 DEF CtlrVals, SameCtlr
<1>4. n \in BOOLEAN
  OBVIOUS
<1>5. n => w.ep.needResume \/ x.src
  BY <1>3
<1> HIDE DEF n
<1>6. /\ e \in VfuEps /\ e.st = w.ep.st /\ e.ctrlr = w.ep.ctrlr /\ e.poller = w.ep.poller
      /\ e.needRelisten = w.ep.needRelisten /\ e.needResume = n
  BY <1>1, <1>4 DEF VfuEps
<1> HIDE DEF x, e
<1>7. v \in VfuStates /\ Ran(v, w, g)
  BY <1>3, <1>5, <1>6, RanPut
<1>8. v.crash = w.crash
  BY <1>7 DEF Ran, Onward
<1> QED BY <1>2, <1>7, <1>8

(* A source runs again: the subsystem is asked to resume. *)
LEMMA RanResume ==
    ASSUME NEW w \in VfuStates, NEW g \in CtlrIds, w.ep.ctrlr = g
    PROVE  LET u == ResumeCtrlr(w, g)
               v == [u EXCEPT !.ctl[g].src = FALSE]
           IN  v \in VfuStates /\ (v.crash # "no" \/ Ran(v, w, g))
<1> DEFINE u == ResumeCtrlr(w, g)
           x == [u.ctl[g] EXCEPT !.src = FALSE]
           v == [u EXCEPT !.ctl[g] = x]
<1>1. /\ u \in VfuStates
      /\ \/ u.crash # "no"
         \/ /\ Onward(u, w) /\ u.ep = w.ep /\ SameOthers(u, w, g)
            /\ SameCtlr(u.ctl[g], w.ctl[g])
            /\ w.ep.ctrlr = g => Awaited(u, g)
  BY ResumeCtrlrFacts
<1>2. [u EXCEPT !.ctl[g].src = FALSE] = v
  OBVIOUS
<1> SUFFICES v \in VfuStates /\ (v.crash # "no" \/ Ran(v, w, g))
  BY <1>2
<1> HIDE DEF u
<1>3. u.ctl[g] \in CtlrVals
  BY <1>1, VfuCtl
<1>4. x \in CtlrVals /\ SameCtlr(x, u.ctl[g]) /\ x.st = u.ctl[g].st
  BY <1>3 DEF CtlrVals, SameCtlr
<1> HIDE DEF x
<1>5. u \in VfuStates
  BY <1>1
<1>6. /\ v \in VfuStates /\ v.ctl[g] = x /\ \A h \in CtlrIds \ {g} : v.ctl[h] = u.ctl[h]
      /\ v.ep = u.ep /\ v.sub = u.sub /\ v.rpc = u.rpc /\ v.msgs = u.msgs
      /\ v.left = u.left /\ v.crash = u.crash /\ v.seen = u.seen
  BY <1>4, <1>5, PutVfuCtl
<1> HIDE DEF v
<1>7. CASE u.crash # "no"
  BY <1>6, <1>7
<1>8. CASE u.crash = "no"
  <2>1. Onward(u, w) /\ u.ep = w.ep /\ SameOthers(u, w, g) /\ SameCtlr(u.ctl[g], w.ctl[g]) /\ Awaited(u, g)
    BY <1>1, <1>8
  <2>2. Onward(v, u)
    BY <1>6, OnwardSame DEF SameListener
  <2>3. Onward(v, w)
    BY <2>1, <2>2, OnwardTwice
  <2>4. SameOthers(v, w, g)
    BY <1>6, <2>1 DEF SameOthers
  <2>5. SameCtlr(v.ctl[g], w.ctl[g])
    BY <1>4, <1>6, <2>1 DEF SameCtlr
  <2>6. Awaited(v, g)
    BY <1>4, <1>6, <2>1, <2>2 DEF Awaited, Onward
  <2>7. ResumingIn(v) \/ "resume refused" \in v.seen
    BY <2>6 DEF Awaited
  <2>8. v.ep.needResume => w.ep.needResume
    BY <1>6, <2>1
  <2> QED BY <1>6, <2>3, <2>4, <2>5, <2>6, <2>7, <2>8 DEF Ran
<1> QED BY <1>7, <1>8

(* A migration state is reached. *)
LEMMA MigrateFacts ==
    ASSUME NEW w \in VfuStates, NEW g \in CtlrIds, w.ep.ctrlr = g, NEW s \in VfuMigs
    PROVE  LET v == Migrate(w, g, s)
           IN  v \in VfuStates /\ (v.crash # "no" \/ Ran(v, w, g))
<1> DEFINE done(u) == [u EXCEPT !.ctl[g].mig = s]
           in == SetVfu(w, g, "migrating")
           v == Migrate(w, g, s)
<1>1. ASSUME NEW u \in VfuStates, u.crash # "no" \/ Ran(u, w, g)
      PROVE  done(u) \in VfuStates /\ (done(u).crash # "no" \/ Ran(done(u), w, g))
  <2>1. u.ctl[g] \in CtlrVals
    BY VfuCtl
  <2> DEFINE x == [u.ctl[g] EXCEPT !.mig = s]
  <2>2. x \in CtlrVals
    BY <2>1 DEF CtlrVals, VfuMigs
  <2>3. done(u) = [u EXCEPT !.ctl[g] = x]
    OBVIOUS
  <2> HIDE DEF x
  <2>4. done(u) \in VfuStates /\ done(u).crash = u.crash
    BY <2>2, <2>3, PutVfuCtl
  <2>5. Ran(u, w, g) => Ran(done(u), w, g)
    BY RanMig
  <2> HIDE DEF done
  <2> QED BY <1>1, <2>4, <2>5
<1>2. in \in VfuStates /\ Ran(in, w, g)
  BY RanSet
<1>3. w \in VfuStates /\ Ran(w, w, g)
  BY RanSelf
<1>4. \A why \in VfuCrashes : why # "no" => VfuCrash(w, why) \in VfuStates /\ VfuCrash(w, why).crash # "no"
  BY VfuCrashFacts
<1>5. CASE s = "copying"
  <2> DEFINE u == [in EXCEPT !.ctl[g].src = TRUE, !.ep.saved = TRUE]
  <2>1. u \in VfuStates /\ Ran(u, w, g)
    BY RanSource
  <2>2. v = done(u)
    BY <1>5 DEF Migrate
  <2> HIDE DEF u, v, done
  <2> QED BY <1>1, <2>1, <2>2 DEF v
<1>6. CASE s = "stopped"
  <2> DEFINE u == [in EXCEPT !.ep.needResume = @ \/ w.ctl[g].src]
  <2>1. u \in VfuStates /\ Ran(u, w, g)
    BY RanStop
  <2>2. v = done(u)
    BY <1>6 DEF Migrate
  <2> HIDE DEF u, v, done
  <2> QED BY <1>1, <2>1, <2>2 DEF v
<1>7. CASE s = "precopy"
  <2>1. v = done(w) \/ v = VfuCrash(w, "not paused")
    BY <1>7 DEF Migrate
  <2>2. "not paused" \in VfuCrashes
    BY DEF VfuCrashes
  <2> HIDE DEF v, done
  <2> QED BY <1>1, <1>3, <1>4, <2>1, <2>2 DEF v
<1>8. CASE s = "resuming"
  <2>1. v = done(w) \/ v = VfuCrash(w, "source") \/ v = done(in)
    BY <1>8 DEF Migrate
  <2>2. "source" \in VfuCrashes
    BY DEF VfuCrashes
  <2> HIDE DEF v, done, in
  <2> QED BY <1>1, <1>2, <1>3, <1>4, <2>1, <2>2 DEF v
<1>9. CASE s = "running" /\ w.ctl[g].st # "migrating"
  <2>1. v = done(w)
    BY <1>9 DEF Migrate
  <2> HIDE DEF v, done
  <2> QED BY <1>1, <1>3, <2>1 DEF v
<1>10. CASE s = "running" /\ w.ctl[g].st = "migrating" /\ ~w.ctl[g].src /\ ~w.ep.saved
  <2>1. v = w
    BY <1>10 DEF Migrate
  <2> HIDE DEF v
  <2> QED BY <1>3, <2>1 DEF v
<1>11. CASE s = "running" /\ w.ctl[g].st = "migrating" /\ ~w.ctl[g].src /\ w.ep.saved
  <2> DEFINE u == SetVfu(w, g, "running")
  <2>1. u \in VfuStates /\ Ran(u, w, g)
    BY RanSet
  <2>2. v = done(u)
    BY <1>11 DEF Migrate
  <2> HIDE DEF u, v, done
  <2> QED BY <1>1, <2>1, <2>2 DEF v
<1>12. CASE s = "running" /\ w.ctl[g].st = "migrating" /\ w.ctl[g].src
  <2> DEFINE u == [ResumeCtrlr(w, g) EXCEPT !.ctl[g].src = FALSE]
  <2>1. u \in VfuStates /\ (u.crash # "no" \/ Ran(u, w, g))
    BY RanResume
  <2>2. v = done(u)
    BY <1>12 DEF Migrate
  <2> HIDE DEF u, v, done
  <2> QED BY <1>1, <2>1, <2>2 DEF v
<1> QED BY <1>5, <1>6, <1>7, <1>8, <1>9, <1>10, <1>11, <1>12 DEF VfuMigs

(* A request is run. *)
LEMMA RunRequestFacts ==
    ASSUME NEW w \in VfuStates, NEW g \in CtlrIds, w.ep.ctrlr = g, NEW kind \in VfuRequestKinds
    PROVE  LET v == RunRequest(w, g, kind)
           IN  v \in VfuStates /\ (v.crash # "no" \/ Ran(v, w, g))
<1>1. CASE kind = "dma"
  <2>1. RunRequest(w, g, kind) = w
    BY <1>1 DEF RunRequest
  <2> QED BY <2>1, RanSelf
<1>2. CASE kind = "lost"
  <2> DEFINE c == w.ctl[g]
             x == [c EXCEPT !.lost = TRUE]
             v == [w EXCEPT !.ctl[g] = x]
  <2>1. RunRequest(w, g, kind) = v
    BY <1>2 DEF RunRequest
  <2>2. c \in CtlrVals
    BY VfuCtl
  <2>3. x \in CtlrVals /\ SameCtlr(x, c) /\ x.st = c.st /\ x.src = c.src
    BY <2>2 DEF CtlrVals, SameCtlr
  <2> HIDE DEF x
  <2>4. /\ v \in VfuStates /\ v.ctl[g] = x /\ \A h \in CtlrIds \ {g} : v.ctl[h] = w.ctl[h]
        /\ v.ep = w.ep /\ v.sub = w.sub /\ v.rpc = w.rpc /\ v.msgs = w.msgs
        /\ v.left = w.left /\ v.crash = w.crash /\ v.seen = w.seen
    BY <2>3, PutVfuCtl
  <2> HIDE DEF v
  <2>5. Onward(v, w) /\ SameOthers(v, w, g)
    BY <2>4, OnwardSame DEF SameListener, SameOthers
  <2>6. Ran(v, w, g)
    BY <2>3, <2>4, <2>5 DEF Ran
  <2> QED BY <2>1, <2>4, <2>6
<1>3. CASE kind \notin {"dma", "lost"}
  <2>1. kind \in VfuMigs
    BY <1>3 DEF VfuMigs, VfuRequestKinds
  <2>2. RunRequest(w, g, kind) = Migrate(w, g, kind)
    BY <1>3 DEF RunRequest
  <2> QED BY <2>1, <2>2, MigrateFacts
<1> QED BY <1>1, <1>2, <1>3

(* A message is taken. *)
LEMMA TakeFacts ==
    ASSUME NEW u \in VfuStates, NEW m \in VfuMsgs
    PROVE  LET w == [u EXCEPT !.msgs = @ \ {m}]
           IN  /\ w \in VfuStates /\ w.msgs = u.msgs \ {m}
               /\ w.ep = u.ep /\ w.ctl = u.ctl /\ w.sub = u.sub /\ w.rpc = u.rpc
               /\ w.left = u.left /\ w.crash = u.crash /\ w.seen = u.seen
               /\ ~Ending(m.k) => Steady(w, u)
               /\ m.k # "resumed" => (ResumingIn(w) <=> ResumingIn(u))
               /\ m.k \notin {"group", "quiesced"} => (QuiescingIn(w) <=> QuiescingIn(u))
<1> DEFINE x == u.msgs \ {m}
           w == [u EXCEPT !.msgs = x]
<1>1. x \in SUBSET VfuMsgs
  BY VfuFields
<1>2. [u EXCEPT !.msgs = @ \ {m}] = w
  BY DEF VfuStates
<1> SUFFICES /\ w \in VfuStates /\ w.msgs = u.msgs \ {m}
             /\ w.ep = u.ep /\ w.ctl = u.ctl /\ w.sub = u.sub /\ w.rpc = u.rpc
             /\ w.left = u.left /\ w.crash = u.crash /\ w.seen = u.seen
             /\ ~Ending(m.k) => Steady(w, u)
             /\ m.k # "resumed" => (ResumingIn(w) <=> ResumingIn(u))
             /\ m.k \notin {"group", "quiesced"} => (QuiescingIn(w) <=> QuiescingIn(u))
  BY <1>2
<1>3. x = u.msgs \ {m}
  OBVIOUS
<1> HIDE DEF x
<1>4. /\ w \in VfuStates /\ w.msgs = x
      /\ w.ep = u.ep /\ w.ctl = u.ctl /\ w.sub = u.sub /\ w.rpc = u.rpc
      /\ w.left = u.left /\ w.crash = u.crash /\ w.seen = u.seen
  BY <1>1, PutVfuMsgs
<1> HIDE DEF w
<1>5. ~Ending(m.k) => Steady(w, u)
  BY <1>3, <1>4 DEF Steady, SameListener, SameEnding
<1>6. m.k # "resumed" => (ResumingIn(w) <=> ResumingIn(u))
  BY <1>3, <1>4 DEF ResumingIn
<1>7. m.k \notin {"group", "quiesced"} => (QuiescingIn(w) <=> QuiescingIn(u))
  BY <1>3, <1>4 DEF QuiescingIn
<1> QED BY <1>3, <1>4, <1>5, <1>6, <1>7

(* The request that a controller is paused for is run. *)
LEMMA PausedRuns ==
    ASSUME NEW w \in VfuStates, NEW g \in CtlrIds, w.ep.ctrlr = g, w.ctl[g].pend \in VfuRequestKinds
    PROVE  LET kind == w.ctl[g].pend
               paused == [SetVfu(w, g, "paused") EXCEPT !.ctl[g].pend = "none"]
               ran == IF kind = "none" THEN paused ELSE RunRequest(paused, g, kind)
               next == [ran EXCEPT !.ctl[g].queued = FALSE]
           IN  /\ next \in VfuStates
               /\ \/ next.crash # "no"
                  \/ /\ Onward(next, w) /\ SameOthers(next, w, g)
                     /\ next.ctl[g].sqs = w.ctl[g].sqs /\ next.ctl[g].disc = w.ctl[g].disc
                     /\ next.ctl[g].pend = "none" /\ next.ctl[g].queued = FALSE
                     /\ next.ep.needResume => w.ep.needResume \/ next.ctl[g].src
                     /\ w.ctl[g].src => next.ctl[g].src \/ ResumingIn(next) \/ "resume refused" \in next.seen
<1> DEFINE kind == w.ctl[g].pend
           x == [w.ctl[g] EXCEPT !.st = "paused", !.pend = "none"]
           paused == [w EXCEPT !.ctl[g] = x]
           ran == RunRequest(paused, g, kind)
           y == [ran.ctl[g] EXCEPT !.queued = FALSE]
           next == [ran EXCEPT !.ctl[g] = y]
<1>1. kind \in VfuRequestKinds /\ kind # "none"
  BY DEF VfuRequestKinds
<1>2. [SetVfu(w, g, "paused") EXCEPT !.ctl[g].pend = "none"] = paused
  BY VfuFields DEF SetVfu, VfuStates
<1>3. w.ctl[g] \in CtlrVals
  BY VfuCtl
<1>4. /\ x \in CtlrVals /\ x.queued = w.ctl[g].queued /\ x.pend = "none" /\ x.src = w.ctl[g].src
      /\ x.sqs = w.ctl[g].sqs /\ x.disc = w.ctl[g].disc
  BY <1>3 DEF CtlrVals
<1> HIDE DEF x
<1>5. /\ paused \in VfuStates /\ paused.ctl[g] = x /\ \A h \in CtlrIds \ {g} : paused.ctl[h] = w.ctl[h]
      /\ paused.ep = w.ep /\ paused.sub = w.sub /\ paused.rpc = w.rpc /\ paused.msgs = w.msgs
      /\ paused.left = w.left /\ paused.crash = w.crash /\ paused.seen = w.seen
  BY <1>4, PutVfuCtl
<1>6. LET p == [SetVfu(w, g, "paused") EXCEPT !.ctl[g].pend = "none"]
          r == IF kind = "none" THEN p ELSE RunRequest(p, g, kind)
      IN  [r EXCEPT !.ctl[g].queued = FALSE] = next
  BY <1>1, <1>2
<1> HIDE DEF paused, kind
<1>7. paused \in VfuStates /\ paused.ep.ctrlr = g
  BY <1>5
<1>8. ran \in VfuStates /\ (ran.crash # "no" \/ Ran(ran, paused, g))
  BY <1>1, <1>7, RunRequestFacts
<1> HIDE DEF ran
<1>9. ran.ctl[g] \in CtlrVals
  BY <1>8, VfuCtl
<1>10. /\ y \in CtlrVals /\ y.queued = FALSE /\ y.pend = ran.ctl[g].pend /\ y.src = ran.ctl[g].src
       /\ y.sqs = ran.ctl[g].sqs /\ y.disc = ran.ctl[g].disc
  BY <1>9 DEF CtlrVals
<1> HIDE DEF y
<1>11. /\ next \in VfuStates /\ next.ctl[g] = y /\ \A h \in CtlrIds \ {g} : next.ctl[h] = ran.ctl[h]
       /\ next.ep = ran.ep /\ next.sub = ran.sub /\ next.rpc = ran.rpc /\ next.msgs = ran.msgs
       /\ next.left = ran.left /\ next.crash = ran.crash /\ next.seen = ran.seen
  BY <1>8, <1>10, PutVfuCtl
<1> HIDE DEF next
<1>12. CASE ran.crash # "no"
  <2>1. next \in VfuStates /\ next.crash # "no"
    BY <1>11, <1>12
  <2> QED BY <1>6, <2>1 DEF kind
<1>13. CASE Ran(ran, paused, g)
  <2>1. Onward(ran, paused) /\ SameOthers(ran, paused, g) /\ SameCtlr(ran.ctl[g], paused.ctl[g])
    BY <1>13 DEF Ran
  <2>2. Onward(next, ran) /\ Onward(paused, w)
    BY <1>5, <1>8, <1>11, OnwardSame DEF SameListener
  <2>3. Onward(next, w)
    BY <2>1, <2>2, OnwardTwice
  <2>4. SameOthers(next, w, g)
    BY <1>5, <1>11, <2>1 DEF SameOthers
  <2>5. next.ctl[g].sqs = w.ctl[g].sqs /\ next.ctl[g].disc = w.ctl[g].disc
    BY <1>4, <1>5, <1>10, <1>11, <2>1 DEF SameCtlr
  <2>6. next.ctl[g].pend = "none" /\ next.ctl[g].queued = FALSE
    BY <1>4, <1>5, <1>10, <1>11, <2>1 DEF SameCtlr
  <2>7. next.ep.needResume => w.ep.needResume \/ next.ctl[g].src
    BY <1>5, <1>10, <1>11, <1>13 DEF Ran
  <2>8. w.ctl[g].src => next.ctl[g].src \/ ResumingIn(next) \/ "resume refused" \in next.seen
    BY <1>4, <1>5, <1>10, <1>11, <1>13, <2>2 DEF Ran, Onward
  <2> QED BY <1>6, <1>11, <2>3, <2>4, <2>5, <2>6, <2>7, <2>8 DEF kind
<1> QED BY <1>8, <1>12, <1>13

(* vfio_user_quiesce_done. *)
LEMMA QuiesceDoneSound ==
    ASSUME NEW u, VfuSound(u), NEW m \in u.msgs, m.k = "quiesced"
    PROVE  VfuInv(QuiesceDone([u EXCEPT !.msgs = @ \ {m}]))
<1> DEFINE w == [u EXCEPT !.msgs = @ \ {m}]
           g == w.ep.ctrlr
           v == QuiesceDone(w)
<1>1. u \in VfuStates /\ m \in VfuMsgs /\ ~Ending(m.k)
  BY VfuFields DEF VfuSound, Ending
<1>2. /\ w \in VfuStates /\ w.msgs = u.msgs \ {m}
      /\ w.ep = u.ep /\ w.ctl = u.ctl /\ w.sub = u.sub /\ w.rpc = u.rpc
      /\ w.left = u.left /\ w.crash = u.crash /\ w.seen = u.seen
      /\ Steady(w, u)
      /\ ResumingIn(w) <=> ResumingIn(u)
  BY <1>1, TakeFacts
<1> HIDE DEF w
<1>3. ResumeSound(u) /\ ResumeSound(w)
  BY <1>2 DEF VfuSound, ResumeSound
<1> SUFFICES VfuInv(v)
  BY DEF w, v
<1>5. (g # NoCtrlr => g \in CtlrIds) /\ g = u.ep.ctrlr
  BY <1>2, VfuEpFields
<1>6. CASE g = NoCtrlr
  <2>1. v = w
    BY <1>6 DEF QuiesceDone
  <2>2. VfuSound(w)
    BY <1>2, <1>3, <1>5, <1>6, SteadySound
  <2> QED BY <2>1, <2>2 DEF VfuInv
<1>7. CASE g # NoCtrlr /\ w.ctl[g].st # "pausing"
  <2>1. v = VfuCrash(w, "not pausing")
    BY <1>7 DEF QuiesceDone
  <2>2. "not pausing" \in VfuCrashes
    BY DEF VfuCrashes
  <2> QED BY <1>2, <2>1, <2>2, VfuCrashFacts DEF VfuInv
<1>8. CASE g # NoCtrlr /\ w.ctl[g].st = "pausing"
  <2> DEFINE kind == w.ctl[g].pend
             paused == [SetVfu(w, g, "paused") EXCEPT !.ctl[g].pend = "none"]
             ran == IF kind = "none" THEN paused ELSE RunRequest(paused, g, kind)
             next == [ran EXCEPT !.ctl[g].queued = FALSE]
  <2>1. v = IF next.ctl[g].st = "migrating" THEN next ELSE ResumeCtrlr(next, g)
    BY <1>8 DEF QuiesceDone
  <2>2. g \in CtlrIds /\ CtlrSound(u, g)
    BY <1>5, <1>8 DEF VfuSound
  <2>3. w.ctl[g].pend \in VfuRequestKinds /\ u.ctl[g].disc \subseteq u.ctl[g].sqs
    BY <1>2, <1>8, <2>2 DEF CtlrSound
  <2> HIDE DEF g
  <2>4. /\ next \in VfuStates
        /\ \/ next.crash # "no"
           \/ /\ Onward(next, w) /\ SameOthers(next, w, g)
              /\ next.ctl[g].sqs = w.ctl[g].sqs /\ next.ctl[g].disc = w.ctl[g].disc
              /\ next.ctl[g].pend = "none" /\ next.ctl[g].queued = FALSE
              /\ next.ep.needResume => w.ep.needResume \/ next.ctl[g].src
              /\ w.ctl[g].src => next.ctl[g].src \/ ResumingIn(next) \/ "resume refused" \in next.seen
    BY <1>2, <2>2, <2>3, PausedRuns DEF g
  <2> HIDE DEF next, v
  <2>5. /\ ResumeCtrlr(next, g) \in VfuStates
        /\ \/ ResumeCtrlr(next, g).crash # "no"
           \/ /\ Onward(ResumeCtrlr(next, g), next) /\ ResumeCtrlr(next, g).ep = next.ep
              /\ SameOthers(ResumeCtrlr(next, g), next, g)
              /\ SameCtlr(ResumeCtrlr(next, g).ctl[g], next.ctl[g])
              /\ next.ep.ctrlr = g => Awaited(ResumeCtrlr(next, g), g)
    BY <2>2, <2>4, ResumeCtrlrFacts
  <2>6. CASE next.crash # "no"
    <3>1. ResumeCtrlr(next, g).crash # "no" BY <2>5, <2>6 DEF Onward
    <3> QED BY <2>1, <2>6, <3>1 DEF VfuInv
  <2>7. CASE next.crash = "no"
    <3>1. /\ Onward(next, w) /\ SameOthers(next, w, g)
          /\ next.ctl[g].sqs = w.ctl[g].sqs /\ next.ctl[g].disc = w.ctl[g].disc
          /\ next.ctl[g].pend = "none" /\ next.ctl[g].queued = FALSE
          /\ next.ep.needResume => w.ep.needResume \/ next.ctl[g].src
          /\ w.ctl[g].src => next.ctl[g].src \/ ResumingIn(next) \/ "resume refused" \in next.seen
      BY <2>4, <2>7
    <3>2. next.ep.ctrlr = g BY <3>1 DEF g, Onward, Steady, SameListener
    <3> DEFINE k == ResumeCtrlr(next, g)
    <3>3. CASE next.ctl[g].st = "migrating"
        <4>1. v = next BY <2>1, <3>3
        <4>2. Steady(next, u) BY <1>2, <3>1, SteadyTwice DEF Onward
        <4>3. w.seen \subseteq next.seen /\ (ResumingIn(w) => ResumingIn(next))
          BY <3>1 DEF Onward
        <4>9. w.ep.ctrlr = g /\ g # NoCtrlr BY <1>8 DEF g
        <4>10. w.ep.needResume => w.ctl[g].src \/ ResumingIn(w) \/ "late resume" \in w.seen \/ "resume refused" \in w.seen
          BY <1>3, <4>9 DEF ResumeSound
        <4>4. ResumeSound(next) BY <3>1, <3>2, <4>3, <4>9, <4>10 DEF ResumeSound
        <4>5. WaitSound(next, g) BY <3>1, <3>3 DEF WaitSound
        <4>11. \A h \in CtlrIds : h # g => next.ctl[h] = u.ctl[h]
          BY <1>2, <3>1 DEF SameOthers
        <4>12. next.ctl[g].pend = "none" /\ next.ctl[g].queued = FALSE
               /\ next.ctl[g].sqs = w.ctl[g].sqs /\ next.ctl[g].disc = w.ctl[g].disc
          BY <3>1
        <4>6. VfuSound(next)
          BY <1>2, <1>5, <2>3, <3>3, <4>2, <4>4, <4>5, <4>11, <4>12, SteadySound
        <4> QED BY <4>1, <4>6 DEF VfuInv
    <3>4. CASE next.ctl[g].st # "migrating" /\ k.crash # "no"
      BY <2>1, <3>4 DEF VfuInv
    <3>5. CASE next.ctl[g].st # "migrating" /\ k.crash = "no"
        <4>1. v = k BY <2>1, <3>5
        <4>2. /\ k \in VfuStates /\ Onward(k, next) /\ k.ep = next.ep /\ SameOthers(k, next, g)
              /\ SameCtlr(k.ctl[g], next.ctl[g]) /\ Awaited(k, g)
          BY <2>5, <3>2, <3>5
        <4> HIDE DEF k
        <4>3. Steady(k, u) BY <1>2, <3>1, <4>2, SteadyTwice DEF Onward
        <4>4. ResumeSound(k) BY <4>2 DEF Awaited, ResumeSound
        <4>5. k.ctl[g].pend = "none" /\ k.ctl[g].queued = FALSE /\ k.ctl[g].st \in {"resuming", "paused"}
              /\ k.ctl[g].sqs = w.ctl[g].sqs /\ k.ctl[g].disc = w.ctl[g].disc
          BY <3>1, <4>2 DEF SameCtlr, Awaited
        <4>6. WaitSound(k, g) BY <4>2, <4>5 DEF WaitSound, Awaited
        <4>7. \A h \in CtlrIds : h # g => k.ctl[h] = u.ctl[h]
          BY <1>2, <3>1, <4>2 DEF SameOthers
        <4>8. VfuSound(k) BY <1>2, <1>5, <2>3, <4>3, <4>4, <4>5, <4>6, <4>7, SteadySound
        <4> QED BY <4>1, <4>8 DEF VfuInv
    <3> QED BY <3>3, <3>4, <3>5
  <2> QED BY <2>6, <2>7
<1> QED BY <1>6, <1>7, <1>8

(* What CtlrSound says of the controller that has the endpoint. *)
LEMMA CurrentCtlr ==
    ASSUME NEW u, VfuSound(u), u.ep.ctrlr # NoCtrlr
    PROVE  LET g == u.ep.ctrlr
               c == u.ctl[g]
           IN  /\ g \in CtlrIds /\ c \in CtlrVals /\ c.st \notin {"none", "freeing", "freed"}
               /\ c.disc \subseteq c.sqs /\ (c.st = "creating" => c.sqs = {})
               /\ c.st = "pausing" \/ c.queued => c.pend \in VfuRequestKinds
               /\ WaitSound(u, g)
<1> DEFINE g == u.ep.ctrlr
<1>1. u \in VfuStates
  BY DEF VfuSound
<1>2. g \in CtlrIds
  BY <1>1, VfuEpFields
<1>3. u.ctl[g] \in CtlrVals
  BY <1>1, <1>2, VfuCtl
<1>4. CtlrSound(u, g) /\ WaitSound(u, g)
  BY <1>2 DEF VfuSound
<1> QED BY <1>2, <1>3, <1>4 DEF CtlrSound

(* The controllers stay as they are, and what is waited for goes on. *)
LEMMA SameCtlSound ==
    ASSUME NEW u, VfuSound(u), NEW v, Steady(v, u), v.ctl = u.ctl, v.ep.needResume => u.ep.needResume,
           u.seen \subseteq v.seen,
           u.ep.ctrlr # NoCtrlr => (QuiescingIn(u) => QuiescingIn(v)) /\ (ResumingIn(u) => ResumingIn(v)),
           ResumingIn(u) => ResumingIn(v) \/ "late resume" \in v.seen
    PROVE  VfuSound(v)
<1> DEFINE g == u.ep.ctrlr
<1>1. v.ep.ctrlr = g
  BY DEF Steady, SameListener
<1>2. ResumeSound(v)
  BY <1>1 DEF VfuSound, ResumeSound
<1>3. ASSUME g # NoCtrlr
      PROVE  LET c == v.ctl[g] IN
             /\ c.st \notin {"none", "freeing", "freed"} /\ c.disc \subseteq c.sqs
             /\ c.disc = u.ctl[g].disc
             /\ c.st = "creating" => c.sqs = {}
             /\ c.st = "pausing" \/ c.queued => c.pend \in VfuRequestKinds
             /\ WaitSound(v, g)
  <2>1. /\ u.ctl[g].st \notin {"none", "freeing", "freed"}
        /\ u.ctl[g].disc \subseteq u.ctl[g].sqs /\ (u.ctl[g].st = "creating" => u.ctl[g].sqs = {})
        /\ u.ctl[g].st = "pausing" \/ u.ctl[g].queued => u.ctl[g].pend \in VfuRequestKinds
        /\ WaitSound(u, g)
    BY <1>3, CurrentCtlr
  <2>2. WaitSound(v, g)
    BY <1>3, <2>1 DEF WaitSound
  <2> QED BY <2>1, <2>2
<1> QED BY <1>2, <1>3, SteadySound

(* The subsystem is paused. *)
LEMMA PauseDoneFacts ==
    ASSUME NEW w \in VfuStates
    PROVE  LET v == PauseDone(w)
           IN  /\ v \in VfuStates
               /\ \/ v.crash # "no"
                  \/ /\ Onward(v, w) /\ v.ep = w.ep /\ v.ctl = w.ctl
                     /\ w.ep.ctrlr # NoCtrlr => QuiescingIn(v)
<1>1. CASE w.ep.ctrlr = NoCtrlr
  <2>1. PauseDone(w) = w
    BY <1>1 DEF PauseDone
  <2> QED BY <1>1, <2>1, OnwardSame DEF SameListener
<1>2. CASE w.ep.ctrlr # NoCtrlr
  <2> DEFINE m == [k |-> "quiesced"]
             v == VfuSendCtrlr(w, m)
  <2>1. PauseDone(w) = v
    BY <1>2 DEF PauseDone
  <2>2. m \in VfuMsgs
    BY ProtocolMsgs
  <2>3. m.k = "quiesced" /\ ~Ending(m.k)
    BY DEF Ending
  <2> HIDE DEF m
  <2>4. /\ v \in VfuStates
        /\ \/ v.crash # "no"
           \/ /\ v.msgs = w.msgs \cup {m}
              /\ v.ep = w.ep /\ v.ctl = w.ctl /\ v.sub = w.sub /\ v.rpc = w.rpc
              /\ v.left = w.left /\ v.crash = w.crash /\ v.seen = w.seen
    BY <2>2, VfuSendCtrlrFacts
  <2> HIDE DEF v
  <2>5. CASE v.crash # "no"
    BY <2>1, <2>4, <2>5
  <2>6. CASE ~(v.crash # "no")
    <3>1. Onward(v, w) BY <2>2, <2>3, <2>4, <2>6, SendOnward DEF SameListener
    <3>2. QuiescingIn(v) BY <2>3, <2>4, <2>6 DEF QuiescingIn
    <3> QED BY <1>2, <2>1, <2>4, <2>6, <3>1, <3>2
  <2> QED BY <2>5, <2>6
<1> QED BY <1>1, <1>2

(* vfio_user_quiesce_pg. *)
LEMMA QuiesceGroupSound ==
    ASSUME NEW u, VfuSound(u), NEW m \in u.msgs, m.k = "group"
    PROVE  VfuInv(QuiesceGroup([u EXCEPT !.msgs = @ \ {m}], m.n))
<1> DEFINE w == [u EXCEPT !.msgs = @ \ {m}]
           g == w.ep.ctrlr
           n == m.n
           v == QuiesceGroup(w, n)
<1>1. u \in VfuStates /\ m \in VfuMsgs /\ ~Ending(m.k) /\ n \in 1 .. VfuGroups
  <2>1. u \in VfuStates /\ m \in VfuMsgs
    BY VfuFields DEF VfuSound
  <2>2. n \in 1 .. VfuGroups
    BY <2>1 DEF VfuMsgs
  <2> QED BY <2>1, <2>2 DEF Ending
<1>2. /\ w \in VfuStates /\ w.msgs = u.msgs \ {m}
      /\ w.ep = u.ep /\ w.ctl = u.ctl /\ w.sub = u.sub /\ w.rpc = u.rpc
      /\ w.left = u.left /\ w.crash = u.crash /\ w.seen = u.seen
      /\ Steady(w, u)
      /\ ResumingIn(w) <=> ResumingIn(u)
  BY <1>1, TakeFacts
<1> HIDE DEF w
<1> SUFFICES VfuInv(v)
  BY DEF w, v
<1> HIDE DEF n
<1>3. (g # NoCtrlr => g \in CtlrIds) /\ g = u.ep.ctrlr
  BY <1>2, VfuEpFields
<1>4. ASSUME NEW y, Onward(y, w), y.ep = w.ep, y.ctl = w.ctl, g # NoCtrlr => QuiescingIn(y)
      PROVE  VfuSound(y)
  <2>1. Steady(y, u)
    BY <1>2, <1>4, SteadyTwice DEF Onward
  <2>2. (ResumingIn(u) => ResumingIn(y)) /\ u.seen \subseteq y.seen
    BY <1>2, <1>4 DEF Onward
  <2> QED BY <1>2, <1>3, <1>4, <2>1, <2>2, SameCtlSound
<1>5. CASE g = NoCtrlr
  <2>1. v = w
    BY <1>5 DEF QuiesceGroup
  <2>2. Onward(w, w)
    BY <1>2, OnwardSame DEF SameListener
  <2>3. VfuSound(w)
    BY <1>4, <1>5, <2>2
  <2> QED BY <2>1, <2>3 DEF VfuInv
<1>6. CASE g # NoCtrlr /\ n > 1
  <2> DEFINE s == [k |-> "group", n |-> n - 1]
             y == VfuSend(w, s)
  <2> n # 1
    BY <1>1, <1>6
  <2>1. v = y
    BY <1>6 DEF QuiesceGroup
  <2>2. n - 1 \in 1 .. VfuGroups
    BY <1>1, <1>6, VfuCountsAssumption
  <2>3. s \in VfuMsgs
    BY <2>2, ProtocolMsgs
  <2>4. s.k = "group" /\ ~Ending(s.k)
    BY DEF Ending
  <2> HIDE DEF s
  <2>5. /\ y \in VfuStates /\ y.msgs = w.msgs \cup {s}
        /\ y.ep = w.ep /\ y.ctl = w.ctl /\ y.sub = w.sub /\ y.rpc = w.rpc
        /\ y.left = w.left /\ y.crash = w.crash /\ y.seen = w.seen
    BY <1>2, <2>3, VfuSendFacts
  <2> HIDE DEF y
  <2>6. Onward(y, w)
    BY <1>2, <2>3, <2>4, <2>5, SendOnward DEF SameListener
  <2>7. QuiescingIn(y)
    BY <2>4, <2>5 DEF QuiescingIn
  <2>8. VfuSound(y)
    BY <1>4, <2>5, <2>6, <2>7
  <2> QED BY <2>1, <2>8 DEF VfuInv
<1>7. CASE g # NoCtrlr /\ n = 1 /\ w.sub.busy # "none"
  <2> DEFINE r == SetVfu(w, g, "running")
             y == VfuNote(r, "pause refused")
  <2> ~(n > 1)
    BY <1>7
  <2>1. v = y
    BY <1>7 DEF QuiesceGroup
  <2>2. g \in CtlrIds
    BY <1>3, <1>7
  <2>3. /\ r \in VfuStates /\ r.ctl[g] = [w.ctl[g] EXCEPT !.st = "running"]
        /\ \A h \in CtlrIds \ {g} : r.ctl[h] = w.ctl[h]
        /\ r.ep = w.ep /\ r.sub = w.sub /\ r.rpc = w.rpc /\ r.msgs = w.msgs
        /\ r.left = w.left /\ r.crash = w.crash /\ r.seen = w.seen
    BY <1>2, <2>2, SetVfuFacts, VfuStsAre
  <2> HIDE DEF r
  <2>4. "pause refused" \in VfuNotes /\ r \in VfuStates
    BY <2>3 DEF VfuNotes
  <2>5. /\ y \in VfuStates /\ y.seen = r.seen \cup {"pause refused"}
        /\ y.ep = r.ep /\ y.ctl = r.ctl /\ y.sub = r.sub /\ y.rpc = r.rpc
        /\ y.msgs = r.msgs /\ y.left = r.left /\ y.crash = r.crash
    BY <2>4, VfuNoteFacts
  <2> HIDE DEF y
  <2>6. Onward(y, w)
    <3>1. Onward(r, w) BY <2>3, OnwardSame DEF SameListener
    <3>2. Onward(y, r) BY <2>5, OnwardSame DEF SameListener
    <3> QED BY <3>1, <3>2, OnwardTwice
  <2>7. Steady(y, u) /\ (ResumingIn(u) => ResumingIn(y)) /\ u.seen \subseteq y.seen /\ "pause refused" \in y.seen
    BY <1>2, <2>5, <2>6, SteadyTwice DEF Onward
  <2>8. /\ u.ctl[g] \in CtlrVals /\ u.ctl[g].disc \subseteq u.ctl[g].sqs
        /\ u.ctl[g].st = "pausing" \/ u.ctl[g].queued => u.ctl[g].pend \in VfuRequestKinds
    BY <1>3, <1>7, CurrentCtlr
  <2>9. /\ y.ctl[g].st = "running" /\ y.ctl[g].disc = u.ctl[g].disc /\ y.ctl[g].sqs = u.ctl[g].sqs
        /\ y.ctl[g].queued = u.ctl[g].queued /\ y.ctl[g].pend = u.ctl[g].pend /\ y.ctl[g].src = u.ctl[g].src
    <3>1. y.ctl[g] = [u.ctl[g] EXCEPT !.st = "running"] /\ u.ctl[g] \in CtlrVals
      BY <1>2, <2>3, <2>5, <2>8
    <3> QED BY <3>1 DEF CtlrVals
  <2>10. WaitSound(y, g)
    BY <2>7, <2>9 DEF WaitSound
  <2>11. ResumeSound(y)
    <3>1. y.ep = u.ep /\ ResumeSound(u) BY <1>2, <2>3, <2>5 DEF VfuSound
    <3> QED BY <1>3, <2>7, <2>9, <3>1 DEF ResumeSound
  <2>12. \A h \in CtlrIds : h # g => y.ctl[h] = u.ctl[h]
    <3>1. \A h \in CtlrIds : h # g => h \in CtlrIds \ {g} OBVIOUS
    <3>2. \A h \in CtlrIds : h # g => r.ctl[h] = w.ctl[h] BY <2>3, <3>1
    <3> QED BY <1>2, <2>5, <3>2
  <2>13. VfuSound(y)
    BY <1>3, <2>7, <2>8, <2>9, <2>10, <2>11, <2>12, SteadySound
  <2> QED BY <2>1, <2>13 DEF VfuInv
<1>8. CASE g # NoCtrlr /\ n = 1 /\ w.sub.busy = "none" /\ w.sub.st # "active"
  <2> DEFINE y == PauseDone(w)
  <2>1. v = y
    BY <1>8 DEF QuiesceGroup
  <2>2. /\ y \in VfuStates
        /\ \/ y.crash # "no"
           \/ /\ Onward(y, w) /\ y.ep = w.ep /\ y.ctl = w.ctl
              /\ w.ep.ctrlr # NoCtrlr => QuiescingIn(y)
    BY <1>2, PauseDoneFacts
  <2> HIDE DEF y
  <2>3. y.crash = "no" => VfuSound(y)
    BY <1>4, <2>2
  <2> QED BY <2>1, <2>3 DEF VfuInv
<1>9. CASE g # NoCtrlr /\ n = 1 /\ w.sub.busy = "none" /\ w.sub.st = "active"
  <2> DEFINE x == [w.sub EXCEPT !.busy = "vfu pause"]
             y == [w EXCEPT !.sub = x]
  <2>1. v = y
    BY <1>9 DEF QuiesceGroup
  <2>2. x \in VfuSubs /\ x.busy = "vfu pause"
    BY <1>2, VfuFields DEF VfuSubs
  <2> HIDE DEF x
  <2>3. /\ y \in VfuStates /\ y.sub = x
        /\ y.ep = w.ep /\ y.ctl = w.ctl /\ y.rpc = w.rpc /\ y.msgs = w.msgs
        /\ y.left = w.left /\ y.crash = w.crash /\ y.seen = w.seen
    BY <1>2, <2>2, PutVfuSub
  <2> HIDE DEF y
  <2>4. QuiescingIn(y)
    BY <2>2, <2>3 DEF QuiescingIn
  <2>5. ResumingIn(w) => ResumingIn(y)
    BY <1>9, <2>3 DEF ResumingIn
  <2>6. Onward(y, w)
    BY <2>3, <2>4, <2>5 DEF Onward, Steady, SameListener, SameEnding
  <2>7. VfuSound(y)
    BY <1>4, <2>3, <2>4, <2>6
  <2> QED BY <2>1, <2>7 DEF VfuInv
<1>10. n > 1 \/ n = 1
  BY <1>1
<1> QED BY <1>5, <1>6, <1>7, <1>8, <1>9, <1>10

(* _vfio_user_endpoint_resume_done_msg. *)
LEMMA ResumedSound ==
    ASSUME NEW u, VfuSound(u), NEW m \in u.msgs, m.k = "resumed"
    PROVE  VfuInv(Resumed([u EXCEPT !.msgs = @ \ {m}]))
<1> DEFINE w == [u EXCEPT !.msgs = @ \ {m}]
           g == w.ep.ctrlr
           e == [w.ep EXCEPT !.needResume = FALSE]
           r == [w EXCEPT !.ep = e]
           v == Resumed(w)
<1>1. u \in VfuStates /\ m \in VfuMsgs /\ ~Ending(m.k)
  BY VfuFields DEF VfuSound, Ending
<1>2. /\ w \in VfuStates /\ w.msgs = u.msgs \ {m}
      /\ w.ep = u.ep /\ w.ctl = u.ctl /\ w.sub = u.sub /\ w.rpc = u.rpc
      /\ w.left = u.left /\ w.crash = u.crash /\ w.seen = u.seen
      /\ Steady(w, u)
      /\ QuiescingIn(w) <=> QuiescingIn(u)
  BY <1>1, TakeFacts
<1> HIDE DEF w
<1>3. v = IF g = NoCtrlr THEN r ELSE IF w.ctl[g].queued THEN Quiesce(r, g) ELSE SetVfu(r, g, "running")
  BY DEF Resumed
<1> SUFFICES VfuInv(v)
  BY DEF w, v
<1>4. (g # NoCtrlr => g \in CtlrIds) /\ g = u.ep.ctrlr
  BY <1>2, VfuEpFields
<1>5. /\ e \in VfuEps /\ e.st = w.ep.st /\ e.ctrlr = g /\ e.poller = w.ep.poller
      /\ e.needRelisten = w.ep.needRelisten /\ ~e.needResume
  <2>1. w.ep \in VfuEps
    BY <1>2, VfuFields
  <2> QED BY <2>1 DEF VfuEps
<1> HIDE DEF e
<1>6. /\ r \in VfuStates /\ r.ep = e
      /\ r.ctl = w.ctl /\ r.sub = w.sub /\ r.rpc = w.rpc /\ r.msgs = w.msgs
      /\ r.left = w.left /\ r.crash = w.crash /\ r.seen = w.seen
  BY <1>2, <1>5, PutVfuEp
<1> HIDE DEF r, v
<1>7. Onward(r, w)
  BY <1>5, <1>6, OnwardSame DEF SameListener
<1>8. Steady(r, u) /\ (QuiescingIn(u) => QuiescingIn(r)) /\ r.seen = u.seen
  BY <1>2, <1>6, <1>7, SteadyTwice DEF Onward
<1>9. CASE g = NoCtrlr
  <2>1. ResumeSound(r)
    BY <1>5, <1>6 DEF ResumeSound
  <2>2. VfuSound(r)
    BY <1>2, <1>4, <1>6, <1>8, <1>9, <2>1, SteadySound
  <2> QED BY <1>3, <1>9, <2>2 DEF VfuInv
<1>10. CASE g # NoCtrlr
  <2>1. /\ g \in CtlrIds /\ u.ctl[g] \in CtlrVals /\ u.ctl[g].disc \subseteq u.ctl[g].sqs
        /\ u.ctl[g].st = "pausing" \/ u.ctl[g].queued => u.ctl[g].pend \in VfuRequestKinds
        /\ WaitSound(u, g)
    BY <1>4, <1>10, CurrentCtlr
  <2> HIDE DEF g
  <2>2. CASE w.ctl[g].queued
    <3> DEFINE y == Quiesce(r, g)
    <3>1. v = y BY <1>3, <1>10, <2>2
    <3>2. /\ Onward(y, r) /\ y.ep = r.ep /\ SameOthers(y, r, g)
          /\ y.ctl[g] = [r.ctl[g] EXCEPT !.st = "pausing"]
          /\ QuiescingIn(y)
      BY <1>6, <2>1, QuiesceFacts
    <3> HIDE DEF y
    <3>3. Steady(y, u) BY <1>8, <3>2, SteadyTwice DEF Onward
    <3>4. y.ctl[g] = [u.ctl[g] EXCEPT !.st = "pausing"] BY <1>2, <1>6, <3>2
    <3>5. /\ y.ctl[g].st = "pausing" /\ y.ctl[g].disc = u.ctl[g].disc /\ y.ctl[g].sqs = u.ctl[g].sqs
          /\ y.ctl[g].pend = u.ctl[g].pend
      BY <2>1, <3>4 DEF CtlrVals
    <3>6. y.ctl[g].pend \in VfuRequestKinds BY <1>2, <2>1, <2>2, <3>5
    <3>7. WaitSound(y, g) BY <3>2, <3>5 DEF WaitSound
    <3>8. ResumeSound(y) BY <1>5, <1>6, <3>2 DEF ResumeSound
    <3>9. \A h \in CtlrIds : h # g => y.ctl[h] = u.ctl[h]
      BY <1>2, <1>6, <3>2 DEF SameOthers
    <3>10. VfuSound(y) BY <1>4, <2>1, <3>3, <3>5, <3>6, <3>7, <3>8, <3>9, SteadySound
    <3> QED BY <3>1, <3>10 DEF VfuInv
  <2>3. CASE ~w.ctl[g].queued
    <3> DEFINE y == SetVfu(r, g, "running")
    <3>1. v = y BY <1>3, <1>10, <2>3
    <3>2. /\ y \in VfuStates /\ y.crash = r.crash /\ Ran(y, r, g)
          /\ y.ep = r.ep /\ y.ctl[g].st = "running"
      BY <1>6, <2>1, RanSet
    <3> HIDE DEF y
    <3>3. Onward(y, r) /\ SameOthers(y, r, g) /\ SameCtlr(y.ctl[g], r.ctl[g])
      BY <3>2 DEF Ran
    <3>4. Steady(y, u) /\ (QuiescingIn(u) => QuiescingIn(y)) /\ u.seen \subseteq y.seen
      BY <1>8, <3>3, SteadyTwice DEF Onward
    <3>5. /\ y.ctl[g].disc = u.ctl[g].disc /\ y.ctl[g].sqs = u.ctl[g].sqs
          /\ y.ctl[g].pend = u.ctl[g].pend /\ y.ctl[g].queued = u.ctl[g].queued
      BY <1>2, <1>6, <3>3 DEF SameCtlr
    <3>6. ~u.ctl[g].queued /\ ~y.ctl[g].queued BY <1>2, <2>3, <3>5
    <3>7. WaitSound(y, g) BY <2>1, <3>2, <3>4, <3>5, <3>6 DEF WaitSound
    <3>8. ResumeSound(y) BY <1>5, <1>6, <3>2 DEF ResumeSound
    <3>9. \A h \in CtlrIds : h # g => y.ctl[h] = u.ctl[h]
      BY <1>2, <1>6, <3>3 DEF SameOthers
    <3>10. VfuSound(y)
      BY <1>4, <2>1, <3>2, <3>4, <3>5, <3>6, <3>7, <3>8, <3>9, SteadySound
    <3> QED BY <3>1, <3>10 DEF VfuInv
  <2> QED BY <2>2, <2>3
<1> QED BY <1>9, <1>10

(* While a controller has the endpoint, or none has ever, the others are
   idle. *)
LEMMA OthersIdle ==
    ASSUME NEW u, VfuSound(u), NEW g \in CtlrIds, u.ep.ctrlr = g \/ u.ctl[g].st = "freeing"
    PROVE  /\ ~u.ep.poller /\ ~RelistingIn(u)
           /\ \A h \in CtlrIds \ {g} : u.ctl[h].st \in {"none", "freed"}
<1>1. CASE u.ep.ctrlr = g
  <2>1. u.ctl[g].st \notin {"none", "freeing", "freed"}
    BY <1>1 DEF VfuSound, CtlrSound
  <2>2. ~VfuIdle(u)
    BY <2>1 DEF VfuIdle
  <2>3. ~u.ep.poller /\ ~RelistingIn(u)
    BY <2>2 DEF VfuSound, EpSound
  <2>4. ASSUME NEW h \in CtlrIds \ {g} PROVE u.ctl[h].st \in {"none", "freed"}
    <3>1. CtlrSound(u, h) /\ u.ep.ctrlr # h /\ u.ep.ctrlr # NoCtrlr
      BY <1>1, <2>4, VfuEpFields DEF VfuSound
    <3> QED BY <3>1 DEF CtlrSound
  <2> QED BY <2>3, <2>4
<1>2. CASE u.ctl[g].st = "freeing"
  <2>1. CtlrSound(u, g)
    BY DEF VfuSound
  <2> QED BY <1>2, <2>1 DEF CtlrSound
<1> QED BY <1>1, <1>2

(* The endpoint listens again. *)
LEMMA RelistenSound ==
    ASSUME NEW u, VfuSound(u), NEW m \in u.msgs, m.k = "relisten"
    PROVE  LET w == [u EXCEPT !.msgs = @ \ {m}]
           IN  VfuInv([w EXCEPT !.ep.poller = TRUE, !.ep.needRelisten = FALSE])
<1> DEFINE w == [u EXCEPT !.msgs = @ \ {m}]
           e == [w.ep EXCEPT !.poller = TRUE, !.needRelisten = FALSE]
           v == [w EXCEPT !.ep = e]
<1>1. u \in VfuStates /\ m \in VfuMsgs /\ m.k \notin {"group", "quiesced"} /\ m.k # "resumed"
  BY VfuFields DEF VfuSound
<1>2. /\ w \in VfuStates /\ w.msgs = u.msgs \ {m}
      /\ w.ep = u.ep /\ w.ctl = u.ctl /\ w.sub = u.sub /\ w.rpc = u.rpc
      /\ w.left = u.left /\ w.crash = u.crash /\ w.seen = u.seen
      /\ ResumingIn(w) <=> ResumingIn(u)
  BY <1>1, TakeFacts
<1>3. [w EXCEPT !.ep.poller = TRUE, !.ep.needRelisten = FALSE] = v
  BY <1>2, VfuFields DEF VfuStates
<1> SUFFICES VfuInv(v)
  BY <1>3
<1> HIDE DEF w
<1>4. /\ e \in VfuEps /\ e.st = w.ep.st /\ e.ctrlr = w.ep.ctrlr /\ e.poller
      /\ ~e.needRelisten /\ e.needResume = w.ep.needResume
  <2>1. w.ep \in VfuEps
    BY <1>2, VfuFields
  <2> QED BY <2>1 DEF VfuEps
<1> HIDE DEF e
<1>5. /\ v \in VfuStates /\ v.ep = e
      /\ v.ctl = w.ctl /\ v.sub = w.sub /\ v.rpc = w.rpc /\ v.msgs = w.msgs
      /\ v.left = w.left /\ v.crash = w.crash /\ v.seen = w.seen
  BY <1>2, <1>4, PutVfuEp
<1> HIDE DEF v
<1>6. RelistingIn(u)
  BY DEF RelistingIn
<1>7. VfuIdle(u) /\ VfuIdle(v)
  BY <1>2, <1>5, <1>6 DEF VfuSound, EpSound, VfuIdle
<1>8. v.msgs \subseteq u.msgs /\ v.ctl = u.ctl /\ v.ep.ctrlr = u.ep.ctrlr
  BY <1>2, <1>4, <1>5
<1>9. u.msgs \subseteq VfuMsgs
  BY <1>1, VfuFields
<1>10. ~RelistingIn(v)
  <2>1. SUFFICES ASSUME NEW n \in v.msgs, n.k = "relisten" PROVE FALSE
    BY DEF RelistingIn
  <2>2. n \in VfuMsgs /\ n = m
    BY <1>1, <1>8, <1>9, <2>1 DEF VfuMsgs
  <2> QED BY <1>2, <1>5, <2>2
<1>11. EpSound(v)
  BY <1>4, <1>5, <1>7, <1>10 DEF EpSound
<1>12. ASSUME NEW h \in CtlrIds PROVE CtlrSound(v, h) /\ u.ep.ctrlr # h
  <2>1. CtlrSound(u, h) /\ u.ctl[h].st \in {"none", "freed"}
    BY <1>7 DEF VfuSound, VfuIdle
  <2>2. /\ u.ep.ctrlr # h /\ u.ctl[h].sqs = {} /\ u.ctl[h].disc = {} /\ ~FreeSent(u, h)
        /\ u.ctl[h].st = "none" => u.ctl[h] = NewVfuCtrlr /\ ~DisconnectSent(u, h)
    BY <2>1 DEF CtlrSound
  <2>3. ~FreeSent(v, h) /\ (DisconnectSent(v, h) => DisconnectSent(u, h))
    BY <1>8, <2>2 DEF FreeSent, DisconnectSent
  <2>4. /\ v.ep.st = "listed" /\ (\/ v.ctl[h].disc # {} \/ v.ctl[h].st = "freeing"
                                  \/ v.ctl[h].st # "freed" /\ DisconnectSent(v, h)) => v.ep.needRelisten
    BY <1>8, <2>1, <2>2, <2>3
  <2>5. ~(v.ctl[h].st = "pausing" \/ v.ctl[h].queued) \/ v.ctl[h].pend \in VfuRequestKinds
    BY <1>8, <2>1 DEF CtlrSound
  <2> QED BY <1>8, <2>1, <2>2, <2>3, <2>4, <2>5 DEF CtlrSound
<1>13. u.ep.ctrlr = NoCtrlr
  BY <1>1, <1>12, VfuEpFields
<1>14. ResumeSound(v)
  <2>1. v.ep.needResume = u.ep.needResume /\ v.seen = u.seen
    BY <1>2, <1>4, <1>5
  <2>2. ResumingIn(v) <=> ResumingIn(u)
    BY <1>2, <1>5 DEF ResumingIn
  <2>3. ResumeSound(u)
    BY DEF VfuSound
  <2> QED BY <1>8, <1>13, <2>1, <2>2, <2>3 DEF ResumeSound
<1>15. VfuSound(v)
  BY <1>5, <1>8, <1>11, <1>12, <1>13, <1>14 DEF VfuSound
<1> QED BY <1>15 DEF VfuInv

---------------------------------------------------------------------------
(* The end of a controller *)

(* A controller that is not there, or no longer. *)
IdleCtlr(w, h) ==
    /\ w.ctl[h].st \in {"none", "freed"} /\ w.ctl[h].sqs = {} /\ w.ctl[h].disc = {} /\ ~FreeSent(w, h)
    /\ w.ctl[h].st = "none" => w.ctl[h] = NewVfuCtrlr /\ ~DisconnectSent(w, h)
    /\ w.ctl[h].queued => w.ctl[h].pend \in VfuRequestKinds

(* A controller that is not there asks for no more. *)
LEMMA IdleSound ==
    ASSUME NEW w, NEW h \in CtlrIds, w.ep.ctrlr # h, IdleCtlr(w, h)
    PROVE  CtlrSound(w, h)
  BY DEF IdleCtlr, CtlrSound

(* A controller about to be freed, the endpoint without one. *)
Ended(w, g) ==
    /\ w \in VfuStates /\ w.ep.ctrlr = NoCtrlr /\ ~w.ep.poller /\ ~RelistingIn(w) /\ ResumeSound(w)
    /\ w.ep.st = "listed" => w.ep.needRelisten
    /\ w.ctl[g].sqs = {} /\ w.ctl[g].disc = {} /\ ~FreeSent(w, g)
    /\ w.ctl[g].queued => w.ctl[g].pend \in VfuRequestKinds
    /\ \A h \in CtlrIds : h # g => IdleCtlr(w, h)

(* It has been freed. *)
LEMMA FreedIdle ==
    ASSUME NEW w, NEW g \in CtlrIds, Ended(w, g), NEW v \in VfuStates,
           v.ctl[g] = [w.ctl[g] EXCEPT !.st = "freed"], SameOthers(v, w, g),
           \A m \in v.msgs : m \in w.msgs \/ m.k = "relisten",
           w.msgs \subseteq v.msgs, v.sub = w.sub, v.seen = w.seen,
           v.ep.ctrlr = NoCtrlr, ~v.ep.poller, v.ep.needResume = w.ep.needResume,
           v.ep.st = "listed" => RelistingIn(v)
    PROVE  VfuSound(v)
<1>1. w \in VfuStates /\ w.ctl[g] \in CtlrVals
  BY VfuCtl DEF Ended
<1>2. \A h : (FreeSent(v, h) => FreeSent(w, h)) /\ (DisconnectSent(v, h) => DisconnectSent(w, h))
  BY DEF FreeSent, DisconnectSent
<1>3. IdleCtlr(v, g)
  <2>1. /\ v.ctl[g].st = "freed" /\ v.ctl[g].sqs = w.ctl[g].sqs /\ v.ctl[g].disc = w.ctl[g].disc
        /\ v.ctl[g].queued = w.ctl[g].queued /\ v.ctl[g].pend = w.ctl[g].pend
    BY <1>1 DEF CtlrVals
  <2>2. ~FreeSent(v, g)
    BY <1>2 DEF Ended
  <2>3. w.ctl[g].sqs = {} /\ w.ctl[g].disc = {} /\ (w.ctl[g].queued => w.ctl[g].pend \in VfuRequestKinds)
    BY DEF Ended
  <2> QED BY <2>1, <2>2, <2>3 DEF IdleCtlr
<1>4. ASSUME NEW h \in CtlrIds, h # g PROVE IdleCtlr(v, h)
  <2>1. IdleCtlr(w, h)
    BY <1>4 DEF Ended
  <2>2. v.ctl[h] = w.ctl[h]
    BY <1>4 DEF SameOthers
  <2> QED BY <1>2, <2>1, <2>2 DEF IdleCtlr
<1>5. \A h \in CtlrIds : IdleCtlr(v, h)
  BY <1>3, <1>4
<1>6. \A h \in CtlrIds : v.ep.ctrlr # h
  BY VfuEpFields
<1>7. \A h \in CtlrIds : CtlrSound(v, h)
  BY <1>5, <1>6, IdleSound
<1>8. VfuIdle(v)
  BY <1>5 DEF VfuIdle, IdleCtlr
<1>9. EpSound(v)
  BY <1>8 DEF EpSound
<1>10. ResumeSound(v)
  <2>1. ResumeSound(w) /\ w.ep.ctrlr = NoCtrlr
    BY DEF Ended
  <2>2. ResumingIn(w) => ResumingIn(v)
    BY DEF ResumingIn
  <2> QED BY <2>1, <2>2 DEF ResumeSound
<1> QED BY <1>7, <1>9, <1>10 DEF VfuSound

(* The last step of free_ctrlr. *)
LEMMA LastStepSound ==
    ASSUME NEW w, NEW g \in CtlrIds, Ended(w, g)
    PROVE  VfuInv(LastStep(w, g))
<1> DEFINE f == SetVfu(w, g, "freed")
           v == LastStep(w, g)
<1>1. w \in VfuStates
  BY DEF Ended
<1>2. /\ f \in VfuStates /\ f.ctl[g] = [w.ctl[g] EXCEPT !.st = "freed"]
      /\ \A h \in CtlrIds \ {g} : f.ctl[h] = w.ctl[h]
      /\ f.ep = w.ep /\ f.sub = w.sub /\ f.rpc = w.rpc /\ f.msgs = w.msgs
      /\ f.left = w.left /\ f.crash = w.crash /\ f.seen = w.seen
  BY <1>1, SetVfuFacts, VfuStsAre
<1>3. SameOthers(f, w, g)
  BY <1>2 DEF SameOthers
<1>4. w.ep.ctrlr = NoCtrlr /\ ~w.ep.poller /\ (w.ep.st = "listed" => w.ep.needRelisten)
  BY DEF Ended
<1>5. w.ep.st \in {"listed", "removing", "removed", "freed"}
  BY <1>1, VfuEpFields
<1>6. CASE w.ep.st = "freed"
  <2>1. v = VfuCrash(w, "freed endpoint")
    BY <1>6 DEF LastStep
  <2>2. "freed endpoint" \in VfuCrashes
    BY DEF VfuCrashes
  <2> QED BY <1>1, <2>1, <2>2, VfuCrashFacts DEF VfuInv
<1>7. CASE w.ep.st = "removed"
  <2> DEFINE e == [f.ep EXCEPT !.st = "freed", !.poller = FALSE]
             y == [f EXCEPT !.ep = e]
  <2>1. [f EXCEPT !.ep.st = "freed", !.ep.poller = FALSE] = y
    BY <1>2, VfuFields DEF VfuStates
  <2>2. v = y
    BY <1>7, <2>1 DEF LastStep
  <2>3. f.ep \in VfuEps
    BY <1>2, VfuFields
  <2>4. /\ e \in VfuEps /\ e.st = "freed" /\ e.ctrlr = f.ep.ctrlr /\ ~e.poller
        /\ e.needResume = f.ep.needResume
    BY <2>3 DEF VfuEps
  <2> HIDE DEF e, f
  <2>5. /\ y \in VfuStates /\ y.ep = e
        /\ y.ctl = f.ctl /\ y.sub = f.sub /\ y.rpc = f.rpc /\ y.msgs = f.msgs
        /\ y.left = f.left /\ y.crash = f.crash /\ y.seen = f.seen
    BY <1>2, <2>4, PutVfuEp
  <2> HIDE DEF y, v
  <2>6. y.ctl[g] = [w.ctl[g] EXCEPT !.st = "freed"] /\ SameOthers(y, w, g)
    BY <1>2, <1>3, <2>5 DEF SameOthers
  <2>7. VfuSound(y)
    BY <1>2, <1>4, <2>4, <2>5, <2>6, FreedIdle
  <2> QED BY <2>2, <2>7 DEF VfuInv, v
<1>8. CASE w.ep.st \in {"listed", "removing"} /\ w.ep.needRelisten
  <2> DEFINE m == [k |-> "relisten"]
             y == VfuSend(f, m)
  <2>1. v = y
    BY <1>8 DEF LastStep
  <2>2. m \in VfuMsgs /\ m.k = "relisten"
    BY ProtocolMsgs
  <2> HIDE DEF m, f
  <2>3. /\ y \in VfuStates /\ y.msgs = f.msgs \cup {m}
        /\ y.ep = f.ep /\ y.ctl = f.ctl /\ y.sub = f.sub /\ y.rpc = f.rpc
        /\ y.left = f.left /\ y.crash = f.crash /\ y.seen = f.seen
    BY <1>2, <2>2, VfuSendFacts
  <2> HIDE DEF y, v
  <2>4. y.ctl[g] = [w.ctl[g] EXCEPT !.st = "freed"] /\ SameOthers(y, w, g)
    BY <1>2, <1>3, <2>3 DEF SameOthers
  <2>5. RelistingIn(y)
    BY <2>2, <2>3 DEF RelistingIn
  <2>6. \A n \in y.msgs : n \in w.msgs \/ n.k = "relisten"
    BY <1>2, <2>2, <2>3
  <2>7. VfuSound(y)
    BY <1>2, <1>4, <2>3, <2>4, <2>5, <2>6, FreedIdle
  <2> QED BY <2>1, <2>7 DEF VfuInv, v
<1>9. CASE w.ep.st \in {"listed", "removing"} /\ ~w.ep.needRelisten
  <2>1. v = f
    BY <1>9 DEF LastStep
  <2> HIDE DEF f, v
  <2>2. VfuSound(f)
    BY <1>2, <1>3, <1>4, <1>9, FreedIdle
  <2> QED BY <2>1, <2>2 DEF VfuInv, v
<1> QED BY <1>5, <1>6, <1>7, <1>8, <1>9

(* free_ctrlr from another thread. *)
LEMMA FreeingSound ==
    ASSUME NEW w, NEW g \in CtlrIds, Ended(w, g)
    PROVE  VfuInv(VfuSend(SetVfu(w, g, "freeing"), [k |-> "free", g |-> g]))
<1> DEFINE f == SetVfu(w, g, "freeing")
           m == [k |-> "free", g |-> g]
           v == VfuSend(f, m)
<1>1. w \in VfuStates /\ w.ctl[g] \in CtlrVals
  BY VfuCtl DEF Ended
<1>2. /\ f \in VfuStates /\ f.ctl[g] = [w.ctl[g] EXCEPT !.st = "freeing"]
      /\ \A h \in CtlrIds \ {g} : f.ctl[h] = w.ctl[h]
      /\ f.ep = w.ep /\ f.sub = w.sub /\ f.rpc = w.rpc /\ f.msgs = w.msgs
      /\ f.left = w.left /\ f.crash = w.crash /\ f.seen = w.seen
  BY <1>1, SetVfuFacts, VfuStsAre
<1>3. m \in VfuMsgs /\ m.k = "free" /\ m.g = g
  BY ProtocolMsgs
<1> SUFFICES VfuInv(v)
  OBVIOUS
<1> HIDE DEF f, m
<1>4. /\ v \in VfuStates /\ v.msgs = f.msgs \cup {m}
      /\ v.ep = f.ep /\ v.ctl = f.ctl /\ v.sub = f.sub /\ v.rpc = f.rpc
      /\ v.left = f.left /\ v.crash = f.crash /\ v.seen = f.seen
  BY <1>2, <1>3, VfuSendFacts
<1> HIDE DEF v
<1>5. /\ w.ep.ctrlr = NoCtrlr /\ ~w.ep.poller /\ ~RelistingIn(w) /\ ResumeSound(w)
      /\ w.ep.st = "listed" => w.ep.needRelisten
      /\ w.ctl[g].sqs = {} /\ w.ctl[g].disc = {}
      /\ w.ctl[g].queued => w.ctl[g].pend \in VfuRequestKinds
  BY DEF Ended
<1>6. /\ v.ctl[g].st = "freeing" /\ v.ctl[g].sqs = {} /\ v.ctl[g].disc = {}
      /\ v.ctl[g].queued => v.ctl[g].pend \in VfuRequestKinds
  BY <1>1, <1>2, <1>4, <1>5 DEF CtlrVals
<1>7. ~RelistingIn(v) /\ FreeSent(v, g)
  BY <1>2, <1>3, <1>4, <1>5 DEF RelistingIn, FreeSent
<1>8. \A h \in CtlrIds : v.ep.ctrlr # h
  <2>1. \A h \in CtlrIds : h # NoCtrlr
    BY <1>1, VfuEpFields
  <2>2. v.ep.ctrlr = NoCtrlr
    BY <1>2, <1>4, <1>5
  <2> QED BY <2>1, <2>2
<1>9. ASSUME NEW h \in CtlrIds, h # g PROVE IdleCtlr(v, h)
  <2>1. IdleCtlr(w, h)
    BY <1>9 DEF Ended
  <2>2. v.ctl[h] = w.ctl[h]
    BY <1>2, <1>4, <1>9
  <2>3. (FreeSent(v, h) => FreeSent(w, h)) /\ (DisconnectSent(v, h) => DisconnectSent(w, h))
    BY <1>2, <1>3, <1>4, <1>9 DEF FreeSent, DisconnectSent
  <2> QED BY <2>1, <2>2, <2>3 DEF IdleCtlr
<1>10. CtlrSound(v, g)
  <2>1. \A h \in CtlrIds \ {g} : v.ctl[h].st \in {"none", "freed"}
    BY <1>9 DEF IdleCtlr
  <2>2. v.ep = w.ep
    BY <1>2, <1>4
  <2> QED BY <1>5, <1>6, <1>7, <1>8, <2>1, <2>2 DEF CtlrSound
<1>11. \A h \in CtlrIds : CtlrSound(v, h)
  BY <1>8, <1>9, <1>10, IdleSound
<1>12. EpSound(v)
  BY <1>2, <1>4, <1>5, <1>6, <1>7 DEF EpSound
<1>13. ResumeSound(v)
  <2>1. ResumingIn(w) => ResumingIn(v)
    BY <1>2, <1>4 DEF ResumingIn
  <2> QED BY <1>2, <1>4, <1>5, <2>1 DEF ResumeSound
<1> QED BY <1>2, <1>4, <1>5, <1>11, <1>12, <1>13 DEF VfuInv, VfuSound

(* A controller without a connection is idle. *)
LEMMA IdleFrom ==
    ASSUME NEW w, NEW h \in CtlrIds, CtlrSound(w, h), w.ctl[h].st \in {"none", "freed"}
    PROVE  IdleCtlr(w, h)
<1>1. w.ep.ctrlr # h
  BY DEF CtlrSound
<1>2. w.ctl[h].sqs = {}
  BY <1>1 DEF CtlrSound
<1> QED BY <1>2 DEF IdleCtlr, CtlrSound

(* A freed controller's message arrives. *)
LEMMA FreeSound ==
    ASSUME NEW u, VfuSound(u), NEW m \in u.msgs, m.k = "free"
    PROVE  VfuInv(LastStep([u EXCEPT !.msgs = @ \ {m}], m.g))
<1> DEFINE w == [u EXCEPT !.msgs = @ \ {m}]
           g == m.g
<1>1. u \in VfuStates /\ m \in VfuMsgs /\ m.k # "resumed"
  BY VfuFields DEF VfuSound
<1>2. g \in CtlrIds /\ m = [k |-> "free", g |-> g]
  BY <1>1 DEF VfuMsgs
<1>3. /\ w \in VfuStates /\ w.msgs = u.msgs \ {m}
      /\ w.ep = u.ep /\ w.ctl = u.ctl /\ w.sub = u.sub /\ w.rpc = u.rpc
      /\ w.left = u.left /\ w.crash = u.crash /\ w.seen = u.seen
      /\ ResumingIn(w) <=> ResumingIn(u)
  BY <1>1, TakeFacts
<1> HIDE DEF w
<1>4. CtlrSound(u, g) /\ FreeSent(u, g)
  BY <1>2 DEF VfuSound, FreeSent
<1>5. /\ u.ctl[g].st = "freeing" /\ ~u.ep.poller /\ ~RelistingIn(u) /\ u.ep.ctrlr = NoCtrlr
      /\ \A h \in CtlrIds \ {g} : u.ctl[h].st \in {"none", "freed"}
  BY <1>4 DEF CtlrSound
<1>6. g # NoCtrlr
  BY <1>1, <1>2, VfuEpFields
<1>7. /\ u.ctl[g].sqs = {} /\ u.ctl[g].disc = {} /\ (u.ep.st = "listed" => u.ep.needRelisten)
      /\ u.ctl[g].queued => u.ctl[g].pend \in VfuRequestKinds
  BY <1>4, <1>5, <1>6 DEF CtlrSound
<1>8. \A h : (FreeSent(w, h) => FreeSent(u, h)) /\ (DisconnectSent(w, h) => DisconnectSent(u, h))
  BY <1>3 DEF FreeSent, DisconnectSent
<1>9. ~FreeSent(w, g)
  <2>1. \A n \in VfuMsgs : n.k = "free" /\ n.g = g => n = m
    BY <1>2 DEF VfuMsgs
  <2>2. w.msgs \subseteq VfuMsgs /\ m \notin w.msgs
    BY <1>3, VfuFields
  <2> QED BY <2>1, <2>2 DEF FreeSent
<1>10. ASSUME NEW h \in CtlrIds, h # g PROVE IdleCtlr(w, h)
  <2>1. CtlrSound(u, h) /\ u.ctl[h].st \in {"none", "freed"}
    BY <1>5, <1>10 DEF VfuSound
  <2>2. IdleCtlr(u, h)
    BY <2>1, IdleFrom
  <2> QED BY <1>3, <1>8, <2>2 DEF IdleCtlr
<1>11. ~RelistingIn(w)
  BY <1>3, <1>5 DEF RelistingIn
<1>12. ResumeSound(w)
  <2>1. ResumeSound(u)
    BY DEF VfuSound
  <2> QED BY <1>3, <2>1 DEF ResumeSound
<1>13. Ended(w, g)
  BY <1>3, <1>5, <1>7, <1>9, <1>10, <1>11, <1>12 DEF Ended
<1>14. VfuInv(LastStep(w, g))
  BY <1>2, <1>13, LastStepSound
<1> QED BY <1>14 DEF w

(* A queue pair is to be disconnected. *)
LEMMA DisconnectSound ==
    ASSUME NEW u, VfuSound(u), NEW m \in u.msgs, m.k = "disconnect",
           NEW v, v \in VfuStates, v.msgs = u.msgs \ {m}, v.ep = u.ep, v.sub = u.sub, v.seen = u.seen,
           SameOthers(v, u, m.g),
           \/ v.ctl[m.g] = u.ctl[m.g]
           \/ /\ u.ctl[m.g].st # "freed" /\ m.q \in u.ctl[m.g].sqs
              /\ v.ctl[m.g] = [u.ctl[m.g] EXCEPT !.disc = @ \cup {m.q}]
    PROVE  VfuSound(v)
<1> DEFINE g == m.g
<1>1. u \in VfuStates /\ m \in VfuMsgs
  BY VfuFields DEF VfuSound
<1>2. g \in CtlrIds
  BY <1>1 DEF VfuMsgs
<1>3. u.ctl[g] \in CtlrVals
  BY <1>1, <1>2, VfuCtl
<1>4. /\ v.ctl[g].st = u.ctl[g].st /\ v.ctl[g].sqs = u.ctl[g].sqs /\ v.ctl[g].queued = u.ctl[g].queued
      /\ v.ctl[g].pend = u.ctl[g].pend /\ v.ctl[g].src = u.ctl[g].src
  BY <1>3 DEF CtlrVals
<1>5. \/ v.ctl[g].disc = u.ctl[g].disc
      \/ /\ u.ctl[g].st # "freed" /\ m.q \in u.ctl[g].sqs
         /\ v.ctl[g].disc = u.ctl[g].disc \cup {m.q}
  BY <1>3 DEF CtlrVals
<1>6. \A h \in CtlrIds : /\ v.ctl[h].st = u.ctl[h].st /\ v.ctl[h].sqs = u.ctl[h].sqs
                         /\ v.ctl[h].queued = u.ctl[h].queued /\ v.ctl[h].pend = u.ctl[h].pend
                         /\ v.ctl[h].src = u.ctl[h].src
  BY <1>4 DEF SameOthers
<1>7. /\ RelistingIn(v) <=> RelistingIn(u)
      /\ QuiescingIn(v) <=> QuiescingIn(u)
      /\ ResumingIn(v) <=> ResumingIn(u)
  BY DEF RelistingIn, QuiescingIn, ResumingIn
<1>8. \A h : (FreeSent(v, h) <=> FreeSent(u, h)) /\ (DisconnectSent(v, h) => DisconnectSent(u, h))
  BY DEF FreeSent, DisconnectSent
<1>9. ASSUME NEW h \in CtlrIds PROVE CtlrSound(v, h)
  <2>1. CtlrSound(u, h)
    BY DEF VfuSound
  <2>2. CASE v.ctl[h] = u.ctl[h]
    <3> QED BY <1>6, <1>7, <1>8, <2>1, <2>2 DEF CtlrSound
  <2>3. CASE v.ctl[h] # u.ctl[h]
    <3>1. h = g BY <2>3 DEF SameOthers
    <3>2. u.ctl[g].st # "freed" /\ m.q \in u.ctl[g].sqs /\ v.ctl[g].disc = u.ctl[g].disc \cup {m.q}
      BY <1>3, <2>3, <3>1 DEF CtlrVals
    <3>3. DisconnectSent(u, g) /\ u.ctl[g].st # "none"
      BY <2>1, <3>1 DEF CtlrSound, DisconnectSent
    <3>4. v.ctl[h].disc \subseteq v.ctl[h].sqs /\ v.ctl[h].st # "none"
      BY <1>4, <2>1, <3>1, <3>2, <3>3 DEF CtlrSound
    <3>5. v.ep.st = "listed" => v.ep.needRelisten BY <2>1, <3>1, <3>2, <3>3 DEF CtlrSound
    <3> HIDE DEF g
    <3> QED BY <1>6, <1>7, <1>8, <2>1, <3>1, <3>4, <3>5 DEF CtlrSound
  <2> QED BY <2>2, <2>3
<1>10. EpSound(v)
  <2>1. VfuIdle(v) <=> VfuIdle(u)
    BY <1>6 DEF VfuIdle
  <2>2. EpSound(u)
    BY DEF VfuSound
  <2> QED BY <1>6, <1>7, <2>1, <2>2 DEF EpSound
<1>11. v.ep.ctrlr # NoCtrlr => WaitSound(v, v.ep.ctrlr)
  <2>1. SUFFICES ASSUME v.ep.ctrlr # NoCtrlr PROVE WaitSound(v, v.ep.ctrlr)
    OBVIOUS
  <2>2. u.ep.ctrlr \in CtlrIds /\ WaitSound(u, u.ep.ctrlr)
    BY <2>1, CurrentCtlr
  <2> QED BY <1>6, <1>7, <2>2 DEF WaitSound
<1>12. ResumeSound(v)
  <2>1. ResumeSound(u) /\ (u.ep.ctrlr # NoCtrlr => u.ep.ctrlr \in CtlrIds)
    BY <1>1, VfuEpFields DEF VfuSound
  <2> QED BY <1>6, <1>7, <2>1 DEF ResumeSound
<1> QED BY <1>9, <1>10, <1>11, <1>12 DEF VfuSound

(* A message is handled. *)
LEMMA HandleVfuSound ==
    ASSUME VfuSound(vfu), NEW m \in vfu.msgs, HandleVfu(m)
    PROVE  VfuInv(vfu')
<1> DEFINE w == [vfu EXCEPT !.msgs = @ \ {m}]
           g == m.g
<1>1. vfu \in VfuStates /\ m \in VfuMsgs
  BY VfuFields DEF VfuSound
<1>2. m.k \in {"group", "quiesced", "resumed", "relisten", "free", "disconnect"}
  BY <1>1 DEF VfuMsgs
<1>3. /\ w \in VfuStates /\ w.msgs = vfu.msgs \ {m}
      /\ w.ep = vfu.ep /\ w.ctl = vfu.ctl /\ w.sub = vfu.sub /\ w.rpc = vfu.rpc
      /\ w.left = vfu.left /\ w.crash = vfu.crash /\ w.seen = vfu.seen
  BY <1>1, TakeFacts
<1>4. CASE m.k \in {"group", "quiesced", "resumed", "relisten"} /\ w.ep.st = "freed"
  <2>1. vfu' = VfuCrash(w, "freed endpoint")
    BY <1>4 DEF HandleVfu
  <2>2. "freed endpoint" \in VfuCrashes
    BY DEF VfuCrashes
  <2> HIDE DEF w
  <2> QED BY <1>3, <2>1, <2>2, VfuCrashFacts DEF VfuInv
<1>5. CASE m.k = "group" /\ w.ep.st # "freed"
  <2>1. vfu' = QuiesceGroup(w, m.n)
    BY <1>5 DEF HandleVfu
  <2> QED BY <1>5, <2>1, QuiesceGroupSound
<1>6. CASE m.k = "quiesced" /\ w.ep.st # "freed"
  <2>1. vfu' = QuiesceDone(w)
    BY <1>6 DEF HandleVfu
  <2> QED BY <1>6, <2>1, QuiesceDoneSound
<1>7. CASE m.k = "resumed" /\ w.ep.st # "freed"
  <2>1. vfu' = Resumed(w)
    BY <1>7 DEF HandleVfu
  <2> QED BY <1>7, <2>1, ResumedSound
<1>8. CASE m.k = "relisten" /\ w.ep.st # "freed"
  <2>1. vfu' = [w EXCEPT !.ep.poller = TRUE, !.ep.needRelisten = FALSE]
    BY <1>8 DEF HandleVfu
  <2> QED BY <1>8, <2>1, RelistenSound
<1>9. CASE m.k = "free"
  <2>1. vfu' = LastStep(w, m.g)
    BY <1>9 DEF HandleVfu
  <2> QED BY <1>9, <2>1, FreeSound
<1>10. CASE m.k = "disconnect"
  <2>1. vfu' = CASE w.ctl[g].st = "freed" -> VfuCrash(w, "freed queue")
                 [] w.ctl[g].st # "freed" /\ m.q \in w.ctl[g].sqs -> [w EXCEPT !.ctl[g].disc = @ \cup {m.q}]
                 [] w.ctl[g].st # "freed" /\ m.q \notin w.ctl[g].sqs -> w
    BY <1>10 DEF HandleVfu
  <2>2. g \in CtlrIds /\ m.q \in VfuQueues
    BY <1>1, <1>10 DEF VfuMsgs
  <2> HIDE DEF w, g
  <2>3. CASE w.ctl[g].st = "freed"
    <3>1. vfu' = VfuCrash(w, "freed queue") BY <2>1, <2>3
    <3>2. "freed queue" \in VfuCrashes BY DEF VfuCrashes
    <3> QED BY <1>3, <3>1, <3>2, VfuCrashFacts DEF VfuInv
  <2>4. CASE w.ctl[g].st # "freed" /\ m.q \notin w.ctl[g].sqs
    <3>1. vfu' = w BY <2>1, <2>4
    <3>2. SameOthers(w, vfu, g) /\ w.ctl[g] = vfu.ctl[g] BY <1>3 DEF SameOthers
    <3>3. VfuSound(w) BY <1>3, <1>10, <3>2, DisconnectSound DEF g
    <3> QED BY <3>1, <3>3 DEF VfuInv
  <2>5. CASE w.ctl[g].st # "freed" /\ m.q \in w.ctl[g].sqs
    <3> DEFINE x == [w.ctl[g] EXCEPT !.disc = @ \cup {m.q}]
               y == [w EXCEPT !.ctl[g] = x]
    <3>1. vfu' = y BY <2>1, <2>5
    <3>2. w.ctl[g] \in CtlrVals BY <1>3, <2>2, VfuCtl
    <3>3. x \in CtlrVals BY <2>2, <3>2 DEF CtlrVals
    <3>4. x = [vfu.ctl[g] EXCEPT !.disc = @ \cup {m.q}] BY <1>3
    <3> HIDE DEF x
    <3>5. /\ y \in VfuStates /\ y.ctl[g] = x /\ \A h \in CtlrIds \ {g} : y.ctl[h] = w.ctl[h]
          /\ y.ep = w.ep /\ y.sub = w.sub /\ y.rpc = w.rpc /\ y.msgs = w.msgs
          /\ y.left = w.left /\ y.crash = w.crash /\ y.seen = w.seen
      BY <1>3, <2>2, <3>3, PutVfuCtl
    <3> HIDE DEF y
    <3>6. SameOthers(y, vfu, g) BY <1>3, <3>5 DEF SameOthers
    <3>7. VfuSound(y) BY <1>3, <1>10, <2>5, <3>4, <3>5, <3>6, DisconnectSound DEF g
    <3> QED BY <3>1, <3>7 DEF VfuInv
  <2> QED BY <2>3, <2>4, <2>5
<1> QED BY <1>2, <1>4, <1>5, <1>6, <1>7, <1>8, <1>9, <1>10

(* The last queue pair of a controller is closed. *)
LEMMA CloseEnds ==
    ASSUME NEW u, VfuSound(u), NEW g \in CtlrIds, u.ep.ctrlr = g, u.ep.st = "listed" => u.ep.needRelisten,
           NEW out \in VfuStates, out.ep = [u.ep EXCEPT !.ctrlr = NoCtrlr], out.msgs = u.msgs, out.sub = u.sub,
           out.seen = u.seen, SameOthers(out, u, g),
           out.ctl[g].sqs = {}, out.ctl[g].disc = {}, out.ctl[g].queued => out.ctl[g].pend \in VfuRequestKinds,
           NEW w, w = IF u.ctl[g].src /\ u.ep.needResume THEN Resume(out).w ELSE out
    PROVE  Ended(w, g)
<1>1. u \in VfuStates /\ u.ep \in VfuEps
  BY VfuFields DEF VfuSound
<1>2. /\ out.ep.ctrlr = NoCtrlr /\ out.ep.st = u.ep.st /\ out.ep.poller = u.ep.poller
      /\ out.ep.needRelisten = u.ep.needRelisten /\ out.ep.needResume = u.ep.needResume
  BY <1>1 DEF VfuEps
<1>3. /\ w \in VfuStates /\ Onward(w, out) /\ w.ep = out.ep /\ w.ctl = out.ctl
      /\ u.ctl[g].src /\ u.ep.needResume =>
            ResumingIn(w) \/ "late resume" \in w.seen \/ "resume refused" \in w.seen
  <2>1. CASE u.ctl[g].src /\ u.ep.needResume
    BY <1>2, <2>1, ResumeFacts
  <2>2. CASE ~(u.ctl[g].src /\ u.ep.needResume)
    BY <2>2, OnwardSame DEF SameListener
  <2> QED BY <2>1, <2>2
<1>4. SameEnding(w, out)
  BY <1>3 DEF Onward, Steady
<1>5. /\ RelistingIn(w) <=> RelistingIn(out)
      /\ \A h : (FreeSent(w, h) <=> FreeSent(out, h)) /\ (DisconnectSent(w, h) <=> DisconnectSent(out, h))
  BY <1>3, <1>4, EndingKept
<1>6. /\ RelistingIn(w) <=> RelistingIn(u)
      /\ \A h : (FreeSent(w, h) <=> FreeSent(u, h)) /\ (DisconnectSent(w, h) <=> DisconnectSent(u, h))
  BY <1>5 DEF RelistingIn, FreeSent, DisconnectSent
<1>7. /\ ~u.ep.poller /\ ~RelistingIn(u)
      /\ \A h \in CtlrIds \ {g} : u.ctl[h].st \in {"none", "freed"}
  BY OthersIdle
<1>8. ~FreeSent(u, g)
  BY DEF VfuSound, CtlrSound
<1>9. ASSUME NEW h \in CtlrIds, h # g PROVE IdleCtlr(w, h)
  <2>1. CtlrSound(u, h) /\ u.ctl[h].st \in {"none", "freed"}
    BY <1>7, <1>9 DEF VfuSound
  <2>2. IdleCtlr(u, h)
    BY <2>1, IdleFrom
  <2>3. w.ctl[h] = u.ctl[h]
    BY <1>3, <1>9 DEF SameOthers
  <2> QED BY <1>6, <2>2, <2>3 DEF IdleCtlr
<1>10. ResumeSound(w)
  <2>1. ResumeSound(u)
    BY DEF VfuSound
  <2>2. (ResumingIn(u) => ResumingIn(w)) /\ u.seen \subseteq w.seen
    <3>1. ResumingIn(u) <=> ResumingIn(out) BY DEF ResumingIn
    <3> QED BY <1>3, <3>1 DEF Onward
  <2>3. w.ep.needResume = u.ep.needResume
    BY <1>2, <1>3
  <2> QED BY <1>3, <2>1, <2>2, <2>3 DEF ResumeSound
<1> QED BY <1>2, <1>3, <1>6, <1>7, <1>8, <1>9, <1>10 DEF Ended

(* nvmf_vfio_user_close_qpair. *)
LEMMA CloseVfuSound ==
    ASSUME NEW u, VfuSound(u), NEW g \in CtlrIds, NEW q \in VfuQueues, q \in u.ctl[g].disc
    PROVE  VfuInv(CloseVfuQpair(u, g, q))
<1> DEFINE c == u.ctl[g]
           x == [c EXCEPT !.sqs = @ \ {q}, !.disc = @ \ {q}]
           closed == [u EXCEPT !.ctl[g] = x]
           e == [u.ep EXCEPT !.ctrlr = NoCtrlr]
           out == [closed EXCEPT !.ep = e]
           w == IF c.src /\ u.ep.needResume THEN Resume(out).w ELSE out
           v == CloseVfuQpair(u, g, q)
           less == [u EXCEPT !.ctl[g].sqs = @ \ {q}, !.ctl[g].disc = @ \ {q}]
           left == [less EXCEPT !.ep.ctrlr = NoCtrlr]
<1>1. u \in VfuStates /\ c \in CtlrVals /\ u.ep \in VfuEps /\ CtlrSound(u, g)
  BY VfuFields, VfuCtl DEF VfuSound
<1>2. u.ep.ctrlr = g /\ c.sqs # {}
  BY <1>1 DEF CtlrSound
<1>3. /\ c.st \notin {"none", "freeing", "freed"} /\ c.disc \subseteq c.sqs /\ c.st # "creating"
      /\ c.st = "pausing" \/ c.queued => c.pend \in VfuRequestKinds
      /\ u.ep.st = "listed" => u.ep.needRelisten
  BY <1>1, <1>2 DEF CtlrSound
<1>4. less = closed
  BY <1>1, VfuFields DEF VfuStates
<1>5. left = out
  <2>1. left = [closed EXCEPT !.ep.ctrlr = NoCtrlr]
    BY <1>4
  <2>2. closed.ep = u.ep
    BY <1>1 DEF VfuStates
  <2> HIDE DEF closed, left
  <2> QED BY <2>1, <2>2
<1>6. v = IF closed.ctl[g].sqs # {} THEN closed ELSE FreeCtrlr(w, g, q = 0)
  <2>1. v = IF less.ctl[g].sqs # {} THEN less
            ELSE FreeCtrlr(IF c.src /\ u.ep.needResume THEN Resume(left).w ELSE left, g, q = 0)
    BY DEF CloseVfuQpair
  <2> HIDE DEF less, left, v, closed, out
  <2> QED BY <1>4, <1>5, <2>1
<1>7. /\ x \in CtlrVals /\ x.st = c.st /\ x.sqs = c.sqs \ {q} /\ x.disc = c.disc \ {q} /\ x.queued = c.queued
      /\ x.pend = c.pend /\ x.src = c.src
  BY <1>1 DEF CtlrVals
<1> HIDE DEF x
<1>8. /\ closed \in VfuStates /\ closed.ctl[g] = x /\ \A h \in CtlrIds \ {g} : closed.ctl[h] = u.ctl[h]
      /\ closed.ep = u.ep /\ closed.sub = u.sub /\ closed.rpc = u.rpc /\ closed.msgs = u.msgs
      /\ closed.left = u.left /\ closed.crash = u.crash /\ closed.seen = u.seen
  BY <1>1, <1>7, PutVfuCtl
<1> HIDE DEF closed
<1>9. e \in VfuEps
  BY <1>1, VfuCountsAssumption DEF VfuEps, NoCtrlr
<1>10. e = [u.ep EXCEPT !.ctrlr = NoCtrlr]
  OBVIOUS
<1> HIDE DEF e
<1>11. /\ out \in VfuStates /\ out.ep = e
       /\ out.ctl = closed.ctl /\ out.sub = closed.sub /\ out.rpc = closed.rpc /\ out.msgs = closed.msgs
       /\ out.left = closed.left /\ out.crash = closed.crash /\ out.seen = closed.seen
  BY <1>8, <1>9, PutVfuEp
<1> HIDE DEF out, v
<1>12. SameOthers(closed, u, g) /\ SameOthers(out, u, g)
  BY <1>8, <1>11 DEF SameOthers
<1>13. CASE closed.ctl[g].sqs # {}
  <2>1. Onward(closed, u)
    BY <1>8, OnwardSame DEF SameListener
  <2>2. Steady(closed, u) /\ (QuiescingIn(u) => QuiescingIn(closed)) /\ (ResumingIn(u) => ResumingIn(closed))
    BY <2>1 DEF Onward
  <2>3. g # NoCtrlr
    BY <1>1, VfuEpFields
  <2>4. WaitSound(u, g) /\ ResumeSound(u)
    BY <1>2, <2>3 DEF VfuSound
  <2>5. WaitSound(closed, g)
    BY <1>7, <1>8, <2>2, <2>4 DEF WaitSound
  <2>6. ResumeSound(closed)
    BY <1>2, <1>7, <1>8, <2>2, <2>4 DEF ResumeSound
  <2>7. /\ closed.ctl[g].st \notin {"none", "freeing", "freed"} /\ closed.ctl[g].disc \subseteq closed.ctl[g].sqs
        /\ closed.ctl[g].disc \subseteq u.ctl[g].disc
        /\ closed.ctl[g].st = "creating" => closed.ctl[g].sqs = {}
        /\ closed.ctl[g].st = "pausing" \/ closed.ctl[g].queued => closed.ctl[g].pend \in VfuRequestKinds
    BY <1>3, <1>7, <1>8
  <2>8. \A h \in CtlrIds : h # g => closed.ctl[h] = u.ctl[h]
    BY <1>12 DEF SameOthers
  <2>9. VfuSound(closed)
    BY <1>2, <2>2, <2>5, <2>6, <2>7, <2>8, SteadySound
  <2> QED BY <1>6, <1>13, <2>9 DEF VfuInv, v
<1>14. CASE closed.ctl[g].sqs = {}
  <2>1. x.sqs = {} /\ x.disc = {}
    BY <1>3, <1>7, <1>8, <1>14
  <2>2. w = IF u.ctl[g].src /\ u.ep.needResume THEN Resume(out).w ELSE out
    OBVIOUS
  <2>3. out.ctl[g].st = c.st
    BY <1>7, <1>8, <1>11
  <2>4. w.ctl = out.ctl
    <3>1. out.ep.ctrlr = NoCtrlr BY <1>1, <1>10, <1>11 DEF VfuEps
    <3>2. Resume(out).w.ctl = out.ctl BY <1>11, <3>1, ResumeFacts
    <3> QED BY <3>2
  <2> HIDE DEF w
  <2>5. Ended(w, g)
    BY <1>2, <1>3, <1>7, <1>8, <1>10, <1>11, <1>12, <2>1, <2>2, CloseEnds
  <2>6. w.ctl[g].st # "creating"
    BY <1>3, <2>3, <2>4
  <2>7. CASE q = 0
    <3>1. v = LastStep(w, g) BY <1>6, <1>14, <2>6, <2>7 DEF FreeCtrlr
    <3> QED BY <2>5, <3>1, LastStepSound DEF v
  <2>8. CASE q # 0
    <3>1. v = VfuSend(SetVfu(w, g, "freeing"), [k |-> "free", g |-> g])
      BY <1>6, <1>14, <2>6, <2>8 DEF FreeCtrlr
    <3> QED BY <2>5, <3>1, FreeingSound DEF v
  <2> QED BY <2>7, <2>8
<1> QED BY <1>13, <1>14

---------------------------------------------------------------------------
(* The steps of the threads *)

(* The listener's state, and the disconnections of the controller that has
   the endpoint, change; nothing else does that counts. *)
LEMMA ListenerSound ==
    ASSUME NEW u, VfuSound(u), NEW v, v \in VfuStates,
           v.ep.ctrlr = u.ep.ctrlr, v.ep.needResume = u.ep.needResume, v.ep.poller => u.ep.poller,
           v.ep.st = "listed" =>
              u.ep.st = "listed" /\ v.ep.poller = u.ep.poller /\ (u.ep.needRelisten => v.ep.needRelisten),
           v.sub = u.sub, u.seen \subseteq v.seen,
           \A m \in VfuMsgs : m.k # "disconnect" => (m \in v.msgs <=> m \in u.msgs),
           \A h \in CtlrIds : h # u.ep.ctrlr =>
                v.ctl[h] = u.ctl[h] /\ (DisconnectSent(v, h) => DisconnectSent(u, h)),
           u.ep.ctrlr # NoCtrlr =>
               LET c == v.ctl[u.ep.ctrlr]
                   d == u.ctl[u.ep.ctrlr] IN
               /\ c.st = d.st /\ c.sqs = d.sqs /\ c.disc \subseteq c.sqs /\ c.src = d.src /\ c.queued = d.queued
               /\ c.pend = d.pend \/ (c.st # "pausing" /\ ~c.queued /\ c.pend = "gone")
               /\ v.ep.st = "listed" => v.ep.needRelisten \/ (c.disc = d.disc
                                          /\ (DisconnectSent(v, u.ep.ctrlr) => DisconnectSent(u, u.ep.ctrlr)))
    PROVE  VfuSound(v)
<1> DEFINE g == u.ep.ctrlr
<1>1. u \in VfuStates /\ v.msgs \subseteq VfuMsgs /\ u.msgs \subseteq VfuMsgs
  BY VfuFields DEF VfuSound
<1>2. \A m : m.k # "disconnect" => (m \in v.msgs <=> m \in u.msgs)
  BY <1>1
<1>3. /\ RelistingIn(v) <=> RelistingIn(u)
      /\ QuiescingIn(v) <=> QuiescingIn(u)
      /\ ResumingIn(v) <=> ResumingIn(u)
      /\ \A h : FreeSent(v, h) <=> FreeSent(u, h)
  BY <1>2 DEF RelistingIn, QuiescingIn, ResumingIn, FreeSent
<1>4. \A h \in CtlrIds : /\ v.ctl[h].st = u.ctl[h].st /\ v.ctl[h].sqs = u.ctl[h].sqs
                         /\ v.ctl[h].queued = u.ctl[h].queued /\ v.ctl[h].src = u.ctl[h].src
  BY VfuEpFields, <1>1
<1>5. ASSUME NEW h \in CtlrIds PROVE CtlrSound(v, h)
  <2>1. CtlrSound(u, h) /\ h # NoCtrlr
    BY <1>1, VfuEpFields DEF VfuSound
  <2>2. CASE h # g
    <3>1. v.ctl[h] = u.ctl[h] /\ (DisconnectSent(v, h) => DisconnectSent(u, h)) BY <2>2
    <3>2. /\ v.ep.st = "listed" /\ (\/ v.ctl[h].disc # {} \/ v.ctl[h].st = "freeing"
                                    \/ v.ctl[h].st # "freed" /\ DisconnectSent(v, h)) => v.ep.needRelisten
      BY <2>1, <3>1 DEF CtlrSound
    <3> QED BY <1>3, <1>4, <2>1, <3>1, <3>2 DEF CtlrSound
  <2>3. CASE h = g
    <3>1. v.ctl[h].st \notin {"none", "freeing", "freed"} /\ u.ctl[h].st \notin {"none", "freeing", "freed"}
      BY <1>4, <2>1, <2>3 DEF CtlrSound
    <3>2. /\ v.ctl[h].disc \subseteq v.ctl[h].sqs
          /\ v.ctl[h].pend = u.ctl[h].pend \/ (v.ctl[h].st # "pausing" /\ ~v.ctl[h].queued)
          /\ v.ep.st = "listed" => v.ep.needRelisten \/ (v.ctl[h].disc = u.ctl[h].disc
                                      /\ (DisconnectSent(v, h) => DisconnectSent(u, h)))
      BY <2>1, <2>3
    <3>3. v.ctl[h].st = "pausing" \/ v.ctl[h].queued => v.ctl[h].pend \in VfuRequestKinds
      BY <1>4, <2>1, <3>2 DEF CtlrSound
    <3>4. v.ep.st = "listed" /\ (v.ctl[h].disc # {} \/ DisconnectSent(v, h)) => v.ep.needRelisten
      BY <2>1, <3>1, <3>2 DEF CtlrSound
    <3> QED BY <1>3, <1>4, <2>1, <2>3, <3>1, <3>2, <3>3, <3>4 DEF CtlrSound
  <2> QED BY <2>2, <2>3
<1>6. EpSound(v)
  <2>1. VfuIdle(v) <=> VfuIdle(u)
    BY <1>4 DEF VfuIdle
  <2>2. EpSound(u)
    BY DEF VfuSound
  <2> QED BY <1>3, <1>4, <2>1, <2>2 DEF EpSound
<1>7. g # NoCtrlr => g \in CtlrIds
  BY <1>1, VfuEpFields
<1>8. ASSUME g # NoCtrlr PROVE WaitSound(v, g)
  <2>1. WaitSound(u, g)
    BY <1>8 DEF VfuSound
  <2>2. v.ctl[g].pend = u.ctl[g].pend \/ v.ctl[g].pend = "gone"
    BY <1>8
  <2> QED BY <1>3, <1>4, <1>7, <1>8, <2>1, <2>2 DEF WaitSound
<1>9. ResumeSound(v)
  <2>1. ResumeSound(u)
    BY DEF VfuSound
  <2> QED BY <1>3, <1>4, <1>7, <2>1 DEF ResumeSound
<1> QED BY <1>5, <1>6, <1>8, <1>9 DEF VfuSound

(* A lost client: its controller is destroyed. *)
LEMMA LoseClientSound ==
    ASSUME VfuSound(vfu), NEW g \in CtlrIds, LoseClient(g)
    PROVE  VfuSound(vfu')
<1> DEFINE e == [vfu.ep EXCEPT !.needRelisten = TRUE]
           c == vfu.ctl[g]
           x == [c EXCEPT !.pend = "gone"]
           sent == {[k |-> "disconnect", g |-> g, q |-> q] : q \in c.sqs}
           y == vfu.msgs \cup sent
           a == [vfu EXCEPT !.ep = e]
           b == [a EXCEPT !.ctl[g] = x]
           v == [b EXCEPT !.msgs = y]
<1>1. vfu \in VfuStates /\ vfu.ep \in VfuEps /\ c \in CtlrVals /\ vfu.msgs \in SUBSET VfuMsgs
  BY VfuFields, VfuCtl DEF VfuSound
<1>2. vfu.ep.ctrlr = g /\ c.pend = "none" /\ vfu' = DestroyCtrlr(vfu, g)
  BY DEF LoseClient
<1>3. DestroyCtrlr(vfu, g) = [vfu EXCEPT !.ep = e, !.ctl[g] = x, !.msgs = y]
  BY <1>1, VfuFields DEF DestroyCtrlr, VfuStates
<1>4. [vfu EXCEPT !.ep = e, !.ctl[g] = x, !.msgs = y] = v
  BY <1>1 DEF VfuStates
<1>5. /\ e \in VfuEps /\ e.needRelisten /\ e.st = vfu.ep.st /\ e.ctrlr = g /\ e.poller = vfu.ep.poller
      /\ e.needResume = vfu.ep.needResume
  BY <1>1, <1>2 DEF VfuEps
<1>6. /\ x \in CtlrVals /\ x.st = c.st /\ x.sqs = c.sqs /\ x.disc = c.disc /\ x.src = c.src /\ x.queued = c.queued
      /\ x.pend = "gone"
  BY <1>1 DEF CtlrVals
<1>7. \A m \in sent : m \in VfuMsgs /\ m.k = "disconnect" /\ m.g = g
  BY <1>1, VfuCtlFields, ProtocolMsgs
<1>8. y \in SUBSET VfuMsgs /\ \A m \in y : m \in vfu.msgs \/ (m.k = "disconnect" /\ m.g = g)
  BY <1>1, <1>7
<1>9. vfu.msgs \subseteq y
  OBVIOUS
<1> HIDE DEF e, x, y
<1>10. /\ a \in VfuStates /\ a.ep = e
       /\ a.ctl = vfu.ctl /\ a.sub = vfu.sub /\ a.rpc = vfu.rpc /\ a.msgs = vfu.msgs
       /\ a.left = vfu.left /\ a.crash = vfu.crash /\ a.seen = vfu.seen
  BY <1>1, <1>5, PutVfuEp
<1> HIDE DEF a
<1>11. /\ b \in VfuStates /\ b.ctl[g] = x /\ \A h \in CtlrIds \ {g} : b.ctl[h] = a.ctl[h]
       /\ b.ep = a.ep /\ b.sub = a.sub /\ b.rpc = a.rpc /\ b.msgs = a.msgs
       /\ b.left = a.left /\ b.crash = a.crash /\ b.seen = a.seen
  BY <1>6, <1>10, PutVfuCtl
<1> HIDE DEF b
<1>12. /\ v \in VfuStates /\ v.msgs = y
       /\ v.ep = b.ep /\ v.ctl = b.ctl /\ v.sub = b.sub /\ v.rpc = b.rpc
       /\ v.left = b.left /\ v.crash = b.crash /\ v.seen = b.seen
  BY <1>8, <1>11, PutVfuMsgs
<1> HIDE DEF v
<1>13. g # NoCtrlr /\ CtlrSound(vfu, g)
  BY <1>1, VfuEpFields DEF VfuSound
<1>14. c.st # "pausing" /\ ~c.queued /\ c.disc \subseteq c.sqs
  BY <1>2, <1>13 DEF CtlrSound, VfuRequestKinds
<1>15. \A h \in CtlrIds : h # g => v.ctl[h] = vfu.ctl[h] /\ (DisconnectSent(v, h) => DisconnectSent(vfu, h))
  BY <1>8, <1>10, <1>11, <1>12 DEF DisconnectSent
<1>16. \A m \in VfuMsgs : m.k # "disconnect" => (m \in v.msgs <=> m \in vfu.msgs)
  BY <1>8, <1>9, <1>12
<1>17. v.ctl[g] = x /\ v.ep = e /\ v.sub = vfu.sub /\ v.seen = vfu.seen
  BY <1>10, <1>11, <1>12
<1>20. \A h \in CtlrIds : h # vfu.ep.ctrlr =>
           v.ctl[h] = vfu.ctl[h] /\ (DisconnectSent(v, h) => DisconnectSent(vfu, h))
  BY <1>2, <1>15
<1>21. v.ep.needRelisten /\ v.ep.ctrlr = vfu.ep.ctrlr /\ v.ep.needResume = vfu.ep.needResume
       /\ v.ep.poller = vfu.ep.poller /\ v.ep.st = vfu.ep.st
  BY <1>2, <1>5, <1>17
<1>22. LET z == v.ctl[vfu.ep.ctrlr]
           d == vfu.ctl[vfu.ep.ctrlr] IN
       /\ z.st = d.st /\ z.sqs = d.sqs /\ z.disc \subseteq z.sqs /\ z.src = d.src /\ z.queued = d.queued
       /\ z.st # "pausing" /\ ~z.queued /\ z.pend = "gone"
  BY <1>2, <1>6, <1>14, <1>17
<1>23. v \in VfuStates /\ v.sub = vfu.sub /\ vfu.seen \subseteq v.seen
  BY <1>12, <1>17
<1>29. VfuSound(v)
  <2> HIDE DEF c, sent
  <2> QED BY <1>16, <1>20, <1>21, <1>22, <1>23, ListenerSound
<1> QED BY <1>2, <1>3, <1>4, <1>29

(* The listener is removed. *)
LEMMA RemoveListenerSound ==
    ASSUME VfuSound(vfu), RemoveListener
    PROVE  VfuSound(vfu')
<1> DEFINE g == vfu.ep.ctrlr
           e == [vfu.ep EXCEPT !.st = "removing"]
           w == [vfu EXCEPT !.ep = e]
           c == w.ctl[g]
           x == [c EXCEPT !.disc = c.sqs]
           v == [w EXCEPT !.ctl[g] = x]
<1>1. vfu \in VfuStates /\ vfu.ep \in VfuEps /\ (g # NoCtrlr => g \in CtlrIds)
  BY VfuFields, VfuEpFields DEF VfuSound
<1>2. [vfu EXCEPT !.ep.st = "removing"] = w
  BY <1>1 DEF VfuStates
<1>3. vfu' = IF g = NoCtrlr THEN w ELSE [w EXCEPT !.ctl[g].disc = w.ctl[g].sqs]
  BY <1>2 DEF RemoveListener
<1>4. [w EXCEPT !.ctl[g].disc = w.ctl[g].sqs] = v
  OBVIOUS
<1>5. /\ e \in VfuEps /\ e.st = "removing" /\ e.ctrlr = g /\ e.poller = vfu.ep.poller
      /\ e.needResume = vfu.ep.needResume
  BY <1>1 DEF VfuEps
<1> HIDE DEF e
<1>6. /\ w \in VfuStates /\ w.ep = e
      /\ w.ctl = vfu.ctl /\ w.sub = vfu.sub /\ w.rpc = vfu.rpc /\ w.msgs = vfu.msgs
      /\ w.left = vfu.left /\ w.crash = vfu.crash /\ w.seen = vfu.seen
  BY <1>1, <1>5, PutVfuEp
<1> HIDE DEF w
<1>7. CASE g = NoCtrlr
  <2>1. VfuSound(w)
    BY <1>5, <1>6, <1>7, ListenerSound DEF DisconnectSent
  <2> QED BY <1>3, <1>7, <2>1
<1>8. CASE g # NoCtrlr
  <2>1. c \in CtlrVals /\ g \in CtlrIds
    BY <1>1, <1>6, <1>8, VfuCtl
  <2>2. /\ x \in CtlrVals /\ x.st = c.st /\ x.sqs = c.sqs /\ x.disc = c.sqs /\ x.src = c.src
        /\ x.queued = c.queued /\ x.pend = c.pend
    BY <2>1 DEF CtlrVals
  <2> HIDE DEF x
  <2>3. /\ v \in VfuStates /\ v.ctl[g] = x /\ \A h \in CtlrIds \ {g} : v.ctl[h] = w.ctl[h]
        /\ v.ep = w.ep /\ v.sub = w.sub /\ v.rpc = w.rpc /\ v.msgs = w.msgs
        /\ v.left = w.left /\ v.crash = w.crash /\ v.seen = w.seen
    BY <1>6, <2>1, <2>2, PutVfuCtl
  <2> HIDE DEF v
  <2>4. \A h \in CtlrIds : h # g => v.ctl[h] = vfu.ctl[h] /\ (DisconnectSent(v, h) => DisconnectSent(vfu, h))
    BY <1>6, <2>3 DEF DisconnectSent
  <2>5. /\ v.ctl[g] = x /\ v.ep = e /\ v.sub = vfu.sub /\ v.seen = vfu.seen /\ v.msgs = vfu.msgs
        /\ c = vfu.ctl[g]
    BY <1>6, <2>3
  <2>6. LET z == v.ctl[vfu.ep.ctrlr]
            d == vfu.ctl[vfu.ep.ctrlr] IN
        /\ z.st = d.st /\ z.sqs = d.sqs /\ z.disc \subseteq z.sqs /\ z.src = d.src /\ z.queued = d.queued
        /\ z.pend = d.pend
    BY <2>2, <2>5
  <2>7. v.ep.st # "listed" /\ v.ep.ctrlr = vfu.ep.ctrlr /\ v.ep.needResume = vfu.ep.needResume
        /\ v.ep.poller = vfu.ep.poller
    BY <1>5, <2>5
  <2>8. VfuSound(v)
    BY <2>3, <2>4, <2>5, <2>6, <2>7, ListenerSound
  <2> QED BY <1>3, <1>4, <1>8, <2>8
<1> QED BY <1>7, <1>8

(* The listener stops. *)
LEMMA StopListenSound ==
    ASSUME VfuSound(vfu), StopListen
    PROVE  VfuSound(vfu')
<1> DEFINE s == IF vfu.ep.ctrlr = NoCtrlr THEN "freed" ELSE "removed"
           p == vfu.ep.poller /\ vfu.ep.ctrlr # NoCtrlr
           e == [vfu.ep EXCEPT !.st = s, !.poller = p]
           v == [vfu EXCEPT !.ep = e]
<1>1. vfu \in VfuStates /\ vfu.ep \in VfuEps
  BY VfuFields DEF VfuSound
<1>2. vfu' = v
  <2>1. vfu' = [vfu EXCEPT !.ep.st = s, !.ep.poller = p]
    BY <1>1 DEF StopListen, VfuEps, VfuStates
  <2> HIDE DEF s, p
  <2>2. [vfu EXCEPT !.ep.st = s, !.ep.poller = p] = v
    BY <1>1 DEF VfuStates
  <2> QED BY <2>1, <2>2
<1>3. s \in {"freed", "removed"} /\ p \in BOOLEAN /\ (p => vfu.ep.poller)
  OBVIOUS
<1> HIDE DEF s, p
<1>4. /\ e \in VfuEps /\ e.st = s /\ e.poller = p /\ e.ctrlr = vfu.ep.ctrlr /\ e.needResume = vfu.ep.needResume
  BY <1>1, <1>3 DEF VfuEps
<1> HIDE DEF e
<1>5. /\ v \in VfuStates /\ v.ep = e
      /\ v.ctl = vfu.ctl /\ v.sub = vfu.sub /\ v.rpc = vfu.rpc /\ v.msgs = vfu.msgs
      /\ v.left = vfu.left /\ v.crash = vfu.crash /\ v.seen = vfu.seen
  BY <1>1, <1>4, PutVfuEp
<1> HIDE DEF v
<1>6. vfu.ep.ctrlr # NoCtrlr => vfu.ctl[vfu.ep.ctrlr].disc \subseteq vfu.ctl[vfu.ep.ctrlr].sqs
  BY CurrentCtlr
<1>7. e.st # "listed"
  BY <1>3, <1>4
<1>8. VfuSound(v)
  BY <1>3, <1>4, <1>5, <1>6, <1>7, ListenerSound DEF DisconnectSent
<1> QED BY <1>2, <1>8

(* nvmf_vfio_user_accept. *)
LEMMA AcceptVfuSound ==
    ASSUME VfuSound(vfu), AcceptVfu
    PROVE  VfuSound(vfu')
<1>1. PICK g \in CtlrIds :
          /\ vfu.ctl[g].st = "none"
          /\ vfu' = [SetVfu(vfu, g, "creating") EXCEPT !.ep.ctrlr = g, !.ep.poller = FALSE]
  BY DEF AcceptVfu, CtlrIds
<1>2. vfu.ep.poller /\ vfu.ep.ctrlr = NoCtrlr /\ ~vfu.ep.needResume
  BY DEF AcceptVfu
<1> DEFINE f == SetVfu(vfu, g, "creating")
           e == [vfu.ep EXCEPT !.ctrlr = g, !.poller = FALSE]
           v == [f EXCEPT !.ep = e]
<1>3. vfu \in VfuStates /\ vfu.ep \in VfuEps /\ vfu.ctl[g] \in CtlrVals /\ g # NoCtrlr
  BY VfuFields, VfuCtl, VfuEpFields DEF VfuSound
<1>4. /\ f \in VfuStates /\ f.ctl[g] = [vfu.ctl[g] EXCEPT !.st = "creating"]
      /\ \A h \in CtlrIds \ {g} : f.ctl[h] = vfu.ctl[h]
      /\ f.ep = vfu.ep /\ f.sub = vfu.sub /\ f.rpc = vfu.rpc /\ f.msgs = vfu.msgs
      /\ f.left = vfu.left /\ f.crash = vfu.crash /\ f.seen = vfu.seen
  BY <1>3, SetVfuFacts, VfuStsAre
<1>5. vfu' = v
  <2> HIDE DEF f
  <2>1. vfu' = [f EXCEPT !.ep.ctrlr = g, !.ep.poller = FALSE]
    BY <1>1 DEF f
  <2> QED BY <1>4, <2>1, VfuFields DEF VfuStates
<1> HIDE DEF f
<1>6. /\ e \in VfuEps /\ e.ctrlr = g /\ ~e.poller /\ ~e.needResume /\ e.st = vfu.ep.st
      /\ e.needRelisten = vfu.ep.needRelisten
  <2>1. g \in 0 .. VfuCtrlrs
    BY VfuCountsAssumption DEF CtlrIds
  <2> QED BY <1>2, <1>3, <2>1 DEF VfuEps
<1> HIDE DEF e
<1>7. /\ v \in VfuStates /\ v.ep = e
      /\ v.ctl = f.ctl /\ v.sub = f.sub /\ v.rpc = f.rpc /\ v.msgs = f.msgs
      /\ v.left = f.left /\ v.crash = f.crash /\ v.seen = f.seen
  BY <1>4, <1>6, PutVfuEp
<1> HIDE DEF v
<1>8. CtlrSound(vfu, g)
  BY DEF VfuSound
<1>9. vfu.ctl[g] = NewVfuCtrlr /\ ~DisconnectSent(vfu, g) /\ ~FreeSent(vfu, g)
  BY <1>1, <1>8 DEF CtlrSound
<1>10. /\ v.ctl[g].st = "creating" /\ v.ctl[g].sqs = {} /\ v.ctl[g].disc = {} /\ ~v.ctl[g].queued
       /\ v.ctl[g].pend = "none"
  BY <1>4, <1>7, <1>9 DEF NewVfuCtrlr
<1>11. \A h : (FreeSent(v, h) <=> FreeSent(vfu, h)) /\ (DisconnectSent(v, h) <=> DisconnectSent(vfu, h))
  BY <1>4, <1>7 DEF FreeSent, DisconnectSent
<1>12. VfuIdle(vfu) /\ ~RelistingIn(vfu)
  BY <1>2 DEF VfuSound, EpSound
<1>13. ~RelistingIn(v)
  BY <1>4, <1>7, <1>12 DEF RelistingIn
<1>14. CtlrSound(v, g)
  BY <1>6, <1>7, <1>9, <1>10, <1>11 DEF CtlrSound
<1>15. ASSUME NEW h \in CtlrIds, h # g PROVE CtlrSound(v, h)
  <2>1. CtlrSound(vfu, h) /\ vfu.ctl[h].st \in {"none", "freed"}
    BY <1>12 DEF VfuSound, VfuIdle
  <2>2. IdleCtlr(vfu, h)
    BY <2>1, IdleFrom
  <2>3. v.ctl[h] = vfu.ctl[h]
    BY <1>4, <1>7, <1>15
  <2>4. IdleCtlr(v, h)
    BY <1>11, <2>2, <2>3 DEF IdleCtlr
  <2> QED BY <1>6, <1>7, <1>15, <2>4, IdleSound
<1>16. EpSound(v)
  BY <1>3, <1>6, <1>7, <1>13 DEF EpSound
<1>17. WaitSound(v, g)
  BY <1>10 DEF WaitSound
<1>18. ResumeSound(v)
  BY <1>6, <1>7 DEF ResumeSound
<1> QED BY <1>5, <1>6, <1>7, <1>14, <1>15, <1>16, <1>17, <1>18 DEF VfuSound

(* The controller that has the endpoint connects, or its queues change. *)
LEMMA CtlChangeSound ==
    ASSUME NEW u, VfuSound(u), NEW g \in CtlrIds, u.ep.ctrlr = g, NEW x \in CtlrVals,
           x.st \in {u.ctl[g].st, "running"}, x.pend = u.ctl[g].pend, x.queued = u.ctl[g].queued,
           x.src = u.ctl[g].src, x.disc \subseteq x.sqs, x.disc \subseteq u.ctl[g].disc,
           x.st = "creating" => x.sqs = {}
    PROVE  VfuSound([u EXCEPT !.ctl[g] = x])
<1> DEFINE v == [u EXCEPT !.ctl[g] = x]
<1>1. u \in VfuStates /\ g # NoCtrlr
  BY VfuEpFields DEF VfuSound
<1>2. /\ v \in VfuStates /\ v.ctl[g] = x /\ \A h \in CtlrIds \ {g} : v.ctl[h] = u.ctl[h]
      /\ v.ep = u.ep /\ v.sub = u.sub /\ v.rpc = u.rpc /\ v.msgs = u.msgs
      /\ v.left = u.left /\ v.crash = u.crash /\ v.seen = u.seen
  BY <1>1, PutVfuCtl
<1> HIDE DEF v
<1>3. Onward(v, u)
  BY <1>2, OnwardSame DEF SameListener
<1>4. Steady(v, u) /\ (QuiescingIn(u) => QuiescingIn(v)) /\ (ResumingIn(u) => ResumingIn(v))
  BY <1>3 DEF Onward
<1>5. /\ u.ctl[g].st \notin {"none", "freeing", "freed"}
      /\ u.ctl[g].st = "pausing" \/ u.ctl[g].queued => u.ctl[g].pend \in VfuRequestKinds
      /\ WaitSound(u, g)
  BY <1>1, CurrentCtlr
<1>6. ResumeSound(u)
  BY DEF VfuSound
<1>7. WaitSound(v, g)
  BY <1>2, <1>4, <1>5 DEF WaitSound
<1>8. ResumeSound(v)
  BY <1>2, <1>4, <1>6 DEF ResumeSound
<1>9. /\ v.ctl[g].st \notin {"none", "freeing", "freed"} /\ v.ctl[g].disc \subseteq v.ctl[g].sqs
      /\ v.ctl[g].disc \subseteq u.ctl[g].disc
      /\ v.ctl[g].st = "creating" => v.ctl[g].sqs = {}
      /\ v.ctl[g].st = "pausing" \/ v.ctl[g].queued => v.ctl[g].pend \in VfuRequestKinds
  BY <1>2, <1>5
<1>10. \A h \in CtlrIds : h # g => v.ctl[h] = u.ctl[h]
  BY <1>2
<1>11. VfuSound(v)
  BY <1>1, <1>4, <1>7, <1>8, <1>9, <1>10, SteadySound
<1> QED BY <1>11 DEF v

(* The connect command. *)
LEMMA ConnectVfuSound ==
    ASSUME VfuSound(vfu), NEW g \in CtlrIds, ConnectVfu(g)
    PROVE  VfuInv(vfu')
<1> DEFINE c == vfu.ctl[g]
           x == [c EXCEPT !.st = "running", !.sqs = {0}]
           e == [vfu.ep EXCEPT !.ctrlr = NoCtrlr]
           v == [vfu EXCEPT !.ep = e]
<1>1. vfu \in VfuStates /\ c \in CtlrVals /\ vfu.ep \in VfuEps
  BY VfuFields, VfuCtl DEF VfuSound
<1>2. CtlrSound(vfu, g) /\ c.st = "creating"
  BY DEF VfuSound, ConnectVfu
<1>3. vfu.ep.ctrlr = g /\ c.disc = {}
  BY <1>2 DEF CtlrSound
<1>4. CASE vfu' = [SetVfu(vfu, g, "running") EXCEPT !.ctl[g].sqs = {0}]
  <2>1. vfu' = [vfu EXCEPT !.ctl[g] = x]
    BY <1>1, <1>4, VfuFields DEF SetVfu, VfuStates
  <2>2. {0} \in SUBSET VfuQueues
    BY DEF VfuQueues
  <2>3. /\ x \in CtlrVals /\ x.st = "running" /\ x.disc = {} /\ x.pend = c.pend /\ x.queued = c.queued
        /\ x.src = c.src
    BY <1>1, <1>3, <2>2 DEF CtlrVals
  <2> HIDE DEF x
  <2>4. VfuSound([vfu EXCEPT !.ctl[g] = x])
    BY <1>3, <2>3, CtlChangeSound
  <2> QED BY <2>1, <2>4 DEF VfuInv
<1>5. CASE vfu' = FreeCtrlr([vfu EXCEPT !.ep.ctrlr = NoCtrlr], g, FALSE)
  <2>1. [vfu EXCEPT !.ep.ctrlr = NoCtrlr] = v
    BY <1>1 DEF VfuStates
  <2>2. e \in VfuEps
    BY <1>1, VfuCountsAssumption DEF VfuEps, NoCtrlr
  <2> HIDE DEF e
  <2>3. v \in VfuStates /\ v.ctl = vfu.ctl
    BY <1>1, <2>2, PutVfuEp
  <2>4. vfu' = FreeCtrlr(v, g, FALSE)
    BY <1>5, <2>1
  <2> HIDE DEF v
  <2>5. vfu' = VfuCrash(v, "no thread")
    BY <1>2, <2>3, <2>4 DEF FreeCtrlr
  <2>6. "no thread" \in VfuCrashes
    BY DEF VfuCrashes
  <2> QED BY <2>3, <2>5, <2>6, VfuCrashFacts DEF VfuInv
<1> QED BY <1>4, <1>5 DEF ConnectVfu

(* The client enables and disables the controller, and opens a queue. *)
LEMMA ServedSound ==
    ASSUME VfuSound(vfu), NEW g \in CtlrIds, Enable(g) \/ Disable(g) \/ OpenIoQueue(g)
    PROVE  VfuSound(vfu')
<1> DEFINE c == vfu.ctl[g]
<1>1. vfu \in VfuStates /\ c \in CtlrVals
  BY VfuCtl DEF VfuSound
<1>2. vfu.ep.ctrlr = g /\ c.st \in {"running", "paused", "resuming", "migrating"}
  BY DEF Enable, Disable, OpenIoQueue, Serves
<1>3. c.disc \subseteq c.sqs
  BY DEF VfuSound, CtlrSound
<1>4. PICK x \in CtlrVals :
         /\ vfu' = [vfu EXCEPT !.ctl[g] = x]
         /\ x.st = c.st /\ x.pend = c.pend /\ x.queued = c.queued /\ x.src = c.src
         /\ x.disc = c.disc /\ c.sqs \subseteq x.sqs
  <2>1. ASSUME NEW b \in BOOLEAN
        PROVE  LET x == [c EXCEPT !.en = b] IN
               /\ x \in CtlrVals
               /\ x.st = c.st /\ x.pend = c.pend /\ x.queued = c.queued /\ x.src = c.src
               /\ x.disc = c.disc /\ c.sqs = x.sqs
    BY <1>1 DEF CtlrVals
  <2>2. CASE Enable(g)
    <3>1. vfu' = [vfu EXCEPT !.ctl[g] = [c EXCEPT !.en = TRUE]] BY <2>2 DEF Enable
    <3> QED BY <2>1, <3>1
  <2>3. CASE Disable(g)
    <3>1. vfu' = [vfu EXCEPT !.ctl[g] = [c EXCEPT !.en = FALSE]] BY <2>3 DEF Disable
    <3> QED BY <2>1, <3>1
  <2>4. CASE OpenIoQueue(g)
    <3> DEFINE s == c.sqs \cup {1}
               x == [c EXCEPT !.sqs = s]
    <3>1. vfu' = [vfu EXCEPT !.ctl[g] = x] BY <1>1, <2>4 DEF OpenIoQueue, CtlrVals
    <3>2. c.sqs \in SUBSET VfuQueues BY <1>1, VfuCtlFields
    <3>3. s \in SUBSET VfuQueues /\ c.sqs \subseteq s BY <3>2 DEF VfuQueues
    <3> HIDE DEF s
    <3>4. /\ x \in CtlrVals
          /\ x.st = c.st /\ x.pend = c.pend /\ x.queued = c.queued /\ x.src = c.src
          /\ x.disc = c.disc /\ x.sqs = s
      BY <1>1, <3>3 DEF CtlrVals
    <3> QED BY <3>1, <3>3, <3>4
  <2> QED BY <2>2, <2>3, <2>4
<1>5. VfuSound([vfu EXCEPT !.ctl[g] = x])
  BY <1>2, <1>3, <1>4, CtlChangeSound
<1> QED BY <1>4, <1>5

(* What the mix leaves is used up. *)
LEMMA LeftRequests ==
    ASSUME NEW u \in VfuStates, u.left.requests > 0
    PROVE  LET w == [u EXCEPT !.left.requests = @ - 1]
           IN  /\ w \in VfuStates /\ Onward(w, u)
               /\ w.ep = u.ep /\ w.ctl = u.ctl /\ w.sub = u.sub /\ w.seen = u.seen /\ w.msgs = u.msgs
<1> DEFINE n == u.left.requests - 1
           x == [u.left EXCEPT !.requests = n]
           w == [u EXCEPT !.left = x]
<1>1. u.left \in VfuLefts
  BY VfuFields
<1>2. n \in Nat
  BY <1>1 DEF VfuLefts
<1>3. [u EXCEPT !.left.requests = @ - 1] = w
  BY DEF VfuStates
<1> HIDE DEF n
<1>4. x \in VfuLefts
  BY <1>1, <1>2 DEF VfuLefts
<1> HIDE DEF x
<1>5. /\ w \in VfuStates /\ w.left = x
      /\ w.ep = u.ep /\ w.ctl = u.ctl /\ w.sub = u.sub /\ w.rpc = u.rpc
      /\ w.msgs = u.msgs /\ w.crash = u.crash /\ w.seen = u.seen
  BY <1>4, PutVfuLeft
<1> HIDE DEF w
<1>6. Onward(w, u)
  BY <1>5, OnwardSame DEF SameListener
<1> QED BY <1>3, <1>5, <1>6

(* A request runs at once. *)
LEMMA RanSound ==
    ASSUME NEW u, VfuSound(u), NEW g \in CtlrIds, u.ep.ctrlr = g,
           u.ctl[g].st \in {"running", "paused", "resuming", "migrating"}, u.ctl[g].pend = "none",
           NEW w \in VfuStates, Onward(w, u), w.ep = u.ep, w.ctl = u.ctl,
           NEW v \in VfuStates, Ran(v, w, g)
    PROVE  VfuSound(v)
<1>1. Onward(v, w) /\ SameOthers(v, w, g) /\ SameCtlr(v.ctl[g], w.ctl[g])
  BY DEF Ran
<1>2. Onward(v, u)
  BY <1>1, OnwardTwice
<1>3. Steady(v, u) /\ u.seen \subseteq v.seen /\ (QuiescingIn(u) => QuiescingIn(v)) /\ (ResumingIn(u) => ResumingIn(v))
  BY <1>2 DEF Onward
<1>4. /\ v.ctl[g].pend = "none" /\ v.ctl[g].queued = u.ctl[g].queued /\ v.ctl[g].sqs = u.ctl[g].sqs
      /\ v.ctl[g].disc = u.ctl[g].disc
  BY <1>1 DEF SameCtlr
<1>5. g # NoCtrlr /\ CtlrSound(u, g) /\ ResumeSound(u)
  BY VfuEpFields DEF VfuSound
<1>6. WaitSound(u, g)
  BY <1>5 DEF VfuSound
<1>7. ~u.ctl[g].queued /\ u.ctl[g].disc \subseteq u.ctl[g].sqs
  BY <1>5 DEF CtlrSound, VfuRequestKinds
<1>8. v.ctl[g].st \in {u.ctl[g].st, "migrating", "running"} \/ Awaited(v, g)
  BY DEF Ran
<1>9. WaitSound(v, g)
  BY <1>3, <1>4, <1>6, <1>8 DEF WaitSound, Awaited
<1>10. v.ctl[g].st \in {"running", "paused", "resuming", "migrating"}
  BY <1>8 DEF Awaited
<1>11. ResumeSound(v)
  <2>1. /\ v.ep.needResume => u.ep.needResume \/ v.ctl[g].src
        /\ u.ctl[g].src => v.ctl[g].src \/ ResumingIn(v) \/ "resume refused" \in v.seen
    BY DEF Ran
  <2>2. v.ep.ctrlr = g
    BY <1>3 DEF Steady, SameListener
  <2> QED BY <1>3, <1>5, <2>1, <2>2 DEF ResumeSound
<1>12. \A h \in CtlrIds : h # g => v.ctl[h] = u.ctl[h]
  BY <1>1 DEF SameOthers
<1> QED BY <1>3, <1>4, <1>7, <1>9, <1>10, <1>11, <1>12, SteadySound

(* vfio_user_dev_quiesce_cb. *)
LEMMA RequestSound ==
    ASSUME VfuSound(vfu), NEW g \in CtlrIds, NEW kind \in VfuRequestKinds, Request(g, kind)
    PROVE  VfuInv(vfu')
<1> DEFINE c == vfu.ctl[g]
           w == [vfu EXCEPT !.left.requests = @ - 1]
           run == RunRequest(w, g, kind)
           x == [c EXCEPT !.pend = kind]
           wait == [w EXCEPT !.ctl[g] = x]
           y == [x EXCEPT !.queued = TRUE]
           late == [w EXCEPT !.ctl[g] = y]
<1>1. vfu \in VfuStates /\ c \in CtlrVals /\ g # NoCtrlr
  BY VfuCtl, VfuEpFields DEF VfuSound
<1>2. vfu.ep.ctrlr = g /\ c.st \in {"running", "paused", "resuming", "migrating"} /\ c.pend = "none"
      /\ vfu.left.requests > 0
  BY DEF Request, Serves
<1>3. /\ w \in VfuStates /\ Onward(w, vfu)
      /\ w.ep = vfu.ep /\ w.ctl = vfu.ctl /\ w.sub = vfu.sub /\ w.seen = vfu.seen /\ w.msgs = vfu.msgs
  BY <1>1, <1>2, LeftRequests
<1>4. vfu' = CASE ~c.en \/ c.st \in {"paused", "migrating"} -> run
               [] c.en /\ c.st = "running" -> Quiesce([w EXCEPT !.ctl[g].pend = kind], g)
               [] c.en /\ c.st = "resuming" -> [[w EXCEPT !.ctl[g].pend = kind] EXCEPT !.ctl[g].queued = TRUE]
  BY DEF Request
<1> HIDE DEF w
<1>5. [w EXCEPT !.ctl[g].pend = kind] = wait
  BY <1>3
<1>6. x \in CtlrVals /\ x.st = c.st /\ x.pend = kind /\ x.src = c.src /\ x.sqs = c.sqs /\ x.disc = c.disc
      /\ x.queued = c.queued
  BY <1>1 DEF CtlrVals
<1>7. y \in CtlrVals /\ y.st = c.st /\ y.pend = kind /\ y.src = c.src /\ y.sqs = c.sqs /\ y.disc = c.disc
      /\ y.queued
  BY <1>6 DEF CtlrVals
<1>8. [wait EXCEPT !.ctl[g].queued = TRUE] = late
  BY <1>1, <1>3, VfuFields DEF VfuStates
<1> HIDE DEF x, y
<1>9. /\ wait \in VfuStates /\ wait.ctl[g] = x /\ \A h \in CtlrIds \ {g} : wait.ctl[h] = w.ctl[h]
      /\ wait.ep = w.ep /\ wait.sub = w.sub /\ wait.rpc = w.rpc /\ wait.msgs = w.msgs
      /\ wait.left = w.left /\ wait.crash = w.crash /\ wait.seen = w.seen
  BY <1>3, <1>6, PutVfuCtl
<1>10. /\ late \in VfuStates /\ late.ctl[g] = y /\ \A h \in CtlrIds \ {g} : late.ctl[h] = w.ctl[h]
       /\ late.ep = w.ep /\ late.sub = w.sub /\ late.rpc = w.rpc /\ late.msgs = w.msgs
       /\ late.left = w.left /\ late.crash = w.crash /\ late.seen = w.seen
  BY <1>3, <1>7, PutVfuCtl
<1> HIDE DEF wait, late
<1>11. /\ c.st \notin {"none", "freeing", "freed"} /\ c.disc \subseteq c.sqs /\ WaitSound(vfu, g)
       /\ ResumeSound(vfu)
  BY <1>1, <1>2, CurrentCtlr DEF VfuSound
<1>12. CASE ~c.en \/ c.st \in {"paused", "migrating"}
  <2>1. vfu' = run
    BY <1>4, <1>12
  <2>2. run \in VfuStates /\ (run.crash # "no" \/ Ran(run, w, g))
    BY <1>2, <1>3, RunRequestFacts
  <2> HIDE DEF run
  <2>3. Ran(run, w, g) => VfuSound(run)
    BY <1>2, <1>3, <2>2, RanSound
  <2> QED BY <2>1, <2>2, <2>3 DEF VfuInv
<1>13. CASE c.en /\ c.st = "running"
  <2> DEFINE v == Quiesce(wait, g)
  <2>1. vfu' = v
    BY <1>4, <1>5, <1>13
  <2>2. /\ Onward(v, wait) /\ v.ep = wait.ep /\ SameOthers(v, wait, g)
        /\ v.ctl[g] = [wait.ctl[g] EXCEPT !.st = "pausing"]
        /\ QuiescingIn(v)
    BY <1>9, QuiesceFacts
  <2> HIDE DEF v
  <2>3. Onward(wait, w)
    BY <1>9, OnwardSame DEF SameListener
  <2>4. Onward(v, vfu)
    BY <1>3, <2>2, <2>3, OnwardTwice
  <2>5. Steady(v, vfu) /\ vfu.seen \subseteq v.seen /\ (ResumingIn(vfu) => ResumingIn(v))
    BY <2>4 DEF Onward
  <2>6. v.ctl[g] = [x EXCEPT !.st = "pausing"]
    BY <1>9, <2>2
  <2>7. /\ v.ctl[g].st = "pausing" /\ v.ctl[g].pend = kind /\ v.ctl[g].src = c.src /\ v.ctl[g].sqs = c.sqs
        /\ v.ctl[g].disc = c.disc
    BY <1>6, <2>6 DEF CtlrVals
  <2>8. WaitSound(v, g)
    BY <2>2, <2>7 DEF WaitSound
  <2>9. ResumeSound(v)
    <3>1. v.ep = vfu.ep /\ v.ctl[vfu.ep.ctrlr].src = vfu.ctl[vfu.ep.ctrlr].src
      BY <1>2, <1>3, <1>9, <2>2, <2>7
    <3> QED BY <1>11, <2>5, <3>1 DEF ResumeSound
  <2>10. \A h \in CtlrIds : h # g => v.ctl[h] = vfu.ctl[h]
    BY <1>3, <1>9, <2>2 DEF SameOthers
  <2>11. VfuSound(v)
    BY <1>2, <1>11, <2>5, <2>7, <2>8, <2>9, <2>10, SteadySound
  <2> QED BY <2>1, <2>11 DEF VfuInv
<1>14. CASE c.en /\ c.st = "resuming"
  <2>1. vfu' = late
    BY <1>4, <1>5, <1>8, <1>14
  <2>2. Onward(late, w)
    BY <1>10, OnwardSame DEF SameListener
  <2>3. Onward(late, vfu)
    BY <1>3, <2>2, OnwardTwice
  <2>4. Steady(late, vfu) /\ vfu.seen \subseteq late.seen /\ (ResumingIn(vfu) => ResumingIn(late))
    BY <2>3 DEF Onward
  <2>5. ResumingIn(late)
    BY <1>11, <1>14, <2>4 DEF WaitSound
  <2>6. WaitSound(late, g)
    BY <1>7, <1>10, <1>14, <2>5 DEF WaitSound
  <2>7. ResumeSound(late)
    BY <2>5 DEF ResumeSound
  <2>8. \A h \in CtlrIds : h # g => late.ctl[h] = vfu.ctl[h]
    BY <1>3, <1>10
  <2>9. late.ctl[g].st = "resuming"
    BY <1>7, <1>10, <1>14
  <2>10. VfuSound(late)
    BY <1>2, <1>7, <1>10, <1>11, <2>4, <2>6, <2>7, <2>8, <2>9, SteadySound
  <2> QED BY <2>1, <2>10 DEF VfuInv
<1> QED BY <1>2, <1>12, <1>13, <1>14

(* The subsystem's change of state ends. *)
LEMMA ChangedSound ==
    ASSUME NEW u, VfuSound(u), NEW w \in VfuStates, w.ep = u.ep, w.ctl = u.ctl, w.sub = u.sub,
           w.msgs = u.msgs, w.seen = u.seen, w.rpc = u.rpc, NEW s \in {"active", "paused", "undone"},
           u.sub.busy # "none"
    PROVE  VfuInv(SubsystemChanged(w, s))
<1> DEFINE x == [st |-> s, busy |-> "none"]
           v == [w EXCEPT !.sub = x]
           g == u.ep.ctrlr
           z == SubsystemChanged(w, s)
<1>1. u \in VfuStates /\ x \in VfuSubs /\ x.busy = "none"
  BY DEF VfuSound, VfuSubs
<1>2. z = CASE w.sub.busy \in {"vfu pause", "vfu resume"} /\ w.ep.st = "freed" -> VfuCrash(v, "freed endpoint")
            [] w.sub.busy = "vfu pause" /\ w.ep.st # "freed" -> PauseDone(v)
            [] w.sub.busy = "vfu resume" /\ w.ep.st # "freed" -> ResumeDone(v)
            [] w.sub.busy = "rpc pause" -> [v EXCEPT !.rpc = "paused"]
            [] w.sub.busy = "rpc resume" -> [v EXCEPT !.rpc = "none"]
  BY DEF SubsystemChanged
<1> HIDE DEF x
<1>3. /\ v \in VfuStates /\ v.sub = x
      /\ v.ep = w.ep /\ v.ctl = w.ctl /\ v.rpc = w.rpc /\ v.msgs = w.msgs
      /\ v.left = w.left /\ v.crash = w.crash /\ v.seen = w.seen
  BY <1>1, PutVfuSub
<1> HIDE DEF v, z
<1>4. Steady(v, u)
  BY <1>3 DEF Steady, SameListener, SameEnding
<1>5. /\ u.sub.busy # "vfu pause" => (QuiescingIn(u) => QuiescingIn(v))
      /\ u.sub.busy # "vfu resume" => (ResumingIn(u) => ResumingIn(v))
  BY <1>3 DEF QuiescingIn, ResumingIn
<1>6. u.sub.busy \in {"vfu pause", "vfu resume", "rpc pause", "rpc resume"}
  BY <1>1, VfuEpFields
<1>7. CASE u.sub.busy \in {"vfu pause", "vfu resume"} /\ w.ep.st = "freed"
  <2>1. z = VfuCrash(v, "freed endpoint")
    BY <1>2, <1>7
  <2>2. "freed endpoint" \in VfuCrashes
    BY DEF VfuCrashes
  <2> QED BY <1>3, <2>1, <2>2, VfuCrashFacts DEF VfuInv, z
<1>8. CASE u.sub.busy = "vfu pause" /\ w.ep.st # "freed"
  <2> DEFINE y == PauseDone(v)
  <2>1. z = y
    BY <1>2, <1>8
  <2>2. /\ y \in VfuStates
        /\ \/ y.crash # "no"
           \/ /\ Onward(y, v) /\ y.ep = v.ep /\ y.ctl = v.ctl
              /\ v.ep.ctrlr # NoCtrlr => QuiescingIn(y)
    BY <1>3, PauseDoneFacts
  <2> HIDE DEF y
  <2>3. ASSUME y.crash = "no" PROVE VfuSound(y)
    <3>1. Onward(y, v) /\ y.ep = u.ep /\ y.ctl = u.ctl /\ (g # NoCtrlr => QuiescingIn(y))
      BY <1>3, <2>2, <2>3
    <3>2. Steady(y, u) /\ u.seen \subseteq y.seen /\ (ResumingIn(v) => ResumingIn(y))
      BY <1>3, <1>4, <3>1, SteadyTwice DEF Onward
    <3>3. ResumingIn(u) => ResumingIn(y) BY <1>5, <1>8, <3>2
    <3> QED BY <3>1, <3>2, <3>3, SameCtlSound
  <2> QED BY <2>1, <2>3 DEF VfuInv, z
<1>9. CASE u.sub.busy = "vfu resume" /\ w.ep.st # "freed"
  <2> DEFINE y == ResumeDone(v)
  <2>1. z = y
    BY <1>2, <1>9
  <2>2. /\ y \in VfuStates
        /\ \/ y.crash # "no"
           \/ /\ Onward(y, v) /\ y.ep = v.ep /\ y.ctl = v.ctl
              /\ v.ep.ctrlr = NoCtrlr => "late resume" \in y.seen
              /\ v.ep.ctrlr # NoCtrlr => ResumingIn(y)
    BY <1>3, ResumeDoneFacts
  <2> HIDE DEF y
  <2>3. ASSUME y.crash = "no" PROVE VfuSound(y)
    <3>1. /\ Onward(y, v) /\ y.ep = u.ep /\ y.ctl = u.ctl
          /\ g = NoCtrlr => "late resume" \in y.seen
          /\ g # NoCtrlr => ResumingIn(y)
      BY <1>3, <2>2, <2>3
    <3>2. Steady(y, u) /\ u.seen \subseteq y.seen /\ (QuiescingIn(v) => QuiescingIn(y))
      BY <1>3, <1>4, <3>1, SteadyTwice DEF Onward
    <3>3. QuiescingIn(u) => QuiescingIn(y) BY <1>5, <1>9, <3>2
    <3> QED BY <3>1, <3>2, <3>3, SameCtlSound
  <2> QED BY <2>1, <2>3 DEF VfuInv, z
<1>10. CASE u.sub.busy \in {"rpc pause", "rpc resume"}
  <2>1. PICK r \in {"none", "paused"} : z = [v EXCEPT !.rpc = r]
    <3>1. u.sub.busy = "rpc pause" => z = [v EXCEPT !.rpc = "paused"] BY <1>2
    <3>2. u.sub.busy = "rpc resume" => z = [v EXCEPT !.rpc = "none"] BY <1>2
    <3> QED BY <1>10, <3>1, <3>2
  <2> DEFINE y == [v EXCEPT !.rpc = r]
  <2>2. r \in {"none", "pausing", "paused", "resuming"}
    OBVIOUS
  <2>3. /\ y \in VfuStates /\ y.rpc = r
        /\ y.ep = v.ep /\ y.ctl = v.ctl /\ y.sub = v.sub /\ y.msgs = v.msgs
        /\ y.left = v.left /\ y.crash = v.crash /\ y.seen = v.seen
    BY <1>3, <2>2, PutVfuRpc
  <2> HIDE DEF y
  <2>4. Onward(y, v)
    BY <2>3, OnwardSame DEF SameListener
  <2>5. Steady(y, u) /\ u.seen \subseteq y.seen
    BY <1>3, <1>4, <2>4, SteadyTwice DEF Onward
  <2>6. (QuiescingIn(u) => QuiescingIn(y)) /\ (ResumingIn(u) => ResumingIn(y))
    BY <1>5, <1>10, <2>4 DEF Onward
  <2>7. VfuSound(y)
    BY <1>3, <2>3, <2>5, <2>6, SameCtlSound
  <2> QED BY <2>1, <2>7 DEF VfuInv, y, z
<1> QED BY <1>6, <1>7, <1>8, <1>9, <1>10

(* The subsystem reaches the state it was asked for, or a resume is undone. *)
LEMMA ChangeSubsystemSound ==
    ASSUME VfuSound(vfu), ChangeSubsystem
    PROVE  VfuInv(vfu')
<1>1. vfu \in VfuStates
  BY DEF VfuSound
<1>2. CASE vfu.sub.busy \in {"vfu pause", "rpc pause"} /\ vfu' = SubsystemChanged(vfu, "paused")
  BY <1>1, <1>2, ChangedSound
<1>3. CASE vfu.sub.busy \in {"vfu resume", "rpc resume"} /\ vfu' = SubsystemChanged(vfu, "active")
  BY <1>1, <1>3, ChangedSound
<1>4. CASE /\ vfu.sub.busy = "vfu resume" /\ vfu.left.faults > 0
           /\ vfu' = SubsystemChanged([vfu EXCEPT !.left.faults = @ - 1], "undone")
  <2> DEFINE n == vfu.left.faults - 1
             x == [vfu.left EXCEPT !.faults = n]
             w == [vfu EXCEPT !.left = x]
  <2>1. vfu.left \in VfuLefts
    BY <1>1, VfuFields
  <2>2. n \in Nat
    <3>1. vfu.left.faults \in Nat /\ vfu.left.faults > 0 BY <1>4, <2>1 DEF VfuLefts
    <3> QED BY <3>1
  <2>3. [vfu EXCEPT !.left.faults = @ - 1] = w
    BY <1>1 DEF VfuStates
  <2> HIDE DEF n
  <2>4. x \in VfuLefts
    BY <2>1, <2>2 DEF VfuLefts
  <2> HIDE DEF x
  <2>5. /\ w \in VfuStates /\ w.left = x
        /\ w.ep = vfu.ep /\ w.ctl = vfu.ctl /\ w.sub = vfu.sub /\ w.rpc = vfu.rpc
        /\ w.msgs = vfu.msgs /\ w.crash = vfu.crash /\ w.seen = vfu.seen
    BY <1>1, <2>4, PutVfuLeft
  <2>6. vfu' = SubsystemChanged(w, "undone") /\ vfu.sub.busy # "none"
    BY <1>4, <2>3
  <2> HIDE DEF w
  <2> QED BY <2>5, <2>6, ChangedSound
<1> QED BY <1>2, <1>3, <1>4 DEF ChangeSubsystem

(* An RPC pauses and resumes. *)
LEMMA RpcSound ==
    ASSUME NEW u, VfuSound(u), u.sub.busy = "none", NEW v \in VfuStates, v.ep = u.ep, v.ctl = u.ctl,
           v.msgs = u.msgs, v.seen = u.seen
    PROVE  VfuSound(v)
<1>1. Steady(v, u)
  BY DEF Steady, SameListener, SameEnding
<1>2. (QuiescingIn(u) => QuiescingIn(v)) /\ (ResumingIn(u) => ResumingIn(v))
  BY DEF QuiescingIn, ResumingIn
<1> QED BY <1>1, <1>2, SameCtlSound

(* An RPC pauses the subsystem. *)
LEMMA RpcPauseSound ==
    ASSUME VfuSound(vfu), RpcPause
    PROVE  VfuSound(vfu')
<1> DEFINE n == vfu.left.rpcs - 1
           x == [vfu.left EXCEPT !.rpcs = n]
           w == [vfu EXCEPT !.left = x]
           s == [w.sub EXCEPT !.busy = "rpc pause"]
           a == [w EXCEPT !.sub = s]
           b == [a EXCEPT !.rpc = "pausing"]
           c == [w EXCEPT !.rpc = "paused"]
<1>1. vfu \in VfuStates /\ vfu.left \in VfuLefts
  BY VfuFields DEF VfuSound
<1>2. vfu.sub.busy = "none" /\ vfu.left.rpcs > 0
  BY DEF RpcPause
<1>3. n \in Nat
  BY <1>1, <1>2 DEF VfuLefts
<1>4. [vfu EXCEPT !.left.rpcs = @ - 1] = w
  BY <1>1 DEF VfuStates
<1>5. vfu' = IF w.sub.st = "active" THEN [w EXCEPT !.sub.busy = "rpc pause", !.rpc = "pausing"] ELSE c
  BY <1>4 DEF RpcPause
<1> HIDE DEF n
<1>6. x \in VfuLefts
  BY <1>1, <1>3 DEF VfuLefts
<1> HIDE DEF x
<1>7. /\ w \in VfuStates /\ w.left = x
      /\ w.ep = vfu.ep /\ w.ctl = vfu.ctl /\ w.sub = vfu.sub /\ w.rpc = vfu.rpc
      /\ w.msgs = vfu.msgs /\ w.crash = vfu.crash /\ w.seen = vfu.seen
  BY <1>1, <1>6, PutVfuLeft
<1> HIDE DEF w
<1>8. [w EXCEPT !.sub.busy = "rpc pause", !.rpc = "pausing"] = b
  BY <1>7, VfuFields DEF VfuStates
<1>9. s \in VfuSubs
  BY <1>7, VfuFields DEF VfuSubs
<1> HIDE DEF s
<1>10. /\ a \in VfuStates /\ a.sub = s
       /\ a.ep = w.ep /\ a.ctl = w.ctl /\ a.rpc = w.rpc /\ a.msgs = w.msgs
       /\ a.left = w.left /\ a.crash = w.crash /\ a.seen = w.seen
  BY <1>7, <1>9, PutVfuSub
<1> HIDE DEF a
<1>11. \A r \in {"pausing", "paused"} : r \in {"none", "pausing", "paused", "resuming"}
  OBVIOUS
<1>12. b \in VfuStates /\ b.ep = a.ep /\ b.ctl = a.ctl /\ b.msgs = a.msgs /\ b.seen = a.seen
  BY <1>10 DEF VfuStates
<1>13. c \in VfuStates /\ c.ep = w.ep /\ c.ctl = w.ctl /\ c.msgs = w.msgs /\ c.seen = w.seen
  BY <1>7 DEF VfuStates
<1> HIDE DEF b, c
<1>14. VfuSound(b)
  BY <1>2, <1>7, <1>10, <1>12, RpcSound
<1>15. VfuSound(c)
  BY <1>2, <1>7, <1>13, RpcSound
<1> QED BY <1>5, <1>8, <1>14, <1>15

(* An RPC resumes the subsystem. *)
LEMMA RpcResumeSound ==
    ASSUME VfuSound(vfu), RpcResume
    PROVE  VfuSound(vfu')
<1> DEFINE s == [vfu.sub EXCEPT !.busy = "rpc resume"]
           a == [vfu EXCEPT !.sub = s]
           b == [a EXCEPT !.rpc = "resuming"]
           c == [vfu EXCEPT !.rpc = "none"]
<1>1. vfu \in VfuStates
  BY DEF VfuSound
<1>2. /\ vfu.sub.busy = "none"
      /\ vfu' = IF vfu.sub.st = "active" THEN c ELSE [vfu EXCEPT !.sub.busy = "rpc resume", !.rpc = "resuming"]
  BY DEF RpcResume
<1>3. [vfu EXCEPT !.sub.busy = "rpc resume", !.rpc = "resuming"] = b
  BY <1>1, VfuFields DEF VfuStates
<1>4. s \in VfuSubs
  BY <1>1, VfuFields DEF VfuSubs
<1> HIDE DEF s
<1>5. /\ a \in VfuStates /\ a.sub = s
      /\ a.ep = vfu.ep /\ a.ctl = vfu.ctl /\ a.rpc = vfu.rpc /\ a.msgs = vfu.msgs
      /\ a.left = vfu.left /\ a.crash = vfu.crash /\ a.seen = vfu.seen
  BY <1>1, <1>4, PutVfuSub
<1> HIDE DEF a
<1>6. b \in VfuStates /\ b.ep = a.ep /\ b.ctl = a.ctl /\ b.msgs = a.msgs /\ b.seen = a.seen
  BY <1>5 DEF VfuStates
<1>7. c \in VfuStates /\ c.ep = vfu.ep /\ c.ctl = vfu.ctl /\ c.msgs = vfu.msgs /\ c.seen = vfu.seen
  BY <1>1 DEF VfuStates
<1> HIDE DEF b, c
<1>8. VfuSound(b)
  BY <1>2, <1>5, <1>6, RpcSound
<1>9. VfuSound(c)
  BY <1>2, <1>7, RpcSound
<1> QED BY <1>2, <1>3, <1>8, <1>9

(* The start. *)
LEMMA VfuInvInit == VfuInit => VfuInv(vfu)
<1> SUFFICES ASSUME VfuInit PROVE VfuSound(vfu)
  BY DEF VfuInv
<1>1. PICK mix \in VfuMixes :
        vfu = [ep |-> [st |-> "listed", ctrlr |-> NoCtrlr, poller |-> TRUE, needResume |-> FALSE,
                       needRelisten |-> FALSE, saved |-> FALSE],
               ctl |-> [g \in 1 .. VfuCtrlrs |-> NewVfuCtrlr],
               sub |-> [st |-> "active", busy |-> "none"],
               rpc |-> "none", msgs |-> {}, left |-> mix,
               crash |-> "no", seen |-> {}]
  BY DEF VfuInit
<1>2. mix \in VfuLefts
  BY VfuMixesAssumption DEF VfuLefts
<1>3. NewVfuCtrlr \in CtlrVals
  BY DEF NewVfuCtrlr, CtlrVals, VfuRequestKinds
<1>4. vfu.ctl \in [CtlrIds -> CtlrVals] /\ \A g \in CtlrIds : vfu.ctl[g] = NewVfuCtrlr /\ g # NoCtrlr
  BY <1>1, <1>3, VfuCountsAssumption DEF CtlrIds, NoCtrlr
<1>5. vfu.ep \in VfuEps /\ vfu.sub \in VfuSubs
  BY <1>1, VfuCountsAssumption DEF VfuEps, VfuSubs, NoCtrlr
<1>6. /\ vfu.msgs = {} /\ vfu.seen = {} /\ vfu.crash = "no" /\ vfu.rpc = "none" /\ vfu.left = mix
      /\ vfu.sub.busy = "none" /\ vfu.ep.st = "listed" /\ vfu.ep.ctrlr = NoCtrlr /\ vfu.ep.poller
      /\ ~vfu.ep.needResume /\ ~vfu.ep.needRelisten
  BY <1>1
<1>7. vfu = [ep |-> vfu.ep, ctl |-> vfu.ctl, sub |-> vfu.sub, rpc |-> vfu.rpc, msgs |-> vfu.msgs,
             left |-> vfu.left, crash |-> vfu.crash, seen |-> vfu.seen]
  BY <1>1
<1>8. vfu \in VfuStates
  BY <1>2, <1>4, <1>5, <1>6, <1>7 DEF VfuStates, VfuCrashes
<1>9. ~RelistingIn(vfu) /\ \A g : ~FreeSent(vfu, g) /\ ~DisconnectSent(vfu, g)
  BY <1>6 DEF RelistingIn, FreeSent, DisconnectSent
<1>10. ASSUME NEW g \in CtlrIds PROVE CtlrSound(vfu, g)
  <2>1. IdleCtlr(vfu, g)
    BY <1>4, <1>9 DEF IdleCtlr, NewVfuCtrlr
  <2> QED BY <1>4, <1>6, <2>1, IdleSound
<1>11. EpSound(vfu)
  BY <1>4, <1>6, <1>9 DEF EpSound, VfuIdle, NewVfuCtrlr
<1> QED BY <1>6, <1>8, <1>10, <1>11 DEF VfuSound, ResumeSound

(* Every step. *)
LEMMA VfuInvStep == VfuInv(vfu) /\ [VfuNext]_vfuVars => VfuInv(vfu')
<1> SUFFICES ASSUME VfuInv(vfu), [VfuNext]_vfuVars PROVE VfuInv(vfu')
  OBVIOUS
<1>1. CASE UNCHANGED vfuVars
  BY <1>1 DEF vfuVars
<1>2. CASE VfuNext
  <2>1. VfuSound(vfu)
    BY <1>2 DEF VfuNext, VfuAlive, VfuInv
  <2>2. CASE AcceptVfu
    BY <2>1, <2>2, AcceptVfuSound DEF VfuInv
  <2>3. CASE RemoveListener
    BY <2>1, <2>3, RemoveListenerSound DEF VfuInv
  <2>4. CASE StopListen
    BY <2>1, <2>4, StopListenSound DEF VfuInv
  <2>5. CASE ChangeSubsystem
    BY <2>1, <2>5, ChangeSubsystemSound
  <2>6. CASE RpcPause
    BY <2>1, <2>6, RpcPauseSound DEF VfuInv
  <2>7. CASE RpcResume
    BY <2>1, <2>7, RpcResumeSound DEF VfuInv
  <2>8. ASSUME NEW g \in 1 .. VfuCtrlrs,
               \/ ConnectVfu(g) \/ Enable(g) \/ Disable(g) \/ OpenIoQueue(g) \/ LoseClient(g)
               \/ \E kind \in VfuRequestKinds : Request(g, kind)
               \/ \E q \in VfuQueues : CloseVfu(g, q)
        PROVE  VfuInv(vfu')
    <3>1. g \in CtlrIds BY DEF CtlrIds
    <3>2. CASE ConnectVfu(g)
      BY <2>1, <3>1, <3>2, ConnectVfuSound
    <3>3. CASE Enable(g) \/ Disable(g) \/ OpenIoQueue(g)
      BY <2>1, <3>1, <3>3, ServedSound DEF VfuInv
    <3>4. CASE LoseClient(g)
      BY <2>1, <3>1, <3>4, LoseClientSound DEF VfuInv
    <3>5. CASE \E kind \in VfuRequestKinds : Request(g, kind)
      BY <2>1, <3>1, <3>5, RequestSound
    <3>6. CASE \E q \in VfuQueues : CloseVfu(g, q)
      BY <2>1, <3>1, <3>6, CloseVfuSound DEF CloseVfu
    <3> QED BY <2>8, <3>2, <3>3, <3>4, <3>5, <3>6
  <2>9. ASSUME NEW m \in vfu.msgs, HandleVfu(m) PROVE VfuInv(vfu')
    BY <2>1, <2>9, HandleVfuSound
  <2> QED BY <1>2, <2>2, <2>3, <2>4, <2>5, <2>6, <2>7, <2>8, <2>9 DEF VfuNext
<1> QED BY <1>1, <1>2

(* What the invariant says of the life of an endpoint. *)
LEMMA VfuInvLife == VfuInv(vfu) => VfuLife
<1> SUFFICES ASSUME VfuInv(vfu), VfuAlive PROVE WaitsAreAnswered /\ EndpointServes
  BY DEF VfuLife
<1> DEFINE g == vfu.ep.ctrlr
<1>1. VfuSound(vfu)
  BY DEF VfuInv, VfuAlive
<1>2. (VfuQuiescing <=> QuiescingIn(vfu)) /\ (VfuResuming <=> ResumingIn(vfu))
  BY DEF VfuQuiescing, VfuResuming, QuiescingIn, ResumingIn
<1>3. g # NoCtrlr => WaitSound(vfu, g) /\ g \in CtlrIds
  BY <1>1, CurrentCtlr
<1>4. WaitsAreAnswered
  BY <1>2, <1>3 DEF WaitsAreAnswered, WaitSound
<1>5. ASSUME VfuSettled
      PROVE  /\ g = NoCtrlr /\ vfu.ep.st = "listed" =>
                   vfu.ep.poller /\ (vfu.ep.needResume => vfu.seen \cap {"late resume", "resume refused"} # {})
             /\ g # NoCtrlr =>
                   LET c == vfu.ctl[g] IN
                   /\ c.pend \in {"none", "gone"} \/ "pause refused" \in vfu.seen
                   /\ c.st = "paused" => "resume refused" \in vfu.seen
  <2>1. vfu.msgs = {} /\ vfu.sub.busy = "none"
    BY <1>5 DEF VfuSettled
  <2>2. ~QuiescingIn(vfu) /\ ~ResumingIn(vfu) /\ ~RelistingIn(vfu) /\ \A h : ~FreeSent(vfu, h)
    BY <2>1 DEF QuiescingIn, ResumingIn, RelistingIn, FreeSent
  <2>3. \A h \in CtlrIds : vfu.ctl[h].st # "freeing"
    BY <1>1, <2>2 DEF VfuSound, CtlrSound
  <2>4. g = NoCtrlr /\ vfu.ep.st = "listed" => vfu.ep.poller
    BY <1>1, <2>2, <2>3 DEF VfuSound, EpSound
  <2>5. g = NoCtrlr /\ vfu.ep.needResume => "late resume" \in vfu.seen \/ "resume refused" \in vfu.seen
    BY <1>1, <2>2 DEF VfuSound, ResumeSound
  <2>6. g # NoCtrlr => /\ vfu.ctl[g].pend \in {"none", "gone"} \/ "pause refused" \in vfu.seen
                       /\ vfu.ctl[g].st = "paused" => "resume refused" \in vfu.seen
    BY <1>3, <2>2 DEF WaitSound
  <2> QED BY <2>4, <2>5, <2>6
<1>6. EndpointServes
  BY <1>5 DEF EndpointServes
<1> QED BY <1>4, <1>6

(* In every behaviour a controller that waits is waited for, and an
   endpoint with nothing under way serves: VfuLife of NvmfVfioUser. *)
THEOREM VfuSoundness == VfuSpec => []VfuLife
<1>1. VfuInit => VfuInv(vfu)
  BY VfuInvInit
<1>2. VfuInv(vfu) /\ [VfuNext]_vfuVars => VfuInv(vfu)'
  BY VfuInvStep DEF VfuInv, VfuSound, VfuStates, CtlrSound, EpSound, WaitSound, ResumeSound
<1>3. VfuInv(vfu) => VfuLife
  BY VfuInvLife
<1> QED BY <1>1, <1>2, <1>3, PTL DEF VfuSpec
=============================================================================
