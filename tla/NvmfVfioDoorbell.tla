-------------------------- MODULE NvmfVfioDoorbell --------------------------
(***************************************************************************)
(* The doorbells and the interrupts of an I/O queue pair of the vfio-user  *)
(* transport (src/nvmf/vfio_user.c), between the guest's driver and the    *)
(* thread of the poll group.                                               *)
(*                                                                         *)
(* In interrupt mode the poll group sleeps.  The guest writes its tail to  *)
(* the shadow doorbell, and to BAR0, which wakes the poll group, only when *)
(* the tail passes the event index; the poll group sets the event index    *)
(* before it sleeps and looks again.  In polling mode the poll group never *)
(* sleeps, and interrupts are suppressed while the guest keeps up.  The    *)
(* guest is external: the Linux driver, as the comments of the code have   *)
(* it.                                                                     *)
(***************************************************************************)
EXTENDS Integers

CONSTANTS
    RingSize,        \* entries of either queue
    RearmAttempts,   \* NVMF_VFIO_USER_SET_EVENTIDX_MAX_ATTEMPTS
    DoorbellMixes    \* bounds: [intr, commands, pauses, creates]; intr: interrupt mode

ASSUME RingSizeAssumption == RingSize \in Nat \ {0, 1} /\ RingSize <= 65536
ASSUME RearmAssumption == RearmAttempts \in Nat \ {0}
ASSUME DoorbellMixesAssumption ==
    DoorbellMixes \subseteq [intr : BOOLEAN, commands : Nat, pauses : Nat, creates : Nat]

VARIABLE db   \* the queue pair, its poll group and its guest, see DoorbellInit
dbVars == <<db>>

(* A slip: the index does not wrap. *)
AdvanceEndless(i) == i + 1

Advance(i) == (i + 1) % RingSize

(* guest: "written" between the shadow doorbell and the look at the event  *)
(* index, was the tail before.  busy: commands under way.                  *)
DoorbellInit ==
    \E mix \in DoorbellMixes :
    db = [intr |-> mix.intr, state |-> "running", failed |-> FALSE, left |-> mix,
          guest |-> [tail |-> 0, was |-> 0, pc |-> "idle", open |-> 0, handler |-> FALSE],
          pg |-> [pc |-> IF mix.intr THEN "rearm" ELSE "poll", wake |-> FALSE, old |-> 0, tries |-> 0],
          sq |-> [head |-> 0, eidx |-> 0, rearm |-> mix.intr],
          cq |-> [tail |-> 0, head |-> 0, lastHead |-> 0, lastIrq |-> 0, irq |-> FALSE, idle |-> 0],
          busy |-> 0]

(* nvme_dbbuf_need_event of the guest, on indices of 16 bits. *)
NeedEvent(eidx, new, old) == (new - eidx - 1) % 65536 < (new - old) % 65536

---------------------------------------------------------------------------
(* nvmf_vfio_user_sq_poll *)

(* handle_suppressed_irq; idle: polls that found nothing new in the queue. *)
SuppressedIrq(w) ==
    LET c == w.cq
        late == c.head # c.tail /\ c.head = c.lastHead
        seen == [w EXCEPT !.cq.lastHead = c.head, !.cq.idle = IF late /\ @ < 2 THEN @ + 1 ELSE @]
    IN  IF c.tail = c.lastIrq THEN [w EXCEPT !.cq.idle = IF @ < 2 THEN @ + 1 ELSE @]
        ELSE IF late THEN [seen EXCEPT !.cq.irq = TRUE, !.cq.lastIrq = c.tail] ELSE seen

NewCommands(w) == (w.guest.tail - w.sq.head) % RingSize
Consume(w) == [w EXCEPT !.sq.head = w.guest.tail, !.sq.rearm = w.intr, !.busy = @ + NewCommands(w)]
PollSq(w) ==
    CASE w.state # "running" -> w
      [] w.state = "running" /\ w.intr -> Consume(w)
      [] w.state = "running" /\ ~w.intr -> Consume(SuppressedIrq(w))

(* fail_ctrlr *)
Fail(w) == [w EXCEPT !.failed = TRUE]

---------------------------------------------------------------------------
(* The poll group *)

(* nvmf_vfio_user_poll_group_poll *)
PollGroup == /\ ~db.intr /\ db.pg.pc = "poll"
             /\ db' = PollSq(db)
WakeGroup ==
    LET w == PollSq([db EXCEPT !.pg.wake = FALSE]) IN
    /\ db.pg.pc = "sleep" /\ db.pg.wake
    /\ db' = [w EXCEPT !.pg.pc = IF w.sq.rearm THEN "rearm" ELSE "sleep", !.pg.tries = 0]

(* set_sq_eventidx: the tail is read, written to the event index, and read *)
(* again.                                                                  *)
ReadTail == /\ db.pg.pc = "rearm"
            /\ db' = [db EXCEPT !.pg.pc = "write", !.pg.old = db.guest.tail]
WriteEventidx == /\ db.pg.pc = "write"
                 /\ db' = [db EXCEPT !.pg.pc = "check", !.sq.eidx = db.pg.old]

(* A slip: the poll group sleeps without another look at the tail. *)
CheckTailNot == /\ db.pg.pc = "check"
                /\ db' = [db EXCEPT !.sq.rearm = FALSE, !.pg.pc = "sleep"]

(* The rest of vfio_user_sq_rearm. *)
CheckTail ==
    LET w == PollSq(db)
        slept == [w EXCEPT !.pg.pc = "sleep"]
        last == db.pg.tries + 1 = RearmAttempts
    IN  /\ db.pg.pc = "check"
        /\ db' = CASE db.guest.tail = db.sq.head -> [db EXCEPT !.sq.rearm = FALSE, !.pg.pc = "sleep"]
                   [] db.guest.tail # db.sq.head /\ w.sq.head = db.sq.head -> Fail(slept)
                   [] db.guest.tail # db.sq.head /\ w.sq.head # db.sq.head /\ last ->
                        [slept EXCEPT !.pg.wake = TRUE]
                   [] db.guest.tail # db.sq.head /\ w.sq.head # db.sq.head /\ ~last ->
                        [w EXCEPT !.pg.pc = "rearm", !.pg.tries = @ + 1]

(* post_completion, on the thread of the poll group. *)
PostCompletion ==
    LET next == Advance(db.cq.tail) IN
    /\ db.busy > 0 /\ db.pg.pc \in {"sleep", "poll"}
    /\ db' = IF next = db.cq.head THEN Fail([db EXCEPT !.busy = @ - 1])
             ELSE [db EXCEPT !.busy = @ - 1, !.cq.tail = next, !.cq.irq = @ \/ db.intr, !.cq.idle = 0]

(* The controller's thread pauses the controller, and resumes it with a    *)
(* kick of the poll groups.                                                *)
PauseCtrlr == /\ db.state = "running" /\ db.left.pauses > 0
              /\ db' = [db EXCEPT !.state = "paused", !.left.pauses = @ - 1]
ResumeRunning == /\ db.state = "paused"
                 /\ db' = [db EXCEPT !.state = "running", !.pg.wake = @ \/ db.intr]

(* A queue that is deleted and created again (handle_create_io_cq and      *)
(* handle_create_io_sq); what they leave alone stays.                      *)
CreateAgain ==
    /\ ~db.intr /\ db.left.creates > 0 /\ db.guest.open = 0 /\ db.guest.pc = "idle"
    /\ ~db.guest.handler /\ ~db.cq.irq /\ db.pg.pc = "poll"
    /\ db' = [db EXCEPT !.left.creates = @ - 1, !.guest.tail = 0, !.sq.head = 0,
                        !.cq.tail = 0, !.cq.head = 0, !.cq.idle = 0]

---------------------------------------------------------------------------
(* The guest *)

Ring == /\ db.guest.pc = "idle" /\ db.left.commands > 0 /\ db.guest.open < RingSize - 1
        /\ db' = [db EXCEPT !.guest.was = db.guest.tail, !.guest.tail = Advance(@), !.guest.open = @ + 1,
                            !.guest.pc = IF db.intr THEN "written" ELSE "idle",
                            !.left.commands = @ - 1]
LookAtEventidx ==
    /\ db.guest.pc = "written"
    /\ db' = [db EXCEPT !.guest.pc = "idle",
                        !.pg.wake = @ \/ NeedEvent(db.sq.eidx, db.guest.tail, db.guest.was)]
Interrupt == /\ db.cq.irq /\ ~db.guest.handler
             /\ db' = [db EXCEPT !.cq.irq = FALSE, !.guest.handler = TRUE]
HandleCompletion == /\ db.guest.handler /\ db.cq.head # db.cq.tail
                    /\ db' = [db EXCEPT !.cq.head = Advance(@), !.guest.open = @ - 1, !.cq.idle = 0]
HandlerDone == /\ db.guest.handler /\ db.cq.head = db.cq.tail
               /\ db' = [db EXCEPT !.guest.handler = FALSE]

DoorbellNext ==
    /\ ~db.failed
    /\ \/ PollGroup \/ WakeGroup \/ ReadTail \/ WriteEventidx \/ CheckTail \/ PostCompletion
       \/ PauseCtrlr \/ ResumeRunning \/ CreateAgain
       \/ Ring \/ LookAtEventidx \/ Interrupt \/ HandleCompletion \/ HandlerDone

DoorbellSpec == DoorbellInit /\ [][DoorbellNext]_dbVars

---------------------------------------------------------------------------
(* Properties *)

(* The values of the rings, of the guest and of the poll group. *)
DoorbellTypeOK ==
    /\ {db.guest.tail, db.sq.head, db.sq.eidx, db.cq.tail, db.cq.head} \subseteq 0 .. RingSize - 1
    /\ db.guest.pc \in {"idle", "written"} /\ db.guest.open \in 0 .. RingSize - 1
    /\ db.pg.pc \in {"poll", "sleep", "rearm", "write", "check"}
    /\ db.pg.tries \in 0 .. RearmAttempts - 1
    /\ db.state \in {"running", "paused"} /\ db.busy \in 0 .. RingSize - 1

(* A poll group that sleeps has taken every command of a running queue, or *)
(* is going to be woken: by the kick that was sent, or by the guest, which *)
(* has written its tail and will find that the event index asks for BAR0.  *)
WakesUp ==
    db.intr /\ db.pg.pc = "sleep" /\ ~db.pg.wake /\ db.state = "running" /\ ~db.failed =>
        \/ db.guest.tail = db.sq.head
        \/ db.guest.pc = "written" /\ NeedEvent(db.sq.eidx, db.guest.tail, db.guest.was)
=============================================================================
