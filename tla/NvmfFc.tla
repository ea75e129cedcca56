------------------------------- MODULE NvmfFc -------------------------------
(***************************************************************************)
(* Associations of the FC transport (src/nvmf/fc.c, fc_ls.c): one local    *)
(* port (nport), the remote ports that log in to it, their associations    *)
(* and connections, and how all of them are deleted.                       *)
(*                                                                         *)
(* The main thread executes the driver's events, the link service (LS)     *)
(* requests and the callbacks; a poll group's thread executes the          *)
(* connections.  They send each other messages, which arrive in order.     *)
(* The driver, the host, the memory allocator and the target library's     *)
(* life of a queue pair are external.                                      *)
(***************************************************************************)
EXTENDS Integers, FiniteSets, Sequences, SequencesExt

CONSTANTS
    FcRports,      \* the remote ports
    FcAssocs,      \* bound: the associations that are created, 1 .. FcAssocs
    FcPool,        \* max_qpairs_per_ctrlr: the connections of an association
    FcMixes        \* bounds: [rports, assocs, ls, its, nports, losses, commands, faults]

ASSUME FcCountsAssumption == FcAssocs \in Nat \ {0} /\ FcPool \in Nat \ {0}

VARIABLE fc   \* the nport and everything under it, see FcInit
fcVars == <<fc>>

FcConns == (1 .. FcAssocs) \X (1 .. FcPool)
NoRport == "none"
NewConn == [st |-> "unused", admin |-> FALSE, id |-> FALSE, opd |-> FALSE, hashed |-> FALSE,
            dels |-> <<>>, lib |-> "none", exec |-> 0, pend |-> 0, left |-> 0, backend |-> FALSE]

(* conn: id says that the poll group has set hwqp and conn_id, opd that    *)
(* the LS request that creates it is held, dels lists the callbacks of its *)
(* deletions, exec and pend count its commands in the library and waiting  *)
(* for a buffer, left the aborts that its deletion waits for.              *)
(* owed: the answers and callbacks that the driver and the host wait for.  *)
FcInit ==
    \E mix \in FcMixes :
    fc = [nport |-> [st |-> "created", assocs |-> 0],
          rport |-> [s \in FcRports |-> [st |-> "none", assocs |-> 0]],
          assoc |-> [a \in 1 .. FcAssocs |->
                       [st |-> "unused", rport |-> NoRport, known |-> FALSE, cbs |-> <<>>, count |-> 0,
                        avail |-> [i \in 1 .. FcPool |-> i]]],
          conn  |-> [c \in FcConns |-> NewConn],
          lswait |-> <<>>, main |-> <<>>, group |-> <<>>,
          owed  |-> [ls |-> 0, it |-> 0, nport |-> 0],
          left  |-> mix, crash |-> "no", seen |-> {}]

FcAlive == fc.crash = "no"
FcCrash(w, why) == IF w.crash = "no" THEN [w EXCEPT !.crash = why] ELSE w
FcNote(w, what) == [w EXCEPT !.seen = @ \cup {what}]
ToMain(w, msg) == [w EXCEPT !.main = Append(@, msg)]
ToGroup(w, msg) == [w EXCEPT !.group = Append(@, msg)]
FcAnswer(w, who) == [w EXCEPT !.owed[who] = @ - 1]
FcOwe(w, who) == [w EXCEPT !.owed[who] = @ + 1]

FcListed(w, a) == w.assoc[a].st \in {"created", "deleting"}
FcOf(w, s) == {a \in 1 .. FcAssocs : FcListed(w, a) /\ w.assoc[a].rport = s}
FcHeld(w, c) == w.conn[c].st \in {"created", "deleting"}
FcConnsOf(w, a) == {c \in FcConns : c[1] = a /\ FcHeld(w, c)}
FcNoRport(w) == \A s \in FcRports : w.rport[s].st = "none"

---------------------------------------------------------------------------
(* The end of a deletion: connection, association, remote port, nport      *)

(* nvmf_fc_adm_delete_nport_cb, without an error. *)
NportDone(w) ==
    IF FcNoRport(w) THEN FcAnswer([w EXCEPT !.nport.st = "freed"], "nport") ELSE w

(* nvmf_fc_adm_i_t_delete_assoc_cb: the last association takes the remote  *)
(* port with it; the event's callback is the driver's or NportDone.        *)
RportDone(w, s, by) ==
    IF w.rport[s].assocs # 0 THEN w
    ELSE LET gone == [w EXCEPT !.rport[s].st = "none"]
         IN  IF by = "nport" THEN NportDone(gone) ELSE FcAnswer(gone, "it")

(* One callback of nvmf_fc_do_del_assoc_cbs: LS Disconnect is answered, or *)
(* the deletion of the remote port goes on.                                *)
AssocDone(w, cb) == IF cb.k = "ls" THEN FcAnswer(w, "ls") ELSE RportDone(w, cb.s, cb.by)

(* nvmf_fc_del_connection. *)
DelConnection(w, c) ==
    LET a == c[1]
        returned == [w EXCEPT !.conn[c] = [@ EXCEPT !.st = "zombie", !.dels = <<>>],
                              !.assoc[a].avail = Append(@, c[2]), !.assoc[a].count = @ - 1]
        removed == [returned EXCEPT !.nport.assocs = @ - 1, !.rport[w.assoc[a].rport].assocs = @ - 1,
                                    !.assoc[a].st = "freed", !.assoc[a].cbs = <<>>]
    IN  CASE ~FcHeld(w, c) -> FcCrash(w, "removed twice")
          [] w.assoc[a].count > 1 -> returned
          [] OTHER -> FoldLeft(AssocDone, removed, w.assoc[a].cbs)

(* nvmf_fc_ls_add_conn_failure: LS reject. *)
AddConnFailure(w, c) == DelConnection(FcAnswer([w EXCEPT !.conn[c].opd = FALSE], "ls"), c)

(* nvmf_fc_do_del_conn_cbs: only the library waits for a connection. *)
ConnDone(w, cb) == IF cb.k = "fini" THEN ToGroup(w, cb) ELSE w

(* nvmf_fc_ls_poller_delete_conn_cb. *)
ConnDeleted(w, c) == FoldLeft(ConnDone, DelConnection(w, c), w.conn[c].dels)

---------------------------------------------------------------------------
(* Deletions begin on the main thread                                      *)

(* nvmf_fc_ls_poller_delete_conn: the message goes to the connection's     *)
(* hwqp, which the poll group sets.                                        *)
DeleteConn(w, c, backend, cb) ==
    LET noted == [w EXCEPT !.conn[c].dels = Append(@, cb)]
        marked == [noted EXCEPT !.conn[c].st = "deleting"]
    IN  CASE w.conn[c].st = "deleting" -> noted
          [] ~w.conn[c].id -> FcCrash(marked, "no hwqp")
          [] OTHER -> ToGroup(marked, [k |-> "del", c |-> c, backend |-> backend])

(* _nvmf_fc_delete_association: every caller is called back. *)
DeleteAssociation(w, a, cb) ==
    LET noted == [w EXCEPT !.assoc[a].cbs = Append(@, cb)]
    IN  IF w.assoc[a].st = "deleting" THEN noted
        ELSE FoldLeft(LAMBDA v, i : IF FcHeld(v, <<a, i>>)
                                    THEN DeleteConn(v, <<a, i>>, FALSE, [k |-> "none"]) ELSE v,
                      [noted EXCEPT !.assoc[a].st = "deleting"], [i \in 1 .. FcPool |-> i])

(* nvmf_fc_adm_i_t_delete_assoc. *)
DeleteAssocs(w, s, by) ==
    LET cb == [k |-> "it", s |-> s, by |-> by]
    IN  IF FcOf(w, s) = {} THEN RportDone(w, s, by)
        ELSE FoldLeft(LAMBDA v, a : IF a \in FcOf(w, s) THEN DeleteAssociation(v, a, cb) ELSE v,
                      w, [a \in 1 .. FcAssocs |-> a])

(* nvmf_fc_adm_evnt_i_t_delete: a remote port that is not there, or being  *)
(* deleted, is an error, which NportDone's caller asserts not to happen.   *)
DeleteRport(w, s, by) ==
    LET others == SelectSeq(w.lswait, LAMBDA l : l.s # s)
        kept == [w EXCEPT !.lswait = others, !.owed.ls = @ - (Len(w.lswait) - Len(others)),
                          !.rport[s].st = "deleting"]
    IN  IF w.nport.st # "freed" /\ w.rport[s].st = "created" THEN DeleteAssocs(kept, s, by)
        ELSE IF by = "nport" THEN FcCrash(w, "nport delete error") ELSE FcAnswer(w, "it")

---------------------------------------------------------------------------
(* Events of the driver                                                    *)

Spend(what) == fc.left[what] > 0
Spent(w, what) == [w EXCEPT !.left[what] = @ - 1]

(* IT add does not look at the nport's state. *)
ItAdd(s) ==
    /\ FcAlive /\ Spend("rports") /\ fc.nport.st # "freed" /\ fc.rport[s].st = "none"
    /\ LET w == Spent([fc EXCEPT !.rport[s] = [st |-> "created", assocs |-> 0]], "rports")
       IN  fc' = IF fc.nport.st = "created" THEN w ELSE FcNote(w, "late rport")

ItDelete(s) ==
    /\ FcAlive /\ Spend("its")
    /\ fc' = DeleteRport(FcOwe(Spent(fc, "its"), "it"), s, "driver")

(* The listeners may fail to be removed; a second deletion is an error. *)
NportDelete ==
    /\ FcAlive /\ Spend("nports")
    /\ LET w == Spent(FcOwe(fc, "nport"), "nports")
           begun == [w EXCEPT !.nport.st = "deleting"]
           logged == SetToSeq({s \in FcRports : fc.rport[s].st # "none"})
       IN  \/ fc.nport.st = "created" /\ Spend("faults")
              /\ fc' = Spent(FcAnswer([w EXCEPT !.nport.st = "zombie"], "nport"), "faults")
           \/ fc.nport.st = "created" /\ FcNoRport(fc)
              /\ fc' = NportDone(begun)
           \/ fc.nport.st = "created" /\ ~FcNoRport(fc)
              /\ fc' = FoldLeft(LAMBDA v, s : ToMain(v, [k |-> "itdel", s |-> s]), begun, logged)
           \/ fc.nport.st \in {"deleting", "freed"}
              /\ fc' = FcAnswer(w, "nport")
           \/ fc.nport.st = "zombie"
              /\ fc' = FcCrash(w, "zombie nport")

---------------------------------------------------------------------------
(* LS requests of the host                                                 *)

(* nvmf_fc_ls_new_connection and nvmf_fc_ls_add_conn_to_poller. *)
NewConnection(w, a, admin) ==
    LET c == <<a, Head(w.assoc[a].avail)>>
        fresh == [w EXCEPT !.assoc[a].avail = Tail(@), !.assoc[a].count = @ + 1,
                           !.conn[c] = [NewConn EXCEPT !.st = "created", !.admin = admin, !.opd = TRUE]]
    IN  IF w.conn[c].lib \in {"leaving", "lost"} THEN FcCrash(fresh, "reused qpair") ELSE fresh
AddConn(w, c, fails) ==
    IF fails THEN Spent(AddConnFailure(w, c), "faults")
    ELSE ToGroup([w EXCEPT !.conn[c].lib = "adding"], [k |-> "add", c |-> c])

(* nvmf_fc_ls_process_cass and nvmf_fc_ls_new_association. *)
CreateAssociation(w, a, s, fails) ==
    LET listed == [w EXCEPT !.nport.assocs = @ + 1, !.rport[s].assocs = @ + 1,
                            !.assoc[a] = [@ EXCEPT !.st = "created", !.rport = s]]
    IN  AddConn(NewConnection(listed, a, TRUE), <<a, 1>>, fails)

(* nvmf_fc_ls_process_cioc, with its checks of the association. *)
CreateConnection(w, a, fails) ==
    IF w.assoc[a].st # "created" \/ w.assoc[a].count >= FcPool THEN FcAnswer(w, "ls")
    ELSE AddConn(NewConnection(w, a, FALSE), <<a, Head(w.assoc[a].avail)>>, fails)

(* nvmf_fc_ls_process_disc. *)
DisconnectAssociation(w, a) ==
    IF FcListed(w, a) THEN DeleteAssociation(w, a, [k |-> "ls"]) ELSE FcAnswer(w, "ls")

(* nvmf_fc_handle_ls_rqst. *)
HandleLs(w, ls, fails) ==
    CASE ls.k = "assoc"      -> CreateAssociation(w, ls.a, ls.s, fails)
      [] ls.k = "conn"       -> CreateConnection(w, ls.a, fails)
      [] ls.k = "disconnect" -> DisconnectAssociation(w, ls.a)

(* An LS request of a host that knows the association, or a new one: taken *)
(* when nport and remote port are there, at once or when an exchange is    *)
(* free (nvmf_fc_hwqp_process_frame).                                      *)
FcReady(s) == fc.nport.st = "created" /\ fc.rport[s].st = "created"
LsFrame(ls) ==
    /\ FcAlive /\ FcReady(ls.s)
    /\ LET w == IF ls.k = "assoc" THEN Spent(FcOwe(fc, "ls"), "assocs") ELSE Spent(FcOwe(fc, "ls"), "ls")
       IN  \/ fc.lswait = <<>> /\ fc' = HandleLs(w, ls, FALSE)
           \/ fc.lswait = <<>> /\ Spend("faults") /\ ls.k # "disconnect" /\ fc' = HandleLs(w, ls, TRUE)
           \/ fc.lswait = <<>> /\ Spend("faults") /\ fc' = Spent([w EXCEPT !.lswait = <<ls>>], "faults")
           \/ fc.lswait # <<>> /\ fc' = [w EXCEPT !.lswait = Append(@, ls)]
LsAssociation(s) ==
    Spend("assocs") /\ \E a \in 1 .. FcAssocs :
        /\ fc.assoc[a].st = "unused" /\ \A b \in 1 .. a - 1 : fc.assoc[b].st # "unused"
        /\ ~\E i \in DOMAIN fc.lswait : fc.lswait[i].k = "assoc"
        /\ LsFrame([k |-> "assoc", a |-> a, s |-> s])
LsOther(k, a) ==
    Spend("ls") /\ fc.assoc[a].known /\ LsFrame([k |-> k, a |-> a, s |-> fc.assoc[a].rport])

(* nvmf_fc_hwqp_process_pending_ls_rqsts: one request at a time; requests  *)
(* of deleted ports are dropped, as by nvmf_fc_delete_ls_pending.          *)
PendingLs ==
    /\ FcAlive /\ fc.lswait # <<>>
    /\ LET w == [fc EXCEPT !.lswait = Tail(@)]
           ls == Head(fc.lswait)
       IN  IF FcReady(ls.s) THEN fc' = HandleLs(w, ls, FALSE) ELSE fc' = FcAnswer(w, "ls")

---------------------------------------------------------------------------
(* The main thread's messages                                              *)

(* nvmf_fc_ls_add_conn_cb: no answer when the association is being         *)
(* deleted; an answer that cannot be sent deletes the connection.          *)
AddConnDone(w, c, fails) ==
    LET taken == [w EXCEPT !.conn[c].opd = FALSE]
        known == IF w.conn[c].admin THEN [taken EXCEPT !.assoc[c[1]].known = TRUE] ELSE taken
    IN  CASE w.assoc[c[1]].st = "deleting" -> FcNote(FcAnswer(taken, "ls"), "no answer")
          [] fails -> DeleteConn(Spent(FcAnswer(taken, "ls"), "faults"), c, FALSE, [k |-> "none"])
          [] OTHER -> FcAnswer(known, "ls")

(* _nvmf_fc_close_qpair: the library closes its queue pair, which lies in  *)
(* the connection's memory.                                                *)
CloseFcQpair(w, msg) ==
    LET c == msg.c
        fini == [k |-> "fini", c |-> c, del |-> msg.del]
        done(v) == IF msg.cb THEN ToGroup(v, fini) ELSE v
    IN  CASE w.assoc[c[1]].st = "freed" -> FcNote(done(w), "stale close")
          [] ~w.conn[c].id -> done(IF w.conn[c].opd THEN AddConnFailure(w, c) ELSE w)
          [] w.conn[c].st = "created" -> DeleteConn(w, c, TRUE, IF msg.cb THEN fini ELSE [k |-> "none"])
          [] OTHER -> done(w)

MainMessage ==
    /\ FcAlive /\ fc.main # <<>>
    /\ LET msg == Head(fc.main)
           w == [fc EXCEPT !.main = Tail(@)]
       IN  \/ msg.k = "itdel" /\ fc' = DeleteRport(w, msg.s, "nport")
           \/ msg.k = "added" /\ fc' = AddConnDone(w, msg.c, FALSE)
           \/ msg.k = "added" /\ Spend("faults") /\ fc.assoc[msg.c[1]].st = "created"
              /\ fc' = AddConnDone(w, msg.c, TRUE)
           \/ msg.k = "deleted" /\ fc' = ConnDeleted(w, msg.c)
           \/ msg.k = "close" /\ fc' = CloseFcQpair(w, msg)

---------------------------------------------------------------------------
(* The poll group's thread                                                 *)

(* nvmf_fc_poll_group_add; when it fails the library closes the queue pair. *)
PollGroupAdd(w, c, fails) ==
    CASE fails -> ToMain(Spent([w EXCEPT !.conn[c].lib = "closed"], "faults"),
                         [k |-> "close", c |-> c, del |-> FALSE, cb |-> FALSE])
      [] ~w.conn[c].opd -> FcCrash(w, "no create_opd")
      [] OTHER -> ToGroup([w EXCEPT !.conn[c] = [@ EXCEPT !.id = TRUE, !.lib = "active"]],
                          [k |-> "hash", c |-> c])

(* nvmf_fc_poller_api_add_connection. *)
AddConnection(w, c) == ToMain([w EXCEPT !.conn[c].hashed = TRUE], [k |-> "added", c |-> c])

(* The connection leaves the poller's lookup data; its queue pair is       *)
(* disconnected, unless the library does that already.                     *)
LeavePoller(w, c) ==
    LET left == [w EXCEPT !.conn[c].hashed = FALSE, !.conn[c].left = 0]
        told == ToMain(left, [k |-> "deleted", c |-> c])
    IN  CASE ~w.conn[c].backend /\ w.conn[c].lib = "active" -> [left EXCEPT !.conn[c].lib = "leaving"]
          [] ~w.conn[c].backend /\ w.conn[c].lib # "closed" -> FcNote(told, "both delete")
          [] OTHER -> told

(* nvmf_fc_poller_api_del_connection. *)
PollerDelete(w, c, backend) ==
    LET aborts == w.conn[c].exec + w.conn[c].pend
        asked == [w EXCEPT !.conn[c].backend = backend, !.conn[c].left = aborts]
    IN  CASE ~w.conn[c].hashed -> ToMain(w, [k |-> "deleted", c |-> c])
          [] aborts = 0 -> LeavePoller(asked, c)
          [] OTHER -> asked

(* The library's queue pair is closed; nvmf_fc_disconnect_qpair_cb, if it  *)
(* was the connection's deletion that disconnected it.                     *)
QpairClosed(w, msg) ==
    LET closed == IF w.conn[msg.c].lib = "closing" THEN [w EXCEPT !.conn[msg.c].lib = "closed"] ELSE w
    IN  IF msg.del THEN ToMain(closed, [k |-> "deleted", c |-> msg.c]) ELSE closed

GroupMessage ==
    /\ FcAlive /\ fc.group # <<>>
    /\ LET msg == Head(fc.group)
           w == [fc EXCEPT !.group = Tail(@)]
       IN  \/ msg.k = "add" /\ fc' = PollGroupAdd(w, msg.c, FALSE)
           \/ msg.k = "add" /\ Spend("faults") /\ fc' = PollGroupAdd(w, msg.c, TRUE)
           \/ msg.k = "hash" /\ fc' = AddConnection(w, msg.c)
           \/ msg.k = "del" /\ fc' = PollerDelete(w, msg.c, msg.backend)
           \/ msg.k = "fini" /\ fc' = QpairClosed(w, msg)

(* nvmf_fc_poller_conn_abort_done. *)
AbortDone(c, kind) ==
    /\ FcAlive /\ fc.conn[c].left > 0 /\ fc.conn[c][kind] > 0
    /\ LET w == [fc EXCEPT !.conn[c][kind] = @ - 1, !.conn[c].left = @ - 1]
       IN  fc' = IF w.conn[c].left > 0 THEN w ELSE LeavePoller(w, c)

(* nvmf_fc_hwqp_handle_request: executed, or waiting for a buffer. *)
Command(c, kind) ==
    /\ FcAlive /\ Spend("commands") /\ fc.conn[c].hashed /\ fc.conn[c].st = "created"
    /\ fc.assoc[c[1]].st = "created" /\ fc.conn[c].lib = "active" /\ fc.conn[c][kind] = 0
    /\ fc' = Spent([fc EXCEPT !.conn[c][kind] = 1], "commands")
CommandDone(c) ==
    /\ FcAlive /\ fc.conn[c].left = 0
    /\ \/ fc.conn[c].exec > 0 /\ fc' = [fc EXCEPT !.conn[c].exec = 0]
       \/ fc.conn[c].pend > 0 /\ fc.conn[c].exec = 0
          /\ fc' = [fc EXCEPT !.conn[c].pend = 0, !.conn[c].exec = IF fc.conn[c].lib = "active" THEN 1 ELSE 0]

(* The library, external: it disconnects a queue pair on its own account,  *)
(* and closes it when none of its commands is left.                        *)
LibraryDisconnects(c) ==
    /\ FcAlive /\ Spend("losses") /\ fc.conn[c].lib = "active"
    /\ fc' = Spent([fc EXCEPT !.conn[c].lib = "lost"], "losses")
LibraryCloses(c) ==
    /\ FcAlive /\ fc.conn[c].lib \in {"leaving", "lost"} /\ fc.conn[c].exec = 0
    /\ fc' = ToMain([fc EXCEPT !.conn[c].lib = "closing"],
                    [k |-> "close", c |-> c, del |-> fc.conn[c].lib = "leaving", cb |-> TRUE])

FcNext ==
    \/ \E s \in FcRports : ItAdd(s) \/ ItDelete(s) \/ LsAssociation(s)
    \/ NportDelete
    \/ \E a \in 1 .. FcAssocs : LsOther("conn", a) \/ LsOther("disconnect", a)
    \/ PendingLs \/ MainMessage \/ GroupMessage
    \/ \E c \in FcConns, kind \in {"exec", "pend"} : AbortDone(c, kind) \/ Command(c, kind)
    \/ \E c \in FcConns : CommandDone(c) \/ LibraryDisconnects(c) \/ LibraryCloses(c)

FcSpec == FcInit /\ [][FcNext]_fcVars

---------------------------------------------------------------------------
FcTypeOK ==
    /\ fc.nport \in [st : {"created", "deleting", "zombie", "freed"}, assocs : 0 .. FcAssocs]
    /\ fc.rport \in [FcRports -> [st : {"none", "created", "deleting"}, assocs : 0 .. FcAssocs]]
    /\ \A a \in 1 .. FcAssocs :
          fc.assoc[a].count \in 0 .. FcPool /\ fc.assoc[a].st \in {"unused", "created", "deleting", "freed"}
    /\ \A c \in FcConns : fc.conn[c].exec \in 0 .. 1 /\ fc.conn[c].pend \in 0 .. 1 /\ fc.conn[c].left \in 0 .. 2

(* The counts that decide which deletion takes its parent along agree with *)
(* the lists, and nothing is freed under what still points to it.          *)
FcCountsMatch ==
    /\ fc.nport.assocs = Cardinality({a \in 1 .. FcAssocs : FcListed(fc, a)})
    /\ \A s \in FcRports : fc.rport[s].assocs = Cardinality(FcOf(fc, s))
    /\ \A a \in 1 .. FcAssocs :
          /\ fc.assoc[a].count = Cardinality(FcConnsOf(fc, a))
          /\ FcListed(fc, a) => fc.nport.st # "freed" /\ fc.rport[fc.assoc[a].rport].st # "none"

(* The poller looks up only connections of an association that is there;   *)
(* the library touches a freed queue pair only when both sides deleted it. *)
FcPollerSees ==
    /\ \A c \in FcConns : fc.conn[c].hashed => FcHeld(fc, c) /\ FcListed(fc, c[1])
    /\ "stale close" \in fc.seen => "both delete" \in fc.seen

(* When nothing is under way, every deletion has come to its end and every *)
(* caller was answered; only a remote port that logged in to a deleted     *)
(* nport keeps it.                                                         *)
FcSettled ==
    /\ fc.main = <<>> /\ fc.group = <<>> /\ fc.lswait = <<>>
    /\ \A c \in FcConns : fc.conn[c].left = 0 /\ fc.conn[c].lib \notin {"leaving", "lost", "closing"}
FcEnds ==
    FcAlive /\ FcSettled =>
        /\ \A s \in FcRports : fc.rport[s].st # "deleting"
        /\ \A a \in 1 .. FcAssocs : fc.assoc[a].st # "deleting"
        /\ \A c \in FcConns : fc.conn[c].st # "deleting"
        /\ fc.owed.ls = 0 /\ fc.owed.it = 0
        /\ fc.nport.st = "deleting" \/ fc.owed.nport > 0 => "late rport" \in fc.seen

(* Nothing is taken off a list twice, and the parts above. *)
FcLinks ==
    /\ fc.crash # "removed twice"
    /\ FcAlive => FcCountsMatch /\ FcPollerSees /\ FcEnds
=============================================================================
