------------------------------- MODULE NetRecv -------------------------------
(***************************************************************************)
(* The connection classes of netpool, CNetRecv and CNetAccept              *)
(* (netpool/outclass), on top of the event loops and jobs of NetPoll.      *)
(*                                                                         *)
(* A connection keeps a queue of data to send (under the spin lock         *)
(* m_queue_lock), three flags for what it believes is registered with the  *)
(* library, and m_is_freed (under the mutex m_register_lock).  send_data   *)
(* and free are called by any thread; the callbacks run in loop 0, since   *)
(* m_thrd_index is 0 for ever (set_thrd_index assigns nothing).  The       *)
(* connection is deleted by its own free callback, in loop 0.              *)
(*                                                                         *)
(* Every step that calls the library is a NetPoll action together with     *)
(* what the caller does around it; all other steps leave NetPoll alone.    *)
(*                                                                         *)
(* Abstracted: addresses, logging, and the boundaries of buffer nodes: all *)
(* nodes of a queue are full but for the last, so the queue is the         *)
(* sequence of its units and its first node the first NodeSize of them.    *)
(***************************************************************************)
EXTENDS NetPoll, Sequences

SX == INSTANCE SequencesExt

CONSTANTS
    Conns,      \* CNetRecv objects
    Acceptors,  \* CNetAccept objects
    MsgLen,     \* bound: the lengths, in units, of the messages of a behaviour
    NodeSize,   \* BUF_NODE_SIZE, in units
    Modes,      \* whether init_async_write_resource is called: values of m_is_async_write
    Habits      \* what the application does and does not do

(***************************************************************************)
(* The habits.  CNetRecv enforces none of them.                            *)
(*   freeInLoop    free is called by callbacks of the loop only            *)
(*   initInLoop    connections are made and initialised in callbacks       *)
(*   deferDelete   free_handle waits until no thread is inside a call on   *)
(*                 the connection (the default one deletes at once)        *)
(*   sendReady     nothing is sent before init has returned, or before     *)
(*                 is_connected on a connection that connects              *)
(*   afterConnect  other threads send only once the connect callback has   *)
(*                 returned                                                *)
(*   memEnough     m_new_mem_func never returns NULL                       *)
(*   oneWriter     without async write, one send_data at a time            *)
(***************************************************************************)
AllHabits == {"freeInLoop", "initInLoop", "deferDelete", "sendReady",
              "afterConnect", "memEnough", "oneWriter"}

ASSUME NodeSizeAssumption == NodeSize \in Nat \ {0}
ASSUME MsgLenAssumption == MsgLen \in Seq(Nat \ {0})
ASSUME ModesAssumption == Modes \subseteq BOOLEAN
ASSUME HabitsAssumption == Habits \subseteq AllHabits
\* Every object passes m_thrd_index to the library, which nothing ever sets.
ASSUME ThrdIndexAssumption == \A f \in Fds : ThrdArg[f] = 0
\* Objects are told apart, and from nothing at all.
ASSUME NamesAssumption ==
    /\ Conns \cap Acceptors = {}
    /\ "none" \notin Conns \cup Acceptors
    /\ "nofd" \notin Fds
    /\ NoLoop \notin Clients

VARIABLES
    conn,       \* the fields of every CNetRecv
    acc,        \* the fields of every CNetAccept
    regLock,    \* who holds m_register_lock of a connection
    call,       \* the member function every thread is in, and where
    cb,         \* the callback loop 0 is in, and where
    cli,        \* the descriptor accept has returned, until an object takes it
    bind,       \* param1 and m_write_func of every job
    wire,       \* what went out on a connection's descriptor, in order
    given,      \* what send_data was given for a connection, in order
    nmsgs       \* messages sent so far

objVars == <<conn, acc, regLock, call, cb, cli, bind, wire, given, nmsgs>>
allVars == <<vars, objVars>>

NoFd == "nofd"
None == "none"
NoOne == NoLoop  \* nobody holds a lock
Objects == Conns \cup Acceptors

\* A unit of data: unit i of message msg, given to send_data for connection to.
Message(c, m) == [i \in 1 .. MsgLen[m] |-> [to |-> c, msg |-> m, i |-> i]]

\* The fields set by the constructors (init_common_data).
NewConn(fd, async) ==
    [mem |-> "live", fd |-> fd, dialed |-> fd = NoFd, rd |-> FALSE, wr |-> FALSE,
     cn |-> FALSE, up |-> FALSE, async |-> async, failed |-> FALSE,
     freed |-> FALSE, queue |-> <<>>, node |-> <<>>, dead |-> FALSE]

NoConn == [NewConn(NoFd, FALSE) EXCEPT !.mem = None]
NoCall == [pc |-> None, obj |-> None, data |-> <<>>, fd |-> NoFd]
NoCb == [pc |-> None, obj |-> None]
NoBind == [obj |-> None, wcb |-> None]

SendPcs == {"register", "addwrite", "wrflag"}
DirectPcs == {"directfd", "direct"}
FreeConnPcs == {"unread", "unwrite", "unlock"}

SendCbPcs == {"entry", "take", "sendbuf", "again", "againflag"}
ConnectCbPcs == {"connect", "conn_ok", "conn_bad", "cleanup", "unreg"}

RecvInit ==
    /\ Init
    /\ conn = [c \in Conns |-> NoConn]
    /\ acc = [x \in Acceptors |-> [mem |-> None, fd |-> NoFd]]
    /\ regLock = [c \in Conns |-> NoOne]
    /\ call = [a \in Actors |-> NoCall]
    /\ cb = NoCb
    /\ cli = NoFd
    /\ bind = [j \in Jobs |-> NoBind]
    /\ wire = [c \in Conns |-> <<>>]
    /\ given = [c \in Conns |-> <<>>]
    /\ nmsgs = 0
-----------------------------------------------------------------------------
(***************************************************************************)
(* Threads, calls and descriptors.                                         *)
(***************************************************************************)

\* Descriptors the kernel may hand out.
Closed == Fds \ ({conn[c].fd : c \in Conns} \cup {acc[x].fd : x \in Acceptors}
                   \cup {cli})

\* The loop runs code of the application inside its callbacks.
UserCode == \/ pc[0] = "timers" /\ cb.pc = None
            \/ cb.pc \in {"recv", "conn_ok", "conn_bad"}

\* Thread a can begin a call.
Free(a) == call[a] = NoCall /\ (a \in Clients \/ (a = 0 /\ UserCode))

Inside(a, obj) == call[a].obj = obj

Goto2(a, p) == call' = [call EXCEPT ![a].pc = p]
Return2(a) == call' = [call EXCEPT ![a] = NoCall]
CbGoto(p) == cb' = [cb EXCEPT !.pc = p]

ConnKeeps == UNCHANGED <<acc, cli, wire, given, nmsgs>>

\* After a job was made, or its write callback replaced (add_write_job stores
\* the callback on an existing job too, param1 only with a new one).
Bound(obj, fd, w) ==
    LET j == find_io_job(fd)
    IN  IF njobs' > njobs
        THEN [bind EXCEPT ![njobs'] = [obj |-> obj, wcb |-> w]]
        ELSE IF j = NoJob \/ w = None THEN bind
        ELSE [bind EXCEPT ![j].wcb = w]

\* np_add_write_job(w, m_fd, this, 0); it returned true if the kernel watches
\* the descriptor for writing now.
AddWrite(a, c, w) ==
    LET fd == conn[c].fd
        j == find_io_job(fd)
    IN  /\ IF fd = NoFd THEN UNCHANGED vars
           ELSE \/ j = NoJob /\ add_write_job_new(a, fd)
                \/ j # NoJob /\ add_write_job_more(a, fd)
                \/ j # NoJob /\ "W" \in job[j].ev /\ MgrLock /\ UNCHANGED vars
        /\ bind' = Bound(c, fd, w)
WriteAdded(c) == conn[c].fd # NoFd /\ "OUT" \in epoll'[0][conn[c].fd].ev

\* np_del_read_job and np_del_write_job: nothing happens without a job.
DelRead(a, c) ==
    IF find_io_job(conn[c].fd) = NoJob THEN MgrLock /\ UNCHANGED vars
    ELSE del_read_job(a, conn[c].fd)
DelWrite(a, c) ==
    IF find_io_job(conn[c].fd) = NoJob THEN MgrLock /\ UNCHANGED vars
    ELSE del_write_job(a, conn[c].fd)
-----------------------------------------------------------------------------
(***************************************************************************)
(* CNetRecv::send_data                                                     *)
(***************************************************************************)
MaySend(a, c) ==
    /\ "sendReady" \in Habits =>
         IF conn[c].dialed
         THEN conn[c].up \/ (a = 0 /\ cb = [pc |-> "conn_ok", obj |-> c])
         ELSE conn[c].rd \/ conn[c].freed
    /\ "afterConnect" \in Habits /\ a \in Clients =>
         ~(cb.obj = c /\ cb.pc \in ConnectCbPcs)
    /\ "oneWriter" \in Habits /\ ~conn[c].async =>
         \A b \in Actors : Inside(b, c) => call[b].pc \notin DirectPcs

\* How many units are queued before m_new_mem_func fails: the room in the last
\* node, or that and some new nodes.
FillsAtFailure(c, len) ==
    LET room == (-Len(conn[c].queue)) % NodeSize
    IN  {n \in 0 .. len - 1 : n >= room /\ (n - room) % NodeSize = 0}

\* Under the queue lock: queue the message and go on to register, or give up
\* half way, or (no async write) leave the lock and write directly.
send_data(a, c) ==
    LET m == nmsgs + 1
    IN  /\ Free(a) /\ nmsgs < Len(MsgLen) /\ conn[c].mem = "live" /\ MaySend(a, c)
        /\ nmsgs' = m
        /\ given' = [given EXCEPT ![c] = @ \o Message(c, m)]
        /\ IF ~conn[c].async
           THEN /\ call' = [call EXCEPT ![a] = [pc |-> "directfd", obj |-> c,
                                  data |-> Message(c, m), fd |-> NoFd]]
                /\ UNCHANGED conn
           ELSE \/ /\ call' = [call EXCEPT ![a].pc = "register", ![a].obj = c]
                   /\ conn' = [conn EXCEPT ![c].queue = @ \o Message(c, m)]
                \/ /\ "memEnough" \notin Habits
                   /\ \E n \in FillsAtFailure(c, MsgLen[m]) :
                        conn' = [conn EXCEPT ![c].queue =
                                   @ \o SubSeq(Message(c, m), 1, n)]
                   /\ UNCHANGED call
        /\ UNCHANGED <<vars, acc, regLock, cb, cli, bind, wire>>

\* Mutant of send_data_lock: m_is_freed is not looked at.
send_data_lock_unchecked(a) ==
    LET c == call[a].obj
    IN  /\ call[a].pc = "register" /\ regLock[c] = NoOne
        /\ Goto2(a, "addwrite") /\ regLock' = [regLock EXCEPT ![c] = a]
        /\ ConnKeeps /\ UNCHANGED <<vars, conn, cb, bind>>

\* MUTEX_LOCK(m_register_lock), and nothing more once the connection is freed.
send_data_lock(a) ==
    LET c == call[a].obj
    IN  /\ call[a].pc = "register" /\ regLock[c] = NoOne
        /\ IF conn[c].freed
           THEN Return2(a) /\ UNCHANGED regLock
           ELSE Goto2(a, "addwrite") /\ regLock' = [regLock EXCEPT ![c] = a]
        /\ ConnKeeps /\ UNCHANGED <<vars, conn, cb, bind>>

\* register_write: the job first ...
send_data_add(a) ==
    LET c == call[a].obj
    IN  /\ call[a].pc = "addwrite"
        /\ AddWrite(a, c, "send")
        /\ IF WriteAdded(c)
           THEN Goto2(a, "wrflag") /\ UNCHANGED regLock
           ELSE Return2(a) /\ regLock' = [regLock EXCEPT ![c] = NoOne]
        /\ ConnKeeps /\ UNCHANGED <<conn, cb>>

\* ... then the flag; MUTEX_UNLOCK.
send_data_flag(a) ==
    LET c == call[a].obj
    IN  /\ call[a].pc = "wrflag"
        /\ conn' = [conn EXCEPT ![c].wr = TRUE]
        /\ regLock' = [regLock EXCEPT ![c] = NoOne]
        /\ Return2(a)
        /\ ConnKeeps /\ UNCHANGED <<vars, cb, bind>>

\* sock_write_timeout(m_fd, ...): m_fd is read when the call is made ...
direct_fd(a) ==
    /\ call[a].pc = "directfd"
    /\ call' = [call EXCEPT ![a].pc = "direct", ![a].fd = conn[call[a].obj].fd]
    /\ UNCHANGED <<vars, conn, acc, regLock, cb, cli, bind, wire, given, nmsgs>>

\* ... and some units go to whoever has the descriptor by then, until all are
\* sent; or send fails, which ends the call.
direct_write(a) ==
    LET to == {d \in Conns : conn[d].fd # NoFd /\ conn[d].fd = call[a].fd
                               /\ ~conn[d].dead}
        data == call[a].data
    IN  /\ call[a].pc = "direct"
        /\ \/ \E d \in to, n \in 1 .. Len(data) :
                /\ wire' = [wire EXCEPT ![d] = @ \o SubSeq(data, 1, n)]
                /\ IF n = Len(data) THEN Return2(a)
                   ELSE call' = [call EXCEPT ![a].data = SubSeq(@, n + 1, Len(@))]
                /\ UNCHANGED conn
           \/ /\ Return2(a)
              /\ conn' = [d \in Conns |-> IF d \in to THEN [conn[d] EXCEPT !.dead = TRUE]
                                          ELSE conn[d]]
              /\ UNCHANGED wire
        /\ UNCHANGED <<vars, acc, regLock, cb, cli, bind, given, nmsgs>>
-----------------------------------------------------------------------------
(***************************************************************************)
(* CNetRecv::free: under m_register_lock, unregister what is registered.   *)
(***************************************************************************)
FreeLock(a, c) ==
    /\ regLock[c] = NoOne
    /\ regLock' = [regLock EXCEPT ![c] = a]
    /\ conn' = [conn EXCEPT ![c].freed = TRUE]
    /\ call' = [call EXCEPT ![a] = [NoCall EXCEPT
                  !.pc = IF conn[c].rd THEN "unread" ELSE "unwrite", !.obj = c]]

free(a, c) ==
    /\ Free(a) /\ conn[c].mem = "live" /\ (conn[c].rd \/ conn[c].wr \/ conn[c].cn)
    /\ "freeInLoop" \in Habits => a = 0
    /\ FreeLock(a, c)
    /\ ConnKeeps /\ UNCHANGED <<vars, cb, bind>>

unregister_read(a) ==
    LET c == call[a].obj
    IN  /\ call[a].pc = "unread"
        /\ DelRead(a, c)
        /\ conn' = [conn EXCEPT ![c].rd = FALSE]
        /\ Goto2(a, "unwrite")
        /\ ConnKeeps /\ UNCHANGED <<regLock, cb, bind>>

\* Mutant: only a connect is unregistered.
unregister_write_connect_only(a) ==
    LET c == call[a].obj
    IN  /\ call[a].pc = "unwrite"
        /\ IF conn[c].cn THEN DelWrite(a, c) ELSE UNCHANGED vars
        /\ conn' = [conn EXCEPT ![c].cn = FALSE]
        /\ Goto2(a, "unlock")
        /\ ConnKeeps /\ UNCHANGED <<regLock, cb, bind>>

\* unregister_write, else unregister_connect: they differ in the flag only.
unregister_write(a) ==
    LET c == call[a].obj
    IN  /\ call[a].pc = "unwrite"
        /\ IF conn[c].wr \/ conn[c].cn THEN DelWrite(a, c) ELSE UNCHANGED vars
        /\ conn' = IF conn[c].wr THEN [conn EXCEPT ![c].wr = FALSE]
                   ELSE [conn EXCEPT ![c].cn = FALSE]
        /\ Goto2(a, "unlock")
        /\ ConnKeeps /\ UNCHANGED <<regLock, cb, bind>>

free_unlock(a) ==
    /\ call[a].pc = "unlock"
    /\ regLock' = [regLock EXCEPT ![call[a].obj] = NoOne]
    /\ Return2(a)
    /\ ConnKeeps /\ UNCHANGED <<vars, conn, cb, bind>>
-----------------------------------------------------------------------------
(***************************************************************************)
(* CNetRecv::init: register_read, or register_connect.                     *)
(***************************************************************************)
MayInit(a) == "initInLoop" \in Habits => a = 0

\* A connection to a peer: socket and a connect that does not block.  It
\* succeeds at once (connect_handle registers for reading), or goes on, or
\* fails (the application deletes the object).
dial(a, c) ==
    /\ Free(a) /\ MayInit(a) /\ conn[c].mem = None
    /\ \E f \in Closed, async \in Modes, result \in {"at once", "pending", "error"} :
         LET new == NewConn(NoFd, async)
         IN  CASE result = "at once" ->
                    /\ conn' = [conn EXCEPT ![c] =
                                  [new EXCEPT !.fd = f, !.up = TRUE]]
                    /\ call' = [call EXCEPT ![a].pc = "addread", ![a].obj = c]
               [] result = "pending" ->
                    /\ conn' = [conn EXCEPT ![c] = [new EXCEPT !.fd = f, !.cn = TRUE]]
                    /\ call' = [call EXCEPT ![a].pc = "addconn", ![a].obj = c]
               [] OTHER ->
                    /\ conn' = [conn EXCEPT ![c] = [new EXCEPT !.mem = "gone"]]
                    /\ UNCHANGED call
    /\ ConnKeeps /\ UNCHANGED <<vars, regLock, cb, bind>>

register_connect(a) ==
    /\ call[a].pc = "addconn"
    /\ AddWrite(a, call[a].obj, "connect")
    /\ Return2(a)
    /\ ConnKeeps /\ UNCHANGED <<conn, regLock, cb>>

\* register_read: np_add_read_job, in two steps when the job exists; when it
\* fails the flag stays false.
register_read(a) ==
    LET c == call[a].obj
        fd == conn[c].fd
    IN  /\ \/ /\ call[a].pc = "addread"
              /\ \/ find_io_job(fd) = NoJob /\ add_read_job_new(a, fd)
                    /\ IF njobs' > njobs THEN Goto2(a, "rdflag") ELSE Return2(a)
                 \/ find_io_job(fd) # NoJob /\ add_read_job_ctl(a, fd)
                    /\ IF half' # half THEN Goto2(a, "addset") ELSE Return2(a)
              /\ bind' = Bound(c, fd, None)
           \/ /\ call[a].pc = "addset"
              /\ add_read_job_set(a)
              /\ Goto2(a, "rdflag") /\ UNCHANGED bind
        /\ ConnKeeps /\ UNCHANGED <<conn, regLock, cb>>

register_read_flag(a) ==
    /\ call[a].pc = "rdflag"
    /\ conn' = [conn EXCEPT ![call[a].obj].rd = TRUE]
    /\ Return2(a)
    /\ ConnKeeps /\ UNCHANGED <<vars, regLock, cb, bind>>
-----------------------------------------------------------------------------
(***************************************************************************)
(* CNetAccept                                                              *)
(***************************************************************************)

\* register_accept: sock_create_server and np_add_listen_job.
accept_init(a, x) ==
    /\ Free(a) /\ acc[x].mem = None
    /\ \E f \in Closed :
         /\ add_listen_job(a, f)
         /\ acc' = [acc EXCEPT ![x] = [mem |-> "live", fd |-> f]]
         /\ bind' = Bound(x, f, None)
    /\ UNCHANGED <<conn, regLock, call, cb, cli, wire, given, nmsgs>>

\* free, and unregister_accept: np_del_listen_job, in its two steps.
accept_free(a, x) ==
    /\ Free(a) /\ acc[x].mem = "live" /\ acc[x].fd # NoFd
    /\ "freeInLoop" \in Habits => a = 0
    /\ IF find_io_job(acc[x].fd) = NoJob THEN UNCHANGED <<vars, call>>
       ELSE /\ del_listen_job_mark(a, acc[x].fd)
            /\ call' = [call EXCEPT ![a].pc = "freelisten", ![a].obj = x]
    /\ UNCHANGED <<conn, acc, regLock, cb, cli, bind, wire, given, nmsgs>>

accept_free_ctl(a) ==
    /\ call[a].pc = "freelisten"
    /\ del_listen_job_ctl(a)
    /\ Return2(a)
    /\ UNCHANGED <<conn, acc, regLock, cb, cli, bind, wire, given, nmsgs>>

\* The accept callback has a new descriptor.  accept_handle makes a connection
\* of it and initialises it, or the descriptor is closed (getpeername failed,
\* or accept_handle refused).
accept_handle(c) ==
    /\ cb.pc = "accept" /\ conn[c].mem = None
    /\ \E async \in Modes :
         conn' = [conn EXCEPT ![c] = NewConn(cli, async)]
    /\ call' = [call EXCEPT ![0].pc = "addread", ![0].obj = c]
    /\ cli' = NoFd
    /\ CbGoto("done")
    /\ UNCHANGED <<vars, acc, regLock, bind, wire, given, nmsgs>>

accept_refuse ==
    /\ cb.pc = "accept"
    /\ cli' = NoFd
    /\ CbGoto("done")
    /\ UNCHANGED <<vars, conn, acc, regLock, call, bind, wire, given, nmsgs>>
-----------------------------------------------------------------------------
(***************************************************************************)
(* The callbacks, in loop 0.                                               *)
(***************************************************************************)
CbKeeps == UNCHANGED <<acc, regLock, call, cli, bind, wire, given, nmsgs>>

\* Steps of the loop that run no code of the connection classes.
LoopQuiet ==
    /\ cb.pc = None
    /\ \/ LoopTop(0) \/ LoopOut(0) \/ EpollReady(0) \/ EpollIdle(0) \/ Dispatch(0)
       \/ RecvDrained(0) \/ AcceptDrained(0) \/ WriteCheck(0)
       \/ call[0] = NoCall /\ TimersReturn(0)
    /\ UNCHANGED objVars

\* _recv_callback: data for recv_handle, or the end of the connection.
RecvStart ==
    /\ RecvData(0)
    /\ cb' = [pc |-> IF pc'[0] = "readcb" THEN "recv" ELSE "fail",
              obj |-> bind[cur[0].job].obj]
    /\ CbKeeps /\ UNCHANGED conn

AcceptStart ==
    /\ Accept(0)
    /\ \E f \in Closed : cli' = f
    /\ cb' = [pc |-> "accept", obj |-> bind[cur[0].job].obj]
    /\ UNCHANGED <<conn, acc, regLock, call, bind, wire, given, nmsgs>>

WriteStart ==
    /\ WriteClear(0)
    /\ cb' = [pc |-> "entry", obj |-> bind[cur[0].job].obj]
    /\ CbKeeps /\ UNCHANGED conn

\* Mutant: send_handle always takes a node, also with one in hand.
WriteEntry_takes ==
    /\ cb.pc = "entry"
    /\ CbGoto(IF bind[cur[0].job].wcb = "connect" THEN "connect" ELSE "take")
    /\ CbKeeps /\ UNCHANGED <<vars, conn>>

\* write_evt_handle calls m_write_func, which another thread may have replaced.
WriteEntry ==
    /\ cb.pc = "entry"
    /\ CbGoto(IF bind[cur[0].job].wcb = "connect" THEN "connect"
              ELSE IF conn[cb.obj].node = <<>> THEN "take" ELSE "sendbuf")
    /\ CbKeeps /\ UNCHANGED <<vars, conn>>

\* recv_handle returned -1: the callback frees the connection.
recv_handle_fails ==
    /\ cb.pc = "recv" /\ call[0] = NoCall
    /\ CbGoto("fail")
    /\ CbKeeps /\ UNCHANGED <<vars, conn>>

\* A callback that failed calls free.
FailFree ==
    /\ cb.pc = "fail"
    /\ FreeLock(0, cb.obj)
    /\ CbGoto("done")
    /\ ConnKeeps /\ UNCHANGED <<vars, bind>>

CbReturn ==
    /\ cb.pc \in {"recv", "done"} /\ call[0] = NoCall
    /\ ReadCbReturn(0) \/ ReadEndReturn(0) \/ WriteCbReturn(0)
    /\ cb' = NoCb
    /\ CbKeeps /\ UNCHANGED conn

\* send_handle takes the next node of the queue, under the queue lock.
send_handle_take ==
    LET c == cb.obj
        q == conn[c].queue
        n == IF Len(q) < NodeSize THEN Len(q) ELSE NodeSize
    IN  /\ cb.pc = "take"
        /\ conn' = [conn EXCEPT ![c].node = SubSeq(q, 1, n),
                                ![c].queue = SubSeq(q, n + 1, Len(q))]
        /\ CbGoto(IF n = 0 THEN "done" ELSE "sendbuf")
        /\ CbKeeps /\ UNCHANGED vars

\* send_buf_node: all of the node is sent, or a part (EAGAIN), or send fails.
send_buf_node ==
    LET c == cb.obj
        node == conn[c].node
    IN  /\ cb.pc = "sendbuf"
        /\ \/ \E n \in 0 .. Len(node) :
                /\ ~conn[c].dead
                /\ wire' = [wire EXCEPT ![c] = @ \o SubSeq(node, 1, n)]
                /\ conn' = [conn EXCEPT ![c].node = SubSeq(node, n + 1, Len(node))]
                /\ CbGoto(IF n = Len(node) THEN "take" ELSE "again")
           \/ /\ conn' = [conn EXCEPT ![c].failed = TRUE, ![c].dead = TRUE]
              /\ CbGoto("fail")
              /\ UNCHANGED wire
        /\ UNCHANGED <<vars, acc, regLock, call, cli, bind, given, nmsgs>>

\* Mutant: the rest of the node waits for an event nobody asked for.
send_handle_again_forgotten ==
    /\ cb.pc = "again"
    /\ CbGoto("done")
    /\ CbKeeps /\ UNCHANGED <<vars, conn>>

\* What is left waits for the next write event: register_write, without
\* m_register_lock.
send_handle_again ==
    /\ cb.pc = "again"
    /\ AddWrite(0, cb.obj, "send")
    /\ CbGoto(IF WriteAdded(cb.obj) THEN "againflag" ELSE "done")
    /\ ConnKeeps /\ UNCHANGED <<conn, regLock, call>>

send_handle_flag ==
    /\ cb.pc = "againflag"
    /\ conn' = [conn EXCEPT ![cb.obj].wr = TRUE]
    /\ CbGoto("done")
    /\ CbKeeps /\ UNCHANGED vars

\* _connect_callback: getsockopt tells the result; connect_handle(true)
\* registers for reading.
connect_result ==
    LET c == cb.obj
    IN  /\ cb.pc = "connect"
        /\ \/ /\ CbGoto("conn_ok")
              /\ call' = [call EXCEPT ![0].pc = "addread", ![0].obj = c]
           \/ CbGoto("conn_bad") /\ UNCHANGED call
        /\ ConnKeeps /\ UNCHANGED <<vars, conn, regLock, bind>>

\* connect_handle returns, and then m_is_connected is set.
connect_handle_returns ==
    /\ cb.pc \in {"conn_ok", "conn_bad"} /\ call[0] = NoCall
    /\ conn' = [conn EXCEPT ![cb.obj].up = @ \/ cb.pc = "conn_ok"]
    /\ CbGoto("cleanup")
    /\ CbKeeps /\ UNCHANGED vars

\* The flags are read without a lock ...
connect_cleanup ==
    /\ cb.pc = "cleanup"
    /\ CbGoto(IF ~conn[cb.obj].wr /\ conn[cb.obj].cn THEN "unreg" ELSE "done")
    /\ CbKeeps /\ UNCHANGED <<vars, conn>>

\* ... before unregister_connect.
unregister_connect ==
    /\ cb.pc = "unreg"
    /\ DelWrite(0, cb.obj)
    /\ conn' = [conn EXCEPT ![cb.obj].cn = FALSE]
    /\ CbGoto("done")
    /\ CbKeeps

\* Mutant: m_fd is reset too early.
free_async_write_resource_no_fd ==
    LET c == bind[First(dels[0])].obj
    IN  /\ pc[0] \in FreePcs /\ cb.pc = None /\ c \in Conns
        /\ conn' = [conn EXCEPT ![c].async = FALSE, ![c].fd = NoFd]
        /\ cb' = [pc |-> "close", obj |-> c]
        /\ UNCHANGED <<vars, acc, regLock, call, cli, bind, wire, given, nmsgs>>

\* _free_callback: first free_async_write_resource, under the queue lock: what
\* is queued is written (blocking) unless a write failed before; a failure now
\* drops the rest.
free_async_write_resource ==
    LET c == bind[First(dels[0])].obj
        left == conn[c].node \o conn[c].queue
        flush == conn[c].async /\ ~conn[c].failed
    IN  /\ pc[0] \in FreePcs /\ cb.pc = None /\ c \in Conns
        /\ \E n \in IF flush /\ ~conn[c].dead THEN 0 .. Len(left) ELSE {0} :
             /\ wire' = [wire EXCEPT ![c] = @ \o SubSeq(left, 1, n)]
             /\ conn' = [conn EXCEPT ![c].async = FALSE, ![c].node = <<>>,
                                     ![c].queue = <<>>,
                                     ![c].dead = @ \/ n < Len(left)]
        /\ cb' = [pc |-> "close", obj |-> c]
        /\ UNCHANGED <<vars, acc, regLock, call, cli, bind, given, nmsgs>>

\* Then close, m_fd = -1 ...
free_close ==
    /\ cb.pc = "close"
    /\ FreeJob(0)
    /\ conn' = [conn EXCEPT ![cb.obj].fd = NoFd]
    /\ CbGoto("delete")
    /\ CbKeeps

\* ... and free_handle deletes the connection.
free_handle ==
    /\ cb.pc = "delete"
    /\ "deferDelete" \in Habits => \A a \in Actors : ~Inside(a, cb.obj)
    /\ conn' = [conn EXCEPT ![cb.obj].mem = "gone"]
    /\ cb' = NoCb
    /\ CbKeeps /\ UNCHANGED vars

\* CNetAccept::_free_callback.
accept_free_callback ==
    LET x == bind[First(dels[0])].obj
    IN  /\ pc[0] \in FreePcs /\ cb.pc = None /\ x \in Acceptors
        /\ FreeJob(0)
        /\ acc' = [acc EXCEPT ![x] = [mem |-> "gone", fd |-> NoFd]]
        /\ UNCHANGED <<conn, regLock, call, cb, cli, bind, wire, given, nmsgs>>
-----------------------------------------------------------------------------
Begin(a) ==
    \/ \E c \in Conns : send_data(a, c) \/ free(a, c) \/ dial(a, c)
    \/ \E x \in Acceptors : accept_init(a, x) \/ accept_free(a, x)

Continue(a) ==
    \/ send_data_lock(a) \/ send_data_add(a) \/ send_data_flag(a)
    \/ direct_fd(a) \/ direct_write(a)
    \/ unregister_read(a) \/ unregister_write(a) \/ free_unlock(a)
    \/ register_connect(a) \/ register_read(a) \/ register_read_flag(a)
    \/ accept_free_ctl(a)

Callback ==
    \/ RecvStart \/ AcceptStart \/ WriteStart \/ WriteEntry
    \/ recv_handle_fails \/ FailFree
    \/ (\E c \in Conns : accept_handle(c)) \/ accept_refuse
    \/ send_handle_take \/ send_buf_node \/ send_handle_again \/ send_handle_flag
    \/ connect_result \/ connect_handle_returns \/ connect_cleanup
    \/ unregister_connect
    \/ free_async_write_resource \/ free_close \/ free_handle \/ accept_free_callback

RecvNext ==
    /\ ~aborted
    /\ \/ \E a \in Actors : Begin(a) \/ Continue(a)
       \/ LoopQuiet \/ Callback \/ CbReturn

RecvSpec == RecvInit /\ [][RecvNext]_allVars
-----------------------------------------------------------------------------
(***************************************************************************)
(* Fairness.  Threads run, a thread that waits for a lock is not starved,  *)
(* the handlers of the application return (all of this as in NetPoll), and *)
(* the peer reads: a descriptor watched for writing is reported writable   *)
(* again and again, and then takes some data or fails.                     *)
(***************************************************************************)
EpollOut(f) ==
    /\ LoopQuiet
    /\ \E e \in batch'[0] \ batch[0] : job[e.job].fd = f /\ "OUT" \in e.ev

SendSome == send_buf_node /\ conn' # conn

RecvFairness ==
    /\ \A a \in Actors : SF_allVars(~aborted /\ Continue(a))
    /\ WF_allVars(~aborted /\ (LoopQuiet \/ Callback \/ CbReturn))
    /\ SF_allVars(~aborted /\ LoopQuiet /\ (LoopTop(0) \/ LoopOut(0)))
    /\ SF_allVars(~aborted /\ LoopQuiet /\ (RecvDrained(0) \/ AcceptDrained(0)))
    /\ SF_allVars(~aborted /\ LoopQuiet /\ TimersReturn(0))
    /\ SF_allVars(~aborted /\ WriteStart)
    /\ SF_allVars(~aborted /\ (FailFree \/ free_handle \/ unregister_connect
                                 \/ send_handle_again))
    /\ SF_allVars(~aborted /\ SendSome)
    /\ \A f \in Fds : SF_allVars(~aborted /\ EpollOut(f))

RecvFairSpec == RecvSpec /\ RecvFairness
-----------------------------------------------------------------------------
(***************************************************************************)
(* Properties.                                                             *)
(***************************************************************************)
InPcs(obj, pcs) == \E a \in Actors : Inside(a, obj) /\ call[a].pc \in pcs

\* No thread is inside a member function of a deleted connection, the loop is
\* in no callback of one, and no job that can still be found or freed has one
\* as its param1.
NoUseAfterFree ==
    \A c \in Conns : conn[c].mem = "gone" =>
        /\ \A a \in Actors : ~Inside(a, c)
        /\ cb.obj # c
        /\ \A j \in Alive : bind[j].obj # c

\* Data that is queued does not get stuck: unless some thread is about to
\* register the connection for writing, or the loop is sending, the connection
\* has a job with the write event and send_handle as its callback.
QueuedIsWatched ==
    \A c \in Conns :
        LET r == conn[c]
        IN  /\ r.mem = "live" /\ r.async /\ ~r.freed
            /\ r.node \o r.queue # <<>>
            /\ ~InPcs(c, SendPcs)
            /\ ~(cb.obj = c /\ cb.pc \in SendCbPcs \cup {"fail"})
            => \E j \in ioJobs : /\ job[j].fd = r.fd
                                 /\ "W" \in job[j].ev
                                 /\ ~job[j].del
                                 /\ bind[j] = [obj |-> c, wcb |-> "send"]

\* The peer sees the messages whole, in the order of the calls of send_data,
\* and no bytes of another connection, however sends, write events, the flush
\* of the free callback and direct writes after it interleave; while the
\* connection works, what has not gone out is in the node or in the queue.
StreamInOrder ==
    \A c \in Conns :
        /\ SX!IsPrefix(wire[c], given[c])
        /\ conn[c].async => wire[c] \o conn[c].node \o conn[c].queue = given[c]

\* Once free has run, all jobs of the connection are being deleted: neither a
\* send_data nor a registration in progress brings one back.
FreedStaysFreed ==
    \A c \in Conns :
        conn[c].freed /\ ~InPcs(c, FreeConnPcs) =>
            \A j \in Alive : bind[j].obj = c => job[j].del

\* The descriptor of a job is the one its object believes it has, so the tests
\* of m_fd against fd at the top of every callback never fail.
CallbackFd ==
    \A j \in Alive :
        LET x == bind[j].obj
        IN  job[j].fd = IF x \in Conns THEN conn[x].fd ELSE acc[x].fd

\* All that send_data was given goes out in the end, unless the socket fails,
\* the connection is deleted or the loop has ended.
Delivered ==
    \A c \in Conns :
        (wire[c] # given[c]) ~> \/ wire[c] = given[c]
                               \/ conn[c].dead \/ conn[c].mem = "gone"
                               \/ pc[0] = "exit"

\* A connection that free was called on is deleted in the end (its free callback
\* runs and free_handle with it), unless the loop has ended.
FreeCompletes ==
    \A c \in Conns :
        conn[c].freed ~> (conn[c].mem = "gone" \/ pc[0] = "exit")
=============================================================================
