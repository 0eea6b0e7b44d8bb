----------------------------- MODULE NetRecvJobs -----------------------------
(***************************************************************************)
(* The connection classes as callers of the library: every step of theirs  *)
(* is a step of NetPoll, they obey the rules of use that NetPoll leaves to *)
(* its callers (nothing is added to a descriptor whose job is being        *)
(* deleted, listen jobs are deleted in the loop), and the jobs in memory   *)
(* are those that the connections and acceptors believe they have.         *)
(*                                                                         *)
(* What makes it hold is the mutex m_register_lock, under which send_data  *)
(* looks at m_is_freed and registers, and under which free takes back what *)
(* is registered; the flags that free goes by are set after the job was    *)
(* made, so the invariant says what each flag may be behind by.            *)
(***************************************************************************)
EXTENDS NetRecvProofs

InitPcs == {"addconn", "addread", "addset", "rdflag"}
LockPcs == {"addwrite", "wrflag"} \cup FreeConnPcs

ConnPcs == SendPcs \cup DirectPcs \cup FreeConnPcs \cup InitPcs
ConnCbPcs == SendCbPcs \cup ConnectCbPcs \cup {"recv", "fail"}
InCb(c, ps) == cb.obj = c /\ cb.pc \in ps
InLoop(c, ps) == call[0].obj = c /\ call[0].pc \in ps

BindRec == [obj : Objects \cup {None}, wcb : {None, "send", "connect"}]

\* A listen job belongs to an acceptor, any other to a connection; loop 0 has
\* them all.
BindShape ==
    /\ bind \in [Jobs -> BindRec]
    /\ \A j \in Alive :
         /\ job[j].thrd = 0
         /\ job[j].kind = "listen" => bind[j].obj \in Acceptors
         /\ job[j].kind = "wr" => bind[j].obj \in Conns

AccShape ==
    /\ acc \in [Acceptors -> [mem : {None, "live", "gone"}, fd : FdOrNone]]
    /\ \A x \in Acceptors : acc[x].fd # NoFd =>
         /\ acc[x].mem = "live"
         /\ acc[x].fd # cli
         /\ \A c \in Conns : conn[c].fd # acc[x].fd
         /\ \A y \in Acceptors : acc[y].fd = acc[x].fd => x = y
    /\ \A j \in Alive : bind[j].obj \in Acceptors => job[j].fd = acc[bind[j].obj].fd

\* Where a thread is, and the lock that it holds there.
ActorShape(a) ==
    /\ \/ call[a] = NoCall
       \/ call[a].pc \in ConnPcs /\ call[a].obj \in Conns
       \/ call[a].pc = "freelisten" /\ call[a].obj \in Acceptors
    /\ call[a].pc \in FreeConnPcs \cup InitPcs \cup {"freelisten"} => a = 0
    /\ call[a].pc \in LockPcs => regLock[call[a].obj] = a

\* Where loop 0 is: the callback is one of the job whose event it handles, and
\* only code of the application makes calls.
CbShape ==
    /\ call[0] # NoCall => UserCode \/ cb.pc = "done"
    /\ cb.pc = None => cb.obj = None
    /\ cb.pc \in ConnCbPcs => pc[0] \in {"readcb", "readend", "writecb"}
    /\ cb.pc = "accept" => pc[0] = "accept" /\ cli # NoFd
    /\ cb.pc \notin {None, "close", "delete"} => cb.obj = bind[cur[0].job].obj
    /\ cb.pc = "close" => pc[0] \in FreePcs /\ cb.obj = bind[First(dels[0])].obj
    /\ cb.pc \in SendCbPcs \cup {"connect"} => ~job[cur[0].job].del

CurShape ==
    /\ pc[0] = "accept" => job[cur[0].job].kind = "listen"
    /\ pc[0] \in {"readcb", "readend", "write2", "writecb"} => job[cur[0].job].kind = "wr"
    /\ pc[0] = "write2" => ~job[cur[0].job].del

\* add_read_job is between its two steps for register_read.
HalfOf == \A h \in half : call[h.by].pc = "addset" /\ bind[h.job].obj = call[h.by].obj

\* The connect has failed, or has not succeeded yet.
Unconnected(c) == conn[c].dialed /\ ~conn[c].up /\ ~InCb(c, {"conn_ok"})

\* The connection knows of its read (write) interest, or is about to.
RdKnown(c) == conn[c].rd \/ InLoop(c, {"rdflag"})
WrKnown(c) == \/ conn[c].wr \/ conn[c].cn
              \/ \E a \in Actors : call[a].obj = c /\ call[a].pc = "wrflag"
              \/ InCb(c, {"againflag"})

\* A job j of connection c.
JobShape(c, j) ==
    /\ job[j].fd = conn[c].fd
    /\ job[j].del => conn[c].freed \/ Unconnected(c)
    /\ ~job[j].del /\ "R" \in job[j].ev => RdKnown(c)
    /\ ~job[j].del /\ ("R" \notin job[j].ev \/ "W" \in job[j].ev) => WrKnown(c)
    /\ ~Unconnected(c) /\ ~conn[c].freed =>
         "R" \in job[j].ev \/ InLoop(c, {"addread", "addset"})
    /\ conn[c].freed /\ ~InLoop(c, {"unread", "unwrite"}) => job[j].del
    /\ ~InLoop(c, {"addconn"})

\* A connection that is connected and not freed has a job, or is to get it.
HasJob(c) ==
    conn[c].fd # NoFd /\ ~conn[c].freed /\ ~Unconnected(c) =>
        InLoop(c, {"addread"}) \/ \E j \in Alive : bind[j].obj = c

\* A call of thread a on connection c.
CallShape(c, a) ==
    /\ conn[c].mem = "live"
    /\ call[a].pc \in {"addwrite", "wrflag"} \cup InitPcs => ~conn[c].freed
    /\ call[a].pc \in FreeConnPcs => conn[c].freed
    /\ call[a].pc \in InitPcs => conn[c].fd # NoFd
    /\ call[a].pc \in {"addread", "addset", "rdflag"} \cup SendPcs => ~Unconnected(c)
    /\ call[a].pc = "addconn" => Unconnected(c) /\ conn[c].cn
    /\ call[a].pc \in {"unwrite", "unlock"} => ~conn[c].rd

\* A callback of connection c.
ConnCbShape(c) ==
    /\ conn[c].mem = "live"
    /\ cb.pc = "delete" => conn[c].fd = NoFd
    /\ cb.pc \in SendCbPcs \cup {"connect"} => ~conn[c].freed
    /\ cb.pc = "unreg" => conn[c].dialed

ConnShape(c) ==
    /\ conn[c].fd # NoFd => conn[c].mem = "live"
    /\ conn[c].cn => conn[c].dialed
    /\ HasJob(c)
    /\ \A j \in Alive : bind[j].obj = c => JobShape(c, j)
    /\ \A a \in Actors : call[a].obj = c => CallShape(c, a)
    /\ cb.obj = c => ConnCbShape(c)

JobsInv ==
    /\ BindShape /\ AccShape /\ CbShape /\ CurShape /\ HalfOf
    /\ regLock = [c \in Conns |-> regLock[c]]
    /\ \A a \in Actors : ActorShape(a)
    /\ \A c \in Conns : ConnShape(c)

\* The loops, by the rules of NetPoll.
LoopsInv == WatchInv /\ FreeSet /\ NoAbort

RecvInv == LoopsInv /\ StreamInv /\ JobsInv

RecvHabits == AllHabits
-----------------------------------------------------------------------------
(***************************************************************************)
(* Jobs and descriptors.                                                   *)
(***************************************************************************)
LEMMA AliveFacts ==
    ASSUME LoopsInv
    PROVE  /\ MemInv /\ OneJobPerFd /\ njobs \in 0 .. MaxJobs
           /\ \A j \in Alive : /\ j \in 1 .. njobs /\ j \in Jobs /\ j # NoJob
                               /\ job[j].fd \in Fds /\ job[j].fd # NoFd
                               /\ job[j] \in JobRec
                               /\ job[j].kind \in {"listen", "wr"}
           /\ ioJobs \subseteq Alive
           /\ 0 \in Loops /\ 0 \in Actors
<1>1. MemInv /\ OneJobPerFd /\ njobs \in 0 .. MaxJobs
  BY DEF LoopsInv, WatchInv, OneJobInv, MemInv, TypeInv, TypeOK
<1>2. ioJobs \subseteq Alive
  BY <1>1 DEF MemInv, OwnedOnce
<1>3. 0 \in Loops /\ 0 \in Actors
  BY LoopsFacts DEF Actors
<1>4. \A j \in Alive : j \in 1 .. njobs /\ job[j] \in JobRec
  BY <1>1 DEF Alive, MemInv, TypeInv, TypeOK
<1>5. \A j \in 1 .. njobs : j \in Jobs /\ j # NoJob
  BY <1>1, MaxJobsAssumption DEF Jobs, NoJob
<1>6. NoFd \notin Fds
  BY NamesAssumption DEF NoFd
<1> QED
  BY <1>1, <1>2, <1>3, <1>4, <1>5, <1>6 DEF JobRec

\* find_io_job finds a job that is not being deleted: it is the only one with
\* its descriptor.
LEMMA FindsJob ==
    ASSUME LoopsInv, NEW j \in Alive, ~job[j].del
    PROVE  find_io_job(job[j].fd) = j /\ j \in ioJobs
<1> DEFINE same == {k \in ioJobs : job[k].fd = job[j].fd}
<1>1. j \in ioJobs
  <2>1. \A l \in Loops : j \notin dels[l]
    BY AliveFacts DEF MemInv, OwnedOnce
  <2> QED
    BY <2>1, AliveFacts DEF MemInv, OwnedOnce
<1>2. \A k \in same : k = j
  BY AliveFacts DEF OneJobPerFd
<1>3. same = {j}
  BY <1>1, <1>2
<1>4. First({j}) = j
  <2>1. j \in Nat
    BY AliveFacts
  <2> QED
    BY <2>1, FirstIn
<1> QED
  BY <1>1, <1>3, <1>4 DEF find_io_job

LEMMA FindsNone ==
    ASSUME LoopsInv, NEW fd, find_io_job(fd) = NoJob,
           \A j \in Alive : job[j].fd = fd => ~job[j].del
    PROVE  Unused(fd)
BY FindsJob, AliveFacts DEF Unused

LEMMA FindsSome ==
    ASSUME LoopsInv, NEW fd, find_io_job(fd) # NoJob
    PROVE  /\ fd \in Fds
           /\ find_io_job(fd) \in Alive /\ find_io_job(fd) \in ioJobs
           /\ job[find_io_job(fd)].fd = fd /\ ~job[find_io_job(fd)].del
<1> DEFINE same == {k \in ioJobs : job[k].fd = fd}
<1>1. PICK k \in ioJobs : job[k].fd = fd
  BY DEF find_io_job
<1>2. fd \in Fds
  BY <1>1, AliveFacts
<1> QED
  BY <1>2, Found, AliveFacts

\* A connection has the descriptor of its jobs, and nobody else has it.
LEMMA OwnersJob ==
    ASSUME LoopsInv, JobsInv, StreamInv, NEW c \in Conns, NEW j \in Alive,
           job[j].fd = conn[c].fd
    PROVE  bind[j].obj = c
<1>1. job[j].fd # NoFd /\ job[j].kind \in {"listen", "wr"}
  BY AliveFacts
<1>2. bind[j].obj \in Acceptors \/ bind[j].obj \in Conns
  BY <1>1 DEF JobsInv, BindShape
<1>3. CASE bind[j].obj \in Acceptors
  BY <1>1, <1>3 DEF JobsInv, AccShape
<1>4. CASE bind[j].obj \in Conns
  <2>1. conn[bind[j].obj].fd = job[j].fd
    BY <1>4 DEF JobsInv, ConnShape, JobShape
  <2> QED
    BY <1>1, <1>4, <2>1 DEF StreamInv, FdsDiffer
<1> QED
  BY <1>2, <1>3, <1>4

\* The kernel hands out descriptors that no job has.
LEMMA ClosedUnused ==
    ASSUME LoopsInv, JobsInv, NEW fd \in Closed
    PROVE  Unused(fd) /\ fd \in Fds /\ fd # NoFd
<1>1. fd \in Fds
  BY DEF Closed
<1>2. ASSUME NEW j \in Alive, job[j].fd = fd PROVE FALSE
  <2>1. bind[j].obj \in Acceptors \/ bind[j].obj \in Conns
    BY AliveFacts DEF JobsInv, BindShape
  <2>2. CASE bind[j].obj \in Acceptors
    BY <1>2, <2>2 DEF JobsInv, AccShape, Closed
  <2>3. CASE bind[j].obj \in Conns
    BY <1>2, <2>3 DEF JobsInv, ConnShape, JobShape, Closed
  <2> QED
    BY <2>1, <2>2, <2>3
<1> QED
  BY <1>1, <1>2, NamesAssumption DEF Unused, NoFd
-----------------------------------------------------------------------------
(***************************************************************************)
(* What the connection classes' calls of the library do.                   *)
(***************************************************************************)

\* Step of the library, as NetPoll has it.
LibStep == [Next]_vars

LEMMA CallIsNext == ASSUME ~aborted, NEW a \in Actors, Call(a) PROVE LibStep
BY DEF LibStep, Next

LEMMA LoopIsNext == ASSUME ~aborted, NEW l \in Loops, Loop(l) PROVE LibStep
BY DEF LibStep, Next

LEMMA NewRefused ==
    ASSUME LoopsInv, "ctlSpace" \in Rules, NEW fd \in Fds, Unused(fd), NEW t \in Loops
    PROVE  NoLoop \notin AddTargets(t, fd)
<1>1. SUFFICES ASSUME NoLoop \in AddTargets(t, fd) PROVE FALSE
  OBVIOUS
<1>2. epoll[t][fd].job # NoJob
  BY <1>1, LoopsFacts DEF AddTargets
<1>3. epoll[t][fd].job \in Alive /\ job[epoll[t][fd].job].fd = fd
  BY <1>2, AliveFacts DEF MemInv, NoDangling
<1> QED
  BY <1>3 DEF Unused

\* Every new job goes to loop 0.
LEMMA NewWrKind ==
    ASSUME LoopsInv, "ctlSpace" \in Rules, NEW a \in Actors, NEW fd \in Fds,
           Unused(fd), NEW ev,
           \/ add_read_job_new(a, fd) /\ ev = {"R"}
           \/ add_write_job_new(a, fd) /\ ev = {"W"}
    PROVE  Creates(fd, "wr", ev, 0)
<1>0. TypeInv /\ 0 \in Loops
  BY AliveFacts DEF MemInv
<1>1. NewWrJob(fd, ev) /\ ev \in {{"R"}, {"W"}}
  BY DEF add_read_job_new, add_write_job_new
<1>2. /\ half = {} /\ MayAdd(fd) /\ find_io_job(fd) = NoJob
      /\ UNCHANGED <<half, lateDel, loopVars, aborted>>
  BY DEF add_read_job_new, add_write_job_new, MgrLock
<1>3. NewJob(fd, "wr", ev, 0)
  <2>1. ThrdArg[fd] = 0
    BY ThrdIndexAssumption
  <2>2. CASE WorkerCnt = 0
    <3>1. curThrd = 0
      BY <1>0, <2>2 DEF TypeInv, TypeOK, Loops, LoopCnt
    <3>2. NextThrd = 0
      BY <2>2, <3>1 DEF NextThrd
    <3> QED
      BY <1>1, <2>1, <2>2, <3>2 DEF NewWrJob
  <2>3. CASE WorkerCnt # 0
    <3>1. ~(0 >= WorkerCnt)
      BY <2>3, WorkerCntAssumption, EpfdSlotsAssumption
    <3> QED
      BY <1>1, <2>1, <3>1 DEF NewWrJob
  <2> QED
    BY <2>2, <2>3
<1>4. \/ Creates(fd, "wr", ev, 0)
      \/ NoLoop \in AddTargets(0, fd)
  BY <1>0, <1>1, <1>2, <1>3, NewJobKinds
<1> QED
  BY <1>0, <1>4, NewRefused

LEMMA AddListenKind ==
    ASSUME LoopsInv, "ctlSpace" \in Rules, NEW a \in Actors, NEW fd \in Fds,
           Unused(fd), add_listen_job(a, fd)
    PROVE  Creates(fd, "listen", {"R"}, 0)
<1>0. TypeInv /\ 0 \in Loops /\ ~aborted
  BY AliveFacts DEF MemInv, LoopsInv, NoAbort
<1>1. /\ NewJob(fd, "listen", {"R"}, 0) /\ half = {} /\ MayAdd(fd)
      /\ find_io_job(fd) = NoJob /\ UNCHANGED <<half, lateDel, loopVars>>
      /\ aborted' = (njobs' = njobs)
  BY DEF add_listen_job, MgrLock
<1>2. njobs' # njobs => UNCHANGED aborted
  BY <1>0, <1>1 DEF TypeInv, TypeOK
<1>3. \/ Creates(fd, "listen", {"R"}, 0)
      \/ NoLoop \in AddTargets(0, fd)
  BY <1>0, <1>1, <1>2, NewJobKinds
<1> QED
  BY <1>0, <1>3, NewRefused

\* The kernel watches for the write interest of a job in memory.
LEMMA WriteThere ==
    ASSUME LoopsInv, JobsInv, NEW j \in Alive, ~job[j].del, "W" \in job[j].ev,
           UNCHANGED vars
    PROVE  "OUT" \in epoll'[0][job[j].fd].ev
<1>1. job[j].thrd = 0 /\ 0 \in Loops
  BY AliveFacts DEF JobsInv, BindShape
<1>2. "W" \in Wanted(j) /\ Wanted(j) # {}
  BY DEF Wanted
<1>3. epoll[0][job[j].fd] = [job |-> j, ev |-> Flags(Wanted(j))]
  BY <1>1, <1>2 DEF LoopsInv, WatchInv, Watched, WantedEntry
<1> QED
  BY <1>2, <1>3 DEF Flags, vars

LEMMA WriteMoreAdded ==
    ASSUME LoopsInv, JobsInv, "ctlSpace" \in Rules, NEW j \in Alive, WriteMore(j)
    PROVE  "OUT" \in epoll'[0][job[j].fd].ev
<1>1. /\ job[j].thrd = 0 /\ 0 \in Loops /\ job[j].fd \in Fds
      /\ job[j].ev \in SUBSET {"R", "W"} /\ WatchInv
  BY AliveFacts DEF JobsInv, BindShape, LoopsInv, JobRec
<1>2. Registered(j) <=> Wanted(j) # {}
  BY <1>1, WatchedRegistered
<1>3. half = {} /\ ~job[j].del
  BY DEF WriteMore, Connected
<1>4. Wanted(j) = job[j].ev
  BY <1>3 DEF Wanted
<1>5. AddFails(j) => Registered(j)
  BY <1>1, LoopsFacts DEF AddFails, AddTargets, Registered
<1>6. Registers(j, {"IN", "OUT"}) \/ Registers(j, {"OUT"})
  BY <1>2, <1>4, <1>5 DEF WriteMore, Modifies
<1>7. epoll'[0][job[j].fd].ev \in {{"IN", "OUT"}, {"OUT"}}
  BY <1>1, <1>6 DEF Registers, EntrySet
<1> QED
  BY <1>7

\* No job of the connection is being deleted.
Usable(c) == \A j \in Alive : bind[j].obj = c => ~job[j].del

NewBind(x, w) == bind' = [bind EXCEPT ![njobs + 1] = [obj |-> x, wcb |-> w]]

\* add_write_job makes a job, or adds to the one there is.
AddsWrite(c, w) ==
    \/ UNCHANGED <<vars, bind>> /\ conn[c].fd = NoFd /\ ~WriteAdded(c)
    \/ /\ Unused(conn[c].fd) /\ conn[c].fd \in Fds /\ NewBind(c, w)
       /\ Creates(conn[c].fd, "wr", {"W"}, 0) /\ WriteAdded(c)
    \/ \E j \in Alive :
         /\ bind[j].obj = c /\ job[j].fd = conn[c].fd /\ ~job[j].del /\ WriteAdded(c)
         /\ bind' = [bind EXCEPT ![j].wcb = w]
         /\ WriteMore(j) \/ (UNCHANGED vars /\ "W" \in job[j].ev)

LEMMA AddWriteKind ==
    ASSUME LoopsInv, JobsInv, StreamInv, KeepsEvent, "ctlSpace" \in Rules,
           NEW a \in Actors, NEW c \in Conns, NEW w \in {"send", "connect"},
           AddWrite(a, c, w), Usable(c)
    PROVE  AddsWrite(c, w) /\ LibStep
<1>0. ~aborted /\ njobs \in Nat /\ w # None /\ 0 \in Loops /\ TypeInv
  BY AliveFacts DEF LoopsInv, NoAbort, None, MemInv
<1> DEFINE fd == conn[c].fd
           j == find_io_job(fd)
<1>1. CASE fd = NoFd
  <2>1. UNCHANGED vars
    BY <1>1 DEF AddWrite
  <2>2. find_io_job(fd) = NoJob
    BY <1>1, FindsSome, NamesAssumption DEF NoFd
  <2>3. bind' = bind
    BY <1>0, <2>1, <2>2 DEF AddWrite, Bound, vars
  <2> QED
    BY <1>1, <2>1, <2>3 DEF AddsWrite, LibStep, WriteAdded
<1>2. CASE fd # NoFd /\ j = NoJob
  <2>1. fd \in Fds
    BY <1>2 DEF StreamInv, StreamType, ConnRec, FdOrNone
  <2>2. Unused(fd)
    BY <1>2, OwnersJob, FindsNone DEF Usable
  <2>3. add_write_job_new(a, fd)
    BY <1>2 DEF AddWrite
  <2>4. Creates(fd, "wr", {"W"}, 0)
    BY <2>1, <2>2, <2>3, NewWrKind
  <2>5. NewBind(c, w)
    <3>1. njobs' = njobs + 1
      BY <2>4 DEF Creates
    <3> QED
      BY <1>0, <3>1 DEF NewBind, AddWrite, Bound
  <2>6. LibStep
    BY <1>0, <2>1, <2>3, CallIsNext DEF Call
  <2>7. WriteAdded(c)
    <3>1. epoll'[0][fd] = [job |-> njobs + 1, ev |-> Flags({"W"})]
      BY <1>0, <2>1, <2>4, CtlResolved DEF Creates, EntrySet
    <3> QED
      BY <1>2, <3>1, FlagsOf DEF WriteAdded
  <2> QED
    BY <2>1, <2>2, <2>4, <2>5, <2>6, <2>7 DEF AddsWrite
<1>3. CASE fd # NoFd /\ j # NoJob
  <2>1. fd \in Fds /\ j \in Alive /\ job[j].fd = fd /\ ~job[j].del
    BY <1>3, FindsSome
  <2>2. bind[j].obj = c
    BY <2>1, OwnersJob
  <2>3. \/ add_write_job_more(a, fd)
        \/ UNCHANGED vars /\ "W" \in job[j].ev
    BY <1>3 DEF AddWrite
  <2>4. \/ WriteMore(j) \/ (UNCHANGED vars /\ "W" \in job[j].ev)
    BY <2>1, <2>3, WriteMoreKind, AliveFacts
  <2>5. njobs' = njobs
    BY <2>4 DEF WriteMore, vars
  <2>6. bind' = [bind EXCEPT ![j].wcb = w]
    BY <1>0, <1>3, <2>5 DEF AddWrite, Bound
  <2>7. LibStep
    BY <1>0, <2>1, <2>3, CallIsNext DEF Call, LibStep
  <2> HIDE DEF j
  <2>8. WriteAdded(c)
    BY <1>3, <2>1, <2>4, WriteMoreAdded, WriteThere DEF WriteAdded
  <2> QED
    BY <2>1, <2>2, <2>4, <2>6, <2>7, <2>8 DEF AddsWrite
<1> QED
  BY <1>1, <1>2, <1>3

\* del_read_job and del_write_job: without a job that is not being deleted,
\* nothing; else that is the connection's.
DelsWr(c, flag, other) ==
    \/ UNCHANGED vars /\ \A j \in Alive : bind[j].obj = c => job[j].del
    \/ \E j \in Alive : bind[j].obj = c /\ ~job[j].del /\ DelWr(j, flag, other)

LEMMA DelWrKinds ==
    ASSUME LoopsInv, JobsInv, StreamInv, NEW a \in Actors, NEW c \in Conns
    PROVE  /\ DelRead(a, c) => DelsWr(c, "R", "W") /\ LibStep
           /\ DelWrite(a, c) => DelsWr(c, "W", "R") /\ LibStep
<1>0. ~aborted
  BY DEF LoopsInv, NoAbort
<1> DEFINE fd == conn[c].fd
           j == find_io_job(fd)
<1>1. CASE j = NoJob
  <2>1. \A k \in Alive : bind[k].obj = c => job[k].fd = fd
    BY DEF JobsInv, ConnShape, JobShape
  <2>2. \A k \in Alive : bind[k].obj = c => job[k].del
    BY <1>1, <2>1, FindsJob, AliveFacts
  <2> QED
    BY <1>1, <2>2 DEF DelRead, DelWrite, DelsWr, LibStep
<1>2. CASE j # NoJob
  <2>1. fd \in Fds /\ j \in Alive /\ job[j].fd = fd /\ ~job[j].del
    BY <1>2, FindsSome
  <2>2. bind[j].obj = c
    BY <2>1, OwnersJob
  <2>3. ASSUME DelRead(a, c) PROVE DelsWr(c, "R", "W") /\ LibStep
    <3>1. del_wr_job(a, fd, "R", "W")
      BY <1>2, <2>3 DEF DelRead, del_read_job
    <3>2. DelWr(j, "R", "W")
      BY <2>1, <3>1, DelWrKind, AliveFacts
    <3>3. LibStep
      BY <1>0, <2>1, <3>1, CallIsNext DEF Call, del_read_job
    <3> HIDE DEF j
    <3> QED
      BY <2>1, <2>2, <3>2, <3>3 DEF DelsWr
  <2>4. ASSUME DelWrite(a, c) PROVE DelsWr(c, "W", "R") /\ LibStep
    <3>1. del_wr_job(a, fd, "W", "R")
      BY <1>2, <2>4 DEF DelWrite, del_write_job
    <3>2. DelWr(j, "W", "R")
      BY <2>1, <3>1, DelWrKind, AliveFacts
    <3>3. LibStep
      BY <1>0, <2>1, <3>1, CallIsNext DEF Call, del_write_job
    <3> HIDE DEF j
    <3> QED
      BY <2>1, <2>2, <3>2, <3>3 DEF DelsWr
  <2> QED
    BY <2>3, <2>4
<1> QED
  BY <1>1, <1>2

\* add_read_job on a job that exists does not fail: the job is watched if it has
\* an event, and there is room for it if it has none.
LEMMA ReadCtlTakes ==
    ASSUME LoopsInv, "ctlSpace" \in Rules, NEW a \in Actors, NEW j \in Alive, ReadCtl(a, j)
    PROVE  half' = {[by |-> a, job |-> j]}
<1>0. /\ job[j].thrd \in Loops /\ job[j].fd \in Fds /\ job[j].ev \in SUBSET {"R", "W"}
      /\ WatchInv
  BY AliveFacts DEF LoopsInv, JobRec
<1>1. Registered(j) <=> Wanted(j) # {}
  BY <1>0, WatchedRegistered
<1>2. half = {} /\ ~job[j].del
  BY DEF ReadCtl, Connected
<1>3. Wanted(j) = job[j].ev
  BY <1>2 DEF Wanted
<1>4. ~("W" \in job[j].ev /\ ~Registered(j))
  BY <1>1, <1>3
<1>5. ~(job[j].ev = {} /\ AddFails(j))
  <2>1. AddFails(j) => Registered(j)
    BY <1>0, LoopsFacts DEF AddFails, AddTargets, Registered
  <2> QED
    BY <1>1, <1>3, <2>1
<1> QED
  BY <1>4, <1>5 DEF ReadCtl

\* The steps of register_read.
ReadsNew(a, c) ==
    /\ Unused(conn[c].fd) /\ NewBind(c, None)
    /\ Creates(conn[c].fd, "wr", {"R"}, 0)
    /\ Goto2(a, "rdflag")
ReadsCtl(a, c) ==
    /\ \E j \in Alive : /\ bind[j].obj = c /\ ReadCtl(a, j)
                        /\ half' = {[by |-> a, job |-> j]}
    /\ bind' = bind /\ Goto2(a, "addset")
ReadsSet(a, c) ==
    /\ \E h \in half : h.by = a /\ ReadSet(h) /\ bind[h.job].obj = c
    /\ bind' = bind /\ Goto2(a, "rdflag")

LEMMA RegisterReadKind ==
    ASSUME LoopsInv, JobsInv, StreamInv, KeepsEvent, "ctlSpace" \in Rules,
           NEW a \in Actors, register_read(a), NEW c \in Conns, c = call[a].obj, Usable(c),
           conn[c].fd # NoFd
    PROVE  /\ \/ call[a].pc = "addread" /\ ReadsNew(a, c)
              \/ call[a].pc = "addread" /\ ReadsCtl(a, c)
              \/ call[a].pc = "addset" /\ ReadsSet(a, c)
           /\ LibStep
<1>0. ~aborted /\ njobs \in Nat
  BY AliveFacts DEF LoopsInv, NoAbort
<1> DEFINE fd == conn[c].fd
           j == find_io_job(fd)
<1>1. fd \in Fds
  BY DEF StreamInv, StreamType, ConnRec, FdOrNone
<1>2. CASE /\ call[a].pc = "addread" /\ j = NoJob /\ add_read_job_new(a, fd)
           /\ IF njobs' > njobs THEN Goto2(a, "rdflag") ELSE Return2(a)
           /\ bind' = Bound(c, fd, None)
  <2>1. Unused(fd)
    BY <1>2, OwnersJob, FindsNone DEF Usable
  <2>2. Creates(fd, "wr", {"R"}, 0)
    BY <1>1, <1>2, <2>1, NewWrKind
  <2>3. njobs' = njobs + 1 /\ njobs' > njobs
    BY <1>0, <2>2 DEF Creates
  <2>4. NewBind(c, None)
    BY <1>2, <2>3 DEF NewBind, Bound
  <2>5. LibStep
    BY <1>0, <1>1, <1>2, CallIsNext DEF Call
  <2> QED
    BY <1>2, <2>1, <2>2, <2>3, <2>4, <2>5 DEF ReadsNew
<1>3. CASE /\ call[a].pc = "addread" /\ j # NoJob /\ add_read_job_ctl(a, fd)
           /\ IF half' # half THEN Goto2(a, "addset") ELSE Return2(a)
           /\ bind' = Bound(c, fd, None)
  <2>1. j \in Alive /\ job[j].fd = fd /\ bind[j].obj = c
    BY <1>3, FindsSome, OwnersJob
  <2>2. ReadCtl(a, j)
    BY <1>1, <1>3, ReadCtlKind, AliveFacts
  <2>3. half = {} /\ njobs' = njobs
    BY <2>2 DEF ReadCtl
  <2>4. half' = {[by |-> a, job |-> j]}
    BY <2>1, <2>2, ReadCtlTakes
  <2>5. bind' = bind
    BY <1>0, <1>3, <2>3 DEF Bound
  <2>6. half' # half
    BY <2>3, <2>4
  <2>7. LibStep
    BY <1>0, <1>1, <1>3, CallIsNext DEF Call
  <2> HIDE DEF j
  <2> QED
    BY <1>3, <2>1, <2>2, <2>4, <2>5, <2>6, <2>7 DEF ReadsCtl
<1>4. CASE call[a].pc = "addset" /\ add_read_job_set(a) /\ Goto2(a, "rdflag") /\ bind' = bind
  <2>1. PICK h \in half :
          /\ h.by = a
          /\ job' = [job EXCEPT ![h.job].rdcb = TRUE, ![h.job].ev = @ \cup {"R"}]
          /\ half' = {}
    BY <1>4 DEF add_read_job_set
  <2>2. ReadSet(h)
    <3>1. PICK g \in half : ReadSet(g)
      BY <1>4, ReadSetKind, AliveFacts
    <3>2. g = h
      BY DEF LoopsInv, WatchInv, OneJobInv, Shape, HalfShape
    <3> QED
      BY <3>1, <3>2
  <2>3. bind[h.job].obj = c
    BY <2>1 DEF JobsInv, HalfOf
  <2>4. LibStep
    BY <1>0, <1>4, CallIsNext DEF Call
  <2> QED
    BY <1>4, <2>1, <2>2, <2>3, <2>4 DEF ReadsSet
<1> QED
  BY <1>2, <1>3, <1>4 DEF register_read
-----------------------------------------------------------------------------
(***************************************************************************)
(* Steps that leave the jobs of a connection alone.                        *)
(***************************************************************************)
JobsSame(d) ==
    \A j \in Alive' : bind'[j].obj = d =>
        j \in Alive /\ bind[j].obj = d /\ job'[j] = job[j]

\* No job changes hands.
Owners == \A j \in Alive : bind'[j].obj = bind[j].obj

LEMMA NoneMade ==
    ASSUME UNCHANGED <<njobs, freed, job>>, Owners, NEW d
    PROVE  JobsSame(d) /\ Alive' = Alive
BY DEF JobsSame, Owners, Alive

LEMMA OneFreed ==
    ASSUME NEW j, Frees(0, j), bind' = bind, NEW d
    PROVE  JobsSame(d) /\ Alive' = Alive \ {j}
BY DEF JobsSame, Frees, Alive

LEMMA OneChanged ==
    ASSUME LoopsInv, NEW k \in Alive, NEW r, JobSet(k, r), UNCHANGED <<njobs, freed>>, Owners, NEW d
    PROVE  /\ d # bind[k].obj => JobsSame(d)
           /\ Alive' = Alive
           /\ \A j \in Alive : j # k => job'[j] = job[j]
BY AliveFacts DEF JobsSame, Owners, Alive, JobSet

\* A new job, of object x.
Made(x, fd, kind, ev) ==
    /\ Alive' = Alive \cup {njobs + 1}
    /\ njobs + 1 \notin Alive
    /\ \A j \in Alive : job'[j] = job[j] /\ bind'[j] = bind[j]
    /\ bind'[njobs + 1].obj = x
    /\ bind' \in [Jobs -> BindRec]
    /\ job'[njobs + 1].fd = fd /\ job'[njobs + 1].kind = kind
    /\ job'[njobs + 1].ev = ev /\ ~job'[njobs + 1].del /\ job'[njobs + 1].thrd = 0

LEMMA OneMade ==
    ASSUME LoopsInv, JobsInv, TypeInv', NEW fd, NEW kind, NEW ev, Creates(fd, kind, ev, 0),
           NEW x \in Objects, NEW w \in {None, "send", "connect"}, NewBind(x, w)
    PROVE  /\ Made(x, fd, kind, ev)
           /\ \A d : d # x => JobsSame(d)
<1>1. /\ njobs \in Nat /\ njobs' = njobs + 1 /\ freed' = freed /\ freed \subseteq 1 .. njobs
      /\ \A j \in 1 .. njobs : job'[j] = job[j]
      /\ job'[njobs + 1] = [fd |-> fd, kind |-> kind, ev |-> ev, del |-> FALSE,
                            thrd |-> 0, rdcb |-> "R" \in ev, free |-> "default"]
  BY AliveFacts DEF Creates, MemInv, TypeInv, TypeOK
<1>2. njobs + 1 \in Jobs
  BY <1>1, MaxJobsAssumption DEF TypeInv, TypeOK, Jobs
<1>3. bind \in [Jobs -> BindRec]
  BY DEF JobsInv, BindShape
<1>4. Alive' = Alive \cup {njobs + 1} /\ njobs + 1 \notin Alive
  BY <1>1 DEF Alive
<1>5. \A j \in Alive : j \in Jobs /\ j # njobs + 1 /\ j \in 1 .. njobs
  BY <1>4, AliveFacts
<1>6. PICK r : r = [obj |-> x, wcb |-> w]
  OBVIOUS
<1>7. r \in BindRec /\ r.obj = x
  BY <1>6 DEF BindRec
<1>8. bind' = [bind EXCEPT ![njobs + 1] = r]
  BY <1>6 DEF NewBind
<1>9. /\ bind' \in [Jobs -> BindRec] /\ bind'[njobs + 1].obj = x
      /\ \A j \in Alive : bind'[j] = bind[j]
  BY <1>2, <1>3, <1>5, <1>7, <1>8
<1>10. Made(x, fd, kind, ev)
  BY <1>1, <1>4, <1>5, <1>9 DEF Made
<1>11. ASSUME NEW d, d # x PROVE JobsSame(d)
  BY <1>4, <1>9, <1>10, <1>11 DEF JobsSame, Made
<1> QED
  BY <1>10, <1>11
-----------------------------------------------------------------------------
(***************************************************************************)
(* The parts of the invariant that are about no connection in particular.  *)
(***************************************************************************)

\* Jobs keep their descriptors, their kinds and their objects.
Stays == \A j \in Alive : FieldsStay(j) /\ bind'[j].obj = bind[j].obj

NoneDeleted == \A j \in Alive : job'[j].del => job[j].del

OneCall(a) == \A b \in Actors : b # a => call'[b] = call[b]

LEMMA BindKept ==
    ASSUME JobsInv, Stays, bind' \in [Jobs -> BindRec], Alive' \subseteq Alive
    PROVE  BindShape'
BY DEF JobsInv, BindShape, Stays, FieldsStay

LEMMA BindMade ==
    ASSUME JobsInv, NEW x, NEW fd, NEW kind, NEW ev, Made(x, fd, kind, ev),
           kind = "listen" => x \in Acceptors, kind = "wr" => x \in Conns
    PROVE  BindShape' /\ Stays /\ NoneDeleted
BY DEF JobsInv, BindShape, Made, Stays, FieldsStay, NoneDeleted

LEMMA AccKept ==
    ASSUME JobsInv, Stays, acc' = acc, cli' \in {cli, NoFd} \cup Closed,
           \A c \in Conns : conn'[c].fd \in {conn[c].fd, NoFd, cli} \cup Closed,
           \A j \in Alive' : bind'[j].obj \in Acceptors => j \in Alive
    PROVE  AccShape'
<1>1. /\ acc \in [Acceptors -> [mem : {None, "live", "gone"}, fd : FdOrNone]]
      /\ \A x \in Acceptors : acc[x].fd # NoFd =>
           /\ acc[x].mem = "live" /\ acc[x].fd # cli
           /\ \A c \in Conns : conn[c].fd # acc[x].fd
           /\ \A y \in Acceptors : acc[y].fd = acc[x].fd => x = y
      /\ \A j \in Alive : bind[j].obj \in Acceptors => job[j].fd = acc[bind[j].obj].fd
  BY DEF JobsInv, AccShape
<1>2. \A x \in Acceptors : acc[x].fd \notin Closed
  BY DEF Closed
<1>3. \A x \in Acceptors : acc[x].fd # NoFd =>
        acc[x].fd # cli' /\ \A c \in Conns : conn'[c].fd # acc[x].fd
  BY <1>1, <1>2
<1>4. \A j \in Alive' : bind'[j].obj \in Acceptors => job'[j].fd = acc[bind'[j].obj].fd
  BY <1>1 DEF Stays, FieldsStay
<1> QED
  BY <1>1, <1>3, <1>4 DEF AccShape

LEMMA HalfKept ==
    ASSUME LoopsInv, JobsInv, Stays, half' \subseteq half, NEW a \in Actors, OneCall(a),
           call[a].pc # "addset" \/ half' = {} \/ call' = call
    PROVE  HalfOf'
<1>1. \A h \in half : h.job \in Alive /\ h.by \in Actors
  BY AliveFacts DEF LoopsInv, WatchInv, OneJobInv, Shape, HalfShape, MemInv, TypeInv, TypeOK
<1> QED
  BY <1>1 DEF JobsInv, HalfOf, OneCall, Stays

LEMMA NobodyIsNobody == NoOne \notin Actors
BY LoopsFacts, NamesAssumption DEF Actors, NoOne, NoLoop

\* Locks are taken when they are free, and given back by those who have them.
LockStep(a) ==
    \/ regLock' = regLock
    \/ \E c \in Conns : \/ regLock[c] = NoOne /\ regLock' = [regLock EXCEPT ![c] = a]
                        \/ regLock[c] = a /\ regLock' = [regLock EXCEPT ![c] = NoOne]

LEMMA LocksKept ==
    ASSUME JobsInv, NEW a \in Actors, OneCall(a), ActorShape(a)', LockStep(a)
    PROVE  /\ regLock' = [c \in Conns |-> regLock'[c]]
           /\ \A b \in Actors : ActorShape(b)'
<1>0. regLock = [c \in Conns |-> regLock[c]]
  BY DEF JobsInv
<1>1. ASSUME NEW b \in Actors, b # a PROVE ActorShape(b)'
  <2>1. ActorShape(b) /\ call'[b] = call[b] /\ b # NoOne
    BY <1>1, NobodyIsNobody DEF JobsInv, OneCall
  <2>2. regLock[call[b].obj] = b => regLock'[call[b].obj] = b
    <3>1. ASSUME NEW c \in Conns, regLock[c] \in {NoOne, a}, NEW v,
                 regLock' = [regLock EXCEPT ![c] = v], regLock[call[b].obj] = b
          PROVE  regLock'[call[b].obj] = b
      BY <1>0, <1>1, <2>1, <3>1
    <3> QED
      BY <3>1 DEF LockStep
  <2> QED
    BY <2>1, <2>2 DEF ActorShape
<1> QED
  BY <1>0, <1>1 DEF LockStep

\* The loop's current job, and the one that it frees next.
LEMMA CurAlive ==
    ASSUME LoopsInv
    PROVE  /\ pc[0] \in EventPcs \ {"events"} =>
                cur[0].job \in Alive /\ job[cur[0].job].thrd = 0
           /\ pc[0] \in FreePcs => First(dels[0]) \in dels[0] /\ First(dels[0]) \in Alive
                                   /\ job[First(dels[0])].del
<1>1. MemInv /\ 0 \in Loops
  BY AliveFacts
<1>2. pc[0] \in EventPcs \ {"events"} => cur[0].job \in Alive /\ job[cur[0].job].thrd = 0
  BY <1>1 DEF MemInv, NoDangling
<1>3. ASSUME pc[0] \in FreePcs
      PROVE  First(dels[0]) \in dels[0] /\ First(dels[0]) \in Alive /\ job[First(dels[0])].del
  <2>1. dels[0] # {} /\ dels[0] \subseteq Alive
    BY <1>1, <1>3 DEF MemInv, OwnedOnce
  <2>2. \A i \in dels[0] : i \in Nat
    BY <2>1, AliveFacts
  <2>3. dels[0] \subseteq Nat
    BY <2>2, Zenon
  <2> QED
    BY <1>1, <2>1, <2>3, FirstIn DEF MemInv, OwnedOnce
<1> QED
  BY <1>2, <1>3

\* Where the loop is while a callback runs.
LEMMA CbWhere ==
    ASSUME LoopsInv, StreamInv, JobsInv
    PROVE  /\ cb.pc \notin {None, "close", "delete"} =>
                /\ pc[0] \in {"accept", "readcb", "readend", "writecb"}
                /\ cur[0].job \in Alive /\ cb.obj = bind[cur[0].job].obj
           /\ cb.pc \in {"close", "delete"} => cb.obj \in Conns
           /\ cb.pc = "close" => First(dels[0]) \in Alive
           /\ UserCode => pc[0] \in CallbackPcs
<1>1. cb.pc \notin {None, "close", "delete"} =>
        pc[0] \in {"accept", "readcb", "readend", "writecb"}
  BY DEF StreamInv, InCallback, CallbackPcs
<1>2. {"accept", "readcb", "readend", "writecb"} \subseteq EventPcs \ {"events"}
  BY DEF EventPcs
<1> QED
  BY <1>1, <1>2, CurAlive DEF JobsInv, CbShape, StreamInv, InCallback, UserCode,
     CallbackPcs, None

\* A step of thread a, in the loop's case from code of the application.
LEMMA LoopStays ==
    ASSUME LoopsInv, StreamInv, JobsInv, NEW a \in Actors,
           UNCHANGED <<pc, cur, dels, cb, cli>>, Stays, OneCall(a),
           NoneDeleted \/ a = 0, Free(a) \/ call[a] # NoCall
    PROVE  CbShape' /\ CurShape'
<1>0. 0 \in Actors
  BY AliveFacts
<1>1. UserCode' = UserCode
  BY DEF UserCode
<1>2. a = 0 => UserCode \/ cb.pc = "done"
  BY ActorsAssumption, AliveFacts DEF Free, JobsInv, CbShape
<1>3. call'[0] # NoCall => UserCode \/ cb.pc = "done"
  BY <1>0, <1>2 DEF OneCall, JobsInv, CbShape
<1>4. cb.pc \notin {None, "close", "delete"} => cb.obj = bind'[cur[0].job].obj
  BY CbWhere DEF Stays
<1>5. cb.pc = "close" => pc[0] \in FreePcs /\ cb.obj = bind'[First(dels[0])].obj
  BY CbWhere DEF Stays, JobsInv, CbShape
<1>6. NoneDeleted \/ cb.pc \notin SendCbPcs \cup {"connect"}
  BY <1>2, CbWhere DEF UserCode, SendCbPcs, None
<1>7. cb.pc \in SendCbPcs \cup {"connect"} => ~job'[cur[0].job].del
  <2>1. cb.pc \in SendCbPcs \cup {"connect"} =>
          cb.pc \notin {None, "close", "delete"} /\ ~job[cur[0].job].del
    BY DEF SendCbPcs, None, JobsInv, CbShape
  <2> QED
    BY <1>6, <2>1, CbWhere DEF NoneDeleted
<1>8. CbShape'
  BY <1>1, <1>3, <1>4, <1>5, <1>7 DEF JobsInv, CbShape
<1>9. pc[0] \in {"accept", "readcb", "readend", "write2", "writecb"} =>
        /\ cur[0].job \in Alive /\ job'[cur[0].job].kind = job[cur[0].job].kind
        /\ NoneDeleted => (job'[cur[0].job].del => job[cur[0].job].del)
  BY CurAlive DEF EventPcs, Stays, FieldsStay, NoneDeleted
<1>10. NoneDeleted \/ pc[0] # "write2"
  BY <1>2, CbWhere DEF CallbackPcs, None
<1>11. CurShape'
  BY <1>9, <1>10 DEF JobsInv, CurShape
<1> QED
  BY <1>8, <1>11

\* A step of a callback.
LEMMA CallbackGoes ==
    ASSUME LoopsInv, StreamInv, JobsInv, NEW p, CbGoto(p), Stays,
           cb.pc \in ConnCbPcs, p \in ConnCbPcs \cup {"done"},
           p \in SendCbPcs \cup {"connect"} => cb.pc \in SendCbPcs \cup {"connect"} /\ NoneDeleted,
           call'[0] # NoCall => p \in {"done", "conn_ok"},
           UNCHANGED <<pc, cur, dels, cli>>
    PROVE  CbShape' /\ CurShape'
<1> USE DEF ConnCbPcs, SendCbPcs, ConnectCbPcs
<1>1. cb'.pc = p /\ cb'.obj = cb.obj
  BY CbGotoFacts
<1>2. cb.pc \notin {None, "close", "delete", "accept"} /\ p \notin {None, "close", "delete", "accept"}
  BY DEF None
<1>3. cur[0].job \in Alive /\ cb.obj = bind[cur[0].job].obj
  BY <1>2, CbWhere
<1>4. cb.obj = bind'[cur[0].job].obj
  BY <1>3 DEF Stays
<1>5. pc[0] \in {"readcb", "readend", "writecb"}
  BY DEF JobsInv, CbShape
<1>6. p \in SendCbPcs \cup {"connect"} => ~job'[cur[0].job].del
  BY <1>3 DEF NoneDeleted, JobsInv, CbShape
<1>7. call'[0] # NoCall => UserCode' \/ cb'.pc = "done"
  BY <1>1 DEF UserCode
<1>8. CbShape'
  BY <1>1, <1>2, <1>4, <1>5, <1>6, <1>7 DEF CbShape
<1>9. CurShape'
  BY <1>3, <1>5 DEF JobsInv, CurShape, Stays, FieldsStay
<1> QED
  BY <1>8, <1>9
-----------------------------------------------------------------------------
(***************************************************************************)
(* What a step leaves of a connection's part of the invariant.             *)
(***************************************************************************)

\* The jobs of a connection that are not being deleted are not lost.
JobsHeld(d) ==
    \A j \in Alive : bind[j].obj = d /\ ~job[j].del => j \in Alive' /\ bind'[j].obj = d

CoreSame(d) ==
    /\ conn'[d].mem = conn[d].mem /\ conn'[d].fd = conn[d].fd
    /\ conn'[d].dialed = conn[d].dialed /\ conn'[d].up = conn[d].up
    /\ conn'[d].rd = conn[d].rd /\ conn'[d].wr = conn[d].wr
    /\ conn'[d].cn = conn[d].cn /\ conn'[d].freed = conn[d].freed

\* The thread a comes from no other object than c, and goes to no other.
CallAbout(a, c) ==
    /\ OneCall(a)
    /\ call[a].obj \in {c, None} /\ call'[a].obj \in {c, None}
CbAbout(c) ==
    \/ cb' = cb
    \/ cb.obj \in {c, None} \cup Acceptors /\ cb'.obj \in {c, None} \cup Acceptors

LEMMA ConnSame ==
    ASSUME JobsInv, NEW d \in Conns, CoreSame(d), JobsSame(d), JobsHeld(d),
           NEW a \in Actors, NEW c, c # d, CallAbout(a, c), CbAbout(c), 0 \in Actors
    PROVE  ConnShape(d)'
<1>0. ConnShape(d) /\ d # None /\ d \notin Acceptors
  BY NamesAssumption DEF JobsInv, None
<1>1. \A b \in Actors : call'[b] = call[b] \/ (call[b].obj # d /\ call'[b].obj # d)
  BY <1>0 DEF CallAbout, OneCall
<1>2. cb' = cb \/ (cb.obj # d /\ cb'.obj # d)
  BY <1>0 DEF CbAbout
<1>3. ASSUME NEW ps PROVE (InLoop(d, ps)' <=> InLoop(d, ps)) /\ (InCb(d, ps)' <=> InCb(d, ps))
  BY <1>1, <1>2 DEF InLoop, InCb
<1>4. Unconnected(d)' <=> Unconnected(d)
  BY <1>3 DEF Unconnected, CoreSame
<1>5. (RdKnown(d)' <=> RdKnown(d)) /\ (WrKnown(d)' <=> WrKnown(d))
  BY <1>1, <1>3 DEF RdKnown, WrKnown, CoreSame
<1>6. ASSUME NEW j \in Alive', bind'[j].obj = d PROVE JobShape(d, j)'
  <2>1. j \in Alive /\ bind[j].obj = d /\ job'[j] = job[j]
    BY <1>6 DEF JobsSame
  <2>2. JobShape(d, j)
    BY <1>0, <2>1 DEF ConnShape
  <2> QED
    BY <1>3, <1>4, <1>5, <2>1, <2>2 DEF JobShape, CoreSame
<1>7. HasJob(d)'
  <2>1. SUFFICES ASSUME conn[d].fd # NoFd, ~conn[d].freed, ~Unconnected(d)
                 PROVE  InLoop(d, {"addread"})' \/ \E j \in Alive' : bind'[j].obj = d
    BY <1>4 DEF HasJob, CoreSame
  <2>2. InLoop(d, {"addread"}) \/ \E j \in Alive : bind[j].obj = d
    BY <1>0, <2>1 DEF ConnShape, HasJob
  <2>3. ASSUME NEW j \in Alive, bind[j].obj = d PROVE ~job[j].del
    BY <1>0, <2>1, <2>3 DEF ConnShape, JobShape
  <2> QED
    BY <1>3, <2>2, <2>3 DEF JobsHeld
<1>8. ASSUME NEW b \in Actors, call'[b].obj = d PROVE CallShape(d, b)'
  <2>1. call'[b] = call[b] /\ CallShape(d, b)
    BY <1>0, <1>1, <1>8 DEF ConnShape
  <2> QED
    BY <1>4, <2>1 DEF CallShape, CoreSame
<1>9. cb'.obj = d => ConnCbShape(d)'
  BY <1>0, <1>2 DEF ConnShape, ConnCbShape, CoreSame
<1> QED
  BY <1>0, <1>6, <1>7, <1>8, <1>9 DEF ConnShape, CoreSame

\* The touched connection, when its jobs stay as they are.
Follows(c) ==
    /\ conn'[c].fd = conn[c].fd /\ conn'[c].mem = conn[c].mem
    /\ conn'[c].freed = conn[c].freed
    /\ conn'[c].cn => conn'[c].dialed
    /\ Unconnected(c)' <=> Unconnected(c)
    /\ RdKnown(c) => RdKnown(c)'
    /\ WrKnown(c) => WrKnown(c)'
    /\ InLoop(c, {"addread"}) => InLoop(c, {"addread"})'
    /\ InLoop(c, {"addread", "addset"}) => InLoop(c, {"addread", "addset"})'
    /\ InLoop(c, {"unread", "unwrite"}) => InLoop(c, {"unread", "unwrite"})'
    /\ InLoop(c, {"addconn"})' => InLoop(c, {"addconn"})

LEMMA JobsFollow ==
    ASSUME NEW c, ConnShape(c), Follows(c), JobsSame(c), JobsHeld(c)
    PROVE  /\ HasJob(c)'
           /\ \A j \in Alive' : bind'[j].obj = c => JobShape(c, j)'
<1>1. ASSUME NEW j \in Alive', bind'[j].obj = c PROVE JobShape(c, j)'
  <2>1. j \in Alive /\ bind[j].obj = c /\ job'[j] = job[j]
    BY <1>1 DEF JobsSame
  <2>2. JobShape(c, j)
    BY <2>1 DEF ConnShape
  <2> QED
    BY <2>1, <2>2 DEF JobShape, Follows
<1>2. HasJob(c)'
  <2>1. SUFFICES ASSUME conn[c].fd # NoFd, ~conn[c].freed, ~Unconnected(c)
                 PROVE  InLoop(c, {"addread"})' \/ \E j \in Alive' : bind'[j].obj = c
    BY DEF HasJob, Follows
  <2>2. InLoop(c, {"addread"}) \/ \E j \in Alive : bind[j].obj = c
    BY <2>1 DEF ConnShape, HasJob
  <2>3. ASSUME NEW j \in Alive, bind[j].obj = c PROVE ~job[j].del
    BY <2>1, <2>3 DEF ConnShape, JobShape
  <2> QED
    BY <2>2, <2>3 DEF JobsHeld, Follows
<1> QED
  BY <1>1, <1>2

\* The calls of the other threads on the touched connection.
LEMMA OtherCalls ==
    ASSUME JobsInv, NEW c \in Conns, NEW a \in Actors, OneCall(a),
           conn'[c].fd = conn[c].fd, conn'[c].mem = conn[c].mem,
           conn'[c].freed = conn[c].freed, Unconnected(c)' <=> Unconnected(c),
           a = 0 \/ (conn'[c].rd = conn[c].rd /\ conn'[c].cn = conn[c].cn),
           NEW b \in Actors, b # a, call'[b].obj = c
    PROVE  CallShape(c, b)'
<1>1. call'[b] = call[b] /\ CallShape(c, b) /\ ActorShape(b)
  BY DEF OneCall, JobsInv, ConnShape
<1>2. a = 0 => call[b].pc \notin FreeConnPcs \cup InitPcs
  BY <1>1 DEF ActorShape
<1> QED
  BY <1>1, <1>2 DEF CallShape, InitPcs, FreeConnPcs

LEMMA ConnFollows ==
    ASSUME JobsInv, NEW c \in Conns, Follows(c), JobsSame(c), JobsHeld(c),
           NEW a \in Actors, OneCall(a),
           a = 0 \/ (conn'[c].rd = conn[c].rd /\ conn'[c].cn = conn[c].cn),
           call'[a].obj = c => CallShape(c, a)',
           cb'.obj = c => ConnCbShape(c)'
    PROVE  ConnShape(c)'
<1>0. ConnShape(c)
  BY DEF JobsInv
<1>1. ASSUME NEW b \in Actors, call'[b].obj = c PROVE CallShape(c, b)'
  BY <1>1, OtherCalls DEF Follows
<1> QED
  BY <1>0, <1>1, JobsFollow DEF ConnShape, Follows

\* Jobs that stay where they are, all of them.
LEMMA VarsKept ==
    ASSUME LoopsInv, JobsInv, UNCHANGED <<vars, bind>>
    PROVE  /\ BindShape' /\ Stays /\ NoneDeleted
           /\ \A d : JobsSame(d) /\ JobsHeld(d)
           /\ Alive' = Alive /\ half' = half /\ LibStep
           /\ UNCHANGED <<pc, cur, dels>>
<1>1. Alive' = Alive
  BY DEF Alive, vars
<1>2. Stays /\ NoneDeleted
  BY DEF Stays, NoneDeleted, FieldsStay, vars
<1>3. BindShape'
  BY <1>1, <1>2, BindKept DEF JobsInv, BindShape
<1>4. \A d : JobsSame(d) /\ JobsHeld(d)
  BY <1>1 DEF JobsSame, JobsHeld, vars
<1> QED
  BY <1>1, <1>2, <1>3, <1>4 DEF LibStep, vars

\* A step that makes no job and marks none outside the loop obeys the rules.
Lawful == AddsUnused /\ MarksInLoop /\ LibStep

LEMMA LawfulQuiet ==
    ASSUME LoopsInv, LibStep, njobs' = njobs, ~aborted', \A d \in lateDel' : d.by = 0
    PROVE  Lawful
<1>0. njobs \in Nat
  BY AliveFacts
<1>1. AddsUnused
  BY <1>0 DEF AddsUnused, Creates
<1>2. MarksInLoop
  <2>1. ASSUME NEW a \in Actors, NEW j \in ioJobs, ListenMark(a, j) PROVE a = 0
    <3>1. [by |-> a, fd |-> job[j].fd] \in lateDel'
      BY <2>1 DEF ListenMark
    <3> QED
      BY <3>1
  <2> QED
    BY <2>1 DEF MarksInLoop
<1> QED
  BY <1>1, <1>2 DEF Lawful

LEMMA LawfulStays ==
    ASSUME LoopsInv, LibStep, UNCHANGED <<njobs, aborted>>, lateDel' \subseteq lateDel
    PROVE  Lawful
BY LawfulQuiet DEF LoopsInv, NoAbort, WatchInv, LateShape

LEMMA LawfulMade ==
    ASSUME LoopsInv, LibStep, NEW fd \in Fds, NEW kind, NEW ev,
           Creates(fd, kind, ev, 0), Unused(fd)
    PROVE  Lawful
<1>0. njobs \in Nat /\ ~aborted
  BY AliveFacts DEF LoopsInv, NoAbort
<1>1. job'[njobs + 1].fd = fd /\ ~aborted' /\ lateDel' = lateDel
  BY <1>0 DEF Creates
<1>2. ASSUME NEW f \in Fds, NEW k, NEW e, NEW t, Creates(f, k, e, t) PROVE Unused(f)
  <2>1. job'[njobs + 1].fd = f
    BY <1>2 DEF Creates
  <2> QED
    BY <1>1, <2>1
<1>3. AddsUnused
  BY <1>1, <1>2 DEF AddsUnused
<1>4. MarksInLoop
  BY <1>0 DEF MarksInLoop, ListenMark, Creates
<1> QED
  BY <1>3, <1>4 DEF Lawful
-----------------------------------------------------------------------------
(***************************************************************************)
(* Steps of member functions, by any thread.                               *)
(***************************************************************************)

\* All of them: what is left to show is what becomes of the connection that
\* the call is about.
LEMMA MemberStep ==
    ASSUME LoopsInv, StreamInv, JobsInv, NEW a \in Actors, NEW c \in Objects,
           Free(a) \/ call[a] # NoCall, CallAbout(a, c), LockStep(a), ActorShape(a)',
           UNCHANGED <<pc, cur, dels, cb, cli, acc>>,
           Stays, NoneDeleted \/ a = 0, BindShape', HalfOf',
           \A j \in Alive' : bind'[j].obj \in Acceptors => j \in Alive,
           \A d \in Conns : conn'[d].fd \in {conn[d].fd} \cup Closed,
           \A d \in Conns : d # c => CoreSame(d) /\ JobsSame(d) /\ JobsHeld(d),
           c \in Conns => ConnShape(c)'
    PROVE  JobsInv'
<1>1. OneCall(a) /\ 0 \in Actors
  BY AliveFacts DEF CallAbout
<1>2. CbShape' /\ CurShape'
  BY <1>1, LoopStays
<1>3. AccShape'
  BY AccKept
<1>4. regLock' = [d \in Conns |-> regLock'[d]] /\ \A b \in Actors : ActorShape(b)'
  BY <1>1, LocksKept
<1>5. ASSUME NEW d \in Conns PROVE ConnShape(d)'
  <2>1. CASE d # c
    BY <1>1, <2>1, ConnSame DEF CbAbout
  <2> QED
    BY <2>1
<1> QED
  BY <1>2, <1>3, <1>4, <1>5 DEF JobsInv

\* Those that do not call the library.
LEMMA OwnStep ==
    ASSUME LoopsInv, StreamInv, JobsInv, NEW a \in Actors, NEW c \in Conns,
           Free(a) \/ call[a] # NoCall, CallAbout(a, c), LockStep(a), ActorShape(a)',
           call[a].pc # "addset",
           UNCHANGED <<vars, bind, cb, cli, acc>>,
           \A d \in Conns : conn'[d].fd \in {conn[d].fd} \cup Closed,
           \A d \in Conns : d # c => CoreSame(d),
           ConnShape(c)'
    PROVE  JobsInv' /\ Lawful
<1>1. /\ BindShape' /\ Stays /\ NoneDeleted /\ Alive' = Alive /\ half' = half /\ LibStep
      /\ \A d : JobsSame(d) /\ JobsHeld(d)
      /\ UNCHANGED <<pc, cur, dels>>
  BY VarsKept
<1>2. HalfOf'
  BY <1>1, HalfKept DEF CallAbout
<1>3. JobsInv'
  BY <1>1, <1>2, MemberStep DEF Objects
<1>4. Lawful
  BY <1>1, LawfulStays DEF vars
<1> QED
  BY <1>3, <1>4

\* Where a call goes.
Enters(a, p, c) ==
    \/ call' = [call EXCEPT ![a].pc = p, ![a].obj = c]
    \/ call' = [call EXCEPT ![a] = [NoCall EXCEPT !.pc = p, !.obj = c]]

LEMMA CallsOf ==
    ASSUME StreamInv, NEW a \in Actors, NEW p, NEW c
    PROVE  /\ Goto2(a, p) => /\ call'[a].pc = p /\ call'[a].obj = call[a].obj
                             /\ OneCall(a)
           /\ Return2(a) => call'[a] = NoCall /\ OneCall(a)
           /\ Enters(a, p, c) => call'[a].pc = p /\ call'[a].obj = c /\ OneCall(a)
           /\ call' = call => OneCall(a)
<1>1. call = [b \in Actors |-> call[b]] /\ IsCall(call[a])
  BY DEF StreamInv, StreamType
<1>2. PICK r : r = call[a]
  OBVIOUS
<1>3. r = [pc |-> r.pc, obj |-> r.obj, data |-> r.data, fd |-> r.fd]
  BY <1>1, <1>2 DEF IsCall
<1>4. ASSUME NEW q, call' = [call EXCEPT ![a] = q] PROVE call'[a] = q /\ OneCall(a)
  BY <1>1, <1>4 DEF OneCall
<1>5. [r EXCEPT !.pc = p].pc = p /\ [r EXCEPT !.pc = p].obj = r.obj
  BY <1>3
<1>6. [r EXCEPT !.pc = p, !.obj = c].pc = p /\ [r EXCEPT !.pc = p, !.obj = c].obj = c
  BY <1>3
<1>7. Goto2(a, p) => call' = [call EXCEPT ![a] = [r EXCEPT !.pc = p]]
  BY <1>2 DEF Goto2
<1>8. call' = [call EXCEPT ![a].pc = p, ![a].obj = c] =>
        call' = [call EXCEPT ![a] = [r EXCEPT !.pc = p, !.obj = c]]
  BY <1>1, <1>2
<1>9. Return2(a) => call' = [call EXCEPT ![a] = NoCall]
  BY DEF Return2
<1>10. [NoCall EXCEPT !.pc = p, !.obj = c].pc = p /\ [NoCall EXCEPT !.pc = p, !.obj = c].obj = c
  BY DEF NoCall
<1> QED
  BY <1>2, <1>4, <1>5, <1>6, <1>7, <1>8, <1>9, <1>10 DEF OneCall, Enters

\* A call in progress is on a connection, and the connection is there.
LEMMA CallHere ==
    ASSUME JobsInv, NEW a \in Actors, call[a].pc \in ConnPcs
    PROVE  /\ call[a].obj \in Conns /\ CallShape(call[a].obj, a) /\ ConnShape(call[a].obj)
           /\ conn[call[a].obj].mem = "live" /\ call[a] # NoCall
           /\ call[a].pc \in LockPcs => regLock[call[a].obj] = a
           /\ call[a].pc \in FreeConnPcs \cup InitPcs => a = 0
<1>1. call[a] # NoCall /\ call[a].pc # "freelisten"
  BY DEF NoCall, ConnPcs, SendPcs, DirectPcs, FreeConnPcs, InitPcs, None
<1>2. ActorShape(a)
  BY DEF JobsInv
<1> QED
  BY <1>1, <1>2 DEF ActorShape, JobsInv, ConnShape, CallShape

\* Connections other than c are left alone; of c, all but these flags are.
FlagsNow(c, rd, wr, cn, up, fr) ==
    /\ \A d \in Conns : d # c => CoreSame(d)
    /\ conn'[c].mem = conn[c].mem /\ conn'[c].fd = conn[c].fd
    /\ conn'[c].dialed = conn[c].dialed
    /\ conn'[c].rd = rd /\ conn'[c].wr = wr /\ conn'[c].cn = cn
    /\ conn'[c].up = up /\ conn'[c].freed = fr

LEMMA FlagSets ==
    ASSUME StreamInv, NEW c \in Conns, NEW v
    PROVE  LET k == conn[c]
           IN  /\ conn' = conn => FlagsNow(c, k.rd, k.wr, k.cn, k.up, k.freed)
               /\ conn' = [conn EXCEPT ![c].rd = v] => FlagsNow(c, v, k.wr, k.cn, k.up, k.freed)
               /\ conn' = [conn EXCEPT ![c].wr = v] => FlagsNow(c, k.rd, v, k.cn, k.up, k.freed)
               /\ conn' = [conn EXCEPT ![c].cn = v] => FlagsNow(c, k.rd, k.wr, v, k.up, k.freed)
               /\ conn' = [conn EXCEPT ![c].up = v] => FlagsNow(c, k.rd, k.wr, k.cn, v, k.freed)
               /\ conn' = [conn EXCEPT ![c].freed = v] => FlagsNow(c, k.rd, k.wr, k.cn, k.up, v)
               /\ conn' = [conn EXCEPT ![c].queue = v] => FlagsNow(c, k.rd, k.wr, k.cn, k.up, k.freed)
<1>1. conn = [d \in Conns |-> conn[d]] /\ conn[c] \in ConnRec
  BY DEF StreamInv, StreamType
<1>2. ASSUME NEW q, conn' = [conn EXCEPT ![c] = q],
             q.mem = conn[c].mem, q.fd = conn[c].fd, q.dialed = conn[c].dialed
      PROVE  FlagsNow(c, q.rd, q.wr, q.cn, q.up, q.freed)
  <2>1. conn'[c] = q /\ \A d \in Conns : d # c => conn'[d] = conn[d]
    BY <1>1, <1>2
  <2> QED
    BY <1>2, <2>1 DEF FlagsNow, CoreSame
<1>3. PICK k \in ConnRec : k = conn[c]
  BY <1>1
<1>4. conn' = conn => conn' = [conn EXCEPT ![c] = k]
  BY <1>1, <1>3
<1>5. /\ [conn EXCEPT ![c].rd = v] = [conn EXCEPT ![c] = [k EXCEPT !.rd = v]]
      /\ [conn EXCEPT ![c].wr = v] = [conn EXCEPT ![c] = [k EXCEPT !.wr = v]]
      /\ [conn EXCEPT ![c].cn = v] = [conn EXCEPT ![c] = [k EXCEPT !.cn = v]]
      /\ [conn EXCEPT ![c].up = v] = [conn EXCEPT ![c] = [k EXCEPT !.up = v]]
      /\ [conn EXCEPT ![c].freed = v] = [conn EXCEPT ![c] = [k EXCEPT !.freed = v]]
      /\ [conn EXCEPT ![c].queue = v] = [conn EXCEPT ![c] = [k EXCEPT !.queue = v]]
  BY <1>3
<1>6. conn' = conn => FlagsNow(c, k.rd, k.wr, k.cn, k.up, k.freed)
  BY <1>2, <1>3, <1>4
<1>7. conn' = [conn EXCEPT ![c].rd = v] => FlagsNow(c, v, k.wr, k.cn, k.up, k.freed)
  <2> DEFINE q == [k EXCEPT !.rd = v]
  <2>1. /\ q.mem = k.mem /\ q.fd = k.fd /\ q.dialed = k.dialed
        /\ q.rd = v /\ q.wr = k.wr /\ q.cn = k.cn /\ q.up = k.up /\ q.freed = k.freed
    BY DEF ConnRec
  <2>2. conn' = [conn EXCEPT ![c].rd = v] => conn' = [conn EXCEPT ![c] = q]
    BY <1>5
  <2> HIDE DEF q
  <2> QED
    BY <1>2, <1>3, <2>1, <2>2
<1>8. conn' = [conn EXCEPT ![c].wr = v] => FlagsNow(c, k.rd, v, k.cn, k.up, k.freed)
  <2> DEFINE q == [k EXCEPT !.wr = v]
  <2>1. /\ q.mem = k.mem /\ q.fd = k.fd /\ q.dialed = k.dialed
        /\ q.rd = k.rd /\ q.wr = v /\ q.cn = k.cn /\ q.up = k.up /\ q.freed = k.freed
    BY DEF ConnRec
  <2>2. conn' = [conn EXCEPT ![c].wr = v] => conn' = [conn EXCEPT ![c] = q]
    BY <1>5
  <2> HIDE DEF q
  <2> QED
    BY <1>2, <1>3, <2>1, <2>2
<1>9. conn' = [conn EXCEPT ![c].cn = v] => FlagsNow(c, k.rd, k.wr, v, k.up, k.freed)
  <2> DEFINE q == [k EXCEPT !.cn = v]
  <2>1. /\ q.mem = k.mem /\ q.fd = k.fd /\ q.dialed = k.dialed
        /\ q.rd = k.rd /\ q.wr = k.wr /\ q.cn = v /\ q.up = k.up /\ q.freed = k.freed
    BY DEF ConnRec
  <2>2. conn' = [conn EXCEPT ![c].cn = v] => conn' = [conn EXCEPT ![c] = q]
    BY <1>5
  <2> HIDE DEF q
  <2> QED
    BY <1>2, <1>3, <2>1, <2>2
<1>10. conn' = [conn EXCEPT ![c].up = v] => FlagsNow(c, k.rd, k.wr, k.cn, v, k.freed)
  <2> DEFINE q == [k EXCEPT !.up = v]
  <2>1. /\ q.mem = k.mem /\ q.fd = k.fd /\ q.dialed = k.dialed
        /\ q.rd = k.rd /\ q.wr = k.wr /\ q.cn = k.cn /\ q.up = v /\ q.freed = k.freed
    BY DEF ConnRec
  <2>2. conn' = [conn EXCEPT ![c].up = v] => conn' = [conn EXCEPT ![c] = q]
    BY <1>5
  <2> HIDE DEF q
  <2> QED
    BY <1>2, <1>3, <2>1, <2>2
<1>11. conn' = [conn EXCEPT ![c].freed = v] => FlagsNow(c, k.rd, k.wr, k.cn, k.up, v)
  <2> DEFINE q == [k EXCEPT !.freed = v]
  <2>1. /\ q.mem = k.mem /\ q.fd = k.fd /\ q.dialed = k.dialed
        /\ q.rd = k.rd /\ q.wr = k.wr /\ q.cn = k.cn /\ q.up = k.up /\ q.freed = v
    BY DEF ConnRec
  <2>2. conn' = [conn EXCEPT ![c].freed = v] => conn' = [conn EXCEPT ![c] = q]
    BY <1>5
  <2> HIDE DEF q
  <2> QED
    BY <1>2, <1>3, <2>1, <2>2
<1>12. conn' = [conn EXCEPT ![c].queue = v] => FlagsNow(c, k.rd, k.wr, k.cn, k.up, k.freed)
  <2> DEFINE q == [k EXCEPT !.queue = v]
  <2>1. /\ q.mem = k.mem /\ q.fd = k.fd /\ q.dialed = k.dialed
        /\ q.rd = k.rd /\ q.wr = k.wr /\ q.cn = k.cn /\ q.up = k.up /\ q.freed = k.freed
    BY DEF ConnRec
  <2>2. conn' = [conn EXCEPT ![c].queue = v] => conn' = [conn EXCEPT ![c] = q]
    BY <1>5
  <2> HIDE DEF q
  <2> QED
    BY <1>2, <1>3, <2>1, <2>2
<1> QED
  BY <1>3, <1>6, <1>7, <1>8, <1>9, <1>10, <1>11, <1>12
-----------------------------------------------------------------------------
(***************************************************************************)
(* send_data.                                                              *)
(***************************************************************************)
Flags0(c) == FlagsNow(c, conn[c].rd, conn[c].wr, conn[c].cn, conn[c].up, conn[c].freed)

LEMMA SendDataJobs ==
    ASSUME LoopsInv, StreamInv, JobsInv, RecvHabits \subseteq Habits,
           NEW a \in Actors, NEW c \in Conns, send_data(a, c)
    PROVE  JobsInv' /\ Lawful
<1>1. /\ Free(a) /\ call[a] = NoCall /\ conn[c].mem = "live" /\ MaySend(a, c)
      /\ UNCHANGED <<vars, acc, regLock, cb, cli, bind>>
  BY DEF send_data, Free
<1>2. call[a].obj = None /\ call[a].pc = None
  BY <1>1 DEF NoCall
<1>3. /\ OneCall(a) /\ call'[a].obj = c /\ call'[a].pc \in {"register", "directfd"}
      /\ Flags0(c)
  <2>1. CASE conn[c].async
    <3>1. /\ Enters(a, "register", c)
          /\ conn' = [conn EXCEPT ![c].queue = @ \o Message(c, nmsgs + 1)]
      BY <2>1 DEF send_data, RecvHabits, AllHabits, Enters
    <3>2. PICK v : v = conn[c].queue \o Message(c, nmsgs + 1)
      OBVIOUS
    <3>3. conn' = [conn EXCEPT ![c].queue = v]
      BY <3>1, <3>2
    <3>4. OneCall(a) /\ call'[a].obj = c /\ call'[a].pc = "register"
      BY <3>1, CallsOf
    <3>5. Flags0(c)
      BY <3>3, FlagSets DEF Flags0
    <3> QED
      BY <3>4, <3>5
  <2>2. CASE ~conn[c].async
    <3>1. PICK r : r = [pc |-> "directfd", obj |-> c, data |-> Message(c, nmsgs + 1), fd |-> NoFd]
      OBVIOUS
    <3>2. call' = [call EXCEPT ![a] = r] /\ conn' = conn
      BY <2>2, <3>1 DEF send_data
    <3>3. call = [b \in Actors |-> call[b]]
      BY DEF StreamInv, StreamType
    <3>4. call'[a] = r /\ OneCall(a)
      BY <3>2, <3>3 DEF OneCall
    <3>5. Flags0(c)
      BY <3>2, FlagSets DEF Flags0
    <3> QED
      BY <3>1, <3>4, <3>5
  <2> QED
    BY <2>1, <2>2
<1>4. CallAbout(a, c) /\ LockStep(a)
  BY <1>1, <1>2, <1>3 DEF CallAbout, LockStep
<1>5. ActorShape(a)'
  BY <1>3 DEF ActorShape, ConnPcs, SendPcs, DirectPcs, FreeConnPcs, InitPcs, LockPcs
<1>6. call'[a].pc = "register" => ~Unconnected(c)
  BY <1>1 DEF MaySend, RecvHabits, AllHabits, Unconnected, InCb
<1>7. Follows(c)
  <2>1. 0 \in Actors /\ c # None
    BY AliveFacts, NamesAssumption DEF None
  <2>2. \A b \in Actors : call'[b] = call[b] \/
          (call[b].obj # c /\ call'[b].pc \in {"register", "directfd"})
    BY <1>2, <1>3, <2>1 DEF OneCall
  <2>3. ConnShape(c)
    BY DEF JobsInv
  <2> QED
    BY <1>1, <1>3, <2>1, <2>2, <2>3 DEF Follows, Flags0, FlagsNow, Unconnected, InCb, InLoop, RdKnown,
       WrKnown, ConnShape
<1>8. CallShape(c, a)'
  BY <1>1, <1>3, <1>6, <1>7 DEF CallShape, Follows, Flags0, FlagsNow, InitPcs, FreeConnPcs,
     SendPcs
<1>9. ConnShape(c)'
  <2>1. JobsSame(c) /\ JobsHeld(c)
    BY <1>1, VarsKept
  <2>2. cb'.obj = c => ConnCbShape(c)'
    BY <1>1, <1>3 DEF JobsInv, ConnShape, ConnCbShape, Flags0, FlagsNow
  <2> QED
    BY <1>3, <1>7, <1>8, <2>1, <2>2, ConnFollows DEF Flags0, FlagsNow
<1> QED
  BY <1>1, <1>2, <1>3, <1>4, <1>5, <1>9, OwnStep DEF Flags0, FlagsNow, CoreSame, None

\* What the members do that are already under way and do not call the library.
LEMMA OwnCallJobs ==
    ASSUME LoopsInv, StreamInv, JobsInv, NEW a \in Actors, NEW c \in Conns,
           c = call[a].obj, call[a].pc \in SendPcs \cup DirectPcs \cup {"unlock", "rdflag"},
           OneCall(a), UNCHANGED <<vars, bind, cb, cli, acc>>, LockStep(a),
           FlagsNow(c, conn'[c].rd, conn'[c].wr, conn[c].cn, conn[c].up, conn[c].freed),
           conn[c].wr => conn'[c].wr,
           call[a].pc = "rdflag" => conn'[c].rd,
           call[a].pc = "wrflag" => conn'[c].wr,
           call[a].pc # "rdflag" => conn'[c].rd = conn[c].rd,
           \/ call'[a] = NoCall
           \/ /\ call'[a].obj = c
              /\ \/ call'[a].pc \in DirectPcs
                 \/ /\ call[a].pc = "register" /\ call'[a].pc = "addwrite"
                    /\ ~conn[c].freed /\ regLock'[c] = a
    PROVE  JobsInv' /\ Lawful
<1> USE DEF SendPcs, DirectPcs
<1>0. 0 \in Actors /\ c # None
  BY AliveFacts, NamesAssumption DEF None
<1>1. /\ CallShape(c, a) /\ ConnShape(c) /\ call[a] # NoCall
      /\ call[a].pc = "rdflag" => a = 0
  BY CallHere DEF ConnPcs, InitPcs, FreeConnPcs
<1>2. CallAbout(a, c)
  BY DEF CallAbout, NoCall
<1>3. ActorShape(a)'
  BY DEF ActorShape, ConnPcs, FreeConnPcs, InitPcs, LockPcs, NoCall, None
<1>4. Unconnected(c)' <=> Unconnected(c)
  BY DEF Unconnected, InCb, FlagsNow
<1>5. \A ps \in {{"addread"}, {"addread", "addset"}, {"unread", "unwrite"}} :
        InLoop(c, ps) => InLoop(c, ps)'
  BY <1>0 DEF OneCall, InLoop
<1>6. RdKnown(c) => RdKnown(c)'
  <2>1. CASE conn[c].rd
    BY <2>1 DEF RdKnown
  <2>2. CASE InLoop(c, {"rdflag"})
    BY <1>0, <2>2 DEF RdKnown, InLoop, OneCall
  <2> QED
    BY <2>1, <2>2 DEF RdKnown
<1>7. WrKnown(c) => WrKnown(c)'
  <2>1. CASE conn[c].wr \/ conn[c].cn
    BY <2>1 DEF WrKnown, FlagsNow
  <2>2. ASSUME NEW b \in Actors, call[b].obj = c, call[b].pc = "wrflag" PROVE WrKnown(c)'
    BY <2>2 DEF WrKnown, OneCall
  <2>3. CASE InCb(c, {"againflag"})
    BY <2>3 DEF WrKnown, InCb
  <2> QED
    BY <2>1, <2>2, <2>3 DEF WrKnown
<1>8. InLoop(c, {"addconn"})' => InLoop(c, {"addconn"})
  BY <1>0 DEF OneCall, InLoop, NoCall, None
<1>9. Follows(c)
  BY <1>1, <1>4, <1>5, <1>6, <1>7, <1>8 DEF Follows, FlagsNow, ConnShape
<1>10. call'[a].obj = c => CallShape(c, a)'
  BY <1>0, <1>1, <1>4 DEF CallShape, FlagsNow, InitPcs, FreeConnPcs, NoCall
<1>11. cb'.obj = c => ConnCbShape(c)'
  BY <1>1 DEF ConnShape, ConnCbShape, FlagsNow
<1>12. JobsSame(c) /\ JobsHeld(c)
  BY VarsKept
<1>13. ConnShape(c)'
  BY <1>1, <1>9, <1>10, <1>11, <1>12, ConnFollows DEF FlagsNow
<1> QED
  BY <1>1, <1>2, <1>3, <1>13, OwnStep DEF FlagsNow, CoreSame

\* OwnCallJobs, action by action.
LEMMA OwnCalls ==
    ASSUME LoopsInv, StreamInv, JobsInv, NEW a \in Actors,
           \/ send_data_lock(a) \/ send_data_flag(a) \/ direct_fd(a) \/ direct_write(a)
           \/ free_unlock(a) \/ register_read_flag(a)
    PROVE  JobsInv' /\ Lawful
<1> DEFINE c == call[a].obj
<1>0. call[a].pc \in SendPcs \cup DirectPcs \cup {"unlock", "rdflag"}
  BY DEF send_data_lock, send_data_flag, direct_fd, direct_write, free_unlock,
     register_read_flag, SendPcs, DirectPcs
<1>1. /\ c \in Conns /\ conn[c].mem = "live"
      /\ call[a].pc \in LockPcs => regLock[c] = a
  BY <1>0, CallHere DEF ConnPcs, FreeConnPcs, InitPcs
<1>2. conn' = conn => Flags0(c)
  BY <1>1, FlagSets DEF Flags0
<1>3. regLock = [d \in Conns |-> regLock[d]]
  BY DEF JobsInv
<1>4. CASE send_data_lock(a)
  <2>1. call[a].pc = "register" /\ conn' = conn /\ UNCHANGED <<vars, bind, cb, cli, acc>>
    BY <1>4 DEF send_data_lock, ConnKeeps
  <2>2. CASE conn[c].freed
    <3>1. call'[a] = NoCall /\ OneCall(a) /\ regLock' = regLock
      BY <1>4, <2>2, CallsOf DEF send_data_lock
    <3> HIDE DEF c
    <3> QED
      BY <1>0, <1>1, <1>2, <2>1, <3>1, OwnCallJobs DEF Flags0, LockStep, c
  <2>3. CASE ~conn[c].freed
    <3>1. /\ regLock[c] = NoOne /\ regLock' = [regLock EXCEPT ![c] = a]
          /\ call'[a].pc = "addwrite" /\ call'[a].obj = c /\ OneCall(a)
      BY <1>4, <2>3, CallsOf DEF send_data_lock
    <3>2. regLock'[c] = a
      BY <1>1, <1>3, <3>1
    <3>3. LockStep(a)
      BY <1>1, <3>1 DEF LockStep
    <3> HIDE DEF c
    <3> QED
      BY <1>0, <1>1, <1>2, <2>1, <2>3, <3>1, <3>2, <3>3, OwnCallJobs DEF Flags0, c
  <2> QED
    BY <2>2, <2>3
<1>5. CASE send_data_flag(a)
  <2>1. /\ call[a].pc = "wrflag" /\ conn' = [conn EXCEPT ![c].wr = TRUE]
        /\ regLock' = [regLock EXCEPT ![c] = NoOne]
        /\ UNCHANGED <<vars, bind, cb, cli, acc>>
    BY <1>5 DEF send_data_flag, ConnKeeps
  <2>2. FlagsNow(c, conn[c].rd, TRUE, conn[c].cn, conn[c].up, conn[c].freed)
    BY <1>1, <2>1, FlagSets
  <2>3. call'[a] = NoCall /\ OneCall(a)
    BY <1>5, CallsOf DEF send_data_flag
  <2>4. LockStep(a)
    BY <1>1, <2>1 DEF LockStep, LockPcs
  <2> HIDE DEF c
  <2> QED
    BY <1>0, <1>1, <2>1, <2>2, <2>3, <2>4, OwnCallJobs DEF FlagsNow, c
<1>6. CASE direct_fd(a) \/ direct_write(a)
  <2>1. /\ call[a].pc \in DirectPcs /\ UNCHANGED <<vars, bind, cb, cli, acc, regLock>>
    BY <1>6 DEF direct_fd, direct_write, DirectPcs
  <2>2. Flags0(c)
    <3>1. CASE conn' = conn
      BY <1>2, <3>1
    <3>2. ASSUME NEW to, to \subseteq Conns,
                 conn' = [d \in Conns |-> IF d \in to THEN [conn[d] EXCEPT !.dead = TRUE]
                                          ELSE conn[d]]
          PROVE  Flags0(c)
      <4>1. ASSUME NEW d \in Conns
            PROVE  /\ conn'[d].mem = conn[d].mem /\ conn'[d].fd = conn[d].fd
                   /\ conn'[d].dialed = conn[d].dialed /\ conn'[d].up = conn[d].up
                   /\ conn'[d].rd = conn[d].rd /\ conn'[d].wr = conn[d].wr
                   /\ conn'[d].cn = conn[d].cn /\ conn'[d].freed = conn[d].freed
        <5>1. PICK r \in ConnRec : r = conn[d]
          BY DEF StreamInv, StreamType
        <5>2. conn'[d] = IF d \in to THEN [r EXCEPT !.dead = TRUE] ELSE r
          BY <3>2, <5>1
        <5> QED
          BY <5>1, <5>2 DEF ConnRec
      <4> QED
        BY <1>1, <4>1 DEF Flags0, FlagsNow, CoreSame
    <3>3. CASE direct_fd(a)
      BY <3>1, <3>3 DEF direct_fd
    <3>4. CASE direct_write(a)
      <4> DEFINE to == {d \in Conns : conn[d].fd # NoFd /\ conn[d].fd = call[a].fd
                                        /\ ~conn[d].dead}
      <4>1. conn' = conn \/
            conn' = [d \in Conns |-> IF d \in to THEN [conn[d] EXCEPT !.dead = TRUE] ELSE conn[d]]
        BY <3>4 DEF direct_write
      <4>2. to \subseteq Conns
        OBVIOUS
      <4> HIDE DEF to
      <4> QED
        BY <3>1, <3>2, <4>1, <4>2
    <3> QED
      BY <1>6, <3>3, <3>4
  <2>3. /\ OneCall(a)
        /\ call'[a] = NoCall \/ (call'[a].obj = c /\ call'[a].pc \in DirectPcs)
    <3>1. call = [b \in Actors |-> call[b]] /\ IsCall(call[a])
      BY DEF StreamInv, StreamType
    <3>2. PICK r : r = call[a]
      OBVIOUS
    <3>3. r = [pc |-> r.pc, obj |-> r.obj, data |-> r.data, fd |-> r.fd]
      BY <3>1, <3>2 DEF IsCall
    <3>4. ASSUME NEW q, call' = [call EXCEPT ![a] = q], q = NoCall \/ (q.obj = c /\ q.pc \in DirectPcs)
          PROVE  OneCall(a) /\ (call'[a] = NoCall \/ (call'[a].obj = c /\ call'[a].pc \in DirectPcs))
      BY <3>1, <3>4 DEF OneCall
    <3>5. CASE direct_fd(a)
      <4>1. PICK q : q = [r EXCEPT !.pc = "direct", !.fd = conn[call[a].obj].fd]
        OBVIOUS
      <4>2. call' = [call EXCEPT ![a] = q]
        BY <3>2, <3>5, <4>1 DEF direct_fd
      <4>3. q.obj = c /\ q.pc \in DirectPcs
        BY <3>2, <3>3, <4>1 DEF DirectPcs
      <4> QED
        BY <3>4, <4>2, <4>3
    <3>6. CASE direct_write(a)
      <4>1. \/ Return2(a)
            \/ \E n \in 1 .. Len(call[a].data) :
                 call' = [call EXCEPT ![a].data = SubSeq(@, n + 1, Len(@))]
        BY <3>6 DEF direct_write
      <4>2. CASE Return2(a)
        BY <3>4, <4>2 DEF Return2
      <4>3. ASSUME NEW n \in 1 .. Len(call[a].data),
                   call' = [call EXCEPT ![a].data = SubSeq(@, n + 1, Len(@))]
            PROVE  \E q : /\ call' = [call EXCEPT ![a] = q]
                          /\ q.obj = c /\ q.pc \in DirectPcs
        <5>1. PICK v : v = SubSeq(call[a].data, n + 1, Len(call[a].data))
          OBVIOUS
        <5>2. PICK q : q = [r EXCEPT !.data = v]
          OBVIOUS
        <5>3. call' = [call EXCEPT ![a] = q]
          BY <3>2, <4>3, <5>1, <5>2
        <5>4. q.obj = c /\ q.pc \in DirectPcs
          BY <2>1, <3>2, <3>3, <5>2
        <5> QED
          BY <5>3, <5>4
      <4> QED
        BY <3>4, <4>1, <4>2, <4>3
    <3> QED
      BY <1>6, <3>5, <3>6
  <2> HIDE DEF c
  <2> QED
    BY <1>0, <1>1, <2>1, <2>2, <2>3, OwnCallJobs DEF Flags0, FlagsNow, LockStep, DirectPcs, c
<1>7. CASE free_unlock(a)
  <2>1. /\ call[a].pc = "unlock" /\ conn' = conn
        /\ regLock' = [regLock EXCEPT ![c] = NoOne]
        /\ UNCHANGED <<vars, bind, cb, cli, acc>>
    BY <1>7 DEF free_unlock, ConnKeeps
  <2>2. call'[a] = NoCall /\ OneCall(a)
    BY <1>7, CallsOf DEF free_unlock
  <2>3. LockStep(a)
    BY <1>1, <2>1 DEF LockStep, LockPcs, FreeConnPcs
  <2> HIDE DEF c
  <2> QED
    BY <1>0, <1>1, <1>2, <2>1, <2>2, <2>3, OwnCallJobs DEF Flags0, c
<1>8. CASE register_read_flag(a)
  <2>1. /\ call[a].pc = "rdflag" /\ conn' = [conn EXCEPT ![c].rd = TRUE]
        /\ regLock' = regLock /\ UNCHANGED <<vars, bind, cb, cli, acc>>
    BY <1>8 DEF register_read_flag, ConnKeeps
  <2>2. FlagsNow(c, TRUE, conn[c].wr, conn[c].cn, conn[c].up, conn[c].freed)
    BY <1>1, <2>1, FlagSets
  <2>3. call'[a] = NoCall /\ OneCall(a)
    BY <1>8, CallsOf DEF register_read_flag
  <2> HIDE DEF c
  <2> QED
    BY <1>0, <1>1, <2>1, <2>2, <2>3, OwnCallJobs DEF FlagsNow, LockStep, c
<1> QED
  BY <1>4, <1>5, <1>6, <1>7, <1>8
-----------------------------------------------------------------------------
(***************************************************************************)
(* free, and the callbacks that call it; init.                             *)
(***************************************************************************)

\* A step of a callback of connection c.
LEMMA CallbackStep ==
    ASSUME LoopsInv, StreamInv, JobsInv, NEW c \in Conns, c = cb.obj, NEW p, CbGoto(p),
           cb.pc \in ConnCbPcs, p \in ConnCbPcs \cup {"done"},
           p \in SendCbPcs \cup {"connect"} => cb.pc \in SendCbPcs \cup {"connect"} /\ NoneDeleted,
           call'[0] # NoCall => p \in {"done", "conn_ok"},
           CallAbout(0, c), LockStep(0), ActorShape(0)',
           UNCHANGED <<pc, cur, dels, cli, acc>>,
           Stays, BindShape', HalfOf',
           \A j \in Alive' : bind'[j].obj \in Acceptors => j \in Alive,
           \A d \in Conns : conn'[d].fd = conn[d].fd,
           \A d \in Conns : d # c => CoreSame(d) /\ JobsSame(d) /\ JobsHeld(d),
           ConnShape(c)'
    PROVE  JobsInv'
<1>1. OneCall(0) /\ 0 \in Actors
  BY AliveFacts DEF CallAbout
<1>2. CbShape' /\ CurShape'
  BY CallbackGoes
<1>3. AccShape'
  BY AccKept
<1>4. regLock' = [d \in Conns |-> regLock'[d]] /\ \A b \in Actors : ActorShape(b)'
  BY <1>1, LocksKept
<1>5. cb'.obj = c
  BY CbGotoFacts
<1>6. ASSUME NEW d \in Conns PROVE ConnShape(d)'
  <2>1. CASE d # c
    BY <1>1, <1>5, <2>1, ConnSame DEF CbAbout
  <2> QED
    BY <2>1
<1> QED
  BY <1>2, <1>3, <1>4, <1>6 DEF JobsInv

\* One that does not call the library.
LEMMA OwnCallbackStep ==
    ASSUME LoopsInv, StreamInv, JobsInv, NEW c \in Conns, c = cb.obj, NEW p, CbGoto(p),
           cb.pc \in ConnCbPcs, p \in ConnCbPcs \cup {"done"},
           p \in SendCbPcs \cup {"connect"} => cb.pc \in SendCbPcs \cup {"connect"},
           call'[0] # NoCall => p \in {"done", "conn_ok"}, call[0] = NoCall,
           CallAbout(0, c), LockStep(0), ActorShape(0)',
           UNCHANGED <<vars, bind, cli, acc>>,
           \A d \in Conns : conn'[d].fd = conn[d].fd,
           \A d \in Conns : d # c => CoreSame(d),
           ConnShape(c)'
    PROVE  JobsInv' /\ Lawful
<1>1. /\ BindShape' /\ Stays /\ NoneDeleted /\ Alive' = Alive /\ half' = half /\ LibStep
      /\ \A d : JobsSame(d) /\ JobsHeld(d)
      /\ UNCHANGED <<pc, cur, dels>>
  BY VarsKept
<1>2. call[0].pc # "addset" /\ 0 \in Actors
  BY AliveFacts DEF NoCall, None
<1>3. HalfOf'
  BY <1>1, <1>2, HalfKept DEF CallAbout
<1>4. JobsInv'
  BY <1>1, <1>3, CallbackStep
<1>5. Lawful
  BY <1>1, LawfulStays DEF vars
<1> QED
  BY <1>4, <1>5

\* In a callback that is not the application's, loop 0 makes no call.
LEMMA NoCallInCallback ==
    ASSUME LoopsInv, JobsInv, cb.pc \in ConnCbPcs \cup {"close", "delete", "accept"},
           ~UserCode
    PROVE  call[0] = NoCall
BY DEF JobsInv, CbShape, ConnCbPcs, SendCbPcs, ConnectCbPcs

\* The callbacks of a connection are its own, and it is there.
LEMMA CbInConns ==
    ASSUME LoopsInv, StreamInv, JobsInv, cb.pc \in ConnCbPcs \cup {"close", "delete"}
    PROVE  /\ cb.obj \in Conns /\ ConnShape(cb.obj) /\ ConnCbShape(cb.obj)
           /\ conn[cb.obj].mem = "live"
           /\ cb.pc \in ConnCbPcs => /\ cur[0].job \in Alive /\ bind[cur[0].job].obj = cb.obj
                                     /\ pc[0] \in {"readcb", "readend", "writecb"}
<1>1. CASE cb.pc \in {"close", "delete"}
  BY <1>1, CbWhere DEF JobsInv, ConnShape, ConnCbShape, ConnCbPcs, SendCbPcs, ConnectCbPcs
<1>2. CASE cb.pc \in ConnCbPcs
  <2>1. pc[0] \in {"readcb", "readend", "writecb"}
    BY <1>2 DEF JobsInv, CbShape
  <2>2. cb.pc \notin {None, "close", "delete"}
    BY <1>2 DEF ConnCbPcs, SendCbPcs, ConnectCbPcs, None
  <2>3. cur[0].job \in Alive /\ cb.obj = bind[cur[0].job].obj
    BY <2>2, CbWhere
  <2>4. job[cur[0].job].kind = "wr"
    BY <2>1 DEF JobsInv, CurShape
  <2>5. cb.obj \in Conns
    BY <2>3, <2>4 DEF JobsInv, BindShape
  <2> QED
    BY <2>1, <2>3, <2>5 DEF JobsInv, ConnShape, ConnCbShape
<1> QED
  BY <1>1, <1>2

LEMMA FreeLockShape ==
    ASSUME LoopsInv, StreamInv, JobsInv, NEW c \in Conns, FreeLock(0, c),
           conn[c].mem = "live", call[0] = NoCall, UNCHANGED <<vars, bind>>,
           \/ cb' = cb /\ cb.pc \notin SendCbPcs \cup {"connect"}
           \/ cb.pc = "fail" /\ cb'.pc = "done" /\ cb'.obj = cb.obj
    PROVE  /\ ConnShape(c)' /\ ActorShape(0)' /\ CallAbout(0, c) /\ LockStep(0)
           /\ \A d \in Conns : d # c => CoreSame(d)
           /\ conn'[c].fd = conn[c].fd
<1>0. 0 \in Actors /\ c # None /\ ConnShape(c)
  BY AliveFacts, NamesAssumption DEF None, JobsInv
<1>1. /\ regLock[c] = NoOne /\ regLock' = [regLock EXCEPT ![c] = 0]
      /\ regLock = [d \in Conns |-> regLock[d]]
  BY DEF FreeLock, JobsInv
<1>2. FlagsNow(c, conn[c].rd, conn[c].wr, conn[c].cn, conn[c].up, TRUE)
  BY FlagSets DEF FreeLock
<1>3. PICK p : p = IF conn[c].rd THEN "unread" ELSE "unwrite"
  OBVIOUS
<1>4. call'[0].pc = p /\ call'[0].obj = c /\ OneCall(0)
  <2>1. Enters(0, p, c)
    BY <1>3 DEF FreeLock, Enters
  <2> QED
    BY <1>0, <2>1, CallsOf
<1>5. p \in {"unread", "unwrite"} /\ (p = "unwrite" => ~conn[c].rd)
  BY <1>3
<1>6. CallAbout(0, c)
  BY <1>4 DEF CallAbout, NoCall
<1>7. LockStep(0)
  BY <1>1 DEF LockStep
<1>8. ActorShape(0)'
  <2>1. regLock'[c] = 0
    BY <1>1
  <2> QED
    BY <1>4, <1>5, <2>1 DEF ActorShape, ConnPcs, FreeConnPcs
\* Nobody is adding to the connection: that is done under the lock.
<1>9. \A b \in Actors : call[b].obj = c => call[b].pc \notin {"addwrite", "wrflag"}
  BY <1>1, NobodyIsNobody DEF JobsInv, ActorShape, LockPcs
<1>10. Unconnected(c)' <=> Unconnected(c)
  BY <1>2 DEF Unconnected, InCb, FlagsNow
<1>11. ASSUME NEW j \in Alive', bind'[j].obj = c PROVE JobShape(c, j)'
  <2>1. j \in Alive /\ bind[j].obj = c /\ job'[j] = job[j]
    BY <1>11, VarsKept DEF JobsSame
  <2>2. JobShape(c, j)
    BY <1>0, <2>1 DEF ConnShape
  <2>3. ~job[j].del /\ "R" \in job[j].ev => RdKnown(c)'
    BY <1>2, <2>2 DEF JobShape, RdKnown, InLoop, NoCall, FlagsNow, None
  <2>4. WrKnown(c) => WrKnown(c)'
    BY <1>2, <1>9 DEF WrKnown, InCb, FlagsNow, SendCbPcs
  <2>5. InLoop(c, {"unread", "unwrite"})'
    BY <1>4, <1>5 DEF InLoop
  <2>6. ~InLoop(c, {"addconn"})'
    BY <1>4, <1>5 DEF InLoop
  <2> QED
    BY <1>2, <2>1, <2>2, <2>3, <2>4, <2>5, <2>6 DEF JobShape, FlagsNow
<1>12. HasJob(c)'
  BY <1>2 DEF HasJob, FlagsNow
<1>13. ASSUME NEW b \in Actors, call'[b].obj = c PROVE CallShape(c, b)'
  <2>1. CASE b = 0
    BY <1>2, <1>4, <1>5, <2>1 DEF CallShape, FlagsNow, FreeConnPcs, InitPcs, SendPcs
  <2>2. CASE b # 0
    <3>1. call'[b] = call[b] /\ CallShape(c, b) /\ ActorShape(b)
      BY <1>0, <1>4, <1>13, <2>2 DEF OneCall, ConnShape, JobsInv
    <3>2. call[b].pc \notin FreeConnPcs \cup InitPcs
      BY <2>2, <3>1 DEF ActorShape
    <3>3. call[b].pc \notin {"addwrite", "wrflag"}
      BY <1>9, <1>13, <3>1
    <3> QED
      BY <1>2, <1>10, <3>1, <3>2, <3>3 DEF CallShape, FlagsNow, FreeConnPcs, InitPcs
  <2> QED
    BY <2>1, <2>2
<1>14. cb'.obj = c => ConnCbShape(c)'
  BY <1>0, <1>2 DEF ConnShape, ConnCbShape, FlagsNow, SendCbPcs
<1>15. ConnShape(c)'
  BY <1>0, <1>2, <1>11, <1>12, <1>13, <1>14 DEF ConnShape, FlagsNow
<1> QED
  BY <1>2, <1>6, <1>7, <1>8, <1>15 DEF FlagsNow

LEMMA FreeJobs ==
    ASSUME LoopsInv, StreamInv, JobsInv, RecvHabits \subseteq Habits,
           NEW a \in Actors, NEW c \in Conns, free(a, c)
    PROVE  JobsInv' /\ Lawful
<1>1. /\ a = 0 /\ call[0] = NoCall /\ Free(0) /\ conn[c].mem = "live" /\ FreeLock(0, c)
      /\ UNCHANGED <<vars, cb, bind, acc, cli>>
  BY DEF free, Free, ConnKeeps, RecvHabits, AllHabits
<1>2. cb.pc \notin SendCbPcs \cup {"connect"}
  BY <1>1, ActorsAssumption, AliveFacts DEF Free, UserCode, SendCbPcs, None
<1>3. /\ ConnShape(c)' /\ ActorShape(0)' /\ CallAbout(0, c) /\ LockStep(0)
      /\ \A d \in Conns : d # c => CoreSame(d)
      /\ conn'[c].fd = conn[c].fd
  BY <1>1, <1>2, FreeLockShape
<1>4. \A d \in Conns : conn'[d].fd = conn[d].fd
  BY <1>3 DEF CoreSame
<1>5. call[0].pc # "addset"
  BY <1>1 DEF NoCall, None
<1> QED
  BY <1>1, <1>3, <1>4, <1>5, OwnStep, AliveFacts

LEMMA FailFreeJobs ==
    ASSUME LoopsInv, StreamInv, JobsInv, FailFree
    PROVE  JobsInv' /\ Lawful
<1>1. /\ cb.pc = "fail" /\ FreeLock(0, cb.obj) /\ CbGoto("done")
      /\ UNCHANGED <<vars, bind, acc, cli>>
  BY DEF FailFree, ConnKeeps
<1>2. cb'.pc = "done" /\ cb'.obj = cb.obj
  BY <1>1, CbGotoFacts
<1>3. call[0] = NoCall
  BY <1>1, NoCallInCallback DEF UserCode, ConnCbPcs, None
<1>4. cb.obj \in Conns /\ conn[cb.obj].mem = "live"
  BY <1>1, CbInConns DEF ConnCbPcs
<1>5. PICK c \in Conns : c = cb.obj
  BY <1>4
<1>6. /\ ConnShape(c)' /\ ActorShape(0)' /\ CallAbout(0, c) /\ LockStep(0)
      /\ \A d \in Conns : d # c => CoreSame(d)
      /\ conn'[c].fd = conn[c].fd
  BY <1>1, <1>2, <1>3, <1>4, <1>5, FreeLockShape
<1>7. \A d \in Conns : conn'[d].fd = conn[d].fd
  BY <1>6 DEF CoreSame
<1>8. "fail" \in ConnCbPcs /\ "done" \notin SendCbPcs \cup {"connect"}
  BY DEF ConnCbPcs, SendCbPcs
<1> QED
  BY <1>1, <1>3, <1>5, <1>6, <1>7, <1>8, OwnCallbackStep

\* An object that was not made yet has no descriptor, job, call or callback.
LEMMA NotMade ==
    ASSUME LoopsInv, JobsInv, NEW c \in Conns, conn[c].mem # "live"
    PROVE  /\ conn[c].fd = NoFd
           /\ \A a \in Actors : call[a].obj # c
           /\ cb.obj # c
           /\ \A j \in Alive : bind[j].obj # c
<1>1. ConnShape(c)
  BY DEF JobsInv
<1> QED
  BY <1>1, AliveFacts DEF ConnShape, CallShape, ConnCbShape, JobShape

\* A connection that is made now.
LEMMA ConnMade ==
    ASSUME LoopsInv, StreamInv, JobsInv, NEW c \in Conns, conn[c].mem = None,
           NEW q, conn' = [conn EXCEPT ![c] = q],
           call[0] = NoCall, OneCall(0), call'[0].obj \in {c, None},
           UNCHANGED <<vars, bind>>, cb'.obj = cb.obj \/ cb'.obj = None,
           \/ /\ call' = call /\ q.fd = NoFd /\ ~q.cn
              /\ q.mem = "gone"
           \/ /\ q.mem = "live" /\ q.fd # NoFd /\ call'[0].obj = c /\ ~q.freed
              /\ \/ call'[0].pc = "addread" /\ ~q.cn /\ (q.dialed => q.up)
                 \/ call'[0].pc = "addconn" /\ q.cn /\ q.dialed /\ ~q.up
    PROVE  /\ ConnShape(c)' /\ ActorShape(0)' /\ CallAbout(0, c)
           /\ \A d \in Conns : d # c => CoreSame(d)
           /\ \A d \in Conns : d # c => conn'[d].fd = conn[d].fd
           /\ conn'[c].fd = q.fd
<1>0. 0 \in Actors /\ c # None
  BY AliveFacts, NamesAssumption DEF None
<1>1. /\ conn[c].fd = NoFd
      /\ \A a \in Actors : call[a].obj # c
      /\ cb.obj # c
      /\ \A j \in Alive : bind[j].obj # c
  BY NotMade DEF None
<1>2. conn'[c] = q /\ \A d \in Conns : d # c => conn'[d] = conn[d]
  BY DEF StreamInv, StreamType
<1>3. \A j \in Alive' : bind'[j].obj # c
  BY <1>1, VarsKept
<1>4. \A b \in Actors : b # 0 => call'[b].obj # c
  BY <1>1 DEF OneCall
<1>5. cb'.obj # c
  BY <1>0, <1>1
<1>6. CallAbout(0, c)
  BY DEF CallAbout, NoCall
<1>7. CASE call' = call /\ q.fd = NoFd /\ ~q.cn /\ q.mem = "gone"
  <2>1. ConnShape(c)'
    BY <1>1, <1>2, <1>3, <1>5, <1>7 DEF ConnShape, HasJob
  <2>2. ActorShape(0)'
    BY <1>7 DEF ActorShape, NoCall, LockPcs, FreeConnPcs, InitPcs, None
  <2> QED
    BY <1>2, <1>6, <2>1, <2>2 DEF CoreSame
<1>8. CASE /\ q.mem = "live" /\ q.fd # NoFd /\ call'[0].obj = c /\ ~q.freed
           /\ \/ call'[0].pc = "addread" /\ ~q.cn /\ (q.dialed => q.up)
              \/ call'[0].pc = "addconn" /\ q.cn /\ q.dialed /\ ~q.up
  <2>1. CASE call'[0].pc = "addread" /\ ~q.cn /\ (q.dialed => q.up)
    <3>1. ~Unconnected(c)' /\ InLoop(c, {"addread"})'
      BY <1>2, <1>8, <2>1 DEF Unconnected, InLoop
    <3>2. CallShape(c, 0)'
      BY <1>2, <1>8, <2>1, <3>1 DEF CallShape, InitPcs, FreeConnPcs, SendPcs
    <3>3. ConnShape(c)'
      BY <1>2, <1>3, <1>4, <1>5, <1>8, <2>1, <3>1, <3>2 DEF ConnShape, HasJob
    <3>4. ActorShape(0)'
      BY <1>8, <2>1 DEF ActorShape, ConnPcs, LockPcs, FreeConnPcs, InitPcs
    <3> QED
      BY <1>2, <1>6, <3>3, <3>4 DEF CoreSame
  <2>2. CASE call'[0].pc = "addconn" /\ q.cn /\ q.dialed /\ ~q.up
    <3>1. Unconnected(c)'
      BY <1>2, <1>5, <2>2 DEF Unconnected, InCb
    <3>2. CallShape(c, 0)'
      BY <1>2, <1>8, <2>2, <3>1 DEF CallShape, InitPcs, FreeConnPcs, SendPcs
    <3>3. ConnShape(c)'
      BY <1>2, <1>3, <1>4, <1>5, <1>8, <2>2, <3>1, <3>2 DEF ConnShape, HasJob
    <3>4. ActorShape(0)'
      BY <1>8, <2>2 DEF ActorShape, ConnPcs, LockPcs, FreeConnPcs, InitPcs
    <3> QED
      BY <1>2, <1>6, <3>3, <3>4 DEF CoreSame
  <2> QED
    BY <1>8, <2>1, <2>2
<1> QED
  BY <1>7, <1>8

LEMMA NewConnFields ==
    ASSUME NEW fd \in FdOrNone, NEW async \in BOOLEAN
    PROVE  LET q == NewConn(fd, async)
           IN  /\ q \in ConnRec /\ q.mem = "live" /\ q.fd = fd /\ q.dialed = (fd = NoFd)
               /\ ~q.cn /\ ~q.up /\ ~q.freed
BY NewConnFacts DEF NewConn

LEMMA DialJobs ==
    ASSUME LoopsInv, StreamInv, JobsInv, RecvHabits \subseteq Habits,
           NEW a \in Actors, NEW c \in Conns, dial(a, c)
    PROVE  JobsInv' /\ Lawful
<1>1. /\ a = 0 /\ call[0] = NoCall /\ Free(0) /\ conn[c].mem = None
      /\ UNCHANGED <<vars, cb, bind, acc, cli, regLock>>
  BY DEF dial, Free, MayInit, ConnKeeps, RecvHabits, AllHabits
<1>2. LockStep(0) /\ call[0].pc # "addset"
  BY <1>1 DEF LockStep, NoCall, None
<1>3. call' = call => OneCall(0) /\ call'[0].obj \in {c, None}
  BY <1>1 DEF OneCall, NoCall
<1>4. conn[c].fd = NoFd
  BY <1>1, NotMade DEF None
<1>5. PICK f \in Closed, async \in Modes, result \in {"at once", "pending", "error"} :
        LET new == NewConn(NoFd, async)
        IN  CASE result = "at once" ->
                    /\ conn' = [conn EXCEPT ![c] = [new EXCEPT !.fd = f, !.up = TRUE]]
                    /\ call' = [call EXCEPT ![a].pc = "addread", ![a].obj = c]
              [] result = "pending" ->
                    /\ conn' = [conn EXCEPT ![c] = [new EXCEPT !.fd = f, !.cn = TRUE]]
                    /\ call' = [call EXCEPT ![a].pc = "addconn", ![a].obj = c]
              [] OTHER ->
                    /\ conn' = [conn EXCEPT ![c] = [new EXCEPT !.mem = "gone"]]
                    /\ UNCHANGED call
  BY DEF dial
<1>6. f # NoFd
  BY ClosedUnused
<1>7. PICK new \in ConnRec : /\ new = NewConn(NoFd, async) /\ new.mem = "live"
                            /\ new.fd = NoFd /\ new.dialed /\ ~new.cn /\ ~new.up /\ ~new.freed
  <2>1. NoFd \in FdOrNone /\ async \in BOOLEAN
    BY ModesAssumption DEF FdOrNone
  <2> QED
    BY <2>1, NewConnFields
<1>8. cb'.obj = cb.obj /\ 0 \in Actors
  BY <1>1, AliveFacts
<1>9. \E q : /\ ConnShape(c)' /\ ActorShape(0)' /\ CallAbout(0, c)
             /\ \A d \in Conns : d # c => CoreSame(d)
             /\ \A d \in Conns : d # c => conn'[d].fd = conn[d].fd
             /\ conn'[c].fd = q /\ q \in {f, conn[c].fd}
  <2>1. CASE result = "at once"
    <3>1. PICK q : q = [new EXCEPT !.fd = f, !.up = TRUE]
      OBVIOUS
    <3>2. q.mem = "live" /\ q.fd = f /\ q.dialed /\ ~q.cn /\ q.up /\ ~q.freed
      BY <1>7, <3>1 DEF ConnRec
    <3>3. conn' = [conn EXCEPT ![c] = q] /\ Enters(0, "addread", c)
      BY <1>1, <1>5, <1>7, <2>1, <3>1 DEF Enters
    <3>4. call'[0].pc = "addread" /\ call'[0].obj = c /\ OneCall(0)
      BY <1>8, <3>3, CallsOf
    <3> QED
      BY <1>1, <1>6, <1>8, <3>2, <3>3, <3>4, ConnMade
  <2>2. CASE result = "pending"
    <3>1. PICK q : q = [new EXCEPT !.fd = f, !.cn = TRUE]
      OBVIOUS
    <3>2. q.mem = "live" /\ q.fd = f /\ q.dialed /\ q.cn /\ ~q.up /\ ~q.freed
      BY <1>7, <3>1 DEF ConnRec
    <3>3. conn' = [conn EXCEPT ![c] = q] /\ Enters(0, "addconn", c)
      BY <1>1, <1>5, <1>7, <2>2, <3>1 DEF Enters
    <3>4. call'[0].pc = "addconn" /\ call'[0].obj = c /\ OneCall(0)
      BY <1>8, <3>3, CallsOf
    <3> QED
      BY <1>1, <1>6, <1>8, <3>2, <3>3, <3>4, ConnMade
  <2>3. CASE result = "error"
    <3>1. PICK q : q = [new EXCEPT !.mem = "gone"]
      OBVIOUS
    <3>2. q.mem = "gone" /\ q.fd = NoFd /\ ~q.cn
      BY <1>7, <3>1 DEF ConnRec
    <3>3. conn' = [conn EXCEPT ![c] = q] /\ call' = call
      BY <1>1, <1>5, <1>7, <2>3, <3>1
    <3> QED
      BY <1>1, <1>8, <1>3, <1>4, <3>2, <3>3, ConnMade
  <2> QED
    BY <2>1, <2>2, <2>3
<1>10. \A d \in Conns : conn'[d].fd \in {conn[d].fd} \cup Closed
  BY <1>9
<1> QED
  BY <1>1, <1>8, <1>9, <1>10, <1>2, OwnStep
-----------------------------------------------------------------------------
(***************************************************************************)
(* Calls of the library.                                                   *)
(***************************************************************************)

\* What every such call leaves as it is, and that it is lawful.
CallKeeps(c) ==
    /\ BindShape' /\ Stays /\ Lawful
    /\ \A j \in Alive' : bind'[j].obj \in Acceptors => j \in Alive
    /\ \A d \in Conns : d # c => JobsSame(d) /\ JobsHeld(d)
    /\ UNCHANGED <<pc, cur, dels>>

LEMMA LibStays ==
    ASSUME LoopsInv, KeepsEvent, LibStep, Owners
    PROVE  Stays
<1>1. Kinds
  BY AliveFacts, StepIsOfKind DEF LibStep
<1> QED
  BY <1>1, AliveFacts, KindsKept DEF Stays, Owners

LEMMA LibTypes ==
    ASSUME LoopsInv, LibStep
    PROVE  TypeInv'
BY AliveFacts, TypeInvStep DEF LibStep, MemInv

\* The connection has one job at most.
LEMMA OnlyJob ==
    ASSUME LoopsInv, JobsInv, NEW c \in Conns, NEW j \in Alive, bind[j].obj = c,
           NEW k \in Alive, bind[k].obj = c
    PROVE  j = k
<1>1. job[j].fd = conn[c].fd /\ job[k].fd = conn[c].fd
  BY DEF JobsInv, ConnShape, JobShape
<1> QED
  BY <1>1, AliveFacts DEF OneJobPerFd

\* A new job of connection c.
LEMMA MadeKeeps ==
    ASSUME LoopsInv, JobsInv, KeepsEvent, LibStep, NEW c \in Objects, NEW fd \in Fds,
           NEW kind, NEW ev, Creates(fd, kind, ev, 0), Unused(fd),
           NEW w \in {None, "send", "connect"}, NewBind(c, w),
           kind = "listen" => c \in Acceptors, kind = "wr" => c \in Conns
    PROVE  /\ Made(c, fd, kind, ev) /\ BindShape' /\ Stays /\ NoneDeleted /\ Lawful
           /\ \A d : d # c => JobsSame(d) /\ JobsHeld(d)
           /\ UNCHANGED <<pc, cur, dels, half>>
<1>1. Made(c, fd, kind, ev) /\ \A d : d # c => JobsSame(d)
  BY OneMade, LibTypes
<1>2. BindShape' /\ Stays /\ NoneDeleted
  BY <1>1, BindMade
<1>3. \A d : JobsHeld(d)
  BY <1>1 DEF Made, JobsHeld
<1> QED
  BY <1>1, <1>2, <1>3, LawfulMade DEF Creates

\* add_write_job for a connection that has a descriptor.
LEMMA AddsWriteKeeps ==
    ASSUME LoopsInv, JobsInv, KeepsEvent, LibStep, NEW c \in Conns,
           NEW w \in {"send", "connect"}, AddsWrite(c, w), conn[c].fd # NoFd
    PROVE  /\ CallKeeps(c) /\ NoneDeleted /\ half' = half /\ WriteAdded(c)
           /\ \/ Made(c, conn[c].fd, "wr", {"W"}) /\ \A j \in Alive : bind[j].obj # c
              \/ \E j \in Alive :
                   /\ bind[j].obj = c /\ ~job[j].del /\ Alive' = Alive
                   /\ \A k \in Alive : bind'[k].obj = bind[k].obj
                   /\ job'[j].fd = job[j].fd /\ ~job'[j].del
                   /\ job'[j].ev = job[j].ev \cup {"W"}
<1> USE DEF CallKeeps
<1>0. w # None /\ c \in Objects /\ c \notin Acceptors /\ WriteAdded(c)
  BY NamesAssumption DEF None, Objects, AddsWrite
<1>1. CASE /\ Unused(conn[c].fd) /\ conn[c].fd \in Fds /\ NewBind(c, w)
           /\ Creates(conn[c].fd, "wr", {"W"}, 0)
  <2>1. /\ Made(c, conn[c].fd, "wr", {"W"}) /\ BindShape' /\ Stays /\ NoneDeleted /\ Lawful
        /\ \A d : d # c => JobsSame(d) /\ JobsHeld(d)
        /\ UNCHANGED <<pc, cur, dels, half>>
    BY <1>0, <1>1, MadeKeeps
  <2>2. \A j \in Alive : bind[j].obj # c
    BY <1>1 DEF Unused, JobsInv, ConnShape, JobShape
  <2>3. \A j \in Alive' : bind'[j].obj \in Acceptors => j \in Alive
    BY <1>0, <2>1 DEF Made
  <2> QED
    BY <1>0, <2>1, <2>2, <2>3
<1>2. ASSUME NEW j \in Alive, bind[j].obj = c, ~job[j].del,
             bind' = [bind EXCEPT ![j].wcb = w],
             WriteMore(j) \/ (UNCHANGED vars /\ "W" \in job[j].ev)
      PROVE  /\ CallKeeps(c) /\ NoneDeleted /\ half' = half /\ Alive' = Alive
             /\ \A k \in Alive : bind'[k].obj = bind[k].obj
             /\ job'[j].fd = job[j].fd /\ ~job'[j].del
             /\ job'[j].ev = job[j].ev \cup {"W"}
  <2>1. bind \in [Jobs -> BindRec] /\ j \in Jobs
    BY AliveFacts DEF JobsInv, BindShape
  <2>2. PICK r \in BindRec : r = bind[j]
    BY <2>1
  <2>3. PICK q : q = [r EXCEPT !.wcb = w]
    OBVIOUS
  <2>4. bind' = [bind EXCEPT ![j] = q] /\ q \in BindRec /\ q.obj = r.obj
    BY <1>2, <2>2, <2>3 DEF BindRec
  <2>5. bind' \in [Jobs -> BindRec] /\ \A k \in Alive : bind'[k].obj = bind[k].obj
    BY <2>1, <2>2, <2>4, AliveFacts
  <2>6. Owners
    BY <2>5 DEF Owners
  <2>7. Stays
    BY <2>6, LibStays
  <2>8. UNCHANGED <<njobs, freed, lateDel, aborted, pc, cur, dels, half>>
    BY <1>2 DEF WriteMore, vars
  <2>9. Alive' = Alive
    BY <2>8 DEF Alive
  <2>10. Lawful
    BY <2>8, LawfulStays
  <2>11. /\ \A k \in Alive : k # j => job'[k] = job[k]
         /\ job'[j].ev = job[j].ev \cup {"W"} /\ ~job'[j].del
    <3>1. CASE UNCHANGED vars /\ "W" \in job[j].ev
      BY <1>2, <3>1 DEF vars
    <3>2. CASE WriteMore(j)
      <4>1. PICK t \in JobRec : t = job[j]
        BY AliveFacts
      <4>2. JobSet(j, [t EXCEPT !.ev = t.ev \cup {"W"}])
        BY <3>2, <4>1 DEF WriteMore
      <4>3. PICK u : u = [t EXCEPT !.ev = t.ev \cup {"W"}]
        OBVIOUS
      <4>4. u.ev = t.ev \cup {"W"} /\ u.del = t.del
        BY <4>3 DEF JobRec
      <4>5. job'[j] = u /\ \A k \in Alive : k # j => job'[k] = job[k]
        BY <4>2, <4>3, AliveFacts DEF JobSet
      <4> QED
        BY <1>2, <4>1, <4>4, <4>5
    <3> QED
      BY <1>2, <3>1, <3>2
  <2>12. job'[j].fd = job[j].fd /\ NoneDeleted
    BY <1>2, <2>7, <2>11 DEF Stays, FieldsStay, NoneDeleted
  <2>13. BindShape'
    BY <2>5, <2>7, <2>9, BindKept
  <2>14. \A d : d # c => JobsSame(d) /\ JobsHeld(d)
    BY <1>2, <2>5, <2>9, <2>11 DEF JobsSame, JobsHeld
  <2>15. \A k \in Alive' : bind'[k].obj \in Acceptors => k \in Alive
    BY <2>9
  <2> QED
    BY <2>5, <2>7, <2>8, <2>9, <2>10, <2>11, <2>12, <2>13, <2>14, <2>15
<1> QED
  BY <1>0, <1>1, <1>2 DEF AddsWrite

\* The connection's part after that.
LEMMA WriteAddedShape ==
    ASSUME LoopsInv, JobsInv, KeepsEvent, LibStep, NEW c \in Conns,
           NEW w \in {"send", "connect"}, AddsWrite(c, w), conn[c].fd # NoFd,
           conn' = conn, ~conn[c].freed, WrKnown(c)', Unconnected(c)' <=> Unconnected(c),
           RdKnown(c) => RdKnown(c)',
           InLoop(c, {"addread"}) => InLoop(c, {"addread"})',
           InLoop(c, {"addread", "addset"}) => InLoop(c, {"addread", "addset"})',
           ~InLoop(c, {"addconn"})',
           \A b \in Actors : call'[b].obj = c => CallShape(c, b)',
           cb'.obj = c => ConnCbShape(c)'
    PROVE  ConnShape(c)'
<1>0. ConnShape(c)
  BY DEF JobsInv
<1>1. CASE Made(c, conn[c].fd, "wr", {"W"}) /\ \A j \in Alive : bind[j].obj # c
  <2>0. PICK n : n = njobs + 1
    OBVIOUS
  <2>1. n \in Alive' /\ bind'[n].obj = c
    BY <1>1, <2>0 DEF Made
  <2>2. \A j \in Alive' : bind'[j].obj = c => j = n
    BY <1>1, <2>0 DEF Made
  <2>3. Unconnected(c) \/ InLoop(c, {"addread"})
    BY <1>0, <1>1 DEF ConnShape, HasJob
  <2>4. InLoop(c, {"addread"})' => InLoop(c, {"addread", "addset"})'
    BY DEF InLoop
  <2>5. JobShape(c, n)'
    BY <1>1, <2>0, <2>3, <2>4 DEF JobShape, Made
  <2>6. HasJob(c)'
    BY <2>1 DEF HasJob
  <2> QED
    BY <1>0, <2>2, <2>5, <2>6 DEF ConnShape
<1>2. ASSUME NEW j \in Alive, bind[j].obj = c, ~job[j].del, Alive' = Alive,
             \A k \in Alive : bind'[k].obj = bind[k].obj,
             job'[j].fd = job[j].fd, ~job'[j].del,
             job'[j].ev = job[j].ev \cup {"W"}
      PROVE  ConnShape(c)'
  <2>1. \A k \in Alive' : bind'[k].obj = c => k = j
    BY <1>2, OnlyJob
  <2>2. JobShape(c, j)
    BY <1>0, <1>2 DEF ConnShape
  <2>3. JobShape(c, j)'
    BY <1>2, <2>2 DEF JobShape
  <2>4. HasJob(c)'
    BY <1>2 DEF HasJob
  <2> QED
    BY <1>0, <2>1, <2>3, <2>4 DEF ConnShape
<1> QED
  BY <1>1, <1>2, AddsWriteKeeps

\* register_write under m_register_lock: the job.
LEMMA SendAddJobs ==
    ASSUME LoopsInv, StreamInv, JobsInv, KeepsEvent, "ctlSpace" \in Rules,
           NEW a \in Actors, send_data_add(a)
    PROVE  JobsInv' /\ Lawful
<1>1. PICK c : c = call[a].obj
  OBVIOUS
<1>2. /\ call[a].pc = "addwrite" /\ AddWrite(a, c, "send")
      /\ UNCHANGED <<conn, cb, acc, cli>>
  BY <1>1 DEF send_data_add, ConnKeeps
<1>3. /\ c \in Conns /\ ConnShape(c) /\ CallShape(c, a) /\ regLock[c] = a /\ call[a] # NoCall
  BY <1>1, <1>2, CallHere DEF ConnPcs, SendPcs, LockPcs
<1>4. ~conn[c].freed /\ ~Unconnected(c)
  BY <1>2, <1>3 DEF CallShape, SendPcs
<1>5. Usable(c)
  BY <1>3, <1>4 DEF Usable, ConnShape, JobShape
<1>6. AddsWrite(c, "send") /\ LibStep
  BY <1>2, <1>3, <1>5, AddWriteKind
<1>7. Flags0(c) /\ 0 \in Actors /\ c # None
  BY <1>2, <1>3, FlagSets, AliveFacts, NamesAssumption DEF Flags0, None
<1>8. CASE conn[c].fd = NoFd
  <2>1. UNCHANGED <<vars, bind>> /\ ~WriteAdded(c)
    BY <1>8, <1>2, <1>6, NamesAssumption DEF AddsWrite, WriteAdded, AddWrite, NoFd
  <2>2. call'[a] = NoCall /\ OneCall(a) /\ regLock' = [regLock EXCEPT ![c] = NoOne]
    BY <1>1, <2>1, CallsOf DEF send_data_add
  <2>3. LockStep(a)
    BY <1>3, <2>2 DEF LockStep
  <2> QED
    BY <1>1, <1>2, <1>3, <1>7, <2>1, <2>2, <2>3, OwnCallJobs DEF Flags0, SendPcs
<1>9. CASE conn[c].fd # NoFd
  <2>1. CallKeeps(c) /\ NoneDeleted /\ half' = half /\ WriteAdded(c)
    BY <1>3, <1>6, <1>9, AddsWriteKeeps
  <2>2. /\ call'[a].pc = "wrflag" /\ call'[a].obj = c /\ OneCall(a) /\ regLock' = regLock
    BY <1>1, <2>1, CallsOf DEF send_data_add
  <2>3. CallAbout(a, c) /\ LockStep(a)
    BY <1>1, <2>2 DEF CallAbout, LockStep
  <2>4. ActorShape(a)'
    BY <1>3, <2>2 DEF ActorShape, ConnPcs, SendPcs, FreeConnPcs, InitPcs
  <2>5. Unconnected(c)' <=> Unconnected(c)
    BY <1>2 DEF Unconnected, InCb
  <2>6. \A ps \in {{"addread"}, {"addread", "addset"}, {"rdflag"}} :
          InLoop(c, ps) => InLoop(c, ps)'
    BY <1>2, <1>7, <2>2 DEF OneCall, InLoop
  <2>7. (RdKnown(c) => RdKnown(c)') /\ WrKnown(c)'
    BY <1>2, <2>2, <2>6 DEF RdKnown, WrKnown
  <2>8. ~InLoop(c, {"addconn"})'
    <3>1. ~InLoop(c, {"addconn"})
      BY <1>3, <1>4, <1>7 DEF InLoop, ConnShape, CallShape
    <3> QED
      BY <1>7, <2>2, <3>1 DEF OneCall, InLoop
  <2>9. ASSUME NEW b \in Actors, call'[b].obj = c PROVE CallShape(c, b)'
    <3>1. CASE b = a
      BY <1>2, <1>3, <1>4, <2>2, <2>5, <3>1 DEF CallShape, SendPcs, InitPcs, FreeConnPcs
    <3>2. CASE b # a
      BY <1>2, <1>3, <2>2, <2>5, <2>9, <3>2, OtherCalls
    <3> QED
      BY <3>1, <3>2
  <2>10. cb'.obj = c => ConnCbShape(c)'
    BY <1>2, <1>3 DEF ConnShape, ConnCbShape
  <2>11. ConnShape(c)'
    BY <1>2, <1>3, <1>4, <1>6, <1>9, <2>5, <2>6, <2>7, <2>8, <2>9, <2>10, WriteAddedShape
  <2>12. HalfOf'
    BY <1>2, <2>1, <2>2, HalfKept DEF CallKeeps
  <2>13. \A d \in Conns : conn'[d].fd = conn[d].fd /\ CoreSame(d)
    BY <1>2 DEF CoreSame
  <2>14. JobsInv'
    BY <1>2, <1>3, <2>1, <2>3, <2>4, <2>11, <2>12, <2>13, MemberStep DEF CallKeeps, Objects
  <2> QED
    BY <2>1, <2>14 DEF CallKeeps
<1> QED
  BY <1>8, <1>9

\* register_connect: the connection has no job yet.
LEMMA RegisterConnectJobs ==
    ASSUME LoopsInv, StreamInv, JobsInv, KeepsEvent, "ctlSpace" \in Rules,
           NEW a \in Actors, register_connect(a)
    PROVE  JobsInv' /\ Lawful
<1>1. PICK c : c = call[a].obj
  OBVIOUS
<1>2. /\ call[a].pc = "addconn" /\ AddWrite(a, c, "connect")
      /\ UNCHANGED <<conn, cb, acc, cli, regLock>>
  BY <1>1 DEF register_connect, ConnKeeps
<1>3. /\ c \in Conns /\ ConnShape(c) /\ CallShape(c, a) /\ call[a] # NoCall /\ a = 0
  BY <1>1, <1>2, CallHere DEF ConnPcs, InitPcs
<1>4. ~conn[c].freed /\ Unconnected(c) /\ conn[c].cn /\ conn[c].fd # NoFd
  BY <1>2, <1>3 DEF CallShape, InitPcs
<1>5. InLoop(c, {"addconn"})
  BY <1>1, <1>2, <1>3 DEF InLoop
<1>6. Usable(c)
  BY <1>3, <1>5 DEF Usable, ConnShape, JobShape
<1>7. AddsWrite(c, "connect") /\ LibStep
  BY <1>2, <1>3, <1>6, AddWriteKind
<1>8. CallKeeps(c) /\ NoneDeleted /\ half' = half
  BY <1>3, <1>4, <1>7, AddsWriteKeeps
<1>9. call'[a] = NoCall /\ OneCall(a) /\ NoCall.obj = None /\ NoCall.pc = None
  BY CallsOf DEF register_connect, NoCall
<1>10. CallAbout(a, c) /\ LockStep(a)
  BY <1>1, <1>2, <1>9 DEF CallAbout, LockStep
<1>11. ActorShape(a)' /\ c # None
  BY <1>3, <1>9, NamesAssumption DEF ActorShape, LockPcs, FreeConnPcs, InitPcs, None
<1>12. Unconnected(c)' <=> Unconnected(c)
  BY <1>2 DEF Unconnected, InCb
<1>13. /\ ~InLoop(c, {"addread"}) /\ ~InLoop(c, {"addread", "addset"}) /\ ~InLoop(c, {"rdflag"})
       /\ ~InLoop(c, {"addconn"})'
  BY <1>2, <1>3, <1>9, <1>11 DEF InLoop
<1>14. (RdKnown(c) => RdKnown(c)') /\ WrKnown(c)'
  BY <1>2, <1>4, <1>13 DEF RdKnown, WrKnown
<1>15. ASSUME NEW b \in Actors, call'[b].obj = c PROVE CallShape(c, b)'
  <2>1. b # a
    BY <1>9, <1>11, <1>15
  <2> QED
    BY <1>2, <1>3, <1>9, <1>12, <1>15, <2>1, OtherCalls
<1>16. cb'.obj = c => ConnCbShape(c)'
  BY <1>2, <1>3 DEF ConnShape, ConnCbShape
<1>17. ConnShape(c)'
  BY <1>2, <1>3, <1>4, <1>7, <1>12, <1>13, <1>14, <1>15, <1>16, WriteAddedShape
<1>18. HalfOf'
  BY <1>2, <1>8, <1>9, HalfKept DEF CallKeeps
<1>19. \A d \in Conns : conn'[d].fd = conn[d].fd /\ CoreSame(d)
  BY <1>2 DEF CoreSame
<1>20. JobsInv'
  BY <1>2, <1>3, <1>8, <1>10, <1>11, <1>17, <1>18, <1>19, MemberStep DEF CallKeeps, Objects
<1> QED
  BY <1>8, <1>20 DEF CallKeeps

\* A step that leaves the jobs' records alone; one that changes one of them.
LEMMA SameKeeps ==
    ASSUME LoopsInv, JobsInv, LibStep, UNCHANGED <<njobs, job, freed, bind, aborted>>,
           lateDel' \subseteq lateDel
    PROVE  /\ BindShape' /\ Stays /\ NoneDeleted /\ Lawful /\ Alive' = Alive
           /\ \A d : JobsSame(d) /\ JobsHeld(d)
           /\ \A j \in Alive' : bind'[j].obj \in Acceptors => j \in Alive
<1>1. Alive' = Alive
  BY DEF Alive
<1>2. Stays /\ NoneDeleted
  BY DEF Stays, NoneDeleted, FieldsStay
<1>3. BindShape'
  BY <1>1, <1>2, BindKept DEF JobsInv, BindShape
<1>4. \A d : JobsSame(d) /\ JobsHeld(d)
  BY <1>1 DEF JobsSame, JobsHeld
<1> QED
  BY <1>1, <1>2, <1>3, <1>4, LawfulStays

LEMMA ChangedKeeps ==
    ASSUME LoopsInv, JobsInv, KeepsEvent, LibStep, NEW k \in Alive, NEW r, JobSet(k, r),
           UNCHANGED <<njobs, freed, bind, aborted>>, \A d \in lateDel' : d.by = 0
    PROVE  /\ BindShape' /\ Stays /\ Lawful /\ Alive' = Alive
           /\ \A d : d # bind[k].obj => JobsSame(d) /\ JobsHeld(d)
           /\ \A j \in Alive' : bind'[j].obj \in Acceptors => j \in Alive
<1>1. Owners
  BY DEF Owners
<1>2. Alive' = Alive /\ \A d : d # bind[k].obj => JobsSame(d)
  BY <1>1, OneChanged
<1>3. \A d : JobsHeld(d)
  BY <1>2 DEF JobsHeld
<1>4. Stays
  BY <1>1, LibStays
<1>5. BindShape'
  BY <1>2, <1>4, BindKept DEF JobsInv, BindShape
<1>6. Lawful
  BY LawfulQuiet DEF LoopsInv, NoAbort
<1> QED
  BY <1>2, <1>3, <1>4, <1>5, <1>6

LEMMA LateByLoop == LoopsInv => \A d \in lateDel : d.by = 0
BY DEF LoopsInv, WatchInv, LateShape

\* register_read.
LEMMA RegisterReadJobs ==
    ASSUME LoopsInv, StreamInv, JobsInv, KeepsEvent, "ctlSpace" \in Rules,
           NEW a \in Actors, register_read(a)
    PROVE  JobsInv' /\ Lawful
<1>1. PICK c : c = call[a].obj
  OBVIOUS
<1>2. call[a].pc \in {"addread", "addset"} /\ UNCHANGED <<conn, cb, acc, cli, regLock>>
  BY DEF register_read, ConnKeeps
<1>3. /\ c \in Conns /\ ConnShape(c) /\ CallShape(c, a) /\ call[a] # NoCall /\ a = 0
  BY <1>1, <1>2, CallHere DEF ConnPcs, InitPcs
<1>4. ~conn[c].freed /\ ~Unconnected(c) /\ conn[c].fd # NoFd /\ conn[c].fd \in Fds
  BY <1>2, <1>3 DEF CallShape, InitPcs, StreamInv, StreamType, ConnRec, FdOrNone
<1>5. Usable(c)
  BY <1>3, <1>4 DEF Usable, ConnShape, JobShape
<1>6. /\ \/ call[a].pc = "addread" /\ ReadsNew(a, c)
         \/ call[a].pc = "addread" /\ ReadsCtl(a, c)
         \/ call[a].pc = "addset" /\ ReadsSet(a, c)
      /\ LibStep
  BY <1>1, <1>3, <1>4, <1>5, RegisterReadKind
<1>7. PICK p \in {"addset", "rdflag"} : call'[a].pc = p /\ call'[a].obj = c /\ OneCall(a)
  BY <1>1, <1>6, CallsOf DEF ReadsNew, ReadsCtl, ReadsSet
<1>8. CallAbout(a, c) /\ LockStep(a)
  BY <1>1, <1>2, <1>7 DEF CallAbout, LockStep
<1>9. ActorShape(a)'
  BY <1>3, <1>7 DEF ActorShape, ConnPcs, LockPcs, FreeConnPcs, InitPcs
<1>10. Unconnected(c)' <=> Unconnected(c)
  BY <1>2 DEF Unconnected, InCb
<1>11. WrKnown(c) => WrKnown(c)'
  BY <1>2, <1>3, <1>7 DEF WrKnown, OneCall, InCb
<1>12. ASSUME NEW b \in Actors, call'[b].obj = c PROVE CallShape(c, b)'
  <2>1. CASE b = a
    BY <1>2, <1>3, <1>4, <1>7, <1>10, <2>1 DEF CallShape, SendPcs, InitPcs, FreeConnPcs
  <2>2. CASE b # a
    BY <1>2, <1>3, <1>7, <1>10, <1>12, <2>2, OtherCalls
  <2> QED
    BY <2>1, <2>2
<1>13. cb'.obj = c => ConnCbShape(c)'
  BY <1>2, <1>3 DEF ConnShape, ConnCbShape
<1>14. ~InLoop(c, {"addconn"})'
  BY <1>3, <1>7 DEF InLoop
<1>15. \A d \in Conns : conn'[d].fd = conn[d].fd /\ CoreSame(d)
  BY <1>2 DEF CoreSame
<1>16. ASSUME NoneDeleted \/ a = 0, BindShape', Stays, Lawful, HalfOf',
              UNCHANGED <<pc, cur, dels>>,
              \A d : d # c => JobsSame(d) /\ JobsHeld(d),
              \A j \in Alive' : bind'[j].obj \in Acceptors => j \in Alive,
              HasJob(c)', \A j \in Alive' : bind'[j].obj = c => JobShape(c, j)'
       PROVE  JobsInv' /\ Lawful
  <2>1. ConnShape(c)'
    BY <1>2, <1>3, <1>12, <1>13, <1>16 DEF ConnShape
  <2> QED
    BY <1>2, <1>3, <1>8, <1>9, <1>15, <1>16, <2>1, MemberStep DEF Objects
<1>17. CASE ReadsNew(a, c)
  <2>1. /\ Made(c, conn[c].fd, "wr", {"R"}) /\ BindShape' /\ Stays /\ NoneDeleted /\ Lawful
        /\ \A d : d # c => JobsSame(d) /\ JobsHeld(d)
        /\ UNCHANGED <<pc, cur, dels, half>>
    BY <1>3, <1>4, <1>6, <1>17, MadeKeeps DEF ReadsNew, Objects
  <2>2. PICK n : n = njobs + 1
    OBVIOUS
  <2>3. n \in Alive' /\ bind'[n].obj = c /\ \A j \in Alive' : bind'[j].obj = c => j = n
    <3>1. \A j \in Alive : bind[j].obj # c
      BY <1>3, <1>17 DEF ReadsNew, Unused, ConnShape, JobShape
    <3> QED
      BY <2>1, <2>2, <3>1 DEF Made
  <2>4. call'[a].pc = "rdflag"
    BY <1>17, CallsOf DEF ReadsNew
  <2>5. RdKnown(c)'
    BY <1>3, <1>7, <2>4 DEF RdKnown, InLoop
  <2>6. JobShape(c, n)'
    BY <1>2, <1>4, <1>14, <2>1, <2>2, <2>5 DEF JobShape, Made
  <2>7. HasJob(c)'
    BY <2>3 DEF HasJob
  <2>8. \A j \in Alive' : bind'[j].obj \in Acceptors => j \in Alive
    BY <1>3, <2>1, NamesAssumption DEF Made
  <2>9. HalfOf'
    <3>1. half = {}
      BY <1>17 DEF ReadsNew, Creates
    <3> QED
      BY <2>1, <3>1 DEF HalfOf
  <2> QED
    BY <1>16, <2>1, <2>3, <2>6, <2>7, <2>8, <2>9
<1>18. CASE ReadsCtl(a, c)
  <2>1. PICK j \in Alive : bind[j].obj = c /\ ReadCtl(a, j) /\ half' = {[by |-> a, job |-> j]}
    BY <1>18 DEF ReadsCtl
  <2>2. UNCHANGED <<njobs, job, freed, bind, aborted, lateDel, pc, cur, dels>>
    BY <1>18, <2>1 DEF ReadsCtl, ReadCtl
  <2>3. /\ BindShape' /\ Stays /\ NoneDeleted /\ Lawful /\ Alive' = Alive
        /\ \A d : JobsSame(d) /\ JobsHeld(d)
        /\ \A k \in Alive' : bind'[k].obj \in Acceptors => k \in Alive
    BY <1>6, <2>2, SameKeeps
  <2>4. call'[a].pc = "addset" /\ call[a].pc = "addread"
    BY <1>2, <1>6, <1>18, CallsOf DEF ReadsCtl, ReadsSet, ReadSet, ReadCtl
  <2>5. HalfOf'
    BY <1>7, <2>1, <2>2, <2>4 DEF HalfOf
  <2>6. HasJob(c)'
    BY <2>1, <2>2, <2>3 DEF HasJob
  <2>7. ASSUME NEW k \in Alive', bind'[k].obj = c PROVE JobShape(c, k)'
    <3>1. k \in Alive /\ bind[k].obj = c /\ JobShape(c, k)
      BY <1>3, <2>2, <2>3, <2>7 DEF ConnShape
    <3>2. InLoop(c, {"addread", "addset"})' /\ ~InLoop(c, {"rdflag"})
      BY <1>3, <1>7, <2>4 DEF InLoop
    <3> QED
      BY <1>2, <1>4, <1>10, <1>11, <1>14, <2>2, <3>1, <3>2 DEF JobShape, RdKnown
  <2> QED
    BY <1>16, <2>2, <2>3, <2>5, <2>6, <2>7
<1>19. CASE ReadsSet(a, c)
  <2>1. PICK h \in half : h.by = a /\ ReadSet(h) /\ bind[h.job].obj = c
    BY <1>19 DEF ReadsSet
  <2>2. PICK j \in Alive : j = h.job /\ ~job[j].del
    BY AliveFacts DEF LoopsInv, WatchInv, OneJobInv, Shape, HalfShape
  <2>3. /\ UNCHANGED <<njobs, freed, bind, aborted, lateDel, pc, cur, dels>> /\ half' = {}
        /\ JobSet(j, [job[j] EXCEPT !.rdcb = TRUE, !.ev = @ \cup {"R"}])
    BY <1>19, <2>1, <2>2 DEF ReadsSet, ReadSet
  <2>4. /\ BindShape' /\ Stays /\ Lawful /\ Alive' = Alive
        /\ \A d : d # c => JobsSame(d) /\ JobsHeld(d)
        /\ \A k \in Alive' : bind'[k].obj \in Acceptors => k \in Alive
    BY <1>6, <2>1, <2>2, <2>3, ChangedKeeps, LateByLoop
  <2>5. job'[j].ev = job[j].ev \cup {"R"} /\ ~job'[j].del /\ job'[j].fd = job[j].fd
    <3>1. PICK t \in JobRec : t = job[j]
      BY AliveFacts
    <3>2. PICK u : u = [t EXCEPT !.rdcb = TRUE, !.ev = t.ev \cup {"R"}]
      OBVIOUS
    <3>3. u.ev = t.ev \cup {"R"} /\ u.del = t.del /\ u.fd = t.fd
      BY <3>2 DEF JobRec
    <3>4. job'[j] = u
      BY <2>3, <3>1, <3>2 DEF JobSet
    <3> QED
      BY <2>2, <3>1, <3>3, <3>4
  <2>6. call'[a].pc = "rdflag"
    BY <1>19, CallsOf DEF ReadsSet
  <2>7. RdKnown(c)'
    BY <1>3, <1>7, <2>6 DEF RdKnown, InLoop
  <2>8. HalfOf'
    BY <2>3 DEF HalfOf
  <2>9. HasJob(c)'
    BY <2>1, <2>2, <2>3, <2>4 DEF HasJob
  <2>10. ASSUME NEW k \in Alive', bind'[k].obj = c PROVE JobShape(c, k)'
    <3>1. k = j /\ JobShape(c, j)
      BY <1>3, <2>1, <2>2, <2>3, <2>4, <2>10, OnlyJob DEF ConnShape
    <3> QED
      BY <1>2, <1>4, <1>11, <1>14, <2>2, <2>5, <2>7, <3>1 DEF JobShape
  <2> QED
    BY <1>3, <1>16, <2>3, <2>4, <2>8, <2>9, <2>10
<1> QED
  BY <1>6, <1>17, <1>18, <1>19
-----------------------------------------------------------------------------
(***************************************************************************)
(* del_read_job and del_write_job.                                         *)
(***************************************************************************)
DelLeaves(j, flag, other) ==
    /\ job'[j].fd = job[j].fd
    /\ job'[j].ev = job[j].ev \ {flag}
    /\ job'[j].del <=> job[j].del \/ other \notin job[j].ev

LEMMA DelKeeps ==
    ASSUME LoopsInv, JobsInv, KeepsEvent, LibStep, NEW c \in Conns,
           NEW flag \in {"R", "W"}, NEW other, DelsWr(c, flag, other), bind' = bind
    PROVE  /\ CallKeeps(c) /\ Alive' = Alive /\ half' = half
           /\ \A j \in Alive : bind[j].obj = c => DelLeaves(j, flag, other)
<1> USE DEF CallKeeps
<1>1. CASE UNCHANGED vars /\ \A j \in Alive : bind[j].obj = c => job[j].del
  <2>1. /\ BindShape' /\ Stays /\ NoneDeleted /\ Alive' = Alive /\ half' = half
        /\ \A d : JobsSame(d) /\ JobsHeld(d)
        /\ UNCHANGED <<pc, cur, dels>>
    BY <1>1, VarsKept
  <2>2. Lawful
    BY <1>1, LawfulStays DEF vars
  <2>3. ASSUME NEW j \in Alive, bind[j].obj = c PROVE DelLeaves(j, flag, other)
    <3>1. job[j].kind # "listen"
      BY <2>3, NamesAssumption DEF JobsInv, BindShape
    <3>2. job[j].kind = "wr" /\ j \in 1 .. njobs
      BY <3>1, AliveFacts
    <3>3. job[j].ev = {}
      BY <1>1, <2>3, <3>2 DEF LoopsInv, WatchInv, OneJobInv, Shape, KindShape
    <3> QED
      BY <1>1, <2>3, <3>3 DEF DelLeaves, vars
  <2> QED
    BY <2>1, <2>2, <2>3
<1>2. ASSUME NEW j \in Alive, bind[j].obj = c, ~job[j].del, DelWr(j, flag, other)
      PROVE  /\ CallKeeps(c) /\ Alive' = Alive /\ half' = half
             /\ \A k \in Alive : bind[k].obj = c => DelLeaves(k, flag, other)
  <2>1. PICK t \in JobRec : t = job[j]
    BY AliveFacts
  <2>2. PICK fr : JobSet(j, [t EXCEPT !.free = fr, !.del = other \notin t.ev, !.ev = t.ev \ {flag}])
    BY <1>2, <2>1 DEF DelWr
  <2>3. PICK u : u = [t EXCEPT !.free = fr, !.del = other \notin t.ev, !.ev = t.ev \ {flag}]
    OBVIOUS
  <2>4. u.ev = t.ev \ {flag} /\ u.del = (other \notin t.ev) /\ u.fd = t.fd
    BY <2>3 DEF JobRec
  <2>5. JobSet(j, u) /\ job'[j] = u
    BY <2>2, <2>3 DEF JobSet
  <2>6. DelLeaves(j, flag, other)
    BY <1>2, <2>1, <2>4, <2>5 DEF DelLeaves
  <2>7. UNCHANGED <<njobs, freed, bind, aborted, lateDel, pc, cur, dels, half>>
    BY <1>2 DEF DelWr
  <2>8. /\ BindShape' /\ Stays /\ Lawful /\ Alive' = Alive
        /\ \A d : d # c => JobsSame(d) /\ JobsHeld(d)
        /\ \A k \in Alive' : bind'[k].obj \in Acceptors => k \in Alive
    BY <1>2, <2>5, <2>7, ChangedKeeps, LateByLoop
  <2>9. \A k \in Alive : bind[k].obj = c => k = j
    BY <1>2, OnlyJob
  <2> QED
    BY <2>6, <2>7, <2>8, <2>9
<1> QED
  BY <1>1, <1>2 DEF DelsWr

\* A step of free that unregisters: the jobs' clauses that are left to show.
LEMMA FreeStep ==
    ASSUME LoopsInv, StreamInv, JobsInv, NEW c \in Conns, c = call[0].obj,
           call[0].pc \in {"unread", "unwrite"}, NEW p \in {"unwrite", "unlock"}, Goto2(0, p),
           FlagsNow(c, FALSE, conn'[c].wr, conn'[c].cn, conn[c].up, conn[c].freed),
           conn'[c].cn => conn[c].cn,
           CallKeeps(c), Alive' = Alive, half' = half, bind' = bind,
           UNCHANGED <<cb, cli, acc, regLock>>,
           \A j \in Alive : bind[j].obj = c =>
             /\ job'[j].fd = job[j].fd
             /\ job'[j].del \/ (p = "unwrite" /\ "R" \notin job'[j].ev /\ WrKnown(c)')
    PROVE  JobsInv' /\ Lawful
<1>0. 0 \in Actors /\ ConnShape(c) /\ CallShape(c, 0) /\ call[0] # NoCall /\ regLock[c] = 0
  BY CallHere, AliveFacts DEF ConnPcs, FreeConnPcs, LockPcs
<1>1. conn[c].freed /\ conn[c].mem = "live"
  BY <1>0 DEF CallShape, FreeConnPcs
<1>2. call'[0].pc = p /\ call'[0].obj = c /\ OneCall(0)
  BY <1>0, CallsOf
<1>3. CallAbout(0, c) /\ LockStep(0)
  BY <1>2 DEF CallAbout, LockStep
<1>4. ActorShape(0)'
  BY <1>0, <1>2 DEF ActorShape, ConnPcs, FreeConnPcs
<1>5. Unconnected(c)' <=> Unconnected(c)
  BY DEF Unconnected, InCb, FlagsNow
<1>6. ASSUME NEW b \in Actors, call'[b].obj = c PROVE CallShape(c, b)'
  <2>1. CASE b = 0
    BY <1>1, <1>2, <2>1 DEF CallShape, FreeConnPcs, InitPcs, SendPcs, FlagsNow
  <2>2. CASE b # 0
    BY <1>0, <1>2, <1>5, <1>6, <2>2, OtherCalls DEF FlagsNow
  <2> QED
    BY <2>1, <2>2
<1>7. cb'.obj = c => ConnCbShape(c)'
  BY <1>0 DEF ConnShape, ConnCbShape, FlagsNow
<1>8. ASSUME NEW j \in Alive', bind'[j].obj = c PROVE JobShape(c, j)'
  <2>1. JobShape(c, j)
    BY <1>0, <1>8 DEF ConnShape
  <2>2. InLoop(c, {"unread", "unwrite"})' <=> p = "unwrite"
    BY <1>2 DEF InLoop
  <2>3. ~InLoop(c, {"addconn"})'
    BY <1>2 DEF InLoop
  <2>4. job'[j].fd = conn'[c].fd
    BY <1>8, <2>1 DEF JobShape, FlagsNow
  <2>5. conn'[c].freed
    BY <1>1 DEF FlagsNow
  <2> QED
    BY <1>8, <2>2, <2>3, <2>4, <2>5 DEF JobShape
<1>9. HasJob(c)'
  BY <1>1 DEF HasJob, FlagsNow
<1>10. ConnShape(c)'
  BY <1>0, <1>1, <1>6, <1>7, <1>8, <1>9 DEF ConnShape, FlagsNow
<1>11. HalfOf'
  BY <1>0, <1>2, HalfKept DEF CallKeeps
<1>12. \A d \in Conns : conn'[d].fd = conn[d].fd /\ (d # c => CoreSame(d))
  BY DEF FlagsNow, CoreSame
<1>13. JobsInv'
  BY <1>0, <1>3, <1>4, <1>10, <1>11, <1>12, MemberStep DEF CallKeeps, Objects
<1> QED
  BY <1>13 DEF CallKeeps

LEMMA UnregisterReadJobs ==
    ASSUME LoopsInv, StreamInv, JobsInv, KeepsEvent, NEW a \in Actors, unregister_read(a)
    PROVE  JobsInv' /\ Lawful
<1>1. PICK c : c = call[a].obj
  OBVIOUS
<1>2. /\ call[a].pc = "unread" /\ DelRead(a, c) /\ conn' = [conn EXCEPT ![c].rd = FALSE]
      /\ Goto2(a, "unwrite") /\ UNCHANGED <<acc, cli, regLock, cb, bind>>
  BY <1>1 DEF unregister_read, ConnKeeps
<1>3. c \in Conns /\ ConnShape(c) /\ a = 0
  BY <1>1, <1>2, CallHere DEF ConnPcs, FreeConnPcs
<1>4. DelsWr(c, "R", "W") /\ LibStep
  BY <1>2, <1>3, DelWrKinds
<1>5. /\ CallKeeps(c) /\ Alive' = Alive /\ half' = half
      /\ \A j \in Alive : bind[j].obj = c => DelLeaves(j, "R", "W")
  BY <1>2, <1>3, <1>4, DelKeeps
<1>6. FlagsNow(c, FALSE, conn[c].wr, conn[c].cn, conn[c].up, conn[c].freed)
  BY <1>2, <1>3, FlagSets
<1>7. OneCall(0) /\ 0 \in Actors
  BY <1>2, <1>3, CallsOf
<1>8. WrKnown(c) => WrKnown(c)'
  BY <1>2, <1>3, <1>6, <1>7 DEF WrKnown, InCb, OneCall, FlagsNow
<1>9. ASSUME NEW j \in Alive, bind[j].obj = c
      PROVE  job'[j].fd = job[j].fd /\ (job'[j].del \/ ("R" \notin job'[j].ev /\ WrKnown(c)'))
  <2>1. JobShape(c, j) /\ DelLeaves(j, "R", "W")
    BY <1>3, <1>5, <1>9 DEF ConnShape
  <2> QED
    BY <1>8, <2>1 DEF JobShape, DelLeaves
<1> QED
  BY <1>1, <1>2, <1>3, <1>5, <1>6, <1>9, FreeStep DEF FlagsNow

LEMMA UnregisterWriteJobs ==
    ASSUME LoopsInv, StreamInv, JobsInv, KeepsEvent, NEW a \in Actors, unregister_write(a)
    PROVE  JobsInv' /\ Lawful
<1>1. PICK c : c = call[a].obj
  OBVIOUS
<1>2. /\ call[a].pc = "unwrite" /\ Goto2(a, "unlock") /\ UNCHANGED <<acc, cli, regLock, cb, bind>>
      /\ conn[c].wr \/ conn[c].cn => DelWrite(a, c)
      /\ ~(conn[c].wr \/ conn[c].cn) => UNCHANGED vars
      /\ conn[c].wr => conn' = [conn EXCEPT ![c].wr = FALSE]
      /\ ~conn[c].wr => conn' = [conn EXCEPT ![c].cn = FALSE]
  BY <1>1 DEF unregister_write, ConnKeeps
<1>3. c \in Conns /\ ConnShape(c) /\ CallShape(c, a) /\ a = 0 /\ regLock[c] = a /\ call[a] # NoCall
  BY <1>1, <1>2, CallHere DEF ConnPcs, FreeConnPcs, LockPcs
<1>4. ~conn[c].rd /\ 0 \in Actors
  BY <1>2, <1>3 DEF CallShape
\* Nobody is registering: the lock is taken, and the loop is in this call.
<1>5. ~conn[c].wr /\ ~conn[c].cn => ~WrKnown(c)
  <2>1. \A b \in Actors : call[b].obj = c => call[b].pc # "wrflag"
    BY <1>2, <1>3 DEF JobsInv, ActorShape, LockPcs
  <2>2. ~InCb(c, {"againflag"})
    BY <1>3, NoCallInCallback DEF InCb, ConnCbPcs, SendCbPcs, UserCode, None
  <2> QED
    BY <2>1, <2>2 DEF WrKnown
<1>6. ASSUME NEW j \in Alive, bind[j].obj = c, ~job[j].del
      PROVE  "R" \notin job[j].ev /\ (conn[c].wr \/ conn[c].cn)
  <2>1. JobShape(c, j)
    BY <1>3, <1>6 DEF ConnShape
  <2>2. ~RdKnown(c)
    BY <1>2, <1>3, <1>4 DEF RdKnown, InLoop
  <2> QED
    BY <1>5, <1>6, <2>1, <2>2 DEF JobShape
<1>7. DelsWr(c, "W", "R") /\ LibStep
  <2>1. CASE conn[c].wr \/ conn[c].cn
    BY <1>2, <1>3, <2>1, DelWrKinds
  <2>2. CASE ~(conn[c].wr \/ conn[c].cn)
    BY <1>2, <1>6, <2>2 DEF DelsWr, LibStep
  <2> QED
    BY <2>1, <2>2
<1>8. /\ CallKeeps(c) /\ Alive' = Alive /\ half' = half
      /\ \A j \in Alive : bind[j].obj = c => DelLeaves(j, "W", "R")
  BY <1>2, <1>3, <1>7, DelKeeps
<1>9. conn[c].rd = FALSE
  BY <1>3, <1>4 DEF StreamInv, StreamType, ConnRec
<1>10. \A j \in Alive : bind[j].obj = c => job'[j].fd = job[j].fd /\ job'[j].del
  BY <1>6, <1>8 DEF DelLeaves
<1>11. conn[c].wr => FlagsNow(c, FALSE, FALSE, conn[c].cn, conn[c].up, conn[c].freed)
  BY <1>2, <1>3, <1>9, FlagSets
<1>12. ~conn[c].wr => FlagsNow(c, FALSE, conn[c].wr, FALSE, conn[c].up, conn[c].freed)
  BY <1>2, <1>3, <1>9, FlagSets
<1>13. /\ FlagsNow(c, FALSE, conn'[c].wr, conn'[c].cn, conn[c].up, conn[c].freed)
       /\ conn'[c].cn => conn[c].cn
  BY <1>11, <1>12 DEF FlagsNow
<1>14. /\ call[0].pc \in {"unread", "unwrite"} /\ Goto2(0, "unlock")
       /\ UNCHANGED <<cb, cli, acc, regLock>> /\ bind' = bind /\ c = call[0].obj /\ c \in Conns
  BY <1>1, <1>2, <1>3
<1> QED
  BY <1>8, <1>10, <1>13, <1>14, FreeStep

-----------------------------------------------------------------------------
(***************************************************************************)
(* CNetAccept.                                                             *)
(***************************************************************************)

\* A step that moves nothing.
LEMMA NothingMoves ==
    ASSUME LoopsInv, JobsInv, UNCHANGED <<vars, objVars>>
    PROVE  JobsInv' /\ Lawful
<1>1. Alive' = Alive /\ njobs' = njobs /\ aborted' = aborted /\ lateDel' = lateDel /\ LibStep
  BY DEF vars, Alive, LibStep
<1>2. Lawful
  BY <1>1, LawfulStays
<1>3. BindShape' /\ AccShape' /\ HalfOf'
  BY <1>1 DEF JobsInv, BindShape, AccShape, HalfOf, vars, objVars
<1>4. CbShape' /\ CurShape'
  BY DEF JobsInv, CbShape, CurShape, UserCode, vars, objVars
<1>5. \A a \in Actors : ActorShape(a)'
  BY DEF JobsInv, ActorShape, objVars
<1>6. ASSUME NEW c \in Conns PROVE ConnShape(c)'
  <2>1. \A a \in Actors : CallShape(c, a)' <=> CallShape(c, a)
    BY DEF CallShape, Unconnected, InCb, objVars
  <2>2. \A j \in Alive : JobShape(c, j)' <=> JobShape(c, j)
    BY DEF JobShape, Unconnected, InCb, RdKnown, WrKnown, InLoop, objVars, vars
  <2>3. HasJob(c)' <=> HasJob(c)
    BY <1>1 DEF HasJob, Unconnected, InCb, InLoop, objVars
  <2> QED
    BY <1>1, <2>1, <2>2, <2>3 DEF JobsInv, ConnShape, ConnCbShape, objVars
<1> QED
  BY <1>2, <1>3, <1>4, <1>5, <1>6 DEF JobsInv, objVars

LEMMA AcceptInitJobs ==
    ASSUME LoopsInv, StreamInv, JobsInv, KeepsEvent, "ctlSpace" \in Rules,
           NEW a \in Actors, NEW x \in Acceptors, accept_init(a, x)
    PROVE  JobsInv' /\ Lawful
<1>1. /\ Free(a) /\ acc[x].mem = None
      /\ UNCHANGED <<conn, regLock, call, cb, cli>>
  BY DEF accept_init
<1>2. PICK f \in Closed : /\ add_listen_job(a, f) /\ bind' = Bound(x, f, None)
                          /\ acc' = [acc EXCEPT ![x] = [mem |-> "live", fd |-> f]]
  BY DEF accept_init
<1>3. f \in Fds /\ f # NoFd /\ Unused(f)
  BY ClosedUnused
<1>4. Creates(f, "listen", {"R"}, 0)
  BY <1>2, <1>3, AddListenKind
<1>5. NewBind(x, None)
  <2>1. njobs \in Nat /\ njobs' = njobs + 1
    BY <1>4, AliveFacts DEF Creates
  <2> QED
    BY <1>2, <2>1 DEF NewBind, Bound
<1>6. LibStep
  BY <1>2, <1>3, CallIsNext DEF Call, LoopsInv, NoAbort
<1>7. x \in Objects /\ x \notin Conns
  BY NamesAssumption DEF Objects
<1>8. /\ Made(x, f, "listen", {"R"}) /\ BindShape' /\ Stays /\ NoneDeleted /\ Lawful
      /\ \A d : d # x => JobsSame(d) /\ JobsHeld(d)
      /\ UNCHANGED <<pc, cur, dels, half>>
  BY <1>3, <1>4, <1>5, <1>6, <1>7, MadeKeeps
<1>9. call[a].obj = None /\ OneCall(a)
  BY <1>1 DEF Free, NoCall, OneCall
<1>10. CbShape' /\ CurShape'
  BY <1>1, <1>8, <1>9, LoopStays
<1>11. HalfOf'
  BY <1>1, <1>8, <1>9, HalfKept
<1>12. regLock' = [c \in Conns |-> regLock'[c]] /\ \A b \in Actors : ActorShape(b)'
  BY <1>1 DEF JobsInv, ActorShape
<1>13. ASSUME NEW d \in Conns PROVE ConnShape(d)'
  <2>1. CallAbout(a, x) /\ CbAbout(x) /\ CoreSame(d)
    BY <1>1, <1>9 DEF CallAbout, CbAbout, CoreSame
  <2> QED
    BY <1>7, <1>8, <2>1, ConnSame, AliveFacts
<1>14. AccShape'
  <2>1. PICK q : q = [mem |-> "live", fd |-> f]
    OBVIOUS
  <2>2. /\ q.mem = "live" /\ q.fd = f /\ q \in [mem : {None, "live", "gone"}, fd : FdOrNone]
        /\ acc' = [acc EXCEPT ![x] = q]
    BY <1>2, <1>3, <2>1 DEF FdOrNone
  <2>3. acc \in [Acceptors -> [mem : {None, "live", "gone"}, fd : FdOrNone]]
    BY DEF JobsInv, AccShape
  <2>4. /\ acc' \in [Acceptors -> [mem : {None, "live", "gone"}, fd : FdOrNone]]
        /\ acc'[x] = q /\ \A y \in Acceptors : y # x => acc'[y] = acc[y]
    BY <2>2, <2>3
  <2>5. /\ f # cli /\ \A c \in Conns : conn[c].fd # f
        /\ \A y \in Acceptors : acc[y].fd # f
    BY DEF Closed
  <2>6. acc[x].fd = NoFd
    BY <1>1 DEF JobsInv, AccShape, None
  <2>7. ASSUME NEW y \in Acceptors, acc'[y].fd # NoFd
        PROVE  /\ acc'[y].mem = "live" /\ acc'[y].fd # cli'
               /\ \A c \in Conns : conn'[c].fd # acc'[y].fd
               /\ \A z \in Acceptors : acc'[z].fd = acc'[y].fd => y = z
    <3>1. CASE y = x
      BY <1>1, <2>2, <2>4, <2>5, <3>1
    <3>2. CASE y # x
      BY <1>1, <2>2, <2>4, <2>5, <2>7, <3>2 DEF JobsInv, AccShape
    <3> QED
      BY <3>1, <3>2
  <2>8. ASSUME NEW j \in Alive', bind'[j].obj \in Acceptors
        PROVE  job'[j].fd = acc'[bind'[j].obj].fd
    <3>1. CASE j \in Alive
      <4>1. bind'[j] = bind[j] /\ job'[j] = job[j] /\ job[j].fd # NoFd
        BY <1>8, <3>1, AliveFacts DEF Made
      <4>2. job[j].fd = acc[bind[j].obj].fd
        BY <2>8, <3>1, <4>1 DEF JobsInv, AccShape
      <4> QED
        BY <2>4, <2>6, <2>8, <4>1, <4>2
    <3>2. CASE j \notin Alive
      <4>1. PICK n : n = njobs + 1
        OBVIOUS
      <4>2. j = n /\ bind'[n].obj = x /\ job'[n].fd = f
        BY <1>8, <2>8, <3>2, <4>1 DEF Made
      <4> QED
        BY <2>2, <2>4, <4>2
    <3> QED
      BY <3>1, <3>2
  <2> QED
    BY <2>4, <2>7, <2>8 DEF AccShape
<1> QED
  BY <1>8, <1>10, <1>11, <1>12, <1>13, <1>14 DEF JobsInv

LEMMA AcceptFreeJobs ==
    ASSUME LoopsInv, StreamInv, JobsInv, KeepsEvent, RecvHabits \subseteq Habits,
           NEW a \in Actors, NEW x \in Acceptors, accept_free(a, x)
    PROVE  JobsInv' /\ Lawful
<1>1. /\ Free(a) /\ a = 0 /\ call[a] = NoCall
      /\ acc[x].fd # NoFd /\ x \in Objects /\ x \notin Conns
      /\ UNCHANGED <<conn, acc, regLock, cb, cli, bind, wire, given, nmsgs>>
  BY NamesAssumption DEF accept_free, Free, RecvHabits, AllHabits, Objects
<1>2. PICK j : j = find_io_job(acc[x].fd)
  OBVIOUS
<1>3. CASE j = NoJob
  BY <1>1, <1>2, <1>3, NothingMoves DEF accept_free, objVars
<1>4. CASE j # NoJob
  <2>1. del_listen_job_mark(a, acc[x].fd) /\ Enters(a, "freelisten", x)
    BY <1>2, <1>4 DEF accept_free, Enters
  <2>2. j \in Alive /\ job[j].fd = acc[x].fd /\ ~job[j].del /\ acc[x].fd \in Fds
    BY <1>2, <1>4, FindsSome
  <2>3. ListenMark(a, j)
    BY <1>2, <2>1, <2>2, ListenMarkKind, AliveFacts
  <2>4. LibStep
    BY <2>1, <2>2, CallIsNext DEF Call, LoopsInv, NoAbort
  <2>5. bind[j].obj = x
    <3>1. bind[j].obj \in Acceptors
      BY <2>2, <2>3 DEF ListenMark, JobsInv, BindShape
    <3> QED
      BY <1>1, <2>2, <3>1 DEF JobsInv, AccShape
  <2>6. PICK fr : JobSet(j, [job[j] EXCEPT !.free = fr, !.del = TRUE])
    BY <2>3 DEF ListenMark
  <2>7. /\ UNCHANGED <<njobs, freed, aborted, half, pc, cur, dels>>
        /\ \A d \in lateDel' : d.by = 0
    <3>1. PICK e : e = [by |-> a, fd |-> job[j].fd]
      OBVIOUS
    <3>2. lateDel' = lateDel \cup {e} /\ e.by = 0
      BY <1>1, <2>3, <3>1 DEF ListenMark
    <3> QED
      BY <2>3, <3>2, LateByLoop DEF ListenMark
  <2>8. /\ BindShape' /\ Stays /\ Lawful /\ Alive' = Alive
        /\ \A d : d # x => JobsSame(d) /\ JobsHeld(d)
        /\ \A k \in Alive' : bind'[k].obj \in Acceptors => k \in Alive
    BY <1>1, <2>2, <2>4, <2>5, <2>6, <2>7, ChangedKeeps
  <2>9. call'[a].pc = "freelisten" /\ call'[a].obj = x /\ OneCall(a)
    BY <2>1, CallsOf
  <2>10. CallAbout(a, x) /\ LockStep(a)
    BY <1>1, <2>9 DEF CallAbout, NoCall, LockStep
  <2>11. ActorShape(a)'
    BY <1>1, <2>9 DEF ActorShape, LockPcs, FreeConnPcs
  <2>12. HalfOf'
    BY <1>1, <2>7, <2>8, <2>9, HalfKept DEF NoCall, None
  <2>13. \A d \in Conns : conn'[d].fd = conn[d].fd /\ CoreSame(d)
    BY <1>1 DEF CoreSame
  <2>14. JobsInv'
    BY <1>1, <2>7, <2>8, <2>10, <2>11, <2>12, <2>13, MemberStep
  <2> QED
    BY <2>8, <2>14
<1> QED
  BY <1>3, <1>4

LEMMA AcceptFreeCtlJobs ==
    ASSUME LoopsInv, StreamInv, JobsInv, NEW a \in Actors, accept_free_ctl(a)
    PROVE  JobsInv' /\ Lawful
<1>1. PICK x : x = call[a].obj
  OBVIOUS
<1>2. /\ call[a].pc = "freelisten" /\ del_listen_job_ctl(a) /\ Return2(a)
      /\ UNCHANGED <<conn, acc, regLock, cb, cli, bind>>
  BY DEF accept_free_ctl
<1>3. x \in Acceptors /\ a = 0 /\ call[a] # NoCall
  BY <1>1, <1>2 DEF JobsInv, ActorShape, NoCall, None, ConnPcs, SendPcs, DirectPcs,
     FreeConnPcs, InitPcs
<1>4. x \in Objects /\ x \notin Conns
  BY <1>3, NamesAssumption DEF Objects
<1>5. PICK d \in lateDel : ListenCtl(d)
  BY <1>2, ListenCtlKind, AliveFacts
<1>6. LibStep
  BY <1>2, CallIsNext DEF Call, LoopsInv, NoAbort
<1>7. UNCHANGED <<njobs, job, freed, aborted, half, pc, cur, dels>> /\ lateDel' \subseteq lateDel
  BY <1>5 DEF ListenCtl
<1>8. /\ BindShape' /\ Stays /\ NoneDeleted /\ Lawful /\ Alive' = Alive
      /\ \A d2 : JobsSame(d2) /\ JobsHeld(d2)
      /\ \A j \in Alive' : bind'[j].obj \in Acceptors => j \in Alive
  BY <1>2, <1>6, <1>7, SameKeeps
<1>9. call'[a] = NoCall /\ OneCall(a) /\ NoCall.obj = None /\ NoCall.pc = None
  BY <1>2, CallsOf DEF NoCall
<1>10. CallAbout(a, x) /\ LockStep(a)
  BY <1>1, <1>2, <1>9 DEF CallAbout, LockStep
<1>11. ActorShape(a)'
  BY <1>9 DEF ActorShape, LockPcs, FreeConnPcs, InitPcs, None
<1>12. HalfOf'
  BY <1>2, <1>7, <1>8, <1>9, HalfKept
<1>13. \A d2 \in Conns : conn'[d2].fd = conn[d2].fd /\ CoreSame(d2)
  BY <1>2 DEF CoreSame
<1>14. JobsInv'
  BY <1>2, <1>3, <1>4, <1>7, <1>8, <1>10, <1>11, <1>12, <1>13, MemberStep
<1> QED
  BY <1>8, <1>14

-----------------------------------------------------------------------------
(***************************************************************************)
(* The loop between the callbacks.                                         *)
(***************************************************************************)

\* A callback of object c begins or ends, or there is none; what is left to show
\* is where the loop is.
LEMMA CbMoves ==
    ASSUME LoopsInv, StreamInv, JobsInv, UNCHANGED <<acc, regLock, call>>,
           \A d \in Conns : CoreSame(d), call[0] = NoCall, half' = half, BindShape', Stays,
           \A d : JobsSame(d) /\ JobsHeld(d),
           \A j \in Alive' : bind'[j].obj \in Acceptors => j \in Alive,
           cli' \in {cli, NoFd} \cup Closed,
           cb.pc \notin {"conn_ok", "againflag"}, cb'.pc \notin {"conn_ok", "againflag"},
           NEW c, CbAbout(c), c \in Conns /\ cb'.obj = c => ConnCbShape(c)',
           CbShape', CurShape'
    PROVE  JobsInv'
<1>0. 0 \in Actors /\ OneCall(0) /\ LockStep(0) /\ call[0].obj = None /\ call[0].pc = None
  BY AliveFacts DEF OneCall, LockStep, NoCall
<1>1. AccShape'
  BY AccKept DEF CoreSame
<1>2. ActorShape(0)'
  BY <1>0 DEF ActorShape, LockPcs, FreeConnPcs, InitPcs, None
<1>3. regLock' = [d \in Conns |-> regLock'[d]] /\ \A a \in Actors : ActorShape(a)'
  BY <1>0, <1>2, LocksKept
<1>4. HalfOf'
  BY <1>0, HalfKept
<1>5. ASSUME NEW d \in Conns PROVE ConnShape(d)'
  <2>1. CASE d # c
    <3>1. CallAbout(0, c)
      BY <1>0 DEF CallAbout
    <3> QED
      BY <1>0, <2>1, <3>1, ConnSame
  <2>2. CASE d = c
    <3>1. \A ps \in {{"conn_ok"}, {"againflag"}} : ~InCb(d, ps) /\ ~InCb(d, ps)'
      BY DEF InCb
    <3>2. \A ps : InLoop(d, ps)' <=> InLoop(d, ps)
      BY DEF InLoop
    <3>3. Follows(d)
      BY <3>1, <3>2 DEF Follows, CoreSame, Unconnected, RdKnown, WrKnown, JobsInv, ConnShape
    <3>4. call'[0].obj # d
      BY <1>0, NamesAssumption DEF None
    <3> QED
      BY <1>0, <2>2, <3>3, <3>4, ConnFollows
  <2> QED
    BY <2>1, <2>2
<1> QED
  BY <1>1, <1>3, <1>4, <1>5 DEF JobsInv

\* Where no callback and no code of the application runs, the loop makes no call.
LEMMA NoCallInLoop ==
    ASSUME JobsInv, cb.pc = None, pc[0] # "timers"
    PROVE  call[0] = NoCall /\ cb.obj = None
BY DEF JobsInv, CbShape, UserCode, None

LEMMA LoopQuietJobs ==
    ASSUME LoopsInv, StreamInv, JobsInv, LoopQuiet
    PROVE  JobsInv' /\ Lawful
<1>0. /\ cb.pc = None /\ 0 \in Loops /\ pc \in [Loops -> Pcs]
      /\ UNCHANGED <<conn, acc, regLock, call, cb, cli, bind>>
  BY AliveFacts DEF LoopQuiet, objVars, StreamInv, StreamType
<1>1. \/ LoopTop(0) \/ LoopOut(0) \/ EpollReady(0) \/ EpollIdle(0) \/ Dispatch(0)
      \/ RecvDrained(0) \/ AcceptDrained(0) \/ WriteCheck(0)
      \/ call[0] = NoCall /\ TimersReturn(0)
  BY DEF LoopQuiet
<1>2. UNCHANGED <<njobs, job, freed, half, lateDel, aborted>>
  BY <1>1 DEF LoopTop, LoopOut, Reap, EpollReady, EpollIdle, Dispatch, RecvDrained,
     AcceptDrained, WriteCheck, TimersReturn, Frame, LoopKeeps
<1>3. LibStep
  BY <1>0, <1>1, LoopIsNext DEF Loop, LoopsInv, NoAbort
<1>4. call[0] = NoCall /\ cb.obj = None
  <2>1. CASE pc[0] # "timers"
    BY <1>0, <2>1, NoCallInLoop
  <2>2. CASE pc[0] = "timers"
    BY <1>0, <1>1, <2>2 DEF LoopTop, LoopOut, EpollReady, EpollIdle, Dispatch, RecvDrained,
       AcceptDrained, WriteCheck, JobsInv, CbShape
  <2> QED
    BY <2>1, <2>2
<1>5. /\ BindShape' /\ Stays /\ Lawful
      /\ \A d : JobsSame(d) /\ JobsHeld(d)
      /\ \A j \in Alive' : bind'[j].obj \in Acceptors => j \in Alive
  BY <1>0, <1>2, <1>3, SameKeeps
<1>6. CbShape'
  BY <1>0, <1>4 DEF CbShape, ConnCbPcs, SendCbPcs, ConnectCbPcs, None
<1>7. \/ pc'[0] \in {"top", "wait", "out", "exit", "timers", "events", "read", "write1",
                     "free", "lastfree"}
      \/ WriteCheck(0) /\ pc'[0] = "write2" /\ cur' = cur /\ ~job[cur[0].job].del
           /\ job[cur[0].job].kind # "listen" /\ pc[0] = "write1"
  <2>1. CASE LoopTop(0) \/ LoopOut(0)
    BY <1>0, <2>1 DEF LoopTop, LoopOut, Reap
  <2>2. CASE EpollReady(0) \/ EpollIdle(0) \/ Dispatch(0)
    BY <1>0, <2>2 DEF EpollReady, EpollIdle, Dispatch
  <2>3. CASE RecvDrained(0) \/ AcceptDrained(0) \/ TimersReturn(0)
    BY <1>0, <2>3 DEF RecvDrained, AcceptDrained, ReadDone, EventDone, Goto, TimersReturn
  <2>4. CASE WriteCheck(0)
    BY <1>0, <2>4 DEF WriteCheck, EventDone, Goto
  <2> QED
    BY <1>1, <2>1, <2>2, <2>3, <2>4
<1>8. CurShape'
  <2>1. CASE pc'[0] = "write2" /\ cur' = cur /\ ~job[cur[0].job].del
               /\ job[cur[0].job].kind # "listen" /\ pc[0] = "write1"
    <3>1. cur[0].job \in Alive
      BY <2>1, CurAlive DEF EventPcs
    <3> QED
      BY <1>2, <2>1, <3>1, AliveFacts DEF CurShape
  <2>2. CASE pc'[0] \in {"top", "wait", "out", "exit", "timers", "events", "read", "write1",
                         "free", "lastfree"}
    BY <2>2 DEF CurShape
  <2> QED
    BY <1>7, <2>1, <2>2
<1>9. CbAbout(None) /\ cb.pc \notin {"conn_ok", "againflag"} /\ None \notin Conns
  BY <1>0, NamesAssumption DEF CbAbout, None
<1> QED
  BY <1>0, <1>2, <1>4, <1>5, <1>6, <1>8, <1>9, CbMoves DEF CoreSame

\* recv and accept, and the callbacks that they lead to.
LEMMA StartJobs ==
    ASSUME LoopsInv, StreamInv, JobsInv, RecvStart \/ AcceptStart
    PROVE  JobsInv' /\ Lawful
<1>0. 0 \in Loops /\ pc \in [Loops -> Pcs] /\ UNCHANGED <<conn, acc, regLock, call, bind>>
  BY AliveFacts DEF RecvStart, AcceptStart, CbKeeps, StreamInv, StreamType
<1>1. RecvData(0) \/ Accept(0)
  BY DEF RecvStart, AcceptStart
<1>2. UNCHANGED <<njobs, job, freed, half, lateDel, aborted, cur>> /\ pc[0] = "read"
  BY <1>1 DEF RecvData, Accept, Frame, LoopKeeps, Goto
<1>3. LibStep
  BY <1>0, <1>1, LoopIsNext DEF Loop, LoopsInv, NoAbort
<1>4. cb.pc = None /\ call[0] = NoCall /\ cb.obj = None
  <2>1. cb.pc = None
    BY <1>2 DEF StreamInv, InCallback, FreePcs, CallbackPcs
  <2> QED
    BY <1>2, <2>1, NoCallInLoop
<1>5. /\ BindShape' /\ Stays /\ Lawful
      /\ \A d : JobsSame(d) /\ JobsHeld(d)
      /\ \A j \in Alive' : bind'[j].obj \in Acceptors => j \in Alive
  BY <1>0, <1>2, <1>3, SameKeeps
<1>6. PICK j : j = cur[0].job
  OBVIOUS
<1>7. PICK c : c = bind[j].obj
  OBVIOUS
<1>8. j \in Alive
  BY <1>2, <1>6, CurAlive DEF EventPcs
<1>9. CASE RecvStart
  <2>1. job[j].kind = "wr" /\ pc'[0] \in {"readcb", "readend"} /\ cli' = cli
    BY <1>0, <1>6, <1>9 DEF RecvStart, RecvData, Goto, CbKeeps
  <2>2. c \in Conns /\ conn[c].mem = "live"
    <3>1. c \in Conns
      BY <1>7, <1>8, <2>1 DEF JobsInv, BindShape
    <3> QED
      BY <1>7, <1>8, <3>1, AliveFacts DEF JobsInv, ConnShape, JobShape
  <2>3. cb'.pc \in {"recv", "fail"} /\ cb'.obj = c
    BY <1>6, <1>7, <1>9 DEF RecvStart
  <2>4. CbShape'
    BY <1>0, <1>2, <1>4, <1>6, <1>7, <2>1, <2>3 DEF CbShape, SendCbPcs, None
  <2>5. CurShape'
    BY <1>2, <1>6, <2>1 DEF CurShape
  <2>6. ConnCbShape(c)'
    BY <1>0, <2>2, <2>3 DEF ConnCbShape, SendCbPcs
  <2>7. CbAbout(c) /\ cb.pc \notin {"conn_ok", "againflag"} /\ cb'.pc \notin {"conn_ok", "againflag"}
    BY <1>4, <2>3 DEF CbAbout, None
  <2> QED
    BY <1>0, <1>2, <1>4, <1>5, <2>1, <2>4, <2>5, <2>6, <2>7, CbMoves DEF CoreSame
<1>10. CASE AcceptStart
  <2>1. job[j].kind = "listen" /\ pc'[0] = "accept" /\ cli' \in Closed
    BY <1>0, <1>6, <1>10 DEF AcceptStart, Accept, Goto
  <2>2. c \in Acceptors /\ c \notin Conns /\ cli' # NoFd
    BY <1>7, <1>8, <2>1, ClosedUnused, NamesAssumption DEF JobsInv, BindShape
  <2>3. cb'.pc = "accept" /\ cb'.obj = c
    BY <1>6, <1>7, <1>10 DEF AcceptStart
  <2>4. CbShape'
    BY <1>0, <1>2, <1>4, <1>6, <1>7, <2>1, <2>2, <2>3
       DEF CbShape, ConnCbPcs, SendCbPcs, ConnectCbPcs, None
  <2>5. CurShape'
    BY <1>2, <1>6, <2>1 DEF CurShape
  <2>6. CbAbout(c) /\ cb.pc \notin {"conn_ok", "againflag"} /\ cb'.pc \notin {"conn_ok", "againflag"}
    BY <1>4, <2>3 DEF CbAbout, None
  <2> QED
    BY <1>0, <1>2, <1>4, <1>5, <2>1, <2>2, <2>4, <2>5, <2>6, CbMoves DEF CoreSame
<1> QED
  BY <1>9, <1>10

LEMMA CbReturnJobs ==
    ASSUME LoopsInv, StreamInv, JobsInv, CbReturn
    PROVE  JobsInv' /\ Lawful
<1>0. /\ 0 \in Loops /\ pc \in [Loops -> Pcs]
      /\ UNCHANGED <<conn, acc, regLock, call, cli, bind>>
      /\ cb.pc \in {"recv", "done"} /\ call[0] = NoCall /\ cb' = NoCb
  BY AliveFacts DEF CbReturn, CbKeeps, StreamInv, StreamType
<1>1. ReadCbReturn(0) \/ ReadEndReturn(0) \/ WriteCbReturn(0)
  BY DEF CbReturn
<1>2. UNCHANGED <<njobs, job, freed, half, lateDel, aborted>>
  BY <1>1 DEF ReadCbReturn, ReadEndReturn, WriteCbReturn, Frame, LoopKeeps
<1>3. LibStep
  BY <1>0, <1>1, LoopIsNext DEF Loop, LoopsInv, NoAbort
<1>4. /\ BindShape' /\ Stays /\ Lawful
      /\ \A d : JobsSame(d) /\ JobsHeld(d)
      /\ \A j \in Alive' : bind'[j].obj \in Acceptors => j \in Alive
  BY <1>0, <1>2, <1>3, SameKeeps
<1>5. cb'.pc = None /\ cb'.obj = None
  BY <1>0 DEF NoCb
<1>6. CbShape'
  BY <1>0, <1>5 DEF CbShape, ConnCbPcs, SendCbPcs, ConnectCbPcs, None
<1>7. pc'[0] \in {"read", "write1", "timers", "events"}
  BY <1>0, <1>1 DEF ReadCbReturn, ReadEndReturn, WriteCbReturn, ReadDone, EventDone, Goto
<1>8. CurShape'
  BY <1>7 DEF CurShape
<1>9. PICK c : c = cb.obj
  OBVIOUS
<1>10. CbAbout(c) /\ (c \in Conns => cb'.obj # c) /\ cb'.pc \notin {"conn_ok", "againflag"}
  BY <1>5, <1>9, NamesAssumption DEF CbAbout, None
<1> QED
  BY <1>0, <1>2, <1>4, <1>6, <1>8, <1>10, CbMoves DEF CoreSame

-----------------------------------------------------------------------------
(***************************************************************************)
(* The callbacks of connections: those steps that touch no flag.           *)
(***************************************************************************)
LEMMA CoreCallback ==
    ASSUME LoopsInv, StreamInv, JobsInv, NEW c \in Conns, c = cb.obj, NEW p, CbGoto(p),
           cb.pc \in ConnCbPcs \ {"conn_ok", "againflag"},
           p \in (ConnCbPcs \cup {"done"}) \ {"conn_ok", "againflag"},
           p \in SendCbPcs \cup {"connect"} => cb.pc \in SendCbPcs \cup {"connect"},
           p = "unreg" => conn[c].dialed,
           call[0] = NoCall, UNCHANGED <<vars, bind, cli, acc, call, regLock>>,
           \A d \in Conns : CoreSame(d)
    PROVE  JobsInv' /\ Lawful
<1>0. 0 \in Actors /\ call[0].obj = None /\ call[0].pc = None /\ c # None
  BY AliveFacts, NamesAssumption DEF NoCall, None
<1>1. OneCall(0) /\ CallAbout(0, c) /\ LockStep(0)
  BY <1>0 DEF OneCall, CallAbout, LockStep
<1>2. ActorShape(0)'
  BY <1>0 DEF ActorShape, LockPcs, FreeConnPcs, InitPcs, None
<1>3. cb'.pc = p /\ cb'.obj = c
  BY CbGotoFacts
<1>4. ConnShape(c) /\ ConnCbShape(c)
  BY CbInConns
<1>5. \A ps \in {{"conn_ok"}, {"againflag"}} : ~InCb(c, ps) /\ ~InCb(c, ps)'
  BY <1>3 DEF InCb
<1>6. \A ps : InLoop(c, ps)' <=> InLoop(c, ps)
  BY DEF InLoop
<1>7. Follows(c)
  BY <1>4, <1>5, <1>6 DEF Follows, CoreSame, Unconnected, RdKnown, WrKnown, ConnShape
<1>8. ConnCbShape(c)'
  BY <1>3, <1>4 DEF ConnCbShape, CoreSame, ConnCbPcs, SendCbPcs, ConnectCbPcs
<1>9. \A d : JobsSame(d) /\ JobsHeld(d)
  BY VarsKept
<1>10. ConnShape(c)'
  BY <1>0, <1>1, <1>7, <1>8, <1>9, ConnFollows
<1>11. call'[0] # NoCall => p \in {"done", "conn_ok"}
  OBVIOUS
<1>12. \A d \in Conns : conn'[d].fd = conn[d].fd
  BY DEF CoreSame
<1> QED
  BY <1>1, <1>2, <1>10, <1>11, <1>12, OwnCallbackStep

\* Steps on the queue and the node.
LEMMA DataSets ==
    ASSUME StreamInv, NEW c \in Conns, NEW q,
           \/ conn' = conn
           \/ \E v, w : conn' = [conn EXCEPT ![c].node = v, ![c].queue = w]
           \/ \E v : conn' = [conn EXCEPT ![c].node = v]
           \/ conn' = [conn EXCEPT ![c].failed = TRUE, ![c].dead = TRUE]
           \/ \E v : conn' = [conn EXCEPT ![c].async = FALSE, ![c].node = <<>>,
                                          ![c].queue = <<>>, ![c].dead = v]
    PROVE  \A d \in Conns : CoreSame(d)
<1>1. conn = [d \in Conns |-> conn[d]]
  BY DEF StreamInv, StreamType
<1>2. PICK k \in ConnRec : k = conn[c]
  BY DEF StreamInv, StreamType
<1>3. ASSUME NEW r, conn' = [conn EXCEPT ![c] = r],
             r.mem = k.mem, r.fd = k.fd, r.dialed = k.dialed, r.up = k.up, r.rd = k.rd,
             r.wr = k.wr, r.cn = k.cn, r.freed = k.freed
      PROVE  \A d \in Conns : CoreSame(d)
  <2>1. conn'[c] = r /\ \A d \in Conns : d # c => conn'[d] = conn[d]
    BY <1>1, <1>3
  <2> QED
    BY <1>2, <1>3, <2>1 DEF CoreSame
<1>4. CASE conn' = conn
  BY <1>4 DEF CoreSame
<1>5. ASSUME NEW v, NEW w, conn' = [conn EXCEPT ![c].node = v, ![c].queue = w]
      PROVE  \A d \in Conns : CoreSame(d)
  <2>1. PICK r : r = [k EXCEPT !.node = v, !.queue = w]
    OBVIOUS
  <2>2. conn' = [conn EXCEPT ![c] = r]
    BY <1>1, <1>2, <1>5, <2>1
  <2>3. /\ r.mem = k.mem /\ r.fd = k.fd /\ r.dialed = k.dialed /\ r.up = k.up
        /\ r.rd = k.rd /\ r.wr = k.wr /\ r.cn = k.cn /\ r.freed = k.freed
    BY <2>1 DEF ConnRec
  <2> QED
    BY <1>3, <2>2, <2>3
<1>6. ASSUME NEW v, conn' = [conn EXCEPT ![c].node = v]
      PROVE  \A d \in Conns : CoreSame(d)
  <2>1. PICK r : r = [k EXCEPT !.node = v]
    OBVIOUS
  <2>2. conn' = [conn EXCEPT ![c] = r]
    BY <1>1, <1>2, <1>6, <2>1
  <2>3. /\ r.mem = k.mem /\ r.fd = k.fd /\ r.dialed = k.dialed /\ r.up = k.up
        /\ r.rd = k.rd /\ r.wr = k.wr /\ r.cn = k.cn /\ r.freed = k.freed
    BY <2>1 DEF ConnRec
  <2> QED
    BY <1>3, <2>2, <2>3
<1>7. CASE conn' = [conn EXCEPT ![c].failed = TRUE, ![c].dead = TRUE]
  <2>1. PICK r : r = [k EXCEPT !.failed = TRUE, !.dead = TRUE]
    OBVIOUS
  <2>2. conn' = [conn EXCEPT ![c] = r]
    BY <1>1, <1>2, <1>7, <2>1
  <2>3. /\ r.mem = k.mem /\ r.fd = k.fd /\ r.dialed = k.dialed /\ r.up = k.up
        /\ r.rd = k.rd /\ r.wr = k.wr /\ r.cn = k.cn /\ r.freed = k.freed
    BY <2>1 DEF ConnRec
  <2> QED
    BY <1>3, <2>2, <2>3
<1>8. ASSUME NEW v, conn' = [conn EXCEPT ![c].async = FALSE, ![c].node = <<>>,
                                         ![c].queue = <<>>, ![c].dead = v]
      PROVE  \A d \in Conns : CoreSame(d)
  <2>1. PICK r : r = [k EXCEPT !.async = FALSE, !.node = <<>>, !.queue = <<>>, !.dead = v]
    OBVIOUS
  <2>2. conn' = [conn EXCEPT ![c] = r]
    BY <1>1, <1>2, <1>8, <2>1
  <2>3. /\ r.mem = k.mem /\ r.fd = k.fd /\ r.dialed = k.dialed /\ r.up = k.up
        /\ r.rd = k.rd /\ r.wr = k.wr /\ r.cn = k.cn /\ r.freed = k.freed
    BY <2>1 DEF ConnRec
  <2> QED
    BY <1>3, <2>2, <2>3
<1> QED
  BY <1>4, <1>5, <1>6, <1>7, <1>8

\* write_evt_handle, recv_handle's failure, the steps of send_handle on the
\* queue, and those of the connect callback that only read.
LEMMA QuietCallbackJobs ==
    ASSUME LoopsInv, StreamInv, JobsInv,
           \/ WriteEntry \/ recv_handle_fails \/ send_handle_take \/ send_buf_node
           \/ connect_cleanup
    PROVE  JobsInv' /\ Lawful
<1>1. cb.pc \in {"entry", "recv", "take", "sendbuf", "cleanup"}
  BY DEF WriteEntry, recv_handle_fails, send_handle_take, send_buf_node, connect_cleanup
<1>2. cb.pc \in ConnCbPcs \ {"conn_ok", "againflag"}
  BY <1>1 DEF ConnCbPcs, SendCbPcs, ConnectCbPcs
<1>3. PICK c \in Conns : c = cb.obj /\ ConnShape(c)
  BY <1>2, CbInConns
<1>4. call[0] = NoCall
  <2>1. CASE cb.pc = "recv"
    BY <2>1 DEF WriteEntry, recv_handle_fails, send_handle_take, send_buf_node, connect_cleanup
  <2>2. CASE cb.pc # "recv"
    BY <1>1, <1>2, <2>2, NoCallInCallback DEF UserCode, None
  <2> QED
    BY <2>1, <2>2
<1>5. UNCHANGED <<vars, bind, cli, acc, call, regLock>>
  BY DEF WriteEntry, recv_handle_fails, send_handle_take, send_buf_node, connect_cleanup,
     CbKeeps
<1>6. \A d \in Conns : CoreSame(d)
  <2>1. CASE WriteEntry \/ recv_handle_fails \/ connect_cleanup
    BY <2>1 DEF WriteEntry, recv_handle_fails, connect_cleanup, CoreSame
  <2>2. CASE send_handle_take
    BY <1>3, <2>2, DataSets DEF send_handle_take
  <2>3. CASE send_buf_node
    BY <1>3, <2>3, DataSets DEF send_buf_node
  <2> QED
    BY <2>1, <2>2, <2>3
<1>7. \E p : /\ CbGoto(p)
             /\ p \in {"connect", "take", "sendbuf", "fail", "done", "again", "unreg"}
             /\ p \in {"connect", "take", "sendbuf", "again"} =>
                  cb.pc \in {"entry", "take", "sendbuf"}
             /\ p = "unreg" => conn[c].cn
  <2>1. CASE WriteEntry
    BY <2>1 DEF WriteEntry
  <2>2. CASE recv_handle_fails
    BY <2>2 DEF recv_handle_fails
  <2>3. CASE send_handle_take
    BY <2>3 DEF send_handle_take
  <2>4. CASE send_buf_node
    <3>1. cb.pc = "sendbuf" /\ (CbGoto("take") \/ CbGoto("again") \/ CbGoto("fail"))
      BY <2>4 DEF send_buf_node
    <3> QED
      BY <3>1
  <2>5. CASE connect_cleanup
    BY <1>3, <2>5 DEF connect_cleanup
  <2> QED
    BY <2>1, <2>2, <2>3, <2>4, <2>5
<1>8. PICK p : /\ CbGoto(p)
               /\ p \in {"connect", "take", "sendbuf", "fail", "done", "again", "unreg"}
               /\ p \in {"connect", "take", "sendbuf", "again"} =>
                    cb.pc \in {"entry", "take", "sendbuf"}
               /\ p = "unreg" => conn[c].cn
  BY <1>7
<1>9. p \in (ConnCbPcs \cup {"done"}) \ {"conn_ok", "againflag"}
  BY <1>8 DEF ConnCbPcs, SendCbPcs, ConnectCbPcs
<1>10. p \in SendCbPcs \cup {"connect"} => cb.pc \in SendCbPcs \cup {"connect"}
  BY <1>8 DEF SendCbPcs
<1>11. p = "unreg" => conn[c].dialed
  BY <1>3, <1>8 DEF ConnShape
<1> QED
  BY <1>2, <1>3, <1>4, <1>5, <1>6, <1>8, <1>9, <1>10, <1>11, CoreCallback
-----------------------------------------------------------------------------
(***************************************************************************)
(* The write event; the accept callback.                                   *)
(***************************************************************************)
LEMMA WriteStartJobs ==
    ASSUME LoopsInv, StreamInv, JobsInv, KeepsEvent, WriteStart
    PROVE  JobsInv' /\ Lawful
<1>0. /\ 0 \in Loops /\ 0 \in Actors /\ pc \in [Loops -> Pcs]
      /\ UNCHANGED <<conn, acc, regLock, call, cli, bind>> /\ WriteClear(0)
  BY AliveFacts DEF WriteStart, CbKeeps, StreamInv, StreamType
<1>1. PICK j : j = cur[0].job
  OBVIOUS
<1>2. PICK c : c = bind[j].obj
  OBVIOUS
<1>3. Clears(0, j)
  BY <1>0, <1>1, ClearsKind, AliveFacts
<1>4. LibStep
  BY <1>0, LoopIsNext DEF Loop, LoopsInv, NoAbort
<1>5. /\ pc[0] = "write2" /\ pc'[0] = "writecb" /\ cur' = cur /\ half' = half
      /\ UNCHANGED <<njobs, freed, lateDel, aborted>>
      /\ JobSet(j, [job[j] EXCEPT !.ev = @ \ {"W"}])
  BY <1>0, <1>3 DEF Clears
<1>6. j \in Alive /\ job[j].kind = "wr" /\ ~job[j].del
  BY <1>1, <1>5, CurAlive DEF EventPcs, JobsInv, CurShape
<1>7. c \in Conns /\ ConnShape(c) /\ JobShape(c, j) /\ c # None
  BY <1>2, <1>6, NamesAssumption DEF JobsInv, BindShape, ConnShape, None
<1>8. cb.pc = None /\ call[0] = NoCall /\ cb.obj = None
  <2>1. cb.pc = None
    BY <1>5 DEF StreamInv, InCallback, FreePcs, CallbackPcs
  <2> QED
    BY <1>5, <2>1, NoCallInLoop
<1>9. ~conn[c].freed /\ conn[c].mem = "live"
  BY <1>6, <1>7, <1>8, AliveFacts DEF JobShape, InLoop, NoCall, ConnShape
<1>10. /\ BindShape' /\ Stays /\ Lawful /\ Alive' = Alive
       /\ \A d : d # c => JobsSame(d) /\ JobsHeld(d)
       /\ \A k \in Alive' : bind'[k].obj \in Acceptors => k \in Alive
  BY <1>0, <1>2, <1>4, <1>5, <1>6, ChangedKeeps, LateByLoop
<1>11. /\ job'[j].ev = job[j].ev \ {"W"} /\ ~job'[j].del
       /\ job'[j].fd = job[j].fd /\ job'[j].kind = "wr"
  <2>1. PICK t \in JobRec : t = job[j]
    BY <1>6, AliveFacts
  <2>2. PICK u : u = [t EXCEPT !.ev = t.ev \ {"W"}]
    OBVIOUS
  <2>3. u.ev = t.ev \ {"W"} /\ u.del = t.del /\ u.fd = t.fd /\ u.kind = t.kind
    BY <2>2 DEF JobRec
  <2>4. job'[j] = u
    BY <1>5, <2>1, <2>2 DEF JobSet
  <2> QED
    BY <1>6, <2>1, <2>3, <2>4
<1>12. cb'.pc = "entry" /\ cb'.obj = c
  BY <1>1, <1>2 DEF WriteStart
<1>13. OneCall(0) /\ CallAbout(0, c) /\ LockStep(0) /\ call'[0] = NoCall
       /\ call[0].pc # "addset" /\ call'[0].obj # c
  BY <1>0, <1>7, <1>8 DEF OneCall, CallAbout, LockStep, NoCall, None
<1>14. ActorShape(0)'
  BY <1>13 DEF ActorShape, NoCall, LockPcs, FreeConnPcs, InitPcs, None
<1>15. AccShape'
  BY <1>0, <1>10, AccKept
<1>16. HalfOf'
  BY <1>0, <1>5, <1>10, <1>13, HalfKept
<1>17. regLock' = [d \in Conns |-> regLock'[d]] /\ \A a \in Actors : ActorShape(a)'
  BY <1>0, <1>13, <1>14, LocksKept
<1>18. CbShape'
  <2>1. bind'[j].obj = c
    BY <1>0, <1>2
  <2> QED
    BY <1>1, <1>5, <1>11, <1>12, <1>13, <2>1 DEF CbShape, None
<1>19. CurShape'
  BY <1>1, <1>5, <1>11 DEF CurShape
<1>20. \A ps \in {{"conn_ok"}, {"againflag"}} : ~InCb(c, ps) /\ ~InCb(c, ps)'
  BY <1>8, <1>12, <1>7 DEF InCb
<1>21. \A ps : InLoop(c, ps)' <=> InLoop(c, ps)
  BY <1>0 DEF InLoop
<1>22. /\ Unconnected(c)' <=> Unconnected(c)
       /\ RdKnown(c)' <=> RdKnown(c)
       /\ WrKnown(c)' <=> WrKnown(c)
  BY <1>0, <1>20, <1>21 DEF Unconnected, RdKnown, WrKnown
<1>23. JobShape(c, j)'
  BY <1>0, <1>6, <1>7, <1>11, <1>21, <1>22 DEF JobShape
<1>24. \A k \in Alive' : bind'[k].obj = c => k = j
  BY <1>0, <1>2, <1>6, <1>7, <1>10, OnlyJob
<1>25. HasJob(c)'
  BY <1>0, <1>2, <1>6, <1>10 DEF HasJob
<1>26. ASSUME NEW a \in Actors, call'[a].obj = c PROVE CallShape(c, a)'
  BY <1>0, <1>7, <1>13, <1>22, <1>26, OtherCalls
<1>27. ConnCbShape(c)'
  BY <1>0, <1>9, <1>12 DEF ConnCbShape
<1>28. ConnShape(c)'
  BY <1>0, <1>7, <1>23, <1>24, <1>25, <1>26, <1>27 DEF ConnShape
<1>29. ASSUME NEW d \in Conns, d # c PROVE ConnShape(d)'
  <2>1. CoreSame(d) /\ CbAbout(c)
    BY <1>0, <1>8, <1>12 DEF CoreSame, CbAbout
  <2> QED
    BY <1>0, <1>10, <1>13, <1>29, <2>1, ConnSame
<1>30. \A d \in Conns : ConnShape(d)'
  BY <1>28, <1>29
<1> QED
  BY <1>10, <1>15, <1>16, <1>17, <1>18, <1>19, <1>30 DEF JobsInv

\* The accept callback runs for a listen job, and so for an acceptor.
LEMMA AcceptHere ==
    ASSUME LoopsInv, StreamInv, JobsInv, cb.pc = "accept"
    PROVE  /\ cb.obj \in Acceptors /\ cb.obj \notin Conns /\ call[0] = NoCall
           /\ cli # NoFd /\ cb.obj = bind[cur[0].job].obj
<1>1. pc[0] = "accept" /\ cli # NoFd
  BY DEF JobsInv, CbShape
<1>2. cur[0].job \in Alive /\ cb.obj = bind[cur[0].job].obj
  BY CbWhere DEF None
<1>3. job[cur[0].job].kind = "listen"
  BY <1>1 DEF JobsInv, CurShape
<1>4. cb.obj \in Acceptors
  BY <1>2, <1>3 DEF JobsInv, BindShape
<1>5. call[0] = NoCall
  BY NoCallInCallback DEF UserCode, None
<1> QED
  BY <1>1, <1>2, <1>4, <1>5, NamesAssumption

LEMMA AcceptRefuseJobs ==
    ASSUME LoopsInv, StreamInv, JobsInv, accept_refuse
    PROVE  JobsInv' /\ Lawful
<1>1. /\ cb.pc = "accept" /\ cli' = NoFd /\ CbGoto("done")
      /\ UNCHANGED <<vars, conn, acc, regLock, call, bind>>
  BY DEF accept_refuse
<1>2. PICK c : c = cb.obj
  OBVIOUS
<1>3. c \notin Conns /\ call[0] = NoCall /\ c = bind[cur[0].job].obj
  BY <1>1, <1>2, AcceptHere
<1>4. cb'.pc = "done" /\ cb'.obj = c
  BY <1>1, <1>2, CbGotoFacts
<1>5. /\ BindShape' /\ Stays /\ NoneDeleted /\ Alive' = Alive /\ half' = half /\ LibStep
      /\ \A d : JobsSame(d) /\ JobsHeld(d)
      /\ UNCHANGED <<pc, cur, dels>>
  BY <1>1, VarsKept
<1>6. Lawful
  BY <1>1, <1>5, LawfulStays DEF vars
<1>7. CbShape'
  BY <1>1, <1>3, <1>4, <1>5 DEF CbShape, ConnCbPcs, SendCbPcs, ConnectCbPcs, None
<1>8. CurShape'
  BY <1>1, <1>5 DEF JobsInv, CurShape, vars
<1>9. CbAbout(c)
  BY <1>2, <1>4 DEF CbAbout
<1>10. \A j \in Alive' : bind'[j].obj \in Acceptors => j \in Alive
  BY <1>5
<1>11. JobsInv'
  BY <1>1, <1>3, <1>4, <1>5, <1>7, <1>8, <1>9, <1>10, CbMoves DEF CoreSame
<1> QED
  BY <1>6, <1>11

LEMMA AcceptHandleJobs ==
    ASSUME LoopsInv, StreamInv, JobsInv, NEW c \in Conns, accept_handle(c)
    PROVE  JobsInv' /\ Lawful
<1>1. /\ cb.pc = "accept" /\ conn[c].mem = None /\ cli' = NoFd /\ CbGoto("done")
      /\ Enters(0, "addread", c)
      /\ UNCHANGED <<vars, acc, regLock, bind>>
  BY DEF accept_handle, Enters
<1>2. PICK async \in Modes : conn' = [conn EXCEPT ![c] = NewConn(cli, async)]
  BY DEF accept_handle
<1>3. /\ cb.obj \in Acceptors /\ cb.obj \notin Conns /\ call[0] = NoCall /\ cli # NoFd
      /\ cb.obj = bind[cur[0].job].obj
  BY <1>1, AcceptHere
<1>4. PICK q : /\ q = NewConn(cli, async) /\ q.mem = "live" /\ q.fd = cli
               /\ ~q.dialed /\ ~q.cn /\ ~q.freed
  <2>1. cli \in FdOrNone /\ async \in BOOLEAN
    BY ModesAssumption DEF StreamInv, StreamType
  <2> QED
    BY <1>3, <2>1, NewConnFields
<1>5. /\ call'[0].pc = "addread" /\ call'[0].obj = c /\ OneCall(0) /\ 0 \in Actors
      /\ cb'.pc = "done" /\ cb'.obj = cb.obj
  BY <1>1, CallsOf, CbGotoFacts, AliveFacts
<1>6. conn' = [conn EXCEPT ![c] = q]
  BY <1>2, <1>4
<1>7. /\ ConnShape(c)' /\ ActorShape(0)' /\ CallAbout(0, c)
      /\ \A d \in Conns : d # c => CoreSame(d)
      /\ \A d \in Conns : d # c => conn'[d].fd = conn[d].fd
      /\ conn'[c].fd = cli
  BY <1>1, <1>3, <1>4, <1>5, <1>6, ConnMade
<1>8. /\ BindShape' /\ Stays /\ NoneDeleted /\ Alive' = Alive /\ half' = half /\ LibStep
      /\ \A d : JobsSame(d) /\ JobsHeld(d)
      /\ UNCHANGED <<pc, cur, dels>>
  BY <1>1, VarsKept
<1>9. Lawful
  BY <1>1, <1>8, LawfulStays DEF vars
<1>10. LockStep(0) /\ call[0].pc # "addset"
  BY <1>1, <1>3 DEF LockStep, NoCall, None
<1>11. AccShape'
  <2>1. \A d \in Conns : conn'[d].fd \in {conn[d].fd, NoFd, cli} \cup Closed
    BY <1>7
  <2> QED
    BY <1>1, <1>8, <2>1, AccKept
<1>12. HalfOf'
  BY <1>5, <1>8, <1>10, HalfKept
<1>13. regLock' = [d \in Conns |-> regLock'[d]] /\ \A a \in Actors : ActorShape(a)'
  BY <1>5, <1>7, <1>10, LocksKept
<1>14. CbShape'
  BY <1>1, <1>3, <1>5, <1>8 DEF CbShape, ConnCbPcs, SendCbPcs, ConnectCbPcs, None
<1>15. CurShape'
  BY <1>1, <1>8 DEF JobsInv, CurShape, vars
<1>16. ASSUME NEW d \in Conns, d # c PROVE ConnShape(d)'
  <2>1. CoreSame(d) /\ CbAbout(c)
    BY <1>3, <1>5, <1>7, <1>16 DEF CbAbout
  <2> QED
    BY <1>5, <1>7, <1>8, <1>16, <2>1, ConnSame
<1>17. \A d \in Conns : ConnShape(d)'
  BY <1>7, <1>16
<1>18. JobsInv'
  BY <1>8, <1>11, <1>12, <1>13, <1>14, <1>15, <1>17 DEF JobsInv
<1> QED
  BY <1>9, <1>18
-----------------------------------------------------------------------------
(***************************************************************************)
(* send_handle registers again; the result of a connect.                   *)
(***************************************************************************)

\* In a callback of send_handle, or before that of a connect, the connection has
\* the loop's current job, and no other.
LEMMA SendingHere ==
    ASSUME LoopsInv, StreamInv, JobsInv, cb.pc \in SendCbPcs \cup {"connect"}
    PROVE  \E j \in Alive :
             /\ j = cur[0].job /\ bind[j].obj = cb.obj /\ ~job[j].del
             /\ \A k \in Alive : bind[k].obj = cb.obj => k = j
             /\ JobShape(cb.obj, j)
             /\ cb.obj \in Conns /\ ConnShape(cb.obj) /\ ConnCbShape(cb.obj)
             /\ ~conn[cb.obj].freed /\ conn[cb.obj].fd # NoFd /\ Usable(cb.obj)
             /\ call[0] = NoCall
<1>0. cb.pc \in ConnCbPcs /\ ~UserCode
  BY DEF ConnCbPcs, SendCbPcs, ConnectCbPcs, UserCode, None
<1>1. PICK j \in Alive : j = cur[0].job /\ bind[j].obj = cb.obj
  BY <1>0, CbInConns
<1>2. cb.obj \in Conns /\ ConnShape(cb.obj) /\ ConnCbShape(cb.obj)
  BY <1>0, CbInConns
<1>3. ~job[j].del
  BY <1>1 DEF JobsInv, CbShape
<1>4. \A k \in Alive : bind[k].obj = cb.obj => k = j
  BY <1>1, <1>2, OnlyJob
<1>5. JobShape(cb.obj, j)
  BY <1>1, <1>2 DEF ConnShape
<1>6. ~conn[cb.obj].freed /\ conn[cb.obj].fd # NoFd
  BY <1>2, <1>5, AliveFacts DEF ConnCbShape, JobShape
<1>7. Usable(cb.obj)
  BY <1>3, <1>4 DEF Usable
<1>8. call[0] = NoCall
  BY <1>0, NoCallInCallback
<1> QED
  BY <1>1, <1>2, <1>3, <1>4, <1>5, <1>6, <1>7, <1>8

\* The loop is in no call, and stays out of calls.
LEMMA LoopNotCalling ==
    ASSUME LoopsInv, JobsInv, call[0] = NoCall, call' = call, regLock' = regLock, NEW c \in Conns
    PROVE  /\ OneCall(0) /\ CallAbout(0, c) /\ LockStep(0) /\ ActorShape(0)'
           /\ call[0].pc # "addset" /\ call'[0].obj # c /\ 0 \in Actors
           /\ \A ps : InLoop(c, ps)' <=> InLoop(c, ps)
           /\ \A ps : InLoop(c, ps) => FALSE
<1>1. 0 \in Actors /\ c # None /\ call[0].obj = None /\ call[0].pc = None
  BY AliveFacts, NamesAssumption DEF None, NoCall
<1>2. ActorShape(0)'
  BY <1>1 DEF ActorShape, LockPcs, FreeConnPcs, InitPcs, None
<1>3. \A ps : (InLoop(c, ps)' <=> InLoop(c, ps)) /\ (InLoop(c, ps) => FALSE)
  BY <1>1 DEF InLoop
<1> QED
  BY <1>1, <1>2, <1>3 DEF OneCall, CallAbout, LockStep, None

LEMMA SendAgainJobs ==
    ASSUME LoopsInv, StreamInv, JobsInv, KeepsEvent, "ctlSpace" \in Rules, send_handle_again
    PROVE  JobsInv' /\ Lawful
<1>1. PICK c : c = cb.obj
  OBVIOUS
<1>2. /\ cb.pc = "again" /\ AddWrite(0, c, "send")
      /\ UNCHANGED <<conn, regLock, call, acc, cli>>
  BY <1>1 DEF send_handle_again, ConnKeeps
<1>3. /\ c \in Conns /\ ConnShape(c) /\ ConnCbShape(c) /\ ~conn[c].freed
      /\ conn[c].fd # NoFd /\ Usable(c) /\ call[0] = NoCall
  BY <1>1, <1>2, SendingHere DEF SendCbPcs
<1>4. /\ OneCall(0) /\ CallAbout(0, c) /\ LockStep(0) /\ ActorShape(0)'
      /\ call[0].pc # "addset" /\ call'[0].obj # c /\ 0 \in Actors
      /\ \A ps : InLoop(c, ps)' <=> InLoop(c, ps)
      /\ \A ps : InLoop(c, ps) => FALSE
  BY <1>2, <1>3, LoopNotCalling
<1>5. AddsWrite(c, "send") /\ LibStep
  BY <1>2, <1>3, <1>4, AddWriteKind
<1>6. CallKeeps(c) /\ NoneDeleted /\ half' = half /\ WriteAdded(c)
  BY <1>3, <1>5, AddsWriteKeeps
<1>7. CbGoto("againflag")
  BY <1>1, <1>6 DEF send_handle_again
<1>8. cb'.pc = "againflag" /\ cb'.obj = c
  BY <1>1, <1>7, CbGotoFacts
<1>9. Unconnected(c)' <=> Unconnected(c)
  BY <1>2, <1>8 DEF Unconnected, InCb
<1>10. WrKnown(c)' /\ (RdKnown(c) => RdKnown(c)')
  BY <1>2, <1>4, <1>8 DEF WrKnown, InCb, RdKnown
<1>11. ASSUME NEW b \in Actors, call'[b].obj = c PROVE CallShape(c, b)'
  BY <1>2, <1>3, <1>4, <1>9, <1>11, OtherCalls
<1>12. ConnCbShape(c)'
  BY <1>2, <1>3, <1>8 DEF ConnCbShape
<1>13. ~InLoop(c, {"addconn"})'
  BY <1>4
<1>14. ConnShape(c)'
  BY <1>2, <1>3, <1>4, <1>5, <1>9, <1>10, <1>11, <1>12, <1>13, WriteAddedShape
<1>15. HalfOf'
  BY <1>4, <1>6, HalfKept DEF CallKeeps
<1>16. \A d \in Conns : conn'[d].fd = conn[d].fd /\ CoreSame(d)
  BY <1>2 DEF CoreSame
<1>17. /\ "againflag" \in ConnCbPcs \cup {"done"} /\ cb.pc \in SendCbPcs /\ cb.pc \in ConnCbPcs
       /\ call'[0] = NoCall
  BY <1>2, <1>3 DEF ConnCbPcs, SendCbPcs
<1>18. JobsInv'
  BY <1>1, <1>2, <1>3, <1>4, <1>6, <1>7, <1>14, <1>15, <1>16, <1>17, CallbackStep DEF CallKeeps
<1> QED
  BY <1>6, <1>18 DEF CallKeeps

LEMMA SendAgainFlagJobs ==
    ASSUME LoopsInv, StreamInv, JobsInv, send_handle_flag
    PROVE  JobsInv' /\ Lawful
<1>1. PICK c : c = cb.obj
  OBVIOUS
<1>2. /\ cb.pc = "againflag" /\ CbGoto("done") /\ conn' = [conn EXCEPT ![c].wr = TRUE]
      /\ UNCHANGED <<vars, bind, cli, acc, call, regLock>>
  BY <1>1 DEF send_handle_flag, CbKeeps
<1>3. c \in Conns /\ ConnShape(c) /\ ConnCbShape(c) /\ call[0] = NoCall
  BY <1>1, <1>2, SendingHere DEF SendCbPcs
<1>4. /\ OneCall(0) /\ CallAbout(0, c) /\ LockStep(0) /\ ActorShape(0)'
      /\ call'[0].obj # c /\ 0 \in Actors
      /\ \A ps : InLoop(c, ps)' <=> InLoop(c, ps)
  BY <1>2, <1>3, LoopNotCalling
<1>5. cb'.pc = "done" /\ cb'.obj = c
  BY <1>1, <1>2, CbGotoFacts
<1>6. FlagsNow(c, conn[c].rd, TRUE, conn[c].cn, conn[c].up, conn[c].freed)
  BY <1>2, <1>3, FlagSets
<1>7. Unconnected(c)' <=> Unconnected(c)
  BY <1>2, <1>5, <1>6 DEF Unconnected, InCb, FlagsNow
<1>8. WrKnown(c)' /\ (RdKnown(c) => RdKnown(c)')
  BY <1>4, <1>6 DEF WrKnown, RdKnown, FlagsNow
<1>9. Follows(c)
  BY <1>3, <1>4, <1>6, <1>7, <1>8 DEF Follows, FlagsNow, ConnShape
<1>10. ConnCbShape(c)'
  BY <1>3, <1>5, <1>6 DEF ConnCbShape, FlagsNow, SendCbPcs
<1>11. ConnShape(c)'
  BY <1>2, <1>3, <1>4, <1>9, <1>10, VarsKept, ConnFollows
<1>12. \A d \in Conns : conn'[d].fd = conn[d].fd /\ (d # c => CoreSame(d))
  BY <1>6 DEF FlagsNow, CoreSame
<1>13. cb.pc \in ConnCbPcs /\ "done" \notin SendCbPcs \cup {"connect"}
  BY <1>2 DEF ConnCbPcs, SendCbPcs
<1> QED
  BY <1>1, <1>2, <1>3, <1>4, <1>11, <1>12, <1>13, OwnCallbackStep

\* connect_handle(true): from here on the connection counts as connected, and it
\* is registered for reading next.
LEMMA ConnectedJobs ==
    ASSUME LoopsInv, StreamInv, JobsInv, NEW c \in Conns, c = cb.obj, cb.pc = "connect",
           CbGoto("conn_ok"), Enters(0, "addread", c),
           UNCHANGED <<vars, conn, bind, cli, acc, regLock>>
    PROVE  JobsInv' /\ Lawful
<1>1. PICK j \in Alive :
        /\ bind[j].obj = c /\ ~job[j].del /\ JobShape(c, j)
        /\ \A k \in Alive : bind[k].obj = c => k = j
        /\ ConnShape(c) /\ ConnCbShape(c) /\ ~conn[c].freed /\ conn[c].fd # NoFd
        /\ call[0] = NoCall
  BY SendingHere
<1>2. call'[0].pc = "addread" /\ call'[0].obj = c /\ OneCall(0) /\ 0 \in Actors
  BY CallsOf, AliveFacts
<1>3. cb'.pc = "conn_ok" /\ cb'.obj = c
  BY CbGotoFacts
<1>4. call[0].obj = None /\ call[0].pc = None /\ c # None
  BY <1>1, NamesAssumption DEF NoCall, None
<1>5. CallAbout(0, c) /\ LockStep(0)
  BY <1>2, <1>4 DEF CallAbout, LockStep
<1>6. ActorShape(0)'
  BY <1>2 DEF ActorShape, ConnPcs, InitPcs, LockPcs, FreeConnPcs
<1>7. ~Unconnected(c)'
  BY <1>3 DEF Unconnected, InCb
<1>8. RdKnown(c) => RdKnown(c)'
  BY <1>2, <1>4 DEF RdKnown, InLoop
<1>9. WrKnown(c) => WrKnown(c)'
  BY <1>2, <1>4 DEF WrKnown, InCb, OneCall
<1>10. InLoop(c, {"addread", "addset"})' /\ ~InLoop(c, {"addconn"})'
  BY <1>2 DEF InLoop
<1>11. Alive' = Alive
  BY VarsKept
<1>12. JobShape(c, j)'
  BY <1>1, <1>7, <1>8, <1>9, <1>10 DEF JobShape, vars
<1>13. HasJob(c)'
  BY <1>1, <1>11 DEF HasJob
<1>14. ASSUME NEW b \in Actors, call'[b].obj = c PROVE CallShape(c, b)'
  <2>1. CASE b = 0
    BY <1>1, <1>2, <1>7, <2>1 DEF CallShape, ConnShape, InitPcs, FreeConnPcs, SendPcs
  <2>2. CASE b # 0
    <3>1. call'[b] = call[b] /\ CallShape(c, b) /\ ActorShape(b)
      BY <1>1, <1>2, <1>14, <2>2 DEF OneCall, ConnShape, JobsInv
    <3>2. call[b].pc # "addconn"
      BY <2>2, <3>1 DEF ActorShape, InitPcs
    <3> QED
      BY <1>7, <3>1, <3>2 DEF CallShape
  <2> QED
    BY <2>1, <2>2
<1>15. ConnCbShape(c)'
  BY <1>1, <1>3 DEF ConnCbShape, SendCbPcs
<1>16. ConnShape(c)'
  BY <1>1, <1>11, <1>12, <1>13, <1>14, <1>15 DEF ConnShape
<1>17. \A d \in Conns : conn'[d].fd = conn[d].fd /\ CoreSame(d)
  BY DEF CoreSame
<1>18. cb.pc \in ConnCbPcs /\ "conn_ok" \in ConnCbPcs /\ "conn_ok" \notin SendCbPcs \cup {"connect"}
  BY DEF ConnCbPcs, ConnectCbPcs, SendCbPcs
<1> QED
  BY <1>1, <1>5, <1>6, <1>16, <1>17, <1>18, OwnCallbackStep

LEMMA ConnectResultJobs ==
    ASSUME LoopsInv, StreamInv, JobsInv, connect_result
    PROVE  JobsInv' /\ Lawful
<1>1. PICK c : c = cb.obj
  OBVIOUS
<1>2. cb.pc = "connect" /\ UNCHANGED <<vars, conn, bind, cli, acc, regLock>>
  BY DEF connect_result, ConnKeeps
<1>3. c \in Conns /\ call[0] = NoCall
  BY <1>1, <1>2, SendingHere
<1>4. CASE CbGoto("conn_ok") /\ Enters(0, "addread", c)
  BY <1>1, <1>2, <1>3, <1>4, ConnectedJobs
<1>5. CASE CbGoto("conn_bad") /\ call' = call
  <2>1. \A d \in Conns : CoreSame(d)
    BY <1>2 DEF CoreSame
  <2>2. /\ cb.pc \in ConnCbPcs \ {"conn_ok", "againflag"}
        /\ "conn_bad" \in (ConnCbPcs \cup {"done"}) \ {"conn_ok", "againflag"}
        /\ "conn_bad" \notin SendCbPcs \cup {"connect"}
    BY <1>2 DEF ConnCbPcs, ConnectCbPcs, SendCbPcs
  <2> QED
    BY <1>1, <1>2, <1>3, <1>5, <2>1, <2>2, CoreCallback
<1> QED
  BY <1>1, <1>4, <1>5 DEF connect_result, Enters

LEMMA ConnectReturnsJobs ==
    ASSUME LoopsInv, StreamInv, JobsInv, connect_handle_returns
    PROVE  JobsInv' /\ Lawful
<1>1. PICK c : c = cb.obj
  OBVIOUS
<1>2. /\ cb.pc \in {"conn_ok", "conn_bad"} /\ call[0] = NoCall /\ CbGoto("cleanup")
      /\ UNCHANGED <<vars, bind, cli, acc, call, regLock>>
  BY DEF connect_handle_returns, CbKeeps
<1>3. PICK up : up = (conn[c].up \/ cb.pc = "conn_ok")
  OBVIOUS
<1>4. conn' = [conn EXCEPT ![c].up = up]
  BY <1>1, <1>3 DEF connect_handle_returns
<1>5. cb.pc \in ConnCbPcs /\ "cleanup" \in ConnCbPcs /\ "cleanup" \notin SendCbPcs \cup {"connect"}
  BY <1>2 DEF ConnCbPcs, ConnectCbPcs, SendCbPcs
<1>6. c \in Conns /\ ConnShape(c) /\ ConnCbShape(c)
  BY <1>1, <1>5, CbInConns
<1>7. /\ OneCall(0) /\ CallAbout(0, c) /\ LockStep(0) /\ ActorShape(0)'
      /\ call'[0].obj # c /\ 0 \in Actors
      /\ \A ps : InLoop(c, ps)' <=> InLoop(c, ps)
  BY <1>2, <1>6, LoopNotCalling
<1>8. cb'.pc = "cleanup" /\ cb'.obj = c
  BY <1>1, <1>2, CbGotoFacts
<1>9. FlagsNow(c, conn[c].rd, conn[c].wr, conn[c].cn, up, conn[c].freed)
  BY <1>4, <1>6, FlagSets
<1>10. Unconnected(c)' <=> Unconnected(c)
  BY <1>1, <1>3, <1>8, <1>9 DEF Unconnected, InCb, FlagsNow
<1>11. (WrKnown(c) => WrKnown(c)') /\ (RdKnown(c) => RdKnown(c)')
  BY <1>2, <1>7, <1>9 DEF WrKnown, RdKnown, FlagsNow, InCb
<1>12. Follows(c)
  BY <1>6, <1>7, <1>9, <1>10, <1>11 DEF Follows, FlagsNow, ConnShape
<1>13. ConnCbShape(c)'
  BY <1>6, <1>8, <1>9 DEF ConnCbShape, FlagsNow, SendCbPcs
<1>14. ConnShape(c)'
  BY <1>2, <1>6, <1>7, <1>12, <1>13, VarsKept, ConnFollows
<1>15. \A d \in Conns : conn'[d].fd = conn[d].fd /\ (d # c => CoreSame(d))
  BY <1>9 DEF FlagsNow, CoreSame
<1> QED
  BY <1>1, <1>2, <1>5, <1>6, <1>7, <1>14, <1>15, OwnCallbackStep

\* unregister_connect deletes the job of a connect that has failed, and only the
\* write interest of one that has not.
LEMMA UnregisterConnectJobs ==
    ASSUME LoopsInv, StreamInv, JobsInv, KeepsEvent, unregister_connect
    PROVE  JobsInv' /\ Lawful
<1>1. PICK c : c = cb.obj
  OBVIOUS
<1>2. /\ cb.pc = "unreg" /\ DelWrite(0, c) /\ CbGoto("done")
      /\ conn' = [conn EXCEPT ![c].cn = FALSE]
      /\ UNCHANGED <<bind, cli, acc, call, regLock>>
  BY <1>1 DEF unregister_connect, CbKeeps
<1>3. cb.pc \in ConnCbPcs /\ "done" \notin SendCbPcs \cup {"connect"} /\ ~UserCode
  BY <1>2 DEF ConnCbPcs, ConnectCbPcs, SendCbPcs, UserCode, None
<1>4. c \in Conns /\ ConnShape(c) /\ ConnCbShape(c) /\ call[0] = NoCall
  BY <1>1, <1>3, CbInConns, NoCallInCallback
<1>5. /\ OneCall(0) /\ CallAbout(0, c) /\ LockStep(0) /\ ActorShape(0)'
      /\ call[0].pc # "addset" /\ call'[0].obj # c /\ 0 \in Actors
      /\ \A ps : InLoop(c, ps)' <=> InLoop(c, ps)
      /\ \A ps : InLoop(c, ps) => FALSE
  BY <1>2, <1>4, LoopNotCalling
<1>6. cb'.pc = "done" /\ cb'.obj = c
  BY <1>1, <1>2, CbGotoFacts
<1>7. DelsWr(c, "W", "R") /\ LibStep
  BY <1>2, <1>4, <1>5, DelWrKinds
<1>8. /\ CallKeeps(c) /\ Alive' = Alive /\ half' = half
      /\ \A j \in Alive : bind[j].obj = c => DelLeaves(j, "W", "R")
  BY <1>2, <1>4, <1>7, DelKeeps
<1>9. FlagsNow(c, conn[c].rd, conn[c].wr, FALSE, conn[c].up, conn[c].freed)
  BY <1>2, <1>4, FlagSets
<1>10. Unconnected(c)' <=> Unconnected(c)
  BY <1>2, <1>6, <1>9 DEF Unconnected, InCb, FlagsNow
<1>11. RdKnown(c) => RdKnown(c)'
  BY <1>5, <1>9 DEF RdKnown, FlagsNow
<1>12. ASSUME NEW j \in Alive', bind'[j].obj = c PROVE JobShape(c, j)'
  <2>1. JobShape(c, j) /\ DelLeaves(j, "W", "R")
    BY <1>2, <1>4, <1>8, <1>12 DEF ConnShape
  <2>2. job'[j].fd = conn'[c].fd
    BY <1>9, <2>1 DEF JobShape, DelLeaves, FlagsNow
  <2>3. job'[j].del => conn'[c].freed \/ Unconnected(c)'
    BY <1>5, <1>9, <1>10, <2>1 DEF JobShape, DelLeaves, FlagsNow
  <2>4. ~job'[j].del => "W" \notin job'[j].ev /\ "R" \in job'[j].ev /\ RdKnown(c)'
    BY <1>11, <2>1 DEF JobShape, DelLeaves
  <2>5. ~Unconnected(c)' /\ ~conn'[c].freed => "R" \in job'[j].ev
    BY <1>5, <1>9, <1>10, <2>1 DEF JobShape, DelLeaves, FlagsNow
  <2>6. conn'[c].freed => job'[j].del
    BY <1>5, <1>9, <2>1 DEF JobShape, DelLeaves, FlagsNow
  <2>7. ~InLoop(c, {"addconn"})'
    BY <1>5
  <2> QED
    BY <2>2, <2>3, <2>4, <2>5, <2>6, <2>7 DEF JobShape
<1>13. HasJob(c)'
  <2>1. InLoop(c, {"addread"}) => InLoop(c, {"addread"})'
    BY <1>5
  <2> QED
    BY <1>2, <1>4, <1>8, <1>9, <1>10, <2>1 DEF HasJob, ConnShape, FlagsNow
<1>14. ASSUME NEW b \in Actors, call'[b].obj = c PROVE CallShape(c, b)'
  BY <1>4, <1>5, <1>9, <1>10, <1>14, OtherCalls DEF FlagsNow
<1>15. ConnCbShape(c)'
  BY <1>4, <1>6, <1>9 DEF ConnCbShape, FlagsNow, SendCbPcs
<1>16. ConnShape(c)'
  BY <1>4, <1>9, <1>12, <1>13, <1>14, <1>15 DEF ConnShape, FlagsNow
<1>17. HalfOf'
  BY <1>5, <1>8, HalfKept DEF CallKeeps
<1>18. \A d \in Conns : conn'[d].fd = conn[d].fd /\ (d # c => CoreSame(d))
  BY <1>9 DEF FlagsNow, CoreSame
<1>19. JobsInv'
  BY <1>1, <1>2, <1>3, <1>4, <1>5, <1>8, <1>16, <1>17, <1>18, CallbackStep DEF CallKeeps
<1> QED
  BY <1>8, <1>19 DEF CallKeeps
-----------------------------------------------------------------------------
(***************************************************************************)
(* The free callbacks.                                                     *)
(***************************************************************************)
LEMMA FlushJobs ==
    ASSUME LoopsInv, StreamInv, JobsInv, free_async_write_resource
    PROVE  JobsInv' /\ Lawful
<1>1. PICK c : c = bind[First(dels[0])].obj
  OBVIOUS
<1>2. /\ pc[0] \in FreePcs /\ cb.pc = None /\ c \in Conns
      /\ cb' = [pc |-> "close", obj |-> c]
      /\ UNCHANGED <<vars, acc, regLock, call, cli, bind>>
  BY <1>1 DEF free_async_write_resource
<1>3. \A d \in Conns : CoreSame(d)
  BY <1>1, <1>2, DataSets DEF free_async_write_resource
<1>4. call[0] = NoCall /\ cb.obj = None
  BY <1>2, NoCallInLoop DEF FreePcs
<1>5. cb'.pc = "close" /\ cb'.obj = c
  BY <1>2
<1>6. First(dels[0]) \in Alive
  BY <1>2, CurAlive
<1>7. conn[c].mem = "live"
  BY <1>1, <1>2, <1>6, AliveFacts DEF JobsInv, ConnShape, JobShape
<1>8. /\ BindShape' /\ Stays /\ NoneDeleted /\ Alive' = Alive /\ half' = half /\ LibStep
      /\ \A d : JobsSame(d) /\ JobsHeld(d)
      /\ UNCHANGED <<pc, cur, dels>>
  BY <1>2, VarsKept
<1>9. Lawful
  BY <1>2, <1>8, LawfulStays DEF vars
<1>10. CbShape'
  BY <1>1, <1>2, <1>4, <1>5, <1>8 DEF CbShape, ConnCbPcs, SendCbPcs, ConnectCbPcs, None
<1>11. CurShape'
  BY <1>2, <1>8 DEF JobsInv, CurShape, vars
<1>12. ConnCbShape(c)'
  BY <1>2, <1>3, <1>5, <1>7 DEF ConnCbShape, CoreSame, SendCbPcs
<1>13. CbAbout(c) /\ cb.pc \notin {"conn_ok", "againflag"} /\ cb'.pc \notin {"conn_ok", "againflag"}
  BY <1>2, <1>4, <1>5 DEF CbAbout, None
<1>14. \A j \in Alive' : bind'[j].obj \in Acceptors => j \in Alive
  BY <1>8
<1>15. JobsInv'
  BY <1>2, <1>3, <1>4, <1>8, <1>10, <1>11, <1>12, <1>13, <1>14, CbMoves
<1> QED
  BY <1>9, <1>15

\* The loop frees a job.
LEMMA JobFreed ==
    ASSUME LoopsInv, StreamInv, JobsInv, KeepsEvent, FreeJob(0), bind' = bind,
           NEW j, j = First(dels[0])
    PROVE  /\ j \in Alive /\ Alive' = Alive \ {j} /\ job' = job /\ half' = half
           /\ BindShape' /\ Stays /\ Lawful /\ CurShape'
           /\ \A d : d # bind[j].obj => JobsSame(d) /\ JobsHeld(d)
           /\ \A k \in Alive' : bind'[k].obj \in Acceptors => k \in Alive
<1>1. 0 \in Loops /\ MemInv /\ pc[0] \in FreePcs
  BY AliveFacts DEF FreeJob
<1>2. j \in dels[0] /\ j \in Alive /\ j \notin freed
  BY <1>1, CurAlive DEF Alive
<1>3. LibStep
  BY <1>1, LoopIsNext DEF Loop, LoopsInv, NoAbort
<1>4. FreedByUser
  BY <1>1, FreeSetSafe DEF LoopsInv
<1>5. job[j].free # "null" /\ ~FreeFails(0)
  BY <1>1, <1>2, <1>4 DEF FreedByUser, FreeFails
<1>6. freed' = freed \cup {j}
  BY <1>5 DEF FreeJob
<1>7. PICK k \in dels[0] : Frees(0, k)
  BY <1>1, <1>3, <1>5, FreesKind, LibTypes
<1>8. Frees(0, j)
  <2>1. k \notin freed
    BY <1>1 DEF MemInv, OwnedOnce
  <2>2. freed' = freed \cup {k}
    BY <1>7 DEF Frees
  <2>3. k = j
    BY <1>6, <2>1, <2>2
  <2> QED
    BY <1>7, <2>3
<1>9. /\ UNCHANGED <<njobs, job, half, lateDel, cur, aborted>>
      /\ pc'[0] \in {pc[0], "wait", "exit"}
  BY <1>8 DEF Frees
<1>10. Alive' = Alive \ {j} /\ \A d : JobsSame(d)
  BY <1>8, OneFreed
<1>11. \A d : d # bind[j].obj => JobsHeld(d)
  BY <1>10 DEF JobsHeld
<1>12. Stays
  BY <1>9 DEF Stays, FieldsStay
<1>13. BindShape'
  BY <1>10, <1>12, BindKept DEF JobsInv, BindShape
<1>14. Lawful
  BY <1>3, <1>9, LawfulStays
<1>15. CurShape'
  BY <1>1, <1>9 DEF CurShape, FreePcs
<1>16. \A i \in Alive' : bind'[i].obj \in Acceptors => i \in Alive
  BY <1>10
<1> QED
  BY <1>2, <1>9, <1>10, <1>11, <1>12, <1>13, <1>14, <1>15, <1>16

LEMMA FreeCloseJobs ==
    ASSUME LoopsInv, StreamInv, JobsInv, KeepsEvent, free_close
    PROVE  JobsInv' /\ Lawful
<1>1. PICK c : c = cb.obj
  OBVIOUS
<1>2. PICK j : j = First(dels[0])
  OBVIOUS
<1>3. /\ cb.pc = "close" /\ FreeJob(0) /\ conn' = [conn EXCEPT ![c].fd = NoFd]
      /\ CbGoto("delete") /\ UNCHANGED <<acc, regLock, call, cli, bind>>
  BY <1>1 DEF free_close, CbKeeps
<1>4. c \in Conns /\ ConnShape(c) /\ ConnCbShape(c) /\ conn[c].mem = "live"
  BY <1>1, <1>3, CbInConns
<1>5. call[0] = NoCall
  BY <1>3, NoCallInCallback DEF UserCode, None
<1>6. bind[j].obj = c
  BY <1>1, <1>2, <1>3 DEF JobsInv, CbShape
<1>7. /\ j \in Alive /\ Alive' = Alive \ {j} /\ job' = job /\ half' = half
      /\ BindShape' /\ Stays /\ Lawful /\ CurShape'
      /\ \A d : d # c => JobsSame(d) /\ JobsHeld(d)
      /\ \A k \in Alive' : bind'[k].obj \in Acceptors => k \in Alive
  BY <1>2, <1>3, <1>6, JobFreed
<1>8. /\ OneCall(0) /\ CallAbout(0, c) /\ LockStep(0) /\ ActorShape(0)'
      /\ call[0].pc # "addset" /\ call'[0].obj # c /\ 0 \in Actors
  BY <1>3, <1>4, <1>5, LoopNotCalling
<1>9. cb'.pc = "delete" /\ cb'.obj = c
  BY <1>1, <1>3, CbGotoFacts
<1>10. \A k \in Alive' : bind'[k].obj # c
  BY <1>3, <1>4, <1>6, <1>7, OnlyJob
<1>11. /\ conn'[c].fd = NoFd /\ conn'[c].mem = conn[c].mem /\ conn'[c].freed = conn[c].freed
       /\ conn'[c].cn = conn[c].cn /\ conn'[c].dialed = conn[c].dialed
       /\ conn'[c].up = conn[c].up /\ conn'[c].rd = conn[c].rd
       /\ \A d \in Conns : d # c => CoreSame(d)
       /\ \A d \in Conns : conn'[d].fd \in {conn[d].fd, NoFd}
  <2>1. PICK k \in ConnRec : k = conn[c]
    BY <1>4 DEF StreamInv, StreamType
  <2>2. PICK r : r = [k EXCEPT !.fd = NoFd]
    OBVIOUS
  <2>3. conn = [d \in Conns |-> conn[d]] /\ conn' = [conn EXCEPT ![c] = r]
    BY <1>3, <1>4, <2>1, <2>2 DEF StreamInv, StreamType
  <2>4. /\ r.fd = NoFd /\ r.mem = k.mem /\ r.freed = k.freed /\ r.cn = k.cn
        /\ r.dialed = k.dialed /\ r.up = k.up /\ r.rd = k.rd
    BY <2>2 DEF ConnRec
  <2>5. conn'[c] = r /\ \A d \in Conns : d # c => conn'[d] = conn[d]
    BY <1>4, <2>3
  <2> QED
    BY <2>1, <2>4, <2>5 DEF CoreSame
<1>12. Unconnected(c)' <=> Unconnected(c)
  BY <1>3, <1>9, <1>11 DEF Unconnected, InCb
<1>13. ASSUME NEW b \in Actors, call'[b].obj = c PROVE CallShape(c, b)'
  <2>1. b # 0 /\ call'[b] = call[b] /\ CallShape(c, b) /\ ActorShape(b)
    BY <1>3, <1>4, <1>8, <1>13 DEF ConnShape, JobsInv
  <2>2. call[b].pc \notin InitPcs
    BY <2>1 DEF ActorShape
  <2> QED
    BY <1>11, <1>12, <2>1, <2>2 DEF CallShape, InitPcs
<1>14. ConnCbShape(c)'
  BY <1>4, <1>9, <1>11 DEF ConnCbShape, SendCbPcs
<1>15. ConnShape(c)'
  BY <1>4, <1>10, <1>11, <1>13, <1>14 DEF ConnShape, HasJob
<1>16. ASSUME NEW d \in Conns, d # c PROVE ConnShape(d)'
  <2>1. CoreSame(d) /\ CbAbout(c)
    BY <1>1, <1>9, <1>11, <1>16 DEF CbAbout
  <2> QED
    BY <1>7, <1>8, <1>16, <2>1, ConnSame
<1>17. AccShape'
  BY <1>3, <1>7, <1>11, AccKept
<1>18. HalfOf'
  BY <1>7, <1>8, HalfKept
<1>19. regLock' = [d \in Conns |-> regLock'[d]] /\ \A a \in Actors : ActorShape(a)'
  BY <1>8, LocksKept
<1>20. CbShape'
  BY <1>3, <1>5, <1>9 DEF CbShape, ConnCbPcs, SendCbPcs, ConnectCbPcs, None
<1>21. \A d \in Conns : ConnShape(d)'
  BY <1>15, <1>16
<1>22. JobsInv'
  BY <1>7, <1>17, <1>18, <1>19, <1>20, <1>21 DEF JobsInv
<1> QED
  BY <1>7, <1>22

LEMMA FreeHandleJobs ==
    ASSUME LoopsInv, StreamInv, JobsInv, RecvHabits \subseteq Habits, free_handle
    PROVE  JobsInv' /\ Lawful
<1>1. PICK c : c = cb.obj
  OBVIOUS
<1>2. /\ cb.pc = "delete" /\ \A a \in Actors : call[a].obj # c
      /\ conn' = [conn EXCEPT ![c].mem = "gone"] /\ cb' = NoCb
      /\ UNCHANGED <<vars, acc, regLock, call, cli, bind>>
  BY <1>1 DEF free_handle, CbKeeps, RecvHabits, AllHabits, Inside
<1>3. c \in Conns /\ ConnShape(c) /\ ConnCbShape(c)
  BY <1>1, <1>2, CbInConns
<1>4. call[0] = NoCall
  BY <1>2, NoCallInCallback DEF UserCode, None
<1>5. /\ BindShape' /\ Stays /\ NoneDeleted /\ Alive' = Alive /\ half' = half /\ LibStep
      /\ \A d : JobsSame(d) /\ JobsHeld(d)
      /\ UNCHANGED <<pc, cur, dels>>
  BY <1>2, VarsKept
<1>6. Lawful
  BY <1>2, <1>5, LawfulStays DEF vars
<1>7. /\ OneCall(0) /\ CallAbout(0, c) /\ LockStep(0) /\ ActorShape(0)'
      /\ call[0].pc # "addset" /\ 0 \in Actors
  BY <1>2, <1>3, <1>4, LoopNotCalling
<1>8. cb'.pc = None /\ cb'.obj = None /\ None # c
  BY <1>2, <1>3, NamesAssumption DEF NoCb, None
<1>9. conn[c].fd = NoFd /\ \A j \in Alive : bind[j].obj # c
  BY <1>2, <1>3, AliveFacts DEF ConnCbShape, ConnShape, JobShape
<1>10. /\ conn'[c].fd = conn[c].fd /\ conn'[c].cn = conn[c].cn
       /\ conn'[c].dialed = conn[c].dialed
       /\ \A d \in Conns : d # c => CoreSame(d)
       /\ \A d \in Conns : conn'[d].fd = conn[d].fd
  <2>1. PICK k \in ConnRec : k = conn[c]
    BY <1>3 DEF StreamInv, StreamType
  <2>2. PICK r : r = [k EXCEPT !.mem = "gone"]
    OBVIOUS
  <2>3. conn = [d \in Conns |-> conn[d]] /\ conn' = [conn EXCEPT ![c] = r]
    BY <1>2, <1>3, <2>1, <2>2 DEF StreamInv, StreamType
  <2>4. r.fd = k.fd /\ r.cn = k.cn /\ r.dialed = k.dialed
    BY <2>2 DEF ConnRec
  <2>5. conn'[c] = r /\ \A d \in Conns : d # c => conn'[d] = conn[d]
    BY <1>3, <2>3
  <2> QED
    BY <2>1, <2>4, <2>5 DEF CoreSame
<1>11. ConnShape(c)'
  BY <1>2, <1>3, <1>5, <1>8, <1>9, <1>10 DEF ConnShape, HasJob
<1>12. ASSUME NEW d \in Conns, d # c PROVE ConnShape(d)'
  <2>1. CoreSame(d) /\ CbAbout(c)
    BY <1>1, <1>8, <1>10, <1>12 DEF CbAbout
  <2> QED
    BY <1>5, <1>7, <1>12, <2>1, ConnSame
<1>13. AccShape'
  BY <1>2, <1>5, <1>10, AccKept
<1>14. HalfOf'
  BY <1>5, <1>7, HalfKept
<1>15. regLock' = [d \in Conns |-> regLock'[d]] /\ \A a \in Actors : ActorShape(a)'
  BY <1>7, LocksKept
<1>16. CbShape'
  BY <1>2, <1>4, <1>8 DEF CbShape, ConnCbPcs, SendCbPcs, ConnectCbPcs, None
<1>17. CurShape'
  BY <1>2, <1>5 DEF JobsInv, CurShape, vars
<1>18. \A d \in Conns : ConnShape(d)'
  BY <1>11, <1>12
<1>19. JobsInv'
  BY <1>5, <1>13, <1>14, <1>15, <1>16, <1>17, <1>18 DEF JobsInv
<1> QED
  BY <1>6, <1>19

LEMMA AcceptFreedJobs ==
    ASSUME LoopsInv, StreamInv, JobsInv, KeepsEvent, accept_free_callback
    PROVE  JobsInv' /\ Lawful
<1>1. PICK j : j = First(dels[0])
  OBVIOUS
<1>2. PICK x : x = bind[j].obj
  OBVIOUS
<1>3. /\ pc[0] \in FreePcs /\ cb.pc = None /\ x \in Acceptors /\ FreeJob(0)
      /\ acc' = [acc EXCEPT ![x] = [mem |-> "gone", fd |-> NoFd]]
      /\ UNCHANGED <<conn, regLock, call, cb, cli, bind>>
  BY <1>1, <1>2 DEF accept_free_callback
<1>4. call[0] = NoCall /\ cb.obj = None
  BY <1>3, NoCallInLoop DEF FreePcs
<1>5. /\ j \in Alive /\ Alive' = Alive \ {j} /\ job' = job /\ half' = half
      /\ BindShape' /\ Stays /\ Lawful /\ CurShape'
      /\ \A d : d # x => JobsSame(d) /\ JobsHeld(d)
  BY <1>1, <1>2, <1>3, JobFreed
<1>6. /\ OneCall(0) /\ LockStep(0) /\ 0 \in Actors /\ call[0].obj = None /\ call[0].pc = None
      /\ CallAbout(0, x) /\ CbAbout(x)
  BY <1>3, <1>4, AliveFacts DEF OneCall, LockStep, NoCall, CallAbout, CbAbout
<1>7. ActorShape(0)'
  BY <1>3, <1>4, <1>6 DEF ActorShape, LockPcs, FreeConnPcs, InitPcs, None
<1>8. regLock' = [d \in Conns |-> regLock'[d]] /\ \A a \in Actors : ActorShape(a)'
  BY <1>6, <1>7, LocksKept
<1>9. HalfOf'
  BY <1>3, <1>5, <1>6, HalfKept DEF None
<1>10. CbShape'
  BY <1>3, <1>4 DEF CbShape, ConnCbPcs, SendCbPcs, ConnectCbPcs, None
<1>11. ASSUME NEW d \in Conns PROVE ConnShape(d)'
  <2>1. CoreSame(d) /\ d # x
    BY <1>3, NamesAssumption DEF CoreSame
  <2> QED
    BY <1>5, <1>6, <2>1, ConnSame
<1>12. AccShape'
  <2>1. /\ acc \in [Acceptors -> [mem : {None, "live", "gone"}, fd : FdOrNone]]
        /\ \A y \in Acceptors : acc[y].fd # NoFd =>
             /\ acc[y].mem = "live" /\ acc[y].fd # cli
             /\ \A c \in Conns : conn[c].fd # acc[y].fd
             /\ \A z \in Acceptors : acc[z].fd = acc[y].fd => y = z
        /\ \A k \in Alive : bind[k].obj \in Acceptors => job[k].fd = acc[bind[k].obj].fd
    BY DEF JobsInv, AccShape
  <2>2. PICK r : r = [mem |-> "gone", fd |-> NoFd]
    OBVIOUS
  <2>3. r \in [mem : {None, "live", "gone"}, fd : FdOrNone] /\ r.fd = NoFd
    BY <2>2 DEF FdOrNone
  <2>4. acc' = [acc EXCEPT ![x] = r]
    BY <1>3, <2>2
  <2>5. /\ acc' \in [Acceptors -> [mem : {None, "live", "gone"}, fd : FdOrNone]]
        /\ acc'[x].fd = NoFd /\ \A y \in Acceptors : y # x => acc'[y] = acc[y]
    BY <1>3, <2>1, <2>3, <2>4
  <2>6. ASSUME NEW k \in Alive', bind'[k].obj \in Acceptors
        PROVE  job'[k].fd = acc'[bind'[k].obj].fd
    <3>1. k \in Alive /\ k # j
      BY <1>5, <2>6
    <3>2. bind[k].obj # x
      BY <1>2, <1>3, <1>5, <2>1, <3>1, AliveFacts DEF OneJobPerFd
    <3> QED
      BY <1>3, <1>5, <2>1, <2>5, <2>6, <3>1, <3>2
  <2>7. ASSUME NEW y \in Acceptors, acc'[y].fd # NoFd
        PROVE  /\ acc'[y].mem = "live" /\ acc'[y].fd # cli'
               /\ \A c \in Conns : conn'[c].fd # acc'[y].fd
               /\ \A z \in Acceptors : acc'[z].fd = acc'[y].fd => y = z
    BY <1>3, <2>1, <2>5, <2>7
  <2> QED
    BY <2>5, <2>6, <2>7 DEF AccShape
<1>13. JobsInv'
  BY <1>5, <1>8, <1>9, <1>10, <1>11, <1>12 DEF JobsInv
<1> QED
  BY <1>5, <1>13
-----------------------------------------------------------------------------
(***************************************************************************)
(* Together: the invariant, and what follows from it.                      *)
(***************************************************************************)
\* Every object passes thread index 0 to the library.
LEMMA KeepsLoop == KeepsEvent
BY LoopsFacts, ThrdIndexAssumption DEF KeepsEvent

LEMMA JobsInvStep ==
    ASSUME LoopsInv, StreamInv, JobsInv, "ctlSpace" \in Rules,
           RecvHabits \subseteq Habits, [RecvNext]_allVars
    PROVE  JobsInv' /\ Lawful
<1> USE KeepsLoop
<1>1. CASE UNCHANGED allVars
  BY <1>1, NothingMoves DEF allVars
<1>2. ASSUME NEW a \in Actors, Begin(a) PROVE JobsInv' /\ Lawful
  <2>1. CASE \E c \in Conns : send_data(a, c)
    BY <2>1, SendDataJobs
  <2>2. CASE \E c \in Conns : free(a, c)
    BY <2>2, FreeJobs
  <2>3. CASE \E c \in Conns : dial(a, c)
    BY <2>3, DialJobs
  <2>4. CASE \E x \in Acceptors : accept_init(a, x)
    BY <2>4, AcceptInitJobs
  <2>5. CASE \E x \in Acceptors : accept_free(a, x)
    BY <2>5, AcceptFreeJobs
  <2>6. QED BY <1>2, <2>1, <2>2, <2>3, <2>4, <2>5 DEF Begin
<1>3. ASSUME NEW a \in Actors, Continue(a) PROVE JobsInv' /\ Lawful
  <2>1. CASE \/ send_data_lock(a) \/ send_data_flag(a) \/ direct_fd(a)
             \/ direct_write(a) \/ free_unlock(a) \/ register_read_flag(a)
    BY <2>1, OwnCalls
  <2>2. CASE send_data_add(a)
    BY <2>2, SendAddJobs
  <2>3. CASE unregister_read(a)
    BY <2>3, UnregisterReadJobs
  <2>4. CASE unregister_write(a)
    BY <2>4, UnregisterWriteJobs
  <2>5. CASE register_connect(a)
    BY <2>5, RegisterConnectJobs
  <2>6. CASE register_read(a)
    BY <2>6, RegisterReadJobs
  <2>7. CASE accept_free_ctl(a)
    BY <2>7, AcceptFreeCtlJobs
  <2>8. QED
    BY <1>3, <2>1, <2>2, <2>3, <2>4, <2>5, <2>6, <2>7 DEF Continue
<1>4. ASSUME Callback PROVE JobsInv' /\ Lawful
  <2>1. CASE RecvStart \/ AcceptStart
    BY <2>1, StartJobs
  <2>2. CASE WriteStart
    BY <2>2, WriteStartJobs
  <2>3. CASE \/ WriteEntry \/ recv_handle_fails \/ send_handle_take \/ send_buf_node
             \/ connect_cleanup
    BY <2>3, QuietCallbackJobs
  <2>4. CASE FailFree
    BY <2>4, FailFreeJobs
  <2>5. CASE (\E c \in Conns : accept_handle(c)) \/ accept_refuse
    BY <2>5, AcceptHandleJobs, AcceptRefuseJobs
  <2>6. CASE send_handle_again \/ send_handle_flag
    BY <2>6, SendAgainJobs, SendAgainFlagJobs
  <2>7. CASE connect_result \/ connect_handle_returns \/ unregister_connect
    BY <2>7, ConnectResultJobs, ConnectReturnsJobs, UnregisterConnectJobs
  <2>8. CASE \/ free_async_write_resource \/ free_close \/ free_handle
             \/ accept_free_callback
    BY <2>8, FlushJobs, FreeCloseJobs, FreeHandleJobs, AcceptFreedJobs
  <2>9. QED
    BY <1>4, <2>1, <2>2, <2>3, <2>4, <2>5, <2>6, <2>7, <2>8 DEF Callback
<1>5. CASE LoopQuiet \/ CbReturn
  BY <1>5, LoopQuietJobs, CbReturnJobs
<1>6. QED BY <1>1, <1>2, <1>3, <1>4, <1>5 DEF RecvNext

LEMMA JobsInvInit == RecvInit => JobsInv
<1> SUFFICES ASSUME RecvInit PROVE JobsInv
  OBVIOUS
<1>1. /\ njobs = 0 /\ half = {} /\ pc[0] = "top" /\ cb = NoCb /\ cli = NoFd
      /\ Alive = {} /\ 0 \in Actors
      /\ \A a \in Actors : call[a] = NoCall
  BY LoopsFacts DEF RecvInit, Init, Alive, Actors
<1>2. /\ NoCall.pc = None /\ NoCall.obj = None /\ NoCb.pc = None /\ NoCb.obj = None
  BY DEF NoCall, NoCb
<1>3. BindShape
  <2>1. NoBind \in BindRec
    BY DEF NoBind, BindRec
  <2>2. QED BY <1>1, <2>1 DEF RecvInit, BindShape
<1>4. AccShape
  BY <1>1 DEF RecvInit, AccShape, FdOrNone
<1>5. CbShape /\ CurShape /\ HalfOf
  BY <1>1, <1>2 DEF CbShape, CurShape, HalfOf, ConnCbPcs, SendCbPcs, ConnectCbPcs, None
<1>6. regLock = [c \in Conns |-> regLock[c]]
  BY DEF RecvInit
<1>7. ASSUME NEW a \in Actors PROVE ActorShape(a)
  BY <1>1, <1>2 DEF ActorShape, LockPcs, FreeConnPcs, InitPcs, None
<1>8. ASSUME NEW c \in Conns PROVE ConnShape(c)
  <2>1. conn[c] = NoConn /\ c # None
    BY NamesAssumption DEF RecvInit, None
  <2>2. NoConn.fd = NoFd /\ ~NoConn.cn
    BY DEF NoConn, NewConn
  <2>3. QED BY <1>1, <1>2, <2>1, <2>2 DEF ConnShape, HasJob
<1>9. QED BY <1>3, <1>4, <1>5, <1>6, <1>7, <1>8 DEF JobsInv

LEMMA RecvInvInit == RecvInit => RecvInv
<1> SUFFICES ASSUME RecvInit PROVE RecvInv
  OBVIOUS
<1>1. Init /\ NoAbort
  BY DEF RecvInit, Init, NoAbort
<1>2. QED
  BY <1>1, WatchInvInit, FreeSetInit, StreamInvInit, JobsInvInit DEF RecvInv, LoopsInv

LEMMA RecvInvStep ==
    ASSUME "userFree" \in Rules, "ctlSpace" \in Rules, RecvHabits \subseteq Habits,
           RecvInv, [RecvNext]_allVars
    PROVE  RecvInv' /\ [Next]_vars
<1>1. JobsInv' /\ AddsUnused /\ MarksInLoop /\ [Next]_vars
  BY JobsInvStep DEF RecvInv, Lawful, LibStep
<1>2. StreamInv'
  BY StreamInvStep DEF RecvInv, RecvHabits, AllHabits, StreamHabits
<1>3. WatchInv'
  BY <1>1, KeepsLoop, WatchInvStep DEF RecvInv, LoopsInv
<1>4. MemInv /\ Kinds
  BY <1>1, KeepsLoop, StepIsOfKind DEF RecvInv, LoopsInv, WatchInv, OneJobInv
<1>5. FreeSet' /\ NoAbort'
  BY <1>1, <1>4, FreeSetStep, NoAbortStep DEF RecvInv, LoopsInv
<1>6. QED BY <1>1, <1>2, <1>3, <1>5 DEF RecvInv, LoopsInv

\* The connection classes use the library as its own specification allows: every
\* behaviour of theirs is one of NetPoll, each step of CNetRecv and CNetAccept
\* a step of the job operations or loops, or none of theirs.
THEOREM RecvIsNetPoll ==
    ASSUME "userFree" \in Rules, "ctlSpace" \in Rules, RecvHabits \subseteq Habits
    PROVE  RecvSpec => Spec
<1>1. RecvInit => Init
  BY DEF RecvInit
<1>2. RecvInv /\ [RecvNext]_allVars => RecvInv' /\ [Next]_vars
  BY RecvInvStep
<1>3. QED BY <1>1, <1>2, RecvInvInit, PTL DEF RecvSpec, Spec

\* With them as the callers a descriptor never has two jobs that are not being
\* deleted, the program never aborts in add_listen_job or when it frees a job,
\* and the kernel watches for exactly what the jobs ask: where NetPoll needs the
\* rules "noReadd" and "listenInLoop", the classes keep to them by the lock of
\* the connection and the order in which free unregisters and closes.
THEOREM RecvKeepsRules ==
    ASSUME "userFree" \in Rules, "ctlSpace" \in Rules, RecvHabits \subseteq Habits
    PROVE  RecvSpec => [](/\ OneJobPerFd /\ NoAbort /\ FreedByUser
                          /\ InterestMatchesFlags /\ DeletedUnwatched)
<1> DEFINE Kept == /\ OneJobPerFd /\ NoAbort /\ FreedByUser
                   /\ InterestMatchesFlags /\ DeletedUnwatched
<1>1. RecvInv => Kept
  BY WatchInvSafe, FreeSetSafe DEF RecvInv, LoopsInv, WatchInv, OneJobInv
<1>2. RecvInv /\ [RecvNext]_allVars => RecvInv'
  BY RecvInvStep
<1> HIDE DEF Kept
<1>3. RecvSpec => []Kept
  BY <1>1, <1>2, RecvInvInit, PTL DEF RecvSpec
<1>4. QED BY <1>3 DEF Kept

\* A job's descriptor is the one of the object that is its param1, so the check
\* of fd at the top of _recv_callback, _send_callback and the others passes.
THEOREM CallbacksGetTheirFd ==
    ASSUME "userFree" \in Rules, "ctlSpace" \in Rules, RecvHabits \subseteq Habits
    PROVE  RecvSpec => []CallbackFd
<1>1. RecvInv => CallbackFd
  <2> SUFFICES ASSUME RecvInv, NEW j \in Alive
               PROVE  job[j].fd = IF bind[j].obj \in Conns THEN conn[bind[j].obj].fd
                                  ELSE acc[bind[j].obj].fd
    BY DEF CallbackFd
  <2>1. CASE bind[j].obj \in Conns
    BY <2>1 DEF RecvInv, JobsInv, ConnShape, JobShape
  <2>2. CASE bind[j].obj \notin Conns
    <3>1. bind[j].obj \in Acceptors
      BY <2>2, AliveFacts DEF RecvInv, JobsInv, BindShape
    <3>2. QED BY <2>2, <3>1 DEF RecvInv, JobsInv, AccShape
  <2>3. QED BY <2>1, <2>2
<1>2. RecvInv /\ [RecvNext]_allVars => RecvInv'
  BY RecvInvStep
<1>3. QED BY <1>1, <1>2, RecvInvInit, PTL DEF RecvSpec

\* When free has returned, no job of the connection is left that is not being
\* deleted, and no send_data or registration in progress makes one.
THEOREM FreedHasNoJobs ==
    ASSUME "userFree" \in Rules, "ctlSpace" \in Rules, RecvHabits \subseteq Habits
    PROVE  RecvSpec => []FreedStaysFreed
<1>1. RecvInv => FreedStaysFreed
  <2> SUFFICES ASSUME RecvInv, NEW c \in Conns, conn[c].freed, ~InPcs(c, FreeConnPcs),
                      NEW j \in Alive, bind[j].obj = c
               PROVE  job[j].del
    BY DEF FreedStaysFreed
  <2>1. ~InLoop(c, {"unread", "unwrite"})
    BY LoopsFacts DEF InLoop, InPcs, Inside, FreeConnPcs, Actors
  <2>2. QED BY <2>1 DEF RecvInv, JobsInv, ConnShape, JobShape
<1>2. RecvInv /\ [RecvNext]_allVars => RecvInv'
  BY RecvInvStep
<1>3. QED BY <1>1, <1>2, RecvInvInit, PTL DEF RecvSpec

\* A connection is deleted only when nobody is inside a member function or
\* callback of it and no job can call it any more.
THEOREM DeletedIsUnused ==
    ASSUME "userFree" \in Rules, "ctlSpace" \in Rules, RecvHabits \subseteq Habits
    PROVE  RecvSpec => []NoUseAfterFree
<1>1. RecvInv => NoUseAfterFree
  <2> SUFFICES ASSUME RecvInv, NEW c \in Conns, conn[c].mem = "gone"
               PROVE  /\ \A a \in Actors : ~Inside(a, c)
                      /\ cb.obj # c
                      /\ \A j \in Alive : bind[j].obj # c
    BY DEF NoUseAfterFree
  <2>1. ConnShape(c) /\ conn[c].mem # "live"
    BY DEF RecvInv, JobsInv
  <2>2. \A j \in Alive : bind[j].obj # c
    <3>1. \A j \in Alive : job[j].fd # NoFd
      BY AliveFacts DEF RecvInv
    <3>2. QED BY <2>1, <3>1 DEF ConnShape, JobShape
  <2>3. QED BY <2>1, <2>2 DEF ConnShape, CallShape, ConnCbShape, Inside
<1>2. RecvInv /\ [RecvNext]_allVars => RecvInv'
  BY RecvInvStep
<1>3. QED BY <1>1, <1>2, RecvInvInit, PTL DEF RecvSpec
=============================================================================
