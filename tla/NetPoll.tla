------------------------------- MODULE NetPoll -------------------------------
(***************************************************************************)
(* The event loops of netpool and the job list they share: CNetPoll        *)
(* (netpool/src/CNetPoll.cpp), CIoJobMgr (CJobIoMgr.cpp) and the CIoJob    *)
(* classes (CJobIo.h, CJobIo.cpp), in the Linux build.                     *)
(*                                                                         *)
(* Every loop thread l owns the epoll instance m_epfd[l] and frees, at the *)
(* top of its loop, the deleted jobs whose m_thrd_index is l.  Any thread  *)
(* (a client, or a loop inside a callback) adds and deletes jobs.  The     *)
(* list is protected by the manager's mutex, a job's event flags by its    *)
(* spin lock, the epoll interest by nothing but the order of the calls.    *)
(* An operation that holds the mutex from beginning to end is one action;  *)
(* the two that other threads can observe half done are two actions each   *)
(* (add_read_job on an existing job, del_listen_job).                      *)
(*                                                                         *)
(* Abstracted: which callback function, parameter and buffer a job has     *)
(* (only whether the read callback is set matters), payloads, logging.     *)
(***************************************************************************)
EXTENDS Integers

CONSTANTS
    WorkerCnt,  \* g_ThreadPoolMgr->m_worker_thrd_cnt; 0: one loop, run inline
    EpfdSlots,  \* the length of m_epfd (32)
    Clients,    \* application threads that are not event loops
    Fds,        \* descriptor numbers (the kernel reuses them once closed)
    MaxJobs,    \* bound: how many jobs are created in a behaviour
    ThrdArg,    \* the thrd_index that the application passes for a descriptor
    Rules       \* the rules of use that the application and the system obey

LoopCnt == IF WorkerCnt = 0 THEN 1 ELSE WorkerCnt
Loops == 0 .. LoopCnt - 1
Jobs == 1 .. MaxJobs

(***************************************************************************)
(* The rules of use.  The library enforces none of them; CNetRecv and      *)
(* CNetAccept follow them to different degrees.                            *)
(*   keepEvent     a descriptor whose thread the library chooses (an index *)
(*                 that is no loop's, the default 256) always has an event *)
(*                 when a further one is added to it                       *)
(*   noReadd       nothing is added to a descriptor from the deletion of   *)
(*                 its job until its free callback has closed it           *)
(*   listenInLoop  listen jobs are deleted by callbacks of loop 0 only     *)
(*   ownerFirstRead  a job made by add_write_job gets its first            *)
(*                 add_read_job from a callback of its own loop            *)
(*   userFree      the deletions pass a free callback that closes the fd   *)
(*   ctlSpace      the kernel never runs out of epoll watches (ENOSPC)     *)
(***************************************************************************)
AllRules == {"keepEvent", "noReadd", "listenInLoop", "ownerFirstRead",
             "userFree", "ctlSpace"}

ASSUME WorkerCntAssumption == WorkerCnt \in 0 .. EpfdSlots
ASSUME EpfdSlotsAssumption == EpfdSlots \in Nat \ {0}
ASSUME MaxJobsAssumption == MaxJobs \in Nat \ {0}
ASSUME ThrdArgAssumption == ThrdArg \in [Fds -> Nat]
ASSUME RulesAssumption == Rules \subseteq AllRules
ASSUME ActorsAssumption == Clients \cap Loops = {}

VARIABLES
    njobs,      \* jobs created so far; job j is the j-th, so m_io_jobs is in id order
    job,        \* the fields of every CIoJob
    ioJobs,     \* CIoJobMgr::m_io_jobs
    freed,      \* jobs that have been deleted (memory returned)
    epoll,      \* the kernel's interest lists: epoll[l][fd], data.ptr and events
    curThrd,    \* m_cur_thrd_index
    half,       \* add_read_job between its epoll_ctl and set_read_callback
    lateDel,    \* del_listen_job between its unlock and its epoll_ctl
    pc,         \* where every loop is in loop_handle
    batch,      \* what epoll_wait returned and the loop has not handled yet
    cur,        \* the event that the loop is handling
    dels,       \* deleted_job of handle_deling_job, not freed yet
    shutDown,   \* m_isShutDown
    aborted     \* the process died: assert(0), or a NULL callback was called

mgrVars == <<njobs, job, ioJobs, freed, curThrd>>
loopVars == <<pc, batch, cur, dels>>
vars == <<njobs, job, ioJobs, freed, epoll, curThrd, half, lateDel,
          pc, batch, cur, dels, shutDown, aborted>>

NoLoop == -1
NoJob == 0
Actors == Clients \cup Loops

\* An entry of an epoll interest list, and an event that epoll_wait returns
\* (an event with neither flag stands for EPOLLHUP or EPOLLERR alone).
Entry == [job : 0 .. njobs, ev : SUBSET {"IN", "OUT"}]
Event == [job : 1 .. njobs, ev : SUBSET {"IN", "OUT"}]
NoEntry == [job |-> NoJob, ev |-> {}]

JobRec == [fd : Fds, kind : {"listen", "wr"}, ev : SUBSET {"R", "W"},
           del : BOOLEAN, thrd : Loops, rdcb : BOOLEAN,
           free : {"default", "user", "null"}]

CallbackPcs == {"accept", "readcb", "readend", "writecb", "timers"}
EventPcs == {"events", "read", "accept", "readcb", "readend",
             "write1", "write2", "writecb"}
FreePcs == {"free", "lastfree"}
Pcs == {"top", "wait", "out", "exit", "timers"} \cup EventPcs \cup FreePcs

TypeOK ==
    /\ njobs \in 0 .. MaxJobs
    /\ job \in [1 .. njobs -> JobRec]
    /\ ioJobs \subseteq 1 .. njobs
    /\ freed \subseteq 1 .. njobs
    /\ epoll \in [Loops -> [Fds -> Entry]]
    /\ curThrd \in Loops
    /\ half \subseteq [by : Actors, job : 1 .. njobs]
    /\ lateDel \subseteq [by : Actors, fd : Fds]
    /\ pc \in [Loops -> Pcs]
    /\ batch \in [Loops -> SUBSET Event]
    /\ cur \in [Loops -> Entry]
    /\ dels \in [Loops -> SUBSET (1 .. njobs)]
    /\ shutDown \in BOOLEAN
    /\ aborted \in BOOLEAN

Init ==
    /\ njobs = 0
    /\ job = [j \in 1 .. 0 |-> NoEntry]
    /\ ioJobs = {}
    /\ freed = {}
    /\ epoll = [l \in Loops |-> [f \in Fds |-> NoEntry]]
    /\ curThrd = 0
    /\ half = {}
    /\ lateDel = {}
    /\ pc = [l \in Loops |-> "top"]
    /\ batch = [l \in Loops |-> {}]
    /\ cur = [l \in Loops |-> NoEntry]
    /\ dels = [l \in Loops |-> {}]
    /\ shutDown = FALSE
    /\ aborted = FALSE
-----------------------------------------------------------------------------
(***************************************************************************)
(* The job list and the kernel's interest lists.                           *)
(***************************************************************************)

\* The job that comes first in a list of these jobs.
First(js) == CHOOSE j \in js : \A k \in js : j <= k

\* The jobs in memory: listed, or taken from the list and not freed yet.
Alive == 1 .. njobs \ freed

\* Mutant of find_io_job: listen jobs are overlooked.
find_io_job_connected(fd) ==
    LET same == {j \in ioJobs : job[j].fd = fd /\ job[j].kind = "wr"}
    IN  IF same = {} \/ job[First(same)].del THEN NoJob ELSE First(same)

\* CIoJobMgr::find_io_job: the first job of the list with this descriptor,
\* nothing when that one is being deleted.
find_io_job(fd) ==
    LET same == {j \in ioJobs : job[j].fd = fd}
    IN  IF same = {} \/ job[First(same)].del THEN NoJob ELSE First(same)

Flags(ev) == {IF e = "R" THEN "IN" ELSE "OUT" : e \in ev}

\* EPOLL_CTL_MOD and EPOLL_CTL_DEL fail, and change nothing, when the
\* descriptor is not registered.
CtlMod(l, fd, j, ev) ==
    IF epoll[l][fd].job = NoJob THEN epoll
    ELSE [epoll EXCEPT ![l][fd] = [job |-> j, ev |-> ev]]
CtlAdd(l, fd, j, ev) == [epoll EXCEPT ![l][fd] = [job |-> j, ev |-> ev]]
CtlDel(l, fd) == [epoll EXCEPT ![l][fd] = NoEntry]

\* The interest lists in which EPOLL_CTL_ADD on m_epfd[i] may put fd; NoLoop
\* is a failure: the descriptor is there already, the slot is unused (-1),
\* the kernel has no space, or m_epfd is read beyond its end and yields
\* whatever is there.
AddTargets(i, fd) ==
    LET slot == CASE i \in Loops -> {i}
                  [] i \notin Loops /\ i < EpfdSlots -> {NoLoop}
                  [] OTHER -> Loops \cup {NoLoop}
    IN  {l \in slot \cap Loops : epoll[l][fd].job = NoJob}
          \cup {NoLoop : l \in {m \in slot : \/ m = NoLoop
                                             \/ epoll[m][fd].job # NoJob
                                             \/ "ctlSpace" \notin Rules}}

\* Mutant: the wrap comes one index too late.
NextThrd_off_by_one == IF curThrd + 1 > WorkerCnt THEN 0 ELSE curThrd + 1
\* get_next_thrd_index
NextThrd == IF curThrd + 1 >= WorkerCnt THEN 0 ELSE curThrd + 1
-----------------------------------------------------------------------------
(***************************************************************************)
(* Who may call the library, and what the rules of use ask of the caller.  *)
(***************************************************************************)

\* A thread inside del_listen_job has left the lock and calls nothing else.
InDelListen(a) == \E d \in lateDel : d.by = a
InAddRead(a) == \E h \in half : h.by = a

\* A loop calls the library from its callbacks: accept, read, write, timer
\* and free callbacks.
CanCall(a) ==
    /\ ~InDelListen(a)
    /\ ~InAddRead(a)
    /\ \/ a \in Clients
       \/ a \in Loops /\ pc[a] \in CallbackPcs
       \/ a \in Loops /\ pc[a] \in FreePcs /\ dels[a] # {}

\* The manager's mutex is free.
MgrLock == half = {}

MayAdd(fd) ==
    "noReadd" \in Rules => \A j \in Alive : job[j].fd = fd => ~job[j].del

\* With a thread index that is no loop's, an event is only ever added to a
\* job that has one.
MayExtend(fd, j) ==
    /\ job[j].kind = "wr"
    /\ "keepEvent" \in Rules => ThrdArg[fd] \in Loops \/ job[j].ev # {}

FreeArgs == IF "userFree" \in Rules THEN {"user"} ELSE {"user", "null"}
-----------------------------------------------------------------------------
(***************************************************************************)
(* The operations of CNetPoll on jobs.                                     *)
(***************************************************************************)

\* The new job becomes the last of the list.  The mutex is held from the
\* search to the insertion, so no other thread sees the steps apart.
NewJob(fd, kind, ev, thrd) ==
    /\ njobs < MaxJobs
    /\ \E l \in AddTargets(thrd, fd) :
         IF l = NoLoop
         THEN UNCHANGED <<njobs, job, ioJobs, epoll>>
         ELSE /\ njobs' = njobs + 1
              /\ job' = [j \in 1 .. njobs + 1 |->
                           IF j <= njobs THEN job[j]
                           ELSE [fd |-> fd, kind |-> kind, ev |-> ev,
                                 del |-> FALSE, thrd |-> thrd,
                                 rdcb |-> "R" \in ev, free |-> "default"]]
              /\ ioJobs' = ioJobs \cup {njobs + 1}
              /\ epoll' = CtlAdd(l, fd, njobs + 1, Flags(ev))
    /\ UNCHANGED freed

\* A listen job always belongs to loop 0.  When epoll_ctl fails the code
\* asserts: the process dies.
add_listen_job(a, fd) ==
    /\ CanCall(a) /\ MgrLock /\ MayAdd(fd)
    /\ find_io_job(fd) = NoJob
    /\ NewJob(fd, "listen", {"R"}, 0)
    /\ aborted' = (njobs' = njobs)
    /\ UNCHANGED <<curThrd, half, lateDel, loopVars, shutDown>>

\* The thread of a new read or write job: the caller's index, or the next one.
NewWrJob(fd, ev) ==
    IF ThrdArg[fd] >= WorkerCnt
    THEN curThrd' = NextThrd /\ NewJob(fd, "wr", ev, NextThrd)
    ELSE UNCHANGED curThrd /\ NewJob(fd, "wr", ev, ThrdArg[fd])

add_read_job_new(a, fd) ==
    /\ CanCall(a) /\ MgrLock /\ MayAdd(fd)
    /\ find_io_job(fd) = NoJob
    /\ NewWrJob(fd, {"R"})
    /\ UNCHANGED <<half, lateDel, loopVars, shutDown, aborted>>

add_write_job_new(a, fd) ==
    /\ CanCall(a) /\ MgrLock /\ MayAdd(fd)
    /\ find_io_job(fd) = NoJob
    /\ NewWrJob(fd, {"W"})
    /\ UNCHANGED <<half, lateDel, loopVars, shutDown, aborted>>

\* add_read_job on an existing job: the kernel learns of the interest first.
\* The caller holds the mutex and the job's spin lock until the second half,
\* but the job's loop takes neither to read.
add_read_job_ctl(a, fd) ==
    LET j == find_io_job(fd)
        took == half' = half \cup {[by |-> a, job |-> j]}
    IN  /\ CanCall(a) /\ MgrLock /\ MayAdd(fd)
        /\ j # NoJob
        /\ MayExtend(fd, j)
        /\ "ownerFirstRead" \in Rules => job[j].rdcb \/ a = job[j].thrd
        /\ IF "W" \in job[j].ev
           THEN /\ epoll' = CtlMod(job[j].thrd, fd, j, {"IN", "OUT"})
                /\ IF epoll[job[j].thrd][fd].job = NoJob
                   THEN UNCHANGED half
                   ELSE took
           ELSE IF "R" \in job[j].ev
           THEN took /\ UNCHANGED epoll
           ELSE \E l \in AddTargets(ThrdArg[fd], fd) :
                  IF l = NoLoop
                  THEN UNCHANGED <<epoll, half>>
                  ELSE took /\ epoll' = CtlAdd(l, fd, j, {"IN"})
        /\ UNCHANGED <<mgrVars, lateDel, loopVars, shutDown, aborted>>

\* Mutant of add_read_job_set: set_read_callback is forgotten.
add_read_job_set_flag_only(a) ==
    \E h \in half :
        /\ h.by = a
        /\ job' = [job EXCEPT ![h.job].ev = @ \cup {"R"}]
        /\ half' = {}
        /\ UNCHANGED <<njobs, ioJobs, freed, curThrd, epoll, lateDel,
                       loopVars, shutDown, aborted>>

\* ... and then set_read_callback, add_read_io_event, init_recv_buf.
add_read_job_set(a) ==
    \E h \in half :
        /\ h.by = a
        /\ job' = [job EXCEPT ![h.job].rdcb = TRUE,
                              ![h.job].ev = @ \cup {"R"}]
        /\ half' = {}
        /\ UNCHANGED <<njobs, ioJobs, freed, curThrd, epoll, lateDel,
                       loopVars, shutDown, aborted>>

\* add_write_job on an existing job sets the flag before epoll_ctl and leaves
\* it set when epoll_ctl fails.
add_write_job_more(a, fd) ==
    LET j == find_io_job(fd)
    IN  /\ CanCall(a) /\ MgrLock /\ MayAdd(fd)
        /\ j # NoJob
        /\ MayExtend(fd, j)
        /\ "W" \notin job[j].ev
        /\ job' = [job EXCEPT ![j].ev = @ \cup {"W"}]
        /\ IF "R" \in job[j].ev
           THEN epoll' = CtlMod(job[j].thrd, fd, j, {"IN", "OUT"})
           ELSE \E l \in AddTargets(ThrdArg[fd], fd) :
                  epoll' = IF l = NoLoop THEN epoll
                           ELSE CtlAdd(l, fd, j, {"OUT"})
        /\ UNCHANGED <<njobs, ioJobs, freed, curThrd, half, lateDel, loopVars,
                       shutDown, aborted>>

\* What a deletion of flag leaves of the job and of the kernel's interest; the
\* job survives as long as it has the other flag.
\* Mutant: the free callback is stored only with a job that stays.
DelFields_free_if_kept(j, flag, other, fr) ==
    [job EXCEPT ![j].free = IF other \in job[j].ev THEN fr ELSE @,
                ![j].del = other \notin job[j].ev,
                ![j].ev = @ \ {flag}]
DelFields(j, flag, other, fr) ==
    [job EXCEPT ![j].free = fr,
                ![j].del = other \notin job[j].ev,
                ![j].ev = @ \ {flag}]

\* Mutant: the last interest is modified to nothing instead of deleted.
DelInterest_mod(j, flag, other) ==
    CtlMod(job[j].thrd, job[j].fd, j, Flags(job[j].ev \cap {other}))
DelInterest(j, flag, other) ==
    IF other \in job[j].ev
    THEN CtlMod(job[j].thrd, job[j].fd, j, Flags({other}))
    ELSE IF flag \in job[j].ev THEN CtlDel(job[j].thrd, job[j].fd)
    ELSE epoll

\* del_read_job and del_write_job: flag is the one deleted, other the one that
\* keeps the job alive.  The free callback is stored even when the job stays.
del_wr_job(a, fd, flag, other) ==
    LET j == find_io_job(fd)
    IN  /\ CanCall(a) /\ MgrLock
        /\ j # NoJob
        /\ job[j].kind = "wr"
        /\ \E fr \in FreeArgs : job' = DelFields(j, flag, other, fr)
        /\ epoll' = DelInterest(j, flag, other)
        /\ UNCHANGED <<njobs, ioJobs, freed, curThrd, half, lateDel, loopVars,
                       shutDown, aborted>>

del_read_job(a, fd) == del_wr_job(a, fd, "R", "W")
del_write_job(a, fd) == del_wr_job(a, fd, "W", "R")

\* del_listen_job marks the job under the mutex and leaves it ...
del_listen_job_mark(a, fd) ==
    LET j == find_io_job(fd)
    IN  /\ CanCall(a) /\ MgrLock
        /\ "listenInLoop" \in Rules => a = 0
        /\ j # NoJob
        /\ job[j].kind = "listen"
        /\ \E fr \in FreeArgs :
             job' = [job EXCEPT ![j].free = fr, ![j].del = TRUE]
        /\ lateDel' = lateDel \cup {[by |-> a, fd |-> fd]}
        /\ UNCHANGED <<njobs, ioJobs, freed, curThrd, epoll, half, loopVars,
                       shutDown, aborted>>

\* ... before it takes the descriptor out of m_epfd[0], whatever it is by then.
del_listen_job_ctl(a) ==
    \E d \in lateDel :
        /\ d.by = a
        /\ epoll' = CtlDel(0, d.fd)
        /\ lateDel' = lateDel \ {d}
        /\ UNCHANGED <<mgrVars, half, loopVars, shutDown, aborted>>
-----------------------------------------------------------------------------
(***************************************************************************)
(* One event loop: CNetPoll::loop_handle and what it calls.                *)
(***************************************************************************)

LoopKeeps == UNCHANGED <<njobs, curThrd, half, lateDel, shutDown>>

\* Mutants of Deleted: the thread index is not compared, or jobs that still
\* have an event flag are left in the list.
Deleted_any_thread(l) == {j \in ioJobs : job[j].del}
Deleted_without_event(l) ==
    {j \in ioJobs : job[j].thrd = l /\ job[j].del /\ job[j].ev = {}}
Deleted(l) == {j \in ioJobs : job[j].thrd = l /\ job[j].del}

\* The first half of handle_deling_job, under the mutex: the deleted jobs of
\* this thread leave the list.  `last' is the call after the loop.
Reap(l, last) ==
    LET mine == Deleted(l)
    IN  /\ MgrLock
        /\ ioJobs' = ioJobs \ mine
        /\ dels' = [dels EXCEPT ![l] = mine]
        /\ pc' = [pc EXCEPT ![l] =
                    CASE mine # {} /\ ~last -> "free"
                      [] mine # {} /\ last -> "lastfree"
                      [] mine = {} /\ ~last -> "wait"
                      [] OTHER -> "exit"]
        /\ LoopKeeps /\ UNCHANGED <<job, freed, epoll, batch, cur, aborted>>

\* while (false == m_isShutDown)
LoopTop(l) == pc[l] = "top" /\ Reap(l, shutDown)

\* The break after a failed epoll_wait.
LoopOut(l) == pc[l] = "out" /\ Reap(l, TRUE)

\* The second half of handle_deling_job, without the mutex: the free callback
\* of the application closes the descriptor, which takes it out of every
\* interest list, and the job's memory goes.
FreeJob(l) ==
    LET j == First(dels[l])
        rest == dels[l] \ {j}
    IN  /\ pc[l] \in FreePcs
        /\ ~InDelListen(l) /\ ~InAddRead(l)
        /\ IF job[j].free = "null"
           THEN aborted' = TRUE /\ UNCHANGED <<epoll, freed, pc, dels>>
           ELSE /\ epoll' = [m \in Loops |->
                               [epoll[m] EXCEPT ![job[j].fd] = NoEntry]]
                /\ freed' = freed \cup {j}
                /\ dels' = [dels EXCEPT ![l] = rest]
                /\ pc' = [pc EXCEPT ![l] =
                            CASE rest # {} -> pc[l]
                              [] rest = {} /\ pc[l] = "free" -> "wait"
                              [] OTHER -> "exit"]
                /\ UNCHANGED aborted
        /\ LoopKeeps /\ UNCHANGED <<job, ioJobs, batch, cur>>

\* epoll_wait returns events of registered descriptors.
EpollReady(l) ==
    /\ pc[l] = "wait"
    /\ \E fds \in SUBSET {f \in Fds : epoll[l][f].job # NoJob} :
         \E fired \in [fds -> SUBSET {"IN", "OUT"}] :
            /\ fds # {}
            /\ \A f \in fds : fired[f] \subseteq epoll[l][f].ev
            /\ batch' = [batch EXCEPT ![l] =
                           {[job |-> epoll[l][f].job, ev |-> fired[f]] : f \in fds}]
    /\ pc' = [pc EXCEPT ![l] = "events"]
    /\ LoopKeeps
    /\ UNCHANGED <<job, ioJobs, freed, epoll, cur, dels, aborted>>

\* epoll_wait ends without events: its timeout, or EINTR, or a failure.
EpollIdle(l) ==
    /\ pc[l] = "wait"
    /\ \E next \in {"timers", "top", "out"} : pc' = [pc EXCEPT ![l] = next]
    /\ LoopKeeps
    /\ UNCHANGED <<job, ioJobs, freed, epoll, batch, cur, dels, aborted>>

\* The next event of the batch: EPOLLIN is handled before EPOLLOUT.  After the
\* last one the loop runs its timers.
Goto(l, next) ==
    /\ pc' = [pc EXCEPT ![l] = next]
    /\ UNCHANGED <<batch, cur>>

EventDone(l) ==
    /\ pc' = [pc EXCEPT ![l] = IF batch[l] = {cur[l]} THEN "timers" ELSE "events"]
    /\ batch' = [batch EXCEPT ![l] = @ \ {cur[l]}]
    /\ cur' = [cur EXCEPT ![l] = NoEntry]

ReadDone(l) ==
    IF "OUT" \in cur[l].ev THEN Goto(l, "write1") ELSE EventDone(l)

Frame == LoopKeeps /\ UNCHANGED <<job, ioJobs, freed, epoll, dels, aborted>>

Dispatch(l) ==
    /\ pc[l] = "events"
    /\ \E e \in batch[l] :
         /\ cur' = [cur EXCEPT ![l] = e]
         /\ pc' = [pc EXCEPT ![l] =
                     IF "IN" \in e.ev THEN "read" ELSE "write1"]
    /\ UNCHANGED batch
    /\ Frame

\* CTcpJob and CUdpJob::read_evt_handle, one round: stop when the job is being
\* deleted; else recv: data, or the end (error, peer closed), or nothing left
\* (EAGAIN; for UDP EINTR too), or EINTR, which only starts the round again.
RecvData(l) ==
    /\ pc[l] = "read" /\ job[cur[l].job].kind = "wr"
    /\ ~job[cur[l].job].del
    /\ \E next \in {"readcb", "readend"} : Goto(l, next)
    /\ Frame

RecvDrained(l) ==
    /\ pc[l] = "read" /\ job[cur[l].job].kind = "wr"
    /\ ReadDone(l)
    /\ Frame

\* CListenJob::read_evt_handle, which does not look at the deleting flag.
Accept(l) ==
    /\ pc[l] = "read" /\ job[cur[l].job].kind = "listen"
    /\ Goto(l, "accept")
    /\ Frame

AcceptDrained(l) ==
    /\ pc[l] = "read" /\ job[cur[l].job].kind = "listen"
    /\ ReadDone(l)
    /\ Frame

\* A callback returns: another round, or (recvEnd) the end of the loop.
ReadCbReturn(l) ==
    /\ pc[l] \in {"accept", "readcb"} /\ CanCall(l)
    /\ Goto(l, "read")
    /\ Frame

ReadEndReturn(l) ==
    /\ pc[l] = "readend" /\ CanCall(l)
    /\ ReadDone(l)
    /\ Frame

\* CWrIoJob::write_evt_handle: the deleting flag is read without a lock.  An
\* event without EPOLLOUT ends here, EPOLLHUP only reads the descriptor.
WriteCheck(l) ==
    /\ pc[l] = "write1"
    /\ IF \/ "OUT" \notin cur[l].ev
          \/ job[cur[l].job].kind = "listen"
          \/ job[cur[l].job].del
       THEN EventDone(l)
       ELSE Goto(l, "write2")
    /\ Frame

\* Mutant of del_io_writing_evt: the read interest goes with the write interest.
del_io_writing_evt_always_del(j) == CtlDel(job[j].thrd, job[j].fd)
del_io_writing_evt(j) ==
    IF "R" \in job[j].ev
    THEN CtlMod(job[j].thrd, job[j].fd, j, {"IN"})
    ELSE CtlDel(job[j].thrd, job[j].fd)

\* Then, under the job's spin lock, del_io_writing_evt and del_write_io_event;
\* then the callback.
WriteClear(l) ==
    LET j == cur[l].job
    IN  /\ pc[l] = "write2"
        /\ \A h \in half : h.job # j
        /\ epoll' = del_io_writing_evt(j)
        /\ job' = [job EXCEPT ![j].ev = @ \ {"W"}]
        /\ Goto(l, "writecb")
        /\ LoopKeeps /\ UNCHANGED <<ioJobs, freed, dels, aborted>>

WriteCbReturn(l) ==
    /\ pc[l] = "writecb" /\ CanCall(l)
    /\ EventDone(l)
    /\ Frame

TimersReturn(l) ==
    /\ pc[l] = "timers" /\ CanCall(l)
    /\ Goto(l, "top")
    /\ Frame

\* CNetPoll::let_stop
let_stop ==
    /\ shutDown' = TRUE
    /\ UNCHANGED <<mgrVars, epoll, half, lateDel, loopVars, aborted>>
-----------------------------------------------------------------------------
Call(a) ==
    \/ \E fd \in Fds :
         \/ add_listen_job(a, fd)
         \/ add_read_job_new(a, fd)
         \/ add_read_job_ctl(a, fd)
         \/ add_write_job_new(a, fd)
         \/ add_write_job_more(a, fd)
         \/ del_read_job(a, fd)
         \/ del_write_job(a, fd)
         \/ del_listen_job_mark(a, fd)
    \/ add_read_job_set(a)
    \/ del_listen_job_ctl(a)

Loop(l) ==
    \/ LoopTop(l) \/ LoopOut(l) \/ FreeJob(l)
    \/ EpollReady(l) \/ EpollIdle(l) \/ Dispatch(l)
    \/ RecvData(l) \/ RecvDrained(l) \/ Accept(l) \/ AcceptDrained(l)
    \/ ReadCbReturn(l) \/ ReadEndReturn(l)
    \/ WriteCheck(l) \/ WriteClear(l) \/ WriteCbReturn(l) \/ TimersReturn(l)

Next ==
    /\ ~aborted
    /\ \/ \E a \in Actors : Call(a)
       \/ \E l \in Loops : Loop(l)
       \/ let_stop

Spec == Init /\ [][Next]_vars

(***************************************************************************)
(* Fairness.  A loop thread that can take a step takes one, and a caller   *)
(* does not stop inside the library.  The strong conditions are: a thread  *)
(* that waits for the mutex or a spin lock is not starved, callbacks       *)
(* return, and no peer sends for ever without a pause (read_evt_handle     *)
(* reads until EAGAIN, so such a peer would hold its loop).                *)
(***************************************************************************)
Return(l) ==
    ReadCbReturn(l) \/ ReadEndReturn(l) \/ WriteCbReturn(l) \/ TimersReturn(l)
       \/ FreeJob(l)

Fairness ==
    /\ \A l \in Loops :
         /\ WF_vars(~aborted /\ Loop(l))
         /\ SF_vars(~aborted /\ (LoopTop(l) \/ LoopOut(l)))
         /\ SF_vars(~aborted /\ (RecvDrained(l) \/ AcceptDrained(l)))
         /\ SF_vars(~aborted /\ Return(l))
         /\ SF_vars(~aborted /\ WriteClear(l))
    /\ \A a \in Actors :
         WF_vars(~aborted /\ (add_read_job_set(a) \/ del_listen_job_ctl(a)))

FairSpec == Spec /\ Fairness
-----------------------------------------------------------------------------
(***************************************************************************)
(* Properties.                                                             *)
(***************************************************************************)

\* Memory safety of the job pointers.  The kernel's interest lists and the
\* events a loop is about to handle name only jobs that are still in memory,
\* and only jobs of that very loop: it is because loop_handle frees nothing
\* but its own jobs, between two batches, that an event handled late (after
\* another thread deleted the job) does not touch freed memory.
NoDangling ==
    \A l \in Loops :
        /\ \A f \in Fds :
             LET j == epoll[l][f].job
             IN  j # NoJob => j \in Alive /\ job[j].fd = f /\ job[j].thrd = l
        /\ \A e \in batch[l] : e.job \in Alive /\ job[e.job].thrd = l
        /\ pc[l] \in EventPcs \ {"events"} => cur[l] \in batch[l]

\* A job in memory is either in m_io_jobs or in the hands of exactly one loop,
\* its own, that is freeing it after a deletion: so handle_deling_job frees
\* every job at most once, and never one that can still be found.
OwnedOnce ==
    /\ ioJobs \cap freed = {}
    /\ Alive = ioJobs \cup UNION {dels[l] : l \in Loops}
    /\ \A l \in Loops :
         /\ \A j \in dels[l] : job[j].thrd = l /\ job[j].del
         /\ dels[l] \cap (ioJobs \cup freed) = {}
         /\ dels[l] # {} <=> pc[l] \in FreePcs

\* Outside the two half-done operations, the kernel watches for a job exactly
\* what its flags say, on its own loop and on no other: no event is lost
\* because the flags claim an interest the kernel does not have, and none
\* arrives that was not asked for.
InterestMatchesFlags ==
    \A j \in ioJobs :
        ~job[j].del /\ (\A h \in half : h.job # j) =>
            \A l \in Loops :
                epoll[l][job[j].fd] =
                    IF l = job[j].thrd /\ job[j].ev # {}
                    THEN [job |-> j, ev |-> Flags(job[j].ev)]
                    ELSE NoEntry

\* Once a job is marked for deletion the kernel reports nothing for it any
\* more, whatever write event of it is being handled at that moment.  Only
\* del_listen_job, which leaves the lock first, is late.
DeletedUnwatched ==
    \A l \in Loops, f \in Fds :
        LET j == epoll[l][f].job
        IN  j # NoJob /\ job[j].del => \E d \in lateDel : d.fd = f

\* A descriptor has one job: find_io_job never returns a job while another one
\* of the same descriptor is in memory, and never hides a live job behind a
\* deleted one.
OneJobPerFd ==
    \A j, k \in Alive : job[j].fd = job[k].fd => j = k

\* read_evt_handle never calls a read callback that has not been set yet.
ReadReady ==
    \A l \in Loops :
        pc[l] \in {"readcb", "readend"} => job[cur[l].job].rdcb

\* The process does not die in the library: add_listen_job's assert(0) is
\* never reached and handle_deling_job never calls a NULL free callback.
NoAbort == ~aborted

\* A job that is being freed has the free callback of its deletion, not the
\* constructor's default, which would leave the descriptor open for ever.
FreedByUser ==
    \A l \in Loops : \A j \in dels[l] : job[j].free = "user"

\* Every deleted job is freed in the end, by its own loop, unless that loop has
\* ended (let_stop, or epoll_wait failed).
Reaped ==
    \A j \in Jobs :
        (j \in Alive /\ job[j].del)
            ~> (j \in freed \/ (j \in Alive /\ pc[job[j].thrd] = "exit"))

(***************************************************************************)
(* The job life cycle that this module implements.                         *)
(***************************************************************************)
lifeOf == [j \in Jobs |-> CASE j > njobs -> "none"
                             [] j \in freed -> "freed"
                             [] j \in Alive /\ job[j].del -> "dying"
                             [] OTHER -> "live"]
fdsOf == [j \in 1 .. njobs |-> job[j].fd]
heldBy == [l \in Loops |-> {e.job : e \in batch[l]}]

JL == INSTANCE JobLife WITH life <- lifeOf, fdOf <- fdsOf, holds <- heldBy

\* Under the rules of use the loops and the job list implement JobLife: one job
\* per descriptor, one deletion, one free callback, and none while some loop
\* still has an event of the job to handle.
ImplementsJobLife == JL!LifeSpec
=============================================================================
