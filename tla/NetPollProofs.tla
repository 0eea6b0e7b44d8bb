---------------------------- MODULE NetPollProofs ----------------------------
(***************************************************************************)
(* Types of the event loops, memory safety of the job pointers, and what   *)
(* the rules of use buy, for every number of loops, clients, descriptors   *)
(* and jobs.                                                               *)
(***************************************************************************)
EXTENDS NetPoll, WellFoundedInduction, TLAPS

\* Every non-empty list has a first job.
LEMMA LeastExists ==
    ASSUME NEW S, S \subseteq Nat, S # {}
    PROVE  \E x \in S : \A y \in S : x <= y
<1>1. PICK x \in S : \A y \in S : ~(<<y, x>> \in OpToRel(<, Nat))
  BY NatLessThanWellFounded, WFMin
<1>2. \A y \in S : ~(y < x)
  BY <1>1 DEF OpToRel
<1>3. QED BY <1>2

\* First picks a member of the list.
LEMMA FirstIn ==
    ASSUME NEW S, S \subseteq Nat, S # {}
    PROVE  First(S) \in S
BY LeastExists DEF First

\* There is a loop 0, and the next thread index is a loop's.
LEMMA LoopsFacts ==
    /\ LoopCnt \in Nat \ {0}
    /\ 0 \in Loops
    /\ Loops \subseteq Nat
    /\ \A i \in Nat : i < WorkerCnt => i \in Loops
    /\ NoLoop \notin Loops
    /\ curThrd \in Loops => NextThrd \in Loops
BY WorkerCntAssumption, EpfdSlotsAssumption
   DEF LoopCnt, Loops, NextThrd, NoLoop

\* find_io_job answers with a listed job of the descriptor, not being deleted.
LEMMA FindFacts ==
    ASSUME TypeOK, NEW fd \in Fds, find_io_job(fd) # NoJob
    PROVE  /\ find_io_job(fd) \in ioJobs
           /\ find_io_job(fd) \in 1 .. njobs
           /\ job[find_io_job(fd)].fd = fd
           /\ ~job[find_io_job(fd)].del
<1> DEFINE same == {j \in ioJobs : job[j].fd = fd}
<1>0. njobs \in Nat /\ ioJobs \subseteq 1 .. njobs
  BY MaxJobsAssumption DEF TypeOK
<1>a. \A j \in ioJobs : j \in Nat
  BY <1>0
<1>1. same \subseteq Nat
  BY <1>a, Zenon
<1>2. same # {} /\ ~job[First(same)].del /\ find_io_job(fd) = First(same)
  BY DEF find_io_job
<1>3. First(same) \in same
  BY <1>1, <1>2, FirstIn
<1>4. QED BY <1>2, <1>3 DEF TypeOK

\* What EPOLL_CTL_ADD can do: fail, or enter the descriptor where it was not.
LEMMA AddTargetsFacts ==
    ASSUME NEW i \in Nat, NEW fd \in Fds, NEW l \in AddTargets(i, fd)
    PROVE  /\ l # NoLoop => l \in Loops /\ epoll[l][fd].job = NoJob
           /\ l # NoLoop /\ i \in Loops => l = i
BY DEF AddTargets

\* The interest lists keep their type under epoll_ctl.
LEMMA CtlTypes ==
    ASSUME TypeOK, NEW l \in Loops, NEW fd \in Fds, NEW j \in 1 .. njobs,
           NEW ev \in SUBSET {"IN", "OUT"}
    PROVE  /\ CtlMod(l, fd, j, ev) \in [Loops -> [Fds -> Entry]]
           /\ CtlAdd(l, fd, j, ev) \in [Loops -> [Fds -> Entry]]
           /\ CtlDel(l, fd) \in [Loops -> [Fds -> Entry]]
<1>1. [job |-> j, ev |-> ev] \in Entry /\ NoEntry \in Entry
  BY MaxJobsAssumption DEF Entry, NoEntry, NoJob, TypeOK
<1>2. QED BY <1>1 DEF CtlMod, CtlAdd, CtlDel, TypeOK

LEMMA FlagsType ==
    ASSUME NEW ev \in SUBSET {"R", "W"}
    PROVE  Flags(ev) \in SUBSET {"IN", "OUT"}
BY DEF Flags
-----------------------------------------------------------------------------
\* Where a loop is tells what it holds: jobs to free exactly while it frees,
\* events exactly while it handles them, and the current event is one of them.
LoopShape ==
    \A l \in Loops :
        /\ dels[l] # {} <=> pc[l] \in FreePcs
        /\ batch[l] # {} <=> pc[l] \in EventPcs
        /\ pc[l] \in EventPcs \ {"events"} => cur[l] \in batch[l]

TypeInv == TypeOK /\ LoopShape

LEMMA TypeInvInit == Init => TypeInv
<1> SUFFICES ASSUME Init PROVE TypeInv
  OBVIOUS
<1>1. TypeOK
  <2>1. job \in [1 .. njobs -> JobRec]
    BY DEF Init
  <2>2. NoEntry \in Entry
    BY DEF Init, NoEntry, Entry, NoJob
  <2>3. QED BY <2>1, <2>2, MaxJobsAssumption, LoopsFacts
               DEF Init, TypeOK, Pcs
<1>2. LoopShape
  BY DEF Init, LoopShape, EventPcs, FreePcs
<1>3. QED BY <1>1, <1>2 DEF TypeInv

\* A new job: its record, its place in the list and its registration.
LEMMA NewJobTypes ==
    ASSUME TypeOK, NEW fd \in Fds, NEW kind \in {"listen", "wr"},
           NEW ev \in SUBSET {"R", "W"}, NEW thrd \in Loops,
           NewJob(fd, kind, ev, thrd),
           UNCHANGED <<half, lateDel, loopVars, shutDown>>,
           curThrd' \in Loops, aborted' \in BOOLEAN
    PROVE  TypeOK'
<1>1. CASE UNCHANGED <<njobs, job, ioJobs, epoll>>
  BY <1>1 DEF TypeOK, NewJob, loopVars, Entry, Event, JobRec
<1>2. CASE ~UNCHANGED <<njobs, job, ioJobs, epoll>>
  <2>1. PICK l \in AddTargets(thrd, fd) :
          /\ l # NoLoop
          /\ njobs' = njobs + 1
          /\ job' = [j \in 1 .. njobs + 1 |->
                       IF j <= njobs THEN job[j]
                       ELSE [fd |-> fd, kind |-> kind, ev |-> ev,
                             del |-> FALSE, thrd |-> thrd,
                             rdcb |-> "R" \in ev, free |-> "default"]]
          /\ ioJobs' = ioJobs \cup {njobs + 1}
          /\ epoll' = CtlAdd(l, fd, njobs + 1, Flags(ev))
    BY <1>2 DEF NewJob
  <2>2. l \in Loops
    BY <2>1, AddTargetsFacts, LoopsFacts
  <2>3. njobs \in Nat /\ njobs' \in 0 .. MaxJobs
    BY <2>1, MaxJobsAssumption DEF NewJob, TypeOK
  <2>4. job' \in [1 .. njobs' -> JobRec]
    <3>1. [fd |-> fd, kind |-> kind, ev |-> ev, del |-> FALSE, thrd |-> thrd,
           rdcb |-> "R" \in ev, free |-> "default"] \in JobRec
      BY DEF JobRec
    <3>2. \A j \in 1 .. njobs + 1 : j <= njobs => job[j] \in JobRec
      BY <2>3 DEF TypeOK
    <3>3. QED BY <2>1, <3>1, <3>2
  <2>5. epoll' \in [Loops -> [Fds -> Entry']]
    <3>1. [job |-> njobs + 1, ev |-> Flags(ev)] \in Entry'
      BY <2>1, <2>3, FlagsType DEF Entry
    <3>2. Entry \subseteq Entry'
      BY <2>1, <2>3 DEF Entry
    <3>3. epoll \in [Loops -> [Fds -> Entry']]
      BY <3>2 DEF TypeOK
    <3>4. QED BY <2>1, <2>2, <3>1, <3>3 DEF CtlAdd
  <2>6. /\ ioJobs' \subseteq 1 .. njobs' /\ freed' \subseteq 1 .. njobs'
        /\ half' \subseteq [by : Actors, job : 1 .. njobs']
    BY <2>1, <2>3 DEF TypeOK, NewJob
  <2>7. /\ batch' \in [Loops -> SUBSET Event'] /\ cur' \in [Loops -> Entry']
        /\ dels' \in [Loops -> SUBSET (1 .. njobs')]
    <3>1. Event \subseteq Event' /\ Entry \subseteq Entry' /\ 1 .. njobs \subseteq 1 .. njobs'
      BY <2>1, <2>3 DEF Event, Entry
    <3>2. QED BY <3>1 DEF TypeOK, loopVars
  <2>8. QED BY <2>3, <2>4, <2>5, <2>6, <2>7 DEF TypeOK, loopVars, Actors
<1>3. QED BY <1>1, <1>2

LEMMA AddListenTypes ==
    ASSUME TypeInv, NEW a \in Actors, NEW fd \in Fds, add_listen_job(a, fd)
    PROVE  TypeInv'
<1>1. NewJob(fd, "listen", {"R"}, 0)
  BY DEF add_listen_job
<1>2. TypeOK'
  BY <1>1, NewJobTypes, LoopsFacts DEF add_listen_job, TypeInv, TypeOK
<1>3. LoopShape'
  BY DEF TypeInv, LoopShape, add_listen_job, loopVars
<1>4. QED BY <1>2, <1>3 DEF TypeInv

\* The thread of a new read or write job is a loop.
LEMMA NewWrJobTypes ==
    ASSUME TypeInv, NEW fd \in Fds, NEW ev \in SUBSET {"R", "W"},
           NewWrJob(fd, ev),
           UNCHANGED <<half, lateDel, loopVars, shutDown, aborted>>
    PROVE  TypeInv'
<1>1. curThrd \in Loops /\ NextThrd \in Loops
  BY LoopsFacts DEF TypeInv, TypeOK
<1>2. ThrdArg[fd] < WorkerCnt => ThrdArg[fd] \in Loops
  BY ThrdArgAssumption, LoopsFacts
<1>3. PICK t \in Loops : NewJob(fd, "wr", ev, t) /\ curThrd' \in Loops
  <2>1. CASE ThrdArg[fd] >= WorkerCnt
    BY <1>1, <2>1 DEF NewWrJob
  <2>2. CASE ~(ThrdArg[fd] >= WorkerCnt)
    BY <1>1, <1>2, <2>2, ThrdArgAssumption, WorkerCntAssumption,
       EpfdSlotsAssumption DEF NewWrJob
  <2>3. QED BY <2>1, <2>2
<1>4. TypeOK'
  BY <1>3, NewJobTypes DEF TypeInv, TypeOK
<1>5. LoopShape'
  BY DEF TypeInv, LoopShape, loopVars
<1>6. QED BY <1>4, <1>5 DEF TypeInv

\* The operations on an existing job change fields of its record and the
\* interest lists, and nothing else that has a type to lose.
LEMMA JobUpdateTypes ==
    ASSUME TypeInv,
           job' \in [1 .. njobs -> JobRec],
           epoll' \in [Loops -> [Fds -> Entry]],
           half' \subseteq [by : Actors, job : 1 .. njobs],
           lateDel' \subseteq [by : Actors, fd : Fds],
           UNCHANGED <<njobs, ioJobs, freed, curThrd, loopVars, shutDown, aborted>>
    PROVE  TypeInv'
<1>1. Entry' = Entry /\ Event' = Event
  BY DEF Entry, Event
<1>2. TypeOK'
  BY <1>1 DEF TypeInv, TypeOK, loopVars
<1>3. LoopShape'
  BY DEF TypeInv, LoopShape, loopVars
<1>4. QED BY <1>2, <1>3 DEF TypeInv

\* The field updates that the operations make keep a job record a job record.
LEMMA JobRecUpdates ==
    ASSUME NEW r \in JobRec
    PROVE  /\ [r EXCEPT !.rdcb = TRUE, !.ev = r.ev \cup {"R"}] \in JobRec
           /\ [r EXCEPT !.ev = r.ev \cup {"W"}] \in JobRec
           /\ [r EXCEPT !.ev = r.ev \ {"W"}] \in JobRec
           /\ \A fr \in {"user", "null"}, d \in BOOLEAN, flag \in {"R", "W"} :
                [r EXCEPT !.free = fr, !.del = d, !.ev = r.ev \ {flag}] \in JobRec
           /\ \A fr \in {"user", "null"} :
                [r EXCEPT !.free = fr, !.del = TRUE] \in JobRec
BY DEF JobRec

LEMMA AddReadCtlTypes ==
    ASSUME TypeInv, NEW a \in Actors, NEW fd \in Fds, add_read_job_ctl(a, fd)
    PROVE  TypeInv'
<1> DEFINE j == find_io_job(fd)
<1>1. j \in 1 .. njobs /\ job[j].thrd \in Loops
  BY FindFacts DEF TypeInv, TypeOK, JobRec, add_read_job_ctl
<1>2. [by |-> a, job |-> j] \in [by : Actors, job : 1 .. njobs]
  BY <1>1
<1>3. half' \subseteq [by : Actors, job : 1 .. njobs]
  BY <1>2 DEF add_read_job_ctl, TypeInv, TypeOK
<1>4. epoll' \in [Loops -> [Fds -> Entry]]
  <2>1. CASE epoll' = CtlMod(job[j].thrd, fd, j, {"IN", "OUT"})
    BY <1>1, <2>1, CtlTypes DEF TypeInv
  <2>2. CASE UNCHANGED epoll
    BY <2>2 DEF TypeInv, TypeOK
  <2>3. CASE \E l \in AddTargets(ThrdArg[fd], fd) :
                l # NoLoop /\ epoll' = CtlAdd(l, fd, j, {"IN"})
    BY <1>1, <2>3, CtlTypes, AddTargetsFacts, ThrdArgAssumption DEF TypeInv
  <2>4. QED BY <2>1, <2>2, <2>3 DEF add_read_job_ctl
<1>5. QED
  BY <1>3, <1>4, JobUpdateTypes DEF add_read_job_ctl, mgrVars, TypeInv, TypeOK

LEMMA AddReadSetTypes ==
    ASSUME TypeInv, NEW a \in Actors, add_read_job_set(a)
    PROVE  TypeInv'
<1>1. PICK h \in half : job' = [job EXCEPT ![h.job].rdcb = TRUE,
                                          ![h.job].ev = @ \cup {"R"}]
  BY DEF add_read_job_set
<1>2. job' \in [1 .. njobs -> JobRec]
  <2>1. h.job \in 1 .. njobs /\ job[h.job] \in JobRec
    BY DEF TypeInv, TypeOK
  <2>2. [job[h.job] EXCEPT !.rdcb = TRUE, !.ev = job[h.job].ev \cup {"R"}] \in JobRec
    BY <2>1, JobRecUpdates
  <2>3. QED BY <1>1, <2>1, <2>2 DEF TypeInv, TypeOK
<1>3. QED BY <1>2, JobUpdateTypes DEF add_read_job_set, TypeInv, TypeOK

LEMMA AddWriteTypes ==
    ASSUME TypeInv, NEW a \in Actors, NEW fd \in Fds, add_write_job_more(a, fd)
    PROVE  TypeInv'
<1> DEFINE j == find_io_job(fd)
<1>1. j \in 1 .. njobs /\ job[j].thrd \in Loops
  BY FindFacts DEF TypeInv, TypeOK, JobRec, add_write_job_more
<1>2. job' \in [1 .. njobs -> JobRec]
  <2>1. [job[j] EXCEPT !.ev = job[j].ev \cup {"W"}] \in JobRec
    BY <1>1, JobRecUpdates DEF TypeInv, TypeOK
  <2>2. QED BY <1>1, <2>1 DEF TypeInv, TypeOK, add_write_job_more
<1>3. epoll' \in [Loops -> [Fds -> Entry]]
  <2>1. CASE epoll' = CtlMod(job[j].thrd, fd, j, {"IN", "OUT"})
    BY <1>1, <2>1, CtlTypes DEF TypeInv
  <2>2. CASE UNCHANGED epoll
    BY <2>2 DEF TypeInv, TypeOK
  <2>3. CASE \E l \in AddTargets(ThrdArg[fd], fd) :
                l # NoLoop /\ epoll' = CtlAdd(l, fd, j, {"OUT"})
    BY <1>1, <2>3, CtlTypes, AddTargetsFacts, ThrdArgAssumption DEF TypeInv
  <2>4. QED BY <2>1, <2>2, <2>3 DEF add_write_job_more
<1>4. QED
  BY <1>2, <1>3, JobUpdateTypes DEF add_write_job_more, TypeInv, TypeOK

LEMMA DelWrTypes ==
    ASSUME TypeInv, NEW a \in Actors, NEW fd \in Fds,
           NEW flag \in {"R", "W"}, NEW other \in {"R", "W"},
           del_wr_job(a, fd, flag, other)
    PROVE  TypeInv'
<1> DEFINE j == find_io_job(fd)
<1>1. j \in 1 .. njobs /\ job[j].thrd \in Loops /\ job[j].fd = fd
  BY FindFacts DEF TypeInv, TypeOK, JobRec, del_wr_job
<1>2. job' \in [1 .. njobs -> JobRec]
  <2>1. PICK fr \in {"user", "null"} : job' = DelFields(j, flag, other, fr)
    BY DEF del_wr_job, FreeArgs
  <2>2. [job[j] EXCEPT !.free = fr, !.del = other \notin job[j].ev,
                       !.ev = job[j].ev \ {flag}] \in JobRec
    BY <1>1, JobRecUpdates DEF TypeInv, TypeOK
  <2>3. QED BY <1>1, <2>1, <2>2 DEF DelFields, TypeInv, TypeOK
<1>3. epoll' \in [Loops -> [Fds -> Entry]]
  <2>1. Flags({other}) \in SUBSET {"IN", "OUT"}
    BY FlagsType
  <2>2. QED BY <1>1, <2>1, CtlTypes DEF del_wr_job, DelInterest, TypeInv, TypeOK
<1>4. QED BY <1>2, <1>3, JobUpdateTypes DEF del_wr_job, TypeInv, TypeOK

LEMMA DelListenMarkTypes ==
    ASSUME TypeInv, NEW a \in Actors, NEW fd \in Fds, del_listen_job_mark(a, fd)
    PROVE  TypeInv'
<1> DEFINE j == find_io_job(fd)
<1>1. j \in 1 .. njobs
  BY FindFacts DEF TypeInv, del_listen_job_mark
<1>2. job' \in [1 .. njobs -> JobRec]
  <2>1. PICK fr \in {"user", "null"} :
          job' = [job EXCEPT ![j].free = fr, ![j].del = TRUE]
    BY DEF del_listen_job_mark, FreeArgs
  <2>2. [job[j] EXCEPT !.free = fr, !.del = TRUE] \in JobRec
    BY <1>1, JobRecUpdates DEF TypeInv, TypeOK
  <2>3. QED BY <1>1, <2>1, <2>2 DEF TypeInv, TypeOK
<1>3. lateDel' \subseteq [by : Actors, fd : Fds]
  BY DEF del_listen_job_mark, TypeInv, TypeOK
<1>4. QED BY <1>2, <1>3, JobUpdateTypes DEF del_listen_job_mark, TypeInv, TypeOK

LEMMA DelListenCtlTypes ==
    ASSUME TypeInv, NEW a \in Actors, del_listen_job_ctl(a)
    PROVE  TypeInv'
<1>1. PICK d \in lateDel : epoll' = CtlDel(0, d.fd) /\ lateDel' = lateDel \ {d}
  BY DEF del_listen_job_ctl
<1>2. NoEntry \in Entry
  BY MaxJobsAssumption DEF NoEntry, Entry, NoJob, TypeInv, TypeOK
<1>3. epoll' \in [Loops -> [Fds -> Entry]]
  BY <1>1, <1>2, LoopsFacts DEF CtlDel, TypeInv, TypeOK
<1>4. QED
  BY <1>1, <1>3, JobUpdateTypes DEF del_listen_job_ctl, mgrVars, TypeInv, TypeOK
-----------------------------------------------------------------------------
\* A step of a loop that moves its program counter and nothing else.
LEMMA GotoTypes ==
    ASSUME TypeInv, NEW l \in Loops, NEW next \in Pcs,
           Goto(l, next),
           UNCHANGED <<njobs, ioJobs, freed, curThrd, half, lateDel, dels,
                       shutDown, aborted>>,
           job' \in [1 .. njobs -> JobRec], epoll' \in [Loops -> [Fds -> Entry]],
           pc[l] \in EventPcs <=> next \in EventPcs,
           pc[l] \in FreePcs <=> next \in FreePcs,
           next \in EventPcs \ {"events"} => cur[l] \in batch[l]
    PROVE  TypeInv'
<1>1. Entry' = Entry /\ Event' = Event
  BY DEF Entry, Event
<1>2. TypeOK'
  BY <1>1 DEF TypeInv, TypeOK, Goto
<1>3. LoopShape'
  BY DEF TypeInv, TypeOK, LoopShape, Goto
<1>4. QED BY <1>2, <1>3 DEF TypeInv

\* A loop is done with an event.
LEMMA EventDoneTypes ==
    ASSUME TypeInv, NEW l \in Loops, EventDone(l), Frame,
           pc[l] \in EventPcs \ {"events"}
    PROVE  TypeInv'
<1>1. Entry' = Entry /\ Event' = Event
  BY DEF Entry, Event, Frame, LoopKeeps
<1>2. NoEntry \in Entry
  BY MaxJobsAssumption DEF NoEntry, Entry, NoJob, TypeInv, TypeOK
<1>3. {"timers", "events"} \subseteq Pcs
  BY DEF Pcs, EventPcs
<1>4. TypeOK'
  BY <1>1, <1>2, <1>3 DEF TypeInv, TypeOK, EventDone, Frame, LoopKeeps
<1>5. LoopShape'
  <2>1. ASSUME NEW m \in Loops, m # l
        PROVE  /\ dels'[m] # {} <=> pc'[m] \in FreePcs
               /\ batch'[m] # {} <=> pc'[m] \in EventPcs
               /\ pc'[m] \in EventPcs \ {"events"} => cur'[m] \in batch'[m]
    BY <2>1 DEF TypeInv, TypeOK, LoopShape, EventDone, Frame
  <2>2. cur[l] \in batch[l] /\ dels[l] = {}
    BY DEF TypeInv, LoopShape, EventPcs, FreePcs
  <2>3. CASE batch[l] = {cur[l]}
    <3>1. pc'[l] = "timers" /\ batch'[l] = {} /\ dels'[l] = {}
      BY <2>2, <2>3 DEF TypeInv, TypeOK, EventDone, Frame
    <3>2. QED BY <2>1, <3>1 DEF LoopShape, EventPcs, FreePcs
  <2>4. CASE batch[l] # {cur[l]}
    <3>1. pc'[l] = "events" /\ batch'[l] # {} /\ dels'[l] = {}
      BY <2>2, <2>4 DEF TypeInv, TypeOK, EventDone, Frame
    <3>2. QED BY <2>1, <3>1 DEF LoopShape, EventPcs, FreePcs
  <2>5. QED BY <2>3, <2>4
<1>6. QED BY <1>4, <1>5 DEF TypeInv

LEMMA ReadDoneTypes ==
    ASSUME TypeInv, NEW l \in Loops, ReadDone(l), Frame,
           pc[l] \in {"read", "readend"}
    PROVE  TypeInv'
<1>1. pc[l] \in EventPcs \ {"events"} /\ pc[l] \notin FreePcs
  BY DEF EventPcs, FreePcs
<1>2. CASE Goto(l, "write1")
  <2>1. "write1" \in Pcs /\ "write1" \in EventPcs \ {"events"} /\ "write1" \notin FreePcs
    BY DEF Pcs, EventPcs, FreePcs
  <2>2. cur[l] \in batch[l]
    BY <1>1 DEF TypeInv, LoopShape
  <2>3. job' \in [1 .. njobs -> JobRec] /\ epoll' \in [Loops -> [Fds -> Entry]]
    BY DEF Frame, TypeInv, TypeOK
  <2>4. QED BY <1>1, <1>2, <2>1, <2>2, <2>3, GotoTypes DEF Frame, LoopKeeps
<1>3. CASE EventDone(l)
  BY <1>1, <1>3, EventDoneTypes
<1>4. QED BY <1>2, <1>3 DEF ReadDone

LEMMA ReapTypes ==
    ASSUME TypeInv, NEW l \in Loops, pc[l] \in {"top", "out"},
           NEW last \in BOOLEAN, Reap(l, last)
    PROVE  TypeInv'
<1>1. Entry' = Entry /\ Event' = Event
  BY DEF Entry, Event, Reap, LoopKeeps
<1>2. Deleted(l) \subseteq 1 .. njobs
  BY DEF Deleted, TypeInv, TypeOK
<1>3. pc'[l] \in {"free", "lastfree", "wait", "exit"}
  BY DEF Reap, TypeInv, TypeOK
<1>4. TypeOK'
  BY <1>1, <1>2, <1>3 DEF TypeInv, TypeOK, Reap, LoopKeeps, Pcs, FreePcs
<1>5. LoopShape'
  <2>1. ASSUME NEW m \in Loops, m # l
        PROVE  /\ dels'[m] # {} <=> pc'[m] \in FreePcs
               /\ batch'[m] # {} <=> pc'[m] \in EventPcs
               /\ pc'[m] \in EventPcs \ {"events"} => cur'[m] \in batch'[m]
    BY <2>1 DEF TypeInv, TypeOK, LoopShape, Reap
  <2>2. dels'[l] # {} <=> pc'[l] \in FreePcs
    BY DEF TypeInv, TypeOK, Reap, FreePcs
  <2>3. batch'[l] = {} /\ pc'[l] \notin EventPcs
    BY <1>3 DEF TypeInv, LoopShape, Reap, EventPcs
  <2>4. QED BY <2>1, <2>2, <2>3 DEF LoopShape
<1>6. QED BY <1>4, <1>5 DEF TypeInv

LEMMA FreeJobTypes ==
    ASSUME TypeInv, NEW l \in Loops, FreeJob(l)
    PROVE  TypeInv'
<1> DEFINE j == First(dels[l])
           rest == dels[l] \ {j}
<1>1. Entry' = Entry /\ Event' = Event
  BY DEF Entry, Event, FreeJob, LoopKeeps
<1>2. j \in dels[l] /\ j \in 1 .. njobs
  <2>1. dels[l] # {} /\ dels[l] \subseteq 1 .. njobs /\ njobs \in Nat
    BY MaxJobsAssumption DEF FreeJob, TypeInv, TypeOK, LoopShape
  <2>2. \A i \in dels[l] : i \in Nat
    BY <2>1
  <2>3. dels[l] \subseteq Nat
    BY <2>2, Zenon
  <2>4. QED BY <2>1, <2>3, FirstIn
<1>3. CASE job[j].free = "null"
  <2>1. UNCHANGED <<epoll, freed, pc, dels, job, ioJobs, batch, cur, njobs,
                    curThrd, half, lateDel, shutDown>> /\ aborted' = TRUE
    BY <1>3 DEF FreeJob, LoopKeeps
  <2>2. QED BY <1>1, <2>1 DEF TypeInv, TypeOK, LoopShape
<1>4. CASE job[j].free # "null"
  <2>1. /\ epoll' = [m \in Loops |-> [epoll[m] EXCEPT ![job[j].fd] = NoEntry]]
        /\ freed' = freed \cup {j}
        /\ dels' = [dels EXCEPT ![l] = rest]
        /\ pc' = [pc EXCEPT ![l] =
                    CASE rest # {} -> pc[l]
                      [] rest = {} /\ pc[l] = "free" -> "wait"
                      [] OTHER -> "exit"]
        /\ UNCHANGED <<aborted, job, ioJobs, batch, cur, njobs, curThrd, half,
                       lateDel, shutDown>>
    BY <1>4 DEF FreeJob, LoopKeeps
  <2>2. \/ rest # {} /\ pc'[l] = pc[l]
        \/ rest = {} /\ pc'[l] \in {"wait", "exit"}
    BY <2>1 DEF TypeInv, TypeOK
  <2>3. epoll' \in [Loops -> [Fds -> Entry]]
    <3>1. NoEntry \in Entry
      BY MaxJobsAssumption DEF NoEntry, Entry, NoJob, TypeInv, TypeOK
    <3>2. QED BY <2>1, <3>1 DEF TypeInv, TypeOK
  <2>4. pc[l] \in FreePcs /\ pc'[l] \in Pcs
    BY <2>2 DEF FreeJob, FreePcs, Pcs
  <2>5. TypeOK'
    BY <1>1, <1>2, <2>1, <2>3, <2>4 DEF TypeInv, TypeOK
  <2>6. ASSUME NEW m \in Loops, m # l
        PROVE  /\ dels'[m] # {} <=> pc'[m] \in FreePcs
               /\ batch'[m] # {} <=> pc'[m] \in EventPcs
               /\ pc'[m] \in EventPcs \ {"events"} => cur'[m] \in batch'[m]
    BY <2>1, <2>6 DEF TypeInv, TypeOK, LoopShape
  <2>7. dels'[l] # {} <=> pc'[l] \in FreePcs
    BY <2>1, <2>2, <2>4 DEF TypeInv, TypeOK, FreePcs
  <2>8. batch'[l] = {} /\ pc'[l] \notin EventPcs
    BY <2>1, <2>2, <2>4 DEF TypeInv, LoopShape, EventPcs, FreePcs
  <2>9. LoopShape'
    BY <2>6, <2>7, <2>8 DEF LoopShape
  <2>10. QED BY <2>5, <2>9 DEF TypeInv
<1>5. QED BY <1>3, <1>4

LEMMA EpollReadyTypes ==
    ASSUME TypeInv, NEW l \in Loops, EpollReady(l)
    PROVE  TypeInv'
<1>1. Entry' = Entry /\ Event' = Event
  BY DEF Entry, Event, EpollReady, LoopKeeps
<1>2. PICK fds \in SUBSET {f \in Fds : epoll[l][f].job # NoJob} :
        \E fired \in [fds -> SUBSET {"IN", "OUT"}] :
          /\ fds # {}
          /\ batch' = [batch EXCEPT ![l] =
                         {[job |-> epoll[l][f].job, ev |-> fired[f]] : f \in fds}]
  BY DEF EpollReady
<1>3. PICK fired \in [fds -> SUBSET {"IN", "OUT"}] :
          /\ fds # {}
          /\ batch' = [batch EXCEPT ![l] =
                         {[job |-> epoll[l][f].job, ev |-> fired[f]] : f \in fds}]
  BY <1>2
<1>4. \A f \in fds : [job |-> epoll[l][f].job, ev |-> fired[f]] \in Event
  <2>1. TAKE f \in fds
  <2>2. f \in Fds /\ epoll[l][f] \in Entry /\ epoll[l][f].job # NoJob
    BY <1>2 DEF TypeInv, TypeOK
  <2>3. epoll[l][f].job \in 1 .. njobs
    BY <2>2, MaxJobsAssumption DEF Entry, NoJob, TypeInv, TypeOK
  <2>4. QED BY <2>3 DEF Event
<1>5. batch' \in [Loops -> SUBSET Event] /\ batch'[l] # {}
  <2> DEFINE es == {[job |-> epoll[l][f].job, ev |-> fired[f]] : f \in fds}
  <2>1. es \subseteq Event
    BY <1>4
  <2>2. es # {}
    BY <1>3
  <2>3. batch' = [batch EXCEPT ![l] = es]
    BY <1>3
  <2> HIDE DEF es
  <2>4. QED BY <2>1, <2>2, <2>3 DEF TypeInv, TypeOK
<1>6. pc' = [pc EXCEPT ![l] = "events"] /\ "events" \in Pcs
  BY DEF EpollReady, Pcs, EventPcs
<1>7. TypeOK'
  BY <1>1, <1>5, <1>6 DEF TypeInv, TypeOK, EpollReady, LoopKeeps
<1>8. LoopShape'
  <2>1. ASSUME NEW m \in Loops, m # l
        PROVE  /\ dels'[m] # {} <=> pc'[m] \in FreePcs
               /\ batch'[m] # {} <=> pc'[m] \in EventPcs
               /\ pc'[m] \in EventPcs \ {"events"} => cur'[m] \in batch'[m]
    BY <1>3, <1>6, <2>1 DEF TypeInv, TypeOK, LoopShape, EpollReady
  <2>2. dels'[l] = {} /\ pc'[l] = "events"
    BY <1>6 DEF TypeInv, TypeOK, LoopShape, EpollReady, FreePcs
  <2>3. QED BY <1>5, <2>1, <2>2 DEF LoopShape, FreePcs, EventPcs
<1>9. QED BY <1>7, <1>8 DEF TypeInv

LEMMA DispatchTypes ==
    ASSUME TypeInv, NEW l \in Loops, Dispatch(l)
    PROVE  TypeInv'
<1>1. Entry' = Entry /\ Event' = Event
  BY DEF Entry, Event, Dispatch, Frame, LoopKeeps
<1>2. PICK e \in batch[l] : cur' = [cur EXCEPT ![l] = e]
  BY DEF Dispatch
<1>3. e \in Event /\ e \in Entry
  BY MaxJobsAssumption DEF Entry, Event, TypeInv, TypeOK
<1>4. \E next \in {"read", "write1"} : pc' = [pc EXCEPT ![l] = next]
  BY DEF Dispatch
<1>5. TypeOK'
  BY <1>1, <1>2, <1>3, <1>4
     DEF TypeInv, TypeOK, Dispatch, Frame, LoopKeeps, Pcs, EventPcs
<1>6. LoopShape'
  BY <1>2, <1>4 DEF TypeInv, TypeOK, LoopShape, Dispatch, Frame, EventPcs, FreePcs
<1>7. QED BY <1>5, <1>6 DEF TypeInv

LEMMA WriteClearTypes ==
    ASSUME TypeInv, NEW l \in Loops, WriteClear(l)
    PROVE  TypeInv'
<1> DEFINE j == cur[l].job
<1>1. pc[l] = "write2" /\ Goto(l, "writecb")
  BY DEF WriteClear
<1>2. cur[l] \in batch[l] /\ cur[l] \in Event
  BY <1>1 DEF TypeInv, TypeOK, LoopShape, EventPcs
<1>3. /\ j \in 1 .. njobs /\ job[j] \in JobRec
      /\ job[j].thrd \in Loops /\ job[j].fd \in Fds
  BY <1>2 DEF Event, TypeInv, TypeOK, JobRec
<1>4. job' \in [1 .. njobs -> JobRec]
  <2>1. [job[j] EXCEPT !.ev = job[j].ev \ {"W"}] \in JobRec
    BY <1>3, JobRecUpdates
  <2>2. QED BY <1>3, <2>1 DEF WriteClear, TypeInv, TypeOK
<1>5. epoll' \in [Loops -> [Fds -> Entry]]
  BY <1>3, CtlTypes DEF WriteClear, del_io_writing_evt, TypeInv
<1>6. /\ "writecb" \in Pcs /\ "writecb" \in EventPcs /\ pc[l] \in EventPcs
      /\ "writecb" \notin FreePcs /\ pc[l] \notin FreePcs
  BY <1>1 DEF Pcs, EventPcs, FreePcs
<1>7. QED BY <1>1, <1>2, <1>4, <1>5, <1>6, GotoTypes DEF WriteClear, LoopKeeps

\* The steps of a loop that only move its program counter.
LEMMA MoveTypes ==
    ASSUME TypeInv, NEW l \in Loops,
           \/ EpollIdle(l) \/ RecvData(l) \/ Accept(l)
           \/ ReadCbReturn(l) \/ TimersReturn(l)
    PROVE  TypeInv'
<1>1. /\ job' \in [1 .. njobs -> JobRec]
      /\ epoll' \in [Loops -> [Fds -> Entry]]
      /\ UNCHANGED <<njobs, ioJobs, freed, curThrd, half, lateDel, dels,
                     shutDown, aborted>>
  BY DEF EpollIdle, RecvData, Accept, ReadCbReturn, TimersReturn, Frame,
         LoopKeeps, TypeInv, TypeOK
<1>2. PICK next \in Pcs :
        /\ Goto(l, next)
        /\ next \notin FreePcs /\ pc[l] \notin FreePcs
        /\ pc[l] \in EventPcs <=> next \in EventPcs
        /\ next \in EventPcs => pc[l] \in EventPcs \ {"events"}
  BY DEF EpollIdle, RecvData, Accept, ReadCbReturn, TimersReturn, Goto, Pcs,
         EventPcs, FreePcs
<1>3. next \in EventPcs => cur[l] \in batch[l]
  BY <1>2 DEF TypeInv, LoopShape
<1>4. QED BY <1>1, <1>2, <1>3, GotoTypes

LEMMA LoopTypes ==
    ASSUME TypeInv, NEW l \in Loops, Loop(l)
    PROVE  TypeInv'
<1>1. CASE LoopTop(l)
  BY <1>1, ReapTypes DEF LoopTop, TypeInv, TypeOK
<1>2. CASE LoopOut(l)
  BY <1>2, ReapTypes DEF LoopOut
<1>3. CASE FreeJob(l)
  BY <1>3, FreeJobTypes
<1>4. CASE EpollReady(l)
  BY <1>4, EpollReadyTypes
<1>5. CASE Dispatch(l)
  BY <1>5, DispatchTypes
<1>6. CASE RecvDrained(l) \/ AcceptDrained(l) \/ ReadEndReturn(l)
  BY <1>6, ReadDoneTypes DEF RecvDrained, AcceptDrained, ReadEndReturn
<1>7. CASE WriteCheck(l)
  <2>1. pc[l] = "write1" /\ Frame
    BY <1>7 DEF WriteCheck
  <2>2. /\ pc[l] \in EventPcs \ {"events"} /\ pc[l] \notin FreePcs
        /\ "write2" \in Pcs /\ "write2" \in EventPcs /\ "write2" \notin FreePcs
    BY <2>1 DEF Pcs, EventPcs, FreePcs
  <2>3. CASE EventDone(l)
    BY <2>1, <2>2, <2>3, EventDoneTypes
  <2>4. CASE Goto(l, "write2")
    <3>1. job' \in [1 .. njobs -> JobRec] /\ epoll' \in [Loops -> [Fds -> Entry]]
      BY <2>1 DEF Frame, TypeInv, TypeOK
    <3>2. cur[l] \in batch[l]
      BY <2>2 DEF TypeInv, LoopShape
    <3>3. QED BY <2>1, <2>2, <2>4, <3>1, <3>2, GotoTypes DEF Frame, LoopKeeps
  <2>5. QED BY <1>7, <2>3, <2>4 DEF WriteCheck
<1>8. CASE WriteClear(l)
  BY <1>8, WriteClearTypes
<1>9. CASE WriteCbReturn(l)
  <2>1. pc[l] \in EventPcs \ {"events"}
    BY <1>9 DEF WriteCbReturn, EventPcs
  <2>2. QED BY <1>9, <2>1, EventDoneTypes DEF WriteCbReturn
<1>10. CASE \/ EpollIdle(l) \/ RecvData(l) \/ Accept(l)
            \/ ReadCbReturn(l) \/ TimersReturn(l)
  BY <1>10, MoveTypes
<1>11. QED
  BY <1>1, <1>2, <1>3, <1>4, <1>5, <1>6, <1>7, <1>8, <1>9, <1>10 DEF Loop

LEMMA CallTypes ==
    ASSUME TypeInv, NEW a \in Actors, Call(a)
    PROVE  TypeInv'
<1>1. ASSUME NEW fd \in Fds, add_listen_job(a, fd) PROVE TypeInv'
  BY <1>1, AddListenTypes
<1>2. ASSUME NEW fd \in Fds, add_read_job_new(a, fd) PROVE TypeInv'
  BY <1>2, NewWrJobTypes DEF add_read_job_new
<1>3. ASSUME NEW fd \in Fds, add_read_job_ctl(a, fd) PROVE TypeInv'
  BY <1>3, AddReadCtlTypes
<1>4. ASSUME NEW fd \in Fds, add_write_job_new(a, fd) PROVE TypeInv'
  BY <1>4, NewWrJobTypes DEF add_write_job_new
<1>5. ASSUME NEW fd \in Fds, add_write_job_more(a, fd) PROVE TypeInv'
  BY <1>5, AddWriteTypes
<1>6. ASSUME NEW fd \in Fds, del_read_job(a, fd) \/ del_write_job(a, fd) PROVE TypeInv'
  BY <1>6, DelWrTypes DEF del_read_job, del_write_job
<1>7. ASSUME NEW fd \in Fds, del_listen_job_mark(a, fd) PROVE TypeInv'
  BY <1>7, DelListenMarkTypes
<1>8. CASE add_read_job_set(a)
  BY <1>8, AddReadSetTypes
<1>9. CASE del_listen_job_ctl(a)
  BY <1>9, DelListenCtlTypes
<1>10. QED
  BY <1>1, <1>2, <1>3, <1>4, <1>5, <1>6, <1>7, <1>8, <1>9 DEF Call

LEMMA TypeInvStep == TypeInv /\ [Next]_vars => TypeInv'
<1> SUFFICES ASSUME TypeInv, [Next]_vars PROVE TypeInv'
  OBVIOUS
<1>1. CASE \E a \in Actors : Call(a)
  BY <1>1, CallTypes
<1>2. CASE \E l \in Loops : Loop(l)
  BY <1>2, LoopTypes
<1>3. CASE let_stop
  BY <1>3 DEF let_stop, mgrVars, loopVars, TypeInv, TypeOK, LoopShape, Entry, Event
<1>4. CASE UNCHANGED vars
  BY <1>4 DEF vars, TypeInv, TypeOK, LoopShape, Entry, Event
<1>5. QED BY <1>1, <1>2, <1>3, <1>4 DEF Next

\* Type correctness of the job list, the interest lists and the loops, for any
\* number of loops, clients, descriptors and jobs, and whatever rules of use the
\* application breaks.
THEOREM TypeCorrect == Spec => []TypeOK
<1>1. TypeInv => TypeOK
  BY DEF TypeInv
<1>2. QED BY <1>1, TypeInvInit, TypeInvStep, PTL DEF Spec
-----------------------------------------------------------------------------
(***************************************************************************)
(* Memory safety of the job pointers.                                      *)
(*                                                                         *)
(* The one rule of use it needs is keepEvent (nor that, where every        *)
(* descriptor is pinned to a loop).  Without it add_read_job and           *)
(* add_write_job register an existing job with m_epfd[thrd_index], the     *)
(* caller's index, which need not be the job's own loop: then one loop     *)
(* handles events of a job that another loop frees.                        *)
(***************************************************************************)

\* The jobs of a descriptor that the application pins to a loop belong to it.
Pinned ==
    \A j \in 1 .. njobs :
        job[j].kind = "wr" /\ ThrdArg[job[j].fd] \in Loops
            => job[j].thrd = ThrdArg[job[j].fd]

\* keepEvent is obeyed, or there is no need to: all descriptors are pinned to
\* loops, as those of the connection classes are to loop 0.
KeepsEvent == "keepEvent" \in Rules \/ \A fd \in Fds : ThrdArg[fd] \in Loops

MemInv == TypeInv /\ Pinned /\ NoDangling /\ OwnedOnce

LEMMA MemInvInit == Init => MemInv
<1> SUFFICES ASSUME Init PROVE MemInv
  OBVIOUS
<1>1. TypeInv
  BY TypeInvInit
<1>2. Pinned
  BY DEF Init, Pinned
<1>3. NoDangling
  BY DEF Init, NoDangling, NoEntry, NoJob, EventPcs
<1>4. OwnedOnce
  <2>1. Alive = {} /\ UNION {dels[l] : l \in Loops} = {}
    BY DEF Init, Alive
  <2>2. QED BY <2>1 DEF Init, OwnedOnce, FreePcs
<1>5. QED BY <1>1, <1>2, <1>3, <1>4 DEF MemInv

\* The operations on existing jobs.  They leave the list alone, never change a
\* job's descriptor or thread, never take back a deletion, and enter into the
\* interest list of a loop only listed jobs of that loop.
ListKept == UNCHANGED <<njobs, ioJobs, freed, batch, cur, dels>>

FieldsKept ==
    \A j \in 1 .. njobs :
        /\ job'[j].fd = job[j].fd /\ job'[j].thrd = job[j].thrd
        /\ job'[j].kind = job[j].kind
        /\ job[j].del => job'[j].del

EntriesSafe ==
    \A l \in Loops, f \in Fds :
        \/ epoll'[l][f].job \in {NoJob, epoll[l][f].job}
        \/ /\ epoll'[l][f].job \in ioJobs
           /\ job[epoll'[l][f].job].fd = f
           /\ job[epoll'[l][f].job].thrd = l

LEMMA UpdateSafe ==
    ASSUME MemInv, TypeInv', ListKept, FieldsKept, EntriesSafe
    PROVE  MemInv'
<1>1. Pinned'
  BY DEF MemInv, Pinned, ListKept, FieldsKept
<1>2. Alive' = Alive /\ ioJobs \subseteq Alive /\ Alive \subseteq 1 .. njobs
  BY DEF Alive, MemInv, OwnedOnce, ListKept
<1>3. NoDangling'
  <2>1. ASSUME NEW l \in Loops, NEW f \in Fds, epoll'[l][f].job # NoJob
        PROVE  /\ epoll'[l][f].job \in Alive'
               /\ job'[epoll'[l][f].job].fd = f
               /\ job'[epoll'[l][f].job].thrd = l
    <3> DEFINE j == epoll'[l][f].job
    <3>1. j \in Alive /\ job[j].fd = f /\ job[j].thrd = l
      <4>1. CASE j = epoll[l][f].job
        BY <2>1, <4>1 DEF MemInv, NoDangling
      <4>2. CASE j \in ioJobs /\ job[j].fd = f /\ job[j].thrd = l
        BY <1>2, <4>2
      <4>3. QED BY <2>1, <4>1, <4>2 DEF EntriesSafe
    <3>2. j \in 1 .. njobs
      BY <1>2, <3>1
    <3> HIDE DEF j
    <3>3. j \in Alive' /\ job'[j].fd = f /\ job'[j].thrd = l
      BY <1>2, <3>1, <3>2 DEF FieldsKept
    <3>4. QED BY <3>3 DEF j
  <2>2. ASSUME NEW l \in Loops, NEW e \in batch'[l]
        PROVE  e.job \in Alive' /\ job'[e.job].thrd = l
    <3>1. e.job \in Alive /\ job[e.job].thrd = l
      BY DEF MemInv, NoDangling, ListKept
    <3>2. e.job \in 1 .. njobs
      BY <1>2, <3>1
    <3>3. QED BY <1>2, <3>1, <3>2 DEF FieldsKept
  <2>3. ASSUME NEW l \in Loops, pc'[l] \in EventPcs \ {"events"}
        PROVE  cur'[l] \in batch'[l]
    BY <2>3 DEF TypeInv, LoopShape
  <2>4. QED BY <2>1, <2>2, <2>3 DEF NoDangling
<1>4. OwnedOnce'
  <2>1. \A l \in Loops : dels[l] \subseteq 1 .. njobs
    BY DEF MemInv, TypeInv, TypeOK
  <2>2. \A l \in Loops : dels'[l] # {} <=> pc'[l] \in FreePcs
    BY DEF TypeInv, LoopShape
  <2>3. QED BY <1>2, <2>1, <2>2 DEF MemInv, OwnedOnce, ListKept, FieldsKept
<1>5. QED BY <1>1, <1>3, <1>4 DEF MemInv

\* The registrations that epoll_ctl leaves when it names job j on loop t.
LEMMA CtlEntries ==
    ASSUME TypeInv, NEW t \in Loops, NEW fd \in Fds, NEW j, NEW ev,
           NEW l \in Loops, NEW f \in Fds
    PROVE  /\ \/ CtlMod(t, fd, j, ev)[l][f] = epoll[l][f]
              \/ l = t /\ f = fd /\ CtlMod(t, fd, j, ev)[l][f].job = j
           /\ \/ CtlAdd(t, fd, j, ev)[l][f] = epoll[l][f]
              \/ l = t /\ f = fd /\ CtlAdd(t, fd, j, ev)[l][f].job = j
           /\ \/ CtlDel(t, fd)[l][f] = epoll[l][f]
              \/ CtlDel(t, fd)[l][f].job = NoJob
BY DEF TypeInv, TypeOK, CtlMod, CtlAdd, CtlDel, NoEntry

LEMMA CtlSafe ==
    ASSUME TypeInv, NEW j \in ioJobs, NEW ev,
           \/ UNCHANGED epoll
           \/ epoll' = CtlMod(job[j].thrd, job[j].fd, j, ev)
           \/ epoll' = CtlAdd(job[j].thrd, job[j].fd, j, ev)
           \/ epoll' = CtlDel(job[j].thrd, job[j].fd)
    PROVE  EntriesSafe
<1>1. job[j].thrd \in Loops /\ job[j].fd \in Fds
  BY DEF TypeInv, TypeOK, JobRec
<1>2. SUFFICES ASSUME NEW l \in Loops, NEW f \in Fds
               PROVE  \/ epoll'[l][f].job \in {NoJob, epoll[l][f].job}
                      \/ /\ epoll'[l][f].job = j
                         /\ job[j].fd = f /\ job[j].thrd = l
  BY DEF EntriesSafe
<1>3. CASE UNCHANGED epoll
  BY <1>3
<1>4. CASE epoll' = CtlMod(job[j].thrd, job[j].fd, j, ev)
  BY <1>1, <1>4, CtlEntries
<1>5. CASE epoll' = CtlAdd(job[j].thrd, job[j].fd, j, ev)
  BY <1>1, <1>5, CtlEntries
<1>6. CASE epoll' = CtlDel(job[j].thrd, job[j].fd)
  BY <1>1, <1>6, CtlEntries
<1>7. QED BY <1>3, <1>4, <1>5, <1>6

\* Where keepEvent holds, an event added to a job without events goes to the
\* job's own loop.
LEMMA ExtendOwnLoop ==
    ASSUME MemInv, KeepsEvent, NEW fd \in Fds,
           find_io_job(fd) # NoJob, MayExtend(fd, find_io_job(fd)),
           job[find_io_job(fd)].ev = {},
           NEW l \in AddTargets(ThrdArg[fd], fd), l # NoLoop
    PROVE  l \in Loops /\ l = job[find_io_job(fd)].thrd
<1>1. ThrdArg[fd] \in Loops /\ ThrdArg[fd] \in Nat
  BY ThrdArgAssumption DEF MayExtend, KeepsEvent
<1>2. l = ThrdArg[fd]
  BY <1>1, AddTargetsFacts
<1>3. QED BY <1>1, <1>2, FindFacts DEF MemInv, TypeInv, Pinned, MayExtend
-----------------------------------------------------------------------------
LEMMA AddReadCtlSafe ==
    ASSUME MemInv, TypeInv', KeepsEvent,
           NEW a \in Actors, NEW fd \in Fds, add_read_job_ctl(a, fd)
    PROVE  MemInv'
<1> DEFINE j == find_io_job(fd)
<1>1. /\ j # NoJob /\ j \in ioJobs /\ j \in 1 .. njobs
      /\ job[j].fd = fd /\ job[j].thrd \in Loops /\ job[j].ev \subseteq {"R", "W"}
  BY FindFacts DEF MemInv, TypeInv, TypeOK, JobRec, add_read_job_ctl
<1>2. \/ UNCHANGED epoll
      \/ \E ev : epoll' = CtlMod(job[j].thrd, job[j].fd, j, ev)
      \/ \E ev : epoll' = CtlAdd(job[j].thrd, job[j].fd, j, ev)
  <2>1. CASE "W" \in job[j].ev
    BY <1>1, <2>1 DEF add_read_job_ctl
  <2>2. CASE "W" \notin job[j].ev /\ "R" \in job[j].ev
    BY <2>2 DEF add_read_job_ctl
  <2>3. CASE "W" \notin job[j].ev /\ "R" \notin job[j].ev
    <3>1. job[j].ev = {}
      BY <1>1, <2>3
    <3>2. PICK l \in AddTargets(ThrdArg[fd], fd) :
            \/ l = NoLoop /\ UNCHANGED epoll
            \/ l # NoLoop /\ epoll' = CtlAdd(l, fd, j, {"IN"})
      BY <2>3 DEF add_read_job_ctl
    <3>3. l # NoLoop => l \in Loops /\ l = job[j].thrd
      BY <1>1, <3>1, ExtendOwnLoop DEF add_read_job_ctl
    <3>4. QED BY <1>1, <3>2, <3>3
  <2>4. QED BY <2>1, <2>2, <2>3
<1>3. ListKept /\ FieldsKept
  BY DEF add_read_job_ctl, mgrVars, loopVars, ListKept, FieldsKept
<1> HIDE DEF j
<1>4. EntriesSafe
  BY <1>1, <1>2, CtlSafe DEF MemInv
<1>5. QED BY <1>3, <1>4, UpdateSafe

LEMMA AddReadSetSafe ==
    ASSUME MemInv, TypeInv', NEW a \in Actors, add_read_job_set(a)
    PROVE  MemInv'
<1>1. PICK h \in half : job' = [job EXCEPT ![h.job].rdcb = TRUE,
                                          ![h.job].ev = @ \cup {"R"}]
  BY DEF add_read_job_set
<1>2. h.job \in 1 .. njobs /\ job \in [1 .. njobs -> JobRec]
  BY DEF MemInv, TypeInv, TypeOK
<1>3. FieldsKept
  BY <1>1, <1>2 DEF JobRec, FieldsKept
<1>4. ListKept /\ EntriesSafe
  BY DEF add_read_job_set, loopVars, ListKept, EntriesSafe
<1>5. QED BY <1>3, <1>4, UpdateSafe

LEMMA AddWriteSafe ==
    ASSUME MemInv, TypeInv', KeepsEvent,
           NEW a \in Actors, NEW fd \in Fds, add_write_job_more(a, fd)
    PROVE  MemInv'
<1> DEFINE j == find_io_job(fd)
<1>1. /\ j # NoJob /\ j \in ioJobs /\ j \in 1 .. njobs
      /\ job[j].fd = fd /\ job[j].thrd \in Loops /\ job[j].ev \subseteq {"R", "W"}
      /\ job \in [1 .. njobs -> JobRec]
  BY FindFacts DEF MemInv, TypeInv, TypeOK, JobRec, add_write_job_more
<1>2. \/ UNCHANGED epoll
      \/ \E ev : epoll' = CtlMod(job[j].thrd, job[j].fd, j, ev)
      \/ \E ev : epoll' = CtlAdd(job[j].thrd, job[j].fd, j, ev)
  <2>1. CASE "R" \in job[j].ev
    BY <1>1, <2>1 DEF add_write_job_more
  <2>2. CASE "R" \notin job[j].ev
    <3>1. job[j].ev = {}
      BY <1>1, <2>2 DEF add_write_job_more
    <3>2. PICK l \in AddTargets(ThrdArg[fd], fd) :
            epoll' = IF l = NoLoop THEN epoll ELSE CtlAdd(l, fd, j, {"OUT"})
      BY <2>2 DEF add_write_job_more
    <3>3. l # NoLoop => l \in Loops /\ l = job[j].thrd
      BY <1>1, <3>1, ExtendOwnLoop DEF add_write_job_more
    <3>4. QED BY <1>1, <3>2, <3>3
  <2>3. QED BY <2>1, <2>2
<1>3. job' = [job EXCEPT ![j].ev = @ \cup {"W"}]
  BY DEF add_write_job_more
<1>4. ListKept
  BY DEF add_write_job_more, loopVars, ListKept
<1> HIDE DEF j
<1>5. EntriesSafe
  BY <1>1, <1>2, CtlSafe DEF MemInv
<1>6. FieldsKept
  BY <1>1, <1>3 DEF JobRec, FieldsKept
<1>7. QED BY <1>4, <1>5, <1>6, UpdateSafe

LEMMA DelWrSafe ==
    ASSUME MemInv, TypeInv', NEW a \in Actors, NEW fd \in Fds,
           NEW flag, NEW other, del_wr_job(a, fd, flag, other)
    PROVE  MemInv'
<1> DEFINE j == find_io_job(fd)
<1>1. /\ j # NoJob /\ j \in ioJobs /\ j \in 1 .. njobs
      /\ job[j].fd = fd /\ job[j].thrd \in Loops /\ ~job[j].del
      /\ job \in [1 .. njobs -> JobRec]
  BY FindFacts DEF MemInv, TypeInv, TypeOK, JobRec, del_wr_job
<1>2. PICK fr : job' = DelFields(j, flag, other, fr)
  BY DEF del_wr_job
<1>3. epoll' = DelInterest(j, flag, other)
  BY DEF del_wr_job
<1>4. ListKept
  BY DEF del_wr_job, loopVars, ListKept
<1> HIDE DEF j
<1>5. EntriesSafe
  <2>1. \/ UNCHANGED epoll
        \/ epoll' = CtlMod(job[j].thrd, job[j].fd, j, Flags({other}))
        \/ epoll' = CtlDel(job[j].thrd, job[j].fd)
    BY <1>3 DEF DelInterest
  <2>2. QED BY <1>1, <2>1, CtlSafe DEF MemInv
<1>6. FieldsKept
  BY <1>1, <1>2 DEF JobRec, DelFields, FieldsKept
<1>7. QED BY <1>4, <1>5, <1>6, UpdateSafe

LEMMA DelListenMarkSafe ==
    ASSUME MemInv, TypeInv', NEW a \in Actors, NEW fd \in Fds,
           del_listen_job_mark(a, fd)
    PROVE  MemInv'
<1> DEFINE j == find_io_job(fd)
<1>1. j \in 1 .. njobs /\ job \in [1 .. njobs -> JobRec]
  BY FindFacts DEF MemInv, TypeInv, TypeOK, del_listen_job_mark
<1>2. PICK fr : job' = [job EXCEPT ![j].free = fr, ![j].del = TRUE]
  BY DEF del_listen_job_mark
<1>3. ListKept /\ EntriesSafe
  BY DEF del_listen_job_mark, loopVars, ListKept, EntriesSafe
<1> HIDE DEF j
<1>4. FieldsKept
  BY <1>1, <1>2 DEF JobRec, FieldsKept
<1>5. QED BY <1>3, <1>4, UpdateSafe

LEMMA DelListenCtlSafe ==
    ASSUME MemInv, TypeInv', NEW a \in Actors, del_listen_job_ctl(a)
    PROVE  MemInv'
<1>1. PICK d \in lateDel : epoll' = CtlDel(0, d.fd)
  BY DEF del_listen_job_ctl
<1>2. d.fd \in Fds
  BY DEF MemInv, TypeInv, TypeOK
<1>3. EntriesSafe
  <2>1. \A l \in Loops, f \in Fds :
          \/ epoll'[l][f] = epoll[l][f] \/ epoll'[l][f].job = NoJob
    BY <1>1, <1>2, CtlEntries, LoopsFacts DEF MemInv
  <2>2. QED BY <2>1 DEF EntriesSafe
<1>4. ListKept /\ FieldsKept
  BY DEF del_listen_job_ctl, mgrVars, loopVars, ListKept, FieldsKept
<1>5. QED BY <1>3, <1>4, UpdateSafe

\* A new job enters the list and the interest list of its own loop together.
LEMMA NewJobSafe ==
    ASSUME MemInv, TypeInv', NEW fd \in Fds, NEW kind, NEW ev, NEW thrd \in Loops,
           NewJob(fd, kind, ev, thrd), UNCHANGED loopVars,
           kind = "wr" /\ ThrdArg[fd] \in Loops => thrd = ThrdArg[fd]
    PROVE  MemInv'
<1>1. CASE UNCHANGED <<njobs, job, ioJobs, epoll>>
  <2>1. ListKept /\ FieldsKept /\ EntriesSafe
    BY <1>1 DEF NewJob, loopVars, ListKept, FieldsKept, EntriesSafe
  <2>2. QED BY <2>1, UpdateSafe
<1>2. CASE ~UNCHANGED <<njobs, job, ioJobs, epoll>>
  <2> DEFINE new == njobs + 1
  <2>1. PICK l \in AddTargets(thrd, fd) :
          /\ l # NoLoop
          /\ njobs' = new
          /\ job' = [j \in 1 .. new |->
                       IF j <= njobs THEN job[j]
                       ELSE [fd |-> fd, kind |-> kind, ev |-> ev,
                             del |-> FALSE, thrd |-> thrd,
                             rdcb |-> "R" \in ev, free |-> "default"]]
          /\ ioJobs' = ioJobs \cup {new}
          /\ epoll' = CtlAdd(l, fd, new, Flags(ev))
          /\ UNCHANGED freed
    BY <1>2 DEF NewJob
  <2>2. l = thrd
    BY <2>1, AddTargetsFacts, LoopsFacts
  <2>3. njobs \in Nat
    BY MaxJobsAssumption DEF MemInv, TypeInv, TypeOK
  <2>4. /\ \A j \in 1 .. njobs : job'[j] = job[j]
        /\ job'[new].fd = fd /\ job'[new].thrd = thrd /\ job'[new].kind = kind
    BY <2>1, <2>3
  <2>5. /\ Alive \subseteq 1 .. njobs /\ new \notin Alive
        /\ new \notin freed /\ new \notin ioJobs
        /\ Alive' = Alive \cup {new} /\ new \in 1 .. njobs'
    BY <2>1, <2>3 DEF Alive, MemInv, TypeInv, TypeOK
  <2>6. \A m \in Loops, f \in Fds :
          \/ epoll'[m][f] = epoll[m][f]
          \/ m = thrd /\ f = fd /\ epoll'[m][f].job = new
    BY <2>1, <2>2, CtlEntries DEF MemInv
  <2>7. Pinned'
    <3>1. \A j \in 1 .. njobs' : j \in 1 .. njobs \/ j = new
      BY <2>1, <2>3
    <3>2. QED BY <2>4, <3>1 DEF MemInv, Pinned
  <2> HIDE DEF new
  <2>8. NoDangling'
    <3>1. ASSUME NEW m \in Loops, NEW f \in Fds, epoll'[m][f].job # NoJob
          PROVE  /\ epoll'[m][f].job \in Alive'
                 /\ job'[epoll'[m][f].job].fd = f
                 /\ job'[epoll'[m][f].job].thrd = m
      <4>1. CASE epoll'[m][f] = epoll[m][f]
        <5>1. /\ epoll[m][f].job \in Alive /\ job[epoll[m][f].job].fd = f
              /\ job[epoll[m][f].job].thrd = m
          BY <3>1, <4>1 DEF MemInv, NoDangling
        <5>2. QED BY <2>4, <2>5, <4>1, <5>1
      <4>2. CASE m = thrd /\ f = fd /\ epoll'[m][f].job = new
        BY <2>4, <2>5, <4>2
      <4>3. QED BY <2>6, <4>1, <4>2
    <3>2. ASSUME NEW m \in Loops, NEW e \in batch'[m]
          PROVE  e.job \in Alive' /\ job'[e.job].thrd = m
      <4>1. e.job \in Alive /\ job[e.job].thrd = m
        BY DEF loopVars, MemInv, NoDangling
      <4>2. QED BY <2>4, <2>5, <4>1
    <3>3. ASSUME NEW m \in Loops, pc'[m] \in EventPcs \ {"events"}
          PROVE  cur'[m] \in batch'[m]
      BY <3>3 DEF TypeInv, LoopShape
    <3>4. QED BY <3>1, <3>2, <3>3 DEF NoDangling
  <2>9. OwnedOnce'
    <3>1. \A m \in Loops : dels'[m] = dels[m] /\ dels[m] \subseteq 1 .. njobs
      BY DEF loopVars, MemInv, TypeInv, TypeOK
    <3>2. \A m \in Loops : new \notin dels[m]
      BY <2>3, <3>1 DEF new
    <3>3. \A m \in Loops : dels'[m] # {} <=> pc'[m] \in FreePcs
      BY DEF TypeInv, LoopShape
    <3>4. QED BY <2>1, <2>4, <2>5, <3>1, <3>2, <3>3 DEF MemInv, OwnedOnce
  <2>10. QED BY <2>7, <2>8, <2>9 DEF MemInv
<1>3. QED BY <1>1, <1>2

LEMMA NewWrJobSafe ==
    ASSUME MemInv, TypeInv', NEW fd \in Fds, NEW ev, NewWrJob(fd, ev),
           UNCHANGED loopVars
    PROVE  MemInv'
<1>1. curThrd \in Loops /\ NextThrd \in Loops /\ ThrdArg[fd] \in Nat
  BY LoopsFacts, ThrdArgAssumption DEF MemInv, TypeInv, TypeOK
<1>2. CASE ThrdArg[fd] >= WorkerCnt
  <2>1. ThrdArg[fd] \in Loops => NextThrd = ThrdArg[fd]
    BY <1>1, <1>2, WorkerCntAssumption, EpfdSlotsAssumption DEF Loops, LoopCnt, NextThrd
  <2>2. QED BY <1>1, <1>2, <2>1, NewJobSafe DEF NewWrJob
<1>3. CASE ~(ThrdArg[fd] >= WorkerCnt)
  <2>1. ThrdArg[fd] \in Loops
    BY <1>1, <1>3, LoopsFacts, WorkerCntAssumption, EpfdSlotsAssumption
  <2>2. QED BY <1>3, <2>1, NewJobSafe DEF NewWrJob
<1>4. QED BY <1>2, <1>3

LEMMA CallSafe ==
    ASSUME MemInv, TypeInv', KeepsEvent, NEW a \in Actors, Call(a)
    PROVE  MemInv'
<1>1. ASSUME NEW fd \in Fds, add_listen_job(a, fd) PROVE MemInv'
  BY <1>1, NewJobSafe, LoopsFacts DEF add_listen_job
<1>2. ASSUME NEW fd \in Fds, add_read_job_new(a, fd) PROVE MemInv'
  BY <1>2, NewWrJobSafe DEF add_read_job_new
<1>3. ASSUME NEW fd \in Fds, add_read_job_ctl(a, fd) PROVE MemInv'
  BY <1>3, AddReadCtlSafe
<1>4. ASSUME NEW fd \in Fds, add_write_job_new(a, fd) PROVE MemInv'
  BY <1>4, NewWrJobSafe DEF add_write_job_new
<1>5. ASSUME NEW fd \in Fds, add_write_job_more(a, fd) PROVE MemInv'
  BY <1>5, AddWriteSafe
<1>6. ASSUME NEW fd \in Fds, del_read_job(a, fd) \/ del_write_job(a, fd) PROVE MemInv'
  BY <1>6, DelWrSafe DEF del_read_job, del_write_job
<1>7. ASSUME NEW fd \in Fds, del_listen_job_mark(a, fd) PROVE MemInv'
  BY <1>7, DelListenMarkSafe
<1>8. CASE add_read_job_set(a)
  BY <1>8, AddReadSetSafe
<1>9. CASE del_listen_job_ctl(a)
  BY <1>9, DelListenCtlSafe
<1>10. QED
  BY <1>1, <1>2, <1>3, <1>4, <1>5, <1>6, <1>7, <1>8, <1>9 DEF Call
-----------------------------------------------------------------------------
\* The steps of a loop that free nothing: whatever the loop keeps in its batch
\* was there before or comes from its own interest list.
BatchSafe ==
    \A l \in Loops : \A e \in batch'[l] :
        \/ e \in batch[l]
        \/ \E f \in Fds : e.job = epoll[l][f].job /\ e.job # NoJob

LEMMA MoveSafe ==
    ASSUME MemInv, TypeInv', BatchSafe,
           UNCHANGED <<njobs, job, ioJobs, freed, dels, epoll>>
    PROVE  MemInv'
<1>1. Pinned' /\ Alive' = Alive
  BY DEF MemInv, Pinned, Alive
<1>2. NoDangling'
  <2>1. ASSUME NEW l \in Loops, NEW e \in batch'[l]
        PROVE  e.job \in Alive' /\ job'[e.job].thrd = l
    BY <1>1 DEF BatchSafe, MemInv, NoDangling
  <2>2. ASSUME NEW l \in Loops, pc'[l] \in EventPcs \ {"events"}
        PROVE  cur'[l] \in batch'[l]
    BY <2>2 DEF TypeInv, LoopShape
  <2>3. QED BY <1>1, <2>1, <2>2 DEF MemInv, NoDangling
<1>3. OwnedOnce'
  <2>1. \A l \in Loops : dels'[l] # {} <=> pc'[l] \in FreePcs
    BY DEF TypeInv, LoopShape
  <2>2. QED BY <1>1, <2>1 DEF MemInv, OwnedOnce
<1>4. QED BY <1>1, <1>2, <1>3 DEF MemInv

LEMMA ReapSafe ==
    ASSUME MemInv, TypeInv', NEW l \in Loops, pc[l] \in {"top", "out"},
           NEW last, Reap(l, last)
    PROVE  MemInv'
<1>1. /\ UNCHANGED <<njobs, job, freed, epoll, batch, cur>>
      /\ ioJobs' = ioJobs \ Deleted(l)
      /\ dels' = [dels EXCEPT ![l] = Deleted(l)]
  BY DEF Reap, LoopKeeps
<1>2. Pinned' /\ Alive' = Alive
  BY <1>1 DEF MemInv, Pinned, Alive
<1>3. NoDangling'
  <2>1. \A m \in Loops : pc'[m] \in EventPcs \ {"events"} => cur'[m] \in batch'[m]
    BY DEF TypeInv, LoopShape
  <2>2. QED BY <1>1, <1>2, <2>1 DEF MemInv, NoDangling
<1>4. OwnedOnce'
  <2>1. dels[l] = {} /\ dels \in [Loops -> SUBSET (1 .. njobs)]
    BY DEF MemInv, TypeInv, TypeOK, LoopShape, FreePcs
  <2>2. dels'[l] = Deleted(l) /\ \A m \in Loops : m # l => dels'[m] = dels[m]
    BY <1>1, <2>1
  <2>3. Deleted(l) \subseteq ioJobs /\ \A j \in Deleted(l) : job[j].thrd = l /\ job[j].del
    BY DEF Deleted
  <2>4. ioJobs' \cap freed' = {}
    BY <1>1 DEF MemInv, OwnedOnce
  <2>5. Alive' = ioJobs' \cup UNION {dels'[m] : m \in Loops}
    BY <1>1, <1>2, <2>1, <2>2, <2>3 DEF MemInv, OwnedOnce
  <2>6. ASSUME NEW m \in Loops
        PROVE  /\ \A j \in dels'[m] : job'[j].thrd = m /\ job'[j].del
               /\ dels'[m] \cap (ioJobs' \cup freed') = {}
    <3>1. CASE m = l
      BY <1>1, <2>2, <2>3, <3>1 DEF MemInv, OwnedOnce
    <3>2. CASE m # l
      BY <1>1, <2>2, <3>2 DEF MemInv, OwnedOnce
    <3>3. QED BY <3>1, <3>2
  <2>7. \A m \in Loops : dels'[m] # {} <=> pc'[m] \in FreePcs
    BY DEF TypeInv, LoopShape
  <2>8. QED BY <2>4, <2>5, <2>6, <2>7 DEF OwnedOnce
<1>5. QED BY <1>2, <1>3, <1>4 DEF MemInv

\* The step that matters.  The freed job belongs to the loop that frees it, so
\* no other loop has an event of it; that loop itself holds none, because it
\* frees between two batches; and the free callback, by closing the descriptor,
\* takes the job out of the interest lists.
LEMMA FreeJobSafe ==
    ASSUME MemInv, TypeInv', NEW l \in Loops, FreeJob(l)
    PROVE  MemInv'
<1> DEFINE j == First(dels[l])
<1>1. j \in dels[l] /\ j \in 1 .. njobs
  <2>1. dels[l] # {} /\ dels[l] \subseteq 1 .. njobs /\ njobs \in Nat
    BY MaxJobsAssumption DEF FreeJob, MemInv, TypeInv, TypeOK, LoopShape
  <2>2. \A i \in dels[l] : i \in Nat
    BY <2>1
  <2>3. dels[l] \subseteq Nat
    BY <2>2, Zenon
  <2>4. QED BY <2>1, <2>3, FirstIn
<1>2. CASE job[j].free = "null"
  <2>1. UNCHANGED <<epoll, freed, dels, job, ioJobs, batch, njobs>>
    BY <1>2 DEF FreeJob, LoopKeeps
  <2>2. BatchSafe
    BY <2>1 DEF BatchSafe
  <2>3. QED BY <2>1, <2>2, MoveSafe
<1>3. CASE job[j].free # "null"
  <2>1. /\ epoll' = [m \in Loops |-> [epoll[m] EXCEPT ![job[j].fd] = NoEntry]]
        /\ freed' = freed \cup {j}
        /\ dels' = [dels EXCEPT ![l] = dels[l] \ {j}]
        /\ UNCHANGED <<job, ioJobs, batch, cur, njobs>>
    BY <1>3 DEF FreeJob, LoopKeeps
  <2>2. job[j].thrd = l /\ job[j].fd \in Fds /\ j \notin ioJobs /\ j \notin freed
    BY <1>1 DEF MemInv, OwnedOnce, TypeInv, TypeOK, JobRec
  <2> HIDE DEF j
  <2>3. Pinned' /\ Alive' = Alive \ {j}
    BY <2>1 DEF MemInv, Pinned, Alive
  <2>4. batch[l] = {}
    BY DEF FreeJob, MemInv, TypeInv, LoopShape, FreePcs, EventPcs
  <2>5. NoDangling'
    <3>1. ASSUME NEW m \in Loops, NEW f \in Fds, epoll'[m][f].job # NoJob
          PROVE  /\ epoll'[m][f].job \in Alive'
                 /\ job'[epoll'[m][f].job].fd = f
                 /\ job'[epoll'[m][f].job].thrd = m
      <4>1. f # job[j].fd /\ epoll'[m][f] = epoll[m][f]
        BY <2>1, <2>2, <3>1 DEF MemInv, TypeInv, TypeOK, NoEntry
      <4>2. QED BY <2>1, <2>3, <3>1, <4>1 DEF MemInv, NoDangling
    <3>2. ASSUME NEW m \in Loops, NEW e \in batch'[m]
          PROVE  e.job \in Alive' /\ job'[e.job].thrd = m
      <4>1. m # l /\ e \in batch[m]
        BY <2>1, <2>4
      <4>2. QED BY <2>1, <2>2, <2>3, <4>1 DEF MemInv, NoDangling
    <3>3. \A m \in Loops : pc'[m] \in EventPcs \ {"events"} => cur'[m] \in batch'[m]
      BY DEF TypeInv, LoopShape
    <3>4. QED BY <3>1, <3>2, <3>3 DEF NoDangling
  <2>6. OwnedOnce'
    <3>1. /\ dels'[l] = dels[l] \ {j}
          /\ \A m \in Loops : m # l => dels'[m] = dels[m] /\ j \notin dels[m]
      BY <2>1, <2>2 DEF MemInv, OwnedOnce, TypeInv, TypeOK
    <3>2. ioJobs' \cap freed' = {}
      BY <2>1, <2>2 DEF MemInv, OwnedOnce
    <3>3. Alive' = ioJobs' \cup UNION {dels'[m] : m \in Loops}
      BY <2>1, <2>2, <2>3, <3>1 DEF MemInv, OwnedOnce
    <3>4. ASSUME NEW m \in Loops
          PROVE  /\ \A i \in dels'[m] : job'[i].thrd = m /\ job'[i].del
                 /\ dels'[m] \cap (ioJobs' \cup freed') = {}
      BY <2>1, <2>2, <3>1 DEF MemInv, OwnedOnce
    <3>5. \A m \in Loops : dels'[m] # {} <=> pc'[m] \in FreePcs
      BY DEF TypeInv, LoopShape
    <3>6. QED BY <3>2, <3>3, <3>4, <3>5 DEF OwnedOnce
  <2>7. QED BY <2>3, <2>5, <2>6 DEF MemInv
<1>4. QED BY <1>2, <1>3

LEMMA EpollReadySafe ==
    ASSUME MemInv, TypeInv', NEW l \in Loops, EpollReady(l)
    PROVE  MemInv'
<1>1. PICK fds \in SUBSET {f \in Fds : epoll[l][f].job # NoJob} :
        \E fired \in [fds -> SUBSET {"IN", "OUT"}] :
          batch' = [batch EXCEPT ![l] =
                      {[job |-> epoll[l][f].job, ev |-> fired[f]] : f \in fds}]
  BY DEF EpollReady
<1>2. PICK fired \in [fds -> SUBSET {"IN", "OUT"}] :
          batch' = [batch EXCEPT ![l] =
                      {[job |-> epoll[l][f].job, ev |-> fired[f]] : f \in fds}]
  BY <1>1
<1>3. BatchSafe
  <2>1. ASSUME NEW m \in Loops, NEW e \in batch'[m]
        PROVE  \/ e \in batch[m]
               \/ \E f \in Fds : e.job = epoll[m][f].job /\ e.job # NoJob
    <3>1. CASE m # l
      BY <1>2, <3>1 DEF MemInv, TypeInv, TypeOK
    <3>2. CASE m = l
      <4>1. e \in {[job |-> epoll[l][f].job, ev |-> fired[f]] : f \in fds}
        BY <1>2, <3>2 DEF MemInv, TypeInv, TypeOK
      <4>2. PICK f \in fds : e = [job |-> epoll[l][f].job, ev |-> fired[f]]
        BY <4>1
      <4>3. QED BY <3>2, <4>2
    <3>3. QED BY <3>1, <3>2
  <2>2. QED BY <2>1 DEF BatchSafe
<1>4. QED BY <1>3, MoveSafe DEF EpollReady, LoopKeeps

LEMMA WriteClearSafe ==
    ASSUME MemInv, TypeInv', NEW l \in Loops, WriteClear(l)
    PROVE  MemInv'
<1> DEFINE j == cur[l].job
<1>0. cur[l] \in batch[l] /\ dels[l] = {}
  BY DEF WriteClear, MemInv, TypeInv, LoopShape, EventPcs, FreePcs
<1>1. /\ j \in Alive /\ job[j].thrd = l
      /\ j \in 1 .. njobs /\ job \in [1 .. njobs -> JobRec]
  BY <1>0 DEF MemInv, NoDangling, TypeInv, TypeOK, Alive
<1>2. j \in ioJobs
  <2>1. \A m \in Loops : j \notin dels[m]
    BY <1>0, <1>1 DEF MemInv, OwnedOnce
  <2>2. QED BY <1>1, <2>1 DEF MemInv, OwnedOnce
<1>3. ListKept
  BY DEF WriteClear, Goto, LoopKeeps, ListKept
<1>4. job' = [job EXCEPT ![j].ev = @ \ {"W"}]
  BY DEF WriteClear
<1>5. \/ epoll' = CtlMod(job[j].thrd, job[j].fd, j, {"IN"})
      \/ epoll' = CtlDel(job[j].thrd, job[j].fd)
  BY DEF WriteClear, del_io_writing_evt
<1> HIDE DEF j
<1>6. FieldsKept
  BY <1>1, <1>4 DEF JobRec, FieldsKept
<1>7. EntriesSafe
  BY <1>2, <1>5, CtlSafe DEF MemInv
<1>8. QED BY <1>3, <1>6, <1>7, UpdateSafe

LEMMA LoopSafe ==
    ASSUME MemInv, TypeInv', NEW l \in Loops, Loop(l)
    PROVE  MemInv'
<1>1. CASE LoopTop(l) \/ LoopOut(l)
  BY <1>1, ReapSafe DEF LoopTop, LoopOut
<1>2. CASE FreeJob(l)
  BY <1>2, FreeJobSafe
<1>3. CASE EpollReady(l)
  BY <1>3, EpollReadySafe
<1>4. CASE WriteClear(l)
  BY <1>4, WriteClearSafe
<1>5. CASE \/ EpollIdle(l) \/ Dispatch(l) \/ RecvData(l) \/ RecvDrained(l)
           \/ Accept(l) \/ AcceptDrained(l) \/ ReadCbReturn(l)
           \/ ReadEndReturn(l) \/ WriteCheck(l) \/ WriteCbReturn(l)
           \/ TimersReturn(l)
  <2>1. UNCHANGED <<njobs, job, ioJobs, freed, dels, epoll>>
    BY <1>5 DEF EpollIdle, Dispatch, RecvData, RecvDrained, Accept,
       AcceptDrained, ReadCbReturn, ReadEndReturn, WriteCheck, WriteCbReturn,
       TimersReturn, Frame, LoopKeeps
  <2>2. UNCHANGED batch \/ EventDone(l)
    BY <1>5 DEF EpollIdle, Dispatch, RecvData, RecvDrained, Accept,
       AcceptDrained, ReadCbReturn, ReadEndReturn, WriteCheck, WriteCbReturn,
       TimersReturn, ReadDone, Goto
  <2>3. BatchSafe
    <3>1. CASE UNCHANGED batch
      BY <3>1 DEF BatchSafe
    <3>2. CASE EventDone(l)
      <4>1. \A m \in Loops : batch'[m] \subseteq batch[m]
        BY <3>2 DEF EventDone, MemInv, TypeInv, TypeOK
      <4>2. QED BY <4>1 DEF BatchSafe
    <3>3. QED BY <2>2, <3>1, <3>2
  <2>4. QED BY <2>1, <2>3, MoveSafe
<1>6. QED BY <1>1, <1>2, <1>3, <1>4, <1>5 DEF Loop

LEMMA MemInvStep ==
    KeepsEvent => (MemInv /\ [Next]_vars => MemInv')
<1> SUFFICES ASSUME KeepsEvent, MemInv, [Next]_vars PROVE MemInv'
  OBVIOUS
<1>1. TypeInv'
  BY TypeInvStep DEF MemInv
<1>2. CASE \E a \in Actors : Call(a)
  BY <1>1, <1>2, CallSafe
<1>3. CASE \E l \in Loops : Loop(l)
  BY <1>1, <1>3, LoopSafe
<1>4. CASE let_stop \/ UNCHANGED vars
  <2>1. UNCHANGED <<njobs, job, ioJobs, freed, dels, epoll, batch>>
    BY <1>4 DEF let_stop, vars, mgrVars, loopVars
  <2>2. BatchSafe
    BY <2>1 DEF BatchSafe
  <2>3. QED BY <1>1, <2>1, <2>2, MoveSafe
<1>5. QED BY <1>2, <1>3, <1>4 DEF Next

\* The event loops never follow a pointer to a freed job: the interest lists,
\* the events being handled and the current event name only jobs in memory, of
\* the loop's own.  The application must obey keepEvent; the other rules of use
\* may be broken.
THEOREM JobPointersSafe ==
    ASSUME KeepsEvent
    PROVE  Spec => []NoDangling
<1>1. MemInv => NoDangling
  BY DEF MemInv
<1>2. MemInv /\ [Next]_vars => MemInv'
  BY MemInvStep
<1>3. QED BY <1>1, <1>2, MemInvInit, PTL DEF Spec

\* handle_deling_job frees every job at most once, after its deletion, from the
\* job's own loop, and never one that find_io_job can still return.
THEOREM JobsFreedOnce ==
    ASSUME KeepsEvent
    PROVE  Spec => []OwnedOnce
<1>1. MemInv => OwnedOnce
  BY DEF MemInv
<1>2. MemInv /\ [Next]_vars => MemInv'
  BY MemInvStep
<1>3. QED BY <1>1, <1>2, MemInvInit, PTL DEF Spec
-----------------------------------------------------------------------------
(***************************************************************************)
(* What the rules of use buy.  Each theorem names the rules that it needs; *)
(* memory safety (MemInv, keepEvent) is below all of them.                 *)
(***************************************************************************)

(***************************************************************************)
(* The inductive invariants.                                               *)
(***************************************************************************)

\* What a job can be: a listen job belongs to loop 0 and waits for input only;
\* a connection's job has no event left once it is deleted.
KindShape ==
    \A j \in 1 .. njobs :
        /\ job[j].kind = "listen" => job[j].thrd = 0 /\ job[j].ev = {"R"}
        /\ job[j].kind = "wr" /\ job[j].del => job[j].ev = {}

\* At most one thread is inside add_read_job (it has the mutex), and its job is
\* a listed connection's job that nobody has deleted.
HalfShape ==
    /\ \A h \in half :
         h.job \in ioJobs /\ job[h.job].kind = "wr" /\ ~job[h.job].del
    /\ \A g, h \in half : g = h

\* A loop inside add_read_job or del_listen_job stays in the callback that
\* called it.
CallerShape ==
    /\ \A h \in half : h.by \in Loops => pc[h.by] \in CallbackPcs \cup FreePcs
    /\ \A d \in lateDel : d.by \in Loops => pc[d.by] \in CallbackPcs \cup FreePcs

\* Only connections' jobs get as far as the write callback, and only events
\* with EPOLLIN as far as the read callback.
EventShape ==
    \A l \in Loops :
        /\ pc[l] = "write2" => job[cur[l].job].kind = "wr"
        /\ pc[l] \in {"read", "accept", "readcb", "readend"} => "IN" \in cur[l].ev

\* A descriptor without job is not registered, and an epoll_wait reports every
\* job once.
EntryShape ==
    \A l \in Loops :
        /\ \A f \in Fds : epoll[l][f].job = NoJob => epoll[l][f] = NoEntry
        /\ \A e, g \in batch[l] : e.job = g.job => e = g

Shape == KindShape /\ HalfShape /\ CallerShape /\ EventShape /\ EntryShape

\* Deletions store the free callback together with the flag.
FreeSet == \A j \in 1 .. njobs : job[j].del => job[j].free = "user"

\* Nobody can be told of input for a job before its read callback is set.  In
\* add_read_job the kernel is told first: what saves the loop is that it is the
\* loop itself that is inside add_read_job, and not in epoll_wait.
CallbackSet == \A j \in 1 .. njobs : "R" \in job[j].ev => job[j].rdcb

EntryReady(l, f) ==
    LET j == epoll[l][f].job
    IN  "IN" \in epoll[l][f].ev =>
           job[j].rdcb \/ \E h \in half : h.job = j /\ h.by = l

InputReady ==
    /\ CallbackSet
    /\ \A l \in Loops, f \in Fds : EntryReady(l, f)
    /\ \A l \in Loops : \A e \in batch[l] : "IN" \in e.ev => job[e.job].rdcb

\* The interest that the kernel should have for a job: its flags, the read flag
\* that add_read_job is about to set, and for a deleted listen job the interest
\* that del_listen_job has not taken back yet.
Wanted(j) ==
    IF job[j].del
    THEN {e \in {"R"} : job[j].kind = "listen" /\ \E d \in lateDel : d.fd = job[j].fd}
    ELSE job[j].ev \cup {e \in {"R"} : \E h \in half : h.job = j}

WantedEntry(j, l) ==
    IF l = job[j].thrd /\ Wanted(j) # {}
    THEN [job |-> j, ev |-> Flags(Wanted(j))]
    ELSE NoEntry

Watched == \A j \in Alive, l \in Loops : epoll[l][job[j].fd] = WantedEntry(j, l)

\* With listenInLoop, the listen job that del_listen_job has marked is still
\* there when the descriptor leaves the interest list.
LateShape ==
    \A d \in lateDel :
        /\ d.by = 0
        /\ \E j \in ioJobs : job[j].fd = d.fd /\ job[j].kind = "listen" /\ job[j].del
-----------------------------------------------------------------------------
(***************************************************************************)
(* The kinds of steps.                                                     *)
(***************************************************************************)

\* A new job gets into the list and into the interest list of its loop.
Creates(fd, kind, ev, t) ==
    /\ half = {} /\ MayAdd(fd) /\ find_io_job(fd) = NoJob
    /\ kind = "listen" => t = 0 /\ ev = {"R"}
    /\ epoll[t][fd].job = NoJob
    /\ njobs' = njobs + 1
    /\ \A j \in 1 .. njobs : job'[j] = job[j]
    /\ job'[njobs + 1] = [fd |-> fd, kind |-> kind, ev |-> ev, del |-> FALSE,
                          thrd |-> t, rdcb |-> "R" \in ev, free |-> "default"]
    /\ ioJobs' = ioJobs \cup {njobs + 1}
    /\ epoll' = CtlAdd(t, fd, njobs + 1, Flags(ev))
    /\ UNCHANGED <<freed, half, lateDel, pc, batch, cur, dels, aborted>>

CreatesOne ==
    \E fd \in Fds, kind \in {"listen", "wr"}, ev \in {{"R"}, {"W"}}, t \in Loops :
        Creates(fd, kind, ev, t)

\* Nothing moves but the round-robin index and the shutdown flag.
Idles == UNCHANGED <<njobs, job, ioJobs, freed, epoll, half, lateDel, pc, batch,
                     cur, dels, aborted>>

\* add_listen_job could not register the descriptor.
ListenFails ==
    /\ UNCHANGED <<njobs, job, ioJobs, freed, epoll, half, lateDel, pc, batch,
                   cur, dels>>
    /\ \E fd \in Fds : /\ MayAdd(fd) /\ find_io_job(fd) = NoJob
                       /\ NoLoop \in AddTargets(0, fd)

\* A step of a loop between two of its callbacks.
Moves(l) ==
    /\ UNCHANGED <<njobs, job, ioJobs, freed, dels, epoll, half, lateDel, aborted>>
    /\ \/ EpollReady(l) \/ EpollIdle(l) \/ Dispatch(l)
       \/ RecvData(l) \/ RecvDrained(l) \/ Accept(l) \/ AcceptDrained(l)
       \/ ReadCbReturn(l) \/ ReadEndReturn(l)
       \/ WriteCheck(l) \/ WriteCbReturn(l) \/ TimersReturn(l)

LEMMA NewJobKinds ==
    ASSUME TypeInv, NEW fd \in Fds, NEW kind \in {"listen", "wr"},
           NEW ev \in {{"R"}, {"W"}}, NEW t \in Loops, NewJob(fd, kind, ev, t),
           kind = "listen" => t = 0 /\ ev = {"R"},
           half = {}, MayAdd(fd), find_io_job(fd) = NoJob,
           UNCHANGED <<half, lateDel, loopVars>>,
           njobs' # njobs => UNCHANGED aborted
    PROVE  \/ Creates(fd, kind, ev, t)
           \/ /\ UNCHANGED <<njobs, job, ioJobs, freed, epoll>>
              /\ NoLoop \in AddTargets(t, fd)
<1>1. PICK l \in AddTargets(t, fd) :
         IF l = NoLoop
         THEN UNCHANGED <<njobs, job, ioJobs, epoll>>
         ELSE /\ njobs' = njobs + 1
              /\ job' = [j \in 1 .. njobs + 1 |->
                           IF j <= njobs THEN job[j]
                           ELSE [fd |-> fd, kind |-> kind, ev |-> ev,
                                 del |-> FALSE, thrd |-> t,
                                 rdcb |-> "R" \in ev, free |-> "default"]]
              /\ ioJobs' = ioJobs \cup {njobs + 1}
              /\ epoll' = CtlAdd(l, fd, njobs + 1, Flags(ev))
  BY DEF NewJob
<1>2. UNCHANGED freed
  BY DEF NewJob
<1>3. njobs \in Nat /\ t \in Nat
  BY MaxJobsAssumption, LoopsFacts DEF TypeInv, TypeOK
<1>4. CASE l = NoLoop
  BY <1>1, <1>2, <1>4
<1>5. CASE l # NoLoop
  <2>1. l = t /\ epoll[t][fd].job = NoJob
    BY <1>3, <1>5, AddTargetsFacts
  <2>2. /\ \A j \in 1 .. njobs : job'[j] = job[j]
        /\ job'[njobs + 1] = [fd |-> fd, kind |-> kind, ev |-> ev, del |-> FALSE,
                              thrd |-> t, rdcb |-> "R" \in ev, free |-> "default"]
    <3> DEFINE r == [fd |-> fd, kind |-> kind, ev |-> ev, del |-> FALSE,
                     thrd |-> t, rdcb |-> "R" \in ev, free |-> "default"]
    <3>1. job' = [j \in 1 .. njobs + 1 |-> IF j <= njobs THEN job[j] ELSE r]
      BY <1>1, <1>5
    <3> HIDE DEF r
    <3>2. \A j \in 1 .. njobs : j \in 1 .. njobs + 1 /\ j <= njobs
      BY <1>3
    <3>3. njobs + 1 \in 1 .. njobs + 1 /\ ~(njobs + 1 <= njobs)
      BY <1>3
    <3>4. (\A j \in 1 .. njobs : job'[j] = job[j]) /\ job'[njobs + 1] = r
      BY <3>1, <3>2, <3>3
    <3>5. QED BY <3>4 DEF r
  <2>3. njobs' # njobs
    BY <1>1, <1>3, <1>5
  <2>4. QED BY <1>1, <1>2, <1>5, <2>1, <2>2, <2>3 DEF Creates, loopVars
<1>6. QED BY <1>4, <1>5

LEMMA AddListenKinds ==
    ASSUME TypeInv, ~aborted, NEW a \in Actors, NEW fd \in Fds, add_listen_job(a, fd)
    PROVE  CreatesOne \/ ListenFails
<1>1. /\ NewJob(fd, "listen", {"R"}, 0) /\ half = {} /\ MayAdd(fd)
      /\ find_io_job(fd) = NoJob /\ UNCHANGED <<half, lateDel, loopVars>>
      /\ aborted' = (njobs' = njobs)
  BY DEF add_listen_job, MgrLock
<1>2. njobs' # njobs => UNCHANGED aborted
  BY <1>1 DEF TypeInv, TypeOK
<1>3. \/ Creates(fd, "listen", {"R"}, 0)
      \/ /\ UNCHANGED <<njobs, job, ioJobs, freed, epoll>>
         /\ NoLoop \in AddTargets(0, fd)
  BY <1>1, <1>2, NewJobKinds, LoopsFacts
<1>4. QED BY <1>1, <1>3, LoopsFacts DEF CreatesOne, ListenFails, loopVars

LEMMA AddWrKinds ==
    ASSUME TypeInv, NEW a \in Actors, NEW fd \in Fds,
           add_read_job_new(a, fd) \/ add_write_job_new(a, fd)
    PROVE  CreatesOne \/ Idles
<1>1. PICK ev \in {{"R"}, {"W"}} : NewWrJob(fd, ev)
  BY DEF add_read_job_new, add_write_job_new
<1>2. /\ half = {} /\ MayAdd(fd) /\ find_io_job(fd) = NoJob
      /\ UNCHANGED <<half, lateDel, loopVars, aborted>>
  BY DEF add_read_job_new, add_write_job_new, MgrLock
<1>3. PICK t \in Loops : NewJob(fd, "wr", ev, t)
  <2>1. curThrd \in Loops /\ NextThrd \in Loops
    BY LoopsFacts DEF TypeInv, TypeOK
  <2>2. CASE ThrdArg[fd] >= WorkerCnt
    BY <1>1, <2>1, <2>2 DEF NewWrJob
  <2>3. CASE ~(ThrdArg[fd] >= WorkerCnt)
    <3>1. ThrdArg[fd] \in Loops
      BY <2>3, ThrdArgAssumption, WorkerCntAssumption, EpfdSlotsAssumption, LoopsFacts
    <3>2. QED BY <1>1, <2>3, <3>1 DEF NewWrJob
  <2>4. QED BY <2>2, <2>3
<1>4. \/ Creates(fd, "wr", ev, t)
      \/ UNCHANGED <<njobs, job, ioJobs, freed, epoll>>
  BY <1>2, <1>3, NewJobKinds
<1>5. QED BY <1>2, <1>4 DEF CreatesOne, Idles, loopVars

LEMMA MoveKinds ==
    ASSUME NEW l \in Loops,
           \/ EpollReady(l) \/ EpollIdle(l) \/ Dispatch(l)
           \/ RecvData(l) \/ RecvDrained(l) \/ Accept(l) \/ AcceptDrained(l)
           \/ ReadCbReturn(l) \/ ReadEndReturn(l)
           \/ WriteCheck(l) \/ WriteCbReturn(l) \/ TimersReturn(l)
    PROVE  Moves(l)
<1>1. UNCHANGED <<njobs, job, ioJobs, freed, dels, epoll, half, lateDel, aborted>>
  BY DEF EpollReady, EpollIdle, Dispatch, RecvData, RecvDrained, Accept,
         AcceptDrained, ReadCbReturn, ReadEndReturn, WriteCheck, WriteCbReturn,
         TimersReturn, Frame, LoopKeeps
<1>2. QED BY <1>1 DEF Moves

\* The operations on an existing job.
Operates(a) ==
    \/ \E fd \in Fds : \/ add_read_job_ctl(a, fd) \/ add_write_job_more(a, fd)
                       \/ del_wr_job(a, fd, "R", "W") \/ del_wr_job(a, fd, "W", "R")
                       \/ del_listen_job_mark(a, fd)
    \/ add_read_job_set(a)
    \/ del_listen_job_ctl(a)

\* Where a loop frees, takes jobs from the list, or clears a write event.
Reaps(l) == pc[l] \in {"top", "out"} /\ \E last \in BOOLEAN : Reap(l, last)

LEMMA StepKinds ==
    ASSUME TypeInv, [Next]_vars
    PROVE  \/ Idles \/ CreatesOne \/ ListenFails
           \/ ~aborted /\ \E a \in Actors : Operates(a)
           \/ ~aborted /\ \E l \in Loops : Moves(l) \/ Reaps(l) \/ FreeJob(l) \/ WriteClear(l)
<1>1. CASE ~aborted /\ \E a \in Actors : Call(a)
  <2>1. PICK a \in Actors : Call(a)
    BY <1>1
  <2>2. CASE \E fd \in Fds : add_listen_job(a, fd)
    BY <1>1, <2>2, AddListenKinds
  <2>3. CASE \E fd \in Fds : add_read_job_new(a, fd) \/ add_write_job_new(a, fd)
    BY <2>3, AddWrKinds
  <2>4. CASE Operates(a)
    BY <1>1, <2>4
  <2>5. QED BY <2>1, <2>2, <2>3, <2>4 DEF Call, Operates, del_read_job, del_write_job
<1>2. CASE ~aborted /\ \E l \in Loops : Loop(l)
  <2>1. PICK l \in Loops : Loop(l)
    BY <1>2
  <2>2. CASE LoopTop(l) \/ LoopOut(l)
    BY <1>2, <2>2 DEF LoopTop, LoopOut, Reaps, TypeInv, TypeOK
  <2>3. CASE FreeJob(l) \/ WriteClear(l)
    BY <1>2, <2>3
  <2>4. CASE ~(LoopTop(l) \/ LoopOut(l) \/ FreeJob(l) \/ WriteClear(l))
    <3>1. Moves(l)
      BY <2>1, <2>4, MoveKinds DEF Loop
    <3>2. QED BY <1>2, <3>1
  <2>5. QED BY <2>2, <2>3, <2>4
<1>3. CASE let_stop \/ UNCHANGED vars
  BY <1>3 DEF let_stop, vars, mgrVars, loopVars, Idles
<1>4. QED BY <1>1, <1>2, <1>3 DEF Next
-----------------------------------------------------------------------------
(***************************************************************************)
(* What the operations on an existing job do, with epoll_ctl resolved: one *)
(* job record and at most one registration change.                         *)
(***************************************************************************)
JobSet(j, r) ==
    /\ job'[j] = r
    /\ \A k \in 1 .. njobs : k # j => job'[k] = job[k]

EntrySet(l, f, x) ==
    \A m \in Loops, g \in Fds :
        epoll'[m][g] = IF m = l /\ g = f THEN x ELSE epoll[m][g]

\* The registration of a job at its own loop.
Registered(j) == epoll[job[j].thrd][job[j].fd].job # NoJob
Registers(j, ev) == EntrySet(job[j].thrd, job[j].fd, [job |-> j, ev |-> ev])
Unregisters(j) == EntrySet(job[j].thrd, job[j].fd, NoEntry)

\* EPOLL_CTL_MOD; EPOLL_CTL_ADD, which fails where there is an entry already.
Modifies(j, ev) ==
    \/ Registered(j) /\ Registers(j, ev)
    \/ ~Registered(j) /\ UNCHANGED epoll
AddFails(j) ==
    /\ NoLoop \in AddTargets(job[j].thrd, job[j].fd)
    /\ UNCHANGED epoll

Connected(j) == j \in ioJobs /\ job[j].kind = "wr" /\ ~job[j].del

ReadCtl(a, j) ==
    /\ Connected(j) /\ half = {} /\ CanCall(a)
    /\ "ownerFirstRead" \in Rules => job[j].rdcb \/ a = job[j].thrd
    /\ \/ /\ half' = {[by |-> a, job |-> j]}
          /\ \/ "W" \in job[j].ev /\ Registered(j) /\ Registers(j, {"IN", "OUT"})
             \/ job[j].ev = {"R"} /\ UNCHANGED epoll
             \/ job[j].ev = {} /\ Registers(j, {"IN"})
       \/ /\ UNCHANGED <<half, epoll>>
          /\ \/ "W" \in job[j].ev /\ ~Registered(j)
             \/ job[j].ev = {} /\ AddFails(j)
    /\ UNCHANGED <<njobs, job, ioJobs, freed, lateDel, pc, batch, cur, dels, aborted>>

ReadSet(h) ==
    /\ h \in half /\ half' = {}
    /\ JobSet(h.job, [job[h.job] EXCEPT !.rdcb = TRUE, !.ev = @ \cup {"R"}])
    /\ UNCHANGED <<njobs, ioJobs, freed, epoll, lateDel, pc, batch, cur, dels, aborted>>

WriteMore(j) ==
    /\ Connected(j) /\ half = {} /\ "W" \notin job[j].ev
    /\ JobSet(j, [job[j] EXCEPT !.ev = @ \cup {"W"}])
    /\ \/ "R" \in job[j].ev /\ Modifies(j, {"IN", "OUT"})
       \/ job[j].ev = {} /\ (Registers(j, {"OUT"}) \/ AddFails(j))
    /\ UNCHANGED <<njobs, ioJobs, freed, half, lateDel, pc, batch, cur, dels, aborted>>

DelWr(j, flag, other) ==
    /\ Connected(j) /\ half = {}
    /\ \E fr \in FreeArgs :
         JobSet(j, [job[j] EXCEPT !.free = fr, !.del = other \notin job[j].ev,
                                  !.ev = @ \ {flag}])
    /\ \/ other \in job[j].ev /\ Modifies(j, Flags({other}))
       \/ job[j].ev = {flag} /\ Unregisters(j)
       \/ job[j].ev = {} /\ UNCHANGED epoll
    /\ UNCHANGED <<njobs, ioJobs, freed, half, lateDel, pc, batch, cur, dels, aborted>>

ListenMark(a, j) ==
    /\ j \in ioJobs /\ job[j].kind = "listen" /\ ~job[j].del
    /\ half = {} /\ CanCall(a)
    /\ "listenInLoop" \in Rules => a = 0
    /\ \E fr \in FreeArgs : JobSet(j, [job[j] EXCEPT !.free = fr, !.del = TRUE])
    /\ lateDel' = lateDel \cup {[by |-> a, fd |-> job[j].fd]}
    /\ UNCHANGED <<njobs, ioJobs, freed, epoll, half, pc, batch, cur, dels, aborted>>

ListenCtl(d) ==
    /\ d \in lateDel /\ lateDel' = lateDel \ {d}
    /\ EntrySet(0, d.fd, NoEntry)
    /\ UNCHANGED <<njobs, job, ioJobs, freed, half, pc, batch, cur, dels, aborted>>

\* The write event of the loop's current job is cleared.
Clears(l, j) ==
    /\ pc[l] = "write2" /\ pc' = [pc EXCEPT ![l] = "writecb"]
    /\ j = cur[l].job /\ j \in ioJobs /\ job[j].thrd = l
    /\ \A h \in half : h.job # j
    /\ JobSet(j, [job[j] EXCEPT !.ev = @ \ {"W"}])
    /\ \/ "R" \in job[j].ev /\ Modifies(j, {"IN"})
       \/ "R" \notin job[j].ev /\ Unregisters(j)
    /\ UNCHANGED <<njobs, ioJobs, freed, half, lateDel, batch, cur, dels, aborted>>

\* A free callback that is not NULL closes the descriptor.
Frees(l, j) ==
    /\ pc[l] \in FreePcs /\ ~InDelListen(l) /\ ~InAddRead(l)
    /\ j \in dels[l] /\ job[j].free # "null"
    /\ \A m \in Loops, f \in Fds :
         epoll'[m][f] = IF f = job[j].fd THEN NoEntry ELSE epoll[m][f]
    /\ freed' = freed \cup {j}
    /\ dels' = [dels EXCEPT ![l] = @ \ {j}]
    /\ pc' \in [Loops -> Pcs] /\ \A m \in Loops : m # l => pc'[m] = pc[m]
    /\ pc'[l] \in {pc[l], "wait", "exit"}
    /\ UNCHANGED <<njobs, job, ioJobs, half, lateDel, batch, cur, aborted>>

FreeFails(l) ==
    /\ \E j \in dels[l] : job[j].free = "null"
    /\ UNCHANGED <<njobs, job, ioJobs, freed, epoll, half, lateDel, pc, batch, cur, dels>>

LEMMA CtlResolved ==
    ASSUME TypeInv, NEW l \in Loops, NEW fd \in Fds, NEW j, NEW ev
    PROVE  /\ epoll' = CtlAdd(l, fd, j, ev) => EntrySet(l, fd, [job |-> j, ev |-> ev])
           /\ epoll' = CtlDel(l, fd) => EntrySet(l, fd, NoEntry)
           /\ epoll' = CtlMod(l, fd, j, ev) =>
                IF epoll[l][fd].job = NoJob THEN UNCHANGED epoll
                ELSE EntrySet(l, fd, [job |-> j, ev |-> ev])
BY DEF TypeInv, TypeOK, CtlAdd, CtlDel, CtlMod, EntrySet

\* A job that find_io_job has found.
LEMMA Found ==
    ASSUME MemInv, NEW fd \in Fds, NEW j, j = find_io_job(fd), j # NoJob
    PROVE  /\ j \in ioJobs /\ j \in 1 .. njobs /\ ~job[j].del
           /\ job[j].fd = fd /\ job[j].thrd \in Loops
           /\ job[j].ev \in SUBSET {"R", "W"} /\ job[j] \in JobRec
           /\ job \in [1 .. njobs -> JobRec]
BY FindFacts DEF MemInv, TypeInv, TypeOK, JobRec

LEMMA ReadCtlKind ==
    ASSUME MemInv, KeepsEvent, NEW a \in Actors, NEW fd \in Fds,
           add_read_job_ctl(a, fd)
    PROVE  ReadCtl(a, find_io_job(fd))
<1> DEFINE j == find_io_job(fd)
<1>1. /\ j # NoJob /\ j \in ioJobs /\ job[j].fd = fd /\ job[j].thrd \in Loops
      /\ job[j].ev \in SUBSET {"R", "W"} /\ ~job[j].del
  BY Found DEF add_read_job_ctl
<1>2. /\ CanCall(a) /\ half = {} /\ job[j].kind = "wr"
      /\ "ownerFirstRead" \in Rules => job[j].rdcb \/ a = job[j].thrd
      /\ UNCHANGED <<njobs, job, ioJobs, freed, lateDel, pc, batch, cur, dels, aborted>>
  BY DEF add_read_job_ctl, MgrLock, MayExtend, mgrVars, loopVars
<1>3. TypeInv
  BY DEF MemInv
<1> DEFINE took == half' = half \cup {[by |-> a, job |-> j]}
<1>4. took => half' = {[by |-> a, job |-> j]}
  BY <1>2
<1>5. CASE "W" \in job[j].ev
  <2>1. /\ epoll' = CtlMod(job[j].thrd, fd, j, {"IN", "OUT"})
        /\ IF epoll[job[j].thrd][fd].job = NoJob THEN UNCHANGED half ELSE took
    BY <1>5 DEF add_read_job_ctl
  <2> HIDE DEF j
  <2>2. IF Registered(j) THEN Registers(j, {"IN", "OUT"}) ELSE UNCHANGED epoll
    BY <1>1, <1>3, <2>1, CtlResolved DEF Registered, Registers
  <2>3. Registered(j) <=> epoll[job[j].thrd][fd].job # NoJob
    BY <1>1 DEF Registered
  <2>4. QED BY <1>1, <1>2, <1>4, <1>5, <2>1, <2>2, <2>3 DEF ReadCtl, Connected, j
<1>6. CASE "W" \notin job[j].ev /\ "R" \in job[j].ev
  <2>1. took /\ UNCHANGED epoll
    BY <1>6 DEF add_read_job_ctl
  <2>2. job[j].ev = {"R"}
    BY <1>1, <1>6
  <2>3. QED BY <1>1, <1>2, <1>4, <2>1, <2>2 DEF ReadCtl, Connected
<1>7. CASE "W" \notin job[j].ev /\ "R" \notin job[j].ev
  <2>1. job[j].ev = {}
    BY <1>1, <1>7
  <2>2. PICK l \in AddTargets(ThrdArg[fd], fd) :
          IF l = NoLoop THEN UNCHANGED <<epoll, half>>
          ELSE took /\ epoll' = CtlAdd(l, fd, j, {"IN"})
    BY <1>7 DEF add_read_job_ctl
  <2>3. MayExtend(fd, j) /\ ThrdArg[fd] = job[j].thrd
    BY <1>1, <2>1 DEF add_read_job_ctl, MayExtend, KeepsEvent, MemInv, Pinned, TypeInv, TypeOK
  <2>4. l # NoLoop => l = job[j].thrd
    BY <1>1, <2>1, <2>3, ExtendOwnLoop
  <2> HIDE DEF j
  <2>5. l # NoLoop => Registers(j, {"IN"})
    BY <1>1, <1>3, <2>2, <2>4, CtlResolved DEF Registers
  <2>6. l = NoLoop => AddFails(j)
    BY <1>1, <2>2, <2>3 DEF AddFails
  <2>7. QED BY <1>1, <1>2, <1>4, <2>1, <2>2, <2>5, <2>6 DEF ReadCtl, Connected, j
<1>8. QED BY <1>5, <1>6, <1>7

LEMMA ReadSetKind ==
    ASSUME MemInv, NEW a \in Actors, add_read_job_set(a)
    PROVE  \E h \in half : ReadSet(h)
<1>1. PICK h \in half :
        /\ job' = [job EXCEPT ![h.job].rdcb = TRUE, ![h.job].ev = @ \cup {"R"}]
        /\ half' = {}
  BY DEF add_read_job_set
<1>2. h.job \in 1 .. njobs /\ job \in [1 .. njobs -> JobRec]
  BY DEF MemInv, TypeInv, TypeOK
<1>3. JobSet(h.job, [job[h.job] EXCEPT !.rdcb = TRUE, !.ev = @ \cup {"R"}])
  BY <1>1, <1>2 DEF JobSet, JobRec
<1>4. QED BY <1>1, <1>3 DEF ReadSet, add_read_job_set, loopVars

LEMMA WriteMoreKind ==
    ASSUME MemInv, KeepsEvent, NEW a \in Actors, NEW fd \in Fds,
           add_write_job_more(a, fd)
    PROVE  WriteMore(find_io_job(fd))
<1> DEFINE j == find_io_job(fd)
<1>1. /\ j # NoJob /\ j \in ioJobs /\ job[j].fd = fd /\ job[j].thrd \in Loops
      /\ job[j].ev \in SUBSET {"R", "W"} /\ ~job[j].del
      /\ j \in 1 .. njobs /\ job \in [1 .. njobs -> JobRec]
  BY Found DEF add_write_job_more
<1>2. /\ half = {} /\ job[j].kind = "wr" /\ "W" \notin job[j].ev
      /\ job' = [job EXCEPT ![j].ev = @ \cup {"W"}]
      /\ UNCHANGED <<njobs, ioJobs, freed, half, lateDel, pc, batch, cur, dels, aborted>>
  BY DEF add_write_job_more, MgrLock, MayExtend, loopVars
<1>3. TypeInv
  BY DEF MemInv
<1>4. "R" \in job[j].ev => epoll' = CtlMod(job[j].thrd, fd, j, {"IN", "OUT"})
  BY DEF add_write_job_more
<1>5. "R" \notin job[j].ev => job[j].ev = {} /\ (Registers(j, {"OUT"}) \/ AddFails(j))
  <2> SUFFICES ASSUME "R" \notin job[j].ev
               PROVE  job[j].ev = {} /\ (Registers(j, {"OUT"}) \/ AddFails(j))
    OBVIOUS
  <2>1. job[j].ev = {}
    BY <1>1, <1>2
  <2>2. PICK l \in AddTargets(ThrdArg[fd], fd) :
          epoll' = IF l = NoLoop THEN epoll ELSE CtlAdd(l, fd, j, {"OUT"})
    BY DEF add_write_job_more
  <2>3. MayExtend(fd, j) /\ ThrdArg[fd] = job[j].thrd
    BY <1>1, <2>1 DEF add_write_job_more, MayExtend, KeepsEvent, MemInv, Pinned, TypeInv, TypeOK
  <2>4. l # NoLoop => l = job[j].thrd
    BY <1>1, <2>1, <2>3, ExtendOwnLoop
  <2> HIDE DEF j
  <2>5. l # NoLoop => Registers(j, {"OUT"})
    BY <1>1, <1>3, <2>2, <2>4, CtlResolved DEF Registers
  <2>6. l = NoLoop => AddFails(j)
    BY <1>1, <2>2, <2>3 DEF AddFails
  <2>7. QED BY <2>1, <2>5, <2>6
<1> HIDE DEF j
<1>6. "R" \in job[j].ev => Modifies(j, {"IN", "OUT"})
  BY <1>1, <1>3, <1>4, CtlResolved DEF Modifies, Registered, Registers
<1>7. JobSet(j, [job[j] EXCEPT !.ev = @ \cup {"W"}])
  BY <1>1, <1>2 DEF JobSet, JobRec
<1>8. QED BY <1>1, <1>2, <1>5, <1>6, <1>7 DEF WriteMore, Connected, j

LEMMA DelWrKind ==
    ASSUME MemInv, NEW a \in Actors, NEW fd \in Fds,
           NEW flag, NEW other, {flag, other} = {"R", "W"},
           del_wr_job(a, fd, flag, other)
    PROVE  DelWr(find_io_job(fd), flag, other)
<1> DEFINE j == find_io_job(fd)
<1>1. /\ j # NoJob /\ j \in ioJobs /\ job[j].fd = fd /\ job[j].thrd \in Loops
      /\ job[j].ev \in SUBSET {"R", "W"} /\ ~job[j].del
      /\ j \in 1 .. njobs /\ job \in [1 .. njobs -> JobRec]
  BY Found DEF del_wr_job
<1>2. /\ half = {} /\ job[j].kind = "wr"
      /\ epoll' = DelInterest(j, flag, other)
      /\ UNCHANGED <<njobs, ioJobs, freed, half, lateDel, pc, batch, cur, dels, aborted>>
  BY DEF del_wr_job, MgrLock, loopVars
<1>3. PICK fr \in FreeArgs : job' = DelFields(j, flag, other, fr)
  BY DEF del_wr_job
<1>4. TypeInv
  BY DEF MemInv
<1> HIDE DEF j
<1>5. JobSet(j, [job[j] EXCEPT !.free = fr, !.del = other \notin job[j].ev,
                               !.ev = @ \ {flag}])
  BY <1>1, <1>3 DEF JobSet, JobRec, DelFields
<1>6. CASE other \in job[j].ev
  <2>1. Modifies(j, Flags({other}))
    BY <1>1, <1>2, <1>4, <1>6, CtlResolved DEF DelInterest, Modifies, Registered, Registers
  <2>2. QED BY <1>1, <1>2, <1>5, <1>6, <2>1 DEF DelWr, Connected, j
<1>7. CASE other \notin job[j].ev /\ flag \in job[j].ev
  <2>1. Unregisters(j)
    BY <1>1, <1>2, <1>4, <1>7, CtlResolved DEF DelInterest, Unregisters
  <2>2. job[j].ev = {flag}
    BY <1>1, <1>7
  <2>3. QED BY <1>1, <1>2, <1>5, <2>1, <2>2 DEF DelWr, Connected, j
<1>8. CASE other \notin job[j].ev /\ flag \notin job[j].ev
  <2>1. UNCHANGED epoll
    BY <1>2, <1>8 DEF DelInterest
  <2>2. job[j].ev = {}
    BY <1>1, <1>8
  <2>3. QED BY <1>1, <1>2, <1>5, <2>1, <2>2 DEF DelWr, Connected, j
<1>9. QED BY <1>6, <1>7, <1>8

LEMMA ListenMarkKind ==
    ASSUME MemInv, NEW a \in Actors, NEW fd \in Fds, del_listen_job_mark(a, fd)
    PROVE  ListenMark(a, find_io_job(fd))
<1> DEFINE j == find_io_job(fd)
<1>1. /\ j # NoJob /\ j \in ioJobs /\ job[j].fd = fd /\ ~job[j].del
      /\ j \in 1 .. njobs /\ job \in [1 .. njobs -> JobRec]
  BY Found DEF del_listen_job_mark
<1>2. /\ half = {} /\ job[j].kind = "listen" /\ CanCall(a)
      /\ "listenInLoop" \in Rules => a = 0
      /\ lateDel' = lateDel \cup {[by |-> a, fd |-> fd]}
      /\ UNCHANGED <<njobs, ioJobs, freed, epoll, half, pc, batch, cur, dels, aborted>>
  BY DEF del_listen_job_mark, MgrLock, loopVars
<1>3. PICK fr \in FreeArgs : job' = [job EXCEPT ![j].free = fr, ![j].del = TRUE]
  BY DEF del_listen_job_mark
<1> HIDE DEF j
<1>4. JobSet(j, [job[j] EXCEPT !.free = fr, !.del = TRUE])
  BY <1>1, <1>3 DEF JobSet, JobRec
<1>5. QED BY <1>1, <1>2, <1>4 DEF ListenMark, j

LEMMA ListenCtlKind ==
    ASSUME MemInv, NEW a \in Actors, del_listen_job_ctl(a)
    PROVE  \E d \in lateDel : ListenCtl(d)
<1>1. PICK d \in lateDel : epoll' = CtlDel(0, d.fd) /\ lateDel' = lateDel \ {d}
  BY DEF del_listen_job_ctl
<1>2. d.fd \in Fds
  BY DEF MemInv, TypeInv, TypeOK
<1>3. EntrySet(0, d.fd, NoEntry)
  BY <1>1, <1>2, CtlResolved, LoopsFacts DEF MemInv
<1>4. QED BY <1>1, <1>3 DEF ListenCtl, del_listen_job_ctl, mgrVars, loopVars

LEMMA ClearsKind ==
    ASSUME MemInv, NEW l \in Loops, WriteClear(l)
    PROVE  Clears(l, cur[l].job)
<1> DEFINE j == cur[l].job
<1>1. cur[l] \in batch[l] /\ dels[l] = {} /\ pc[l] = "write2"
  BY DEF WriteClear, MemInv, TypeInv, LoopShape, EventPcs, FreePcs
<1>2. /\ j \in Alive /\ job[j].thrd = l /\ j \in 1 .. njobs
      /\ job \in [1 .. njobs -> JobRec] /\ job[j].fd \in Fds
  BY <1>1 DEF MemInv, NoDangling, TypeInv, TypeOK, Alive, JobRec
<1>3. j \in ioJobs
  <2>1. \A m \in Loops : j \notin dels[m]
    BY <1>1, <1>2 DEF MemInv, OwnedOnce
  <2>2. QED BY <1>2, <2>1 DEF MemInv, OwnedOnce
<1>4. /\ job' = [job EXCEPT ![j].ev = @ \ {"W"}]
      /\ epoll' = del_io_writing_evt(j)
      /\ pc' = [pc EXCEPT ![l] = "writecb"]
      /\ \A h \in half : h.job # j
      /\ UNCHANGED <<njobs, ioJobs, freed, half, lateDel, batch, cur, dels, aborted>>
  BY DEF WriteClear, Goto, LoopKeeps
<1>5. TypeInv
  BY DEF MemInv
<1> HIDE DEF j
<1>6. JobSet(j, [job[j] EXCEPT !.ev = @ \ {"W"}])
  BY <1>2, <1>4 DEF JobSet, JobRec
<1>7. /\ "R" \in job[j].ev => Modifies(j, {"IN"})
      /\ "R" \notin job[j].ev => Unregisters(j)
  BY <1>2, <1>4, <1>5, CtlResolved
     DEF del_io_writing_evt, Modifies, Registered, Registers, Unregisters
<1>8. QED BY <1>1, <1>2, <1>3, <1>4, <1>6, <1>7 DEF Clears, j

LEMMA FreesKind ==
    ASSUME MemInv, TypeInv', NEW l \in Loops, FreeJob(l)
    PROVE  FreeFails(l) \/ \E j \in dels[l] : Frees(l, j)
<1> DEFINE j == First(dels[l])
<1>1. j \in dels[l] /\ j \in 1 .. njobs
  <2>1. dels[l] # {} /\ dels[l] \subseteq 1 .. njobs /\ njobs \in Nat
    BY MaxJobsAssumption DEF FreeJob, MemInv, TypeInv, TypeOK, LoopShape
  <2>2. \A i \in dels[l] : i \in Nat
    BY <2>1
  <2>3. dels[l] \subseteq Nat
    BY <2>2, Zenon
  <2>4. QED BY <2>1, <2>3, FirstIn
<1>2. CASE job[j].free = "null"
  BY <1>1, <1>2 DEF FreeJob, LoopKeeps, FreeFails
<1>3. CASE job[j].free # "null"
  <2>1. /\ epoll' = [m \in Loops |-> [epoll[m] EXCEPT ![job[j].fd] = NoEntry]]
        /\ freed' = freed \cup {j}
        /\ dels' = [dels EXCEPT ![l] = dels[l] \ {j}]
        /\ pc' = [pc EXCEPT ![l] =
                    CASE dels[l] \ {j} # {} -> pc[l]
                      [] dels[l] \ {j} = {} /\ pc[l] = "free" -> "wait"
                      [] OTHER -> "exit"]
        /\ pc[l] \in FreePcs /\ ~InDelListen(l) /\ ~InAddRead(l)
        /\ UNCHANGED <<njobs, job, ioJobs, half, lateDel, batch, cur, aborted>>
    BY <1>3 DEF FreeJob, LoopKeeps
  <2> HIDE DEF j
  <2>2. \A m \in Loops, f \in Fds :
          epoll'[m][f] = IF f = job[j].fd THEN NoEntry ELSE epoll[m][f]
    BY <2>1 DEF MemInv, TypeInv, TypeOK
  <2>3. pc \in [Loops -> Pcs] /\ pc' \in [Loops -> Pcs]
    BY DEF MemInv, TypeInv, TypeOK
  <2>4. (\A m \in Loops : m # l => pc'[m] = pc[m]) /\ pc'[l] \in {pc[l], "wait", "exit"}
    BY <2>1, <2>3
  <2>5. QED BY <1>1, <1>3, <2>1, <2>2, <2>3, <2>4 DEF Frees
<1>4. QED BY <1>2, <1>3

\* Every step is of one of these kinds.
Kinds ==
    \/ Idles \/ ListenFails \/ CreatesOne
    \/ \E a \in Actors, j \in ioJobs : ReadCtl(a, j) \/ ListenMark(a, j)
    \/ \E j \in ioJobs : WriteMore(j) \/ DelWr(j, "R", "W") \/ DelWr(j, "W", "R")
    \/ \E h \in half : ReadSet(h)
    \/ \E d \in lateDel : ListenCtl(d)
    \/ \E l \in Loops : \/ Moves(l) \/ Reaps(l) \/ FreeFails(l)
                        \/ Clears(l, cur[l].job)
                        \/ \E j \in dels[l] : Frees(l, j)

LEMMA StepIsOfKind ==
    ASSUME KeepsEvent, MemInv, [Next]_vars
    PROVE  Kinds
<1>1. TypeInv /\ TypeInv'
  BY TypeInvStep DEF MemInv
<1>2. CASE \E a \in Actors : Operates(a)
  <2>1. PICK a \in Actors : Operates(a)
    BY <1>2
  <2>2. CASE add_read_job_set(a)
    BY <2>2, ReadSetKind DEF Kinds
  <2>3. CASE del_listen_job_ctl(a)
    BY <2>3, ListenCtlKind DEF Kinds
  <2>4. ASSUME NEW fd \in Fds,
               \/ add_read_job_ctl(a, fd) \/ add_write_job_more(a, fd)
               \/ del_wr_job(a, fd, "R", "W") \/ del_wr_job(a, fd, "W", "R")
               \/ del_listen_job_mark(a, fd)
        PROVE  Kinds
    <3> DEFINE j == find_io_job(fd)
    <3>1. CASE add_read_job_ctl(a, fd)
      <4>1. ReadCtl(a, j)
        BY <3>1, ReadCtlKind
      <4>2. QED BY <4>1 DEF ReadCtl, Connected, Kinds
    <3>2. CASE add_write_job_more(a, fd)
      <4>1. WriteMore(j)
        BY <3>2, WriteMoreKind
      <4>2. QED BY <4>1 DEF WriteMore, Connected, Kinds
    <3>3. CASE del_wr_job(a, fd, "R", "W")
      <4>1. DelWr(j, "R", "W")
        BY <3>3, DelWrKind
      <4>2. QED BY <4>1 DEF DelWr, Connected, Kinds
    <3>4. CASE del_wr_job(a, fd, "W", "R")
      <4>1. DelWr(j, "W", "R")
        BY <3>4, DelWrKind
      <4>2. QED BY <4>1 DEF DelWr, Connected, Kinds
    <3>5. CASE del_listen_job_mark(a, fd)
      <4>1. ListenMark(a, j)
        BY <3>5, ListenMarkKind
      <4>2. QED BY <4>1 DEF ListenMark, Kinds
    <3>6. QED BY <2>4, <3>1, <3>2, <3>3, <3>4, <3>5
  <2>5. QED BY <2>1, <2>2, <2>3, <2>4 DEF Operates
<1>3. CASE \E l \in Loops : Moves(l) \/ Reaps(l) \/ FreeJob(l) \/ WriteClear(l)
  BY <1>1, <1>3, FreesKind, ClearsKind DEF Kinds
<1>4. QED BY <1>1, <1>2, <1>3, StepKinds DEF Kinds
-----------------------------------------------------------------------------
(***************************************************************************)
(* Shape is inductive: it needs keepEvent, through MemInv, and no other    *)
(* rule.                                                                   *)
(***************************************************************************)
LEMMA ShapeInit == Init => Shape
<1> SUFFICES ASSUME Init PROVE Shape
  OBVIOUS
<1>1. KindShape /\ HalfShape /\ CallerShape
  BY DEF Init, KindShape, HalfShape, CallerShape
<1>2. EventShape /\ EntryShape
  BY DEF Init, EventShape, EntryShape
<1>3. QED BY <1>1, <1>2 DEF Shape

\* The jobs in the list, with the types of their fields.
LEMMA Listed ==
    ASSUME MemInv
    PROVE  /\ njobs \in Nat /\ ioJobs \subseteq 1 .. njobs
           /\ job \in [1 .. njobs -> JobRec]
           /\ \A j \in 1 .. njobs :
                /\ job[j].ev \in SUBSET {"R", "W"} /\ job[j].del \in BOOLEAN
                /\ job[j].fd \in Fds /\ job[j].thrd \in Loops
                /\ job[j].rdcb \in BOOLEAN
                /\ job[j].kind \in {"listen", "wr"}
           /\ \A h \in half : h.job \in 1 .. njobs
           /\ Alive \subseteq 1 .. njobs
           /\ \A l \in Loops : dels[l] \subseteq 1 .. njobs
BY MaxJobsAssumption DEF MemInv, TypeInv, TypeOK, JobRec, Alive

LEMMA KindShapeStep ==
    ASSUME MemInv, Shape, Kinds
    PROVE  KindShape'
<1> USE Listed
<1>1. CASE UNCHANGED <<njobs, job>>
  BY <1>1 DEF Shape, KindShape
<1>2. CASE CreatesOne
  <2>1. PICK fd \in Fds, kind \in {"listen", "wr"}, ev \in {{"R"}, {"W"}}, t \in Loops :
          Creates(fd, kind, ev, t)
    BY <1>2 DEF CreatesOne
  <2>2. \A j \in 1 .. njobs' : j \in 1 .. njobs \/ j = njobs + 1
    BY <2>1 DEF Creates
  <2>3. QED BY <2>1, <2>2 DEF Creates, Shape, KindShape
<1>3. ASSUME NEW j \in 1 .. njobs, NEW r, JobSet(j, r), UNCHANGED njobs,
             r.kind = "listen" => r.thrd = 0 /\ r.ev = {"R"},
             r.kind = "wr" /\ r.del => r.ev = {}
      PROVE  KindShape'
  BY <1>3 DEF JobSet, Shape, KindShape
<1>4. ASSUME NEW h \in half, ReadSet(h) PROVE KindShape'
  <2> DEFINE r == [job[h.job] EXCEPT !.rdcb = TRUE, !.ev = @ \cup {"R"}]
  <2>1. h.job \in 1 .. njobs /\ r.kind = "wr" /\ ~r.del
    BY DEF Shape, HalfShape, JobRec
  <2>2. JobSet(h.job, r) /\ UNCHANGED njobs
    BY <1>4 DEF ReadSet
  <2>3. QED BY <1>3, <2>1, <2>2
<1>5. ASSUME NEW j \in ioJobs, WriteMore(j) PROVE KindShape'
  <2> DEFINE r == [job[j] EXCEPT !.ev = @ \cup {"W"}]
  <2>1. j \in 1 .. njobs /\ r.kind = "wr" /\ ~r.del
    BY <1>5 DEF WriteMore, Connected, JobRec
  <2>2. JobSet(j, r) /\ UNCHANGED njobs
    BY <1>5 DEF WriteMore
  <2>3. QED BY <1>3, <2>1, <2>2
<1>6. ASSUME NEW j \in ioJobs, NEW flag, NEW other, {flag, other} = {"R", "W"},
             DelWr(j, flag, other)
      PROVE  KindShape'
  <2>1. PICK fr \in FreeArgs :
          JobSet(j, [job[j] EXCEPT !.free = fr, !.del = other \notin job[j].ev,
                                   !.ev = @ \ {flag}])
    BY <1>6 DEF DelWr
  <2> DEFINE r == [job[j] EXCEPT !.free = fr, !.del = other \notin job[j].ev,
                                 !.ev = @ \ {flag}]
  <2>2. j \in 1 .. njobs /\ job[j] \in JobRec /\ job[j].kind = "wr" /\ UNCHANGED njobs
    BY <1>6 DEF DelWr, Connected
  <2>3. r.kind = "wr" /\ r.del = (other \notin job[j].ev) /\ r.ev = job[j].ev \ {flag}
    BY <2>2 DEF JobRec
  <2>4. job[j].ev \subseteq {flag, other}
    BY <1>6, <2>2
  <2> HIDE DEF r
  <2>5. r.del => r.ev = {}
    BY <2>3, <2>4
  <2>6. JobSet(j, r)
    BY <2>1 DEF r
  <2>7. QED BY <1>3, <2>2, <2>3, <2>5, <2>6
<1>7. ASSUME NEW a \in Actors, NEW j \in ioJobs, ListenMark(a, j) PROVE KindShape'
  <2>1. PICK fr \in FreeArgs : JobSet(j, [job[j] EXCEPT !.free = fr, !.del = TRUE])
    BY <1>7 DEF ListenMark
  <2> DEFINE r == [job[j] EXCEPT !.free = fr, !.del = TRUE]
  <2>2. /\ j \in 1 .. njobs /\ job[j] \in JobRec /\ job[j].kind = "listen"
        /\ UNCHANGED njobs
    BY <1>7 DEF ListenMark
  <2>3. r.kind = "listen" /\ r.thrd = 0 /\ r.ev = {"R"}
    BY <2>2 DEF JobRec, Shape, KindShape
  <2>4. QED BY <1>3, <2>1, <2>2, <2>3
<1>8. ASSUME NEW l \in Loops, Clears(l, cur[l].job) PROVE KindShape'
  <2> DEFINE j == cur[l].job
             r == [job[j] EXCEPT !.ev = @ \ {"W"}]
  <2>1. /\ j \in 1 .. njobs /\ job[j] \in JobRec /\ job[j].kind = "wr"
        /\ job[j].del => job[j].ev = {}
        /\ JobSet(j, r) /\ UNCHANGED njobs
    BY <1>8 DEF Clears, Shape, EventShape, KindShape
  <2> HIDE DEF j
  <2>2. r.kind = "wr" /\ (r.del => r.ev = {})
    BY <2>1 DEF JobRec
  <2>3. QED BY <1>3, <2>1, <2>2
<1>9. QED
  BY <1>1, <1>2, <1>4, <1>5, <1>6, <1>7, <1>8
     DEF Kinds, Idles, ListenFails, ReadCtl, ListenCtl, Moves, Reaps, Reap,
         LoopKeeps, FreeFails, Frees

LEMMA HalfShapeStep ==
    ASSUME MemInv, Shape, Kinds
    PROVE  HalfShape'
<1> USE Listed
<1>1. CASE UNCHANGED <<job, ioJobs, half>>
  BY <1>1 DEF Shape, HalfShape
<1>2. CASE CreatesOne
  BY <1>2 DEF CreatesOne, Creates, HalfShape
<1>3. ASSUME NEW a \in Actors, NEW j \in ioJobs, ReadCtl(a, j) PROVE HalfShape'
  BY <1>3 DEF ReadCtl, Connected, HalfShape
<1>4. CASE half' = {}
  BY <1>4 DEF HalfShape
<1>5. ASSUME NEW l \in Loops, Reaps(l) PROVE HalfShape'
  BY <1>5 DEF Reaps, Reap, MgrLock, LoopKeeps, HalfShape
<1>6. ASSUME NEW l \in Loops, Clears(l, cur[l].job) PROVE HalfShape'
  BY <1>6 DEF Clears, JobSet, Shape, HalfShape
<1>7. QED
  BY <1>1, <1>2, <1>3, <1>4, <1>5, <1>6
     DEF Kinds, Idles, ListenFails, ListenMark, WriteMore, DelWr, ReadSet,
         ListenCtl, Moves, FreeFails, Frees

\* A loop leaves a callback only when it is in no operation of the library.
LEMMA CallbackHeld ==
    ASSUME MemInv, NEW l \in Loops, NEW m \in Loops,
           pc[m] \in CallbackPcs \cup FreePcs, InAddRead(m) \/ InDelListen(m),
           Moves(l) \/ Reaps(l) \/ Clears(l, cur[l].job) \/ \E j \in dels[l] : Frees(l, j)
    PROVE  pc'[m] = pc[m]
<1>0. pc \in [Loops -> Pcs]
  BY DEF MemInv, TypeInv, TypeOK
<1>1. m # l => pc'[m] = pc[m]
  BY <1>0 DEF Moves, EpollReady, EpollIdle, Dispatch, RecvData, RecvDrained, Accept,
     AcceptDrained, ReadCbReturn, ReadEndReturn, WriteCheck, WriteCbReturn,
     TimersReturn, Goto, ReadDone, EventDone, Reaps, Reap, Clears, Frees
<1>2. m # l
  BY DEF Moves, EpollReady, EpollIdle, Dispatch, RecvData, RecvDrained, Accept,
     AcceptDrained, ReadCbReturn, ReadEndReturn, WriteCheck, WriteCbReturn,
     TimersReturn, Reaps, Clears, Frees, CanCall, CallbackPcs, FreePcs
<1>3. QED BY <1>1, <1>2

LEMMA CallerShapeStep ==
    ASSUME MemInv, Shape, Kinds
    PROVE  CallerShape'
<1>1. CASE UNCHANGED <<pc, half, lateDel>>
  BY <1>1 DEF Shape, CallerShape
<1>2. CASE CreatesOne
  BY <1>2 DEF CreatesOne, Creates, Shape, CallerShape
<1>3. ASSUME NEW a \in Actors, CanCall(a) PROVE a \in Loops => pc[a] \in CallbackPcs \cup FreePcs
  BY <1>3, ActorsAssumption DEF CanCall
<1>4. ASSUME NEW a \in Actors, NEW j \in ioJobs, ReadCtl(a, j) PROVE CallerShape'
  BY <1>3, <1>4 DEF ReadCtl, Shape, CallerShape
<1>5. ASSUME NEW a \in Actors, NEW j \in ioJobs, ListenMark(a, j) PROVE CallerShape'
  BY <1>3, <1>5 DEF ListenMark, Shape, CallerShape
<1>6. ASSUME NEW h \in half, ReadSet(h) PROVE CallerShape'
  BY <1>6 DEF ReadSet, Shape, CallerShape
<1>7. ASSUME NEW d \in lateDel, ListenCtl(d) PROVE CallerShape'
  BY <1>7 DEF ListenCtl, Shape, CallerShape
<1>8. ASSUME NEW l \in Loops,
             \/ Moves(l) \/ Reaps(l) \/ Clears(l, cur[l].job)
             \/ \E j \in dels[l] : Frees(l, j)
      PROVE  CallerShape'
  <2>1. UNCHANGED <<half, lateDel>>
    BY <1>8 DEF Moves, Reaps, Reap, LoopKeeps, Clears, Frees
  <2>2. ASSUME NEW h \in half, h.by \in Loops
        PROVE  pc'[h.by] \in CallbackPcs \cup FreePcs
    <3>1. pc[h.by] \in CallbackPcs \cup FreePcs /\ InAddRead(h.by)
      BY <2>2 DEF Shape, CallerShape, InAddRead
    <3>2. QED BY <1>8, <2>2, <3>1, CallbackHeld
  <2>3. ASSUME NEW d \in lateDel, d.by \in Loops
        PROVE  pc'[d.by] \in CallbackPcs \cup FreePcs
    <3>1. pc[d.by] \in CallbackPcs \cup FreePcs /\ InDelListen(d.by)
      BY <2>3 DEF Shape, CallerShape, InDelListen
    <3>2. QED BY <1>8, <2>3, <3>1, CallbackHeld
  <2>4. QED BY <2>1, <2>2, <2>3 DEF CallerShape
<1>9. QED
  BY <1>1, <1>2, <1>4, <1>5, <1>6, <1>7, <1>8
     DEF Kinds, Idles, ListenFails, WriteMore, DelWr, FreeFails

\* Where the loop goes, and with which event.
LEMMA MovesTo ==
    ASSUME MemInv, NEW l \in Loops, Moves(l)
    PROVE  /\ \A m \in Loops : m # l =>
                pc'[m] = pc[m] /\ cur'[m] = cur[m] /\ batch'[m] = batch[m]
           /\ \/ UNCHANGED batch
              \/ EventDone(l)
              \/ EpollReady(l)
           /\ pc'[l] = "write2" =>
                UNCHANGED cur /\ job[cur[l].job].kind = "wr" /\ pc[l] = "write1"
           /\ pc'[l] \in {"read", "accept", "readcb", "readend"} =>
                \/ /\ UNCHANGED cur
                   /\ pc[l] \in {"read", "accept", "readcb", "readend"}
                \/ "IN" \in cur'[l].ev
<1>0. /\ pc \in [Loops -> Pcs] /\ batch \in [Loops -> SUBSET Event]
      /\ cur \in [Loops -> Entry]
  BY DEF MemInv, TypeInv, TypeOK
<1>1. CASE EpollReady(l)
  BY <1>0, <1>1 DEF EpollReady
<1>2. CASE EpollIdle(l)
  BY <1>0, <1>2 DEF EpollIdle
<1>3. CASE Dispatch(l)
  BY <1>0, <1>3 DEF Dispatch
<1>4. CASE EventDone(l)
  BY <1>0, <1>4 DEF EventDone
<1>5. CASE \/ RecvData(l) \/ Accept(l) \/ ReadCbReturn(l) \/ TimersReturn(l)
  BY <1>0, <1>5 DEF RecvData, Accept, ReadCbReturn, TimersReturn, Goto
<1>6. CASE RecvDrained(l) \/ AcceptDrained(l) \/ ReadEndReturn(l)
  <2>1. CASE Goto(l, "write1")
    BY <1>0, <2>1 DEF Goto
  <2>2. QED BY <1>4, <1>6, <2>1 DEF RecvDrained, AcceptDrained, ReadEndReturn, ReadDone
<1>7. CASE WriteCheck(l)
  <2>1. CASE Goto(l, "write2")
    <3>1. pc[l] = "write1" /\ (job[cur[l].job].kind = "wr" \/ EventDone(l))
      <4>1. cur[l] \in batch[l]
        BY <1>7 DEF WriteCheck, MemInv, TypeInv, LoopShape, EventPcs
      <4>2. cur[l].job \in 1 .. njobs
        BY <1>0, <4>1 DEF Event
      <4>3. QED BY <1>7, <4>2, Listed DEF WriteCheck
    <3>2. QED BY <1>0, <1>4, <2>1, <3>1 DEF Goto
  <2>2. QED BY <1>4, <1>7, <2>1 DEF WriteCheck
<1>8. CASE WriteCbReturn(l)
  BY <1>4, <1>8 DEF WriteCbReturn
<1>9. QED BY <1>1, <1>2, <1>3, <1>5, <1>6, <1>7, <1>8 DEF Moves

\* The fields of a job that never change, and the two that are never reset.
FieldsStay(j) ==
    /\ job'[j].kind = job[j].kind /\ job'[j].fd = job[j].fd
    /\ job'[j].thrd = job[j].thrd
    /\ job[j].rdcb => job'[j].rdcb
    /\ job[j].del => job'[j].del

LEMMA KindsKept ==
    ASSUME MemInv, Kinds, NEW j \in 1 .. njobs
    PROVE  FieldsStay(j)
<1> USE Listed
<1>0. job[j] \in JobRec
  OBVIOUS
<1>1. CASE UNCHANGED job
  BY <1>1 DEF FieldsStay
<1>2. CASE CreatesOne
  BY <1>2 DEF CreatesOne, Creates, FieldsStay
<1>3. ASSUME NEW k \in 1 .. njobs, NEW r, JobSet(k, r),
             r.kind = job[k].kind, r.fd = job[k].fd, r.thrd = job[k].thrd,
             job[k].rdcb => r.rdcb, job[k].del => r.del
      PROVE  FieldsStay(j)
  BY <1>3 DEF JobSet, FieldsStay
<1>4. ASSUME NEW h \in half, ReadSet(h)
      PROVE  FieldsStay(j)
  <2> DEFINE r == [job[h.job] EXCEPT !.rdcb = TRUE, !.ev = @ \cup {"R"}]
  <2>1. h.job \in 1 .. njobs /\ job[h.job] \in JobRec /\ JobSet(h.job, r)
    BY <1>4 DEF ReadSet
  <2>2. /\ r.kind = job[h.job].kind /\ r.fd = job[h.job].fd
        /\ r.thrd = job[h.job].thrd /\ r.rdcb /\ r.del = job[h.job].del
    BY <2>1 DEF JobRec
  <2> HIDE DEF r
  <2>3. QED BY <1>3, <2>1, <2>2
<1>5. ASSUME NEW k \in ioJobs,
             \/ WriteMore(k) \/ DelWr(k, "R", "W") \/ DelWr(k, "W", "R")
             \/ \E a \in Actors : ListenMark(a, k)
      PROVE  FieldsStay(j)
  <2>1. k \in 1 .. njobs /\ job[k] \in JobRec
    OBVIOUS
  <2>2. CASE WriteMore(k)
    <3> DEFINE r == [job[k] EXCEPT !.ev = @ \cup {"W"}]
    <3>1. /\ r.kind = job[k].kind /\ r.fd = job[k].fd
          /\ r.thrd = job[k].thrd /\ r.rdcb = job[k].rdcb /\ r.del = job[k].del
      BY <2>1 DEF JobRec
    <3>2. JobSet(k, r)
      BY <2>2 DEF WriteMore
    <3>3. QED BY <1>3, <2>1, <3>1, <3>2
  <2>3. ASSUME NEW flag, NEW other, DelWr(k, flag, other)
        PROVE  FieldsStay(j)
    <3>1. PICK fr \in FreeArgs :
            JobSet(k, [job[k] EXCEPT !.free = fr, !.del = other \notin job[k].ev,
                                     !.ev = @ \ {flag}])
      BY <2>3 DEF DelWr
    <3> DEFINE r == [job[k] EXCEPT !.free = fr, !.del = other \notin job[k].ev,
                                   !.ev = @ \ {flag}]
    <3>2. /\ r.kind = job[k].kind /\ r.fd = job[k].fd
          /\ r.thrd = job[k].thrd /\ r.rdcb = job[k].rdcb
      BY <2>1 DEF JobRec
    <3>3. ~job[k].del
      BY <2>3 DEF DelWr, Connected
    <3>4. QED BY <1>3, <2>1, <3>1, <3>2, <3>3
  <2>4. CASE \E a \in Actors : ListenMark(a, k)
    <3>1. PICK fr \in FreeArgs : JobSet(k, [job[k] EXCEPT !.free = fr, !.del = TRUE])
      BY <2>4 DEF ListenMark
    <3> DEFINE r == [job[k] EXCEPT !.free = fr, !.del = TRUE]
    <3>2. /\ r.kind = job[k].kind /\ r.fd = job[k].fd
          /\ r.thrd = job[k].thrd /\ r.rdcb = job[k].rdcb /\ r.del
      BY <2>1 DEF JobRec
    <3>3. QED BY <1>3, <2>1, <3>1, <3>2
  <2>5. QED BY <1>5, <2>2, <2>3, <2>4
<1>6. ASSUME NEW l \in Loops, Clears(l, cur[l].job)
      PROVE  FieldsStay(j)
  <2> DEFINE k == cur[l].job
             r == [job[k] EXCEPT !.ev = @ \ {"W"}]
  <2>1. k \in 1 .. njobs /\ job[k] \in JobRec /\ JobSet(k, r)
    BY <1>6 DEF Clears
  <2> HIDE DEF k
  <2>2. /\ r.kind = job[k].kind /\ r.fd = job[k].fd
        /\ r.thrd = job[k].thrd /\ r.rdcb = job[k].rdcb /\ r.del = job[k].del
    BY <2>1 DEF JobRec
  <2>3. QED BY <1>3, <2>1, <2>2
<1>7. QED
  BY <1>1, <1>2, <1>4, <1>5, <1>6
     DEF Kinds, Idles, ListenFails, ReadCtl, ListenCtl, Moves, Reaps, Reap,
         LoopKeeps, FreeFails, Frees

LEMMA EventShapeStep ==
    ASSUME MemInv, Shape, Kinds
    PROVE  EventShape'
<1>0. \A l \in Loops : pc[l] = "write2" => cur[l].job \in 1 .. njobs
  <2> SUFFICES ASSUME NEW l \in Loops, pc[l] = "write2" PROVE cur[l].job \in 1 .. njobs
    OBVIOUS
  <2>1. cur[l] \in batch[l]
    BY DEF MemInv, TypeInv, LoopShape, EventPcs
  <2>2. QED BY <2>1 DEF MemInv, TypeInv, TypeOK, Event
<1>1. CASE UNCHANGED <<pc, cur>>
  <2>1. ASSUME NEW l \in Loops, pc'[l] = "write2"
        PROVE  job'[cur'[l].job].kind = "wr"
    BY <1>0, <1>1, <2>1, KindsKept DEF FieldsStay, Shape, EventShape
  <2>2. QED BY <1>1, <2>1 DEF Shape, EventShape
<1>2. ASSUME NEW l \in Loops, Moves(l) PROVE EventShape'
  <2>1. UNCHANGED job
    BY <1>2 DEF Moves
  <2>2. ASSUME NEW m \in Loops
        PROVE  /\ pc'[m] = "write2" => job[cur'[m].job].kind = "wr"
               /\ pc'[m] \in {"read", "accept", "readcb", "readend"} => "IN" \in cur'[m].ev
    BY <1>2, MovesTo DEF Shape, EventShape
  <2>3. QED BY <2>1, <2>2 DEF EventShape
<1>3. ASSUME NEW l \in Loops,
             Reaps(l) \/ Clears(l, cur[l].job) \/ \E j \in dels[l] : Frees(l, j)
      PROVE  EventShape'
  <2>1. UNCHANGED cur
    BY <1>3 DEF Reaps, Reap, Clears, Frees
  <2>2. /\ \A m \in Loops : m # l => pc'[m] = pc[m]
        /\ pc'[l] \notin {"write2", "read", "accept", "readcb", "readend"}
    BY <1>3 DEF Reaps, Reap, Clears, Frees, MemInv, TypeInv, TypeOK, FreePcs
  <2>3. ASSUME NEW m \in Loops, pc'[m] = "write2"
        PROVE  job'[cur'[m].job].kind = "wr"
    BY <1>0, <2>1, <2>2, <2>3, KindsKept DEF FieldsStay, Shape, EventShape
  <2>4. QED BY <2>1, <2>2, <2>3 DEF Shape, EventShape
<1>4. QED
  BY <1>1, <1>2, <1>3
     DEF Kinds, Idles, ListenFails, CreatesOne, Creates, ReadCtl, ListenMark,
         WriteMore, DelWr, ReadSet, ListenCtl, FreeFails

LEMMA EntryShapeStep ==
    ASSUME MemInv, Shape, Kinds
    PROVE  EntryShape'
<1> DEFINE Empty == \A l \in Loops, f \in Fds :
                        epoll[l][f].job = NoJob => epoll[l][f] = NoEntry
           Once == \A l \in Loops : \A e, g \in batch[l] : e.job = g.job => e = g
<1>0. Empty /\ Once
  BY DEF Shape, EntryShape
<1>1. UNCHANGED epoll => Empty'
  BY <1>0
<1>2. ASSUME NEW l, NEW f, NEW x, EntrySet(l, f, x), x.job = NoJob => x = NoEntry
      PROVE  Empty'
  BY <1>0, <1>2 DEF EntrySet
<1>3. ASSUME NEW j \in 1 .. njobs, NEW ev, Registers(j, ev) \/ Unregisters(j) \/ Modifies(j, ev)
      PROVE  Empty'
  <2>1. j # NoJob
    BY Listed DEF NoJob
  <2>2. QED BY <1>1, <1>2, <1>3, <2>1 DEF Registers, Unregisters, Modifies, NoEntry
<1> HIDE DEF Empty
<1>4. Empty'
  <2>1. CASE CreatesOne
    <3>1. PICK fd \in Fds, kind \in {"listen", "wr"}, ev \in {{"R"}, {"W"}}, t \in Loops :
            Creates(fd, kind, ev, t)
      BY <2>1 DEF CreatesOne
    <3>2. EntrySet(t, fd, [job |-> njobs + 1, ev |-> Flags(ev)])
      BY <3>1, CtlResolved DEF Creates, MemInv
    <3>3. njobs + 1 # NoJob
      BY Listed DEF NoJob
    <3>4. QED BY <1>2, <3>2, <3>3
  <2>2. ASSUME NEW j \in ioJobs,
               \/ \E a \in Actors : ReadCtl(a, j)
               \/ WriteMore(j) \/ DelWr(j, "R", "W") \/ DelWr(j, "W", "R")
        PROVE  Empty'
    <3>1. j \in 1 .. njobs
      BY Listed
    <3>2. \/ UNCHANGED epoll \/ Unregisters(j)
          \/ \E ev : Registers(j, ev) \/ Modifies(j, ev)
      BY <2>2 DEF ReadCtl, WriteMore, DelWr, AddFails
    <3>3. QED BY <1>1, <1>3, <3>1, <3>2
  <2>3. ASSUME NEW d \in lateDel, ListenCtl(d) PROVE Empty'
    BY <1>2, <2>3 DEF ListenCtl, NoEntry
  <2>4. ASSUME NEW l \in Loops, Clears(l, cur[l].job) PROVE Empty'
    <3>1. cur[l].job \in 1 .. njobs
      BY <2>4, Listed DEF Clears
    <3>2. QED BY <1>3, <2>4, <3>1 DEF Clears
  <2>5. ASSUME NEW l \in Loops, NEW j \in dels[l], Frees(l, j) PROVE Empty'
    <3>1. \A m \in Loops, f \in Fds :
            epoll'[m][f] = NoEntry \/ epoll'[m][f] = epoll[m][f]
      BY <2>5 DEF Frees
    <3>2. QED BY <1>0, <3>1 DEF Empty
  <2>6. QED
    BY <1>1, <2>1, <2>2, <2>3, <2>4, <2>5
       DEF Kinds, Idles, ListenFails, ListenMark, ReadSet, Moves, Reaps, Reap, FreeFails
<1>5. Once'
  <2>1. CASE UNCHANGED batch
    BY <1>0, <2>1
  <2>2. ASSUME NEW l \in Loops, Moves(l) PROVE Once'
    <3>1. CASE EventDone(l)
      <4>1. \A m \in Loops : batch'[m] \subseteq batch[m]
        BY <3>1 DEF EventDone, MemInv, TypeInv, TypeOK
      <4>2. QED BY <1>0, <4>1
    <3>2. CASE EpollReady(l)
      <4>1. PICK fds \in SUBSET {f \in Fds : epoll[l][f].job # NoJob} :
              \E fired \in [fds -> SUBSET {"IN", "OUT"}] :
                batch' = [batch EXCEPT ![l] =
                            {[job |-> epoll[l][f].job, ev |-> fired[f]] : f \in fds}]
        BY <3>2 DEF EpollReady
      <4>2. PICK fired \in [fds -> SUBSET {"IN", "OUT"}] :
              batch' = [batch EXCEPT ![l] =
                          {[job |-> epoll[l][f].job, ev |-> fired[f]] : f \in fds}]
        BY <4>1
      <4>3. batch'[l] = {[job |-> epoll[l][f].job, ev |-> fired[f]] : f \in fds}
        BY <4>2 DEF MemInv, TypeInv, TypeOK
      <4>4. \A f, g \in fds : epoll[l][f].job = epoll[l][g].job => f = g
        BY DEF MemInv, NoDangling
      <4>5. \A e, g \in batch'[l] : e.job = g.job => e = g
        BY <4>3, <4>4
      <4>6. \A m \in Loops : m # l => batch'[m] = batch[m]
        BY <2>2, MovesTo
      <4>7. QED BY <1>0, <4>5, <4>6
    <3>3. QED BY <2>1, <2>2, <3>1, <3>2, MovesTo
  <2>3. QED
    BY <2>1, <2>2
       DEF Kinds, Idles, ListenFails, CreatesOne, Creates, ReadCtl, ListenMark,
           WriteMore, DelWr, ReadSet, ListenCtl, Reaps, Reap, Clears, FreeFails, Frees
<1>6. QED BY <1>4, <1>5 DEF EntryShape, Empty

LEMMA ShapeStep ==
    ASSUME MemInv, Shape, Kinds
    PROVE  Shape'
BY KindShapeStep, HalfShapeStep, CallerShapeStep, EventShapeStep, EntryShapeStep
   DEF Shape
-----------------------------------------------------------------------------
(***************************************************************************)
(* One job per descriptor: keepEvent and noReadd.                          *)
(***************************************************************************)

\* With noReadd, a job is created only for a descriptor that has none: a job
\* that find_io_job does not return is hidden behind one that is being deleted.
LEMMA FdFree ==
    ASSUME MemInv, "noReadd" \in Rules, NEW fd \in Fds,
           MayAdd(fd), find_io_job(fd) = NoJob
    PROVE  \A j \in Alive : job[j].fd # fd
<1> SUFFICES ASSUME NEW j \in Alive, job[j].fd = fd PROVE FALSE
  OBVIOUS
<1> USE Listed
<1> DEFINE same == {k \in ioJobs : job[k].fd = fd}
<1>1. ~job[j].del
  BY DEF MayAdd
<1>2. j \in same
  BY <1>1 DEF MemInv, OwnedOnce
<1>3. same \subseteq Nat
  <2>1. \A k \in ioJobs : k \in Nat
    OBVIOUS
  <2>2. QED BY <2>1, Zenon
<1>4. First(same) \in same
  BY <1>2, <1>3, FirstIn
<1>5. First(same) \in Alive /\ job[First(same)].fd = fd
  BY <1>4 DEF MemInv, OwnedOnce
<1>6. ~job[First(same)].del
  BY <1>5 DEF MayAdd
<1>7. First(same) # NoJob
  BY <1>4 DEF NoJob
<1>8. find_io_job(fd) = First(same)
  BY <1>2, <1>6 DEF find_io_job
<1>9. QED BY <1>7, <1>8

\* Nobody registers a descriptor that a job in memory has.  noReadd sees to it;
\* a module that composes NetPoll with its callers can show it of them instead.
Unused(fd) == \A j \in Alive : job[j].fd # fd

AddsUnused ==
    /\ \A fd \in Fds, kind \in {"listen", "wr"}, ev \in {{"R"}, {"W"}}, t \in Loops :
          Creates(fd, kind, ev, t) => Unused(fd)
    /\ ListenFails /\ aborted' =>
         \E fd \in Fds : NoLoop \in AddTargets(0, fd) /\ Unused(fd)

LEMMA NoReaddSuffices ==
    ASSUME MemInv, "noReadd" \in Rules
    PROVE  AddsUnused
BY FdFree DEF AddsUnused, Unused, Creates, ListenFails

\* Jobs in memory become fewer, or one more.
LEMMA AliveStep ==
    ASSUME MemInv, Kinds
    PROVE  \/ CreatesOne /\ Alive' = Alive \cup {njobs + 1} /\ njobs + 1 \notin Alive
           \/ njobs' = njobs /\ Alive' \subseteq Alive
<1>1. CASE njobs' = njobs /\ freed \subseteq freed'
  BY <1>1 DEF Alive
<1>2. CASE CreatesOne
  <2>1. njobs \in Nat /\ freed \subseteq 1 .. njobs
    BY Listed DEF MemInv, TypeInv, TypeOK
  <2>2. njobs' = njobs + 1 /\ freed' = freed
    BY <1>2 DEF CreatesOne, Creates
  <2>3. QED BY <1>2, <2>1, <2>2 DEF Alive
<1>3. QED
  BY <1>1, <1>2
     DEF Kinds, Idles, ListenFails, ReadCtl, ListenMark, WriteMore, DelWr, ReadSet,
         ListenCtl, Moves, Reaps, Reap, LoopKeeps, Clears, FreeFails, Frees

LEMMA OneJobStep ==
    ASSUME MemInv, AddsUnused, OneJobPerFd, Kinds
    PROVE  OneJobPerFd'
<1>1. \A j \in Alive : job'[j].fd = job[j].fd
  BY KindsKept, Listed DEF FieldsStay
<1>2. CASE njobs' = njobs /\ Alive' \subseteq Alive
  BY <1>1, <1>2 DEF OneJobPerFd
<1>3. CASE CreatesOne /\ Alive' = Alive \cup {njobs + 1} /\ njobs + 1 \notin Alive
  <2>1. PICK fd \in Fds, kind \in {"listen", "wr"}, ev \in {{"R"}, {"W"}}, t \in Loops :
          Creates(fd, kind, ev, t)
    BY <1>3 DEF CreatesOne
  <2>2. \A j \in Alive : job[j].fd # fd
    BY <2>1 DEF AddsUnused, Unused
  <2>3. job'[njobs + 1].fd = fd
    BY <2>1 DEF Creates
  <2>4. QED BY <1>1, <1>3, <2>2, <2>3 DEF OneJobPerFd
<1>4. QED BY <1>2, <1>3, AliveStep

OneJobInv == MemInv /\ Shape /\ OneJobPerFd

LEMMA OneJobInvInit == Init => OneJobInv
<1> SUFFICES ASSUME Init PROVE OneJobInv
  OBVIOUS
<1>1. OneJobPerFd
  BY DEF Init, OneJobPerFd, Alive
<1>2. QED BY <1>1, MemInvInit, ShapeInit DEF OneJobInv

LEMMA OneJobInvStep ==
    ASSUME KeepsEvent, AddsUnused, OneJobInv, [Next]_vars
    PROVE  OneJobInv' /\ Kinds
<1>1. Kinds
  BY StepIsOfKind DEF OneJobInv
<1>2. MemInv' /\ Shape' /\ OneJobPerFd'
  BY <1>1, MemInvStep, ShapeStep, OneJobStep DEF OneJobInv
<1>3. QED BY <1>1, <1>2 DEF OneJobInv

\* A descriptor has one job: find_io_job never hides a live job behind a deleted
\* one.  The application must not add to a descriptor while the library is still
\* to call its free callback (noReadd).
THEOREM OneJob ==
    ASSUME KeepsEvent, "noReadd" \in Rules
    PROVE  Spec => []OneJobPerFd
<1>1. OneJobInv => OneJobPerFd
  BY DEF OneJobInv
<1>2. OneJobInv /\ [Next]_vars => OneJobInv'
  BY OneJobInvStep, NoReaddSuffices DEF OneJobInv
<1>3. QED BY <1>1, <1>2, OneJobInvInit, PTL DEF Spec
-----------------------------------------------------------------------------
(***************************************************************************)
(* The free callback: keepEvent and userFree; no abort: with noReadd and   *)
(* ctlSpace too.                                                           *)
(***************************************************************************)
LEMMA FreeSetStep ==
    ASSUME MemInv, "userFree" \in Rules, FreeSet, Kinds
    PROVE  FreeSet'
<1> USE Listed
<1>1. CASE UNCHANGED <<njobs, job>>
  BY <1>1 DEF FreeSet
<1>2. CASE CreatesOne
  <2>1. PICK fd \in Fds, kind \in {"listen", "wr"}, ev \in {{"R"}, {"W"}}, t \in Loops :
          Creates(fd, kind, ev, t)
    BY <1>2 DEF CreatesOne
  <2>2. \A j \in 1 .. njobs' : j \in 1 .. njobs \/ j = njobs + 1
    BY <2>1 DEF Creates
  <2>3. QED BY <2>1, <2>2 DEF Creates, FreeSet
<1>3. ASSUME NEW j \in 1 .. njobs, NEW r, JobSet(j, r), UNCHANGED njobs,
             r.del => r.free = "user"
      PROVE  FreeSet'
  BY <1>3 DEF JobSet, FreeSet
<1>4. ASSUME NEW j \in 1 .. njobs, NEW ev, UNCHANGED njobs,
             \/ JobSet(j, [job[j] EXCEPT !.ev = ev])
             \/ JobSet(j, [job[j] EXCEPT !.rdcb = TRUE, !.ev = ev])
      PROVE  FreeSet'
  <2>1. job[j] \in JobRec /\ (job[j].del => job[j].free = "user")
    BY DEF FreeSet
  <2>2. /\ [job[j] EXCEPT !.ev = ev].del = job[j].del
        /\ [job[j] EXCEPT !.ev = ev].free = job[j].free
        /\ [job[j] EXCEPT !.rdcb = TRUE, !.ev = ev].del = job[j].del
        /\ [job[j] EXCEPT !.rdcb = TRUE, !.ev = ev].free = job[j].free
    BY <2>1 DEF JobRec
  <2>3. CASE JobSet(j, [job[j] EXCEPT !.ev = ev])
    BY <1>3, <1>4, <2>1, <2>2, <2>3
  <2>4. CASE JobSet(j, [job[j] EXCEPT !.rdcb = TRUE, !.ev = ev])
    BY <1>3, <1>4, <2>1, <2>2, <2>4
  <2>5. QED BY <1>4, <2>3, <2>4
<1>5. ASSUME NEW j \in ioJobs, NEW d, NEW ev, NEW fr \in FreeArgs, UNCHANGED njobs,
             \/ JobSet(j, [job[j] EXCEPT !.free = fr, !.del = d, !.ev = ev])
             \/ JobSet(j, [job[j] EXCEPT !.free = fr, !.del = d])
      PROVE  FreeSet'
  <2>1. job[j] \in JobRec /\ fr = "user"
    BY DEF FreeArgs
  <2>2. /\ [job[j] EXCEPT !.free = fr, !.del = d, !.ev = ev].free = "user"
        /\ [job[j] EXCEPT !.free = fr, !.del = d].free = "user"
    BY <2>1 DEF JobRec
  <2>3. CASE JobSet(j, [job[j] EXCEPT !.free = fr, !.del = d, !.ev = ev])
    BY <1>3, <1>5, <2>2, <2>3
  <2>4. CASE JobSet(j, [job[j] EXCEPT !.free = fr, !.del = d])
    BY <1>3, <1>5, <2>2, <2>4
  <2>5. QED BY <1>5, <2>3, <2>4
<1>6. ASSUME NEW h \in half, ReadSet(h) PROVE FreeSet'
  BY <1>4, <1>6 DEF ReadSet
<1>7. ASSUME NEW j \in ioJobs, WriteMore(j) PROVE FreeSet'
  BY <1>4, <1>7 DEF WriteMore
<1>8. ASSUME NEW j \in ioJobs, NEW flag, NEW other, DelWr(j, flag, other) PROVE FreeSet'
  BY <1>5, <1>8 DEF DelWr
<1>9. ASSUME NEW a \in Actors, NEW j \in ioJobs, ListenMark(a, j) PROVE FreeSet'
  BY <1>5, <1>9 DEF ListenMark
<1>10. ASSUME NEW l \in Loops, Clears(l, cur[l].job) PROVE FreeSet'
  BY <1>4, <1>10 DEF Clears
<1>11. QED
  BY <1>1, <1>2, <1>6, <1>7, <1>8, <1>9, <1>10
     DEF Kinds, Idles, ListenFails, ReadCtl, ListenCtl, Moves, Reaps, Reap,
         LoopKeeps, FreeFails, Frees

LEMMA FreeSetInit == Init => FreeSet
BY DEF Init, FreeSet

LEMMA FreeSetSafe == MemInv /\ FreeSet => FreedByUser
<1> SUFFICES ASSUME MemInv, FreeSet, NEW l \in Loops, NEW j \in dels[l]
             PROVE  job[j].free = "user"
  BY DEF FreedByUser
<1>1. job[j].del /\ j \in 1 .. njobs
  BY Listed DEF MemInv, OwnedOnce
<1>2. QED BY <1>1 DEF FreeSet

\* A job that is being freed has the free callback of its deletion and not the
\* constructor's default, when the deletions pass one.
THEOREM UserFrees ==
    ASSUME KeepsEvent, "userFree" \in Rules
    PROVE  Spec => []FreedByUser
<1> DEFINE Inv == MemInv /\ FreeSet
<1>1. Init => Inv
  BY MemInvInit, FreeSetInit
<1>2. Inv /\ [Next]_vars => Inv'
  BY StepIsOfKind, MemInvStep, FreeSetStep
<1>3. Inv => FreedByUser
  BY FreeSetSafe
<1> HIDE DEF Inv
<1>4. QED BY <1>1, <1>2, <1>3, PTL DEF Spec

LEMMA NoAbortStep ==
    ASSUME AddsUnused, "userFree" \in Rules, "ctlSpace" \in Rules,
           MemInv, FreeSet, NoAbort, Kinds
    PROVE  NoAbort'
<1>1. ~(ListenFails /\ aborted')
  <2> SUFFICES ASSUME ListenFails, aborted' PROVE FALSE
    OBVIOUS
  <2>1. PICK fd \in Fds : NoLoop \in AddTargets(0, fd) /\ Unused(fd)
    BY DEF AddsUnused
  <2>2. epoll[0][fd].job # NoJob
    BY <2>1, LoopsFacts DEF AddTargets
  <2>3. epoll[0][fd].job \in Alive /\ job[epoll[0][fd].job].fd = fd
    BY <2>2, LoopsFacts DEF MemInv, NoDangling
  <2>4. QED BY <2>1, <2>3 DEF Unused
<1>2. \A l \in Loops : ~FreeFails(l)
  BY FreeSetSafe DEF FreeFails, FreedByUser
<1>3. UNCHANGED aborted \/ ListenFails
  BY <1>2
     DEF Kinds, Idles, CreatesOne, Creates, ReadCtl, ListenMark, WriteMore, DelWr,
         ReadSet, ListenCtl, Moves, Reaps, Reap, Clears, Frees
<1>4. QED BY <1>1, <1>3 DEF NoAbort

\* The process does not die in the library: add_listen_job's assert(0) is never
\* reached, because no job in memory, and so no interest list, has the
\* descriptor, and handle_deling_job never calls a NULL free callback.
THEOREM NeverAborts ==
    ASSUME KeepsEvent, "noReadd" \in Rules, "userFree" \in Rules,
           "ctlSpace" \in Rules
    PROVE  Spec => []NoAbort
<1> DEFINE Inv == MemInv /\ FreeSet /\ NoAbort
<1>1. Init => Inv
  BY MemInvInit, FreeSetInit DEF Init, NoAbort
<1>2. Inv /\ [Next]_vars => Inv'
  BY StepIsOfKind, MemInvStep, FreeSetStep, NoAbortStep, NoReaddSuffices
<1>3. Inv => NoAbort
  OBVIOUS
<1> HIDE DEF Inv
<1>4. QED BY <1>1, <1>2, <1>3, PTL DEF Spec
-----------------------------------------------------------------------------
(***************************************************************************)
(* The read callback is set in time: keepEvent and ownerFirstRead.         *)
(***************************************************************************)
LEMMA FlagsOf ==
    /\ Flags({}) = {} /\ Flags({"R"}) = {"IN"} /\ Flags({"W"}) = {"OUT"}
    /\ Flags({"R", "W"}) = {"IN", "OUT"}
BY DEF Flags

LEMMA CreatedReady ==
    ASSUME NEW fd, NEW kind, NEW ev, NEW t, Creates(fd, kind, ev, t), "R" \in ev
    PROVE  job'[njobs + 1].rdcb
<1>1. job'[njobs + 1] = [fd |-> fd, kind |-> kind, ev |-> ev, del |-> FALSE,
                         thrd |-> t, rdcb |-> "R" \in ev, free |-> "default"]
  BY DEF Creates
<1>2. ("R" \in ev) = TRUE
  OBVIOUS
<1>3. job'[njobs + 1] = [fd |-> fd, kind |-> kind, ev |-> ev, del |-> FALSE,
                         thrd |-> t, rdcb |-> TRUE, free |-> "default"]
  BY <1>1, <1>2, Zenon
<1>4. QED BY <1>3

LEMMA CallbackSetStep ==
    ASSUME MemInv, CallbackSet, Kinds
    PROVE  CallbackSet'
<1> USE Listed
<1>1. CASE UNCHANGED <<njobs, job>>
  BY <1>1 DEF CallbackSet
<1>2. CASE CreatesOne
  <2>1. PICK fd \in Fds, kind \in {"listen", "wr"}, ev \in {{"R"}, {"W"}}, t \in Loops :
          Creates(fd, kind, ev, t)
    BY <1>2 DEF CreatesOne
  <2>2. \A j \in 1 .. njobs' : j \in 1 .. njobs \/ j = njobs + 1
    BY <2>1 DEF Creates
  <2>3. /\ \A j \in 1 .. njobs : job'[j] = job[j]
        /\ job'[njobs + 1].ev = ev /\ ("R" \in ev => job'[njobs + 1].rdcb)
    BY <2>1, CreatedReady DEF Creates
  <2>4. QED BY <2>2, <2>3 DEF CallbackSet
<1>3. ASSUME NEW j \in 1 .. njobs, NEW r, JobSet(j, r), UNCHANGED njobs,
             "R" \in r.ev => r.rdcb
      PROVE  CallbackSet'
  BY <1>3 DEF JobSet, CallbackSet
<1>4. ASSUME NEW h \in half, ReadSet(h) PROVE CallbackSet'
  <2> DEFINE r == [job[h.job] EXCEPT !.rdcb = TRUE, !.ev = @ \cup {"R"}]
  <2>1. h.job \in 1 .. njobs /\ job[h.job] \in JobRec
    OBVIOUS
  <2>2. r.rdcb
    BY <2>1 DEF JobRec
  <2>3. JobSet(h.job, r) /\ UNCHANGED njobs
    BY <1>4 DEF ReadSet
  <2>4. QED BY <1>3, <2>1, <2>2, <2>3
<1>5. ASSUME NEW j \in 1 .. njobs, NEW ev, "R" \in ev => "R" \in job[j].ev,
             JobSet(j, [job[j] EXCEPT !.ev = ev]), UNCHANGED njobs
      PROVE  CallbackSet'
  <2>1. [job[j] EXCEPT !.ev = ev].rdcb = job[j].rdcb /\ [job[j] EXCEPT !.ev = ev].ev = ev
    BY DEF JobRec
  <2>2. QED BY <1>3, <1>5, <2>1 DEF CallbackSet
<1>6. ASSUME NEW j \in ioJobs, WriteMore(j) PROVE CallbackSet'
  BY <1>5, <1>6 DEF WriteMore
<1>7. ASSUME NEW j \in ioJobs, NEW flag, NEW other, DelWr(j, flag, other)
      PROVE  CallbackSet'
  <2>1. PICK fr \in FreeArgs :
          JobSet(j, [job[j] EXCEPT !.free = fr, !.del = other \notin job[j].ev,
                                   !.ev = @ \ {flag}])
    BY <1>7 DEF DelWr
  <2> DEFINE r == [job[j] EXCEPT !.free = fr, !.del = other \notin job[j].ev,
                                 !.ev = @ \ {flag}]
  <2>2. job[j] \in JobRec /\ j \in 1 .. njobs
    OBVIOUS
  <2>3. r.rdcb = job[j].rdcb /\ r.ev = job[j].ev \ {flag}
    BY <2>2 DEF JobRec
  <2> HIDE DEF r
  <2>4. "R" \in r.ev => r.rdcb
    BY <2>2, <2>3 DEF CallbackSet
  <2>5. JobSet(j, r) /\ UNCHANGED njobs
    BY <1>7, <2>1 DEF r, DelWr
  <2>6. QED BY <1>3, <2>2, <2>4, <2>5
<1>8. ASSUME NEW a \in Actors, NEW j \in ioJobs, ListenMark(a, j) PROVE CallbackSet'
  <2>1. PICK fr \in FreeArgs : JobSet(j, [job[j] EXCEPT !.free = fr, !.del = TRUE])
    BY <1>8 DEF ListenMark
  <2> DEFINE r == [job[j] EXCEPT !.free = fr, !.del = TRUE]
  <2>2. job[j] \in JobRec /\ j \in 1 .. njobs
    OBVIOUS
  <2>3. r.rdcb = job[j].rdcb /\ r.ev = job[j].ev
    BY <2>2 DEF JobRec
  <2>4. UNCHANGED njobs
    BY <1>8 DEF ListenMark
  <2>5. QED BY <1>3, <2>1, <2>2, <2>3, <2>4 DEF CallbackSet
<1>9. ASSUME NEW l \in Loops, Clears(l, cur[l].job) PROVE CallbackSet'
  <2>1. cur[l].job \in 1 .. njobs
    BY <1>9 DEF Clears
  <2>2. QED BY <1>5, <1>9, <2>1 DEF Clears
<1>10. QED
  BY <1>1, <1>2, <1>4, <1>6, <1>7, <1>8, <1>9
     DEF Kinds, Idles, ListenFails, ReadCtl, ListenCtl, Moves, Reaps, Reap,
         LoopKeeps, FreeFails, Frees

LEMMA EntryJob ==
    ASSUME MemInv, Shape, NEW l \in Loops, NEW f \in Fds, epoll[l][f].ev # {}
    PROVE  epoll[l][f].job \in 1 .. njobs /\ epoll[l][f].job # NoJob
<1>1. epoll[l][f].job # NoJob
  BY DEF Shape, EntryShape, NoEntry
<1>2. QED BY <1>1, Listed DEF MemInv, NoDangling

LEMMA EntryReadyKept ==
    ASSUME MemInv, Shape, Kinds, NEW l \in Loops, NEW f \in Fds,
           EntryReady(l, f), epoll'[l][f] = epoll[l][f]
    PROVE  EntryReady(l, f)'
<1> SUFFICES ASSUME "IN" \in epoll[l][f].ev
             PROVE  \/ job'[epoll[l][f].job].rdcb
                    \/ \E h \in half' : h.job = epoll[l][f].job /\ h.by = l
  BY DEF EntryReady
<1> DEFINE j == epoll[l][f].job
<1>1. j \in 1 .. njobs
  BY EntryJob
<1>2. CASE job[j].rdcb
  BY <1>1, <1>2, KindsKept DEF FieldsStay
<1>3. CASE \E h \in half : h.job = j /\ h.by = l
  <2>1. PICK h \in half : h.job = j /\ h.by = l
    BY <1>3
  <2>2. CASE half' = half
    BY <2>1, <2>2
  <2>3. ASSUME NEW g \in half, ReadSet(g) PROVE job'[j].rdcb
    <3>1. g = h
      BY DEF Shape, HalfShape
    <3>2. job'[j] = [job[j] EXCEPT !.rdcb = TRUE, !.ev = @ \cup {"R"}]
      BY <2>1, <2>3, <3>1 DEF ReadSet, JobSet
    <3>3. job[j] \in JobRec
      BY <1>1, Listed
    <3> HIDE DEF j
    <3>4. QED BY <3>2, <3>3 DEF JobRec
  <2>4. QED
    BY <2>1, <2>2, <2>3
       DEF Kinds, Idles, ListenFails, CreatesOne, Creates, ReadCtl, ListenMark,
           WriteMore, DelWr, ListenCtl, Moves, Reaps, Reap, LoopKeeps, Clears,
           FreeFails, Frees
<1>4. QED BY <1>2, <1>3 DEF EntryReady

\* The registrations that the operations make.
LEMMA RegistersReady ==
    ASSUME MemInv, Shape, Kinds, NEW j \in 1 .. njobs, NEW ev,
           Registers(j, ev) \/ Unregisters(j) \/ Modifies(j, ev),
           \A l \in Loops, f \in Fds : EntryReady(l, f),
           "IN" \in ev => \/ job'[j].rdcb
                          \/ \E h \in half' : h.job = j /\ h.by = job[j].thrd
    PROVE  \A l \in Loops, f \in Fds : EntryReady(l, f)'
<1> SUFFICES ASSUME NEW l \in Loops, NEW f \in Fds PROVE EntryReady(l, f)'
  OBVIOUS
<1>1. \/ epoll'[l][f] = epoll[l][f] \/ epoll'[l][f] = NoEntry
      \/ l = job[j].thrd /\ epoll'[l][f] = [job |-> j, ev |-> ev]
  BY DEF Registers, Unregisters, Modifies, EntrySet
<1>2. CASE epoll'[l][f] = epoll[l][f]
  BY <1>2, EntryReadyKept
<1>3. CASE epoll'[l][f] = NoEntry
  BY <1>3 DEF EntryReady, NoEntry
<1>4. CASE l = job[j].thrd /\ epoll'[l][f] = [job |-> j, ev |-> ev]
  BY <1>4 DEF EntryReady
<1>5. QED BY <1>1, <1>2, <1>3, <1>4

LEMMA EntriesReadyStep ==
    ASSUME "ownerFirstRead" \in Rules, MemInv, Shape, CallbackSet, Kinds,
           \A l \in Loops, f \in Fds : EntryReady(l, f)
    PROVE  \A l \in Loops, f \in Fds : EntryReady(l, f)'
<1> DEFINE Goal == \A l \in Loops, f \in Fds : EntryReady(l, f)'
<1> USE FlagsOf, Listed
<1>1. CASE UNCHANGED epoll
  BY <1>1, EntryReadyKept
<1>2. ASSUME NEW j \in 1 .. njobs, NEW ev,
             Registers(j, ev) \/ Unregisters(j) \/ Modifies(j, ev),
             "IN" \in ev => job[j].rdcb
      PROVE  Goal
  BY <1>2, RegistersReady, KindsKept DEF FieldsStay
<1>3. ASSUME NEW a \in Actors, NEW j \in ioJobs, ReadCtl(a, j) PROVE Goal
  <2>1. CASE UNCHANGED epoll
    BY <1>1, <2>1
  <2>2. CASE ~UNCHANGED epoll
    <3>1. PICK ev : Registers(j, ev) /\ half' = {[by |-> a, job |-> j]}
      BY <1>3, <2>2 DEF ReadCtl
    <3>2. UNCHANGED job /\ (job[j].rdcb \/ a = job[j].thrd)
      BY <1>3 DEF ReadCtl
    <3>3. \/ job'[j].rdcb \/ \E h \in half' : h.job = j /\ h.by = job[j].thrd
      BY <3>1, <3>2
    <3>4. QED BY <3>1, <3>3, RegistersReady
  <2>3. QED BY <2>1, <2>2
<1>4. ASSUME NEW j \in ioJobs, WriteMore(j) PROVE Goal
  <2>1. j \in 1 .. njobs /\ ("R" \in job[j].ev => job[j].rdcb)
    BY DEF CallbackSet
  <2>2. \/ "R" \in job[j].ev /\ Modifies(j, {"IN", "OUT"})
        \/ Registers(j, {"OUT"}) \/ UNCHANGED epoll
    BY <1>4 DEF WriteMore, AddFails
  <2>3. QED BY <1>1, <1>2, <2>1, <2>2
<1>5. ASSUME NEW j \in ioJobs, NEW flag, NEW other, DelWr(j, flag, other),
             other \in {"R", "W"}
      PROVE  Goal
  <2>1. j \in 1 .. njobs /\ ("R" \in job[j].ev => job[j].rdcb)
    BY DEF CallbackSet
  <2>2. \/ other \in job[j].ev /\ Modifies(j, Flags({other}))
        \/ Unregisters(j) \/ UNCHANGED epoll
    BY <1>5 DEF DelWr
  <2>3. "IN" \in Flags({other}) => other = "R"
    BY <1>5
  <2>4. Unregisters(j) => Goal
    BY <1>2, <2>1
  <2>5. QED BY <1>1, <1>2, <2>1, <2>2, <2>3, <2>4
<1>6. ASSUME NEW l \in Loops, Clears(l, cur[l].job) PROVE Goal
  <2> DEFINE j == cur[l].job
  <2>1. /\ j \in 1 .. njobs /\ ("R" \in job[j].ev => job[j].rdcb)
        /\ ("R" \in job[j].ev /\ Modifies(j, {"IN"})) \/ Unregisters(j)
    BY <1>6 DEF CallbackSet, Clears
  <2> HIDE DEF j
  <2>2. Unregisters(j) => Goal
    BY <1>2, <2>1
  <2>3. QED BY <1>2, <2>1, <2>2
<1>7. ASSUME NEW d \in lateDel, ListenCtl(d) PROVE Goal
  <2>1. ASSUME NEW l \in Loops, NEW f \in Fds PROVE EntryReady(l, f)'
    <3>1. epoll'[l][f] = epoll[l][f] \/ epoll'[l][f] = NoEntry
      BY <1>7 DEF ListenCtl, EntrySet
    <3>2. epoll'[l][f] = NoEntry => EntryReady(l, f)'
      BY DEF EntryReady, NoEntry
    <3>3. QED BY <3>1, <3>2, EntryReadyKept
  <2>2. QED BY <2>1
<1>8. ASSUME NEW l \in Loops, NEW j \in dels[l], Frees(l, j) PROVE Goal
  <2>1. ASSUME NEW m \in Loops, NEW f \in Fds PROVE EntryReady(m, f)'
    <3>1. epoll'[m][f] = epoll[m][f] \/ epoll'[m][f] = NoEntry
      BY <1>8 DEF Frees
    <3>2. epoll'[m][f] = NoEntry => EntryReady(m, f)'
      BY DEF EntryReady, NoEntry
    <3>3. QED BY <3>1, <3>2, EntryReadyKept
  <2>2. QED BY <2>1
<1>9. CASE CreatesOne
  <2>1. PICK fd \in Fds, kind \in {"listen", "wr"}, ev \in {{"R"}, {"W"}}, t \in Loops :
          Creates(fd, kind, ev, t)
    BY <1>9 DEF CreatesOne
  <2>2. EntrySet(t, fd, [job |-> njobs + 1, ev |-> Flags(ev)])
    BY <2>1, CtlResolved DEF Creates, MemInv
  <2>3. "IN" \in Flags(ev) => job'[njobs + 1].rdcb
    BY <2>1, CreatedReady
  <2>4. ASSUME NEW l \in Loops, NEW f \in Fds PROVE EntryReady(l, f)'
    <3>1. \/ epoll'[l][f] = epoll[l][f]
          \/ epoll'[l][f] = [job |-> njobs + 1, ev |-> Flags(ev)]
      BY <2>2 DEF EntrySet
    <3>2. epoll'[l][f] = [job |-> njobs + 1, ev |-> Flags(ev)] => EntryReady(l, f)'
      BY <2>3 DEF EntryReady
    <3>3. QED BY <3>1, <3>2, EntryReadyKept
  <2>5. QED BY <2>4
<1> HIDE DEF Goal
<1>10. Goal
  BY <1>1, <1>3, <1>4, <1>5, <1>6, <1>7, <1>8, <1>9
     DEF Kinds, Idles, ListenFails, ListenMark, ReadSet, Moves, Reaps, Reap,
         LoopKeeps, FreeFails, Goal
<1>11. QED BY <1>10 DEF Goal

\* What epoll_wait returns: the loop is in no operation then.
LEMMA BatchReadyStep ==
    ASSUME MemInv, Shape, InputReady, Kinds
    PROVE  \A l \in Loops : \A e \in batch'[l] : "IN" \in e.ev => job'[e.job].rdcb
<1>1. \A l \in Loops : \A e \in batch[l] : "IN" \in e.ev => job'[e.job].rdcb
  <2> SUFFICES ASSUME NEW l \in Loops, NEW e \in batch[l], "IN" \in e.ev
               PROVE  job'[e.job].rdcb
    OBVIOUS
  <2>1. e.job \in 1 .. njobs /\ job[e.job].rdcb
    BY DEF InputReady, MemInv, TypeInv, TypeOK, Event
  <2>2. QED BY <2>1, KindsKept DEF FieldsStay
<1>2. CASE UNCHANGED batch
  BY <1>1, <1>2
<1>3. ASSUME NEW l \in Loops, Moves(l)
      PROVE  \A m \in Loops : \A e \in batch'[m] : "IN" \in e.ev => job'[e.job].rdcb
  <2>1. CASE EventDone(l)
    <3>1. \A m \in Loops : batch'[m] \subseteq batch[m]
      BY <2>1 DEF EventDone, MemInv, TypeInv, TypeOK
    <3>2. QED BY <1>1, <3>1
  <2>2. CASE EpollReady(l)
    <3>1. PICK fds \in SUBSET {f \in Fds : epoll[l][f].job # NoJob} :
            \E fired \in [fds -> SUBSET {"IN", "OUT"}] :
              /\ \A f \in fds : fired[f] \subseteq epoll[l][f].ev
              /\ batch' = [batch EXCEPT ![l] =
                             {[job |-> epoll[l][f].job, ev |-> fired[f]] : f \in fds}]
      BY <2>2 DEF EpollReady
    <3>2. PICK fired \in [fds -> SUBSET {"IN", "OUT"}] :
              /\ \A f \in fds : fired[f] \subseteq epoll[l][f].ev
              /\ batch' = [batch EXCEPT ![l] =
                             {[job |-> epoll[l][f].job, ev |-> fired[f]] : f \in fds}]
      BY <3>1
    <3>3. batch'[l] = {[job |-> epoll[l][f].job, ev |-> fired[f]] : f \in fds}
      BY <3>2 DEF MemInv, TypeInv, TypeOK
    <3>4. \A h \in half : h.by # l
      BY <2>2 DEF EpollReady, Shape, CallerShape, CallbackPcs, FreePcs
    <3>5. ASSUME NEW f \in fds, "IN" \in fired[f]
          PROVE  job[epoll[l][f].job].rdcb
      BY <3>2, <3>4, <3>5 DEF InputReady, EntryReady
    <3>6. UNCHANGED job
      BY <1>3 DEF Moves
    <3>7. \A e \in batch'[l] : "IN" \in e.ev => job'[e.job].rdcb
      BY <3>3, <3>5, <3>6
    <3>8. \A m \in Loops : m # l => batch'[m] = batch[m]
      BY <1>3, MovesTo
    <3>9. QED BY <1>1, <3>7, <3>8
  <2>3. QED BY <1>2, <1>3, <2>1, <2>2, MovesTo
<1>4. QED
  BY <1>2, <1>3
     DEF Kinds, Idles, ListenFails, CreatesOne, Creates, ReadCtl, ListenMark,
         WriteMore, DelWr, ReadSet, ListenCtl, Reaps, Reap, Clears, FreeFails, Frees

LEMMA InputReadySafe ==
    ASSUME MemInv, Shape, InputReady
    PROVE  ReadReady
<1> SUFFICES ASSUME NEW l \in Loops, pc[l] \in {"readcb", "readend"}
             PROVE  job[cur[l].job].rdcb
  BY DEF ReadReady
<1>1. cur[l] \in batch[l] /\ "IN" \in cur[l].ev
  BY DEF MemInv, NoDangling, EventPcs, Shape, EventShape
<1>2. QED BY <1>1 DEF InputReady

\* read_evt_handle never calls a read callback that has not been set: when the
\* first add_read_job of a job made by add_write_job comes from the job's own
\* loop, that loop cannot be told of input between the epoll_ctl and
\* set_read_callback.
THEOREM CallbackSetBeforeRead ==
    ASSUME KeepsEvent, "ownerFirstRead" \in Rules
    PROVE  Spec => []ReadReady
<1> DEFINE Inv == MemInv /\ Shape /\ InputReady
<1>1. Init => Inv
  <2>1. Init => InputReady
    BY DEF Init, InputReady, CallbackSet, EntryReady, NoEntry
  <2>2. QED BY <2>1, MemInvInit, ShapeInit
<1>2. Inv /\ [Next]_vars => Inv'
  <2> SUFFICES ASSUME Inv, [Next]_vars PROVE Inv'
    OBVIOUS
  <2>1. Kinds
    BY StepIsOfKind
  <2>2. CallbackSet'
    BY <2>1, CallbackSetStep DEF InputReady
  <2>3. \A l \in Loops, f \in Fds : EntryReady(l, f)'
    BY <2>1, EntriesReadyStep DEF InputReady
  <2>4. InputReady'
    BY <2>1, <2>2, <2>3, BatchReadyStep DEF InputReady
  <2>5. QED BY <2>1, <2>4, MemInvStep, ShapeStep
<1>3. Inv => ReadReady
  BY InputReadySafe
<1> HIDE DEF Inv
<1>4. QED BY <1>1, <1>2, <1>3, PTL DEF Spec
-----------------------------------------------------------------------------
(***************************************************************************)
(* The kernel watches what the flags say: keepEvent, noReadd,              *)
(* listenInLoop and ctlSpace.                                              *)
(***************************************************************************)

\* Listen jobs are deleted by loop 0: by the rule, or because only it does.
MarksInLoop == \A a \in Actors, j \in ioJobs : ListenMark(a, j) => a = 0

LEMMA LateShapeStep ==
    ASSUME MarksInLoop, MemInv, Shape, LateShape, Kinds
    PROVE  LateShape'
<1> DEFINE Marked(fd) ==
        \E j \in ioJobs : job[j].fd = fd /\ job[j].kind = "listen" /\ job[j].del
<1>1. \A d \in lateDel : d.by = 0 /\ Marked(d.fd)
  BY DEF LateShape
<1>2. ioJobs \subseteq ioJobs' => \A fd : Marked(fd) => Marked(fd)'
  BY KindsKept, Listed DEF FieldsStay
<1>3. ioJobs \subseteq ioJobs' \/ \E l \in Loops : Reaps(l)
  BY DEF Kinds, Idles, ListenFails, CreatesOne, Creates, ReadCtl, ListenMark,
         WriteMore, DelWr, ReadSet, ListenCtl, Moves, Clears, FreeFails, Frees
<1>4. CASE lateDel' \subseteq lateDel /\ ioJobs \subseteq ioJobs'
  BY <1>1, <1>2, <1>4 DEF LateShape
<1>5. ASSUME NEW l \in Loops, Reaps(l) PROVE LateShape'
  <2>1. ioJobs' = ioJobs \ Deleted(l) /\ UNCHANGED <<job, lateDel>>
    BY <1>5 DEF Reaps, Reap, LoopKeeps
  <2>2. lateDel # {} => l # 0
    <3>1. \A d \in lateDel : pc[0] \in CallbackPcs \cup FreePcs
      BY <1>1, LoopsFacts DEF Shape, CallerShape
    <3>2. QED BY <1>5, <3>1 DEF Reaps, CallbackPcs, FreePcs
  <2>3. \A j \in ioJobs : job[j].kind = "listen" => job[j].thrd = 0
    BY Listed DEF Shape, KindShape
  <2>4. \A d \in lateDel : Marked(d.fd)'
    BY <1>1, <2>1, <2>2, <2>3 DEF Deleted
  <2>5. QED BY <1>1, <2>1, <2>4 DEF LateShape
<1>6. ASSUME NEW a \in Actors, NEW j \in ioJobs, ListenMark(a, j) PROVE LateShape'
  <2>1. /\ lateDel' = lateDel \cup {[by |-> 0, fd |-> job[j].fd]}
        /\ UNCHANGED ioJobs /\ job[j].kind = "listen" /\ j \in 1 .. njobs
    BY <1>6, Listed DEF ListenMark, MarksInLoop
  <2>2. job'[j].kind = "listen" /\ job'[j].fd = job[j].fd
    BY <2>1, KindsKept DEF FieldsStay
  <2>3. job'[j].del
    <3>1. PICK fr \in FreeArgs : job'[j] = [job[j] EXCEPT !.free = fr, !.del = TRUE]
      BY <1>6 DEF ListenMark, JobSet
    <3>2. job[j] \in JobRec
      BY <2>1, Listed
    <3>3. QED BY <3>1, <3>2 DEF JobRec
  <2>4. \A fd : fd = job[j].fd => Marked(fd)'
    BY <2>1, <2>2, <2>3
  <2>5. ASSUME NEW d \in lateDel' PROVE d.by = 0 /\ Marked(d.fd)'
    <3>1. CASE d \in lateDel
      <4>1. d.by = 0 /\ Marked(d.fd) /\ ioJobs \subseteq ioJobs'
        BY <1>1, <2>1, <3>1
      <4> HIDE DEF Marked
      <4>2. QED BY <1>2, <4>1
    <3>2. CASE d = [by |-> 0, fd |-> job[j].fd]
      <4>1. d.by = 0 /\ d.fd = job[j].fd
        BY <3>2
      <4> HIDE DEF Marked
      <4>2. QED BY <2>4, <4>1
    <3>3. QED BY <2>1, <3>1, <3>2
  <2>6. QED BY <2>5 DEF LateShape
<1>7. lateDel' \subseteq lateDel \/ \E a \in Actors, j \in ioJobs : ListenMark(a, j)
  BY DEF Kinds, Idles, ListenFails, CreatesOne, Creates, ReadCtl, ListenMark,
         WriteMore, DelWr, ReadSet, ListenCtl, Moves, Reaps, Reap, LoopKeeps,
         Clears, FreeFails, Frees
<1>8. QED BY <1>3, <1>4, <1>5, <1>6, <1>7

\* Two descriptors in lateDel differ: only loop 0 is in del_listen_job.
LEMMA LateOnce ==
    ASSUME MemInv, LateShape, NEW d \in lateDel, NEW e \in lateDel, d.fd = e.fd
    PROVE  d = e
<1>1. d \in [by : Actors, fd : Fds] /\ e \in [by : Actors, fd : Fds]
  BY DEF MemInv, TypeInv, TypeOK
<1>2. d.by = e.by
  BY DEF LateShape
<1>3. QED BY <1>1, <1>2

WatchInv == OneJobInv /\ LateShape /\ Watched

LEMMA WantedType ==
    ASSUME MemInv, NEW j \in 1 .. njobs
    PROVE  Wanted(j) \in SUBSET {"R", "W"}
BY Listed DEF Wanted

\* The job is registered exactly when an interest is wanted.
LEMMA WatchedRegistered ==
    ASSUME WatchInv, NEW j \in Alive
    PROVE  Registered(j) <=> Wanted(j) # {}
<1>1. j \in 1 .. njobs /\ job[j].thrd \in Loops /\ j # NoJob
  BY Listed DEF WatchInv, OneJobInv, NoJob
<1>2. epoll[job[j].thrd][job[j].fd] = WantedEntry(j, job[j].thrd)
  BY <1>1 DEF WatchInv, Watched
<1>3. QED BY <1>1, <1>2 DEF Registered, WantedEntry, NoEntry

\* What a step must do to keep the interest lists right: it changes the entries
\* of one descriptor only, and those to what its job now wants.
LEMMA WatchedOp ==
    ASSUME WatchInv, NEW j \in Alive, Alive' = Alive,
           job'[j].fd = job[j].fd, job'[j].thrd = job[j].thrd,
           \A k \in Alive : k # j => job'[k] = job[k] /\ Wanted(k)' = Wanted(k),
           \/ UNCHANGED epoll /\ Wanted(j)' = Wanted(j)
           \/ Registers(j, Flags(Wanted(j)')) /\ Wanted(j)' # {}
           \/ Unregisters(j) /\ Wanted(j)' = {}
    PROVE  Watched'
<1> SUFFICES ASSUME NEW k \in Alive, NEW l \in Loops
             PROVE  epoll'[l][job'[k].fd] = WantedEntry(k, l)'
  BY DEF Watched
<1>1. /\ job[k].fd \in Fds /\ job[j].fd \in Fds
      /\ epoll[l][job[k].fd] = WantedEntry(k, l)
      /\ epoll[l][job[j].fd] = WantedEntry(j, l)
  BY Listed DEF WatchInv, OneJobInv, Watched
<1>2. CASE k # j
  <2>1. job[k].fd # job[j].fd
    BY <1>2 DEF WatchInv, OneJobInv, OneJobPerFd
  <2>2. epoll'[l][job[k].fd] = epoll[l][job[k].fd]
    BY <1>1, <2>1 DEF Registers, Unregisters, EntrySet
  <2>3. WantedEntry(k, l)' = WantedEntry(k, l) /\ job'[k] = job[k]
    BY <1>2 DEF WantedEntry
  <2>4. QED BY <1>1, <2>2, <2>3
<1>3. CASE k = j
  <2>1. CASE UNCHANGED epoll /\ Wanted(j)' = Wanted(j)
    BY <1>1, <1>3, <2>1 DEF WantedEntry
  <2>2. CASE Registers(j, Flags(Wanted(j)')) /\ Wanted(j)' # {}
    BY <1>1, <1>3, <2>2 DEF WantedEntry, Registers, EntrySet
  <2>3. CASE Unregisters(j) /\ Wanted(j)' = {}
    BY <1>1, <1>3, <2>3 DEF WantedEntry, Unregisters, EntrySet
  <2>4. QED BY <2>1, <2>2, <2>3
<1>4. QED BY <1>2, <1>3

\* The operations leave the other jobs alone.
LEMMA OthersKept ==
    ASSUME WatchInv, NEW j \in Alive, UNCHANGED <<njobs, freed>>,
           \A k \in 1 .. njobs : k # j => job'[k] = job[k],
           \A k \in Alive : k # j =>
             /\ (\E h \in half' : h.job = k) <=> (\E h \in half : h.job = k)
             /\ (\E d \in lateDel' : d.fd = job[k].fd) <=> (\E d \in lateDel : d.fd = job[k].fd)
    PROVE  /\ Alive' = Alive
           /\ \A k \in Alive : k # j => job'[k] = job[k] /\ Wanted(k)' = Wanted(k)
<1>1. Alive' = Alive /\ Alive \subseteq 1 .. njobs
  BY DEF Alive
<1>2. ASSUME NEW k \in Alive, k # j
      PROVE  job'[k] = job[k] /\ Wanted(k)' = Wanted(k)
  <2>1. job'[k] = job[k]
    BY <1>1, <1>2
  <2>2. /\ (\E h \in half' : h.job = k) <=> (\E h \in half : h.job = k)
        /\ (\E d \in lateDel' : d.fd = job'[k].fd) <=> (\E d \in lateDel : d.fd = job[k].fd)
    BY <1>2, <2>1
  <2>3. QED BY <2>1, <2>2 DEF Wanted
<1>3. QED BY <1>1, <1>2

LEMMA ReadCtlWatched ==
    ASSUME "ctlSpace" \in Rules, WatchInv, NEW a \in Actors, NEW j \in ioJobs,
           ReadCtl(a, j)
    PROVE  Watched'
<1> USE FlagsOf
<1>1. /\ j \in Alive /\ j \in 1 .. njobs /\ MemInv
      /\ job[j].ev \in SUBSET {"R", "W"} /\ job[j].thrd \in Loops
  BY Listed DEF WatchInv, OneJobInv, MemInv, OwnedOnce
<1>2. ~job[j].del /\ half = {} /\ UNCHANGED <<njobs, job, freed, lateDel>>
  BY DEF ReadCtl, Connected
<1>3. Wanted(j) = job[j].ev
  BY <1>2 DEF Wanted
<1>4. /\ Alive' = Alive
      /\ \A k \in Alive : k # j => job'[k] = job[k] /\ Wanted(k)' = Wanted(k)
  <2>1. \A k \in Alive : k # j => \A h \in half' : h.job # k
    BY <1>2 DEF ReadCtl
  <2>2. QED BY <1>1, <1>2, <2>1, OthersKept
<1>5. Registered(j) <=> job[j].ev # {}
  BY <1>1, <1>3, WatchedRegistered
<1>6. ~(job[j].ev = {} /\ AddFails(j))
  <2> SUFFICES ASSUME job[j].ev = {}, AddFails(j) PROVE FALSE
    OBVIOUS
  <2>1. epoll[job[j].thrd][job[j].fd].job = NoJob
    BY <1>5 DEF Registered
  <2>2. QED BY <1>1, <2>1, LoopsFacts DEF AddFails, AddTargets
<1>7. /\ half' = {[by |-> a, job |-> j]}
      /\ \/ "W" \in job[j].ev /\ Registers(j, {"IN", "OUT"})
         \/ job[j].ev = {"R"} /\ UNCHANGED epoll
         \/ job[j].ev = {} /\ Registers(j, {"IN"})
  BY <1>5, <1>6 DEF ReadCtl
<1>8. Wanted(j)' = job[j].ev \cup {"R"}
  BY <1>2, <1>7 DEF Wanted
<1>9. CASE "W" \in job[j].ev /\ Registers(j, {"IN", "OUT"})
  <2>1. Wanted(j)' = {"R", "W"}
    BY <1>1, <1>8, <1>9
  <2>2. QED BY <1>1, <1>2, <1>4, <1>9, <2>1, WatchedOp
<1>10. CASE job[j].ev = {"R"} /\ UNCHANGED epoll
  BY <1>1, <1>2, <1>3, <1>4, <1>8, <1>10, WatchedOp
<1>11. CASE job[j].ev = {} /\ Registers(j, {"IN"})
  <2>1. Wanted(j)' = {"R"}
    BY <1>8, <1>11
  <2>2. QED BY <1>1, <1>2, <1>4, <1>11, <2>1, WatchedOp
<1>12. QED BY <1>7, <1>9, <1>10, <1>11

LEMMA ReadSetWatched ==
    ASSUME WatchInv, NEW h \in half, ReadSet(h)
    PROVE  Watched'
<1> DEFINE j == h.job
<1>1. /\ j \in Alive /\ j \in 1 .. njobs /\ ~job[j].del /\ job[j] \in JobRec
      /\ \A g \in half : g.job = j
  BY Listed DEF WatchInv, OneJobInv, MemInv, OwnedOnce, Shape, HalfShape
<1>2. /\ half' = {} /\ UNCHANGED <<njobs, freed, lateDel, epoll>>
      /\ job'[j] = [job[j] EXCEPT !.rdcb = TRUE, !.ev = @ \cup {"R"}]
      /\ \A k \in 1 .. njobs : k # j => job'[k] = job[k]
  BY DEF ReadSet, JobSet
<1>3. \E g \in half : g.job = j
  OBVIOUS
<1> HIDE DEF j
<1>4. /\ job'[j].fd = job[j].fd /\ job'[j].thrd = job[j].thrd
      /\ job'[j].ev = job[j].ev \cup {"R"} /\ ~job'[j].del
  BY <1>1, <1>2 DEF JobRec
<1>5. Wanted(j) = job[j].ev \cup {"R"} /\ Wanted(j)' = job[j].ev \cup {"R"}
  <2>1. Wanted(j) = job[j].ev \cup {"R"}
    BY <1>1, <1>3 DEF Wanted
  <2>2. \A g \in half' : g.job # j
    BY <1>2
  <2>3. Wanted(j)' = job'[j].ev
    BY <1>4, <2>2 DEF Wanted
  <2>4. QED BY <1>4, <2>1, <2>3
<1>6. /\ Alive' = Alive
      /\ \A k \in Alive : k # j => job'[k] = job[k] /\ Wanted(k)' = Wanted(k)
  BY <1>1, <1>2, OthersKept
<1>7. QED BY <1>1, <1>2, <1>4, <1>5, <1>6, WatchedOp

LEMMA WriteMoreWatched ==
    ASSUME "ctlSpace" \in Rules, WatchInv, NEW j \in ioJobs, WriteMore(j)
    PROVE  Watched'
<1> USE FlagsOf
<1>1. /\ j \in Alive /\ j \in 1 .. njobs /\ job[j] \in JobRec
      /\ job[j].ev \in SUBSET {"R", "W"} /\ job[j].thrd \in Loops
  BY Listed DEF WatchInv, OneJobInv, MemInv, OwnedOnce
<1>2. /\ ~job[j].del /\ half = {} /\ UNCHANGED <<njobs, freed, half, lateDel>>
      /\ job'[j] = [job[j] EXCEPT !.ev = @ \cup {"W"}]
      /\ \A k \in 1 .. njobs : k # j => job'[k] = job[k]
  BY DEF WriteMore, Connected, JobSet
<1>3. /\ job'[j].fd = job[j].fd /\ job'[j].thrd = job[j].thrd
      /\ job'[j].ev = job[j].ev \cup {"W"} /\ ~job'[j].del
  BY <1>1, <1>2 DEF JobRec
<1>4. Wanted(j) = job[j].ev /\ Wanted(j)' = job[j].ev \cup {"W"}
  BY <1>2, <1>3 DEF Wanted
<1>5. /\ Alive' = Alive
      /\ \A k \in Alive : k # j => job'[k] = job[k] /\ Wanted(k)' = Wanted(k)
  BY <1>1, <1>2, OthersKept
<1>6. Registered(j) <=> job[j].ev # {}
  BY <1>1, <1>4, WatchedRegistered
<1>7. ~(job[j].ev = {} /\ AddFails(j))
  <2> SUFFICES ASSUME job[j].ev = {}, AddFails(j) PROVE FALSE
    OBVIOUS
  <2>1. epoll[job[j].thrd][job[j].fd].job = NoJob
    BY <1>6 DEF Registered
  <2>2. QED BY <1>1, <2>1, LoopsFacts DEF AddFails, AddTargets
<1>8. \/ "R" \in job[j].ev /\ Registers(j, {"IN", "OUT"})
      \/ job[j].ev = {} /\ Registers(j, {"OUT"})
  BY <1>6, <1>7 DEF WriteMore, Modifies
<1>9. CASE "R" \in job[j].ev /\ Registers(j, {"IN", "OUT"})
  <2>1. Wanted(j)' = {"R", "W"}
    BY <1>1, <1>4, <1>9
  <2>2. QED BY <1>1, <1>3, <1>5, <1>9, <2>1, WatchedOp
<1>10. CASE job[j].ev = {} /\ Registers(j, {"OUT"})
  <2>1. Wanted(j)' = {"W"}
    BY <1>4, <1>10
  <2>2. QED BY <1>1, <1>3, <1>5, <1>10, <2>1, WatchedOp
<1>11. QED BY <1>8, <1>9, <1>10

LEMMA DelWrWatched ==
    ASSUME WatchInv, NEW j \in ioJobs, NEW flag, NEW other,
           {flag, other} = {"R", "W"}, DelWr(j, flag, other)
    PROVE  Watched'
<1>0. "R" \in {flag, other} /\ "W" \in {flag, other} /\ flag # other
  <2>1. "R" \in {flag, other} /\ "W" \in {flag, other}
    OBVIOUS
  <2>2. QED BY <2>1
<1>1. /\ j \in Alive /\ j \in 1 .. njobs /\ job[j] \in JobRec
      /\ job[j].ev \in SUBSET {flag, other} /\ flag # other
  <2>1. j \in Alive /\ j \in 1 .. njobs /\ job[j] \in JobRec
    BY Listed DEF WatchInv, OneJobInv, MemInv, OwnedOnce
  <2>2. job[j].ev \in SUBSET {"R", "W"}
    BY <2>1, Listed DEF WatchInv, OneJobInv
  <2>3. QED BY <1>0, <2>1, <2>2
<1>2. /\ ~job[j].del /\ half = {} /\ UNCHANGED <<njobs, freed, half, lateDel>>
      /\ job[j].kind = "wr"
      /\ \A k \in 1 .. njobs : k # j => job'[k] = job[k]
  BY DEF DelWr, Connected, JobSet
<1>3. /\ job'[j].fd = job[j].fd /\ job'[j].thrd = job[j].thrd /\ job'[j].kind = "wr"
      /\ job'[j].ev = job[j].ev \ {flag}
      /\ job'[j].del <=> other \notin job[j].ev
  <2>1. PICK fr \in FreeArgs :
          job'[j] = [job[j] EXCEPT !.free = fr, !.del = other \notin job[j].ev,
                                   !.ev = @ \ {flag}]
    BY DEF DelWr, JobSet
  <2>2. QED BY <1>1, <1>2, <2>1 DEF JobRec
<1>4. /\ Wanted(j) = job[j].ev
      /\ Wanted(j)' = IF other \in job[j].ev THEN {other} ELSE {}
  <2>1. other \in job[j].ev => job[j].ev \ {flag} = {other}
    BY <1>1
  <2>2. QED BY <1>2, <1>3, <2>1 DEF Wanted
<1>5. /\ Alive' = Alive
      /\ \A k \in Alive : k # j => job'[k] = job[k] /\ Wanted(k)' = Wanted(k)
  BY <1>1, <1>2, OthersKept
<1>6. Registered(j) <=> job[j].ev # {}
  BY <1>1, <1>4, WatchedRegistered
<1>7. \/ other \in job[j].ev /\ Registers(j, Flags({other}))
      \/ job[j].ev = {flag} /\ Unregisters(j)
      \/ job[j].ev = {} /\ UNCHANGED epoll
  BY <1>6 DEF DelWr, Modifies
<1>8. CASE other \in job[j].ev /\ Registers(j, Flags({other}))
  BY <1>1, <1>3, <1>4, <1>5, <1>8, WatchedOp
<1>9. CASE job[j].ev = {flag} /\ Unregisters(j)
  BY <1>1, <1>3, <1>4, <1>5, <1>9, WatchedOp
<1>10. CASE job[j].ev = {} /\ UNCHANGED epoll
  BY <1>1, <1>3, <1>4, <1>5, <1>10, WatchedOp
<1>11. QED BY <1>7, <1>8, <1>9, <1>10

LEMMA ListenMarkWatched ==
    ASSUME WatchInv, NEW a \in Actors, NEW j \in ioJobs, ListenMark(a, j)
    PROVE  Watched'
<1>1. /\ j \in Alive /\ j \in 1 .. njobs /\ job[j] \in JobRec
      /\ \A k \in Alive : k # j => job[k].fd # job[j].fd
  BY Listed DEF WatchInv, OneJobInv, MemInv, OwnedOnce, OneJobPerFd
<1>2. /\ ~job[j].del /\ half = {} /\ UNCHANGED <<njobs, freed, half, epoll>>
      /\ job[j].kind = "listen"
      /\ lateDel' = lateDel \cup {[by |-> a, fd |-> job[j].fd]}
      /\ \A k \in 1 .. njobs : k # j => job'[k] = job[k]
  BY DEF ListenMark, JobSet
<1>3. /\ job'[j].fd = job[j].fd /\ job'[j].thrd = job[j].thrd
      /\ job'[j].kind = "listen" /\ job'[j].del
  <2>1. PICK fr \in FreeArgs : job'[j] = [job[j] EXCEPT !.free = fr, !.del = TRUE]
    BY DEF ListenMark, JobSet
  <2>2. QED BY <1>1, <1>2, <2>1 DEF JobRec
<1>4. Wanted(j) = {"R"} /\ Wanted(j)' = {"R"}
  <2>1. job[j].ev = {"R"}
    BY <1>1, <1>2 DEF WatchInv, OneJobInv, Shape, KindShape
  <2>2. \E d \in lateDel' : d.fd = job'[j].fd
    <3>1. [by |-> a, fd |-> job[j].fd] \in lateDel'
      BY <1>2
    <3>2. QED BY <1>3, <3>1
  <2>3. Wanted(j) = {"R"}
    BY <1>2, <2>1 DEF Wanted
  <2>4. Wanted(j)' = {"R"}
    BY <1>3, <2>2 DEF Wanted
  <2>5. QED BY <2>3, <2>4
<1>5. /\ Alive' = Alive
      /\ \A k \in Alive : k # j => job'[k] = job[k] /\ Wanted(k)' = Wanted(k)
  <2>1. \A k \in Alive : k # j =>
          ((\E d \in lateDel' : d.fd = job[k].fd) <=> (\E d \in lateDel : d.fd = job[k].fd))
    BY <1>1, <1>2
  <2>2. QED BY <1>1, <1>2, <2>1, OthersKept
<1>6. QED BY <1>1, <1>2, <1>3, <1>4, <1>5, WatchedOp

LEMMA ListenCtlWatched ==
    ASSUME WatchInv, NEW d \in lateDel, ListenCtl(d)
    PROVE  Watched'
<1>1. PICK j \in ioJobs : job[j].fd = d.fd /\ job[j].kind = "listen" /\ job[j].del
  BY DEF WatchInv, LateShape
<1>2. /\ j \in Alive /\ j \in 1 .. njobs /\ MemInv /\ LateShape
      /\ \A k \in Alive : k # j => job[k].fd # job[j].fd
  BY Listed DEF WatchInv, OneJobInv, MemInv, OwnedOnce, OneJobPerFd
<1>3. job[j].thrd = 0
  BY <1>1, <1>2 DEF WatchInv, OneJobInv, Shape, KindShape
<1>4. /\ lateDel' = lateDel \ {d} /\ UNCHANGED <<njobs, job, freed, half>>
      /\ Unregisters(j)
  BY <1>1, <1>3 DEF ListenCtl, Unregisters
<1>5. Wanted(j)' = {}
  <2>1. \A e \in lateDel' : e.fd # job[j].fd
    BY <1>1, <1>2, <1>4, LateOnce
  <2>2. QED BY <1>1, <1>4, <2>1 DEF Wanted
<1>6. /\ Alive' = Alive
      /\ \A k \in Alive : k # j => job'[k] = job[k] /\ Wanted(k)' = Wanted(k)
  <2>1. \A k \in Alive : k # j =>
          ((\E e \in lateDel' : e.fd = job[k].fd) <=> (\E e \in lateDel : e.fd = job[k].fd))
    BY <1>1, <1>2, <1>4
  <2>2. QED BY <1>2, <1>4, <2>1, OthersKept
<1>7. QED BY <1>2, <1>4, <1>5, <1>6, WatchedOp

LEMMA ClearsWatched ==
    ASSUME WatchInv, NEW l \in Loops, NEW j, Clears(l, j)
    PROVE  Watched'
<1> USE FlagsOf
<1>1. /\ j \in ioJobs /\ j \in Alive /\ j \in 1 .. njobs /\ job[j] \in JobRec
      /\ job[j].ev \in SUBSET {"R", "W"}
  BY Listed DEF Clears, WatchInv, OneJobInv, MemInv, OwnedOnce
<1>2. /\ \A h \in half : h.job # j
      /\ UNCHANGED <<njobs, freed, half, lateDel>>
      /\ job'[j] = [job[j] EXCEPT !.ev = @ \ {"W"}]
      /\ \A k \in 1 .. njobs : k # j => job'[k] = job[k]
  BY DEF Clears, JobSet
<1>3. job[j].kind = "wr" /\ (job[j].del => job[j].ev = {})
  BY <1>1 DEF Clears, WatchInv, OneJobInv, Shape, EventShape, KindShape
<1>4. /\ job'[j].fd = job[j].fd /\ job'[j].thrd = job[j].thrd
      /\ job'[j].ev = job[j].ev \ {"W"} /\ job'[j].del = job[j].del
      /\ job'[j].kind = "wr"
  BY <1>1, <1>2, <1>3 DEF JobRec
<1>5. Wanted(j) = job[j].ev /\ Wanted(j)' = job[j].ev \ {"W"}
  <2>1. CASE job[j].del
    BY <1>3, <1>4, <2>1 DEF Wanted
  <2>2. CASE ~job[j].del
    BY <1>2, <1>4, <2>2 DEF Wanted
  <2>3. QED BY <2>1, <2>2
<1>6. /\ Alive' = Alive
      /\ \A k \in Alive : k # j => job'[k] = job[k] /\ Wanted(k)' = Wanted(k)
  BY <1>1, <1>2, OthersKept
<1>7. Registered(j) <=> job[j].ev # {}
  BY <1>1, <1>5, WatchedRegistered
<1>8. CASE "R" \in job[j].ev
  <2>1. Registers(j, {"IN"}) /\ Wanted(j)' = {"R"}
    BY <1>1, <1>5, <1>7, <1>8 DEF Clears, Modifies
  <2>2. Registers(j, Flags(Wanted(j)')) /\ Wanted(j)' # {}
    BY <2>1
  <2>3. QED BY <1>1, <1>4, <1>6, <2>2, WatchedOp
<1>9. CASE "R" \notin job[j].ev
  <2>1. Unregisters(j) /\ Wanted(j)' = {}
    BY <1>1, <1>5, <1>9 DEF Clears
  <2>2. QED BY <1>1, <1>4, <1>6, <2>1, WatchedOp
<1>10. QED BY <1>8, <1>9

LEMMA FreesWatched ==
    ASSUME WatchInv, NEW l \in Loops, NEW j \in dels[l], Frees(l, j)
    PROVE  Watched'
<1>1. /\ UNCHANGED <<njobs, job, half, lateDel>> /\ freed' = freed \cup {j}
      /\ \A m \in Loops, f \in Fds : f # job[j].fd => epoll'[m][f] = epoll[m][f]
  BY DEF Frees
<1>2. j \in Alive
  BY DEF WatchInv, OneJobInv, MemInv, OwnedOnce
<1>3. Alive' = Alive \ {j}
  BY <1>1 DEF Alive
<1>4. ASSUME NEW k \in Alive, k # j, NEW m \in Loops
      PROVE  epoll'[m][job[k].fd] = WantedEntry(k, m)
  <2>1. job[k].fd # job[j].fd /\ job[k].fd \in Fds
    BY <1>2, <1>4, Listed DEF WatchInv, OneJobInv, OneJobPerFd
  <2>2. QED BY <1>1, <2>1 DEF WatchInv, Watched
<1>5. \A k \in Alive, m \in Loops : WantedEntry(k, m)' = WantedEntry(k, m)
  BY <1>1 DEF WantedEntry, Wanted
<1>6. QED BY <1>1, <1>3, <1>4, <1>5 DEF Watched

LEMMA CreatesWatched ==
    ASSUME AddsUnused, WatchInv, CreatesOne, Kinds
    PROVE  Watched'
<1>1. PICK fd \in Fds, kind \in {"listen", "wr"}, ev \in {{"R"}, {"W"}}, t \in Loops :
        Creates(fd, kind, ev, t)
  BY DEF CreatesOne
<1>0. PICK new : new = njobs + 1
  OBVIOUS
<1>2. Alive' = Alive \cup {new} /\ MemInv /\ njobs \in Nat
  <2>1. MemInv /\ njobs \in Nat /\ freed \subseteq 1 .. njobs
    BY Listed DEF WatchInv, OneJobInv, MemInv, TypeInv, TypeOK
  <2>2. njobs' = njobs + 1 /\ freed' = freed
    BY <1>1 DEF Creates
  <2>3. QED BY <1>0, <2>1, <2>2 DEF Alive
<1>3. \A j \in Alive : job[j].fd # fd
  BY <1>1 DEF AddsUnused, Unused
<1>4. EntrySet(t, fd, [job |-> new, ev |-> Flags(ev)])
  BY <1>0, <1>1, <1>2, CtlResolved DEF Creates, MemInv
<1>5. \A l \in Loops : epoll[l][fd] = NoEntry
  BY <1>3 DEF WatchInv, OneJobInv, MemInv, NoDangling, Shape, EntryShape
<1>6. /\ \A j \in 1 .. njobs : job'[j] = job[j]
      /\ job'[new].fd = fd /\ job'[new].thrd = t /\ job'[new].ev = ev /\ ~job'[new].del
      /\ half = {} /\ UNCHANGED <<half, lateDel>>
  BY <1>0, <1>1 DEF Creates
<1>7. ASSUME NEW j \in Alive, NEW l \in Loops
      PROVE  epoll'[l][job'[j].fd] = WantedEntry(j, l)'
  <2>1. job'[j] = job[j] /\ job[j].fd \in Fds /\ job[j].fd # fd
    BY <1>2, <1>3, <1>6, Listed
  <2>2. WantedEntry(j, l)' = WantedEntry(j, l)
    BY <1>6, <2>1 DEF WantedEntry, Wanted
  <2>3. QED BY <1>4, <2>1, <2>2 DEF EntrySet, WatchInv, Watched
<1>8. ASSUME NEW l \in Loops
      PROVE  epoll'[l][job'[new].fd] = WantedEntry(new, l)'
  <2>1. Wanted(new)' = ev /\ ev # {}
    BY <1>6 DEF Wanted
  <2>2. WantedEntry(new, l)' =
          IF l = t THEN [job |-> new, ev |-> Flags(ev)] ELSE NoEntry
    BY <1>6, <2>1 DEF WantedEntry
  <2>3. QED BY <1>4, <1>5, <1>6, <2>2 DEF EntrySet
<1>9. QED BY <1>2, <1>7, <1>8 DEF Watched

LEMMA WatchedStep ==
    ASSUME AddsUnused, "ctlSpace" \in Rules, WatchInv, Kinds
    PROVE  Watched'
<1>1. CASE UNCHANGED <<njobs, job, freed, epoll, half, lateDel>>
  <2>1. Alive' = Alive /\ \A j, l : WantedEntry(j, l)' = WantedEntry(j, l)
    BY <1>1 DEF WantedEntry, Wanted, Alive
  <2>2. QED BY <1>1, <2>1 DEF WatchInv, Watched
<1>2. QED
  BY <1>1, CreatesWatched, ReadCtlWatched, ReadSetWatched, WriteMoreWatched,
     DelWrWatched, ListenMarkWatched, ListenCtlWatched, ClearsWatched, FreesWatched
     DEF Kinds, Idles, ListenFails, Moves, Reaps, Reap, LoopKeeps, FreeFails

LEMMA WatchInvInit == Init => WatchInv
<1> SUFFICES ASSUME Init PROVE WatchInv
  OBVIOUS
<1>1. LateShape /\ Watched
  BY DEF Init, LateShape, Watched, Alive
<1>2. QED BY <1>1, OneJobInvInit DEF WatchInv

LEMMA RulesSuffice ==
    ASSUME WatchInv, "noReadd" \in Rules, "listenInLoop" \in Rules
    PROVE  AddsUnused /\ MarksInLoop
BY NoReaddSuffices DEF WatchInv, OneJobInv, MarksInLoop, ListenMark

LEMMA WatchInvStep ==
    ASSUME KeepsEvent, AddsUnused, MarksInLoop, "ctlSpace" \in Rules,
           WatchInv, [Next]_vars
    PROVE  WatchInv'
<1>1. OneJobInv' /\ Kinds
  BY OneJobInvStep DEF WatchInv
<1>2. LateShape'
  BY <1>1, LateShapeStep DEF WatchInv, OneJobInv
<1>3. Watched'
  BY <1>1, WatchedStep
<1>4. QED BY <1>1, <1>2, <1>3 DEF WatchInv

LEMMA WatchInvSafe == WatchInv => InterestMatchesFlags /\ DeletedUnwatched
<1>1. ASSUME WatchInv, NEW j \in ioJobs, ~job[j].del,
             \A h \in half : h.job # j, NEW l \in Loops
      PROVE  epoll[l][job[j].fd] =
               IF l = job[j].thrd /\ job[j].ev # {}
               THEN [job |-> j, ev |-> Flags(job[j].ev)]
               ELSE NoEntry
  <2>1. j \in Alive
    BY <1>1 DEF WatchInv, OneJobInv, MemInv, OwnedOnce
  <2>2. Wanted(j) = job[j].ev
    BY <1>1 DEF Wanted
  <2>3. QED BY <1>1, <2>1, <2>2 DEF WatchInv, Watched, WantedEntry
<1>2. ASSUME WatchInv, NEW l \in Loops, NEW f \in Fds,
             epoll[l][f].job # NoJob, job[epoll[l][f].job].del
      PROVE  \E d \in lateDel : d.fd = f
  <2> DEFINE j == epoll[l][f].job
  <2>1. j \in Alive /\ job[j].fd = f
    BY <1>2 DEF WatchInv, OneJobInv, MemInv, NoDangling
  <2>2. epoll[l][f] = WantedEntry(j, l)
    BY <1>2, <2>1 DEF WatchInv, Watched
  <2>3. Wanted(j) # {}
    BY <1>2, <2>2 DEF WantedEntry, NoEntry
  <2>4. job[j].del
    BY <1>2
  <2> HIDE DEF j
  <2>5. QED BY <2>1, <2>3, <2>4 DEF Wanted
<1>3. QED BY <1>1, <1>2 DEF InterestMatchesFlags, DeletedUnwatched

\* Outside add_read_job's two halves the kernel watches for a job exactly what
\* its flags say, on its own loop and on no other.
THEOREM InterestIsFlags ==
    ASSUME KeepsEvent, "noReadd" \in Rules, "listenInLoop" \in Rules,
           "ctlSpace" \in Rules
    PROVE  Spec => []InterestMatchesFlags
<1>1. WatchInv /\ [Next]_vars => WatchInv'
  BY WatchInvStep, RulesSuffice
<1>2. QED BY <1>1, WatchInvSafe, WatchInvInit, PTL DEF Spec

\* Once a job is marked for deletion the kernel reports nothing for it any more;
\* only del_listen_job, which leaves the lock before its epoll_ctl, is late.
THEOREM DeletedIsUnwatched ==
    ASSUME KeepsEvent, "noReadd" \in Rules, "listenInLoop" \in Rules,
           "ctlSpace" \in Rules
    PROVE  Spec => []DeletedUnwatched
<1>1. WatchInv /\ [Next]_vars => WatchInv'
  BY WatchInvStep, RulesSuffice
<1>2. QED BY <1>1, WatchInvSafe, WatchInvInit, PTL DEF Spec
-----------------------------------------------------------------------------
(***************************************************************************)
(* The refinement of JobLife: keepEvent and noReadd.                       *)
(***************************************************************************)
LifeFacts ==
    /\ lifeOf \in [Jobs -> {"none", "live", "dying", "freed"}]
    /\ \A j \in Jobs :
         lifeOf[j] = IF j > njobs THEN "none"
                     ELSE IF j \in freed THEN "freed"
                     ELSE IF job[j].del THEN "dying"
                     ELSE "live"
    /\ \A j \in Jobs : j \in Alive <=> lifeOf[j] \in {"live", "dying"}
    /\ 1 .. njobs \subseteq Jobs
    /\ \A j \in Jobs : j > njobs \/ j \in 1 .. njobs

LEMMA LifeOf == MemInv => LifeFacts
<1> SUFFICES ASSUME MemInv PROVE LifeFacts
  OBVIOUS
<1>1. njobs \in 0 .. MaxJobs /\ freed \subseteq 1 .. njobs
  BY DEF MemInv, TypeInv, TypeOK
<1>2. \A j \in Jobs : j > njobs \/ j \in 1 .. njobs
  BY <1>1, MaxJobsAssumption DEF Jobs
<1>3. \A j \in Jobs : j \in freed => ~(j > njobs)
  BY <1>1, MaxJobsAssumption DEF Jobs
<1>4. \A j \in Jobs : j \in Alive <=> ~(j > njobs) /\ j \notin freed
  BY <1>1, <1>2, MaxJobsAssumption DEF Jobs, Alive
<1>5. ASSUME NEW j \in Jobs
      PROVE  lifeOf[j] = IF j > njobs THEN "none"
                         ELSE IF j \in freed THEN "freed"
                         ELSE IF job[j].del THEN "dying"
                         ELSE "live"
  BY <1>2, <1>3, <1>4 DEF lifeOf
<1>6. lifeOf \in [Jobs -> {"none", "live", "dying", "freed"}]
  BY <1>5 DEF lifeOf
<1>7. \A j \in Jobs : j \in Alive <=> lifeOf[j] \in {"live", "dying"}
  BY <1>4, <1>5
<1>8. 1 .. njobs \subseteq Jobs
  BY <1>1, MaxJobsAssumption DEF Jobs
<1>9. QED BY <1>2, <1>5, <1>6, <1>7, <1>8 DEF LifeFacts

LEMMA LifeOfNext == MemInv' => LifeFacts'
BY LifeOf, PTL

\* A step that leaves the deletion flags alone is none of the job list's.
LEMMA LifeStays ==
    ASSUME LifeFacts, LifeFacts', UNCHANGED <<njobs, freed>>,
           \A j \in 1 .. njobs : job'[j].del = job[j].del /\ job'[j].fd = job[j].fd
    PROVE  lifeOf' = lifeOf /\ fdsOf' = fdsOf
<1>1. \A j \in Jobs : lifeOf'[j] = lifeOf[j]
  BY DEF LifeFacts
<1>2. lifeOf' = lifeOf
  BY <1>1 DEF LifeFacts
<1>3. fdsOf' = fdsOf
  <2>1. \A j \in 1 .. njobs : job'[j].fd = job[j].fd
    OBVIOUS
  <2>2. UNCHANGED njobs
    OBVIOUS
  <2>3. QED BY <2>1, <2>2 DEF fdsOf
<1>4. QED BY <1>2, <1>3

LEMMA HoldStays ==
    ASSUME UNCHANGED batch
    PROVE  heldBy' = heldBy
BY DEF heldBy

\* The deletion flag of job j is set, and nothing else of a life cycle changes.
LEMMA DeletesOne ==
    ASSUME LifeFacts, LifeFacts', UNCHANGED <<njobs, freed, batch>>, NEW j \in Alive,
           ~job[j].del, job'[j].del, Alive \subseteq 1 .. njobs,
           \A k \in 1 .. njobs : job'[k].fd = job[k].fd,
           \A k \in 1 .. njobs : k # j => job'[k].del = job[k].del
    PROVE  JL!LifeNext
<1>1. /\ j \in Jobs /\ j \in 1 .. njobs /\ j \notin freed /\ lifeOf[j] = "live"
      /\ ~(j > njobs)
  BY DEF LifeFacts, Alive
<1>2. \A k \in Jobs : lifeOf'[k] = IF k = j THEN "dying" ELSE lifeOf[k]
  BY <1>1 DEF LifeFacts
<1>3. lifeOf' = [lifeOf EXCEPT ![j] = "dying"]
  BY <1>2 DEF LifeFacts
<1>4. fdsOf' = fdsOf
  <2>1. UNCHANGED njobs /\ \A k \in 1 .. njobs : job'[k].fd = job[k].fd
    OBVIOUS
  <2>2. QED BY <2>1 DEF fdsOf
<1>5. JL!Delete(j)
  BY <1>1, <1>3, <1>4, HoldStays DEF JL!Delete
<1>6. QED BY <1>1, <1>5 DEF JL!LifeNext

LEMMA DelWrLife ==
    ASSUME MemInv, LifeFacts, LifeFacts', Kinds, NEW j \in ioJobs,
           NEW flag, NEW other, DelWr(j, flag, other)
    PROVE  JL!LifeNext \/ UNCHANGED <<lifeOf, fdsOf, heldBy>>
<1>1. /\ UNCHANGED <<njobs, freed, batch>> /\ ~job[j].del
      /\ \A k \in 1 .. njobs : k # j => job'[k] = job[k]
  BY DEF DelWr, Connected, JobSet
<1>2. j \in Alive /\ j \in 1 .. njobs /\ job[j] \in JobRec /\ Alive \subseteq 1 .. njobs
  BY Listed DEF MemInv, OwnedOnce
<1>3. job'[j].del = (other \notin job[j].ev)
  <2>1. PICK fr \in FreeArgs :
          job'[j] = [job[j] EXCEPT !.free = fr, !.del = other \notin job[j].ev,
                                   !.ev = @ \ {flag}]
    BY DEF DelWr, JobSet
  <2>2. QED BY <1>2, <2>1 DEF JobRec
<1>4. \A k \in 1 .. njobs : job'[k].fd = job[k].fd
  BY KindsKept DEF FieldsStay
<1>5. CASE other \notin job[j].ev
  BY <1>1, <1>2, <1>3, <1>4, <1>5, DeletesOne
<1>6. CASE other \in job[j].ev
  <2>1. job'[j].del = job[j].del
    BY <1>1, <1>2, <1>3, <1>6, Listed
  <2>2. QED BY <1>1, <1>4, <2>1, LifeStays, HoldStays
<1>7. QED BY <1>5, <1>6

LEMMA ListenMarkLife ==
    ASSUME MemInv, LifeFacts, LifeFacts', Kinds, NEW a \in Actors, NEW j \in ioJobs,
           ListenMark(a, j)
    PROVE  JL!LifeNext
<1>1. /\ UNCHANGED <<njobs, freed, batch>> /\ ~job[j].del
      /\ \A k \in 1 .. njobs : k # j => job'[k] = job[k]
  BY DEF ListenMark, JobSet
<1>2. j \in Alive /\ j \in 1 .. njobs /\ job[j] \in JobRec /\ Alive \subseteq 1 .. njobs
  BY Listed DEF MemInv, OwnedOnce
<1>3. job'[j].del
  <2>1. PICK fr \in FreeArgs : job'[j] = [job[j] EXCEPT !.free = fr, !.del = TRUE]
    BY DEF ListenMark, JobSet
  <2>2. QED BY <1>2, <2>1 DEF JobRec
<1>4. \A k \in 1 .. njobs : job'[k].fd = job[k].fd
  BY KindsKept DEF FieldsStay
<1>5. QED BY <1>1, <1>2, <1>3, <1>4, DeletesOne

LEMMA CreatesLife ==
    ASSUME MemInv, MemInv', AddsUnused, LifeFacts, LifeFacts', CreatesOne
    PROVE  JL!LifeNext
<1>1. PICK fd \in Fds, kind \in {"listen", "wr"}, ev \in {{"R"}, {"W"}}, t \in Loops :
        Creates(fd, kind, ev, t)
  BY DEF CreatesOne
<1>2. PICK new : new = njobs + 1
  OBVIOUS
<1>3. /\ njobs' = new /\ UNCHANGED <<freed, batch>>
      /\ \A j \in 1 .. njobs : job'[j] = job[j]
      /\ job'[new].fd = fd /\ ~job'[new].del
  BY <1>1, <1>2 DEF Creates
<1>4. njobs \in Nat /\ freed \subseteq 1 .. njobs
  BY Listed DEF MemInv, TypeInv, TypeOK
<1>5. /\ new \in Jobs /\ new > njobs /\ new \notin freed /\ ~(new > new)
      /\ \A j \in Jobs : j # new => (j > new <=> j > njobs)
      /\ \A j \in 1 .. new : j \in 1 .. njobs \/ j = new
      /\ \A j \in 1 .. njobs : j # new /\ j \in 1 .. new
      /\ new \in 1 .. new
  <2>1. new \in 1 .. njobs'
    BY <1>2, <1>3, <1>4
  <2>2. new \in Jobs
    BY <2>1 DEF LifeFacts
  <2>3. QED BY <1>2, <1>3, <1>4, <2>2, MaxJobsAssumption DEF Jobs
<1>6. \A j \in Jobs : lifeOf'[j] = IF j = new THEN "live" ELSE lifeOf[j]
  <2>1. ASSUME NEW j \in Jobs, j # new PROVE lifeOf'[j] = lifeOf[j]
    BY <1>3, <1>5, <2>1 DEF LifeFacts
  <2>2. lifeOf'[new] = "live"
    BY <1>3, <1>5 DEF LifeFacts
  <2>3. QED BY <2>1, <2>2
<1>7. lifeOf[new] = "none" /\ lifeOf' = [lifeOf EXCEPT ![new] = "live"]
  BY <1>5, <1>6 DEF LifeFacts
<1>8. fdsOf' = [k \in DOMAIN fdsOf \cup {new} |-> IF k = new THEN fd ELSE fdsOf[k]]
  <2>1. DOMAIN fdsOf = 1 .. njobs /\ 1 .. new = (1 .. njobs) \cup {new}
    BY <1>5 DEF fdsOf
  <2>2. fdsOf' = [k \in 1 .. new |-> job'[k].fd]
    BY <1>3 DEF fdsOf
  <2>3. \A k \in 1 .. new : job'[k].fd = IF k = new THEN fd ELSE fdsOf[k]
    BY <1>3, <1>5 DEF fdsOf
  <2>4. QED BY <2>1, <2>2, <2>3
<1>9. \A k \in JL!InMemory : fdsOf[k] # fd
  <2>1. \A k \in Alive : job[k].fd # fd
    BY <1>1 DEF AddsUnused, Unused
  <2>2. \A k \in JL!InMemory : k \in Alive
    BY DEF JL!InMemory, LifeFacts
  <2>3. \A k \in Alive : fdsOf[k] = job[k].fd
    BY Listed DEF fdsOf
  <2>4. QED BY <2>1, <2>2, <2>3
<1>10. JL!Register(new, fd)
  BY <1>3, <1>7, <1>8, <1>9, HoldStays DEF JL!Register
<1>11. QED BY <1>5, <1>10 DEF JL!LifeNext

LEMMA FreesLife ==
    ASSUME MemInv, LifeFacts, LifeFacts', NEW l \in Loops, NEW j \in dels[l], Frees(l, j)
    PROVE  JL!LifeNext
<1>1. UNCHANGED <<njobs, job, batch>> /\ freed' = freed \cup {j} /\ pc[l] \in FreePcs
  BY DEF Frees
<1>2. j \in Alive /\ job[j].thrd = l /\ job[j].del /\ j \in 1 .. njobs
  BY Listed DEF MemInv, OwnedOnce
<1>3. j \in Jobs /\ ~(j > njobs) /\ j \notin freed /\ lifeOf[j] = "dying"
  BY <1>2 DEF LifeFacts, Alive
<1>4. \A k \in Jobs : lifeOf'[k] = IF k = j THEN "freed" ELSE lifeOf[k]
  BY <1>1, <1>3 DEF LifeFacts
<1>5. lifeOf' = [lifeOf EXCEPT ![j] = "freed"]
  BY <1>4 DEF LifeFacts
<1>6. \A m \in Loops : j \notin heldBy[m]
  <2>1. ASSUME NEW m \in Loops, NEW e \in batch[m], e.job = j PROVE FALSE
    <3>1. m = l
      BY <1>2, <2>1 DEF MemInv, NoDangling
    <3>2. batch[l] = {}
      BY <1>1 DEF MemInv, TypeInv, LoopShape, FreePcs, EventPcs
    <3>3. QED BY <3>1, <3>2
  <2>2. QED BY <2>1 DEF heldBy
<1>7. fdsOf' = fdsOf
  BY <1>1 DEF fdsOf
<1>8. JL!Free(j)
  BY <1>1, <1>3, <1>5, <1>6, <1>7, HoldStays DEF JL!Free
<1>9. QED BY <1>3, <1>8 DEF JL!LifeNext

\* A loop takes what epoll_wait returns, and lets go of an event's job when it is
\* done with the event: no other event of the batch is of that job.
LEMMA MovesLife ==
    ASSUME MemInv, Shape, LifeFacts, LifeFacts', NEW l \in Loops, Moves(l)
    PROVE  JL!LifeNext \/ UNCHANGED <<lifeOf, fdsOf, heldBy>>
<1>1. UNCHANGED <<njobs, job, freed>>
  BY DEF Moves
<1>2. lifeOf' = lifeOf /\ fdsOf' = fdsOf
  BY <1>1, LifeStays
<1>3. \A m \in Loops : m # l => batch'[m] = batch[m]
  BY MovesTo
<1>4. heldBy \in [Loops -> SUBSET Jobs] /\ heldBy'[l] = {e.job : e \in batch'[l]}
  <2>1. \A m \in Loops : \A e \in batch[m] : e.job \in Jobs
    BY DEF MemInv, TypeInv, TypeOK, Event, LifeFacts
  <2>2. QED BY <2>1 DEF heldBy
<1>5. \A m \in Loops : m # l => heldBy'[m] = heldBy[m]
  BY <1>3 DEF heldBy
<1>6. heldBy' = [heldBy EXCEPT ![l] = heldBy'[l]]
  <2>1. heldBy' = [m \in Loops |-> heldBy'[m]]
    BY DEF heldBy
  <2>2. QED BY <1>4, <1>5, <2>1
<1>7. CASE UNCHANGED batch
  BY <1>2, <1>7, HoldStays
<1>8. CASE EventDone(l) /\ ~EpollReady(l) /\ ~UNCHANGED batch
  <2>1. cur[l] \in batch[l]
    <3>1. ~EpollIdle(l) /\ ~Dispatch(l) /\ ~TimersReturn(l)
      BY <1>8 DEF EpollIdle, Dispatch, TimersReturn, Goto
    <3>2. \/ RecvData(l) \/ RecvDrained(l) \/ Accept(l) \/ AcceptDrained(l)
          \/ ReadCbReturn(l) \/ ReadEndReturn(l) \/ WriteCheck(l) \/ WriteCbReturn(l)
      BY <1>8, <3>1 DEF Moves
    <3>3. pc[l] \in {"read", "accept", "readcb", "readend", "write1", "writecb"}
      BY <3>2 DEF RecvData, RecvDrained, Accept, AcceptDrained, ReadCbReturn,
         ReadEndReturn, WriteCheck, WriteCbReturn
    <3>4. QED BY <3>3 DEF MemInv, TypeInv, LoopShape, EventPcs
  <2>2. batch'[l] = batch[l] \ {cur[l]}
    BY <1>8 DEF EventDone, MemInv, TypeInv, TypeOK
  <2>3. heldBy'[l] = heldBy[l] \ {cur[l].job}
    BY <1>4, <2>1, <2>2 DEF heldBy, Shape, EntryShape
  <2>4. cur[l].job \in Jobs
    BY <2>1 DEF MemInv, TypeInv, TypeOK, Event, LifeFacts
  <2>5. JL!Release(l, cur[l].job)
    BY <1>2, <1>6, <2>3 DEF JL!Release
  <2>6. QED BY <2>4, <2>5 DEF JL!LifeNext
<1>9. CASE EpollReady(l)
  <2>1. heldBy[l] = {}
    <3>1. batch[l] = {}
      BY <1>9 DEF EpollReady, MemInv, TypeInv, LoopShape, EventPcs
    <3>2. QED BY <3>1 DEF heldBy
  <2>2. heldBy'[l] \subseteq JL!InMemory
    <3>1. \A e \in batch'[l] : e.job \in Alive
      <4>1. PICK fds \in SUBSET {f \in Fds : epoll[l][f].job # NoJob} :
              \E fired \in [fds -> SUBSET {"IN", "OUT"}] :
                batch' = [batch EXCEPT ![l] =
                            {[job |-> epoll[l][f].job, ev |-> fired[f]] : f \in fds}]
        BY <1>9 DEF EpollReady
      <4>2. PICK fired \in [fds -> SUBSET {"IN", "OUT"}] :
              batch' = [batch EXCEPT ![l] =
                          {[job |-> epoll[l][f].job, ev |-> fired[f]] : f \in fds}]
        BY <4>1
      <4>3. batch'[l] = {[job |-> epoll[l][f].job, ev |-> fired[f]] : f \in fds}
        BY <4>2 DEF MemInv, TypeInv, TypeOK
      <4>4. \A f \in fds : epoll[l][f].job \in Alive
        BY DEF MemInv, NoDangling
      <4>5. QED BY <4>3, <4>4
    <3>2. \A j \in Alive : j \in JL!InMemory
      BY Listed DEF LifeFacts, JL!InMemory
    <3>3. QED BY <1>4, <3>1, <3>2
  <2>3. heldBy'[l] \in SUBSET Jobs
    BY <2>2 DEF JL!InMemory
  <2>4. \E js \in SUBSET Jobs : JL!Take(l, js)
    BY <1>2, <1>6, <2>1, <2>2, <2>3 DEF JL!Take
  <2>5. QED BY <2>4 DEF JL!LifeNext
<1>10. QED BY <1>7, <1>8, <1>9, MovesTo

\* A job gets or loses an event flag, and its loop keeps the events it holds.
LEMMA FlagsLife ==
    ASSUME MemInv, LifeFacts, LifeFacts', Kinds, NEW k \in 1 .. njobs, NEW r,
           JobSet(k, r), r.del = job[k].del, UNCHANGED <<njobs, freed, batch>>
    PROVE  UNCHANGED <<lifeOf, fdsOf, heldBy>>
<1>1. \A j \in 1 .. njobs : job'[j].fd = job[j].fd
  BY KindsKept DEF FieldsStay
<1>2. \A j \in 1 .. njobs : job'[j].del = job[j].del
  BY DEF JobSet
<1>3. QED BY <1>1, <1>2, LifeStays, HoldStays

LEMMA LifeStep ==
    ASSUME MemInv, MemInv', Shape, AddsUnused, Kinds
    PROVE  JL!LifeNext \/ UNCHANGED <<lifeOf, fdsOf, heldBy>>
<1>0. LifeFacts /\ LifeFacts'
  BY LifeOf, LifeOfNext
<1>1. CASE UNCHANGED <<njobs, job, freed, batch>>
  BY <1>0, <1>1, LifeStays, HoldStays
<1>2. CASE CreatesOne
  BY <1>0, <1>2, CreatesLife
<1>3. ASSUME NEW h \in half, ReadSet(h)
      PROVE  UNCHANGED <<lifeOf, fdsOf, heldBy>>
  <2> DEFINE r == [job[h.job] EXCEPT !.rdcb = TRUE, !.ev = @ \cup {"R"}]
  <2>1. h.job \in 1 .. njobs /\ job[h.job] \in JobRec
    BY Listed
  <2>2. JobSet(h.job, r) /\ UNCHANGED <<njobs, freed, batch>>
    BY <1>3 DEF ReadSet
  <2>3. r.del = job[h.job].del
    BY <2>1 DEF JobRec
  <2> HIDE DEF r
  <2>4. QED BY <1>0, <2>1, <2>2, <2>3, FlagsLife
<1>4. ASSUME NEW k \in ioJobs, WriteMore(k)
      PROVE  UNCHANGED <<lifeOf, fdsOf, heldBy>>
  <2> DEFINE r == [job[k] EXCEPT !.ev = @ \cup {"W"}]
  <2>1. k \in 1 .. njobs /\ job[k] \in JobRec
    BY Listed
  <2>2. JobSet(k, r) /\ UNCHANGED <<njobs, freed, batch>>
    BY <1>4 DEF WriteMore
  <2>3. r.del = job[k].del
    BY <2>1 DEF JobRec
  <2> HIDE DEF r
  <2>4. QED BY <1>0, <2>1, <2>2, <2>3, FlagsLife
<1>5. ASSUME NEW l \in Loops, Clears(l, cur[l].job)
      PROVE  UNCHANGED <<lifeOf, fdsOf, heldBy>>
  <2> DEFINE k == cur[l].job
             r == [job[k] EXCEPT !.ev = @ \ {"W"}]
  <2>1. /\ k \in 1 .. njobs /\ job[k] \in JobRec /\ JobSet(k, r)
        /\ UNCHANGED <<njobs, freed, batch>>
    BY <1>5, Listed DEF Clears
  <2> HIDE DEF k
  <2>2. r.del = job[k].del
    BY <2>1 DEF JobRec
  <2> HIDE DEF r
  <2>3. QED BY <1>0, <2>1, <2>2, FlagsLife
<1>6. ASSUME NEW l \in Loops, NEW j \in dels[l], Frees(l, j)
      PROVE  JL!LifeNext
  BY <1>0, <1>6, FreesLife
<1>7. ASSUME NEW l \in Loops, Moves(l)
      PROVE  JL!LifeNext \/ UNCHANGED <<lifeOf, fdsOf, heldBy>>
  BY <1>0, <1>7, MovesLife
<1>8. ASSUME NEW j \in ioJobs, DelWr(j, "R", "W") \/ DelWr(j, "W", "R")
      PROVE  JL!LifeNext \/ UNCHANGED <<lifeOf, fdsOf, heldBy>>
  BY <1>0, <1>8, DelWrLife
<1>9. ASSUME NEW a \in Actors, NEW j \in ioJobs, ListenMark(a, j)
      PROVE  JL!LifeNext
  BY <1>0, <1>9, ListenMarkLife
<1>10. ASSUME \/ Idles \/ ListenFails
              \/ \E a \in Actors, j \in ioJobs : ReadCtl(a, j)
              \/ \E d \in lateDel : ListenCtl(d)
              \/ \E l \in Loops : Reaps(l) \/ FreeFails(l)
       PROVE  UNCHANGED <<njobs, job, freed, batch>>
  BY <1>10 DEF Idles, ListenFails, ReadCtl, ListenCtl, Reaps, Reap, LoopKeeps, FreeFails
<1>11. QED
  BY <1>1, <1>2, <1>3, <1>4, <1>5, <1>6, <1>7, <1>8, <1>9, <1>10 DEF Kinds

LEMMA LifeStart == Init => JL!LifeInit
<1> SUFFICES ASSUME Init PROVE JL!LifeInit
  OBVIOUS
<1>1. lifeOf = [j \in Jobs |-> "none"]
  <2>1. \A j \in Jobs : j > njobs
    BY MaxJobsAssumption DEF Init, Jobs
  <2>2. \A j \in Jobs : lifeOf[j] = "none"
    <3>1. MemInv
      BY MemInvInit
    <3>2. QED BY <2>1, <3>1, LifeOf DEF LifeFacts
  <2>3. QED BY <2>2 DEF lifeOf
<1>2. fdsOf = [j \in {} |-> 0]
  <2>1. 1 .. njobs = {}
    BY DEF Init
  <2>2. QED BY <2>1 DEF fdsOf
<1>3. heldBy = [l \in Loops |-> {}]
  <2>1. \A l \in Loops : heldBy[l] = {}
    BY DEF Init, heldBy
  <2>2. QED BY <2>1 DEF heldBy
<1>4. QED BY <1>1, <1>2, <1>3 DEF JL!LifeInit

\* With keepEvent and noReadd the event loops and the job list implement
\* JobLife: a descriptor has one job, every job is deleted once and freed once,
\* after the deletion and while no loop has an event of it to handle.
THEOREM RefinesJobLife ==
    ASSUME KeepsEvent, "noReadd" \in Rules
    PROVE  Spec => ImplementsJobLife
<1>1. OneJobInv /\ [Next]_vars => OneJobInv'
  BY OneJobInvStep, NoReaddSuffices DEF OneJobInv
<1>2. OneJobInv /\ OneJobInv' /\ [Next]_vars => [JL!LifeNext]_(JL!lifeVars)
  <2> SUFFICES ASSUME OneJobInv, OneJobInv', [Next]_vars
               PROVE  JL!LifeNext \/ UNCHANGED <<lifeOf, fdsOf, heldBy>>
    BY DEF JL!lifeVars
  <2>1. Kinds
    BY StepIsOfKind DEF OneJobInv
  <2>2. QED BY <2>1, LifeStep, NoReaddSuffices DEF OneJobInv
<1>3. QED
  BY <1>1, <1>2, OneJobInvInit, LifeStart, PTL DEF Spec, ImplementsJobLife, JL!LifeSpec
=============================================================================
