------------------------------ MODULE Lifecycle ------------------------------
(***************************************************************************)
(* Starting and stopping netpool: np_init_worker_thrds, np_start,          *)
(* np_let_stop and np_wait_stop (netpool.cpp), the parts of CNetPoll and   *)
(* CThreadPoolMgr behind them, and the event pools that the manager keeps  *)
(* and its timer walks.                                                    *)
(*                                                                         *)
(* One thread initialises, starts and waits, up to MaxStarts times; any    *)
(* thread (a signal handler too) calls let_stop.  A loop is a task of the  *)
(* worker pool: it begins some time after start has submitted it.  What a  *)
(* loop does with jobs is in NetPoll, how a pool runs tasks in ThreadPool. *)
(***************************************************************************)
EXTENDS Integers, FiniteSets

CONSTANTS
    MaxWorkers, \* bound: the largest max_thrd_cnt passed to np_init_worker_thrds
    EpfdSlots,  \* the length of m_epfd (32)
    MaxStarts,  \* bound: how often the library is started
    Pools,      \* event pools, in the order of their addresses
    Habits      \* what the application does and does not do

(***************************************************************************)
(* The habits; the library enforces none of them.                          *)
(*   allBegun      wait_stop is called once all loops have begun           *)
(*   stopStarted   let_stop is called only between start and wait_stop     *)
(*   poolsInLoop   event pools are made and freed by callbacks of loop 0,  *)
(*                 or by the main thread while nothing is started          *)
(***************************************************************************)
AllHabits == {"allBegun", "stopStarted", "poolsInLoop"}

ASSUME WorkersAssumption == MaxWorkers \in 0 .. EpfdSlots
ASSUME StartsAssumption == MaxStarts \in Nat /\ EpfdSlots \in Nat \ {0}
ASSUME PoolsAssumption == Pools \subseteq Nat \ {0}
ASSUME LifeHabitsAssumption == Habits \subseteq AllHabits

VARIABLES
    main,       \* where the main thread is
    cnt,        \* m_worker_thrd_cnt; the worker pool exists when it is not 0
    gen,        \* how often start was called
    submitted,  \* loops of this start that have been submitted
    shut,       \* m_isShutDown
    asked,      \* history: let_stop was called and no wait_stop has ended since
    loop,       \* where every loop is; loop <<g, i>> is the i-th of start g
    curThrds,   \* m_cur_worker_thrds
    epfd,       \* m_epfd[i]: the start it was made for, or -1
    ageTimers,  \* timers with _poll_timer_callback
    pools,      \* the event pools: made, in m_evt_thrd_pools, being freed
    walk,       \* the walk of _poll_timer_callback in every loop
    by          \* who is inside init_evt_thrds or free_evt_thrds of a pool

lifeVars == <<main, cnt, gen, submitted, shut, asked, loop, curThrds, epfd,
              ageTimers, pools, walk, by>>
poolVars == <<pools, by>>

NoEpfd == -1
End == 0
LoopIds == (1 .. MaxStarts) \X (0 .. MaxWorkers)
Indices == 0 .. MaxWorkers
NoWalk == [pc |-> "idle", itr |-> End, cur |-> End]
MainThread == <<0, 0>>
Nobody == <<-1, 0>>
Begun == {"top", "wait", "timers", "leaving"}

LifeInit ==
    /\ main = "idle" /\ cnt = 0 /\ gen = 0 /\ submitted = 0
    /\ shut = FALSE /\ asked = FALSE
    /\ loop = [q \in LoopIds |-> "none"]
    /\ curThrds = 0
    /\ epfd = [i \in Indices |-> NoEpfd]
    /\ ageTimers = 0
    /\ pools = [p \in Pools |-> "none"]
    /\ walk = [q \in LoopIds |-> NoWalk]
    /\ by = [p \in Pools |-> Nobody]
-----------------------------------------------------------------------------
(***************************************************************************)
(* The main thread.                                                        *)
(***************************************************************************)

\* Mutant: the last loop gets no epoll instance.
np_init_worker_thrds_short(n) ==
    /\ main = "idle" /\ gen < MaxStarts
    /\ cnt' = IF n = 0 THEN cnt ELSE n
    /\ epfd' = [i \in Indices |->
                  IF i < cnt' - 1 \/ i = 0 THEN gen + 1 ELSE epfd[i]]
    /\ main' = "ready"
    /\ UNCHANGED <<gen, submitted, shut, asked, loop, curThrds, ageTimers, walk,
                   poolVars>>

\* init_worker_thrds does nothing for 0 threads (an earlier pool stays);
\* init_event_fds makes an epoll instance for every loop, one without workers.
np_init_worker_thrds(n) ==
    /\ main = "idle" /\ gen < MaxStarts
    /\ cnt' = IF n = 0 THEN cnt ELSE n
    /\ epfd' = [i \in Indices |->
                  IF i < cnt' \/ i = 0 THEN gen + 1 ELSE epfd[i]]
    /\ main' = "ready"
    /\ UNCHANGED <<gen, submitted, shut, asked, loop, curThrds, ageTimers, walk,
                   poolVars>>

\* np_start: the ageing timer, then CNetPoll::start.  Without workers the loop
\* runs in the calling thread.
np_start ==
    /\ main = "ready"
    /\ ageTimers' = ageTimers + 1
    /\ shut' = FALSE
    /\ gen' = gen + 1
    /\ submitted' = 0
    /\ IF cnt > 0 THEN main' = "submit" /\ UNCHANGED loop
       ELSE main' = "inline" /\ loop' = [loop EXCEPT ![<<gen + 1, 0>>] = "queued"]
    /\ UNCHANGED <<cnt, asked, curThrds, epfd, walk, poolVars>>

start_submit ==
    /\ main = "submit"
    /\ loop' = [loop EXCEPT ![<<gen, submitted>>] = "queued"]
    /\ submitted' = submitted + 1
    /\ main' = IF submitted + 1 = cnt THEN "started" ELSE "submit"
    /\ UNCHANGED <<cnt, gen, shut, asked, curThrds, epfd, ageTimers, walk, poolVars>>

start_inline_returns ==
    /\ main = "inline" /\ loop[<<gen, 0>>] = "ended"
    /\ main' = "started"
    /\ UNCHANGED <<cnt, gen, submitted, shut, asked, loop, curThrds, epfd, ageTimers,
                   walk, poolVars>>

\* np_wait_stop polls the number of loops ...
wait_stop ==
    /\ main = "started"
    /\ "allBegun" \in Habits => \A q \in LoopIds : loop[q] # "queued"
    /\ main' = "waiting"
    /\ UNCHANGED <<cnt, gen, submitted, shut, asked, loop, curThrds, epfd, ageTimers,
                   walk, poolVars>>

\* Mutant: one loop may still run.
wait_stop_done_early ==
    /\ main = "waiting" /\ curThrds <= 1
    /\ main' = "closing"
    /\ asked' = FALSE
    /\ UNCHANGED <<cnt, gen, submitted, shut, loop, curThrds, epfd, ageTimers, walk,
                   poolVars>>
wait_stop_done ==
    /\ main = "waiting" /\ curThrds = 0
    /\ main' = "closing"
    /\ asked' = FALSE
    /\ UNCHANGED <<cnt, gen, submitted, shut, loop, curThrds, epfd, ageTimers, walk,
                   poolVars>>

\* ... and, after "all loop exit succ.", closes the epoll instances.
wait_stop_close ==
    /\ main = "closing"
    /\ epfd' = [i \in Indices |-> NoEpfd]
    /\ main' = "idle"
    /\ UNCHANGED <<cnt, gen, submitted, shut, asked, loop, curThrds, ageTimers, walk,
                   poolVars>>

let_stop ==
    /\ "stopStarted" \in Habits => main \in {"submit", "inline", "started", "waiting"}
    /\ shut' = TRUE /\ asked' = TRUE
    /\ UNCHANGED <<main, cnt, gen, submitted, loop, curThrds, epfd, ageTimers, walk,
                   poolVars>>
-----------------------------------------------------------------------------
(***************************************************************************)
(* A loop: CNetPoll::loop_handle without its jobs.                         *)
(***************************************************************************)
LoopKeeps ==
    UNCHANGED <<main, cnt, gen, submitted, shut, asked, epfd, ageTimers, poolVars>>

\* m_cur_worker_thrds++, under m_lock.
LoopBegin(q) ==
    /\ loop[q] = "queued"
    /\ loop' = [loop EXCEPT ![q] = "top"]
    /\ curThrds' = curThrds + 1
    /\ LoopKeeps /\ UNCHANGED walk

\* Mutant: m_isShutDown is not looked at again after the first round.
LoopTop_once(q) ==
    /\ loop[q] = "top"
    /\ loop' = [loop EXCEPT ![q] = "wait"]
    /\ LoopKeeps /\ UNCHANGED <<curThrds, walk>>
LoopTop(q) ==
    /\ loop[q] = "top"
    /\ loop' = [loop EXCEPT ![q] = IF shut THEN "leaving" ELSE "wait"]
    /\ LoopKeeps /\ UNCHANGED <<curThrds, walk>>

\* epoll_wait fails on a closed descriptor, and may fail otherwise.
LoopWait(q) ==
    /\ loop[q] = "wait"
    /\ \E next \in IF epfd[q[2]] = NoEpfd THEN {"leaving"} ELSE {"timers", "leaving"} :
         loop' = [loop EXCEPT ![q] = next]
    /\ LoopKeeps /\ UNCHANGED <<curThrds, walk>>

LoopAgain(q) ==
    /\ loop[q] = "timers" /\ walk[q] = NoWalk
    /\ \A p \in Pools : by[p] # q
    /\ loop' = [loop EXCEPT ![q] = "top"]
    /\ LoopKeeps /\ UNCHANGED <<curThrds, walk>>

LoopEnd(q) ==
    /\ loop[q] = "leaving"
    /\ loop' = [loop EXCEPT ![q] = "ended"]
    /\ curThrds' = curThrds - 1
    /\ LoopKeeps /\ UNCHANGED walk
-----------------------------------------------------------------------------
(***************************************************************************)
(* CThreadPoolMgr: the set of event pools and its walk by loop 0.          *)
(***************************************************************************)
Listed == {p \in Pools : pools[p] \in {"listed", "freeing"}}

\* The element of m_evt_thrd_pools that follows p (begin() for End).
After(p) == IF \E r \in Listed : r > p
            THEN CHOOSE r \in Listed : r > p /\ \A s \in Listed : s > p => r <= s
            ELSE End

\* An iterator that has reached the end stays there.
_poll_timer_callback(q) ==
    /\ loop[q] = "timers" /\ q[2] = 0 /\ ageTimers > 0 /\ walk[q] = NoWalk
    /\ \A p \in Pools : by[p] # q
    /\ After(End) # End
    /\ walk' = [walk EXCEPT ![q] = [pc |-> "next", itr |-> After(End), cur |-> End]]
    /\ LoopKeeps /\ UNCHANGED <<loop, curThrds>>

\* thrdPool = *itr; itr++; then aged_worker of that pool.
walk_next(q) ==
    LET w == walk[q]
    IN  /\ w.pc = "next" /\ w.itr # End
        /\ walk' = [walk EXCEPT ![q] = [pc |-> "age", itr |-> After(w.itr),
                                        cur |-> w.itr]]
        /\ LoopKeeps /\ UNCHANGED <<loop, curThrds>>

walk_aged(q) ==
    LET w == walk[q]
    IN  /\ w.pc = "age"
        /\ walk' = [walk EXCEPT ![q] = IF w.itr = End THEN NoWalk
                                       ELSE [w EXCEPT !.pc = "next", !.cur = End]]
        /\ LoopKeeps /\ UNCHANGED <<loop, curThrds>>

\* Threads that may call init_evt_thrds and free_evt_thrds.
InCallback(q) == loop[q] = "timers" /\ walk[q] = NoWalk
MayPool(a) ==
    /\ \A p \in Pools : by[p] # a
    /\ IF a = MainThread
       THEN "poolsInLoop" \in Habits => main \in {"idle", "ready"}
       ELSE InCallback(a) /\ ("poolsInLoop" \in Habits => a[2] = 0)

PoolStep(p, from, to, a) ==
    /\ pools[p] = from
    /\ pools' = [pools EXCEPT ![p] = to]
    /\ by' = [by EXCEPT ![p] = a]
    /\ UNCHANGED <<main, cnt, gen, submitted, shut, asked, loop, curThrds, epfd,
                   ageTimers, walk>>

\* init_evt_thrds: the pool is made (Init cannot fail: the numbers are right),
\* then it goes into the set.
init_evt_thrds(a, p) == MayPool(a) /\ PoolStep(p, "none", "new", a)
init_evt_insert(p) == PoolStep(p, "new", "listed", Nobody)

\* Mutant: the pool is left in the set.
free_evt_erase_forgotten(p) ==
    /\ pools[p] = "freeing"
    /\ by' = [by EXCEPT ![p] = Nobody]
    /\ UNCHANGED <<main, cnt, gen, submitted, shut, asked, loop, curThrds, epfd,
                   ageTimers, walk, pools>>

\* free_evt_thrds: Terminate, erase, delete.
free_evt_thrds(a, p) == MayPool(a) /\ PoolStep(p, "listed", "freeing", a)
free_evt_erase(p) == PoolStep(p, "freeing", "erased", by[p])
free_evt_delete(p) == PoolStep(p, "erased", "gone", Nobody)
-----------------------------------------------------------------------------
Main ==
    /\ \A p \in Pools : by[p] # MainThread
    /\ \/ \E n \in 0 .. MaxWorkers : np_init_worker_thrds(n)
       \/ np_start \/ start_submit \/ start_inline_returns
       \/ wait_stop \/ wait_stop_done \/ wait_stop_close

LoopStep(q) ==
    LoopBegin(q) \/ LoopTop(q) \/ LoopWait(q) \/ LoopAgain(q) \/ LoopEnd(q)

Walk(q) == _poll_timer_callback(q) \/ walk_next(q) \/ walk_aged(q)

PoolCall(p) == init_evt_insert(p) \/ free_evt_erase(p) \/ free_evt_delete(p)

LifeNext ==
    \/ Main \/ let_stop
    \/ \E q \in LoopIds : LoopStep(q) \/ Walk(q)
    \/ \E p \in Pools : PoolCall(p)
    \/ \E p \in Pools, a \in LoopIds \cup {MainThread} :
         init_evt_thrds(a, p) \/ free_evt_thrds(a, p)

\* Threads run; the pool begins the loops it was given, callbacks return, and
\* the application calls wait_stop.
LifeFairness ==
    /\ WF_lifeVars(Main /\ main \notin {"idle", "ready"})
    /\ \A q \in LoopIds :
         WF_lifeVars(LoopStep(q)) /\ SF_lifeVars(LoopAgain(q)) /\ WF_lifeVars(Walk(q))
    /\ \A p \in Pools : WF_lifeVars(PoolCall(p))

LifeSpec == LifeInit /\ [][LifeNext]_lifeVars /\ LifeFairness
-----------------------------------------------------------------------------
\* When wait_stop reports that all loops have ended, no loop of any start runs
\* or is still to begin.
StoppedMeansEnded ==
    main = "closing" =>
        \A q \in LoopIds : loop[q] \in {"none", "ended"}

\* A loop that runs has the epoll instance that was made for it: wait_stop has
\* not closed it, and no loop of an earlier start shares the one of a later.
LoopHasEpfd ==
    \A q \in LoopIds :
        loop[q] \in Begun \ {"leaving"} => epfd[q[2]] = q[1]

\* The walk over the event pools stays inside the set: its iterator is on a
\* listed pool and the pool it ages has not been deleted, nor does any thread
\* change the set meanwhile.
PoolWalkSafe ==
    \A q \in LoopIds :
        walk[q].pc # "idle" =>
            /\ {walk[q].itr, walk[q].cur} \ {End} \subseteq Listed
            /\ \A p \in Pools : pools[p] \notin {"new", "freeing", "erased"}

\* A call of let_stop is honoured: all loops end, also those that had not begun
\* by then, and wait_stop returns.
StopEnds == asked ~> (~asked /\ \A q \in LoopIds : loop[q] \in {"none", "ended"})
=============================================================================
