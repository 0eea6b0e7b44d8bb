------------------------------ MODULE TimeJob ------------------------------
(***************************************************************************)
(* The timers of netpool: CTimeJobMgr and CTimeJob (netpool/src/           *)
(* CJobTime.cpp).  Loop 0 walks the list after every batch of events and   *)
(* calls the expired timers; any thread adds and deletes timers.           *)
(*                                                                         *)
(* The walk holds m_job_lock from its beginning to its end, the timer      *)
(* functions included; the lock is not recursive (MUTEX_SETUP without      *)
(* attributes).  del_time_job takes the lock, add_time_job does not.       *)
(*                                                                         *)
(* A timer function may add and delete timers, and the one with which      *)
(* CThreadPoolMgr ages its pools waits (Join) for the thread of a pool.    *)
(***************************************************************************)
EXTENDS Integers, Sequences, SequencesExt

CONSTANTS
    Threads,    \* the threads other than loop 0
    PoolThreads,\* those of them that the ageing timer may wait for
    Keys,       \* pairs of a timer function and its first parameter
    Periods,    \* the values of time_value
    MaxTimers,  \* bound: how many timers are added in a behaviour
    MaxTime,    \* bound: the last time of the clock
    Rules       \* the rules of use that the application obeys

(***************************************************************************)
(* The rules of use.                                                       *)
(*   noDelInCallback  timer functions do not call del_time_job             *)
(*   quietAdd         no other thread adds a timer while loop 0 walks      *)
(*   tasksKeepOff     the tasks of the pools do not call del_time_job      *)
(***************************************************************************)
TimerRules == {"noDelInCallback", "quietAdd", "tasksKeepOff"}

ASSUME ThreadsAssumption == PoolThreads \subseteq Threads /\ 0 \notin Threads
ASSUME TimerBounds == MaxTimers \in Nat /\ MaxTime \in Nat /\ Periods \subseteq Nat
ASSUME TimerRulesAssumption == Rules \subseteq TimerRules

Loop0 == 0
Actors == Threads \cup {Loop0}
End == 0    \* m_time_jobs.end()

VARIABLES
    now,        \* util_get_cur_time()
    timer,      \* the CTimeJob objects, in the order of their creation
    list,       \* m_time_jobs
    freed,      \* deleted timers
    runs,       \* how often a timer's function was called (0, 1, or more: 2)
    lock,       \* the thread that holds m_job_lock, if any
    pc,         \* where loop 0 is in CTimeJobMgr::run
    nowtime,    \* the argument of time_job_walk
    itr,        \* the iterator of the walk: a timer or End
    cur,        \* pTimeJob of the walk
    joined,     \* the pool threads that the running timer function waits for
    del         \* every thread's call of del_time_job: its key, what it removed

walkVars == <<pc, nowtime, itr, cur, joined>>
vars == <<now, timer, list, freed, runs, lock, walkVars, del>>

Made == 1 .. Len(timer)
NoCall == [pc |-> "idle", key |-> {}, node |-> End]

TypeOK ==
    /\ now \in 0 .. MaxTime
    /\ timer \in Seq([key : Keys, period : Periods, once : BOOLEAN, expire : Nat])
    /\ list \in Seq(Made)
    /\ freed \subseteq Made
    /\ runs \in [1 .. MaxTimers -> 0 .. 2]
    /\ lock \subseteq Actors
    /\ pc \in {"idle", "lock", "walk", "doit"}
    /\ nowtime \in 0 .. MaxTime
    /\ itr \in Made \cup {End}
    /\ cur \in Made \cup {End}
    /\ joined \subseteq PoolThreads
    /\ del \in [Actors -> [pc : {"idle", "want", "free"}, key : SUBSET Keys,
                           node : Made \cup {End}]]

Init ==
    /\ now = 0
    /\ timer = <<>>
    /\ list = <<>>
    /\ freed = {}
    /\ runs = [t \in 1 .. MaxTimers |-> 0]
    /\ lock = {}
    /\ pc = "idle"
    /\ nowtime = 0
    /\ itr = End
    /\ cur = End
    /\ joined = {}
    /\ del = [a \in Actors |-> NoCall]
-----------------------------------------------------------------------------
Tick ==
    /\ now < MaxTime
    /\ now' = now + 1
    /\ UNCHANGED <<timer, list, freed, runs, lock, walkVars, del>>

\* A thread calls the library when it is in no call; loop 0 from a timer
\* function, or from elsewhere between two walks.
CanCall(a) ==
    /\ del[a].pc = "idle"
    /\ a = Loop0 => pc \in {"idle", "doit"} /\ joined = {}

\* add_time_job pushes without the lock.  A push into the list that another
\* thread is changing may be lost.
add_time_job(a, key, period, once) ==
    /\ CanCall(a)
    /\ Len(timer) < MaxTimers
    /\ "quietAdd" \in Rules /\ a # Loop0 => lock = {}
    /\ timer' = Append(timer, [key |-> key, period |-> period, once |-> once,
                               expire |-> now + period])
    /\ \/ list' = Append(list, Len(timer) + 1)
       \/ list' = list /\ lock \ {a} # {}
    /\ UNCHANGED <<now, freed, runs, lock, walkVars, del>>

\* find_time_jobs: the first timer of the list with this function and parameter.
find_time_jobs(key) ==
    LET i == SelectInSeq(list, LAMBDA t : timer[t].key = key)
    IN  IF i = 0 THEN End ELSE list[i]

del_time_job(a, key) ==
    /\ CanCall(a)
    /\ "noDelInCallback" \in Rules /\ a = Loop0 => pc # "doit"
    /\ "tasksKeepOff" \in Rules => a \notin PoolThreads
    /\ del' = [del EXCEPT ![a] = [pc |-> "want", key |-> {key}, node |-> End]]
    /\ UNCHANGED <<now, timer, list, freed, runs, lock, walkVars>>

\* Under the lock: find and unlink.
del_time_node(a) ==
    /\ del[a].pc = "want"
    /\ lock = {}
    /\ \E key \in del[a].key :
         LET t == find_time_jobs(key)
         IN  /\ list' = RemoveFirst(list, t)
             /\ del' = [del EXCEPT ![a] =
                          IF t = End THEN NoCall
                          ELSE [pc |-> "free", key |-> {}, node |-> t]]
    /\ UNCHANGED <<now, timer, freed, runs, lock, walkVars>>

\* delete pTimeJob, after the unlock.
del_free(a) ==
    /\ del[a].pc = "free"
    /\ freed' = freed \cup {del[a].node}
    /\ del' = [del EXCEPT ![a] = NoCall]
    /\ UNCHANGED <<now, timer, list, runs, lock, walkVars>>
-----------------------------------------------------------------------------
(***************************************************************************)
(* CTimeJobMgr::run and time_job_walk, in loop 0.                          *)
(***************************************************************************)

\* m_latest_expire_time is set once, before the first pass of the loop.
run ==
    /\ pc = "idle" /\ del[Loop0].pc = "idle"
    /\ now >= 1
    /\ pc' = "lock"
    /\ nowtime' = now
    /\ UNCHANGED <<now, timer, list, freed, runs, lock, itr, cur, joined, del>>

walk_begin ==
    /\ pc = "lock"
    /\ lock = {}
    /\ lock' = {Loop0}
    /\ pc' = "walk"
    /\ itr' = IF list = <<>> THEN End ELSE Head(list)
    /\ UNCHANGED <<now, timer, list, freed, runs, nowtime, cur, joined, del>>

\* Mutant of NextNode: the iterator is advanced twice.
NextNode_twice(t) ==
    LET i == CHOOSE k \in DOMAIN list : list[k] = t
    IN  IF i + 1 >= Len(list) THEN End ELSE list[i + 2]
\* itr++
NextNode(t) ==
    LET i == CHOOSE k \in DOMAIN list : list[k] = t
    IN  IF i = Len(list) THEN End ELSE list[i + 1]

is_expired(t) == timer[t].expire <= nowtime

\* Mutant of LockInCallback: the walk leaves the lock while the function runs.
LockInCallback_left == {}
\* The lock is kept while the timer function runs.
LockInCallback == lock

\* One timer of the walk: itr++ first, then the function if it has expired.
walk_next ==
    /\ pc = "walk"
    /\ itr # End
    /\ cur' = itr
    /\ itr' = NextNode(itr)
    /\ IF is_expired(itr)
       THEN /\ timer' = [timer EXCEPT ![itr].expire = nowtime + timer[itr].period]
            /\ runs' = [runs EXCEPT ![itr] = IF @ < 2 THEN @ + 1 ELSE 2]
            /\ pc' = "doit"
            /\ lock' = LockInCallback
       ELSE UNCHANGED <<timer, runs, pc, lock>>
    /\ UNCHANGED <<now, list, freed, nowtime, joined, del>>

\* _poll_timer_callback waits for a thread of a pool.
doit_join(a) ==
    /\ pc = "doit"
    /\ del[Loop0].pc = "idle"
    /\ joined' = joined \cup {a}
    /\ UNCHANGED <<now, timer, list, freed, runs, lock, pc, nowtime, itr, cur, del>>

\* Mutant of OnceDone: a timer that runs once stays in the list.
OnceDone_kept == {}
\* Mutant of OnceDone: the node after the timer is taken for it.
OnceDone_next == IF timer[cur].once THEN {itr} ELSE {}
\* A timer that runs once is unlinked and deleted after its function.
OnceDone == IF timer[cur].once THEN {cur} ELSE {}

\* The function returns; the threads that it waited for are in no call.
doit_return ==
    /\ pc = "doit"
    /\ del[Loop0].pc = "idle"
    /\ \A a \in joined : del[a].pc = "idle"
    /\ \/ OnceDone = {} /\ UNCHANGED <<list, freed>>
       \/ \E t \in OnceDone :
            /\ list' = RemoveFirst(list, t)
            /\ freed' = freed \cup {t}
    /\ joined' = {}
    /\ pc' = "walk"
    /\ lock' = {Loop0}
    /\ UNCHANGED <<now, timer, runs, nowtime, itr, cur, del>>

\* Mutant of LockAfterWalk: MUTEX_UNLOCK is forgotten.
LockAfterWalk_kept == lock
LockAfterWalk == {}

walk_end ==
    /\ pc = "walk"
    /\ itr = End
    /\ pc' = "idle"
    /\ lock' = LockAfterWalk
    /\ cur' = End
    /\ UNCHANGED <<now, timer, list, freed, runs, nowtime, itr, joined, del>>
-----------------------------------------------------------------------------
Walk == walk_begin \/ walk_next \/ doit_return \/ walk_end

Next ==
    \/ Tick
    \/ \E a \in Actors, key \in Keys :
         \/ \E period \in Periods, once \in BOOLEAN :
              add_time_job(a, key, period, once)
         \/ del_time_job(a, key)
    \/ \E a \in Actors : del_time_node(a) \/ del_free(a)
    \/ \E a \in PoolThreads : doit_join(a)
    \/ run
    \/ Walk

Spec == Init /\ [][Next]_vars

\* The loop comes round (epoll_wait has a timeout), timer functions return, and
\* a thread that waits for the lock is not starved.
Fairness ==
    /\ WF_vars(Tick)
    /\ SF_vars(run)
    /\ SF_vars(walk_begin)
    /\ WF_vars(walk_next)
    /\ SF_vars(doit_return)
    /\ WF_vars(walk_end)
    /\ \A a \in Actors : SF_vars(del_time_node(a)) /\ WF_vars(del_free(a))

FairSpec == Spec /\ Fairness
-----------------------------------------------------------------------------
\* The walk's iterator and the timer whose function runs are in the list, so
\* neither is deleted under it: a thread that deletes a timer waits until its
\* function has returned, and once del_time_job is done the function never runs.
WalkSafe ==
    /\ \A t \in ToSet(list) : t \notin freed
    /\ itr # End => itr \in ToSet(list)
    /\ pc = "doit" => cur \in ToSet(list)

\* A timer in memory is in the list once, unless del_time_job is about to free
\* it: none is lost, and none is freed twice.
TimerInOnePlace ==
    /\ IsInjective(list)
    /\ \A t \in Made :
         LET unlinked == {a \in Actors : del[a].node = t}
         IN  /\ t \in ToSet(list) => unlinked = {} /\ t \notin freed
             /\ t \in freed => unlinked = {}
             /\ \A a, b \in unlinked : a = b
             /\ t \in ToSet(list) \/ t \in freed \/ unlinked # {}

\* A timer that is to run once is called at most once.
OnceRunsOnce == \A t \in Made : timer[t].once => runs[t] <= 1

\* A timer that has expired is called, unless it is deleted first.
TimerRuns ==
    \A t \in 1 .. MaxTimers :
        (t \in Made /\ timer[t].expire <= now /\ runs[t] = 0)
            ~> (runs[t] > 0 \/ t \notin ToSet(list))

\* del_time_job returns, whoever calls it.
DeleteReturns == \A a \in Actors : del[a].pc = "want" ~> del[a].pc = "idle"
=============================================================================
