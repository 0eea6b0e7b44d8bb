----------------------------- MODULE ThreadPool -----------------------------
(***************************************************************************)
(* CThreadPool and its CWorker threads (netpool/src/CThreadPool.cpp,       *)
(* CThread.cpp), in the Linux build, and the two ways in which             *)
(* CThreadPoolMgr uses them: event pools, which a timer ages and the       *)
(* application frees, and the worker pool that runs the event loops, which *)
(* is neither aged nor freed.                                              *)
(*                                                                         *)
(* A call of Execute hands over a task object and creates at most one      *)
(* worker, so the worker that Execute(t) creates is named t; the workers   *)
(* that Init creates are Base.  The task queue is only touched under       *)
(* m_csTasksLock; m_ThreadPool is changed under m_csThreadPoolLock by      *)
(* Execute and aged_worker, without it by Terminate, and walked without it *)
(* by IsAllWorkerBusy.                                                     *)
(*                                                                         *)
(* A worker that finds no task waits on a condition variable for at most   *)
(* two seconds and looks again, so a broadcast changes only how soon: the  *)
(* wait is an empty look at the queue, and the broadcasts leave no trace.  *)
(* Abstracted: cores, run counts, names, the three debug callbacks.        *)
(***************************************************************************)
EXTENDS Naturals, Sequences, FiniteSets

CONSTANTS
    Clients,    \* application threads that call Execute
    Tasks,      \* Runnable objects; each is passed to Execute once
    LoopTasks,  \* the tasks that never return (CNetPoll::loop_handle)
    Base,       \* the minThreads workers that Init creates
    MaxThreads, \* maxThreads of Init
    EventPool,  \* an event pool, aged and freed; otherwise the worker pool
    Rules       \* the rules of use that the application obeys

(***************************************************************************)
(* The rules of use; the library enforces none of them.                    *)
(*   serialExecute  no two calls of Execute overlap                        *)
(*   quietAge       the ageing timer does not fire during an Execute, nor  *)
(*                  is Execute called while it ages the pool               *)
(*   quietExit      the pool is not freed during an Execute or the ageing, *)
(*                  nor is Execute or the ageing begun during Terminate    *)
(*   promptStart    a worker thread has reached its loop before anybody    *)
(*                  tells it to exit                                       *)
(***************************************************************************)
AllRules == {"serialExecute", "quietAge", "quietExit", "promptStart"}

Workers == Base \cup Tasks
Callers == Clients \cup Workers

ASSUME BaseAssumption == IsFiniteSet(Base) /\ Base # {} /\ Base \cap Tasks = {}
ASSUME TasksAssumption == IsFiniteSet(Tasks) /\ LoopTasks \subseteq Tasks
ASSUME MaxThreadsAssumption ==
    MaxThreads \in Nat /\ Cardinality(Base) <= MaxThreads
ASSUME ClientsAssumption == Clients \cap Workers = {}
ASSUME PoolRulesAssumption == EventPool \in BOOLEAN /\ Rules \subseteq AllRules

VARIABLES
    enable,     \* m_bEnableInsertTask
    quickFree,  \* m_bQuickFree
    minThreads, \* m_minThreads
    maxThreads, \* m_maxThreads
    tasks,      \* m_Tasks
    pool,       \* m_ThreadPool
    exec,       \* every call of Execute: where it is, who makes it, what it read
    thread,     \* where the thread of every worker is in CWorker::Run
    status,     \* m_workerStatus of every worker
    bRun,       \* the workers whose CThread::m_bRun is true
    busy,       \* the workers whose m_isBusy is true
    held,       \* pTask of every worker: nothing, or the task it has taken
    freed,      \* deleted workers
    ran,        \* tasks that were run and deleted
    dropped,    \* tasks that were deleted without being run
    agePc,      \* where aged_worker is
    ageTrash,   \* trashThread of aged_worker
    termPc,     \* where Terminate is
    termRound,  \* 1: Terminate(quickFree) of free_evt_thrds, 2: the destructor's
    termTrash   \* trashThread of TellAllWorkerExit

taskVars == <<tasks, held, ran, dropped>>
limitVars == <<enable, quickFree, minThreads, maxThreads>>
workerVars == <<thread, status, bRun, busy>>
ageVars == <<agePc, ageTrash>>
termVars == <<termPc, termRound, termTrash>>
vars == <<enable, quickFree, minThreads, maxThreads, tasks, pool, exec,
          thread, status, bRun, busy, held, freed, ran, dropped,
          agePc, ageTrash, termPc, termRound, termTrash>>

\* Where a call of Execute is.  Between "count" and "push" it is under way.
ExecPcs == {"new", "count", "size", "scan", "insert", "create", "setrun",
            "push", "accepted", "refused"}
InExecute == {t \in Tasks : exec[t].pc \notin {"new", "accepted", "refused"}}

ThreadPcs == {"none", "boot", "check", "fetch", "got", "busy", "run", "done",
              "exit", "gone"}

TypeOK ==
    /\ enable \in BOOLEAN
    /\ quickFree \in BOOLEAN
    /\ minThreads \in {0, Cardinality(Base)}
    /\ maxThreads \in {0, MaxThreads}
    /\ tasks \in Seq(Tasks)
    /\ pool \subseteq Workers
    /\ exec \in [Tasks -> [pc : ExecPcs, by : SUBSET Callers,
                           waiting : BOOLEAN, threads : Nat, torn : BOOLEAN]]
    /\ thread \in [Workers -> ThreadPcs]
    /\ status \in [Workers -> {"INIT", "STARTED", "STOPPING"}]
    /\ bRun \subseteq Workers
    /\ busy \subseteq Workers
    /\ held \in [Workers -> SUBSET Tasks]
    /\ freed \subseteq Workers
    /\ ran \subseteq Tasks
    /\ dropped \subseteq Tasks
    /\ agePc \in {"idle", "walk", "join"}
    /\ ageTrash \subseteq Workers
    /\ termPc \in {"no", "drain", "tell", "join", "done"}
    /\ termRound \in 0 .. 2
    /\ termTrash \subseteq Workers

NewCall == [pc |-> "new", by |-> {}, waiting |-> FALSE, threads |-> 0,
            torn |-> FALSE]

\* CThreadPool::Init has returned: the first workers are in the pool and
\* their threads have been created.
Init ==
    /\ enable = TRUE
    /\ quickFree = FALSE
    /\ minThreads = Cardinality(Base)
    /\ maxThreads = MaxThreads
    /\ tasks = <<>>
    /\ pool = Base
    /\ exec = [t \in Tasks |-> NewCall]
    /\ thread = [w \in Workers |-> IF w \in Base THEN "boot" ELSE "none"]
    /\ status = [w \in Workers |-> "INIT"]
    /\ bRun = Base
    /\ busy = {}
    /\ held = [w \in Workers |-> {}]
    /\ freed = {}
    /\ ran = {}
    /\ dropped = {}
    /\ agePc = "idle"
    /\ ageTrash = {}
    /\ termPc = "no"
    /\ termRound = 0
    /\ termTrash = {}
-----------------------------------------------------------------------------
(***************************************************************************)
(* CThreadPool::Execute(t), called by c: an application thread, or a       *)
(* worker whose task calls it.                                             *)
(***************************************************************************)

CanCall(c) ==
    /\ c \in Clients \/ (c \in Workers /\ thread[c] = "run")
    /\ \A t \in InExecute : c \notin exec[t].by

Terminating == termPc # "no" \/ termRound # 0

\* IsAllWorkerBusy walks m_ThreadPool without the lock: a walk during which
\* the set changes may see anything.
Torn(e) == [t \in Tasks |-> [e[t] EXCEPT !.torn = @ \/ e[t].pc = "scan"]]

\* The test of m_bEnableInsertTask.
Execute_enter(c, t) ==
    /\ exec[t].pc = "new"
    /\ termPc # "done"
    /\ CanCall(c)
    /\ "serialExecute" \in Rules => InExecute = {}
    /\ "quietAge" \in Rules => agePc = "idle"
    /\ "quietExit" \in Rules => ~Terminating
    /\ exec' = [exec EXCEPT ![t].pc = IF enable THEN "count" ELSE "refused",
                            ![t].by = {c}]
    /\ UNCHANGED <<limitVars, taskVars, pool, workerVars, freed, ageVars,
                   termVars>>

\* taskCnt = GetTaskSize()
Execute_count(t) ==
    /\ exec[t].pc = "count"
    /\ exec' = [exec EXCEPT ![t].pc = "size", ![t].waiting = tasks # <<>>]
    /\ UNCHANGED <<limitVars, taskVars, pool, workerVars, freed, ageVars,
                   termVars>>

\* threadCnt = m_ThreadPool.size()
Execute_size(t) ==
    /\ exec[t].pc = "size"
    /\ exec' = [exec EXCEPT ![t].pc = "scan", ![t].threads = Cardinality(pool)]
    /\ UNCHANGED <<limitVars, taskVars, pool, workerVars, freed, ageVars,
                   termVars>>

IsAllWorkerBusy(t) == IF exec[t].torn THEN BOOLEAN ELSE {pool \subseteq busy}

\* Mutant: one thread too many.
HasRoom_off_by_one(t) == exec[t].threads <= maxThreads
HasRoom(t) == exec[t].threads < maxThreads

\* The decision to create a worker.
Execute_decide(t) ==
    /\ exec[t].pc = "scan"
    /\ \E allBusy \in IsAllWorkerBusy(t) :
         exec' = [exec EXCEPT
                    ![t].pc = IF (allBusy \/ exec[t].waiting) /\ HasRoom(t)
                              THEN "insert" ELSE "push"]
    /\ UNCHANGED <<limitVars, taskVars, pool, workerVars, freed, ageVars,
                   termVars>>

\* m_ThreadPool.insert(pWorker) under the lock, which aged_worker holds from
\* its beginning to its end.
Execute_insert(t) ==
    /\ exec[t].pc = "insert"
    /\ agePc = "idle"
    /\ pool' = pool \cup {t}
    /\ exec' = Torn([exec EXCEPT ![t].pc = "create"])
    /\ UNCHANGED <<limitVars, taskVars, workerVars, freed, ageVars, termVars>>

\* CThread::Start: the thread exists before m_bRun says so.
Start_create(t) ==
    /\ exec[t].pc = "create"
    /\ thread' = [thread EXCEPT ![t] = "boot"]
    /\ exec' = [exec EXCEPT ![t].pc = "setrun"]
    /\ UNCHANGED <<limitVars, taskVars, pool, status, bRun, busy, freed,
                   ageVars, termVars>>

Start_run(t) ==
    /\ exec[t].pc = "setrun"
    /\ bRun' = bRun \cup {t}
    /\ exec' = [exec EXCEPT ![t].pc = "push"]
    /\ UNCHANGED <<limitVars, taskVars, pool, thread, status, busy, freed,
                   ageVars, termVars>>

\* m_Tasks.push_back(pRunnable)
Execute_push(t) ==
    /\ exec[t].pc = "push"
    /\ tasks' = Append(tasks, t)
    /\ exec' = [exec EXCEPT ![t].pc = "accepted"]
    /\ UNCHANGED <<limitVars, held, ran, dropped, pool, workerVars, freed,
                   ageVars, termVars>>
-----------------------------------------------------------------------------
(***************************************************************************)
(* CWorker::Run and CThread::StaticThreadFunc, in the thread of worker w.  *)
(***************************************************************************)

\* m_workerStatus = WORKER_STARTED, whatever it was.
Worker_boot(w) ==
    /\ thread[w] = "boot"
    /\ status' = [status EXCEPT ![w] = "STARTED"]
    /\ thread' = [thread EXCEPT ![w] = "check"]
    /\ UNCHANGED <<limitVars, taskVars, pool, exec, bRun, busy, freed,
                   ageVars, termVars>>

\* while (m_workerStatus == WORKER_STARTED)
Worker_check(w) ==
    /\ thread[w] = "check"
    /\ thread' = [thread EXCEPT ![w] = IF status[w] = "STARTED" THEN "fetch"
                                       ELSE "exit"]
    /\ UNCHANGED <<limitVars, taskVars, pool, exec, status, bRun, busy, freed,
                   ageVars, termVars>>

\* Mutant: front() and pop_front() in two critical sections.
GetOneTask_unlocked(w) ==
    /\ thread[w] = "fetch"
    /\ tasks # <<>>
    /\ held' = [held EXCEPT ![w] = {Head(tasks)}]
    /\ \/ tasks' = Tail(tasks)
       \/ tasks' = tasks
    /\ thread' = [thread EXCEPT ![w] = "got"]
    /\ UNCHANGED <<limitVars, ran, dropped, pool, exec, status, bRun, busy,
                   freed, ageVars, termVars>>
GetOneTask(w) ==
    /\ thread[w] = "fetch"
    /\ tasks # <<>>
    /\ held' = [held EXCEPT ![w] = {Head(tasks)}]
    /\ tasks' = Tail(tasks)
    /\ thread' = [thread EXCEPT ![w] = "got"]
    /\ UNCHANGED <<limitVars, ran, dropped, pool, exec, status, bRun, busy,
                   freed, ageVars, termVars>>

\* No task: the wait of two seconds is over, or was broken by a broadcast.
Worker_wait(w) ==
    /\ thread[w] = "fetch"
    /\ tasks = <<>>
    /\ thread' = [thread EXCEPT ![w] = "check"]
    /\ UNCHANGED <<limitVars, taskVars, pool, exec, status, bRun, busy, freed,
                   ageVars, termVars>>

\* m_isBusy = true
Worker_busy(w) ==
    /\ thread[w] = "got"
    /\ busy' = busy \cup {w}
    /\ thread' = [thread EXCEPT ![w] = "busy"]
    /\ UNCHANGED <<limitVars, taskVars, pool, exec, status, bRun, freed,
                   ageVars, termVars>>

\* if (!m_bQuickFree)
Worker_begin(w) ==
    /\ thread[w] = "busy"
    /\ IF quickFree
       THEN /\ thread' = [thread EXCEPT ![w] = "done"]
            /\ dropped' = dropped \cup held[w]
            /\ held' = [held EXCEPT ![w] = {}]
       ELSE /\ thread' = [thread EXCEPT ![w] = "run"]
            /\ UNCHANGED <<dropped, held>>
    /\ UNCHANGED <<limitVars, tasks, ran, pool, exec, status, bRun, busy,
                   freed, ageVars, termVars>>

\* pTask->Run() returns, and the task is deleted.
Worker_ran(w) ==
    /\ thread[w] = "run"
    /\ held[w] \cap LoopTasks = {}
    /\ \A t \in InExecute : w \notin exec[t].by
    /\ ran' = ran \cup held[w]
    /\ held' = [held EXCEPT ![w] = {}]
    /\ thread' = [thread EXCEPT ![w] = "done"]
    /\ UNCHANGED <<limitVars, tasks, dropped, pool, exec, status, bRun,
                   busy, freed, ageVars, termVars>>

\* m_isBusy = false
Worker_idle(w) ==
    /\ thread[w] = "done"
    /\ busy' = busy \ {w}
    /\ thread' = [thread EXCEPT ![w] = "check"]
    /\ UNCHANGED <<limitVars, taskVars, pool, exec, status, bRun, freed,
                   ageVars, termVars>>

\* Mutant: the thread ends without SetExitFlag.
SetExitFlag_forgotten(w) ==
    /\ thread[w] = "exit"
    /\ thread' = [thread EXCEPT ![w] = "gone"]
    /\ UNCHANGED <<limitVars, taskVars, pool, exec, status, bRun, busy, freed,
                   ageVars, termVars>>
\* The last thing that a thread does with its worker object.
SetExitFlag(w) ==
    /\ thread[w] = "exit"
    /\ bRun' = bRun \ {w}
    /\ thread' = [thread EXCEPT ![w] = "gone"]
    /\ UNCHANGED <<limitVars, taskVars, pool, exec, status, busy, freed,
                   ageVars, termVars>>
-----------------------------------------------------------------------------
(***************************************************************************)
(* aged_worker, called by the timer of CThreadPoolMgr every 30 seconds for *)
(* every event pool that has not been taken out of m_evt_thrd_pools.       *)
(***************************************************************************)

Tellable(w) == "promptStart" \in Rules => thread[w] \notin {"none", "boot"}

aged_worker_begin ==
    /\ EventPool
    /\ agePc = "idle"
    /\ termRound = 0 \/ (termRound = 1 /\ termPc # "no")
    /\ "quietAge" \in Rules => InExecute = {}
    /\ "quietExit" \in Rules => ~Terminating
    /\ agePc' = "walk"
    /\ UNCHANGED <<limitVars, taskVars, pool, exec, workerVars, freed,
                   ageTrash, termVars>>

\* Mutant: the last test lets the pool shrink below its minimum.
AboveMin_off_by_one == Cardinality(pool) >= minThreads
AboveMin == Cardinality(pool) > minThreads

\* CWorker::Aged: a worker that is not busy and was not for the last ten
\* seconds is told to exit.  It may have taken a task all the same.
Aged(w) ==
    /\ agePc = "walk"
    /\ w \in pool
    /\ AboveMin
    /\ w \notin busy
    /\ Tellable(w)
    /\ status' = [status EXCEPT ![w] = "STOPPING"]
    /\ pool' = pool \ {w}
    /\ ageTrash' = ageTrash \cup {w}
    /\ exec' = Torn(exec)
    /\ UNCHANGED <<limitVars, taskVars, thread, bRun, busy, freed, agePc,
                   termVars>>

\* The walk is over.
aged_worker_walked ==
    /\ agePc = "walk"
    /\ agePc' = "join"
    /\ UNCHANGED <<limitVars, taskVars, pool, exec, workerVars, freed,
                   ageTrash, termVars>>

\* Mutant: the worker is deleted without waiting for its thread.
Join_at_once(w) == TRUE
\* Join(-1) returns once m_bRun is false.
Join(w) == w \notin bRun

aged_worker_join(w) ==
    /\ agePc = "join"
    /\ w \in ageTrash
    /\ Join(w)
    /\ ageTrash' = ageTrash \ {w}
    /\ freed' = freed \cup {w}
    /\ UNCHANGED <<limitVars, taskVars, pool, exec, workerVars, agePc,
                   termVars>>

\* The lock is given back.
aged_worker_end ==
    /\ agePc = "join"
    /\ ageTrash = {}
    /\ agePc' = "idle"
    /\ UNCHANGED <<limitVars, taskVars, pool, exec, workerVars, freed,
                   ageTrash, termVars>>
-----------------------------------------------------------------------------
(***************************************************************************)
(* free_evt_thrds: Terminate(quickFree), then the destructor, which calls  *)
(* Terminate() again.                                                      *)
(***************************************************************************)

Terminate_begin(round, quick) ==
    /\ termPc = "no"
    /\ termRound = round - 1
    /\ termRound' = round
    /\ termPc' = "drain"
    /\ quickFree' = quick
    /\ enable' = FALSE
    /\ UNCHANGED <<minThreads, maxThreads, taskVars, pool, exec, workerVars,
                   freed, ageVars, termTrash>>

free_evt_thrds(quick) ==
    /\ EventPool
    /\ "quietExit" \in Rules => InExecute = {} /\ agePc = "idle"
    /\ Terminate_begin(1, quick)

\* ~CThreadPool
Destroy == Terminate_begin(2, FALSE)

\* Mutant: Terminate does not wait for the queue.
Drained_never_waits == TRUE
\* while (m_Tasks.size() > 0) sleep_s(1)
Drained == tasks = <<>>

Terminate_drained ==
    /\ termPc = "drain"
    /\ Drained
    /\ minThreads' = 0
    /\ maxThreads' = 0
    /\ termPc' = "tell"
    /\ UNCHANGED <<enable, quickFree, taskVars, pool, exec, workerVars, freed,
                   ageVars, termRound, termTrash>>

\* The first loop of TellAllWorkerExit.
TellExit(w) ==
    /\ termPc = "tell"
    /\ w \in pool
    /\ Tellable(w)
    /\ status' = [status EXCEPT ![w] = "STOPPING"]
    /\ pool' = pool \ {w}
    /\ termTrash' = termTrash \cup {w}
    /\ exec' = Torn(exec)
    /\ UNCHANGED <<limitVars, taskVars, thread, bRun, busy, freed, ageVars,
                   termPc, termRound>>

TellAllWorkerExit_told ==
    /\ termPc = "tell"
    /\ pool = {}
    /\ termPc' = "join"
    /\ UNCHANGED <<limitVars, taskVars, pool, exec, workerVars, freed, ageVars,
                   termRound, termTrash>>

\* The second loop of TellAllWorkerExit.
TellAllWorkerExit_join(w) ==
    /\ termPc = "join"
    /\ w \in termTrash
    /\ Join(w)
    /\ termTrash' = termTrash \ {w}
    /\ freed' = freed \cup {w}
    /\ UNCHANGED <<limitVars, taskVars, pool, exec, workerVars, ageVars,
                   termPc, termRound>>

Terminate_end ==
    /\ termPc = "join"
    /\ termTrash = {}
    /\ termPc' = IF termRound = 1 THEN "no" ELSE "done"
    /\ UNCHANGED <<limitVars, taskVars, pool, exec, workerVars, freed, ageVars,
                   termRound, termTrash>>
-----------------------------------------------------------------------------
Execute(t) ==
    \/ Execute_count(t)
    \/ Execute_size(t)
    \/ Execute_decide(t)
    \/ Execute_insert(t)
    \/ Start_create(t)
    \/ Start_run(t)
    \/ Execute_push(t)

Run(w) ==
    \/ Worker_boot(w)
    \/ Worker_check(w)
    \/ GetOneTask(w)
    \/ Worker_wait(w)
    \/ Worker_busy(w)
    \/ Worker_begin(w)
    \/ Worker_ran(w)
    \/ Worker_idle(w)
    \/ SetExitFlag(w)

AgeWork ==
    \/ aged_worker_walked
    \/ \E w \in Workers : aged_worker_join(w)
    \/ aged_worker_end

Terminate ==
    \/ Terminate_drained
    \/ \E w \in Workers : TellExit(w) \/ TellAllWorkerExit_join(w)
    \/ TellAllWorkerExit_told
    \/ Terminate_end
    \/ Destroy

Next ==
    \/ \E t \in Tasks : Execute(t) \/ \E c \in Callers : Execute_enter(c, t)
    \/ \E w \in Workers : Run(w) \/ Aged(w)
    \/ aged_worker_begin
    \/ AgeWork
    \/ \E quick \in BOOLEAN : free_evt_thrds(quick)
    \/ Terminate

Spec == Init /\ [][Next]_vars

\* Every thread that can go on does; tasks other than the loops return.
\* Nothing makes the application call Execute or free the pool, or the timer
\* fire.
Fairness ==
    /\ \A t \in Tasks : WF_vars(Execute(t))
    /\ \A w \in Workers : WF_vars(Run(w))
    /\ WF_vars(AgeWork)
    /\ WF_vars(Terminate)

FairSpec == Spec /\ Fairness
-----------------------------------------------------------------------------
(***************************************************************************)
(* Properties.                                                             *)
(***************************************************************************)

Queued(t) == \E i \in DOMAIN tasks : tasks[i] = t
Held(t) == \E w \in Workers : t \in held[w]
Accepted == {t \in Tasks : exec[t].pc = "accepted"}

\* A task for which Execute returned true is in exactly one place: once in
\* m_Tasks, in the hands of one worker, or deleted after it was run or skipped
\* (push_back of Execute, pop_front of GetOneTask, delete in CWorker::Run).
TaskInOnePlace ==
    /\ \A i, k \in DOMAIN tasks : tasks[i] = tasks[k] => i = k
    /\ \A w, v \in Workers : w # v => held[w] \cap held[v] = {}
    /\ \A t \in Tasks : Queued(t) => ~Held(t) /\ t \notin ran \cup dropped
    /\ \A t \in Tasks : Held(t) => t \notin ran \cup dropped
    /\ ran \cap dropped = {}
    /\ \A t \in Tasks :
          t \in Accepted <=> Queued(t) \/ Held(t) \/ t \in ran \cup dropped

\* aged_worker and TellAllWorkerExit delete a worker only when its thread has
\* touched it for the last time and no Execute is about to start it.
NoDanglingWorker ==
    \A w \in freed :
        /\ thread[w] = "gone"
        /\ w \notin pool
        /\ w \in Tasks => exec[w].pc \notin {"create", "setrun"}

\* The threads that exist, those on their way out included, are never more
\* than maxThreads, and ageing leaves minThreads of them in the pool.
PoolSize ==
    /\ Cardinality({w \in Workers : thread[w] \notin {"none", "gone"}})
          <= MaxThreads
    /\ ~Terminating => Cardinality(pool) >= Cardinality(Base)

\* When free_evt_thrds returns, every task that Execute accepted is deleted
\* and so is every worker (Terminate drains the queue, then joins them all).
FreedClean ==
    termPc = "done" =>
        /\ Accepted \subseteq ran \cup dropped
        /\ {w \in Workers : thread[w] # "none"} \subseteq freed

\* Quick exit: a task that is in the queue when m_bQuickFree is set is never
\* run, whatever the second Terminate of the destructor sets it to.
QuickFreeStops ==
    \A t \in Tasks : [](quickFree /\ Queued(t) => [](t \notin ran))

\* Every accepted task is run or, on quick exit, deleted, although ageing
\* takes workers away while tasks arrive.
EveryTaskEnds == \A t \in Tasks : t \in Accepted ~> t \in ran \cup dropped

\* Terminate returns, twice: no Join waits forever.
FreeReturns == termRound = 1 ~> termPc = "done"

\* aged_worker gives m_csThreadPoolLock back.
AgeReturns == agePc = "walk" ~> agePc = "idle"

\* A loop_handle that Execute accepted gets a thread of its own, as long as
\* there are no more of them than maxThreads.
LoopTasksStart ==
    \A t \in LoopTasks :
        t \in Accepted ~> \E w \in Workers : thread[w] = "run" /\ t \in held[w]
=============================================================================
