-------------------------- MODULE ThreadPoolProofs --------------------------
(***************************************************************************)
(* ThreadPool keeps its types, and keeps every accepted task in exactly    *)
(* one place, for every number of tasks, workers and callers and whatever  *)
(* rules the application obeys.  When a pool is aged and freed while nobody *)
(* uses it and its threads start promptly, workers are deleted only after  *)
(* their threads have left them, nothing is left in a freed pool and a quick *)
(* exit runs no queued task; with one Execute at a time, the pool keeps to *)
(* its size.                                                               *)
(***************************************************************************)
EXTENDS ThreadPool, FiniteSetTheorems, TLAPS

\* The number of threads in a pool is a number.
LEMMA PoolFinite ==
    ASSUME NEW S \in SUBSET Workers
    PROVE  IsFiniteSet(S) /\ Cardinality(S) \in Nat
<1>1. IsFiniteSet(Workers)
  BY BaseAssumption, TasksAssumption, FS_Union DEF Workers
<1>2. QED BY <1>1, FS_Subset, FS_CardinalityType

\* What the state of a worker's thread tells: it holds a task exactly between
\* GetOneTask and the deletion of the task, and the worker that an Execute
\* will create has no thread yet.
WorkerShape ==
    /\ \A w \in Workers : held[w] # {} <=> thread[w] \in {"got", "busy", "run"}
    /\ \A t \in Tasks :
          exec[t].pc \in {"new", "count", "size", "scan", "insert", "create"}
            => thread[t] = "none"

PoolInv == TypeOK /\ WorkerShape

ExecRec == [pc : ExecPcs, by : SUBSET Callers, waiting : BOOLEAN,
            threads : Nat, torn : BOOLEAN]

LEMMA TornType ==
    ASSUME NEW e \in [Tasks -> ExecRec]
    PROVE  /\ Torn(e) \in [Tasks -> ExecRec]
           /\ \A t \in Tasks : /\ Torn(e)[t].pc = e[t].pc
                               /\ Torn(e)[t].threads = e[t].threads
<1>1. \A t \in Tasks : /\ Torn(e)[t] \in ExecRec
                       /\ Torn(e)[t].pc = e[t].pc
                       /\ Torn(e)[t].threads = e[t].threads
  <2> TAKE t \in Tasks
  <2>1. e[t] \in ExecRec
    OBVIOUS
  <2>2. Torn(e)[t] = [e[t] EXCEPT !.torn = @ \/ e[t].pc = "scan"]
    BY DEF Torn
  <2>3. (e[t].torn \/ e[t].pc = "scan") \in BOOLEAN
    OBVIOUS
  <2>4. QED BY <2>1, <2>2, <2>3 DEF ExecRec
<1>2. QED BY <1>1 DEF Torn

\* The first states.
LEMMA InitInv == Init => PoolInv
<1> SUFFICES ASSUME Init PROVE PoolInv
  OBVIOUS
<1>1. Cardinality(Base) \in Nat /\ Base \subseteq Workers
  BY PoolFinite DEF Workers
<1>2. exec \in [Tasks -> ExecRec]
  BY DEF Init, NewCall, ExecRec, ExecPcs
<1>3. TypeOK
  <2>1. tasks \in Seq(Tasks)
    BY DEF Init
  <2>2. /\ thread \in [Workers -> ThreadPcs]
        /\ status \in [Workers -> {"INIT", "STARTED", "STOPPING"}]
        /\ held \in [Workers -> SUBSET Tasks]
    BY DEF Init, ThreadPcs
  <2>3. /\ pool \subseteq Workers /\ bRun \subseteq Workers
        /\ busy \subseteq Workers /\ freed \subseteq Workers
        /\ ageTrash \subseteq Workers /\ termTrash \subseteq Workers
        /\ ran \subseteq Tasks /\ dropped \subseteq Tasks
    BY <1>1 DEF Init
  <2>a. enable \in BOOLEAN /\ quickFree \in BOOLEAN
    BY Zenon DEF Init
  <2>4. /\ minThreads \in {0, Cardinality(Base)}
        /\ maxThreads \in {0, MaxThreads}
        /\ agePc \in {"idle", "walk", "join"}
        /\ termPc \in {"no", "drain", "tell", "join", "done"}
        /\ termRound \in 0 .. 2
    BY DEF Init
  <2>5. QED BY <1>2, <2>1, <2>2, <2>3, <2>a, <2>4 DEF TypeOK, ExecRec
<1>4. \A t \in Tasks : thread[t] = "none"
  BY BaseAssumption DEF Init, Workers
<1>5. WorkerShape
  BY <1>4 DEF Init, WorkerShape
<1>6. QED BY <1>3, <1>5 DEF PoolInv

\* A step of Execute, in the caller's thread.
LEMMA ExecuteInv ==
    ASSUME PoolInv, NEW t \in Tasks,
           Execute(t) \/ \E c \in Callers : Execute_enter(c, t)
    PROVE  PoolInv'
<1> USE DEF PoolInv
<1>0. exec \in [Tasks -> ExecRec] /\ Tasks \subseteq Workers
  BY DEF TypeOK, ExecRec, Workers
<1>1. CASE \E c \in Callers : Execute_enter(c, t)
  <2> PICK c \in Callers : Execute_enter(c, t)
    BY <1>1
  <2>0. PICK p \in ExecPcs :
          exec' = [exec EXCEPT ![t].pc = p, ![t].by = {c}]
    BY DEF Execute_enter, ExecPcs
  <2>1. exec' \in [Tasks -> ExecRec]
    <3>1. {c} \in SUBSET Callers
      OBVIOUS
    <3>2. QED BY <1>0, <2>0, <3>1 DEF ExecRec
  <2>2. TypeOK'
    BY <2>1 DEF TypeOK, Execute_enter, limitVars, taskVars, workerVars,
                ageVars, termVars, ExecRec
  <2>3. WorkerShape'
    BY <1>0 DEF WorkerShape, Execute_enter, taskVars, workerVars, ExecRec
  <2>4. QED BY <2>2, <2>3
<1>2. CASE Execute_count(t)
  <2>0. PICK b \in BOOLEAN :
          exec' = [exec EXCEPT ![t].pc = "size", ![t].waiting = b]
    BY <1>2 DEF Execute_count
  <2>1. exec' \in [Tasks -> ExecRec]
    BY <1>0, <2>0 DEF ExecRec, ExecPcs
  <2>2. TypeOK'
    BY <2>1, <1>2 DEF TypeOK, Execute_count, limitVars, taskVars, workerVars,
                      ageVars, termVars, ExecRec
  <2>3. WorkerShape'
    BY <1>0, <1>2 DEF WorkerShape, Execute_count, taskVars, workerVars, ExecRec
  <2>4. QED BY <2>2, <2>3
<1>3. CASE Execute_size(t)
  <2>0. Cardinality(pool) \in Nat
    BY PoolFinite DEF TypeOK
  <2>1. exec' \in [Tasks -> ExecRec]
    BY <1>0, <1>3, <2>0 DEF Execute_size, ExecRec, ExecPcs
  <2>2. TypeOK'
    BY <2>1, <1>3 DEF TypeOK, Execute_size, limitVars, taskVars, workerVars,
                      ageVars, termVars, ExecRec
  <2>3. WorkerShape'
    BY <1>0, <1>3 DEF WorkerShape, Execute_size, taskVars, workerVars, ExecRec
  <2>4. QED BY <2>2, <2>3
<1>4. CASE Execute_decide(t)
  <2>1. exec' \in [Tasks -> ExecRec]
    BY <1>0, <1>4 DEF Execute_decide, ExecRec, ExecPcs
  <2>2. TypeOK'
    BY <2>1, <1>4 DEF TypeOK, Execute_decide, limitVars, taskVars, workerVars,
                      ageVars, termVars, ExecRec
  <2>3. WorkerShape'
    BY <1>0, <1>4 DEF WorkerShape, Execute_decide, taskVars, workerVars,
                      ExecRec
  <2>4. QED BY <2>2, <2>3
<1>5. CASE Execute_insert(t)
  <2> DEFINE e == [exec EXCEPT ![t].pc = "create"]
  <2>1. e \in [Tasks -> ExecRec] /\ exec' = Torn(e)
    BY <1>0, <1>5 DEF Execute_insert, ExecRec, ExecPcs
  <2>2. /\ exec' \in [Tasks -> ExecRec]
        /\ \A u \in Tasks : exec'[u].pc = e[u].pc
    <3> HIDE DEF e
    <3> QED BY <2>1, TornType
  <2>3. TypeOK'
    BY <2>2, <1>5, <1>0 DEF TypeOK, Execute_insert, limitVars, taskVars,
                      workerVars, ageVars, termVars, ExecRec
  <2>4. WorkerShape'
    BY <1>0, <1>5, <2>2 DEF WorkerShape, Execute_insert, taskVars, workerVars,
                            ExecRec
  <2>5. QED BY <2>3, <2>4
<1>6. CASE Start_create(t)
  <2>1. exec' \in [Tasks -> ExecRec]
    BY <1>0, <1>6 DEF Start_create, ExecRec, ExecPcs
  <2>2. TypeOK'
    BY <2>1, <1>6, <1>0 DEF TypeOK, Start_create, limitVars, taskVars,
                      ageVars, termVars, ExecRec, ThreadPcs
  <2>3. held' = held /\ held[t] = {}
    BY <1>0, <1>6 DEF Start_create, WorkerShape, taskVars
  <2>4. WorkerShape'
    BY <1>0, <1>6, <2>3 DEF WorkerShape, Start_create, ExecRec, TypeOK
  <2>5. QED BY <2>2, <2>4
<1>7. CASE Start_run(t)
  <2>1. exec' \in [Tasks -> ExecRec]
    BY <1>0, <1>7 DEF Start_run, ExecRec, ExecPcs
  <2>2. TypeOK'
    BY <2>1, <1>7, <1>0 DEF TypeOK, Start_run, limitVars, taskVars,
                      ageVars, termVars, ExecRec
  <2>3. WorkerShape'
    BY <1>0, <1>7 DEF WorkerShape, Start_run, taskVars, ExecRec
  <2>4. QED BY <2>2, <2>3
<1>8. CASE Execute_push(t)
  <2>1. exec' \in [Tasks -> ExecRec]
    BY <1>0, <1>8 DEF Execute_push, ExecRec, ExecPcs
  <2>2. tasks' \in Seq(Tasks)
    BY <1>8 DEF Execute_push, TypeOK
  <2>3. TypeOK'
    BY <2>1, <2>2, <1>8 DEF TypeOK, Execute_push, limitVars, workerVars,
                      ageVars, termVars, ExecRec
  <2>4. WorkerShape'
    BY <1>0, <1>8 DEF WorkerShape, Execute_push, workerVars, ExecRec
  <2>5. QED BY <2>3, <2>4
<1>9. QED
  BY <1>1, <1>2, <1>3, <1>4, <1>5, <1>6, <1>7, <1>8 DEF Execute

\* A step of a worker's thread.
LEMMA RunInv ==
    ASSUME PoolInv, NEW w \in Workers, Run(w)
    PROVE  PoolInv'
<1> USE DEF PoolInv
<1>0. \A t \in Tasks : t \in Workers
  BY DEF Workers
<1>1. CASE GetOneTask(w)
  <2>1. Head(tasks) \in Tasks /\ Tail(tasks) \in Seq(Tasks)
    BY <1>1 DEF GetOneTask, TypeOK
  <2>2. TypeOK'
    BY <1>1, <2>1 DEF GetOneTask, TypeOK, limitVars, ageVars, termVars,
                      ThreadPcs
  <2>3. WorkerShape'
    BY <1>0, <1>1 DEF GetOneTask, WorkerShape, TypeOK
  <2>4. QED BY <2>2, <2>3
<1>2. CASE Worker_begin(w)
  <2>1. TypeOK'
    BY <1>2 DEF Worker_begin, TypeOK, limitVars, ageVars, termVars, ThreadPcs
  <2>2. WorkerShape'
    BY <1>0, <1>2 DEF Worker_begin, WorkerShape, TypeOK
  <2>3. QED BY <2>1, <2>2
<1>3. CASE Worker_ran(w)
  <2>1. TypeOK'
    BY <1>3 DEF Worker_ran, TypeOK, limitVars, ageVars, termVars, ThreadPcs
  <2>2. WorkerShape'
    BY <1>0, <1>3 DEF Worker_ran, WorkerShape, TypeOK
  <2>3. QED BY <2>1, <2>2
<1>4. CASE \/ Worker_boot(w) \/ Worker_check(w) \/ Worker_wait(w)
           \/ Worker_busy(w) \/ Worker_idle(w) \/ SetExitFlag(w)
  <2>0. PICK p \in ThreadPcs : thread' = [thread EXCEPT ![w] = p]
    BY <1>4 DEF Worker_boot, Worker_check, Worker_wait, Worker_busy,
                Worker_idle, SetExitFlag, ThreadPcs
  <2>a. /\ status' \in [Workers -> {"INIT", "STARTED", "STOPPING"}]
        /\ bRun' \subseteq Workers
        /\ busy' \subseteq Workers
    BY <1>4 DEF Worker_boot, Worker_check, Worker_wait, Worker_busy,
                Worker_idle, SetExitFlag, TypeOK
  <2>b. UNCHANGED <<limitVars, taskVars, pool, exec, freed, ageVars, termVars>>
    BY <1>4 DEF Worker_boot, Worker_check, Worker_wait, Worker_busy,
                Worker_idle, SetExitFlag
  <2>1. TypeOK'
    BY <2>0, <2>a, <2>b DEF TypeOK, limitVars, taskVars, ageVars, termVars
  <2>2. WorkerShape'
    BY <1>0, <1>4 DEF Worker_boot, Worker_check, Worker_wait, Worker_busy,
                Worker_idle, SetExitFlag, WorkerShape, TypeOK, taskVars
  <2>3. QED BY <2>1, <2>2
<1>5. QED BY <1>1, <1>2, <1>3, <1>4 DEF Run

\* Ageing and freeing the pool.
LEMMA ManageInv ==
    ASSUME PoolInv,
           \/ \E w \in Workers : Aged(w)
           \/ aged_worker_begin \/ AgeWork
           \/ \E quick \in BOOLEAN : free_evt_thrds(quick)
           \/ Terminate
    PROVE  PoolInv'
<1> USE DEF PoolInv
<1>0. exec \in [Tasks -> ExecRec]
  BY DEF TypeOK, ExecRec
<1>1. CASE \E w \in Workers : Aged(w) \/ TellExit(w)
  <2> PICK w \in Workers : Aged(w) \/ TellExit(w)
    BY <1>1
  <2>1. exec' = Torn(exec)
    BY DEF Aged, TellExit
  <2>2. /\ exec' \in [Tasks -> ExecRec]
        /\ \A u \in Tasks : exec'[u].pc = exec[u].pc
    BY <1>0, <2>1, TornType
  <2>3. TypeOK'
    BY <2>2 DEF Aged, TellExit, TypeOK, limitVars, taskVars, ageVars,
                termVars, ExecRec
  <2>4. WorkerShape'
    BY <2>2 DEF Aged, TellExit, WorkerShape, taskVars
  <2>5. QED BY <2>3, <2>4
<1>2. CASE aged_worker_begin \/ AgeWork
  <2>0. /\ agePc' \in {"idle", "walk", "join"}
        /\ ageTrash' \subseteq Workers
        /\ freed' \subseteq Workers
    BY <1>2 DEF aged_worker_begin, AgeWork, aged_worker_walked,
                aged_worker_join, aged_worker_end, TypeOK
  <2>a. UNCHANGED <<limitVars, taskVars, pool, exec, workerVars, termVars>>
    BY <1>2 DEF aged_worker_begin, AgeWork, aged_worker_walked,
                aged_worker_join, aged_worker_end
  <2>1. TypeOK'
    BY <2>0, <2>a DEF TypeOK, limitVars, taskVars, workerVars, termVars
  <2>2. WorkerShape'
    BY <1>2 DEF aged_worker_begin, AgeWork, aged_worker_walked,
                aged_worker_join, aged_worker_end, WorkerShape, taskVars,
                workerVars
  <2>3. QED BY <2>1, <2>2
<1>3. CASE \/ \E quick \in BOOLEAN : free_evt_thrds(quick)
           \/ Destroy \/ Terminate_drained \/ TellAllWorkerExit_told
           \/ \E w \in Workers : TellAllWorkerExit_join(w)
           \/ Terminate_end
  <2>0. /\ UNCHANGED <<taskVars, pool, exec, workerVars, ageVars>>
        /\ termTrash' \subseteq Workers
        /\ freed' \subseteq Workers
    BY <1>3 DEF free_evt_thrds, Destroy, Terminate_begin, Terminate_drained,
                TellAllWorkerExit_told, TellAllWorkerExit_join, Terminate_end,
                TypeOK
  <2>a. /\ enable' \in BOOLEAN
        /\ quickFree' \in BOOLEAN
        /\ minThreads' \in {0, Cardinality(Base)}
        /\ maxThreads' \in {0, MaxThreads}
    BY <1>3 DEF free_evt_thrds, Destroy, Terminate_begin, Terminate_drained,
                TellAllWorkerExit_told, TellAllWorkerExit_join, Terminate_end,
                TypeOK, limitVars
  <2>b. /\ termPc' \in {"no", "drain", "tell", "join", "done"}
        /\ termRound' \in 0 .. 2
    BY <1>3 DEF free_evt_thrds, Destroy, Terminate_begin, Terminate_drained,
                TellAllWorkerExit_told, TellAllWorkerExit_join, Terminate_end,
                TypeOK
  <2>1. TypeOK'
    BY <2>0, <2>a, <2>b DEF TypeOK, taskVars, workerVars, ageVars
  <2>2. WorkerShape'
    BY <1>3 DEF free_evt_thrds, Destroy, Terminate_begin, Terminate_drained,
                TellAllWorkerExit_told, TellAllWorkerExit_join, Terminate_end,
                WorkerShape, taskVars, workerVars
  <2>3. QED BY <2>1, <2>2
<1>4. QED BY <1>1, <1>2, <1>3 DEF Terminate

LEMMA StepInv ==
    ASSUME PoolInv, [Next]_vars
    PROVE  PoolInv'
<1>1. CASE UNCHANGED vars
  BY <1>1 DEF vars, PoolInv, TypeOK, WorkerShape
<1>2. CASE Next
  BY <1>2, ExecuteInv, RunInv, ManageInv DEF Next
<1>3. QED BY <1>1, <1>2

\* Every variable keeps its type, whatever rules the application obeys.
THEOREM PoolTypeCorrect == Spec => []TypeOK
<1>1. Init => PoolInv
  BY InitInv
<1>2. PoolInv /\ [Next]_vars => PoolInv'
  BY StepInv
<1>3. PoolInv => TypeOK
  BY DEF PoolInv
<1>4. QED BY <1>1, <1>2, <1>3, PTL DEF Spec
-----------------------------------------------------------------------------
(***************************************************************************)
(* No task is lost or run twice.                                           *)
(***************************************************************************)

LEMMA PlaceFrame ==
    ASSUME TaskInOnePlace, UNCHANGED <<tasks, held, ran, dropped>>,
           \A t \in Tasks : exec'[t].pc = "accepted" <=> exec[t].pc = "accepted"
    PROVE  TaskInOnePlace'
BY DEF TaskInOnePlace, Queued, Held, Accepted

\* Execute hands the task over with its last step only.
LEMMA ExecutePlace ==
    ASSUME PoolInv, TaskInOnePlace, NEW t \in Tasks,
           Execute(t) \/ \E c \in Callers : Execute_enter(c, t)
    PROVE  TaskInOnePlace'
<1>0. exec \in [Tasks -> ExecRec]
  BY DEF PoolInv, TypeOK, ExecRec
<1>1. CASE Execute_push(t)
  <2>1. /\ tasks \in Seq(Tasks)
        /\ tasks' = Append(tasks, t)
        /\ UNCHANGED <<held, ran, dropped>>
    BY <1>1 DEF Execute_push, PoolInv, TypeOK
  <2>2. t \notin Accepted /\ Accepted' = Accepted \cup {t}
    BY <1>0, <1>1 DEF Execute_push, Accepted, ExecRec
  <2>3. ~Queued(t) /\ ~Held(t) /\ t \notin ran \cup dropped
    BY <2>2 DEF TaskInOnePlace
  <2>4. \A u \in Tasks : Queued(u)' <=> Queued(u) \/ u = t
    <3>1. /\ DOMAIN tasks' = 1 .. Len(tasks) + 1
          /\ DOMAIN tasks = 1 .. Len(tasks)
          /\ Len(tasks) \in Nat
          /\ tasks'[Len(tasks) + 1] = t
          /\ \A i \in 1 .. Len(tasks) : tasks'[i] = tasks[i]
      BY <2>1
    <3>2. QED BY <3>1 DEF Queued
  <2>5. \A u \in Tasks : Held(u)' <=> Held(u)
    BY <2>1 DEF Held
  <2>6. \A i, k \in DOMAIN tasks' : tasks'[i] = tasks'[k] => i = k
    <3>1. \A i \in DOMAIN tasks : tasks[i] # t
      BY <2>3 DEF Queued
    <3>2. \A i, k \in DOMAIN tasks : tasks[i] = tasks[k] => i = k
      BY DEF TaskInOnePlace
    <3>3. QED BY <2>1, <3>1, <3>2
  <2>7. QED BY <2>1, <2>2, <2>3, <2>4, <2>5, <2>6 DEF TaskInOnePlace
<1>2. CASE Execute_insert(t)
  <2> DEFINE e == [exec EXCEPT ![t].pc = "create"]
  <2>1. e \in [Tasks -> ExecRec] /\ exec' = Torn(e)
    BY <1>0, <1>2 DEF Execute_insert, ExecRec, ExecPcs
  <2>2. \A u \in Tasks : exec'[u].pc = e[u].pc
    <3> HIDE DEF e
    <3> QED BY <2>1, TornType
  <2>3. \A u \in Tasks : exec'[u].pc = "accepted" <=> exec[u].pc = "accepted"
    BY <1>0, <1>2, <2>2 DEF Execute_insert, ExecRec
  <2>4. QED BY <1>2, <2>3, PlaceFrame DEF Execute_insert, taskVars
<1>3. CASE \/ Execute_count(t) \/ Execute_size(t) \/ Execute_decide(t)
           \/ Start_create(t) \/ Start_run(t)
           \/ \E c \in Callers : Execute_enter(c, t)
  <2>1. /\ exec[t].pc # "accepted" /\ exec'[t].pc # "accepted"
        /\ \A u \in Tasks \ {t} : exec'[u] = exec[u]
    BY <1>0, <1>3 DEF Execute_count, Execute_size, Execute_decide,
                      Start_create, Start_run, Execute_enter, ExecRec
  <2>2. UNCHANGED taskVars
    BY <1>3 DEF Execute_count, Execute_size, Execute_decide, Start_create,
                Start_run, Execute_enter
  <2>3. QED BY <2>1, <2>2, PlaceFrame DEF taskVars
<1>4. QED BY <1>1, <1>2, <1>3 DEF Execute

\* A worker takes the first task from the queue and deletes it once.
LEMMA RunPlace ==
    ASSUME PoolInv, TaskInOnePlace, NEW w \in Workers, Run(w)
    PROVE  TaskInOnePlace'
<1>0. exec' = exec /\ Accepted' = Accepted
  BY DEF Run, GetOneTask, Worker_boot, Worker_check, Worker_wait, Worker_busy,
         Worker_begin, Worker_ran, Worker_idle, SetExitFlag, Accepted
<1>1. CASE GetOneTask(w)
  <2> DEFINE h == Head(tasks)
  <2>1. /\ tasks \in Seq(Tasks) /\ tasks # <<>>
        /\ tasks' = Tail(tasks)
        /\ held' = [held EXCEPT ![w] = {h}]
        /\ held \in [Workers -> SUBSET Tasks]
        /\ held[w] = {}
        /\ UNCHANGED <<ran, dropped>>
    BY <1>1 DEF GetOneTask, PoolInv, TypeOK, WorkerShape
  <2>2. /\ Len(tasks) \in Nat /\ Len(tasks) > 0
        /\ DOMAIN tasks = 1 .. Len(tasks)
        /\ DOMAIN tasks' = 1 .. Len(tasks) - 1
        /\ h = tasks[1] /\ h \in Tasks
        /\ \A i \in 1 .. Len(tasks) - 1 : tasks'[i] = tasks[i + 1]
    BY <2>1
  <2>3. \A i, k \in DOMAIN tasks : tasks[i] = tasks[k] => i = k
    BY DEF TaskInOnePlace
  <2>4. \A u \in Tasks : Queued(u)' <=> Queued(u) /\ u # h
    <3>1. SUFFICES ASSUME NEW u \in Tasks PROVE Queued(u)' <=> Queued(u) /\ u # h
      OBVIOUS
    <3>2. ASSUME Queued(u)' PROVE Queued(u) /\ u # h
      <4>1. PICK i \in 1 .. Len(tasks) - 1 : tasks[i + 1] = u
        BY <2>2, <3>2 DEF Queued
      <4>2. i + 1 \in DOMAIN tasks /\ 1 \in DOMAIN tasks /\ i + 1 # 1
        BY <2>2
      <4>3. QED BY <2>2, <2>3, <4>1, <4>2 DEF Queued
    <3>3. ASSUME Queued(u), u # h PROVE Queued(u)'
      <4>1. PICK i \in 1 .. Len(tasks) : tasks[i] = u
        BY <2>2, <3>3 DEF Queued
      <4>2. i - 1 \in 1 .. Len(tasks) - 1 /\ (i - 1) + 1 = i
        BY <2>2, <3>3, <4>1
      <4>3. tasks'[i - 1] = u
        BY <2>2, <4>1, <4>2
      <4>4. QED BY <2>2, <4>2, <4>3 DEF Queued
    <3>4. QED BY <3>2, <3>3
  <2>5. Queued(h)
    BY <2>2 DEF Queued
  <2>6. \A u \in Tasks : Held(u)' <=> Held(u) \/ u = h
    <3> HIDE DEF h
    <3> QED BY <2>1 DEF Held
  <2>7. \A i, k \in DOMAIN tasks' : tasks'[i] = tasks'[k] => i = k
    <3>1. SUFFICES ASSUME NEW i \in 1 .. Len(tasks) - 1,
                          NEW k \in 1 .. Len(tasks) - 1,
                          tasks'[i] = tasks'[k]
                   PROVE  i = k
      BY <2>2
    <3>2. tasks[i + 1] = tasks[k + 1] /\ i + 1 \in DOMAIN tasks
            /\ k + 1 \in DOMAIN tasks
      BY <2>2, <3>1
    <3>3. i + 1 = k + 1
      BY <2>3, <3>2
    <3>4. QED BY <2>2, <3>3
  <2>8. ~Held(h) /\ h \notin ran \cup dropped
    BY <2>2, <2>5 DEF TaskInOnePlace
  <2>9. \A x, v \in Workers : x # v => held'[x] \cap held'[v] = {}
    <3>1. \A v \in Workers : h \notin held[v]
      BY <2>8 DEF Held
    <3>2. \A x, v \in Workers : x # v => held[x] \cap held[v] = {}
      BY DEF TaskInOnePlace
    <3> HIDE DEF h
    <3>3. QED BY <2>1, <3>1, <3>2
  <2>10. QED
    <3> HIDE DEF h
    <3> QED BY <1>0, <2>1, <2>2, <2>4, <2>5, <2>6, <2>7, <2>8, <2>9
            DEF TaskInOnePlace
<1>2. CASE Worker_begin(w) \/ Worker_ran(w)
  <2>1. CASE UNCHANGED taskVars
    BY <1>0, <2>1, PlaceFrame DEF taskVars
  <2>2. CASE /\ held' = [held EXCEPT ![w] = {}]
             /\ tasks' = tasks
             /\ \/ ran' = ran \cup held[w] /\ dropped' = dropped
                \/ dropped' = dropped \cup held[w] /\ ran' = ran
    <3>1. held \in [Workers -> SUBSET Tasks]
      BY DEF PoolInv, TypeOK
    <3>2. \A u \in Tasks : Queued(u)' <=> Queued(u)
      BY <2>2 DEF Queued
    <3>3. \A x, v \in Workers : x # v => held[x] \cap held[v] = {}
      BY DEF TaskInOnePlace
    <3>4. \A u \in Tasks : Held(u)' <=> Held(u) /\ u \notin held[w]
      BY <2>2, <3>1, <3>3 DEF Held
    <3>5. \A u \in held[w] : u \in Tasks /\ Held(u) /\ ~Queued(u)
                               /\ u \notin ran \cup dropped
      BY <3>1 DEF Held, TaskInOnePlace
    <3>6. \A x, v \in Workers : x # v => held'[x] \cap held'[v] = {}
      BY <2>2, <3>1, <3>3
    <3>7. ran' \cup dropped' = ran \cup dropped \cup held[w]
      BY <2>2
    <3>8. ran' \cap dropped' = {}
      BY <2>2, <3>5 DEF TaskInOnePlace
    <3>9. QED
      BY <1>0, <2>2, <3>2, <3>4, <3>5, <3>6, <3>7, <3>8 DEF TaskInOnePlace
  <2>3. QED BY <1>2, <2>1, <2>2 DEF Worker_begin, Worker_ran, taskVars
<1>3. CASE \/ Worker_boot(w) \/ Worker_check(w) \/ Worker_wait(w)
           \/ Worker_busy(w) \/ Worker_idle(w) \/ SetExitFlag(w)
  BY <1>0, <1>3, PlaceFrame
     DEF Worker_boot, Worker_check, Worker_wait, Worker_busy, Worker_idle,
         SetExitFlag, taskVars
<1>4. QED BY <1>1, <1>2, <1>3 DEF Run

\* Ageing and freeing touch no task.
LEMMA ManagePlace ==
    ASSUME PoolInv, TaskInOnePlace,
           \/ \E w \in Workers : Aged(w)
           \/ aged_worker_begin \/ AgeWork
           \/ \E quick \in BOOLEAN : free_evt_thrds(quick)
           \/ Terminate
    PROVE  TaskInOnePlace'
<1>0. exec \in [Tasks -> ExecRec]
  BY DEF PoolInv, TypeOK, ExecRec
<1>1. UNCHANGED taskVars
  BY DEF Aged, aged_worker_begin, AgeWork, aged_worker_walked,
         aged_worker_join, aged_worker_end, free_evt_thrds, Terminate,
         Terminate_begin, Terminate_drained, TellExit, TellAllWorkerExit_told,
         TellAllWorkerExit_join, Terminate_end, Destroy
<1>2. exec' = exec \/ exec' = Torn(exec)
  BY DEF Aged, aged_worker_begin, AgeWork, aged_worker_walked,
         aged_worker_join, aged_worker_end, free_evt_thrds, Terminate,
         Terminate_begin, Terminate_drained, TellExit, TellAllWorkerExit_told,
         TellAllWorkerExit_join, Terminate_end, Destroy
<1>3. \A u \in Tasks : exec'[u].pc = exec[u].pc
  BY <1>0, <1>2, TornType
<1>4. QED BY <1>1, <1>3, PlaceFrame DEF taskVars

\* Every task that Execute accepted is in the queue once, held by one worker,
\* or deleted once; no rule of use is needed (GetOneTask and push_back are
\* under m_csTasksLock).
THEOREM NoTaskLostOrDoubled == Spec => []TaskInOnePlace
<1>1. Init => PoolInv /\ TaskInOnePlace
  <2>1. Init => TaskInOnePlace
    BY DEF Init, TaskInOnePlace, Queued, Held, Accepted, NewCall
  <2>2. QED BY <2>1, InitInv
<1>2. PoolInv /\ TaskInOnePlace /\ [Next]_vars
        => (PoolInv /\ TaskInOnePlace)'
  <2> SUFFICES ASSUME PoolInv, TaskInOnePlace, [Next]_vars
               PROVE  TaskInOnePlace'
    BY StepInv
  <2>1. CASE UNCHANGED vars
    BY <2>1, PlaceFrame DEF vars
  <2>2. CASE Next
    BY <2>2, ExecutePlace, RunPlace, ManagePlace DEF Next
  <2>3. QED BY <2>1, <2>2
<1>3. QED BY <1>1, <1>2, PTL DEF Spec
-----------------------------------------------------------------------------
(***************************************************************************)
(* The workers: what the rules of use buy.                                 *)
(***************************************************************************)

\* quietAge and quietExit: nobody is inside Execute while the pool is aged or
\* freed, and it is not aged while it is freed.
Quiet ==
    /\ agePc # "idle" => InExecute = {}
    /\ Terminating => InExecute = {} /\ agePc = "idle"
    /\ agePc = "idle" => ageTrash = {}
    /\ ~Terminating => /\ termTrash = {} /\ minThreads = Cardinality(Base)
                       /\ ~quickFree

\* The workers that were told to exit.
Told == ageTrash \cup termTrash \cup freed

\* A worker is in the pool until it is told to exit; only then does its thread
\* leave Run, and m_bRun is true from the start of the thread to its end, but
\* for the moment in which Execute has created the thread and not set it yet.
WorkerLife ==
    /\ pool \cap Told = {}
    /\ \A w \in Workers :
         /\ status[w] = "STOPPING" <=> w \in Told
         /\ thread[w] \in {"none", "boot"} <=> status[w] = "INIT"
         /\ thread[w] \in {"exit", "gone"} => w \in Told
         /\ thread[w] # "none" => w \in pool \cup Told
         /\ thread[w] \notin {"none", "gone"} =>
              w \in bRun \/ (w \in Tasks /\ exec[w].pc = "setrun")
    /\ \A t \in Tasks : /\ exec[t].pc = "setrun" => t \notin Told
                        /\ exec[t].pc = "create" => t \in pool
    /\ \A w \in freed : thread[w] = "gone"

\* Terminate has returned.  From the end of its drain on there is no task, from
\* the end of its telling on no worker in the pool.
Ended == termPc = "done" \/ (termPc = "no" /\ termRound = 1)
Emptied ==
    /\ termPc \in {"tell", "join"} \/ Ended => tasks = <<>>
    /\ termPc = "join" \/ Ended => pool = {}
    /\ Ended => termTrash = {}

WorkerInv == PoolInv /\ TaskInOnePlace /\ Quiet /\ WorkerLife /\ Emptied

\* serialExecute too: the size that Execute has read is that of the pool until
\* it inserts its worker.
Sized ==
    /\ \A t, u \in InExecute : t = u
    /\ \A t \in Tasks :
         /\ exec[t].pc \in {"scan", "insert"} => exec[t].threads = Cardinality(pool)
         /\ exec[t].pc = "insert" => exec[t].threads < MaxThreads
    /\ Cardinality(pool \cup ageTrash \cup termTrash) <= MaxThreads
    /\ ~Terminating => Cardinality(pool) >= Cardinality(Base)

PoolRules == {"quietAge", "quietExit", "promptStart"}

(***************************************************************************)
(* The steps, as far as the workers are concerned.                         *)
(***************************************************************************)

\* The call of Execute for t moves on, and no other call does.
ExecTo(t, from, to) ==
    /\ exec[t].pc = from /\ exec'[t].pc = to
    /\ \A u \in Tasks : u # t =>
         exec'[u].pc = exec[u].pc /\ exec'[u].threads = exec[u].threads

\* No call of Execute moves.
ExecStays ==
    \A u \in Tasks : exec'[u].pc = exec[u].pc /\ exec'[u].threads = exec[u].threads

\* Execute reads and decides; nothing of the pool changes.
Decides(t) ==
    /\ UNCHANGED <<limitVars, taskVars, pool, workerVars, freed, ageVars, termVars>>
    /\ \/ ExecTo(t, "new", "count") \/ ExecTo(t, "new", "refused")
       \/ ExecTo(t, "count", "size")
       \/ ExecTo(t, "size", "scan") /\ exec'[t].threads = Cardinality(pool)
       \/ ExecTo(t, "scan", "push")
       \/ /\ ExecTo(t, "scan", "insert")
          /\ exec'[t].threads = exec[t].threads /\ exec[t].threads < maxThreads
    /\ exec[t].pc = "new" =>
         /\ "serialExecute" \in Rules => InExecute = {}
         /\ "quietAge" \in Rules => agePc = "idle"
         /\ "quietExit" \in Rules => ~Terminating

Inserts(t) ==
    /\ ExecTo(t, "insert", "create")
    /\ pool' = pool \cup {t}
    /\ UNCHANGED <<limitVars, taskVars, workerVars, freed, ageVars, termVars>>

Creates(t) == Start_create(t) /\ ExecTo(t, "create", "setrun")
SetsRun(t) == Start_run(t) /\ ExecTo(t, "setrun", "push")
Pushes(t) == Execute_push(t) /\ ExecTo(t, "push", "accepted")

LEMMA ExecuteKinds ==
    ASSUME PoolInv, NEW t \in Tasks,
           Execute(t) \/ \E c \in Callers : Execute_enter(c, t)
    PROVE  Decides(t) \/ Inserts(t) \/ Creates(t) \/ SetsRun(t) \/ Pushes(t)
<1>0. exec \in [Tasks -> ExecRec]
  BY DEF PoolInv, TypeOK, ExecRec
<1>1. CASE \E c \in Callers : Execute_enter(c, t)
  <2>1. PICK c \in Callers : Execute_enter(c, t)
    BY <1>1
  <2>2. PICK to \in {"count", "refused"} :
          exec' = [exec EXCEPT ![t].pc = to, ![t].by = {c}]
    BY <2>1 DEF Execute_enter
  <2>3. ExecTo(t, "new", to)
    <3>1. exec'[t].pc = to /\ \A u \in Tasks : u # t => exec'[u] = exec[u]
      BY <1>0, <2>2 DEF ExecRec
    <3>2. exec[t].pc = "new"
      BY <2>1 DEF Execute_enter
    <3>3. QED BY <3>1, <3>2 DEF ExecTo
  <2>4. QED BY <2>1, <2>3 DEF Execute_enter, Decides
<1>2. CASE Execute_count(t)
  <2>1. ExecTo(t, "count", "size")
    BY <1>0, <1>2 DEF Execute_count, ExecTo, ExecRec
  <2>2. QED BY <1>2, <2>1 DEF Execute_count, Decides
<1>3. CASE Execute_size(t)
  <2>1. ExecTo(t, "size", "scan") /\ exec'[t].threads = Cardinality(pool)
    BY <1>0, <1>3 DEF Execute_size, ExecTo, ExecRec
  <2>2. QED BY <1>3, <2>1 DEF Execute_size, Decides
<1>4. CASE Execute_decide(t)
  <2>1. PICK to \in {"insert", "push"} :
          /\ exec' = [exec EXCEPT ![t].pc = to]
          /\ to = "insert" => exec[t].threads < maxThreads
    BY <1>4 DEF Execute_decide, HasRoom
  <2>2. ExecTo(t, "scan", to) /\ exec'[t].threads = exec[t].threads
    BY <1>0, <1>4, <2>1 DEF Execute_decide, ExecTo, ExecRec
  <2>3. QED BY <1>4, <2>1, <2>2 DEF Execute_decide, Decides
<1>5. CASE Execute_insert(t)
  <2> DEFINE e == [exec EXCEPT ![t].pc = "create"]
  <2>1. /\ e \in [Tasks -> ExecRec] /\ exec' = Torn(e) /\ e[t].pc = "create"
        /\ \A u \in Tasks : u # t => e[u] = exec[u]
    BY <1>0, <1>5 DEF Execute_insert, ExecRec, ExecPcs
  <2>2. \A u \in Tasks : exec'[u].pc = e[u].pc /\ exec'[u].threads = e[u].threads
    <3> HIDE DEF e
    <3> QED BY <2>1, TornType
  <2> HIDE DEF e
  <2>3. ExecTo(t, "insert", "create")
    BY <1>5, <2>1, <2>2 DEF Execute_insert, ExecTo
  <2>4. QED BY <1>5, <2>3 DEF Execute_insert, Inserts
<1>6. CASE Start_create(t)
  <2>1. ExecTo(t, "create", "setrun")
    BY <1>0, <1>6 DEF Start_create, ExecTo, ExecRec
  <2>2. QED BY <1>6, <2>1 DEF Creates
<1>7. CASE Start_run(t)
  <2>1. ExecTo(t, "setrun", "push")
    BY <1>0, <1>7 DEF Start_run, ExecTo, ExecRec
  <2>2. QED BY <1>7, <2>1 DEF SetsRun
<1>8. CASE Execute_push(t)
  <2>1. ExecTo(t, "push", "accepted")
    BY <1>0, <1>8 DEF Execute_push, ExecTo, ExecRec
  <2>2. QED BY <1>8, <2>1 DEF Pushes
<1>9. QED BY <1>1, <1>2, <1>3, <1>4, <1>5, <1>6, <1>7, <1>8 DEF Execute

\* A worker's thread moves; the pool stays.
RunFrame ==
    UNCHANGED <<limitVars, pool, exec, freed, ageVars, termVars>>

Manages ==
    \/ \E w \in Workers : Aged(w)
    \/ aged_worker_begin \/ AgeWork
    \/ \E quick \in BOOLEAN : free_evt_thrds(quick)
    \/ Terminate

LEMMA ManageStays ==
    ASSUME PoolInv, Manages
    PROVE  ExecStays /\ UNCHANGED <<tasks, held, thread, bRun>>
<1>0. exec \in [Tasks -> ExecRec]
  BY DEF PoolInv, TypeOK, ExecRec
<1>1. exec' = exec \/ exec' = Torn(exec)
  BY DEF Manages, Aged, aged_worker_begin, AgeWork, aged_worker_walked,
         aged_worker_join, aged_worker_end, free_evt_thrds, Terminate,
         Terminate_begin, Terminate_drained, TellExit, TellAllWorkerExit_told,
         TellAllWorkerExit_join, Terminate_end, Destroy
<1>2. UNCHANGED <<tasks, held, thread, bRun>>
  BY DEF Manages, Aged, aged_worker_begin, AgeWork, aged_worker_walked,
         aged_worker_join, aged_worker_end, free_evt_thrds, Terminate,
         Terminate_begin, Terminate_drained, TellExit, TellAllWorkerExit_told,
         TellAllWorkerExit_join, Terminate_end, Destroy, taskVars, workerVars
<1>3. QED BY <1>0, <1>1, <1>2, TornType DEF ExecStays

LEMMA RunFrames ==
    ASSUME NEW w \in Workers, Run(w)
    PROVE  RunFrame
BY DEF Run, RunFrame, Worker_boot, Worker_check, GetOneTask, Worker_wait, Worker_busy,
   Worker_begin, Worker_ran, Worker_idle, SetExitFlag

LEMMA SameCalls ==
    ASSUME ExecStays
    PROVE  InExecute' = InExecute
BY DEF ExecStays, InExecute

\* Whoever is inside Execute keeps ageing and freeing away.
LEMMA CallIsQuiet ==
    ASSUME Quiet, "quietAge" \in Rules, "quietExit" \in Rules, NEW t \in Tasks,
           Decides(t) \/ Inserts(t) \/ Creates(t) \/ SetsRun(t) \/ Pushes(t)
    PROVE  /\ agePc = "idle" /\ ~Terminating
           /\ UNCHANGED <<limitVars, freed, ageVars, termVars, status, busy>>
<1>1. t \in InExecute \/ (agePc = "idle" /\ ~Terminating)
  BY DEF Decides, Inserts, Creates, SetsRun, Pushes, ExecTo, InExecute
<1>2. QED
  BY <1>1 DEF Quiet, Decides, Inserts, Creates, SetsRun, Pushes, Start_create, Start_run,
     Execute_push, workerVars

LEMMA QuietStep ==
    ASSUME PoolInv, Quiet, "quietAge" \in Rules, "quietExit" \in Rules, Next
    PROVE  Quiet'
<1> USE DEF limitVars, ageVars, termVars
<1>1. ASSUME NEW t \in Tasks, Execute(t) \/ \E c \in Callers : Execute_enter(c, t)
      PROVE  Quiet'
  <2>1. agePc = "idle" /\ ~Terminating /\ UNCHANGED <<limitVars, freed, ageVars, termVars>>
    BY <1>1, ExecuteKinds, CallIsQuiet
  <2>2. QED BY <2>1 DEF Quiet, Terminating
<1>2. ASSUME NEW w \in Workers, Run(w)
      PROVE  Quiet'
  BY <1>2, RunFrames DEF RunFrame, Quiet, Terminating, InExecute
<1>3. CASE Manages
  <2>1. InExecute' = InExecute
    BY <1>3, ManageStays, SameCalls
  <2>2. CASE aged_worker_begin
    BY <2>1, <2>2 DEF aged_worker_begin, Quiet, Terminating
  <2>3. CASE \E w \in Workers : Aged(w)
    BY <2>1, <2>3 DEF Aged, Quiet, Terminating
  <2>4. CASE AgeWork
    BY <2>1, <2>4 DEF AgeWork, aged_worker_walked, aged_worker_join, aged_worker_end,
       Quiet, Terminating
  <2>5. CASE \E quick \in BOOLEAN : free_evt_thrds(quick)
    BY <2>1, <2>5 DEF free_evt_thrds, Terminate_begin, Quiet, Terminating
  <2>6. CASE Terminate
    <3>1. Terminating /\ Terminating' /\ UNCHANGED ageVars
      BY <2>6 DEF Terminate, Terminate_begin, Terminate_drained, TellExit,
         TellAllWorkerExit_told, TellAllWorkerExit_join, Terminate_end, Destroy,
         Terminating, PoolInv, TypeOK
    <3>2. QED BY <2>1, <3>1 DEF Quiet
  <2>7. QED BY <1>3, <2>2, <2>3, <2>4, <2>5, <2>6 DEF Manages
<1>4. QED BY <1>1, <1>2, <1>3 DEF Next, Manages

LEMMA EmptiedStep ==
    ASSUME PoolInv, Quiet, Emptied, "quietAge" \in Rules, "quietExit" \in Rules, Next
    PROVE  Emptied'
<1> USE DEF limitVars, ageVars, termVars, taskVars
<1>1. ASSUME NEW t \in Tasks, Execute(t) \/ \E c \in Callers : Execute_enter(c, t)
      PROVE  Emptied'
  <2>1. ~Terminating /\ UNCHANGED termVars
    BY <1>1, ExecuteKinds, CallIsQuiet
  <2>2. QED BY <2>1 DEF Emptied, Ended, Terminating
<1>2. ASSUME NEW w \in Workers, Run(w)
      PROVE  Emptied'
  <2>1. RunFrame /\ (tasks = <<>> => tasks' = <<>>)
    BY <1>2, RunFrames DEF Run, Worker_boot, Worker_check, GetOneTask, Worker_wait,
       Worker_busy, Worker_begin, Worker_ran, Worker_idle, SetExitFlag
  <2>2. QED BY <2>1 DEF RunFrame, Emptied, Ended
<1>3. CASE Manages
  <2>1. UNCHANGED tasks
    BY <1>3, ManageStays
  <2>2. CASE aged_worker_begin \/ AgeWork
    BY <2>1, <2>2 DEF aged_worker_begin, AgeWork, aged_worker_walked, aged_worker_join,
       aged_worker_end, Emptied, Ended
  <2>3. CASE \E w \in Workers : Aged(w)
    <3>1. termPc' = "no" /\ termRound' = 0
      BY <2>3 DEF Aged, Quiet, Terminating
    <3>2. QED BY <3>1 DEF Emptied, Ended
  <2>4. CASE \E quick \in BOOLEAN : free_evt_thrds(quick)
    BY <2>4 DEF free_evt_thrds, Terminate_begin, Emptied, Ended
  <2>5. CASE Terminate
    BY <2>1, <2>5 DEF Terminate, Terminate_begin, Terminate_drained, Drained, TellExit,
       TellAllWorkerExit_told, TellAllWorkerExit_join, Terminate_end, Destroy, Emptied,
       Ended
  <2>6. QED BY <1>3, <2>2, <2>3, <2>4, <2>5 DEF Manages
<1>4. QED BY <1>1, <1>2, <1>3 DEF Next, Manages

LEMMA CallLife ==
    ASSUME PoolInv, Quiet, WorkerLife, "quietAge" \in Rules, "quietExit" \in Rules,
           NEW t \in Tasks,
           Decides(t) \/ Inserts(t) \/ Creates(t) \/ SetsRun(t) \/ Pushes(t)
    PROVE  WorkerLife'
<1> USE DEF limitVars, ageVars, termVars, workerVars
<1>0. /\ UNCHANGED <<freed, ageTrash, termTrash, status>> /\ t \in Workers
      /\ thread \in [Workers -> ThreadPcs] /\ exec[t].pc # "accepted"
      /\ \A u \in Tasks : u # t => exec'[u].pc = exec[u].pc
      /\ Tasks \subseteq Workers
  BY CallIsQuiet DEF Workers, PoolInv, TypeOK, Decides, Inserts, Creates, SetsRun,
     Pushes, ExecTo
<1>1. Told' = Told
  BY <1>0 DEF Told
<1>2. t \in Told => exec[t].pc \notin {"insert", "create", "setrun"}
  BY <1>0 DEF WorkerLife, PoolInv, WorkerShape
<1>3. CASE Decides(t) \/ Pushes(t)
  <2>1. /\ UNCHANGED <<pool, thread, bRun>>
        /\ exec[t].pc \notin {"create", "setrun"} /\ exec'[t].pc \notin {"create", "setrun"}
    BY <1>3 DEF Decides, Pushes, Execute_push, ExecTo
  <2>2. QED BY <1>0, <1>1, <2>1 DEF WorkerLife
<1>4. CASE Inserts(t)
  <2>1. /\ UNCHANGED <<thread, bRun>> /\ pool' = pool \cup {t}
        /\ exec[t].pc = "insert" /\ exec'[t].pc = "create"
    BY <1>4 DEF Inserts, ExecTo
  <2>2. QED BY <1>0, <1>1, <1>2, <2>1 DEF WorkerLife
<1>5. CASE Creates(t)
  <2>1. /\ UNCHANGED <<pool, bRun>> /\ thread' = [thread EXCEPT ![t] = "boot"]
        /\ exec[t].pc = "create" /\ exec'[t].pc = "setrun"
    BY <1>5 DEF Creates, Start_create, ExecTo
  <2>2. /\ thread'[t] = "boot" /\ \A w \in Workers : w # t => thread'[w] = thread[w]
        /\ thread[t] = "none"
    BY <1>0, <2>1 DEF PoolInv, WorkerShape
  <2>3. t \in pool /\ t \notin Told /\ status[t] = "INIT"
    BY <1>0, <1>2, <2>1, <2>2 DEF WorkerLife
  <2>4. QED BY <1>0, <1>1, <2>1, <2>2, <2>3 DEF WorkerLife
<1>6. CASE SetsRun(t)
  <2>1. /\ UNCHANGED <<pool, thread>> /\ bRun' = bRun \cup {t}
        /\ exec[t].pc = "setrun" /\ exec'[t].pc = "push"
    BY <1>6 DEF SetsRun, Start_run, ExecTo
  <2>2. QED BY <1>0, <1>1, <2>1 DEF WorkerLife
<1>7. QED BY <1>3, <1>4, <1>5, <1>6

LEMMA RunLife ==
    ASSUME PoolInv, WorkerLife, NEW w \in Workers, Run(w)
    PROVE  WorkerLife'
<1> USE DEF limitVars, ageVars, termVars, workerVars
<1>0. /\ UNCHANGED <<pool, exec, freed, ageTrash, termTrash>>
      /\ thread \in [Workers -> ThreadPcs] /\ freed \subseteq Workers
      /\ status \in [Workers -> {"INIT", "STARTED", "STOPPING"}]
  BY RunFrames DEF RunFrame, PoolInv, TypeOK
<1>1. Told' = Told
  BY <1>0 DEF Told
<1>2. thread[w] \notin {"none", "gone"}
  BY DEF Run, Worker_boot, Worker_check, GetOneTask, Worker_wait, Worker_busy,
     Worker_begin, Worker_ran, Worker_idle, SetExitFlag
<1>3. w \notin freed
  BY <1>2 DEF WorkerLife
<1>4. CASE Worker_boot(w)
  <2>1. /\ UNCHANGED bRun /\ thread[w] = "boot"
        /\ thread'[w] = "check" /\ \A v \in Workers : v # w => thread'[v] = thread[v]
        /\ status'[w] = "STARTED" /\ \A v \in Workers : v # w => status'[v] = status[v]
    BY <1>0, <1>4 DEF Worker_boot
  <2>2. QED BY <1>0, <1>1, <1>3, <2>1 DEF WorkerLife
<1>5. CASE SetExitFlag(w)
  <2>1. /\ UNCHANGED status /\ bRun' = bRun \ {w} /\ thread[w] = "exit"
        /\ thread'[w] = "gone" /\ \A v \in Workers : v # w => thread'[v] = thread[v]
    BY <1>0, <1>5 DEF SetExitFlag
  <2>2. QED BY <1>0, <1>1, <1>3, <2>1 DEF WorkerLife
<1>6. CASE Worker_check(w)
  <2>1. /\ UNCHANGED <<status, bRun>> /\ thread[w] = "check"
        /\ thread'[w] = IF status[w] = "STARTED" THEN "fetch" ELSE "exit"
        /\ \A v \in Workers : v # w => thread'[v] = thread[v]
    BY <1>0, <1>6 DEF Worker_check
  <2>2. status[w] # "STARTED" => w \in Told
    BY <1>0, <2>1 DEF WorkerLife
  <2>3. QED BY <1>0, <1>1, <1>3, <2>1, <2>2 DEF WorkerLife
<1>7. CASE \/ GetOneTask(w) \/ Worker_wait(w) \/ Worker_busy(w) \/ Worker_begin(w)
           \/ Worker_ran(w) \/ Worker_idle(w)
  <2>1. /\ UNCHANGED <<status, bRun>> /\ thread[w] \notin {"none", "boot", "exit", "gone"}
        /\ thread'[w] \notin {"none", "boot", "exit", "gone"}
        /\ \A v \in Workers : v # w => thread'[v] = thread[v]
    <3>1. PICK to \in {"check", "got", "busy", "done", "run"} :
            thread' = [thread EXCEPT ![w] = to]
      BY <1>7 DEF GetOneTask, Worker_wait, Worker_busy, Worker_begin, Worker_ran,
         Worker_idle
    <3>2. UNCHANGED <<status, bRun>> /\ thread[w] \notin {"none", "boot", "exit", "gone"}
      BY <1>7 DEF GetOneTask, Worker_wait, Worker_busy, Worker_begin, Worker_ran,
         Worker_idle
    <3>3. QED BY <1>0, <3>1, <3>2
  <2>2. QED BY <1>0, <1>1, <1>3, <2>1 DEF WorkerLife
<1>8. QED BY <1>4, <1>5, <1>6, <1>7 DEF Run

\* A worker in the pool that has reached its loop is told to exit.
LEMMA ToldLife ==
    ASSUME PoolInv, WorkerLife, InExecute = {}, ExecStays, UNCHANGED <<thread, bRun, freed>>,
           NEW w \in pool, thread[w] \notin {"none", "boot"},
           status' = [status EXCEPT ![w] = "STOPPING"],
           pool' = pool \ {w}, Told' = Told \cup {w}
    PROVE  WorkerLife'
<1>1. /\ w \in Workers /\ pool \subseteq Workers /\ freed \subseteq Workers
      /\ status'[w] = "STOPPING" /\ \A v \in Workers : v # w => status'[v] = status[v]
      /\ Tasks \subseteq Workers
  BY DEF PoolInv, TypeOK, Workers
<1>2. \A t \in Tasks : exec'[t].pc = exec[t].pc /\ exec[t].pc \notin {"create", "setrun"}
  BY DEF InExecute, ExecStays
<1>3. QED BY <1>1, <1>2 DEF WorkerLife

\* A worker that was told to exit is deleted once m_bRun is false.
LEMMA JoinLife ==
    ASSUME PoolInv, WorkerLife, InExecute = {}, ExecStays,
           UNCHANGED <<thread, bRun, status, pool>>,
           NEW w \in Told, w \notin bRun, freed' = freed \cup {w}, Told' = Told
    PROVE  WorkerLife'
<1>1. w \in Workers
  BY DEF PoolInv, TypeOK, Told
<1>2. \A t \in Tasks : exec'[t].pc = exec[t].pc /\ exec[t].pc \notin {"create", "setrun"}
  BY DEF InExecute, ExecStays
<1>3. thread[w] = "gone"
  BY <1>1, <1>2 DEF WorkerLife
<1>4. QED BY <1>2, <1>3 DEF WorkerLife

LEMMA ManageLife ==
    ASSUME PoolInv, Quiet, WorkerLife, PoolRules \subseteq Rules, Manages
    PROVE  WorkerLife'
<1> USE DEF limitVars, ageVars, termVars, workerVars
<1>0. ExecStays /\ UNCHANGED <<thread, bRun>> /\ "promptStart" \in Rules
  BY ManageStays DEF PoolRules
<1>1. CASE UNCHANGED <<status, pool, freed, ageTrash, termTrash>>
  <2>1. Told' = Told
    BY <1>1 DEF Told
  <2>2. QED BY <1>0, <1>1, <2>1 DEF WorkerLife, ExecStays
<1>2. ASSUME NEW w \in Workers, Aged(w)
      PROVE  WorkerLife'
  <2>1. /\ InExecute = {} /\ w \in pool /\ thread[w] \notin {"none", "boot"}
        /\ status' = [status EXCEPT ![w] = "STOPPING"] /\ pool' = pool \ {w}
        /\ UNCHANGED freed
    BY <1>0, <1>2 DEF Aged, Quiet, Tellable
  <2>2. Told' = Told \cup {w}
    BY <1>2 DEF Aged, Told
  <2>3. QED BY <1>0, <2>1, <2>2, ToldLife
<1>3. ASSUME NEW w \in Workers, TellExit(w)
      PROVE  WorkerLife'
  <2>1. /\ InExecute = {} /\ w \in pool /\ thread[w] \notin {"none", "boot"}
        /\ status' = [status EXCEPT ![w] = "STOPPING"] /\ pool' = pool \ {w}
        /\ UNCHANGED freed
    BY <1>0, <1>3 DEF TellExit, Quiet, Terminating, Tellable
  <2>2. Told' = Told \cup {w}
    BY <1>3 DEF TellExit, Told
  <2>3. QED BY <1>0, <2>1, <2>2, ToldLife
<1>4. ASSUME NEW w \in Workers, aged_worker_join(w)
      PROVE  WorkerLife'
  <2>1. /\ InExecute = {} /\ w \in Told /\ w \notin bRun /\ freed' = freed \cup {w}
        /\ UNCHANGED <<status, pool>>
    BY <1>4 DEF aged_worker_join, Quiet, Told, Join
  <2>2. Told' = Told
    BY <1>4 DEF aged_worker_join, Told
  <2>3. QED BY <1>0, <2>1, <2>2, JoinLife
<1>5. ASSUME NEW w \in Workers, TellAllWorkerExit_join(w)
      PROVE  WorkerLife'
  <2>1. /\ InExecute = {} /\ w \in Told /\ w \notin bRun /\ freed' = freed \cup {w}
        /\ UNCHANGED <<status, pool>>
    BY <1>5 DEF TellAllWorkerExit_join, Quiet, Terminating, Told, Join
  <2>2. Told' = Told
    BY <1>5 DEF TellAllWorkerExit_join, Told
  <2>3. QED BY <1>0, <2>1, <2>2, JoinLife
<1>6. CASE \/ aged_worker_begin \/ aged_worker_walked \/ aged_worker_end
           \/ \E quick \in BOOLEAN : free_evt_thrds(quick)
           \/ Terminate_drained \/ TellAllWorkerExit_told \/ Terminate_end \/ Destroy
  BY <1>1, <1>6 DEF aged_worker_begin, aged_worker_walked, aged_worker_end,
     free_evt_thrds, Terminate_begin, Terminate_drained, TellAllWorkerExit_told,
     Terminate_end, Destroy
<1>7. QED BY <1>2, <1>3, <1>4, <1>5, <1>6 DEF Manages, AgeWork, Terminate

LEMMA WorkerInvInit == Init => WorkerInv
<1> SUFFICES ASSUME Init PROVE WorkerInv
  OBVIOUS
<1>1. TaskInOnePlace
  BY DEF Init, TaskInOnePlace, Queued, Held, Accepted, NewCall
<1>2. InExecute = {} /\ Told = {} /\ \A t \in Tasks : exec[t].pc = "new"
  BY DEF Init, InExecute, Told, NewCall
<1>3. Quiet
  BY <1>2 DEF Init, Quiet, Terminating
<1>4. WorkerLife
  BY <1>2 DEF Init, WorkerLife
<1>5. Emptied
  BY DEF Init, Emptied, Ended
<1>6. QED BY <1>1, <1>3, <1>4, <1>5, InitInv DEF WorkerInv

LEMMA PlaceStep ==
    ASSUME PoolInv, TaskInOnePlace, [Next]_vars
    PROVE  TaskInOnePlace'
<1>1. CASE UNCHANGED vars
  BY <1>1, PlaceFrame DEF vars
<1>2. CASE Next
  BY <1>2, ExecutePlace, RunPlace, ManagePlace DEF Next
<1>3. QED BY <1>1, <1>2

LEMMA WorkerInvStep ==
    ASSUME PoolRules \subseteq Rules, WorkerInv, [Next]_vars
    PROVE  WorkerInv'
<1>0. "quietAge" \in Rules /\ "quietExit" \in Rules
  BY DEF PoolRules
<1>1. PoolInv' /\ TaskInOnePlace'
  BY StepInv, PlaceStep DEF WorkerInv
<1>2. CASE UNCHANGED vars
  <2>1. Quiet' /\ Emptied'
    BY <1>2 DEF WorkerInv, vars, Quiet, Emptied, Ended, InExecute, Terminating
  <2>2. WorkerLife'
    BY <1>2 DEF WorkerInv, vars, WorkerLife, Told
  <2>3. QED BY <1>1, <2>1, <2>2 DEF WorkerInv
<1>3. CASE Next
  <2>1. WorkerLife'
    BY <1>0, <1>3, ExecuteKinds, CallLife, RunLife, ManageLife DEF WorkerInv, Next, Manages
  <2>2. Quiet' /\ Emptied'
    BY <1>0, <1>3, QuietStep, EmptiedStep DEF WorkerInv
  <2>3. QED BY <1>1, <2>1, <2>2 DEF WorkerInv
<1>4. QED BY <1>2, <1>3

\* A worker object is deleted only after its thread has touched it for the last
\* time, and not while Execute is about to start it: Join waits for m_bRun, which
\* Execute sets after it has created the thread, so ageing and freeing must keep
\* off a running Execute and a thread that has not reached its loop.
THEOREM WorkersFreedAfterExit ==
    ASSUME PoolRules \subseteq Rules
    PROVE  Spec => []NoDanglingWorker
<1>1. WorkerInv => NoDanglingWorker
  <2> SUFFICES ASSUME WorkerInv, NEW w \in freed
               PROVE  /\ thread[w] = "gone" /\ w \notin pool
                      /\ w \in Tasks => exec[w].pc \notin {"create", "setrun"}
    BY DEF NoDanglingWorker
  <2>1. w \in Told /\ thread[w] = "gone" /\ w \notin pool
    BY DEF WorkerInv, WorkerLife, Told
  <2>2. QED BY <2>1 DEF WorkerInv, WorkerLife
<1>2. WorkerInv /\ [Next]_vars => WorkerInv'
  BY WorkerInvStep
<1>3. QED BY <1>1, <1>2, WorkerInvInit, PTL DEF Spec

\* Once Terminate has returned there is no task and no thread.
LEMMA EndedFacts ==
    ASSUME WorkerInv, Ended
    PROVE  /\ tasks = <<>> /\ \A w \in Workers : thread[w] = "none" \/ w \in freed
           /\ \A t \in Tasks : ~Queued(t) /\ ~Held(t)
<1>1. tasks = <<>> /\ pool = {} /\ termTrash = {} /\ ageTrash = {}
  BY DEF WorkerInv, Emptied, Ended, Quiet, Terminating
<1>2. \A w \in Workers : thread[w] # "none" => w \in freed
  BY <1>1 DEF WorkerInv, WorkerLife, Told
<1>3. \A w \in Workers : thread[w] \in {"none", "gone"}
  BY <1>2 DEF WorkerInv, WorkerLife
<1>4. \A t \in Tasks : ~Held(t) /\ ~Queued(t)
  BY <1>1, <1>3 DEF Held, Queued, WorkerInv, PoolInv, WorkerShape
<1>5. QED BY <1>1, <1>2, <1>4

\* When free_evt_thrds returns nothing is left behind: no accepted task is still
\* queued or held, and every worker that ever had a thread is deleted.
THEOREM FreeLeavesNothing ==
    ASSUME PoolRules \subseteq Rules
    PROVE  Spec => []FreedClean
<1>1. WorkerInv => FreedClean
  <2> SUFFICES ASSUME WorkerInv, termPc = "done"
               PROVE  /\ Accepted \subseteq ran \cup dropped
                      /\ {w \in Workers : thread[w] # "none"} \subseteq freed
    BY DEF FreedClean
  <2>1. tasks = <<>> /\ \A w \in Workers : thread[w] = "none" \/ w \in freed
    BY EndedFacts DEF Ended
  <2>2. \A t \in Tasks : ~Queued(t) /\ ~Held(t)
    BY EndedFacts DEF Ended
  <2>3. QED BY <2>1, <2>2 DEF WorkerInv, TaskInOnePlace, Accepted
<1>2. WorkerInv /\ [Next]_vars => WorkerInv'
  BY WorkerInvStep
<1>3. QED BY <1>1, <1>2, WorkerInvInit, PTL DEF Spec

\* What becomes of a task that is queued when m_bQuickFree is set: no worker
\* begins it, and it is deleted before the destructor clears the flag.
Doomed(t) ==
    /\ t \in Accepted /\ t \notin ran
    /\ \A w \in Workers : t \in held[w] => thread[w] # "run"
    /\ quickFree \/ t \in dropped

LEMMA DoomedStep ==
    ASSUME PoolRules \subseteq Rules, WorkerInv, NEW t \in Tasks, Doomed(t), [Next]_vars
    PROVE  Doomed(t)'
<1>0. "quietAge" \in Rules /\ "quietExit" \in Rules
  BY DEF PoolRules
<1>1. ASSUME NEW u \in Tasks, Execute(u) \/ \E c \in Callers : Execute_enter(c, u)
      PROVE  Doomed(t)'
  <2>1. Decides(u) \/ Inserts(u) \/ Creates(u) \/ SetsRun(u) \/ Pushes(u)
    BY <1>1, ExecuteKinds DEF WorkerInv
  <2>2. UNCHANGED <<quickFree, ran, dropped, held>>
    BY <2>1 DEF Decides, Inserts, Creates, Start_create, SetsRun, Start_run, Pushes,
       Execute_push, limitVars, taskVars
  <2>3. exec[t].pc = "accepted" /\ exec'[t].pc = "accepted"
    BY <2>1 DEF Doomed, Accepted, Decides, Inserts, Creates, SetsRun, Pushes, ExecTo
  <2>4. \A w \in Workers : thread'[w] = "run" => thread[w] = "run"
    BY <2>1 DEF Decides, Inserts, Creates, Start_create, SetsRun, Start_run, Pushes,
       Execute_push, workerVars, WorkerInv, PoolInv, TypeOK
  <2>5. QED BY <2>2, <2>3, <2>4 DEF Doomed, Accepted
<1>2. ASSUME NEW w \in Workers, Run(w)
      PROVE  Doomed(t)'
  <2>1. UNCHANGED <<exec, quickFree>>
    BY <1>2, RunFrames DEF RunFrame, limitVars
  <2>2. thread \in [Workers -> ThreadPcs] /\ held \in [Workers -> SUBSET Tasks]
    BY DEF WorkerInv, PoolInv, TypeOK
  <2>3. t \notin ran' /\ dropped \subseteq dropped'
    BY <1>2 DEF Doomed, Run, Worker_boot, Worker_check, GetOneTask, Worker_wait,
       Worker_busy, Worker_begin, Worker_ran, Worker_idle, SetExitFlag, taskVars
  <2>4. t \in dropped => \A v \in Workers : t \notin held[v]
    BY DEF WorkerInv, TaskInOnePlace, Held
  <2>5. \A v \in Workers : t \in held'[v] => thread'[v] # "run"
    <3>1. CASE Worker_begin(w)
      <4>1. ~quickFree => t \notin held[w]
        BY <2>4 DEF Doomed
      <4>2. QED BY <2>2, <3>1, <4>1 DEF Doomed, Worker_begin
    <3>2. CASE GetOneTask(w)
      BY <2>2, <3>2 DEF Doomed, GetOneTask
    <3>3. CASE Worker_ran(w)
      BY <2>2, <3>3 DEF Doomed, Worker_ran
    <3>4. CASE \/ Worker_boot(w) \/ Worker_check(w) \/ Worker_wait(w)
               \/ Worker_busy(w) \/ Worker_idle(w) \/ SetExitFlag(w)
      BY <2>2, <3>4 DEF Doomed, Worker_boot, Worker_check, Worker_wait, Worker_busy,
         Worker_idle, SetExitFlag, taskVars
    <3>5. QED BY <1>2, <3>1, <3>2, <3>3, <3>4 DEF Run
  <2>6. QED BY <2>1, <2>3, <2>5 DEF Doomed, Accepted
<1>3. CASE Manages
  <2>1. /\ ExecStays /\ UNCHANGED <<held, thread>>
    BY <1>3, ManageStays DEF WorkerInv
  <2>2. UNCHANGED <<ran, dropped>>
    BY <1>3 DEF Manages, Aged, aged_worker_begin, AgeWork, aged_worker_walked,
       aged_worker_join, aged_worker_end, free_evt_thrds, Terminate, Terminate_begin,
       Terminate_drained, TellExit, TellAllWorkerExit_told, TellAllWorkerExit_join,
       Terminate_end, Destroy, taskVars
  <2>3. quickFree' \/ t \in dropped
    <3>1. CASE UNCHANGED quickFree
      BY <3>1 DEF Doomed
    <3>2. CASE \E quick \in BOOLEAN : free_evt_thrds(quick)
      BY <3>2 DEF free_evt_thrds, Terminate_begin, WorkerInv, Quiet, Terminating, Doomed
    <3>3. CASE Destroy
      <4>1. Ended
        BY <3>3 DEF Destroy, Terminate_begin, Ended
      <4>2. ~Queued(t) /\ ~Held(t)
        BY <4>1, EndedFacts
      <4>3. QED BY <4>2 DEF Doomed, WorkerInv, TaskInOnePlace
    <3>4. QED
      BY <1>3, <3>1, <3>2, <3>3 DEF Manages, Aged, aged_worker_begin, AgeWork,
         aged_worker_walked, aged_worker_join, aged_worker_end, Terminate,
         Terminate_drained, TellExit, TellAllWorkerExit_told, TellAllWorkerExit_join,
         Terminate_end, limitVars
  <2>4. QED BY <2>1, <2>2, <2>3 DEF Doomed, Accepted, ExecStays
<1>4. CASE UNCHANGED vars
  BY <1>4 DEF vars, Doomed, Accepted
<1>5. QED BY <1>1, <1>2, <1>3, <1>4 DEF Next, Manages

\* On quick exit no task that is still queued is ever run, although the second
\* Terminate, of the destructor, sets m_bQuickFree back to false.
THEOREM QuickExitRunsNoMore ==
    ASSUME PoolRules \subseteq Rules
    PROVE  Spec => QuickFreeStops
<1>1. WorkerInv /\ [Next]_vars => WorkerInv'
  BY WorkerInvStep
<1>2. ASSUME NEW t \in Tasks
      PROVE  Spec => [](quickFree /\ Queued(t) => [](t \notin ran))
  <2>1. WorkerInv /\ quickFree /\ Queued(t) => Doomed(t)
    <3> SUFFICES ASSUME WorkerInv, quickFree, Queued(t) PROVE Doomed(t)
      OBVIOUS
    <3>1. t \in Accepted /\ ~Held(t) /\ t \notin ran
      BY DEF WorkerInv, TaskInOnePlace
    <3>2. QED BY <3>1 DEF Held, Doomed
  <2>2. WorkerInv /\ Doomed(t) /\ [Next]_vars => Doomed(t)'
    BY DoomedStep
  <2>3. Doomed(t) => t \notin ran
    BY DEF Doomed
  <2>4. QED BY <1>1, <2>1, <2>2, <2>3, WorkerInvInit, PTL DEF Spec
<1>3. QED BY <1>2 DEF QuickFreeStops
-----------------------------------------------------------------------------
(***************************************************************************)
(* The number of threads.                                                  *)
(***************************************************************************)
LEMMA CountFacts ==
    ASSUME PoolInv
    PROVE  /\ IsFiniteSet(pool) /\ Cardinality(pool) \in Nat
           /\ IsFiniteSet(pool \cup ageTrash \cup termTrash)
           /\ Cardinality(pool \cup ageTrash \cup termTrash) \in Nat
           /\ Cardinality(Base) \in Nat /\ MaxThreads \in Nat
           /\ \A t \in Tasks : exec[t].threads \in Nat
           /\ maxThreads \in {0, MaxThreads}
<1>1. /\ pool \in SUBSET Workers /\ pool \cup ageTrash \cup termTrash \in SUBSET Workers
      /\ Base \in SUBSET Workers
  BY DEF PoolInv, TypeOK, Workers
<1>2. QED BY <1>1, PoolFinite, MaxThreadsAssumption DEF PoolInv, TypeOK

\* Workers leave, and those that stay are as many as before or fewer.
LEMMA FewerThreads ==
    ASSUME PoolInv, NEW S, S \subseteq pool \cup ageTrash \cup termTrash
    PROVE  Cardinality(S) <= Cardinality(pool \cup ageTrash \cup termTrash)
BY CountFacts, FS_Subset

LEMMA CallSized ==
    ASSUME WorkerInv, Sized, "serialExecute" \in Rules, "quietAge" \in Rules,
           "quietExit" \in Rules, NEW t \in Tasks,
           Decides(t) \/ Inserts(t) \/ Creates(t) \/ SetsRun(t) \/ Pushes(t)
    PROVE  Sized'
<1> USE DEF limitVars, ageVars, termVars, workerVars
<1>0. /\ ageTrash = {} /\ termTrash = {} /\ UNCHANGED <<ageTrash, termTrash>>
      /\ ~Terminating
  BY CallIsQuiet DEF WorkerInv, Quiet
<1>1. /\ \A u \in Tasks : u # t =>
           exec'[u].pc = exec[u].pc /\ exec'[u].threads = exec[u].threads
      /\ \A u \in InExecute : u = t
  <2>1. t \in InExecute \/ InExecute = {}
    BY DEF Decides, Inserts, Creates, SetsRun, Pushes, ExecTo, InExecute
  <2>2. QED BY <2>1 DEF Decides, Inserts, Creates, SetsRun, Pushes, ExecTo, Sized
<1>2. \A u \in InExecute' : u = t
  BY <1>1 DEF InExecute
<1>3. /\ Cardinality(pool) \in Nat /\ IsFiniteSet(pool) /\ exec[t].threads \in Nat
      /\ MaxThreads \in Nat /\ Cardinality(Base) \in Nat /\ maxThreads \in {0, MaxThreads}
  BY CountFacts DEF WorkerInv
<1>4. \A u \in Tasks : u # t => exec'[u].pc \notin {"scan", "insert"}
  BY <1>1 DEF InExecute
<1>5. CASE UNCHANGED pool
  <2>1. CASE Decides(t)
    <3>1. exec'[t].pc \in {"scan", "insert"} => exec'[t].threads = Cardinality(pool)
      BY <2>1 DEF Decides, ExecTo, Sized
    <3>2. exec'[t].pc = "insert" => exec'[t].threads < MaxThreads
      BY <1>3, <2>1 DEF Decides, ExecTo
    <3>3. QED BY <1>0, <1>2, <1>4, <1>5, <2>1, <3>1, <3>2
              DEF Sized, Decides, Terminating
  <2>2. CASE Inserts(t) \/ Creates(t) \/ SetsRun(t) \/ Pushes(t)
    <3>1. exec'[t].pc \notin {"scan", "insert"}
      BY <2>2 DEF Inserts, Creates, SetsRun, Pushes, ExecTo
    <3>2. QED BY <1>0, <1>2, <1>4, <1>5, <3>1 DEF Sized, Terminating
  <2>3. QED BY <2>1, <2>2
<1>6. CASE Inserts(t)
  <2>1. /\ exec[t].pc = "insert" /\ exec'[t].pc = "create" /\ pool' = pool \cup {t}
    BY <1>6 DEF Inserts, ExecTo
  <2>2. Cardinality(pool) < MaxThreads
    BY <2>1 DEF Sized
  <2>3. /\ Cardinality(pool') <= Cardinality(pool) + 1
        /\ Cardinality(pool') >= Cardinality(pool) /\ Cardinality(pool') \in Nat
    <3>1. Cardinality(pool \cup {t}) \in {Cardinality(pool), Cardinality(pool) + 1}
      BY <1>3, FS_AddElement
    <3>2. PICK n \in Nat : n = Cardinality(pool)
      BY <1>3
    <3>3. QED BY <2>1, <3>1, <3>2
  <2>4. pool' \cup ageTrash' \cup termTrash' = pool'
    BY <1>0
  <2>5. Cardinality(pool') <= MaxThreads
    BY <1>3, <2>2, <2>3
  <2>6. Cardinality(pool') >= Cardinality(Base)
    BY <1>0, <1>3, <2>3 DEF Sized
  <2>7. QED BY <1>2, <1>4, <2>1, <2>4, <2>5, <2>6 DEF Sized
<1>7. QED
  BY <1>5, <1>6 DEF Decides, Creates, Start_create, SetsRun, Start_run, Pushes, Execute_push

LEMMA RunSized ==
    ASSUME Sized, NEW w \in Workers, Run(w)
    PROVE  Sized'
BY RunFrames DEF RunFrame, Sized, InExecute, Terminating, limitVars, ageVars, termVars

LEMMA ManageSized ==
    ASSUME WorkerInv, Sized, PoolRules \subseteq Rules, Manages
    PROVE  Sized'
<1> USE DEF limitVars, ageVars, termVars, workerVars
<1>0. /\ InExecute' = InExecute /\ ExecStays
  BY ManageStays, SameCalls DEF WorkerInv
<1>1. CASE UNCHANGED <<pool, ageTrash, termTrash>> /\ (Terminating => Terminating')
  BY <1>0, <1>1 DEF Sized, ExecStays
<1>2. CASE InExecute = {}
  <2>1. \A t \in Tasks : exec'[t].pc \notin {"scan", "insert"}
    BY <1>0, <1>2 DEF ExecStays, InExecute
  <2>2. ASSUME NEW S, S = pool' \cup ageTrash' \cup termTrash',
               S \subseteq pool \cup ageTrash \cup termTrash
        PROVE  Cardinality(S) <= MaxThreads
    <3>1. IsFiniteSet(S) /\ Cardinality(S) \in Nat
      BY <2>2, CountFacts, FS_Subset, FS_CardinalityType DEF WorkerInv
    <3>2. QED BY <2>2, <3>1, FewerThreads, CountFacts DEF Sized, WorkerInv
  <2>3. ASSUME NEW w \in Workers, Aged(w)
        PROVE  Sized'
    <3>1. w \in pool /\ pool' = pool \ {w} /\ UNCHANGED <<termTrash, termPc, termRound>>
          /\ ageTrash' = ageTrash \cup {w} /\ Cardinality(pool) > minThreads
      BY <2>3 DEF Aged, AboveMin
    <3>2. minThreads = Cardinality(Base)
      BY <2>3 DEF Aged, WorkerInv, Quiet
    <3>3. Cardinality(pool') >= Cardinality(Base)
      <4>1. Cardinality(pool') = Cardinality(pool) - 1
        BY <3>1, CountFacts, FS_RemoveElement DEF WorkerInv
      <4>2. PICK n, b \in Nat : n = Cardinality(pool) /\ b = Cardinality(Base)
        BY CountFacts DEF WorkerInv
      <4>3. QED BY <3>1, <3>2, <4>1, <4>2
    <3>4. Cardinality(pool' \cup ageTrash' \cup termTrash') <= MaxThreads
      BY <2>2, <3>1
    <3>5. QED BY <1>0, <1>2, <2>1, <3>3, <3>4 DEF Sized
  <2>4. ASSUME NEW w \in Workers, aged_worker_join(w)
        PROVE  Sized'
    <3>1. Cardinality(pool' \cup ageTrash' \cup termTrash') <= MaxThreads
      BY <2>2, <2>4 DEF aged_worker_join
    <3>2. UNCHANGED <<pool, termPc, termRound>>
      BY <2>4 DEF aged_worker_join
    <3>3. QED BY <1>0, <1>2, <2>1, <3>1, <3>2 DEF Sized, Terminating
  <2>5. ASSUME NEW w \in Workers, TellExit(w) \/ TellAllWorkerExit_join(w)
        PROVE  Sized'
    <3>1. Cardinality(pool' \cup ageTrash' \cup termTrash') <= MaxThreads
      BY <2>2, <2>5 DEF TellExit, TellAllWorkerExit_join
    <3>2. Terminating'
      BY <2>5 DEF TellExit, TellAllWorkerExit_join, Terminating
    <3>3. QED BY <1>0, <1>2, <2>1, <3>1, <3>2 DEF Sized
  <2>6. CASE \/ aged_worker_begin \/ aged_worker_walked \/ aged_worker_end
             \/ \E quick \in BOOLEAN : free_evt_thrds(quick)
             \/ Terminate_drained \/ TellAllWorkerExit_told \/ Terminate_end \/ Destroy
    BY <1>1, <2>6 DEF aged_worker_begin, aged_worker_walked, aged_worker_end,
       free_evt_thrds, Terminate_begin, Terminate_drained, TellAllWorkerExit_told,
       Terminate_end, Destroy, Terminating, WorkerInv, PoolInv, TypeOK
  <2>7. QED BY <2>3, <2>4, <2>5, <2>6 DEF Manages, AgeWork, Terminate
<1>3. InExecute = {} \/ aged_worker_begin \/ \E quick \in BOOLEAN : free_evt_thrds(quick)
  BY DEF Manages, Aged, AgeWork, aged_worker_walked, aged_worker_join, aged_worker_end,
     Terminate, Terminate_drained, TellExit, TellAllWorkerExit_join,
     TellAllWorkerExit_told, Terminate_end, Destroy, Terminate_begin, WorkerInv, Quiet,
     Terminating
<1>4. CASE aged_worker_begin \/ \E quick \in BOOLEAN : free_evt_thrds(quick)
  BY <1>1, <1>4 DEF aged_worker_begin, free_evt_thrds, Terminate_begin, Terminating
<1>5. QED BY <1>2, <1>3, <1>4

LEMMA SizedInit == Init => Sized
<1> SUFFICES ASSUME Init PROVE Sized
  OBVIOUS
<1>1. InExecute = {} /\ \A t \in Tasks : exec[t].pc = "new"
  BY DEF Init, InExecute, NewCall
<1>2. pool = Base /\ pool \cup ageTrash \cup termTrash = Base /\ Cardinality(Base) \in Nat
  BY PoolFinite DEF Init, Workers
<1>3. QED BY <1>1, <1>2, MaxThreadsAssumption DEF Sized

\* There are never more than maxThreads threads, those on their way out included,
\* and ageing leaves minThreads of them: Execute decides on a size that it has
\* read before, so calls of Execute must not overlap, nor must they with ageing.
THEOREM PoolKeepsSize ==
    ASSUME PoolRules \subseteq Rules, "serialExecute" \in Rules
    PROVE  Spec => []PoolSize
<1>1. WorkerInv /\ Sized => PoolSize
  <2> SUFFICES ASSUME WorkerInv, Sized PROVE PoolSize
    OBVIOUS
  <2> DEFINE S == {w \in Workers : thread[w] \notin {"none", "gone"}}
  <2>1. S \subseteq pool \cup ageTrash \cup termTrash
    BY DEF WorkerInv, WorkerLife, Told
  <2>2. Cardinality(S) \in Nat
    <3>1. S \in SUBSET Workers
      OBVIOUS
    <3>2. QED BY <3>1, PoolFinite
  <2>3. Cardinality(S) <= MaxThreads
    <3> HIDE DEF S
    <3>1. Cardinality(S) <= Cardinality(pool \cup ageTrash \cup termTrash)
      BY <2>1, FewerThreads DEF WorkerInv
    <3>2. QED BY <2>2, <3>1, CountFacts DEF Sized, WorkerInv
  <2>4. QED BY <2>3 DEF PoolSize, Sized
<1>2. WorkerInv /\ Sized /\ [Next]_vars => (WorkerInv /\ Sized)'
  <2> SUFFICES ASSUME WorkerInv, Sized, [Next]_vars PROVE Sized'
    BY WorkerInvStep
  <2>1. CASE UNCHANGED vars
    BY <2>1 DEF vars, Sized, InExecute, Terminating
  <2>2. CASE Next
    <3>1. "quietAge" \in Rules /\ "quietExit" \in Rules
      BY DEF PoolRules
    <3>2. QED BY <2>2, <3>1, ExecuteKinds, CallSized, RunSized, ManageSized
              DEF Next, Manages, WorkerInv
  <2>3. QED BY <2>1, <2>2
<1>3. QED BY <1>1, <1>2, WorkerInvInit, SizedInit, PTL DEF Spec
=============================================================================
