-------------------------- MODULE LifecycleProofs --------------------------
(***************************************************************************)
(* Starting and stopping, for every number of workers, starts and event    *)
(* pools.  Each theorem names the habits that it needs.                    *)
(***************************************************************************)
EXTENDS Lifecycle, FiniteSetTheorems, TLAPS

(***************************************************************************)
(* The inductive invariants.                                               *)
(***************************************************************************)
LoopPcs == {"none", "queued", "ended"} \cup Begun
Active == {"queued"} \cup Begun
Mains == {"idle", "ready", "submit", "inline", "started", "waiting", "closing"}
Walks == [pc : {"idle", "next", "age"}, itr : Pools \cup {End}, cur : Pools \cup {End}]

LifeType ==
    /\ main \in Mains
    /\ cnt \in 0 .. MaxWorkers /\ gen \in 0 .. MaxStarts
    /\ submitted \in 0 .. MaxWorkers
    /\ loop \in [LoopIds -> LoopPcs]
    /\ curThrds \in Int
    /\ epfd \in [Indices -> Int]
    /\ pools \in [Pools -> {"none", "new", "listed", "freeing", "erased", "gone"}]
    /\ by \in [Pools -> LoopIds \cup {MainThread, Nobody}]
    /\ walk \in [LoopIds -> Walks]

\* m_cur_worker_thrds is the number of loops that have begun and not ended.
Running == {q \in LoopIds : loop[q] \in Begun}
Counted == IsFiniteSet(Running) /\ curThrds = Cardinality(Running)

\* What start has not submitted yet has not run.
Fresh ==
    \A q \in LoopIds :
        \/ q[1] > gen
        \/ main = "submit" /\ q[1] = gen /\ q[2] >= submitted
        => loop[q] = "none"

\* Where the main thread is says how much of start has been done.
MainShape ==
    /\ main = "submit" => submitted < cnt
    /\ main \in {"submit", "inline"} => gen > 0
    /\ main = "ready" => gen < MaxStarts

\* Only the loops of the last start are alive, and from wait_stop on none is to
\* begin: that is what the habit allBegun is for, for the count that wait_stop
\* polls does not contain the loops that are still queued.
LoopsOfLast ==
    \A q \in LoopIds :
        /\ loop[q] \in Active => q[1] = gen /\ (q[2] < cnt \/ q[2] = 0)
        /\ main = "waiting" => loop[q] # "queued"
        /\ main \in {"closing", "idle", "ready"} => loop[q] \in {"none", "ended"}

\* Every loop that start submits has the epoll instance made for it.
EpfdsMade ==
    \A i \in Indices : i < cnt \/ i = 0 =>
        /\ main = "ready" => epfd[i] = gen + 1
        /\ main \in {"submit", "inline", "started", "waiting"} => epfd[i] = gen

LoopInv == LifeType /\ Counted /\ Fresh /\ MainShape /\ LoopsOfLast /\ EpfdsMade

\* Who is in the middle of making or freeing a pool, and who walks the set.
PoolOwner ==
    \A p \in Pools :
        /\ pools[p] \in {"new", "freeing", "erased"} <=> by[p] # Nobody
        /\ by[p] = MainThread => main \in {"idle", "ready"}
        /\ by[p] \in LoopIds =>
             loop[by[p]] = "timers" /\ by[p][2] = 0 /\ walk[by[p]] = NoWalk

Walker ==
    \A q \in LoopIds :
        /\ walk[q].pc = "idle" <=> walk[q] = NoWalk
        /\ walk[q] # NoWalk => loop[q] = "timers" /\ q[2] = 0
        /\ {walk[q].itr, walk[q].cur} \ {End} \subseteq Listed

PoolInv == LoopInv /\ PoolOwner /\ Walker
-----------------------------------------------------------------------------
(***************************************************************************)
(* The loops of a start.                                                   *)
(***************************************************************************)
LEMMA LoopIdFacts ==
    /\ MaxWorkers \in Nat /\ MaxStarts \in Nat /\ 0 \in Indices
    /\ \A q \in LoopIds : /\ q = <<q[1], q[2]>>
                          /\ q[1] \in 1 .. MaxStarts /\ q[2] \in 0 .. MaxWorkers
    /\ \A g \in 1 .. MaxStarts, i \in 0 .. MaxWorkers : <<g, i>> \in LoopIds
    /\ MainThread \notin LoopIds /\ Nobody \notin LoopIds /\ MainThread # Nobody
BY WorkersAssumption, StartsAssumption DEF LoopIds, Indices, MainThread, Nobody

LEMMA LoopInvInit == LifeInit => LoopInv
<1> SUFFICES ASSUME LifeInit PROVE LoopInv
  OBVIOUS
<1>1. LifeType
  BY LoopIdFacts
     DEF LifeInit, LifeType, Mains, LoopPcs, NoEpfd, Walks, NoWalk, End, Indices
<1>2. Counted
  <2>1. Running = {}
    BY DEF LifeInit, Running, Begun
  <2>2. QED BY <2>1, FS_EmptySet DEF Counted, LifeInit
<1>3. Fresh /\ MainShape /\ LoopsOfLast /\ EpfdsMade
  BY DEF LifeInit, Fresh, MainShape, LoopsOfLast, EpfdsMade, Active, Begun
<1>4. QED BY <1>1, <1>2, <1>3 DEF LoopInv

\* Steps that leave the loops, the main thread and the epoll instances alone.
LEMMA OthersLoopInv ==
    ASSUME LoopInv, LifeType',
           UNCHANGED <<main, cnt, gen, submitted, loop, curThrds, epfd>>
    PROVE  LoopInv'
<1>1. Counted'
  BY DEF LoopInv, Counted, Running
<1>2. Fresh' /\ MainShape' /\ LoopsOfLast' /\ EpfdsMade'
  BY DEF LoopInv, Fresh, MainShape, LoopsOfLast, EpfdsMade
<1>3. QED BY <1>1, <1>2 DEF LoopInv

\* The running loops stay the same.
LEMMA SameRunning ==
    ASSUME LoopInv, UNCHANGED curThrds,
           \A q \in LoopIds : loop'[q] \in Begun <=> loop[q] \in Begun
    PROVE  Counted'
<1>1. Running' = Running
  BY DEF Running
<1>2. QED BY <1>1 DEF LoopInv, Counted

LEMMA InitLoopInv ==
    ASSUME LoopInv, NEW n \in 0 .. MaxWorkers, np_init_worker_thrds(n)
    PROVE  LoopInv'
<1> USE DEF np_init_worker_thrds, poolVars
<1>1. LifeType'
  BY LoopIdFacts DEF LoopInv, LifeType, Mains
<1>2. Counted'
  BY SameRunning
<1>3. Fresh' /\ MainShape'
  BY DEF LoopInv, Fresh, MainShape
<1>4. LoopsOfLast'
  BY DEF LoopInv, LoopsOfLast, Active, Begun
<1>5. EpfdsMade'
  BY DEF EpfdsMade
<1>6. QED BY <1>1, <1>2, <1>3, <1>4, <1>5 DEF LoopInv

LEMMA StartLoopInv ==
    ASSUME LoopInv, np_start
    PROVE  LoopInv'
<1> USE DEF np_start, poolVars
<1>0. /\ main = "ready" /\ gen' = gen + 1 /\ submitted' = 0 /\ gen \in Nat
      /\ gen + 1 \in 1 .. MaxStarts /\ <<gen + 1, 0>> \in LoopIds
      /\ loop \in [LoopIds -> LoopPcs] /\ cnt \in 0 .. MaxWorkers
      /\ main' \in {"submit", "inline"}
      /\ main' = "submit" => cnt > 0
  BY LoopIdFacts DEF LoopInv, LifeType, MainShape
<1>1. PICK r \in LoopIds : r = <<gen + 1, 0>> /\ r[1] = gen + 1 /\ r[2] = 0
  BY <1>0
<1>2. /\ \A q \in LoopIds : q # r => loop'[q] = loop[q]
      /\ loop'[r] \in {loop[r], "queued"}
      /\ main' = "submit" => loop' = loop
  BY <1>0, <1>1
<1>3. \A q \in LoopIds : loop[q] \in {"none", "ended"}
  BY <1>0 DEF LoopInv, LoopsOfLast
<1>4. \A q \in LoopIds : q[1] \in Nat /\ q[2] \in Nat
  BY LoopIdFacts
<1>5. LifeType'
  BY <1>0, LoopIdFacts DEF LoopInv, LifeType, Mains, LoopPcs
<1>6. Counted'
  BY <1>2, <1>3, SameRunning DEF Begun
<1>7. Fresh'
  <2>1. ASSUME NEW q \in LoopIds, q[1] > gen + 1 \/ (main' = "submit" /\ q[1] = gen + 1)
        PROVE  loop'[q] = "none"
    <3>1. q[1] > gen
      BY <1>0, <1>4, <2>1
    <3>2. loop[q] = "none"
      BY <3>1 DEF LoopInv, Fresh
    <3>3. QED BY <1>0, <1>1, <1>2, <2>1, <3>2
  <2>2. QED BY <1>0, <2>1 DEF Fresh
<1>8. MainShape'
  BY <1>0 DEF MainShape
<1>9. LoopsOfLast'
  BY <1>0, <1>1, <1>2, <1>3 DEF LoopsOfLast, Active, Begun
<1>10. EpfdsMade'
  BY <1>0 DEF LoopInv, EpfdsMade
<1>11. QED BY <1>5, <1>6, <1>7, <1>8, <1>9, <1>10 DEF LoopInv

LEMMA SubmitLoopInv ==
    ASSUME LoopInv, start_submit
    PROVE  LoopInv'
<1> USE DEF start_submit, poolVars
<1>0. /\ main = "submit" /\ gen \in 1 .. MaxStarts /\ submitted < cnt
      /\ submitted \in 0 .. MaxWorkers /\ <<gen, submitted>> \in LoopIds
      /\ loop \in [LoopIds -> LoopPcs] /\ cnt \in 0 .. MaxWorkers
      /\ submitted' = submitted + 1 /\ main' \in {"started", "submit"}
      /\ main' = "submit" => submitted + 1 < cnt
  BY LoopIdFacts DEF LoopInv, LifeType, MainShape
<1>1. PICK r \in LoopIds : r = <<gen, submitted>> /\ r[1] = gen /\ r[2] = submitted
  BY <1>0
<1>2. /\ \A q \in LoopIds : q # r => loop'[q] = loop[q]
      /\ loop'[r] = "queued"
  BY <1>0, <1>1
<1>3. loop[r] = "none"
  BY <1>0, <1>1 DEF LoopInv, Fresh
<1>4. \A q \in LoopIds : q[1] \in Nat /\ q[2] \in Nat
  BY LoopIdFacts
<1>5. LifeType'
  BY <1>0, LoopIdFacts DEF LoopInv, LifeType, Mains, LoopPcs
<1>6. Counted'
  BY <1>2, <1>3, SameRunning DEF Begun
<1>7. Fresh'
  <2>1. ASSUME NEW q \in LoopIds,
               \/ q[1] > gen
               \/ main' = "submit" /\ q[1] = gen /\ q[2] >= submitted + 1
        PROVE  q # r /\ loop[q] = "none"
    BY <1>0, <1>1, <1>4, <2>1 DEF LoopInv, Fresh
  <2>2. QED BY <1>0, <1>2, <2>1 DEF Fresh
<1>8. MainShape'
  BY <1>0 DEF MainShape
<1>9. LoopsOfLast'
  <2>1. ASSUME NEW q \in LoopIds, loop'[q] \in Active
        PROVE  q[1] = gen /\ (q[2] < cnt \/ q[2] = 0)
    BY <1>0, <1>1, <1>2, <2>1 DEF LoopInv, LoopsOfLast
  <2>2. QED BY <1>0, <2>1 DEF LoopsOfLast
<1>10. EpfdsMade'
  BY <1>0 DEF LoopInv, EpfdsMade
<1>11. QED BY <1>5, <1>6, <1>7, <1>8, <1>9, <1>10 DEF LoopInv

LEMMA WaitLoopInv ==
    ASSUME LoopInv, "allBegun" \in Habits,
           start_inline_returns \/ wait_stop \/ wait_stop_done \/ wait_stop_close
    PROVE  LoopInv'
<1> USE DEF start_inline_returns, wait_stop, wait_stop_done, wait_stop_close, poolVars
<1>1. LifeType'
  BY DEF LoopInv, LifeType, Mains, NoEpfd, Indices
<1>2. Counted'
  BY SameRunning
<1>3. Fresh' /\ MainShape'
  BY DEF LoopInv, Fresh, MainShape
<1>4. LoopsOfLast'
  <2>1. CASE wait_stop_done
    <3>1. Running = {}
      BY <2>1, FS_EmptySet DEF LoopInv, Counted
    <3>2. \A q \in LoopIds : loop[q] \in {"none", "ended"}
      BY <2>1, <3>1 DEF LoopInv, LoopsOfLast, LifeType, LoopPcs, Running
    <3>3. QED BY <2>1, <3>2 DEF LoopsOfLast, Active, Begun
  <2>2. QED BY <2>1 DEF LoopInv, LoopsOfLast
<1>5. EpfdsMade'
  BY DEF LoopInv, EpfdsMade
<1>6. QED BY <1>1, <1>2, <1>3, <1>4, <1>5 DEF LoopInv

\* A loop that is alive moves on.
LoopMoves(q, to) ==
    /\ loop' = [loop EXCEPT ![q] = to]
    /\ UNCHANGED <<main, cnt, gen, submitted, epfd, pools, by, walk>>

LEMMA LoopMovesInv ==
    ASSUME LoopInv, NEW q \in LoopIds, NEW to \in Begun \cup {"ended"},
           loop[q] \in Active, LoopMoves(q, to), curThrds' \in Int, Counted'
    PROVE  LoopInv'
<1> USE DEF LoopMoves
<1>0. /\ loop \in [LoopIds -> LoopPcs] /\ loop'[q] = to
      /\ \A r \in LoopIds : r # q => loop'[r] = loop[r]
  BY DEF LoopInv, LifeType
<1>1. LifeType'
  BY <1>0 DEF LoopInv, LifeType, LoopPcs
<1>2. Fresh'
  <2>1. loop[q] # "none"
    BY DEF Active, Begun
  <2>2. QED BY <1>0, <2>1 DEF LoopInv, Fresh
<1>3. MainShape' /\ EpfdsMade'
  BY DEF LoopInv, MainShape, EpfdsMade
<1>4. LoopsOfLast'
  <2>1. main \notin {"closing", "idle", "ready"}
    BY DEF LoopInv, LoopsOfLast, Active, Begun
  <2>2. to # "queued"
    BY DEF Begun
  <2>3. QED BY <1>0, <2>1, <2>2 DEF LoopInv, LoopsOfLast
<1>5. QED BY <1>1, <1>2, <1>3, <1>4 DEF LoopInv

LEMMA LoopStepInv ==
    ASSUME LoopInv, NEW q \in LoopIds, LoopStep(q)
    PROVE  LoopInv'
<1> USE DEF LoopKeeps, poolVars
<1>0. /\ loop \in [LoopIds -> LoopPcs] /\ curThrds \in Int
      /\ IsFiniteSet(Running) /\ curThrds = Cardinality(Running)
  BY DEF LoopInv, LifeType, Counted
<1>1. CASE LoopBegin(q)
  <2>1. loop[q] = "queued" /\ loop' = [loop EXCEPT ![q] = "top"] /\ curThrds' = curThrds + 1
    BY <1>1 DEF LoopBegin
  <2>2. Running' = Running \cup {q} /\ q \notin Running
    BY <1>0, <2>1 DEF Running, Begun
  <2>3. IsFiniteSet(Running') /\ curThrds' = Cardinality(Running')
    BY <1>0, <2>1, <2>2, FS_AddElement
  <2>4. LoopMoves(q, "top")
    BY <1>1 DEF LoopBegin, LoopMoves
  <2>5. loop[q] \in Active /\ "top" \in Begun \cup {"ended"} /\ curThrds' \in Int
    BY <1>0, <2>1 DEF Active, Begun
  <2>6. QED BY <2>3, <2>4, <2>5, LoopMovesInv DEF Counted
<1>2. CASE LoopEnd(q)
  <2>1. loop[q] = "leaving" /\ loop' = [loop EXCEPT ![q] = "ended"] /\ curThrds' = curThrds - 1
    BY <1>2 DEF LoopEnd
  <2>2. Running' = Running \ {q} /\ q \in Running
    BY <1>0, <2>1 DEF Running, Begun
  <2>3. IsFiniteSet(Running') /\ curThrds' = Cardinality(Running')
    BY <1>0, <2>1, <2>2, FS_RemoveElement
  <2>4. LoopMoves(q, "ended")
    BY <1>2 DEF LoopEnd, LoopMoves
  <2>5. loop[q] \in Active /\ "ended" \in Begun \cup {"ended"} /\ curThrds' \in Int
    BY <1>0, <2>1 DEF Active, Begun
  <2>6. QED BY <2>3, <2>4, <2>5, LoopMovesInv DEF Counted
<1>3. CASE LoopTop(q) \/ LoopWait(q) \/ LoopAgain(q)
  <2>1. PICK to \in Begun : LoopMoves(q, to)
    BY <1>3 DEF LoopTop, LoopWait, LoopAgain, LoopMoves, Begun
  <2>2. loop[q] \in Begun /\ UNCHANGED curThrds
    BY <1>3 DEF LoopTop, LoopWait, LoopAgain, Begun
  <2>3. Counted'
    BY <1>0, <2>1, <2>2, SameRunning DEF LoopMoves
  <2>4. QED BY <1>0, <2>1, <2>2, <2>3, LoopMovesInv DEF Active
<1>4. QED BY <1>1, <1>2, <1>3 DEF LoopStep

\* A set of pools has a first one.
LEMMA FirstPool ==
    ASSUME NEW S, S \subseteq Nat, S # {}
    PROVE  \E x \in S : \A y \in S : x <= y
<1>1. PICK x \in S : \A y \in S : ~(<<y, x>> \in OpToRel(<, Nat))
  BY NatLessThanWellFounded, WFMin
<1>2. \A y \in S : ~(y < x)
  BY <1>1 DEF OpToRel
<1>3. QED BY <1>2

\* After picks a listed pool or the end.
LEMMA AfterType ==
    ASSUME NEW p \in Nat
    PROVE  After(p) \in Listed \cup {End}
<1> DEFINE S == {r \in Listed : r > p}
<1>1. CASE S = {}
  <2>1. ~\E r \in Listed : r > p
    BY <1>1
  <2>2. QED BY <2>1 DEF After
<1>2. CASE S # {}
  <2>1. S \subseteq Nat
    BY PoolsAssumption DEF Listed
  <2>2. PICK x \in S : \A y \in S : x <= y
    BY <1>2, <2>1, FirstPool
  <2>3. x \in Listed /\ x > p /\ \A s \in Listed : s > p => x <= s
    BY <2>2
  <2>4. QED BY <2>3 DEF After
<1>3. QED BY <1>1, <1>2

LEMMA WalkTypes ==
    ASSUME LifeType, NEW q \in LoopIds, Walk(q)
    PROVE  /\ LifeType'
           /\ UNCHANGED <<main, cnt, gen, submitted, loop, curThrds, epfd, pools, by>>
<1> USE DEF LoopKeeps, poolVars
<1>0. /\ \A p \in Nat : After(p) \in Pools \cup {End}
      /\ Pools \cup {End} \subseteq Nat /\ End \in Nat
  BY AfterType, PoolsAssumption DEF Listed, End
<1>1. walk[q] \in Walks /\ walk \in [LoopIds -> Walks]
  BY DEF LifeType
<1>2. walk[q].itr \in Pools \cup {End} /\ walk[q].cur \in Pools \cup {End}
  BY <1>1 DEF Walks
<1>4. CASE _poll_timer_callback(q)
  <2>1. walk' = [walk EXCEPT ![q] = [pc |-> "next", itr |-> After(End), cur |-> End]]
    BY <1>4 DEF _poll_timer_callback
  <2>2. [pc |-> "next", itr |-> After(End), cur |-> End] \in Walks
    BY <1>0 DEF Walks
  <2>3. QED BY <1>4, <1>1, <2>1, <2>2 DEF _poll_timer_callback, LifeType
<1>5. CASE walk_next(q)
  <2>1. walk' = [walk EXCEPT ![q] = [pc |-> "age", itr |-> After(walk[q].itr),
                                     cur |-> walk[q].itr]]
    BY <1>5 DEF walk_next
  <2>2. [pc |-> "age", itr |-> After(walk[q].itr), cur |-> walk[q].itr] \in Walks
    BY <1>0, <1>2 DEF Walks
  <2>3. QED BY <1>5, <1>1, <2>1, <2>2 DEF walk_next, LifeType
<1>6. CASE walk_aged(q)
  <2>1. PICK v \in {NoWalk, [walk[q] EXCEPT !.pc = "next", !.cur = End]} :
          walk' = [walk EXCEPT ![q] = v]
    BY <1>6 DEF walk_aged
  <2>2. NoWalk \in Walks /\ [walk[q] EXCEPT !.pc = "next", !.cur = End] \in Walks
    BY <1>1 DEF Walks, NoWalk
  <2>3. QED BY <1>6, <1>1, <2>1, <2>2 DEF walk_aged, LifeType
<1>7. QED BY <1>4, <1>5, <1>6 DEF Walk

\* Making and freeing pools.
PoolWork(p, a) == \/ init_evt_thrds(a, p) \/ free_evt_thrds(a, p) \/ PoolCall(p)

LEMMA PoolTypes ==
    ASSUME LifeType, NEW p \in Pools, NEW a \in LoopIds \cup {MainThread}, PoolWork(p, a)
    PROVE  /\ LifeType'
           /\ UNCHANGED <<main, cnt, gen, submitted, loop, curThrds, epfd, walk>>
<1>1. PICK from \in {"none", "new", "listed", "freeing", "erased"},
           to \in {"new", "listed", "freeing", "erased", "gone"},
           b \in LoopIds \cup {MainThread, Nobody} :
        PoolStep(p, from, to, b)
  <2>1. by[p] \in LoopIds \cup {MainThread, Nobody}
    BY DEF LifeType
  <2>2. QED BY <2>1 DEF PoolWork, PoolCall, init_evt_thrds, free_evt_thrds,
               init_evt_insert, free_evt_erase, free_evt_delete
<1>2. QED BY <1>1 DEF PoolStep, LifeType

LEMMA LoopInvStep ==
    ASSUME "allBegun" \in Habits, LoopInv, [LifeNext]_lifeVars
    PROVE  LoopInv'
<1>1. CASE Main
  BY <1>1, InitLoopInv, StartLoopInv, SubmitLoopInv, WaitLoopInv DEF Main
<1>2. CASE let_stop
  <2>1. UNCHANGED <<main, cnt, gen, submitted, loop, curThrds, epfd, pools, by, walk>>
    BY <1>2 DEF let_stop, poolVars
  <2>2. LifeType'
    BY <2>1 DEF LoopInv, LifeType
  <2>3. QED BY <2>1, <2>2, OthersLoopInv
<1>3. ASSUME NEW q \in LoopIds, LoopStep(q) \/ Walk(q)
      PROVE  LoopInv'
  BY <1>3, LoopStepInv, WalkTypes, OthersLoopInv DEF LoopInv
<1>4. ASSUME NEW p \in Pools, NEW a \in LoopIds \cup {MainThread}, PoolWork(p, a)
      PROVE  LoopInv'
  BY <1>4, PoolTypes, OthersLoopInv DEF LoopInv
<1>5. CASE UNCHANGED lifeVars
  <2>1. UNCHANGED <<main, cnt, gen, submitted, loop, curThrds, epfd, pools, by, walk>>
    BY <1>5 DEF lifeVars
  <2>2. LifeType'
    BY <2>1 DEF LoopInv, LifeType
  <2>3. QED BY <2>1, <2>2, OthersLoopInv
<1>6. QED BY <1>1, <1>2, <1>3, <1>4, <1>5 DEF LifeNext, PoolWork

\* When wait_stop has counted down to zero no loop of any start runs, and none
\* is still to begin: wait_stop must be called after all loops have begun.
THEOREM StopWaitsForAll ==
    ASSUME "allBegun" \in Habits
    PROVE  LifeSpec => []StoppedMeansEnded
<1>1. LoopInv => StoppedMeansEnded
  BY DEF LoopInv, LoopsOfLast, StoppedMeansEnded
<1>2. LoopInv /\ [LifeNext]_lifeVars => LoopInv'
  BY LoopInvStep
<1>3. QED BY <1>1, <1>2, LoopInvInit, PTL DEF LifeSpec

\* A loop that runs has the epoll instance that was made for it, whatever the
\* number of starts.
THEOREM LoopsHaveEpfds ==
    ASSUME "allBegun" \in Habits
    PROVE  LifeSpec => []LoopHasEpfd
<1>1. LoopInv => LoopHasEpfd
  <2> SUFFICES ASSUME LoopInv, NEW q \in LoopIds, loop[q] \in Begun \ {"leaving"}
               PROVE  epfd[q[2]] = q[1]
    BY DEF LoopHasEpfd
  <2>1. main \in {"submit", "inline", "started", "waiting"}
    BY DEF LoopInv, LoopsOfLast, LifeType, Mains, Begun
  <2>2. q[1] = gen /\ (q[2] < cnt \/ q[2] = 0)
    BY DEF LoopInv, LoopsOfLast, Active
  <2>3. q[2] \in Indices
    BY LoopIdFacts DEF Indices
  <2>4. QED BY <2>1, <2>2, <2>3 DEF LoopInv, EpfdsMade
<1>2. LoopInv /\ [LifeNext]_lifeVars => LoopInv'
  BY LoopInvStep
<1>3. QED BY <1>1, <1>2, LoopInvInit, PTL DEF LifeSpec
-----------------------------------------------------------------------------
(***************************************************************************)
(* The walk over the event pools.                                          *)
(***************************************************************************)
LEMMA PoolInvInit == LifeInit => PoolInv
<1> SUFFICES ASSUME LifeInit PROVE PoolInv
  OBVIOUS
<1>1. PoolOwner
  BY LoopIdFacts DEF LifeInit, PoolOwner
<1>2. Walker
  BY DEF LifeInit, Walker, NoWalk
<1>3. QED BY <1>1, <1>2, LoopInvInit DEF PoolInv

\* Only one loop with index 0 is alive, and none while the main thread may make
\* or free a pool: whoever makes or frees one is not in a walk, nor is anybody.
LEMMA NobodyWhileWalking ==
    ASSUME PoolInv, NEW q \in LoopIds, loop[q] = "timers", q[2] = 0,
           \A p \in Pools : by[p] # q
    PROVE  /\ main \notin {"idle", "ready"}
           /\ \A r \in LoopIds : loop[r] = "timers" /\ r[2] = 0 => r = q
           /\ \A p \in Pools : by[p] = Nobody
<1>1. main \notin {"idle", "ready"}
  BY DEF PoolInv, LoopInv, LoopsOfLast
<1>2. ASSUME NEW r \in LoopIds, loop[r] = "timers", r[2] = 0 PROVE r = q
  <2>1. r[1] = gen /\ q[1] = gen
    BY <1>2 DEF PoolInv, LoopInv, LoopsOfLast, Active, Begun
  <2>2. r = <<r[1], r[2]>> /\ q = <<q[1], q[2]>>
    BY LoopIdFacts
  <2>3. QED BY <1>2, <2>1, <2>2
<1>3. ASSUME NEW p \in Pools PROVE by[p] = Nobody
  <2>1. by[p] \in LoopIds \cup {MainThread, Nobody}
    BY DEF PoolInv, LoopInv, LifeType
  <2>2. by[p] # MainThread
    BY <1>1 DEF PoolInv, PoolOwner
  <2>3. by[p] \notin LoopIds
    BY <1>2 DEF PoolInv, PoolOwner
  <2>4. QED BY <2>1, <2>2, <2>3
<1>4. QED BY <1>1, <1>2, <1>3

\* A loop with a walk makes and frees no pool.
LEMMA WalkerAlone ==
    ASSUME PoolInv, NEW q \in LoopIds, walk[q] # NoWalk
    PROVE  /\ loop[q] = "timers" /\ q[2] = 0 /\ main \notin {"idle", "ready"}
           /\ \A r \in LoopIds : loop[r] = "timers" /\ r[2] = 0 => r = q
           /\ \A p \in Pools : by[p] = Nobody
<1>1. loop[q] = "timers" /\ q[2] = 0
  BY DEF PoolInv, Walker
<1>2. \A p \in Pools : by[p] # q
  BY DEF PoolInv, PoolOwner
<1>3. QED BY <1>1, <1>2, NobodyWhileWalking

LEMMA MainPoolInv ==
    ASSUME PoolInv, LoopInv', Main
    PROVE  PoolInv'
<1>1. /\ UNCHANGED <<pools, by, walk>> /\ \A p \in Pools : by[p] # MainThread
      /\ \A q \in LoopIds : loop[q] = "timers" => loop'[q] = "timers"
  <2>1. CASE np_start
    <3>1. \A q \in LoopIds : loop[q] # "timers"
      BY <2>1 DEF PoolInv, LoopInv, LoopsOfLast, np_start
    <3>2. QED BY <2>1, <3>1 DEF Main, np_start, poolVars
  <2>2. CASE start_submit
    <3>1. <<gen, submitted>> \in LoopIds
      BY <2>2, LoopIdFacts DEF PoolInv, LoopInv, LifeType, MainShape, start_submit
    <3>2. loop[<<gen, submitted>>] = "none"
      BY <2>2, <3>1 DEF PoolInv, LoopInv, LifeType, Fresh, start_submit
    <3>3. QED BY <2>2, <3>1, <3>2 DEF Main, start_submit, poolVars
  <2>3. QED
    BY <2>1, <2>2 DEF Main, poolVars, np_init_worker_thrds, start_inline_returns,
       wait_stop, wait_stop_done, wait_stop_close
<1>2. PoolOwner'
  BY <1>1 DEF PoolInv, PoolOwner
<1>3. Walker'
  BY <1>1 DEF PoolInv, Walker, Listed
<1>4. QED BY <1>2, <1>3 DEF PoolInv

LEMMA LoopStepPoolInv ==
    ASSUME PoolInv, LoopInv', NEW q \in LoopIds, LoopStep(q)
    PROVE  PoolInv'
<1>1. /\ UNCHANGED <<main, pools, by, walk>>
      /\ \A r \in LoopIds : r # q => loop'[r] = loop[r]
  BY DEF PoolInv, LoopInv, LifeType, LoopStep, LoopBegin, LoopTop, LoopWait, LoopAgain,
     LoopEnd, LoopKeeps, poolVars
<1>2. loop[q] = "timers" => walk[q] = NoWalk /\ \A p \in Pools : by[p] # q
  BY DEF LoopStep, LoopBegin, LoopTop, LoopWait, LoopAgain, LoopEnd
<1>3. PoolOwner'
  BY <1>1, <1>2 DEF PoolInv, PoolOwner
<1>4. Walker'
  BY <1>1, <1>2 DEF PoolInv, Walker, Listed
<1>5. QED BY <1>3, <1>4 DEF PoolInv

LEMMA WalkPoolInv ==
    ASSUME PoolInv, LoopInv', NEW q \in LoopIds, Walk(q)
    PROVE  PoolInv'
<1>0. UNCHANGED <<main, loop, pools, by>> /\ walk \in [LoopIds -> Walks]
  BY WalkTypes DEF PoolInv, LoopInv, LifeType
<1>1. walk[q] \in Walks
  BY <1>0
<1>2. \A p \in Nat : After(p) \in Listed \cup {End}
  BY AfterType
<1>3. walk[q].itr \in Nat /\ End \in Nat
  <2>1. walk[q].itr \in Pools \cup {End}
    BY <1>1 DEF Walks
  <2>2. Pools \cup {End} \subseteq Nat /\ End \in Nat
    BY PoolsAssumption DEF End
  <2>3. QED BY <2>1, <2>2, Zenon
<1>4. \A r \in LoopIds : r # q => walk'[r] = walk[r]
  <2>1. PICK v : walk' = [walk EXCEPT ![q] = v]
    BY DEF Walk, _poll_timer_callback, walk_next, walk_aged
  <2>2. QED BY <1>0, <2>1
<1>5. /\ loop[q] = "timers" /\ q[2] = 0
      /\ \A p \in Pools : by[p] = Nobody
  <2>1. CASE _poll_timer_callback(q)
    BY <2>1, NobodyWhileWalking DEF _poll_timer_callback
  <2>2. CASE walk_next(q) \/ walk_aged(q)
    <3>1. walk[q] # NoWalk
      BY <2>2 DEF walk_next, walk_aged, NoWalk
    <3>2. QED BY <3>1, WalkerAlone
  <2>3. QED BY <2>1, <2>2 DEF Walk
<1>6. {walk'[q].itr, walk'[q].cur} \ {End} \subseteq Listed
  <2>0. {walk[q].itr, walk[q].cur} \ {End} \subseteq Listed
    BY DEF PoolInv, Walker
  <2>1. CASE _poll_timer_callback(q)
    <3>1. walk'[q] = [pc |-> "next", itr |-> After(End), cur |-> End]
      BY <1>0, <2>1 DEF _poll_timer_callback
    <3>2. QED BY <1>2, <1>3, <3>1
  <2>2. CASE walk_next(q)
    <3>1. walk'[q] = [pc |-> "age", itr |-> After(walk[q].itr), cur |-> walk[q].itr]
      BY <1>0, <2>2 DEF walk_next
    <3>2. QED BY <1>2, <1>3, <2>0, <3>1
  <2>3. CASE walk_aged(q)
    <3>1. walk'[q] \in {NoWalk, [walk[q] EXCEPT !.pc = "next", !.cur = End]}
      BY <1>0, <2>3 DEF walk_aged
    <3>2. [walk[q] EXCEPT !.pc = "next", !.cur = End].itr = walk[q].itr
      BY <1>1 DEF Walks
    <3>3. [walk[q] EXCEPT !.pc = "next", !.cur = End].cur = End
      BY <1>1 DEF Walks
    <3>4. NoWalk.itr = End /\ NoWalk.cur = End
      BY DEF NoWalk
    <3>5. CASE walk'[q] = NoWalk
      BY <3>4, <3>5
    <3>6. CASE walk'[q] = [walk[q] EXCEPT !.pc = "next", !.cur = End]
      <4>1. walk'[q].itr = walk[q].itr /\ walk'[q].cur = End
        BY <3>2, <3>3, <3>6
      <4>2. QED BY <2>0, <4>1
    <3>7. QED BY <3>1, <3>5, <3>6
  <2>4. QED BY <2>1, <2>2, <2>3 DEF Walk
<1>7. walk'[q].pc = "idle" <=> walk'[q] = NoWalk
  <2>1. CASE _poll_timer_callback(q)
    BY <1>0, <2>1 DEF _poll_timer_callback, NoWalk
  <2>2. CASE walk_next(q)
    BY <1>0, <2>2 DEF walk_next, NoWalk
  <2>3. CASE walk_aged(q)
    <3>1. walk'[q] \in {NoWalk, [walk[q] EXCEPT !.pc = "next", !.cur = End]}
      BY <1>0, <2>3 DEF walk_aged
    <3>2. [walk[q] EXCEPT !.pc = "next", !.cur = End].pc = "next"
      BY <1>1 DEF Walks
    <3>3. NoWalk.pc = "idle"
      BY DEF NoWalk
    <3>4. CASE walk'[q] = NoWalk
      BY <3>3, <3>4
    <3>5. CASE walk'[q] = [walk[q] EXCEPT !.pc = "next", !.cur = End]
      <4>1. walk'[q].pc = "next"
        BY <3>2, <3>5
      <4>2. QED BY <3>3, <4>1
    <3>6. QED BY <3>1, <3>4, <3>5
  <2>4. QED BY <2>1, <2>2, <2>3 DEF Walk
<1>8. Listed' = Listed
  BY <1>0 DEF Listed
<1>9. Walker'
  BY <1>0, <1>4, <1>5, <1>6, <1>7, <1>8 DEF PoolInv, Walker
<1>10. PoolOwner'
  BY <1>0, <1>5, LoopIdFacts DEF PoolInv, PoolOwner
<1>11. QED BY <1>9, <1>10 DEF PoolInv

LEMMA PoolWorkInv ==
    ASSUME PoolInv, LoopInv', "poolsInLoop" \in Habits,
           NEW p \in Pools, NEW a \in LoopIds \cup {MainThread}, PoolWork(p, a)
    PROVE  PoolInv'
<1>0. UNCHANGED <<main, loop, walk>>
  BY PoolTypes DEF PoolInv, LoopInv
<1>1. ASSUME NEW q \in LoopIds PROVE walk[q] = NoWalk
  <2> SUFFICES ASSUME walk[q] # NoWalk PROVE FALSE
    OBVIOUS
  <2>1. /\ main \notin {"idle", "ready"} /\ by[p] = Nobody
        /\ \A r \in LoopIds : loop[r] = "timers" /\ r[2] = 0 => r = q
    BY WalkerAlone
  <2>2. pools[p] \notin {"new", "freeing", "erased"}
    BY <2>1 DEF PoolInv, PoolOwner
  <2>3. MayPool(a)
    BY <2>2 DEF PoolWork, init_evt_thrds, free_evt_thrds, PoolCall, PoolStep,
       init_evt_insert, free_evt_erase, free_evt_delete
  <2>4. QED BY <2>1, <2>3 DEF MayPool, InCallback
<1>2. Walker'
  BY <1>0, <1>1 DEF Walker, PoolInv, NoWalk
<1>3. PoolOwner'
  <2>1. PICK from \in {"none", "new", "listed", "freeing", "erased"},
             to \in {"new", "listed", "freeing", "erased", "gone"},
             b \in LoopIds \cup {MainThread, Nobody} :
          /\ PoolStep(p, from, to, b)
          /\ to \in {"new", "freeing", "erased"} <=> b # Nobody
          /\ b = by[p] \/ b = Nobody \/ (b = a /\ MayPool(a))
    <3>1. CASE init_evt_thrds(a, p)
      BY <3>1, LoopIdFacts DEF init_evt_thrds
    <3>2. CASE free_evt_thrds(a, p)
      BY <3>2, LoopIdFacts DEF free_evt_thrds
    <3>3. CASE init_evt_insert(p) \/ free_evt_delete(p)
      BY <3>3 DEF init_evt_insert, free_evt_delete
    <3>4. CASE free_evt_erase(p)
      <4>1. by[p] # Nobody /\ by[p] \in LoopIds \cup {MainThread, Nobody}
        BY <3>4 DEF free_evt_erase, PoolStep, PoolInv, PoolOwner, LoopInv, LifeType
      <4>2. QED BY <3>4, <4>1 DEF free_evt_erase
    <3>5. QED BY <3>1, <3>2, <3>3, <3>4 DEF PoolWork, PoolCall
  <2>2. /\ pools'[p] = to /\ by'[p] = b
        /\ \A r \in Pools : r # p => pools'[r] = pools[r] /\ by'[r] = by[r]
    BY <2>1 DEF PoolStep, PoolInv, LoopInv, LifeType
  <2>3. b = MainThread => main \in {"idle", "ready"}
    BY <2>1, LoopIdFacts DEF PoolInv, PoolOwner, MayPool
  <2>4. b \in LoopIds => loop[b] = "timers" /\ b[2] = 0 /\ walk[b] = NoWalk
    BY <2>1, LoopIdFacts DEF PoolInv, PoolOwner, MayPool, InCallback
  <2>5. QED BY <1>0, <2>1, <2>2, <2>3, <2>4 DEF PoolInv, PoolOwner
<1>4. QED BY <1>2, <1>3 DEF PoolInv

LEMMA PoolInvStep ==
    ASSUME "allBegun" \in Habits, "poolsInLoop" \in Habits, PoolInv, [LifeNext]_lifeVars
    PROVE  PoolInv'
<1>1. LoopInv'
  BY LoopInvStep DEF PoolInv
<1>2. CASE UNCHANGED <<main, loop, pools, by, walk>>
  BY <1>1, <1>2 DEF PoolInv, PoolOwner, Walker, Listed
<1>3. CASE let_stop \/ UNCHANGED lifeVars
  BY <1>2, <1>3 DEF let_stop, lifeVars, poolVars
<1>4. QED
  BY <1>1, <1>3, MainPoolInv, LoopStepPoolInv, WalkPoolInv, PoolWorkInv
     DEF LifeNext, PoolWork

\* The timer's walk over m_evt_thrd_pools, which takes no lock, stays inside the
\* set and ages only pools that exist: pools must be made and freed by callbacks
\* of loop 0, or by the main thread while nothing runs.
THEOREM PoolWalkIsSafe ==
    ASSUME "allBegun" \in Habits, "poolsInLoop" \in Habits
    PROVE  LifeSpec => []PoolWalkSafe
<1>1. PoolInv => PoolWalkSafe
  <2> SUFFICES ASSUME PoolInv, NEW q \in LoopIds, walk[q].pc # "idle"
               PROVE  /\ {walk[q].itr, walk[q].cur} \ {End} \subseteq Listed
                      /\ \A p \in Pools : pools[p] \notin {"new", "freeing", "erased"}
    BY DEF PoolWalkSafe
  <2>1. walk[q] # NoWalk /\ {walk[q].itr, walk[q].cur} \ {End} \subseteq Listed
    BY DEF PoolInv, Walker
  <2>2. QED BY <2>1, WalkerAlone DEF PoolInv, PoolOwner
<1>2. PoolInv /\ [LifeNext]_lifeVars => PoolInv'
  BY PoolInvStep
<1>3. QED BY <1>1, <1>2, PoolInvInit, PTL DEF LifeSpec
=============================================================================
