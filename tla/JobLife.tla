------------------------------- MODULE JobLife -------------------------------
(***************************************************************************)
(* What the job list promises to the application and to the event loops,   *)
(* without locks, lists, interest lists or events: a job is registered for *)
(* a descriptor that has none, it is deleted once, and its free callback   *)
(* runs once, after the deletion, at a moment when no loop holds a pointer *)
(* to it.  A loop gets hold only of jobs that are in memory.               *)
(***************************************************************************)
EXTENDS Integers

CONSTANTS Jobs, Fds, Loops

VARIABLES
    life,   \* life[j]: none, live, dying (deleted, not freed) or freed
    fdOf,   \* the descriptors of the jobs that have been registered
    holds   \* holds[l]: the jobs that loop l has a pointer to

lifeVars == <<life, fdOf, holds>>

LifeInit ==
    /\ life = [j \in Jobs |-> "none"]
    /\ fdOf = [j \in {} |-> 0]
    /\ holds = [l \in Loops |-> {}]

InMemory == {j \in Jobs : life[j] \in {"live", "dying"}}

Register(j, f) ==
    /\ life[j] = "none"
    /\ \A k \in InMemory : fdOf[k] # f
    /\ life' = [life EXCEPT ![j] = "live"]
    /\ fdOf' = [k \in DOMAIN fdOf \cup {j} |-> IF k = j THEN f ELSE fdOf[k]]
    /\ UNCHANGED holds

Delete(j) ==
    /\ life[j] = "live"
    /\ life' = [life EXCEPT ![j] = "dying"]
    /\ UNCHANGED <<fdOf, holds>>

Free(j) ==
    /\ life[j] = "dying"
    /\ \A l \in Loops : j \notin holds[l]
    /\ life' = [life EXCEPT ![j] = "freed"]
    /\ UNCHANGED <<fdOf, holds>>

Take(l, js) ==
    /\ holds[l] = {}
    /\ js \subseteq InMemory
    /\ holds' = [holds EXCEPT ![l] = js]
    /\ UNCHANGED <<life, fdOf>>

Release(l, j) ==
    /\ holds' = [holds EXCEPT ![l] = @ \ {j}]
    /\ UNCHANGED <<life, fdOf>>

LifeNext ==
    \/ \E j \in Jobs :
         \/ \E f \in Fds : Register(j, f)
         \/ Delete(j)
         \/ Free(j)
    \/ \E l \in Loops :
         \/ \E js \in SUBSET Jobs : Take(l, js)
         \/ \E j \in Jobs : Release(l, j)

LifeSpec == LifeInit /\ [][LifeNext]_lifeVars
=============================================================================
