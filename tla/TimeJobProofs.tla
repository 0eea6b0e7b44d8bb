--------------------------- MODULE TimeJobProofs ---------------------------
(***************************************************************************)
(* Proofs about the timers, for any threads, keys, periods and bounds.     *)
(* That the walk is safe and a one-shot timer runs once holds whatever the *)
(* application does; that no timer is lost needs the rule quietAdd.        *)
(*                                                                         *)
(* The invariant behind them: loop 0 holds the lock exactly while it       *)
(* walks, its iterator is End outside the walk, and a one-shot timer that  *)
(* was called is out of the list or is the one whose function runs.        *)
(***************************************************************************)
EXTENDS TimeJob, SequenceTheorems, WellFoundedInduction, TLAPS

-----------------------------------------------------------------------------
(* Sequences without duplicates, as the list of timers is.                 *)

\* Min of FiniteSetsExt is an element of its set.
LEMMA MinIsIn ==
  ASSUME NEW S \in SUBSET Nat, S # {}
  PROVE  Min(S) \in S
<1>1. PICK x \in S : \A y \in S : ~(<<y, x>> \in OpToRel(<, Nat))
  BY NatLessThanWellFounded, WFMin
<1>2. \A y \in S : ~(y < x)
  BY <1>1 DEF OpToRel
<1>3. \A y \in S : x <= y
  BY <1>2
<1>4. \E z \in S : \A y \in S : z <= y
  BY <1>3
<1> QED
  BY <1>4, Zenon DEF Min

\* Append adds one element.
LEMMA AppendedSet ==
  ASSUME NEW S, NEW s \in Seq(S), NEW e \in S, e \notin ToSet(s), IsInjective(s)
  PROVE  /\ Append(s, e) \in Seq(S)
         /\ IsInjective(Append(s, e))
         /\ ToSet(Append(s, e)) = ToSet(s) \cup {e}
<1> DEFINE r == Append(s, e)
<1>1. /\ r \in Seq(S)
      /\ Len(r) = Len(s) + 1
      /\ \A i \in 1 .. Len(s) : r[i] = s[i]
      /\ r[Len(s) + 1] = e
  BY AppendProperties
<1>2. Len(s) \in Nat /\ DOMAIN s = 1 .. Len(s) /\ DOMAIN r = 1 .. Len(s) + 1
  BY <1>1, LenProperties
<1> HIDE DEF r
<1>3. IsInjective(r)
  BY <1>1, <1>2 DEF IsInjective, ToSet
<1>4. ToSet(r) = ToSet(s) \cup {e}
  BY <1>1, <1>2 DEF ToSet
<1> QED
  BY <1>1, <1>3, <1>4 DEF r

\* RemoveAt takes one element out and keeps the others.
LEMMA RemovedAt ==
  ASSUME NEW S, NEW s \in Seq(S), IsInjective(s), NEW i \in DOMAIN s
  PROVE  /\ RemoveAt(s, i) \in Seq(S)
         /\ IsInjective(RemoveAt(s, i))
         /\ ToSet(RemoveAt(s, i)) = ToSet(s) \ {s[i]}
<1> DEFINE a == SubSeq(s, 1, i - 1)
           b == SubSeq(s, i + 1, Len(s))
           r == RemoveAt(s, i)
<1>1. /\ Len(s) \in Nat /\ DOMAIN s = 1 .. Len(s) /\ i \in 1 .. Len(s)
      /\ \A k \in 1 .. Len(s) : s[k] \in S
  BY LenProperties, ElementOfSeq
<1>2. /\ a \in Seq(S) /\ Len(a) = i - 1
      /\ \A k \in 1 .. i - 1 : a[k] = s[k]
  <2>1. \A k \in 1 .. i - 1 : s[k] \in S
    BY <1>1
  <2>2. /\ a \in Seq(S)
        /\ Len(a) = IF 1 <= i - 1 THEN i - 1 - 1 + 1 ELSE 0
        /\ \A k \in 1 .. i - 1 - 1 + 1 : a[k] = s[1 + k - 1]
    BY <1>1, <2>1, SubSeqProperties, i - 1 \in Int
  <2> HIDE DEF a
  <2> QED
    BY <1>1, <2>2
<1>3. /\ b \in Seq(S) /\ Len(b) = Len(s) - i
      /\ \A k \in 1 .. Len(s) - i : b[k] = s[i + k]
  <2>1. \A k \in i + 1 .. Len(s) : s[k] \in S
    BY <1>1
  <2>2. /\ b \in Seq(S)
        /\ Len(b) = IF i + 1 <= Len(s) THEN Len(s) - (i + 1) + 1 ELSE 0
        /\ \A k \in 1 .. Len(s) - (i + 1) + 1 : b[k] = s[(i + 1) + k - 1]
    BY <1>1, <2>1, SubSeqProperties, i + 1 \in Int, Len(s) \in Int
  <2> HIDE DEF b
  <2>3. Len(b) = Len(s) - i
    BY <1>1, <2>2
  <2>4. ASSUME NEW k \in 1 .. Len(s) - i PROVE b[k] = s[i + k]
    <3>1. k \in 1 .. Len(s) - (i + 1) + 1 /\ (i + 1) + k - 1 = i + k
      BY <1>1
    <3> QED
      BY <2>2, <3>1
  <2> QED
    BY <2>2, <2>3, <2>4
<1>4. r = a \o b
  BY DEF RemoveAt
<1> HIDE DEF a, b, r
<1>5. /\ r \in Seq(S) /\ Len(r) = Len(a) + Len(b)
      /\ \A k \in 1 .. Len(a) + Len(b) :
           r[k] = IF k <= Len(a) THEN a[k] ELSE b[k - Len(a)]
  BY <1>2, <1>3, <1>4, ConcatProperties
<1>6. /\ DOMAIN r = 1 .. Len(s) - 1
      /\ \A k \in 1 .. Len(s) - 1 : r[k] = IF k < i THEN s[k] ELSE s[k + 1]
  <2>1. DOMAIN r = 1 .. Len(r)
    BY <1>5, LenProperties
  <2>2. Len(r) = Len(s) - 1
    BY <1>1, <1>2, <1>3, <1>5
  <2>3. ASSUME NEW k \in 1 .. Len(s) - 1 PROVE r[k] = IF k < i THEN s[k] ELSE s[k + 1]
    <3>1. CASE k < i
      BY <3>1, <1>1, <1>2, <1>3, <1>5
    <3>2. CASE ~(k < i)
      <4>1. k - Len(a) \in 1 .. Len(s) - i /\ i + (k - Len(a)) = k + 1 /\ ~(k <= Len(a))
        BY <3>2, <1>1, <1>2
      <4>2. k \in 1 .. Len(a) + Len(b)
        BY <1>1, <1>2, <1>3
      <4>3. r[k] = b[k - Len(a)]
        BY <4>1, <4>2, <1>5
      <4> QED
        BY <3>2, <4>1, <4>3, <1>3
    <3> QED
      BY <3>1, <3>2
  <2> QED
    BY <2>1, <2>2, <2>3
<1>7. IsInjective(r)
  <2> SUFFICES ASSUME NEW x \in 1 .. Len(s) - 1, NEW y \in 1 .. Len(s) - 1, r[x] = r[y]
               PROVE  x = y
    BY <1>6 DEF IsInjective
  <2> DEFINE f(k) == IF k < i THEN k ELSE k + 1
  <2>1. f(x) \in DOMAIN s /\ f(y) \in DOMAIN s /\ s[f(x)] = s[f(y)]
    BY <1>1, <1>6
  <2>2. f(x) = f(y)
    BY <2>1 DEF IsInjective
  <2> QED
    BY <2>2, <1>1
<1>8. ToSet(r) = ToSet(s) \ {s[i]}
  <2>1. ASSUME NEW k \in 1 .. Len(s) - 1 PROVE r[k] \in ToSet(s) \ {s[i]}
    <3>1. CASE k < i
      BY <3>1, <1>1, <1>6 DEF ToSet, IsInjective
    <3>2. CASE ~(k < i)
      <4>1. k + 1 \in DOMAIN s /\ k + 1 # i /\ r[k] = s[k + 1]
        BY <3>2, <1>1, <1>6
      <4> QED
        BY <4>1 DEF ToSet, IsInjective
    <3> QED
      BY <3>1, <3>2
  <2>2. ASSUME NEW k \in DOMAIN s, s[k] # s[i] PROVE s[k] \in ToSet(r)
    <3>1. CASE k < i
      <4>1. k \in DOMAIN r /\ r[k] = s[k]
        BY <3>1, <1>1, <1>6
      <4> QED
        BY <4>1 DEF ToSet
    <3>2. CASE k > i
      <4>1. k - 1 \in DOMAIN r /\ r[k - 1] = s[k]
        BY <3>2, <1>1, <1>6
      <4> QED
        BY <4>1 DEF ToSet
    <3> QED
      BY <2>2, <3>1, <3>2, <1>1
  <2>3. ToSet(r) \subseteq ToSet(s) \ {s[i]}
    BY <2>1, <1>6 DEF ToSet
  <2>4. ToSet(s) \ {s[i]} \subseteq ToSet(r)
    BY <2>2 DEF ToSet
  <2> QED
    BY <2>3, <2>4
<1> QED
  BY <1>5, <1>7, <1>8 DEF r

\* RemoveFirst takes one element out, if it is there.
LEMMA RemovedSet ==
  ASSUME NEW S, NEW s \in Seq(S), IsInjective(s), NEW e
  PROVE  /\ RemoveFirst(s, e) \in Seq(S)
         /\ IsInjective(RemoveFirst(s, e))
         /\ ToSet(RemoveFirst(s, e)) = ToSet(s) \ {e}
<1>1. DOMAIN s = 1 .. Len(s) /\ Len(s) \in Nat
  BY LenProperties
<1> DEFINE I == {i \in 1 .. Len(s) : s[i] = e}
<1>2. CASE I = {}
  <2>1. RemoveFirst(s, e) = s
    BY <1>2 DEF RemoveFirst
  <2>2. ToSet(s) = ToSet(s) \ {e}
    BY <1>1, <1>2 DEF ToSet
  <2> QED
    BY <2>1, <2>2
<1>3. CASE I # {}
  <2>2. RemoveFirst(s, e) = RemoveAt(s, Min(I))
    BY <1>3 DEF RemoveFirst, SelectInSeq
  <2>0. I \in SUBSET Nat
    BY <1>1
  <2> HIDE DEF I
  <2>1. Min(I) \in I
    BY <1>3, <2>0, MinIsIn
  <2>3. Min(I) \in DOMAIN s /\ s[Min(I)] = e
    BY <1>1, <2>1 DEF I
  <2> QED
    BY <2>2, <2>3, RemovedAt
<1> QED
  BY <1>2, <1>3

-----------------------------------------------------------------------------
(* The invariant.                                                          *)

\* Loop 0 holds m_job_lock exactly while it walks; every other use of the
\* lock is one step.
LockHeld == lock = IF pc \in {"walk", "doit"} THEN {Loop0} ELSE {}

\* The iterator is past the timer whose function runs, and End outside the walk.
WalkPlace ==
    /\ pc \in {"idle", "lock"} => itr = End
    /\ itr # End => itr \in ToSet(list)
    /\ pc = "doit" => cur \in ToSet(list) /\ itr # cur

\* What del_time_job has unlinked and not yet deleted is nowhere else.
Unlinked ==
    /\ \A a \in Actors :
         IF del[a].pc = "free"
         THEN del[a].node \in Made \ (ToSet(list) \cup freed)
         ELSE del[a].node = End
    /\ \A a, b \in Actors :
         del[a].node = del[b].node /\ del[a].node # End => a = b

\* A timer that runs once and was called is being called or is out of the list;
\* runs is 0 before a timer is made.
OnceShape ==
    /\ Len(timer) <= MaxTimers
    /\ \A t \in 1 .. MaxTimers : t > Len(timer) => runs[t] = 0
    /\ \A t \in Made :
         timer[t].once /\ runs[t] > 0 =>
            runs[t] = 1 /\ ((pc = "doit" /\ cur = t) \/ t \notin ToSet(list))

TimerInv ==
    /\ TypeOK
    /\ IsInjective(list)
    /\ ToSet(list) \cap freed = {}
    /\ LockHeld
    /\ WalkPlace
    /\ Unlinked
    /\ OnceShape

\* No timer is lost.
NoneLost == \A t \in Made : t \in ToSet(list) \/ t \in freed \/ \E a \in Actors : del[a].node = t
-----------------------------------------------------------------------------
\* The objects of the model and their sets.
LEMMA TimeSets ==
  ASSUME TypeOK
  PROVE  /\ Len(timer) \in Nat /\ DOMAIN timer = Made
         /\ Made \subseteq Nat /\ End \notin Made
         /\ ToSet(list) \subseteq Made
         /\ Loop0 \in Actors /\ PoolThreads \subseteq Actors
         /\ \A t \in Made : timer[t] \in [key : Keys, period : Periods, once : BOOLEAN, expire : Nat]
<1>1. Len(timer) \in Nat /\ DOMAIN timer = Made
  BY LenProperties DEF TypeOK, Made
<1>2. ToSet(list) \subseteq Made
  <2>1. list \in [1 .. Len(list) -> Made] /\ DOMAIN list = 1 .. Len(list)
    BY LenProperties DEF TypeOK
  <2> QED
    BY <2>1 DEF ToSet
<1>3. \A t \in Made : timer[t] \in [key : Keys, period : Periods, once : BOOLEAN, expire : Nat]
  BY ElementOfSeq DEF TypeOK, Made
<1> QED
  BY <1>1, <1>2, <1>3, ThreadsAssumption DEF Made, End, Actors, Loop0

\* find_time_jobs returns a timer of the list or End.
LEMMA FindInList ==
  ASSUME TypeOK, NEW key
  PROVE  find_time_jobs(key) \in ToSet(list) \cup {End}
<1> DEFINE I == {i \in 1 .. Len(list) : timer[list[i]].key = key}
<1>1. DOMAIN list = 1 .. Len(list) /\ Len(list) \in Nat
  BY LenProperties DEF TypeOK
<1>2. I \in SUBSET (Nat \ {0}) /\ I \subseteq DOMAIN list
  BY <1>1
<1>3. find_time_jobs(key) = LET i == IF I # {} THEN Min(I) ELSE 0
                            IN  IF i = 0 THEN End ELSE list[i]
  BY DEF find_time_jobs, SelectInSeq
<1> HIDE DEF I
<1>4. CASE I = {}
  BY <1>3, <1>4
<1>5. CASE I # {}
  <2>1. Min(I) \in I
    BY <1>2, <1>5, MinIsIn
  <2>2. Min(I) # 0 /\ Min(I) \in DOMAIN list
    BY <1>2, <2>1
  <2>3. find_time_jobs(key) = list[Min(I)]
    BY <1>3, <1>5, <2>2
  <2> QED
    BY <2>2, <2>3 DEF ToSet
<1> QED
  BY <1>4, <1>5

\* itr++ goes to another timer of the list or to End.
LEMMA NextInList ==
  ASSUME TypeOK, IsInjective(list), NEW t \in ToSet(list)
  PROVE  NextNode(t) \in (ToSet(list) \ {t}) \cup {End}
<1>1. DOMAIN list = 1 .. Len(list) /\ Len(list) \in Nat
  BY LenProperties DEF TypeOK
<1> DEFINE i == CHOOSE k \in DOMAIN list : list[k] = t
<1>2. i \in DOMAIN list /\ list[i] = t
  BY DEF ToSet
<1>3. NextNode(t) = IF i = Len(list) THEN End ELSE list[i + 1]
  BY DEF NextNode
<1> HIDE DEF i
<1>4. CASE i = Len(list)
  BY <1>3, <1>4
<1>5. CASE i # Len(list)
  <2>1. i + 1 \in DOMAIN list /\ i + 1 # i
    BY <1>1, <1>2, <1>5
  <2>2. list[i + 1] \in ToSet(list) /\ list[i + 1] # t
    BY <1>2, <2>1 DEF ToSet, IsInjective
  <2> QED
    BY <1>3, <1>5, <2>2
<1> QED
  BY <1>4, <1>5

\* The first timer of the list is in it.
LEMMA FirstInList ==
  ASSUME TypeOK, list # <<>>
  PROVE  Head(list) \in ToSet(list)
<1>1. DOMAIN list = 1 .. Len(list) /\ Len(list) \in Nat
  BY LenProperties DEF TypeOK
<1>2. Len(list) # 0
  BY <1>1, EmptySeq DEF TypeOK
<1>3. Head(list) = list[1] /\ 1 \in DOMAIN list
  BY <1>1, <1>2 DEF TypeOK
<1> QED
  BY <1>3 DEF ToSet
-----------------------------------------------------------------------------
(* Every step keeps the invariant.                                         *)

\* add_time_job: the new timer is at the end of the list, or lost.
LEMMA AddKeeps ==
  ASSUME TimerInv, NEW a \in Actors, NEW key \in Keys, NEW period \in Periods,
         NEW once \in BOOLEAN, add_time_job(a, key, period, once)
  PROVE  TimerInv' /\ Made' = Made \cup {Len(timer) + 1}
         /\ (ToSet(list)' = ToSet(list) \cup {Len(timer) + 1}
             \/ (ToSet(list)' = ToSet(list) /\ lock \ {a} # {}))
<1> DEFINE Rec == [key : Keys, period : Periods, once : BOOLEAN, expire : Nat]
           n == Len(timer) + 1
           e == [key |-> key, period |-> period, once |-> once, expire |-> now + period]
<1> USE DEF TimerInv
<1>0. TypeOK
  OBVIOUS
<1>1. /\ Len(timer) \in Nat /\ Made = 1 .. Len(timer) /\ End \notin Made
      /\ ToSet(list) \subseteq Made /\ n \notin Made /\ n \in Nat \ {0}
  BY <1>0, TimeSets DEF Made
<1>2. timer \in Seq(Rec) /\ e \in Rec
  BY <1>0, TimerBounds DEF TypeOK
<1>3. /\ timer' = Append(timer, e) /\ Len(timer) < MaxTimers
      /\ UNCHANGED <<now, freed, runs, lock, walkVars, del>>
  BY DEF add_time_job
<1>4. /\ timer' \in Seq(Rec) /\ Len(timer') = n
      /\ \A t \in Made : timer'[t] = timer[t]
      /\ timer'[n] = e
  <2> HIDE DEF e, Rec
  <2> QED
    BY <1>1, <1>2, <1>3, AppendProperties
<1>5. Made' = Made \cup {n}
  BY <1>1, <1>4 DEF Made
<1>6. list \in Seq(Made')
  BY <1>0, <1>5, SeqMonotonic DEF TypeOK
<1>7. /\ list' \in Seq(Made') /\ IsInjective(list')
      /\ \/ ToSet(list') = ToSet(list) \cup {n}
         \/ ToSet(list') = ToSet(list) /\ lock \ {a} # {}
  <2>1. CASE list' = Append(list, n)
    <3>1. n \in Made' /\ n \notin ToSet(list)
      BY <1>1, <1>5
    <3> HIDE DEF n
    <3> QED
      BY <2>1, <1>6, <3>1, AppendedSet
  <2>2. CASE list' = list /\ lock \ {a} # {}
    BY <2>2, <1>6
  <2> QED
    BY <2>1, <2>2 DEF add_time_job
<1> HIDE DEF e
<1>8. TypeOK'
  <2> HIDE DEF n
  <2> QED
    BY <1>0, <1>3, <1>4, <1>5, <1>7 DEF TypeOK, walkVars
<1>9. IsInjective(list)' /\ (ToSet(list) \cap freed = {})'
  <2> HIDE DEF n
  <2>1. freed \subseteq Made
    BY <1>0 DEF TypeOK
  <2> QED
    BY <1>1, <1>3, <1>7, <2>1
<1>10. LockHeld' /\ WalkPlace' /\ (ToSet(list)' = ToSet(list'))
  <2> HIDE DEF n
  <2> QED
    BY <1>1, <1>3, <1>7 DEF LockHeld, WalkPlace, walkVars
<1>11. Unlinked'
  <2> HIDE DEF n
  <2> QED
    BY <1>1, <1>3, <1>5, <1>7 DEF Unlinked
<1>12. OnceShape'
  <2>1. n \in 1 .. MaxTimers /\ runs[n] = 0
    BY <1>1, <1>3, TimerBounds DEF OnceShape
  <2>2. ASSUME NEW t \in Made', timer'[t].once, runs'[t] > 0
        PROVE  runs'[t] = 1 /\ ((pc' = "doit" /\ cur' = t) \/ t \notin ToSet(list'))
    <3>1. t # n
      BY <2>1, <2>2, <1>3
    <3>2. t \in Made /\ timer'[t] = timer[t]
      BY <3>1, <1>4, <1>5
    <3>3. runs[t] = 1 /\ ((pc = "doit" /\ cur = t) \/ t \notin ToSet(list))
      BY <3>2, <2>2, <1>3 DEF OnceShape
    <3> HIDE DEF n
    <3> QED
      BY <3>1, <3>2, <3>3, <1>3, <1>7 DEF walkVars
  <2>3. Len(timer') <= MaxTimers /\ \A t \in 1 .. MaxTimers : t > Len(timer') => runs'[t] = 0
    BY <1>1, <1>3, <1>4, TimerBounds DEF OnceShape
  <2> QED
    BY <2>2, <2>3 DEF OnceShape
<1> QED
  BY <1>5, <1>7, <1>8, <1>9, <1>10, <1>11, <1>12

\* A timer taken out of the list: what is left is still a list of timers.
LEMMA ListShrinks ==
  ASSUME TypeOK, IsInjective(list), NEW t, list' = RemoveFirst(list, t), UNCHANGED timer
  PROVE  /\ list' \in Seq(Made) /\ Made' = Made
         /\ IsInjective(list)' /\ ToSet(list)' = ToSet(list) \ {t}
<1>1. list \in Seq(Made)
  BY DEF TypeOK
<1> QED
  BY <1>1, RemovedSet DEF Made

\* del_time_job, first part: the lock is free, so no walk is at the timer.
LEMMA DelNodeKeeps ==
  ASSUME TimerInv, NEW a \in Actors, del_time_node(a)
  PROVE  /\ TimerInv' /\ Made' = Made /\ UNCHANGED freed
         /\ \A t \in ToSet(list) : t \in ToSet(list)' \/ del'[a].node = t
         /\ \A b \in Actors : b # a => del'[b] = del[b]
         /\ del[a].node = End
<1> USE DEF TimerInv
<1>0. /\ TypeOK /\ End \notin Made /\ ToSet(list) \subseteq Made /\ freed \subseteq Made
      /\ ToSet(list) \cap freed = {}
  BY TimeSets DEF TypeOK
<1>1. /\ del[a].pc = "want" /\ lock = {} /\ del[a].node = End
      /\ UNCHANGED <<now, timer, freed, runs, lock, walkVars>>
  BY DEF del_time_node, Unlinked
<1>2. PICK key : /\ list' = RemoveFirst(list, find_time_jobs(key))
                 /\ del' = [del EXCEPT ![a] =
                              IF find_time_jobs(key) = End THEN NoCall
                              ELSE [pc |-> "free", key |-> {}, node |-> find_time_jobs(key)]]
  BY DEF del_time_node
<1>3. PICK t \in ToSet(list) \cup {End} : t = find_time_jobs(key)
  BY <1>0, FindInList
<1>4. PICK call : call = IF t = End THEN NoCall ELSE [pc |-> "free", key |-> {}, node |-> t]
  OBVIOUS
<1>5. /\ list' = RemoveFirst(list, t) /\ del' = [del EXCEPT ![a] = call]
  BY <1>2, <1>3, <1>4
<1>6. /\ list' \in Seq(Made) /\ Made' = Made
      /\ IsInjective(list)' /\ ToSet(list)' = ToSet(list) \ {t}
  BY <1>0, <1>1, <1>5, ListShrinks
<1>7. /\ call \in [pc : {"idle", "want", "free"}, key : SUBSET Keys, node : Made \cup {End}]
      /\ call.node = t
      /\ call.pc = "free" <=> t # End
  BY <1>0, <1>4 DEF NoCall
<1>8. /\ del \in [Actors -> [pc : {"idle", "want", "free"}, key : SUBSET Keys, node : Made \cup {End}]]
  BY <1>0 DEF TypeOK
<1>9. del'[a] = call /\ \A b \in Actors : b # a => del'[b] = del[b]
  BY <1>5, <1>8
<1>10. TypeOK'
  <2>1. del' \in [Actors -> [pc : {"idle", "want", "free"}, key : SUBSET Keys, node : Made \cup {End}]]
    BY <1>5, <1>7, <1>8
  <2> QED
    BY <1>0, <1>1, <1>6, <2>1 DEF TypeOK, walkVars
<1>11. pc \in {"idle", "lock"} /\ itr = End
  BY <1>0, <1>1 DEF TypeOK, LockHeld, WalkPlace
<1>12. LockHeld' /\ WalkPlace'
  BY <1>1, <1>11 DEF LockHeld, WalkPlace, walkVars
<1>13. Unlinked'
  <2>1. ASSUME NEW b \in Actors
        PROVE  IF del'[b].pc = "free" THEN del'[b].node \in Made' \ (ToSet(list)' \cup freed')
               ELSE del'[b].node = End
    <3>1. CASE b = a
      BY <3>1, <1>0, <1>1, <1>6, <1>7, <1>9
    <3>2. CASE b # a
      BY <3>2, <1>1, <1>6, <1>9 DEF Unlinked
    <3> QED
      BY <3>1, <3>2
  <2>2. ASSUME NEW b \in Actors, b # a, t # End PROVE del[b].node # t
    BY <2>2, <1>0 DEF Unlinked
  <2>3. ASSUME NEW b \in Actors, NEW c \in Actors, del'[b].node = del'[c].node, del'[b].node # End
        PROVE  b = c
    <3>1. CASE b # a /\ c # a
      BY <3>1, <2>3, <1>9 DEF Unlinked
    <3>2. CASE b = a /\ c # a
      BY <3>2, <2>2, <2>3, <1>7, <1>9
    <3>3. CASE b # a /\ c = a
      BY <3>3, <2>2, <2>3, <1>7, <1>9
    <3> QED
      BY <3>1, <3>2, <3>3
  <2> QED
    BY <2>1, <2>3 DEF Unlinked
<1>14. OnceShape'
  BY <1>1, <1>6 DEF OnceShape, walkVars
<1>15. \A u \in ToSet(list) : u \in ToSet(list)' \/ del'[a].node = u
  BY <1>6, <1>7, <1>9
<1> QED
  BY <1>0, <1>1, <1>6, <1>9, <1>10, <1>12, <1>13, <1>14, <1>15

\* del_time_job, second part: the unlinked timer is deleted.
LEMMA DelFreeKeeps ==
  ASSUME TimerInv, NEW a \in Actors, del_free(a)
  PROVE  /\ TimerInv' /\ Made' = Made /\ UNCHANGED list
         /\ freed' = freed \cup {del[a].node}
         /\ \A b \in Actors : b # a => del'[b] = del[b]
<1> USE DEF TimerInv
<1>0. TypeOK /\ End \notin Made /\ ToSet(list) \subseteq Made
  BY TimeSets
<1>1. /\ del[a].pc = "free" /\ freed' = freed \cup {del[a].node}
      /\ del' = [del EXCEPT ![a] = NoCall]
      /\ UNCHANGED <<now, timer, list, runs, lock, walkVars>>
  BY DEF del_free
<1>2. /\ del \in [Actors -> [pc : {"idle", "want", "free"}, key : SUBSET Keys, node : Made \cup {End}]]
      /\ NoCall \in [pc : {"idle", "want", "free"}, key : SUBSET Keys, node : Made \cup {End}]
      /\ NoCall.pc # "free" /\ NoCall.node = End
  BY <1>0 DEF TypeOK, NoCall
<1>3. del[a].node \in Made \ (ToSet(list) \cup freed) /\ Made' = Made /\ ToSet(list)' = ToSet(list)
  BY <1>1 DEF Unlinked, Made, ToSet
<1>4. del'[a] = NoCall /\ \A b \in Actors : b # a => del'[b] = del[b]
  BY <1>1, <1>2
<1>5. TypeOK'
  <2>1. del' \in [Actors -> [pc : {"idle", "want", "free"}, key : SUBSET Keys, node : Made \cup {End}]]
    BY <1>1, <1>2
  <2> QED
    BY <1>0, <1>1, <1>3, <2>1 DEF TypeOK, walkVars
<1>6. IsInjective(list)' /\ (ToSet(list) \cap freed = {})'
  BY <1>1, <1>3
<1>7. LockHeld' /\ WalkPlace' /\ OnceShape'
  BY <1>1, <1>3 DEF LockHeld, WalkPlace, OnceShape, walkVars
<1>8. Unlinked'
  <2>1. ASSUME NEW b \in Actors
        PROVE  IF del'[b].pc = "free" THEN del'[b].node \in Made' \ (ToSet(list)' \cup freed')
               ELSE del'[b].node = End
    <3>1. CASE b = a
      BY <3>1, <1>2, <1>4
    <3>2. CASE b # a
      <4>1. CASE del[b].pc = "free"
        <5>1. del[b].node \in Made \ (ToSet(list) \cup freed) /\ del[b].node # del[a].node
          BY <3>2, <4>1, <1>0, <1>3 DEF Unlinked
        <5> QED
          BY <3>2, <4>1, <5>1, <1>1, <1>3, <1>4
      <4>2. CASE del[b].pc # "free"
        BY <3>2, <4>2, <1>4 DEF Unlinked
      <4> QED
        BY <4>1, <4>2
    <3> QED
      BY <3>1, <3>2
  <2>2. ASSUME NEW b \in Actors, NEW c \in Actors, del'[b].node = del'[c].node, del'[b].node # End
        PROVE  b = c
    BY <2>2, <1>2, <1>4 DEF Unlinked
  <2> QED
    BY <2>1, <2>2 DEF Unlinked
<1> QED
  BY <1>1, <1>3, <1>4, <1>5, <1>6, <1>7, <1>8

\* The steps of del_time_job's call, of the clock and of the timer functions
\* that leave the list and the walk alone.
LEMMA OtherKeeps ==
  ASSUME TimerInv,
         \/ Tick \/ run \/ UNCHANGED vars
         \/ \E a \in Actors, key \in Keys : del_time_job(a, key)
         \/ \E a \in PoolThreads : doit_join(a)
  PROVE  /\ TimerInv' /\ Made' = Made /\ UNCHANGED <<list, freed>>
         /\ \A a \in Actors : del'[a].node = del[a].node
<1> USE DEF TimerInv
<1>0. TypeOK /\ now \in 0 .. MaxTime /\ MaxTime \in Nat
  BY TimerBounds DEF TypeOK
<1>1. /\ UNCHANGED <<timer, list, freed, runs, lock, itr, cur>>
      /\ Made' = Made /\ ToSet(list)' = ToSet(list)
      /\ IsInjective(list)' /\ (ToSet(list) \cap freed = {})'
  BY DEF Tick, run, vars, walkVars, del_time_job, doit_join, Made, ToSet, IsInjective
<1>2. CASE Tick
  BY <1>0, <1>1, <1>2 DEF Tick, TypeOK, LockHeld, WalkPlace, Unlinked, OnceShape, walkVars
<1>3. CASE run
  BY <1>0, <1>1, <1>3 DEF run, TypeOK, LockHeld, WalkPlace, Unlinked, OnceShape
<1>4. CASE UNCHANGED vars
  BY <1>0, <1>1, <1>4 DEF vars, TypeOK, LockHeld, WalkPlace, Unlinked, OnceShape, walkVars
<1>5. ASSUME NEW a \in Actors, NEW key \in Keys, del_time_job(a, key)
      PROVE  TimerInv' /\ \A b \in Actors : del'[b].node = del[b].node
  <2> DEFINE call == [pc |-> "want", key |-> {key}, node |-> End]
             Calls == [pc : {"idle", "want", "free"}, key : SUBSET Keys, node : Made \cup {End}]
  <2>1. call \in Calls /\ call.pc = "want" /\ call.node = End
    OBVIOUS
  <2>2. del \in [Actors -> Calls]
    BY <1>0 DEF TypeOK
  <2>3. del[a].pc = "idle" /\ del' = [del EXCEPT ![a] = call] /\ UNCHANGED <<now, walkVars>>
    BY <1>5 DEF del_time_job, CanCall
  <2> HIDE DEF call, Calls
  <2>4. del' \in [Actors -> Calls] /\ del'[a] = call /\ \A b \in Actors : b # a => del'[b] = del[b]
    BY <2>1, <2>2, <2>3
  <2>5. del[a].node = End
    BY <2>3 DEF Unlinked
  <2>6. \A b \in Actors : del'[b].node = del[b].node /\ (del'[b].pc = "free" <=> del[b].pc = "free")
    BY <2>1, <2>3, <2>4, <2>5
  <2>7. TypeOK'
    <3> USE DEF Calls
    <3> QED
      BY <1>0, <1>1, <2>3, <2>4 DEF TypeOK, walkVars
  <2>8. Unlinked'
    BY <1>1, <2>6 DEF Unlinked
  <2>9. LockHeld' /\ WalkPlace' /\ OnceShape'
    BY <1>1, <2>3 DEF LockHeld, WalkPlace, OnceShape, walkVars
  <2> QED
    BY <1>1, <2>6, <2>7, <2>8, <2>9
<1>6. ASSUME NEW a \in PoolThreads, doit_join(a)
      PROVE  TimerInv' /\ UNCHANGED del
  BY <1>0, <1>1, <1>6 DEF doit_join, TypeOK, LockHeld, WalkPlace, Unlinked, OnceShape
<1> QED
  BY <1>1, <1>2, <1>3, <1>4, <1>5, <1>6 DEF Tick, run, vars

\* walk_begin takes the lock; walk_end, with the iterator at End, gives it back.
LEMMA WalkEndsKeep ==
  ASSUME TimerInv, walk_begin \/ walk_end
  PROVE  TimerInv' /\ Made' = Made /\ UNCHANGED <<list, freed, del>>
<1> USE DEF TimerInv
<1>0. TypeOK /\ ToSet(list) \subseteq Made
  BY TimeSets
<1>1. /\ UNCHANGED <<now, timer, list, freed, runs, nowtime, joined, del>>
      /\ Made' = Made /\ ToSet(list)' = ToSet(list)
      /\ IsInjective(list)' /\ (ToSet(list) \cap freed = {})'
  BY DEF walk_begin, walk_end, Made, ToSet, IsInjective
<1>2. CASE walk_begin
  <2>1. itr' \in ToSet(list) \cup {End}
    BY <1>2, <1>0, FirstInList DEF walk_begin
  <2>2. lock' = {Loop0} /\ pc = "lock" /\ pc' = "walk" /\ cur' = cur
    BY <1>2 DEF walk_begin
  <2>3. TypeOK'
    BY <1>0, <1>1, <2>1, <2>2 DEF TypeOK, Actors
  <2> QED
    BY <1>1, <2>1, <2>2, <2>3 DEF LockHeld, WalkPlace, Unlinked, OnceShape
<1>3. CASE walk_end
  <2>1. lock' = {} /\ pc = "walk" /\ pc' = "idle" /\ cur' = End /\ itr = End /\ itr' = End
    BY <1>3 DEF walk_end, LockAfterWalk
  <2>2. TypeOK'
    BY <1>0, <1>1, <2>1 DEF TypeOK
  <2> QED
    BY <1>1, <2>1, <2>2 DEF LockHeld, WalkPlace, Unlinked, OnceShape
<1> QED
  BY <1>1, <1>2, <1>3

\* One timer of the walk, expired or not.
LEMMA WalkNextKeeps ==
  ASSUME TimerInv, walk_next
  PROVE  TimerInv' /\ Made' = Made /\ UNCHANGED <<list, freed, del>>
<1> DEFINE Rec == [key : Keys, period : Periods, once : BOOLEAN, expire : Nat]
<1> USE DEF TimerInv
<1>0. /\ TypeOK /\ ToSet(list) \subseteq Made /\ End \notin Made /\ Made = DOMAIN timer
      /\ Len(timer) \in Nat /\ Made = 1 .. Len(timer)
      /\ \A t \in Made : timer[t] \in Rec
  BY TimeSets DEF Made
<1>1. /\ pc = "walk" /\ itr # End /\ cur' = itr /\ itr' = NextNode(itr)
      /\ UNCHANGED <<now, list, freed, nowtime, joined, del>>
  BY DEF walk_next
<1>2. /\ itr \in ToSet(list) /\ itr \in Made /\ lock = {Loop0}
      /\ itr' \in (ToSet(list) \ {itr}) \cup {End}
  <2>1. itr \in ToSet(list) /\ lock = {Loop0}
    BY <1>1 DEF WalkPlace, LockHeld
  <2> QED
    BY <2>1, <1>0, <1>1, NextInList
<1>3. ToSet(list)' = ToSet(list) /\ IsInjective(list)' /\ (ToSet(list) \cap freed = {})'
  BY <1>1 DEF ToSet, IsInjective
<1>4. CASE ~is_expired(itr)
  <2>1. UNCHANGED <<timer, runs, pc, lock>>
    BY <1>4 DEF walk_next
  <2>2. Made' = Made
    BY <2>1 DEF Made
  <2>3. TypeOK'
    BY <1>0, <1>1, <1>2, <2>1, <2>2 DEF TypeOK
  <2>4. OnceShape'
    BY <1>1, <1>3, <2>1, <2>2 DEF OnceShape
  <2> QED
    BY <1>1, <1>2, <1>3, <2>1, <2>2, <2>3, <2>4 DEF LockHeld, WalkPlace, Unlinked
<1>5. CASE is_expired(itr)
  <2>1. /\ timer' = [timer EXCEPT ![itr].expire = nowtime + timer[itr].period]
        /\ runs' = [runs EXCEPT ![itr] = IF @ < 2 THEN @ + 1 ELSE 2]
        /\ pc' = "doit" /\ lock' = {Loop0}
    BY <1>2, <1>5 DEF walk_next, LockInCallback
  <2>2. PICK e : e = [timer[itr] EXCEPT !.expire = nowtime + timer[itr].period]
    OBVIOUS
  <2>3. e \in Rec /\ e.once = timer[itr].once
    <3>0. timer[itr] \in Rec
      BY <1>0, <1>2
    <3>1. nowtime \in Nat
      BY <1>0, TimerBounds DEF TypeOK
    <3>2. timer[itr].period \in Nat
      BY <3>0, TimerBounds
    <3> QED
      BY <2>2, <3>0, <3>1, <3>2
  <2>4. timer' = [timer EXCEPT ![itr] = e]
    BY <2>1, <2>2
  <2>5. /\ timer' \in Seq(Rec) /\ Len(timer') = Len(timer)
        /\ \A t \in Made : timer'[t] = IF t = itr THEN e ELSE timer[t]
    <3>1. timer \in Seq(Rec) /\ itr \in 1 .. Len(timer)
      BY <1>0, <1>2 DEF TypeOK
    <3> HIDE DEF Rec
    <3> QED
      BY <1>0, <2>3, <2>4, <3>1, ExceptSeq
  <2>6. Made' = Made /\ \A t \in Made : timer'[t].once = timer[t].once
    BY <2>3, <2>5 DEF Made
  <2>7. /\ runs \in [1 .. MaxTimers -> 0 .. 2] /\ itr \in 1 .. MaxTimers
        /\ Len(timer) <= MaxTimers
    BY <1>0, <1>2, TimerBounds DEF TypeOK, OnceShape
  <2>8. /\ runs' \in [1 .. MaxTimers -> 0 .. 2]
        /\ runs'[itr] = IF runs[itr] < 2 THEN runs[itr] + 1 ELSE 2
        /\ \A t \in 1 .. MaxTimers : t # itr => runs'[t] = runs[t]
    BY <2>1, <2>7
  <2>9. TypeOK'
    BY <1>0, <1>1, <1>2, <2>1, <2>5, <2>6, <2>8 DEF TypeOK, Actors
  <2>10. OnceShape'
    <3>1. ASSUME NEW t \in Made', timer'[t].once, runs'[t] > 0
          PROVE  runs'[t] = 1 /\ ((pc' = "doit" /\ cur' = t) \/ t \notin ToSet(list)')
      <4>1. t \in Made /\ t \in 1 .. MaxTimers /\ timer[t].once
        BY <3>1, <1>0, <2>6, <2>7, TimerBounds
      <4>2. CASE t = itr
        <5>1. ~(runs[t] > 0)
          BY <4>1, <4>2, <1>1, <1>2 DEF OnceShape
        <5>2. runs[t] = 0
          BY <4>1, <5>1, <2>7
        <5> QED
          BY <4>2, <5>2, <2>1, <2>8, <1>1
      <4>3. CASE t # itr
        <5>1. runs[t] > 0 /\ runs'[t] = runs[t]
          BY <3>1, <4>1, <4>3, <2>8
        <5>2. runs[t] = 1 /\ t \notin ToSet(list)
          BY <4>1, <5>1, <1>1 DEF OnceShape
        <5> QED
          BY <5>1, <5>2, <1>3
      <4> QED
        BY <4>2, <4>3
    <3>2. \A t \in 1 .. MaxTimers : t > Len(timer') => runs'[t] = 0
      BY <1>0, <1>2, <2>5, <2>7, <2>8 DEF OnceShape
    <3> QED
      BY <3>1, <3>2, <2>5, <2>7 DEF OnceShape
  <2>11. Unlinked'
    BY <1>1, <1>3, <2>6 DEF Unlinked
  <2>12. LockHeld' /\ WalkPlace'
    BY <1>1, <1>2, <1>3, <2>1 DEF LockHeld, WalkPlace
  <2> QED
    BY <1>1, <1>3, <2>6, <2>9, <2>10, <2>11, <2>12
<1> QED
  BY <1>1, <1>4, <1>5

\* The function has returned; a timer that runs once is unlinked and deleted.
LEMMA ReturnKeeps ==
  ASSUME TimerInv, doit_return
  PROVE  /\ TimerInv' /\ Made' = Made /\ UNCHANGED del /\ freed \subseteq freed'
         /\ \A t \in ToSet(list) : t \in ToSet(list)' \/ t \in freed'
<1> USE DEF TimerInv
<1>0. /\ TypeOK /\ ToSet(list) \subseteq Made /\ End \notin Made
  BY TimeSets
<1>1. /\ pc = "doit" /\ pc' = "walk" /\ lock' = {Loop0} /\ joined' = {}
      /\ UNCHANGED <<now, timer, runs, nowtime, itr, cur, del>>
      /\ Made' = Made
  BY DEF doit_return, Made
<1>2. cur \in ToSet(list) /\ itr # cur /\ cur \in Made
  BY <1>0, <1>1 DEF WalkPlace
<1>3. CASE ~timer[cur].once
  <2>1. OnceDone = {} /\ UNCHANGED <<list, freed>>
    BY <1>3 DEF doit_return, OnceDone
  <2>2. ToSet(list)' = ToSet(list) /\ IsInjective(list)' /\ (ToSet(list) \cap freed = {})'
    BY <2>1 DEF ToSet, IsInjective
  <2>3. TypeOK'
    BY <1>0, <1>1, <2>1 DEF TypeOK, Actors
  <2>4. OnceShape'
    BY <1>1, <1>3, <2>2 DEF OnceShape
  <2>5. LockHeld' /\ WalkPlace' /\ Unlinked'
    BY <1>1, <2>1, <2>2 DEF LockHeld, WalkPlace, Unlinked
  <2> QED
    BY <1>1, <2>1, <2>2, <2>3, <2>4, <2>5
<1>4. CASE timer[cur].once
  <2>1. list' = RemoveFirst(list, cur) /\ freed' = freed \cup {cur}
    BY <1>4 DEF doit_return, OnceDone
  <2>2. list' \in Seq(Made) /\ IsInjective(list)' /\ ToSet(list)' = ToSet(list) \ {cur}
    BY <1>0, <1>1, <2>1, ListShrinks
  <2>3. TypeOK'
    BY <1>0, <1>1, <1>2, <2>1, <2>2 DEF TypeOK, Actors
  <2>4. (ToSet(list) \cap freed = {})'
    BY <2>1, <2>2
  <2>5. OnceShape'
    BY <1>1, <1>2, <2>2 DEF OnceShape
  <2>6. LockHeld' /\ WalkPlace'
    BY <1>1, <1>2, <2>2 DEF LockHeld, WalkPlace
  <2>7. Unlinked'
    BY <1>1, <1>2, <2>1, <2>2 DEF Unlinked
  <2> QED
    BY <1>1, <2>1, <2>2, <2>3, <2>4, <2>5, <2>6, <2>7
<1> QED
  BY <1>3, <1>4

LEMMA TimerInit == Init => TimerInv
<1> SUFFICES ASSUME Init PROVE TimerInv
  OBVIOUS
<1>1. Len(timer) = 0 /\ Made = {} /\ ToSet(list) = {} /\ list = <<>> /\ timer = <<>>
  BY DEF Init, Made, ToSet
<1>2. TypeOK
  BY <1>1, TimerBounds, EmptySeq DEF Init, TypeOK, NoCall
<1>3. IsInjective(list)
  BY <1>1 DEF IsInjective
<1>4. LockHeld /\ WalkPlace /\ Unlinked /\ OnceShape
  BY <1>1, TimerBounds DEF Init, LockHeld, WalkPlace, Unlinked, OnceShape, NoCall
<1> QED
  BY <1>1, <1>2, <1>3, <1>4 DEF TimerInv

LEMMA TimerStep == TimerInv /\ [Next]_vars => TimerInv'
  BY AddKeeps, DelNodeKeeps, DelFreeKeeps, OtherKeeps, WalkEndsKeep, WalkNextKeeps, ReturnKeeps
     DEF Next, Walk

\* The invariant holds, whatever rules the application obeys.
THEOREM TimersConsistent == Spec => []TimerInv
  BY TimerInit, TimerStep, PTL DEF Spec

\* The variables of CTimeJobMgr keep their types, whatever rules the
\* application obeys.
THEOREM TimerTypes == Spec => []TypeOK
<1>1. TimerInv => TypeOK
  BY DEF TimerInv
<1> QED
  BY <1>1, TimersConsistent, PTL

\* time_job_walk never meets a deleted timer, nor is the timer whose function
\* runs deleted, whatever rules the application obeys: del_time_job waits for
\* the walk (CJobTime.cpp:103-131, 177-195).
THEOREM WalkIsSafe == Spec => []WalkSafe
<1>1. TimerInv => WalkSafe
  BY DEF TimerInv, WalkPlace, WalkSafe
<1> QED
  BY <1>1, TimersConsistent, PTL

\* The function of a timer that is to run once is called at most once, whatever
\* rules the application obeys and however many walks there are.
THEOREM OneShotsRunOnce == Spec => []OnceRunsOnce
<1>1. TimerInv => OnceRunsOnce
  <2> SUFFICES ASSUME TimerInv, NEW t \in Made, timer[t].once PROVE runs[t] <= 1
    BY DEF OnceRunsOnce
  <2>1. runs[t] \in 0 .. 2
    BY TimeSets, TimerBounds DEF TimerInv, TypeOK, OnceShape, Made
  <2>2. runs[t] > 0 => runs[t] = 1
    BY DEF TimerInv, OnceShape
  <2> QED
    BY <2>1, <2>2
<1> QED
  BY <1>1, TimersConsistent, PTL
-----------------------------------------------------------------------------
(* No timer is lost.  add_time_job pushes without the lock: a push while   *)
(* another thread changes the list may be lost, and quietAdd excludes it.  *)

LEMMA LostInit == Init => NoneLost
<1> SUFFICES ASSUME Init PROVE Made = {}
  BY DEF NoneLost
<1>1. timer = <<>>
  BY DEF Init
<1> QED
  BY <1>1 DEF Made

LEMMA LostStep ==
  ASSUME "quietAdd" \in Rules
  PROVE  TimerInv /\ NoneLost /\ [Next]_vars => NoneLost'
<1> SUFFICES ASSUME TimerInv, NoneLost, [Next]_vars PROVE NoneLost'
  OBVIOUS
<1>0. Loop0 \in Actors /\ End \notin Made
  BY TimeSets DEF TimerInv
<1>1. ASSUME NEW a \in Actors, NEW key \in Keys, NEW period \in Periods, NEW once \in BOOLEAN,
             add_time_job(a, key, period, once)
      PROVE  NoneLost'
  <2>1. lock \ {a} = {}
    <3>1. CASE a = Loop0
      BY <3>1 DEF TimerInv, LockHeld
    <3>2. CASE a # Loop0
      BY <1>1, <3>2 DEF add_time_job
    <3> QED
      BY <3>1, <3>2
  <2>2. UNCHANGED <<freed, del>>
    BY <1>1 DEF add_time_job
  <2> QED
    BY <1>1, <2>1, <2>2, AddKeeps DEF NoneLost
<1>2. ASSUME NEW a \in Actors, del_time_node(a) PROVE NoneLost'
  <2> SUFFICES ASSUME NEW t \in Made
               PROVE  t \in ToSet(list)' \/ t \in freed' \/ \E b \in Actors : del'[b].node = t
    BY <1>2, DelNodeKeeps DEF NoneLost
  <2>1. CASE t \in ToSet(list) \cup freed
    BY <1>2, <2>1, DelNodeKeeps
  <2>2. ASSUME NEW b \in Actors, del[b].node = t PROVE del'[b].node = t
    BY <1>0, <1>2, <2>2, DelNodeKeeps
  <2> QED
    BY <2>1, <2>2 DEF NoneLost
<1>3. ASSUME NEW a \in Actors, del_free(a) PROVE NoneLost'
  <2> SUFFICES ASSUME NEW t \in Made
               PROVE  t \in ToSet(list)' \/ t \in freed' \/ \E b \in Actors : del'[b].node = t
    BY <1>3, DelFreeKeeps DEF NoneLost
  <2>1. UNCHANGED list /\ ToSet(list)' = ToSet(list)
    BY <1>3, DelFreeKeeps DEF ToSet
  <2>2. CASE t \in ToSet(list) \cup freed
    BY <1>3, <2>1, <2>2, DelFreeKeeps
  <2>3. ASSUME NEW b \in Actors, del[b].node = t PROVE del'[b].node = t \/ t \in freed'
    BY <1>3, <2>3, DelFreeKeeps
  <2> QED
    BY <2>2, <2>3 DEF NoneLost
<1>4. CASE walk_begin \/ walk_end \/ walk_next
  BY <1>4, WalkEndsKeep, WalkNextKeeps DEF NoneLost, ToSet
<1>5. CASE doit_return
  BY <1>5, ReturnKeeps DEF NoneLost
<1>6. CASE \/ Tick \/ run \/ UNCHANGED vars
           \/ \E a \in Actors, key \in Keys : del_time_job(a, key)
           \/ \E a \in PoolThreads : doit_join(a)
  BY <1>6, OtherKeeps DEF NoneLost, ToSet
<1> QED
  BY <1>1, <1>2, <1>3, <1>4, <1>5, <1>6 DEF Next, Walk

\* When no other thread adds a timer during a walk, every timer is in the list
\* once, with a del_time_job that is about to free it, or freed: none is lost
\* and none is freed twice.
THEOREM TimersInOnePlace ==
  ASSUME "quietAdd" \in Rules
  PROVE  Spec => []TimerInOnePlace
<1>1. TimerInv /\ NoneLost => TimerInOnePlace
  <2> SUFFICES ASSUME TimerInv, NoneLost PROVE TimerInOnePlace
    OBVIOUS
  <2>1. IsInjective(list) /\ ToSet(list) \cap freed = {} /\ End \notin Made
    BY TimeSets DEF TimerInv
  <2>2. ASSUME NEW t \in Made, NEW a \in Actors, del[a].node = t
        PROVE  t \notin ToSet(list) /\ t \notin freed
    BY <2>1, <2>2 DEF TimerInv, Unlinked
  <2>3. ASSUME NEW t \in Made, NEW a \in Actors, NEW b \in Actors, del[a].node = t, del[b].node = t
        PROVE  a = b
    BY <2>1, <2>3 DEF TimerInv, Unlinked
  <2> QED
    BY <2>1, <2>2, <2>3 DEF TimerInOnePlace, NoneLost
<1> QED
  BY <1>1, TimersConsistent, LostInit, LostStep, PTL DEF Spec
=============================================================================
