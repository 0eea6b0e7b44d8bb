----------------------------- MODULE UtilProofs -----------------------------
(***************************************************************************)
(* Proofs about the memory pool, for any number of blocks, about the queue *)
(* of squeue.h, for any heads and nodes, and about the logger, for any     *)
(* callers, ring and files.                                                *)
(***************************************************************************)
EXTENDS MemPool, Squeue, LogProc, SequenceTheorems, FiniteSetTheorems, TLAPS

-----------------------------------------------------------------------------
(* The memory pool.  BlocksAccounted counts the free blocks; inductive is  *)
(* what the counting follows from: the used slots of the stack hold        *)
(* different blocks, those that the user does not have.                    *)

MemInv ==
    /\ m_stack \in [0 .. m_node_cnt - 1 -> Blocks]
    /\ m_stack_idx \in 0 .. m_node_cnt
    /\ \A i, j \in 0 .. m_stack_idx - 1 : m_stack[i] = m_stack[j] => i = j
    /\ inUse \subseteq Blocks
    /\ \A i \in 0 .. m_stack_idx - 1 : m_stack[i] \notin inUse
    /\ \A b \in Blocks : b \in inUse \/ \E i \in 0 .. m_stack_idx - 1 : m_stack[i] = b

\* As many blocks are free as slots are used.
LEMMA FreeBlocks ==
  ASSUME MemInv
  PROVE  IsFiniteSet(Free) /\ Cardinality(Free) = m_stack_idx /\ Free \subseteq Blocks
<1> DEFINE S == 0 .. m_stack_idx - 1
           f == [i \in S |-> m_stack[i]]
<1>1. m_node_cnt \in Nat /\ m_stack_idx \in Nat /\ m_stack_idx <= m_node_cnt
  BY MemPoolAssumption DEF MemInv
<1>2. IsFiniteSet(S) /\ Cardinality(S) = m_stack_idx
  <2>1. IsFiniteSet(S) /\ Cardinality(S) = IF 0 > m_stack_idx - 1 THEN 0 ELSE m_stack_idx - 1 - 0 + 1
    BY <1>1, FS_Interval, m_stack_idx - 1 \in Int, 0 \in Int
  <2> QED
    BY <1>1, <2>1
<1>3. f \in Bijection(S, Free)
  <2>1. f \in [S -> Free] /\ DOMAIN f = S
    BY DEF Free
  <2>2. IsInjective(f)
    BY DEF IsInjective, MemInv
  <2>3. \A t \in Free : \E i \in S : f[i] = t
    BY DEF Free
  <2> QED
    BY <2>1, <2>2, <2>3 DEF Bijection, Injection, Surjection
<1>4. Free \subseteq Blocks
  BY <1>1 DEF Free, MemInv
<1> QED
  BY <1>2, <1>3, <1>4, FS_Bijection DEF ExistsBijection

LEMMA MemStart == MemInit => MemInv
  BY MemPoolAssumption DEF MemInit, MemInv, AllPushed, Blocks

\* mpool_malloc hands out a free block, and mpool_new_obj is not used on a
\* stack that holds one.
LEMMA MallocKeeps ==
  ASSUME MemInv, "mallocOnly" \in PoolHabits, mpool_malloc \/ mpool_new_obj
  PROVE  MemInv'
<1> USE MemPoolAssumption
<1>1. CASE Empty
  BY <1>1 DEF Empty, MemInv
<1>2. CASE Take(StackSlot(m_stack_idx - 1)) /\ m_stack_idx > 0
  <2> DEFINE top == m_stack_idx - 1
  <2>1. /\ top \in 0 .. m_node_cnt - 1 /\ m_stack_idx = top + 1 /\ m_stack_idx' = top
        /\ m_stack' = m_stack
        /\ top < m_node_cnt
    BY <1>2 DEF MemInv, Take
  <2> HIDE DEF top
  <2>2. StackSlot(top) = m_stack[top] /\ m_stack[top] \in Blocks
    BY <2>1 DEF StackSlot, MemInv
  <2>3. inUse' = inUse \cup {m_stack[top]}
    BY <1>2, <2>2 DEF Take, top
  <2>4. \A i \in 0 .. top - 1 : i \in 0 .. m_stack_idx - 1 /\ i # top
    BY <2>1
  <2>5. top \in 0 .. m_stack_idx - 1 /\ \A i \in 0 .. m_stack_idx - 1 : i = top \/ i \in 0 .. top - 1
    BY <2>1
  <2>6. \A i, j \in 0 .. top - 1 : m_stack[i] = m_stack[j] => i = j
    BY <2>4 DEF MemInv
  <2>7. \A i \in 0 .. top - 1 : m_stack[i] \notin inUse \cup {m_stack[top]}
    BY <2>4, <2>5 DEF MemInv
  <2>8. \A b \in Blocks : b \in inUse \cup {m_stack[top]} \/ \E i \in 0 .. top - 1 : m_stack[i] = b
    BY <2>5 DEF MemInv
  <2>9. top \in 0 .. m_node_cnt
    BY <2>1
  <2>10. Blocks' = Blocks
    BY DEF Blocks
  <2> QED
    BY <2>1, <2>2, <2>3, <2>6, <2>7, <2>8, <2>9, <2>10 DEF MemInv
<1>3. CASE Take(StackSlot(m_stack_idx)) /\ m_stack_idx = 0
  BY <1>3 DEF Take
<1> QED
  BY <1>1, <1>2, <1>3 DEF mpool_malloc, mpool_new_obj, Take

\* mpool_free puts a block back; the stack is not full when the user has one.
LEMMA FreeKeeps ==
  ASSUME MemInv, "freeOwn" \in PoolHabits, NEW b \in Blocks, mpool_free(b)
  PROVE  MemInv'
<1> USE MemPoolAssumption
<1>1. b \in inUse /\ inUse' = inUse \ {b}
  BY DEF mpool_free
<1>2. m_stack_idx < m_node_cnt
  <2> SUFFICES ASSUME m_stack_idx = m_node_cnt PROVE FALSE
    BY DEF MemInv
  <2>1. IsFiniteSet(Blocks) /\ Cardinality(Blocks) = m_node_cnt
    <3>1. Cardinality(1 .. m_node_cnt) = IF 1 > m_node_cnt THEN 0 ELSE m_node_cnt - 1 + 1
      BY FS_Interval, 1 \in Int, m_node_cnt \in Int
    <3>2. IsFiniteSet(1 .. m_node_cnt)
      BY FS_Interval, 1 \in Int, m_node_cnt \in Int
    <3> QED
      BY <3>1, <3>2 DEF Blocks
  <2>2. Free = Blocks
    BY <2>1, FreeBlocks, FS_Subset
  <2> QED
    BY <1>1, <2>2 DEF Free, MemInv
<1>3. m_stack' = [m_stack EXCEPT ![m_stack_idx] = b] /\ m_stack_idx' = m_stack_idx + 1
  BY <1>2 DEF mpool_free, MemInv
<1>4. /\ m_stack_idx \in 0 .. m_node_cnt - 1 /\ m_stack_idx' \in 0 .. m_node_cnt
      /\ m_stack_idx \in Nat /\ m_stack_idx' = m_stack_idx + 1
  BY <1>2, <1>3 DEF MemInv
<1>5. /\ m_stack' \in [0 .. m_node_cnt - 1 -> Blocks] /\ m_stack'[m_stack_idx] = b
      /\ \A i \in 0 .. m_stack_idx - 1 : m_stack'[i] = m_stack[i]
  BY <1>3, <1>4 DEF MemInv
<1>6. /\ \A i \in 0 .. m_stack_idx' - 1 : i = m_stack_idx \/ i \in 0 .. m_stack_idx - 1
      /\ m_stack_idx \in 0 .. m_stack_idx' - 1
      /\ \A i \in 0 .. m_stack_idx - 1 : i \in 0 .. m_stack_idx' - 1
  <2>1. PICK k \in Nat : k = m_stack_idx
    BY <1>4
  <2>2. m_stack_idx' - 1 = k
    BY <1>4, <2>1
  <2> QED
    BY <2>1, <2>2
<1>7. ASSUME NEW i \in 0 .. m_stack_idx' - 1, NEW j \in 0 .. m_stack_idx' - 1,
             m_stack'[i] = m_stack'[j]
      PROVE  i = j
  <2>1. \A k \in 0 .. m_stack_idx - 1 : m_stack[k] # b
    BY <1>1 DEF MemInv
  <2>2. CASE i \in 0 .. m_stack_idx - 1 /\ j \in 0 .. m_stack_idx - 1
    <3>1. m_stack[i] = m_stack[j]
      BY <2>2, <1>5, <1>7
    <3> QED
      BY <2>2, <3>1 DEF MemInv
  <2>3. CASE i = m_stack_idx /\ j \in 0 .. m_stack_idx - 1
    BY <2>1, <2>3, <1>5, <1>7
  <2>4. CASE i \in 0 .. m_stack_idx - 1 /\ j = m_stack_idx
    BY <2>1, <2>4, <1>5, <1>7
  <2>5. CASE i = m_stack_idx /\ j = m_stack_idx
    BY <2>5
  <2> QED
    BY <2>2, <2>3, <2>4, <2>5, <1>6
<1>8. \A i \in 0 .. m_stack_idx' - 1 : m_stack'[i] \notin inUse'
  BY <1>1, <1>5, <1>6 DEF MemInv
<1>9. ASSUME NEW c \in Blocks PROVE c \in inUse' \/ \E i \in 0 .. m_stack_idx' - 1 : m_stack'[i] = c
  <2>1. CASE c = b
    BY <2>1, <1>5, <1>6
  <2>2. CASE c # b /\ c \in inUse
    BY <2>2, <1>1
  <2>3. CASE \E i \in 0 .. m_stack_idx - 1 : m_stack[i] = c
    BY <2>3, <1>5, <1>6
  <2> QED
    BY <2>1, <2>2, <2>3 DEF MemInv
<1>10. Blocks' = Blocks /\ inUse' \subseteq Blocks
  BY <1>1 DEF Blocks, MemInv
<1> QED
  BY <1>4, <1>5, <1>7, <1>8, <1>9, <1>10 DEF MemInv

\* mpool_reset, when the user has no block.
LEMMA ResetKeeps ==
  ASSUME MemInv, "resetUnused" \in PoolHabits, mpool_reset
  PROVE  MemInv'
<1>1. m_stack' = AllPushed /\ m_stack_idx' = m_node_cnt /\ inUse' = {}
  BY DEF mpool_reset
<1> QED
  BY <1>1, MemPoolAssumption DEF MemInv, AllPushed, Blocks

\* When blocks are taken with mpool_malloc, freed once and not forgotten by a
\* reset, every block is free or handed out, and never both: no block is handed
\* out twice and none leaks, however many the pool has (mempool.cpp:81-103).
THEOREM PoolAccountsForBlocks ==
  ASSUME PoolHabits = AllPoolHabits
  PROVE  MemSpec => []BlocksAccounted
<1>1. MemInv /\ [MemNext]_memVars => MemInv'
  <2> SUFFICES ASSUME MemInv, [MemNext]_memVars PROVE MemInv'
    OBVIOUS
  <2>1. {"mallocOnly", "freeOwn", "resetUnused"} \subseteq PoolHabits
    BY DEF AllPoolHabits
  <2>2. CASE UNCHANGED memVars
    BY <2>2 DEF memVars, MemInv, Blocks
  <2> QED
    BY <2>1, <2>2, MallocKeeps, FreeKeeps, ResetKeeps DEF MemNext
<1>2. MemInv => BlocksAccounted
  <2> SUFFICES ASSUME MemInv PROVE BlocksAccounted
    OBVIOUS
  <2>1. inUse \cap Free = {} /\ Blocks \subseteq inUse \cup Free /\ inUse \subseteq Blocks
    BY DEF Free, MemInv
  <2> QED
    BY <2>1, FreeBlocks DEF BlocksAccounted
<1> QED
  BY <1>1, <1>2, MemStart, PTL DEF MemSpec
-----------------------------------------------------------------------------
(* The queue.  The pointers of a head are the queue's pointers when they   *)
(* lead through its nodes both ways and the head knows where they end; no  *)
(* node is in two queues or twice in one, so a change of one queue leaves  *)
(* the pointers of the others alone.                                       *)

Ptrs(s, h, f, l, nx, pv) ==
    /\ f = IF s = <<>> THEN NULL ELSE s[1]
    /\ l = IF s = <<>> THEN h ELSE s[Len(s)]
    /\ \A i \in 1 .. Len(s) :
         /\ nx[s[i]] = IF i = Len(s) THEN NULL ELSE s[i + 1]
         /\ pv[s[i]] = IF i = 1 THEN h ELSE s[i - 1]

SqType ==
    /\ first \in [Heads -> Nodes \cup {NULL}]
    /\ last_addr \in [Heads -> Heads \cup Nodes]
    /\ next \in [Nodes -> Nodes \cup {NULL}]
    /\ prev \in [Nodes -> Nodes \cup Heads \cup {NULL}]
    /\ q \in [Heads -> Seq(Nodes)]
    /\ moved \subseteq Heads

Apart(r) ==
    /\ \A h \in Heads : IsInjective(r[h])
    /\ \A g, h \in Heads : g # h => Range(r[g]) \cap Range(r[h]) = {}

SqInv ==
    /\ SqType
    /\ Apart(q)
    /\ \A h \in moved : q[h] = <<>>
    /\ \A h \in Heads \ moved : Ptrs(q[h], h, first[h], last_addr[h], next, prev)

\* A sequence of nodes is a function on 1 .. Len.
LEMMA SeqFacts ==
  ASSUME NEW s \in Seq(Nodes)
  PROVE  /\ Len(s) \in Nat /\ DOMAIN s = 1 .. Len(s)
         /\ \A i \in 1 .. Len(s) : s[i] \in Nodes /\ s[i] \in Range(s)
         /\ Range(s) \subseteq Nodes
         /\ s = <<>> <=> Len(s) = 0
         /\ s = <<>> <=> Range(s) = {}
<1>1. Len(s) \in Nat /\ DOMAIN s = 1 .. Len(s)
  BY LenProperties
<1>2. \A i \in 1 .. Len(s) : s[i] \in Nodes /\ s[i] \in Range(s)
  BY <1>1, ElementOfSeq DEF Range
<1>3. Range(s) \subseteq Nodes
  BY <1>1, <1>2 DEF Range
<1>4. s = <<>> <=> Len(s) = 0
  BY EmptySeq
<1>5. s = <<>> <=> Range(s) = {}
  <2>1. ASSUME Len(s) # 0 PROVE Range(s) # {}
    BY <1>1, <1>2, <2>1, 1 \in 1 .. Len(s)
  <2>2. ASSUME Len(s) = 0 PROVE Range(s) = {}
    BY <1>1, <2>2 DEF Range
  <2> QED
    BY <1>4, <2>1, <2>2
<1> QED
  BY <1>1, <1>2, <1>3, <1>4, <1>5

\* Other nodes' pointers do not matter to a queue.
LEMMA PtrsFrame ==
  ASSUME NEW s \in Seq(Nodes), NEW h, NEW f, NEW l, NEW nx, NEW pv, NEW nx2, NEW pv2,
         Ptrs(s, h, f, l, nx, pv), \A m \in Range(s) : nx2[m] = nx[m] /\ pv2[m] = pv[m]
  PROVE  Ptrs(s, h, f, l, nx2, pv2)
  BY SeqFacts DEF Ptrs

\* The stores of squeue_inq, squeue_insert_prev and squeue_deq, and what
\* InsertAt returns.
Appends(n, f, l, nx, pv, f2, nx2, pv2) ==
    /\ f2 = IF l \in Heads THEN n ELSE f
    /\ nx2 = IF l \in Nodes THEN [[nx EXCEPT ![n] = NULL] EXCEPT ![l] = n] ELSE [nx EXCEPT ![n] = NULL]
    /\ pv2 = [pv EXCEPT ![n] = l]
Inserts(s, i, m, n, f, nx, pv, f2, nx2, pv2) ==
    /\ m = s[i]
    /\ f2 = IF pv[m] \in Heads THEN n ELSE f
    /\ nx2 = IF pv[m] \in Nodes THEN [[nx EXCEPT ![n] = m] EXCEPT ![pv[m]] = n] ELSE [nx EXCEPT ![n] = m]
    /\ pv2 = [pv EXCEPT ![n] = pv[m], ![m] = n]
Deqs(h, f, l, nx, pv, l2, pv2) ==
    /\ l2 = IF nx[f] = NULL THEN h ELSE l
    /\ pv2 = IF nx[f] = NULL THEN pv ELSE [pv EXCEPT ![nx[f]] = pv[f]]
Inserted(r, s, i, n) ==
    /\ r \in Seq(Nodes) /\ Len(r) = Len(s) + 1 /\ r[i] = n
    /\ \A k \in 1 .. Len(s) : k < i => r[k] = s[k]
    /\ \A k \in 1 .. Len(s) : k >= i => r[k + 1] = s[k]

\* squeue_inq: the new node is linked in at last_addr.
LEMMA PtrsAppend ==
  ASSUME NEW s \in Seq(Nodes), NEW n \in Nodes, n \notin Range(s), IsInjective(s),
         NEW h \in Heads, NEW f, NEW l,
         NEW nx \in [Nodes -> Nodes \cup {NULL}], NEW pv \in [Nodes -> Nodes \cup Heads \cup {NULL}],
         Ptrs(s, h, f, l, nx, pv),
         NEW f2, NEW nx2, NEW pv2, Appends(n, f, l, nx, pv, f2, nx2, pv2)
  PROVE  /\ Ptrs(Append(s, n), h, f2, n, nx2, pv2)
         /\ l \in Heads => l = h
         /\ l \in Nodes => l \in Range(s)
         /\ l \in Heads \cup Nodes
<1> USE SqueueAssumption
<1>1. /\ Len(s) \in Nat /\ DOMAIN s = 1 .. Len(s)
      /\ \A i \in 1 .. Len(s) : s[i] \in Nodes /\ s[i] \in Range(s) /\ s[i] # n
      /\ s = <<>> <=> Len(s) = 0
  BY SeqFacts
<1>2. PICK r : r = Append(s, n)
  OBVIOUS
<1>3. /\ r # <<>> /\ Len(r) = Len(s) + 1 /\ r[Len(s) + 1] = n
      /\ \A i \in 1 .. Len(s) : r[i] = s[i]
  BY <1>2, AppendProperties
<1>4. \A i, j \in 1 .. Len(s) : s[i] = s[j] => i = j
  BY <1>1 DEF IsInjective
<1>5. CASE s = <<>>
  <2>1. l = h /\ l \notin Nodes /\ f2 = n /\ nx2[n] = NULL /\ pv2[n] = h /\ Len(s) = 0
    BY <1>1, <1>5 DEF Ptrs, Appends
  <2>2. Len(r) = 1 /\ r[1] = n
    BY <1>3, <2>1
  <2> QED
    BY <1>2, <1>3, <2>1, <2>2 DEF Ptrs
<1>6. CASE s # <<>>
  <2>1. /\ Len(s) \in 1 .. Len(s) /\ l = s[Len(s)] /\ l \in Range(s) /\ l \in Nodes /\ l \notin Heads
        /\ l # n /\ f2 = s[1] /\ 1 \in 1 .. Len(s)
    <3>1. Len(s) \in 1 .. Len(s) /\ 1 \in 1 .. Len(s)
      BY <1>1, <1>6
    <3>2. l = s[Len(s)] /\ f = s[1]
      BY <1>6 DEF Ptrs
    <3>3. l \in Range(s) /\ l \in Nodes /\ l # n
      BY <1>1, <3>1, <3>2
    <3> QED
      BY <3>1, <3>2, <3>3 DEF Appends
  <2>2. /\ nx2[n] = NULL /\ nx2[l] = n /\ pv2[n] = l
        /\ \A m \in Nodes : m # n => pv2[m] = pv[m]
        /\ \A m \in Nodes : m # n /\ m # l => nx2[m] = nx[m]
    BY <2>1 DEF Appends
  <2>3. ASSUME NEW i \in 1 .. Len(r)
        PROVE  /\ nx2[r[i]] = IF i = Len(r) THEN NULL ELSE r[i + 1]
               /\ pv2[r[i]] = IF i = 1 THEN h ELSE r[i - 1]
    <3>0. PICK k \in Nat : k = Len(s) /\ Len(r) = k + 1 /\ i \in 1 .. k + 1
      BY <1>1, <1>3
    <3>1. CASE i = Len(r)
      BY <3>1, <1>1, <1>3, <2>1, <2>2
    <3>2. CASE i = Len(s)
      <4>1. r[i] = l /\ r[i + 1] = n /\ i # Len(r)
        BY <3>2, <1>1, <1>3, <2>1
      <4>2. pv[l] = IF i = 1 THEN h ELSE s[i - 1]
        BY <3>2, <2>1 DEF Ptrs
      <4>3. i # 1 => r[i - 1] = s[i - 1]
        BY <3>2, <1>1, <1>3
      <4> QED
        BY <4>1, <4>2, <4>3, <2>1, <2>2
    <3>3. CASE i < Len(s)
      <4>1. /\ i \in 1 .. Len(s) /\ i + 1 \in 1 .. Len(s) /\ i # Len(s) /\ i # Len(r)
            /\ i # 1 => i - 1 \in 1 .. Len(s)
        BY <3>0, <3>3
      <4>2. r[i] = s[i] /\ r[i + 1] = s[i + 1] /\ (i # 1 => r[i - 1] = s[i - 1])
        BY <4>1, <1>3
      <4>3. s[i] # l /\ s[i] # n /\ s[i] \in Nodes
        BY <4>1, <1>1, <1>4, <2>1
      <4>4. nx[s[i]] = s[i + 1] /\ pv[s[i]] = IF i = 1 THEN h ELSE s[i - 1]
        BY <4>1 DEF Ptrs
      <4> QED
        BY <4>1, <4>2, <4>3, <4>4, <2>2
    <3> QED
      BY <3>0, <3>1, <3>2, <3>3
  <2>4. f2 = r[1] /\ n = r[Len(r)]
    BY <1>1, <1>3, <2>1
  <2> QED
    BY <1>2, <1>3, <2>1, <2>3, <2>4 DEF Ptrs
<1> QED
  BY <1>5, <1>6

\* squeue_deq: the second node becomes the first.
LEMMA PtrsTail ==
  ASSUME NEW s \in Seq(Nodes), s # <<>>, IsInjective(s), NEW h \in Heads, NEW f, NEW l,
         NEW nx \in [Nodes -> Nodes \cup {NULL}], NEW pv \in [Nodes -> Nodes \cup Heads \cup {NULL}],
         Ptrs(s, h, f, l, nx, pv),
         NEW l2, NEW pv2, Deqs(h, f, l, nx, pv, l2, pv2)
  PROVE  /\ Ptrs(Tail(s), h, nx[f], l2, nx, pv2)
         /\ Tail(s) \in Seq(Nodes) /\ IsInjective(Tail(s)) /\ Range(Tail(s)) \subseteq Range(s)
         /\ f \in Nodes /\ (nx[f] # NULL => nx[f] \in Range(s))
<1> USE SqueueAssumption
<1>1. /\ Len(s) \in Nat /\ DOMAIN s = 1 .. Len(s)
      /\ \A i \in 1 .. Len(s) : s[i] \in Nodes /\ s[i] \in Range(s)
      /\ Len(s) # 0
  BY SeqFacts
<1>2. PICK r : r = Tail(s)
  OBVIOUS
<1>3. r \in Seq(Nodes) /\ Len(r) = Len(s) - 1 /\ \A i \in 1 .. Len(r) : r[i] = s[i + 1]
  BY <1>2, HeadTailProperties
<1>4. DOMAIN r = 1 .. Len(r) /\ (r = <<>> <=> Len(r) = 0)
  BY <1>3, SeqFacts
<1>5. PICK k \in Nat : Len(r) = k /\ Len(s) = k + 1
  <2>1. Len(s) - 1 \in Nat /\ Len(s) = (Len(s) - 1) + 1
    BY <1>1
  <2> QED
    BY <1>3, <2>1
<1>6. \A i, j \in 1 .. k + 1 : s[i] = s[j] => i = j
  BY <1>1, <1>5 DEF IsInjective
<1>7. IsInjective(r) /\ Range(r) \subseteq Range(s)
  <2>1. \A i \in 1 .. k : i + 1 \in 1 .. k + 1 /\ r[i] = s[i + 1]
    BY <1>3, <1>5
  <2>2. ASSUME NEW i \in 1 .. k, NEW j \in 1 .. k, r[i] = r[j] PROVE i = j
    <3>1. i + 1 = j + 1
      BY <2>1, <2>2, <1>6
    <3> QED
      BY <3>1
  <2> QED
    BY <2>1, <2>2, <1>1, <1>4, <1>5 DEF IsInjective, Range
<1>8. f = s[1] /\ f \in Nodes /\ pv[f] = h /\ nx[f] = (IF k = 0 THEN NULL ELSE s[2])
  <2>1. 1 \in 1 .. Len(s) /\ (1 = Len(s) <=> k = 0) /\ 1 + 1 = 2
    BY <1>5
  <2>2. f = s[1]
    BY DEF Ptrs
  <2> QED
    BY <2>1, <2>2, <1>1 DEF Ptrs
<1>9. CASE k = 0
  <2>1. nx[f] = NULL /\ r = <<>> /\ Len(r) = 0
    BY <1>4, <1>5, <1>8, <1>9
  <2>2. Ptrs(r, h, NULL, h, nx, pv2)
    BY <2>1 DEF Ptrs
  <2>3. Ptrs(Tail(s), h, nx[f], l2, nx, pv2)
    BY <2>1, <2>2, <1>2 DEF Deqs
  <2> QED
    BY <2>1, <2>3, <1>2, <1>3, <1>7, <1>8
<1>10. CASE k # 0
  <2>1. /\ 2 \in 1 .. k + 1 /\ 2 \in 1 .. Len(s) /\ s[2] \in Nodes /\ s[2] \in Range(s) /\ nx[f] = s[2] /\ nx[f] # NULL
        /\ r # <<>>
    <3>1. 2 \in 1 .. k + 1 /\ Len(r) # 0
      BY <1>5, <1>10
    <3>2. 2 \in 1 .. Len(s) /\ r # <<>>
      BY <3>1, <1>4, <1>5
    <3>3. s[2] \in Nodes /\ s[2] \in Range(s) /\ nx[f] = s[2]
      BY <3>2, <1>1, <1>8, <1>10
    <3> QED
      BY <3>1, <3>2, <3>3
  <2>2. pv2[s[2]] = h /\ (\A m \in Nodes : m # s[2] => pv2[m] = pv[m]) /\ l2 = l
    BY <2>1, <1>8 DEF Deqs
  <2>3. l = r[Len(r)] /\ nx[f] = r[1]
    BY <2>1, <1>3, <1>5, <1>10 DEF Ptrs
  <2>4. ASSUME NEW i \in 1 .. Len(r)
        PROVE  /\ nx[r[i]] = IF i = Len(r) THEN NULL ELSE r[i + 1]
               /\ pv2[r[i]] = IF i = 1 THEN h ELSE r[i - 1]
    <3>1. /\ i \in Nat /\ i + 1 \in 1 .. Len(s) /\ r[i] = s[i + 1] /\ (i = Len(r) <=> i + 1 = Len(s))
          /\ i + 1 # 1 /\ (i + 1) - 1 = i
      BY <1>3, <1>5
    <3>2. i # Len(r) => r[i + 1] = s[i + 2] /\ (i + 1) + 1 = i + 2
      BY <1>3, <1>5
    <3>3. nx[s[i + 1]] = IF i + 1 = Len(s) THEN NULL ELSE s[(i + 1) + 1]
      BY <3>1 DEF Ptrs
    <3>4. pv[s[i + 1]] = s[i]
      BY <3>1 DEF Ptrs
    <3>5. CASE i = 1
      BY <3>1, <3>2, <3>3, <3>5, <2>2
    <3>6. CASE i # 1
      <4>1. i - 1 \in 1 .. Len(r) /\ (i - 1) + 1 = i /\ i + 1 # 2 /\ i + 1 \in 1 .. k + 1
        BY <3>1, <3>6, <1>5
      <4>2. r[i - 1] = s[i] /\ s[i + 1] # s[2] /\ s[i + 1] \in Nodes
        BY <4>1, <3>1, <2>1, <1>1, <1>3, <1>6
      <4> QED
        BY <3>1, <3>2, <3>3, <3>4, <3>6, <4>2, <2>2
    <3> QED
      BY <3>5, <3>6
  <2>5. Ptrs(r, h, nx[f], l, nx, pv2)
    BY <2>1, <2>3, <2>4 DEF Ptrs
  <2> QED
    BY <1>2, <1>3, <1>7, <1>8, <2>1, <2>2, <2>5
<1> QED
  BY <1>9, <1>10

\* squeue_copy: the first node points back to the new head.
LEMMA PtrsMove ==
  ASSUME NEW s \in Seq(Nodes), s # <<>>, IsInjective(s), NEW h \in Heads, NEW g \in Heads, NEW f, NEW l,
         NEW nx, NEW pv \in [Nodes -> Nodes \cup Heads \cup {NULL}],
         Ptrs(s, h, f, l, nx, pv)
  PROVE  Ptrs(s, g, f, l, nx, [pv EXCEPT ![f] = g]) /\ f \in Range(s) /\ l \in Range(s)
<1>1. /\ Len(s) \in Nat /\ DOMAIN s = 1 .. Len(s)
      /\ \A i \in 1 .. Len(s) : s[i] \in Nodes /\ s[i] \in Range(s)
      /\ 1 \in 1 .. Len(s) /\ Len(s) \in 1 .. Len(s)
  BY SeqFacts
<1>2. f = s[1] /\ l = s[Len(s)]
  BY DEF Ptrs
<1>3. \A i \in 1 .. Len(s) : s[i] = s[1] => i = 1
  BY <1>1 DEF IsInjective
<1>4. PICK pv2 : pv2 = [pv EXCEPT ![f] = g]
  OBVIOUS
<1>5. pv2[f] = g /\ \A m \in Nodes : m # f => pv2[m] = pv[m]
  BY <1>1, <1>2, <1>4
<1>6. ASSUME NEW i \in 1 .. Len(s) PROVE pv2[s[i]] = IF i = 1 THEN g ELSE s[i - 1]
  <2>1. CASE i = 1
    BY <2>1, <1>2, <1>5
  <2>2. CASE i # 1
    BY <2>2, <1>1, <1>2, <1>3, <1>5 DEF Ptrs
  <2> QED
    BY <2>1, <2>2
<1> QED
  BY <1>1, <1>2, <1>4, <1>6 DEF Ptrs

\* InsertAt puts one element in front of the i-th.
LEMMA InsertedAt ==
  ASSUME NEW s \in Seq(Nodes), NEW n \in Nodes, NEW i \in 1 .. Len(s)
  PROVE  Inserted(InsertAt(s, i, n), s, i, n)
<1>1. /\ Len(s) \in Nat /\ i \in Nat /\ 1 <= i /\ i <= Len(s)
      /\ \A k \in 1 .. Len(s) : s[k] \in Nodes
  BY SeqFacts
<1>2. PICK a : a = SubSeq(s, 1, i - 1)
  OBVIOUS
<1>3. PICK b : b = SubSeq(s, i, Len(s))
  OBVIOUS
<1>4. /\ a \in Seq(Nodes) /\ Len(a) = i - 1
      /\ \A k \in 1 .. i - 1 : a[k] = s[k]
  <2>1. \A k \in 1 .. i - 1 : s[k] \in Nodes
    BY <1>1
  <2>2. /\ a \in Seq(Nodes)
        /\ Len(a) = IF 1 <= i - 1 THEN i - 1 - 1 + 1 ELSE 0
        /\ \A k \in 1 .. i - 1 - 1 + 1 : a[k] = s[1 + k - 1]
    BY <1>1, <1>2, <2>1, SubSeqProperties, i - 1 \in Int
  <2>3. Len(a) = i - 1
    BY <1>1, <2>2
  <2>4. ASSUME NEW k \in 1 .. i - 1 PROVE a[k] = s[k]
    <3>1. k \in 1 .. i - 1 - 1 + 1 /\ 1 + k - 1 = k
      BY <1>1
    <3> QED
      BY <2>2, <3>1
  <2> QED
    BY <2>2, <2>3, <2>4
<1>5. /\ b \in Seq(Nodes) /\ Len(b) = Len(s) - i + 1
      /\ \A k \in 1 .. Len(s) - i + 1 : b[k] = s[i + k - 1]
  <2>1. \A k \in i .. Len(s) : s[k] \in Nodes
    BY <1>1
  <2>2. /\ b \in Seq(Nodes)
        /\ Len(b) = IF i <= Len(s) THEN Len(s) - i + 1 ELSE 0
        /\ \A k \in 1 .. Len(s) - i + 1 : b[k] = s[i + k - 1]
    BY <1>1, <1>3, <2>1, SubSeqProperties, i \in Int, Len(s) \in Int
  <2> QED
    BY <1>1, <2>2
<1>6. PICK c : c = Append(a, n)
  OBVIOUS
<1>7. /\ c \in Seq(Nodes) /\ Len(c) = i /\ c[i] = n
      /\ \A k \in 1 .. i - 1 : c[k] = s[k]
  <2>1. /\ c \in Seq(Nodes) /\ Len(c) = Len(a) + 1 /\ c[Len(a) + 1] = n
        /\ \A k \in 1 .. Len(a) : c[k] = a[k]
    BY <1>4, <1>6, AppendProperties
  <2>2. Len(a) + 1 = i
    BY <1>1, <1>4
  <2> QED
    BY <1>4, <2>1, <2>2
<1>8. InsertAt(s, i, n) = c \o b
  <2>1. InsertAt(s, i, n) = (a \o <<n>>) \o b
    BY <1>2, <1>3 DEF InsertAt
  <2>2. a \o <<n>> = c
    BY <1>4, <1>6, AppendIsConcat
  <2> QED
    BY <2>1, <2>2
<1>9. PICK r : r = c \o b
  OBVIOUS
<1>10. /\ r \in Seq(Nodes) /\ Len(r) = Len(c) + Len(b)
       /\ \A k \in 1 .. Len(c) + Len(b) : r[k] = IF k <= Len(c) THEN c[k] ELSE b[k - Len(c)]
  BY <1>5, <1>7, <1>9, ConcatProperties
<1>11. Len(r) = Len(s) + 1
  BY <1>1, <1>5, <1>7, <1>10
<1>12. \A k \in 1 .. Len(s) + 1 : r[k] = IF k <= i THEN c[k] ELSE b[k - i]
  <2>1. Len(c) + Len(b) = Len(s) + 1
    BY <1>10, <1>11
  <2> QED
    BY <2>1, <1>7, <1>10
<1>13. r[i] = n
  BY <1>1, <1>7, <1>12
<1>14. ASSUME NEW k \in 1 .. Len(s), k < i PROVE r[k] = s[k]
  <2>1. k \in 1 .. i - 1 /\ k \in 1 .. Len(s) + 1 /\ k <= i
    BY <1>1, <1>14
  <2> QED
    BY <2>1, <1>7, <1>12
<1>15. ASSUME NEW k \in 1 .. Len(s), k >= i PROVE r[k + 1] = s[k]
  <2>1. /\ k + 1 \in 1 .. Len(s) + 1 /\ ~(k + 1 <= i) /\ (k + 1) - i \in 1 .. Len(s) - i + 1
        /\ i + ((k + 1) - i) - 1 = k
    BY <1>1, <1>15
  <2>2. r[k + 1] = b[(k + 1) - i]
    BY <2>1, <1>12
  <2> QED
    BY <2>1, <2>2, <1>5
<1> QED
  BY <1>8, <1>9, <1>10, <1>11, <1>13, <1>14, <1>15 DEF Inserted

\* squeue_insert_prev: the new node stands between m and what preceded it.
LEMMA PtrsInsert ==
  ASSUME NEW s \in Seq(Nodes), NEW n \in Nodes, n \notin Range(s), IsInjective(s),
         NEW h \in Heads, NEW f, NEW l, NEW i \in 1 .. Len(s), NEW m,
         NEW nx \in [Nodes -> Nodes \cup {NULL}], NEW pv \in [Nodes -> Nodes \cup Heads \cup {NULL}],
         Ptrs(s, h, f, l, nx, pv),
         NEW f2, NEW nx2, NEW pv2, Inserts(s, i, m, n, f, nx, pv, f2, nx2, pv2)
  PROVE  /\ Ptrs(InsertAt(s, i, n), h, f2, l, nx2, pv2)
         /\ pv[m] \in Heads => pv[m] = h
         /\ pv[m] \in Nodes => pv[m] \in Range(s)
         /\ pv[m] \in Heads \cup Nodes
<1> USE SqueueAssumption
<1>0. m = s[i]
  BY DEF Inserts
<1> USE <1>0
<1>1. /\ \A k \in 1 .. Len(s) : s[k] \in Nodes /\ s[k] \in Range(s) /\ s[k] # n
      /\ s # <<>> /\ DOMAIN s = 1 .. Len(s) /\ Len(s) \in Nat
  BY SeqFacts
<1>2. PICK e \in Nat : e = Len(s)
  BY <1>1
<1>3. i \in 1 .. e /\ i \in Nat /\ e # 0
  BY <1>2
<1>4. PICK r : r = InsertAt(s, i, n)
  OBVIOUS
<1>5. /\ r \in Seq(Nodes) /\ Len(r) = e + 1 /\ r[i] = n
      /\ \A k \in 1 .. e : k < i => r[k] = s[k]
      /\ \A k \in 1 .. e : k >= i => r[k + 1] = s[k]
  <2>1. Inserted(r, s, i, n)
    BY <1>4, InsertedAt
  <2> QED
    BY <1>2, <2>1 DEF Inserted
<1>6. r # <<>>
  BY <1>5, SeqFacts
<1>7. \A j, k \in 1 .. e : s[j] = s[k] => j = k
  BY <1>1, <1>2 DEF IsInjective
<1>8. /\ \A k \in 1 .. e : s[k] \in Nodes /\ s[k] # n
      /\ \A k \in 1 .. e : k # e => nx[s[k]] = s[k + 1]
      /\ \A k \in 1 .. e : k # 1 => pv[s[k]] = s[k - 1]
      /\ nx[s[e]] = NULL /\ pv[s[1]] = h
  <2>1. \A k \in 1 .. e : s[k] \in Nodes /\ s[k] # n
    BY <1>1, <1>2
  <2>2. \A k \in 1 .. e : k # e => nx[s[k]] = s[k + 1]
    BY <1>2 DEF Ptrs
  <2>3. \A k \in 1 .. e : k # 1 => pv[s[k]] = s[k - 1]
    BY <1>2 DEF Ptrs
  <2>4. 1 \in 1 .. Len(s) /\ e \in 1 .. Len(s)
    BY <1>2, <1>3
  <2>5. nx[s[e]] = NULL /\ pv[s[1]] = h
    BY <1>2, <2>4 DEF Ptrs
  <2> QED
    BY <2>1, <2>2, <2>3, <2>5
<1>9. PICK p : p = pv[m]
  OBVIOUS
<1>10. p = (IF i = 1 THEN h ELSE s[i - 1]) /\ m \in Nodes /\ m # n
  BY <1>3, <1>8, <1>9 DEF Inserts
<1>11. i # 1 => i - 1 \in 1 .. e /\ p \in Nodes /\ p \notin Heads /\ p \in Range(s) /\ p # n /\ p # m
  <2>1. i # 1 => i - 1 \in 1 .. e /\ i - 1 # i
    BY <1>3
  <2> QED
    BY <2>1, <1>1, <1>2, <1>3, <1>7, <1>10
<1>12. /\ pv2[n] = p /\ pv2[m] = n
       /\ \A k \in Nodes : k # n /\ k # m => pv2[k] = pv[k]
  BY <1>9, <1>10 DEF Inserts
<1>13. /\ nx2[n] = m
       /\ i # 1 => nx2[p] = n
       /\ \A k \in Nodes : k # n /\ (i = 1 \/ k # p) => nx2[k] = nx[k]
  <2>1. CASE i = 1
    <3>1. nx2 = [nx EXCEPT ![n] = m]
      BY <2>1, <1>9, <1>10 DEF Inserts
    <3> QED
      BY <2>1, <3>1
  <2>2. CASE i # 1
    <3>1. nx2 = [[nx EXCEPT ![n] = m] EXCEPT ![p] = n] /\ p \in Nodes /\ p # n
      BY <2>2, <1>9, <1>11 DEF Inserts
    <3> QED
      BY <2>2, <3>1
  <2> QED
    BY <2>1, <2>2
<1>14. f2 = r[1]
  <2>1. CASE i = 1
    BY <2>1, <1>5, <1>9, <1>10 DEF Inserts
  <2>2. CASE i # 1
    <3>1. f2 = s[1]
      BY <2>2, <1>1, <1>9, <1>11 DEF Ptrs, Inserts
    <3>2. 1 \in 1 .. e /\ 1 < i
      BY <2>2, <1>3
    <3> QED
      BY <3>1, <3>2, <1>5
  <2> QED
    BY <2>1, <2>2
<1>15. l = r[Len(r)]
  <2>1. l = s[e]
    BY <1>1, <1>2 DEF Ptrs
  <2>2. e \in 1 .. e /\ e >= i
    BY <1>3
  <2> QED
    BY <2>1, <2>2, <1>5
<1>16. ASSUME NEW j \in 1 .. e + 1
       PROVE  /\ nx2[r[j]] = IF j = e + 1 THEN NULL ELSE r[j + 1]
              /\ pv2[r[j]] = IF j = 1 THEN h ELSE r[j - 1]
  <2>1. CASE j < i
    <3>1. /\ j \in 1 .. e /\ j # e + 1 /\ j # i /\ j # e /\ j + 1 \in 1 .. e
          /\ j # 1 => j - 1 \in 1 .. e /\ j - 1 < i
      BY <2>1, <1>3
    <3>2. r[j] = s[j] /\ s[j] # m /\ s[j] # n /\ s[j] \in Nodes
      BY <2>1, <3>1, <1>3, <1>5, <1>7, <1>8
    <3>3. pv2[r[j]] = IF j = 1 THEN h ELSE r[j - 1]
      <4>1. pv2[r[j]] = pv[s[j]]
        BY <3>2, <1>12
      <4>2. CASE j = 1
        BY <4>1, <4>2, <1>8
      <4>3. CASE j # 1
        <5>1. r[j - 1] = s[j - 1] /\ pv[s[j]] = s[j - 1]
          BY <3>1, <4>3, <1>5, <1>8
        <5> QED
          BY <4>1, <4>3, <5>1
      <4> QED
        BY <4>2, <4>3
    <3>4. CASE j + 1 = i
      <4>1. j = i - 1 /\ i # 1
        BY <3>4, <3>1, <1>3
      <4>2. r[j] = p /\ r[j + 1] = n
        BY <4>1, <3>2, <3>4, <1>5, <1>10
      <4> QED
        BY <3>1, <3>3, <4>1, <4>2, <1>13
    <3>5. CASE j + 1 # i
      <4>1. j + 1 < i /\ r[j + 1] = s[j + 1]
        BY <2>1, <3>1, <3>5, <1>3, <1>5
      <4>2. i # 1 /\ i - 1 \in 1 .. e /\ j # i - 1
        BY <3>1, <3>5, <2>1, <1>3
      <4>3. s[j] # p
        BY <4>2, <3>1, <1>7, <1>10
      <4> QED
        BY <3>1, <3>2, <3>3, <4>1, <4>3, <1>8, <1>13
    <3> QED
      BY <3>4, <3>5
  <2>2. CASE j = i
    <3>1. r[j] = n /\ r[j + 1] = m /\ j # e + 1
      BY <2>2, <1>3, <1>5
    <3>2. i # 1 => r[i - 1] = s[i - 1]
      BY <1>3, <1>5, <1>11
    <3> QED
      BY <2>2, <3>1, <3>2, <1>10, <1>12, <1>13
  <2>3. CASE j > i
    <3>1. PICK k \in 1 .. e : j = k + 1 /\ k >= i
      <4>1. j - 1 \in 1 .. e /\ j = (j - 1) + 1 /\ j - 1 >= i
        BY <2>3, <1>3
      <4> QED
        BY <4>1
    <3>2. r[j] = s[k] /\ s[k] # n /\ s[k] \in Nodes /\ j # 1 /\ j - 1 = k
      BY <3>1, <1>5, <1>8
    <3>3. i # 1 => s[k] # p
      <4>1. i # 1 => i - 1 # k
        BY <3>1, <1>3
      <4> QED
        BY <4>1, <1>7, <1>10, <1>11
    <3>4. nx2[r[j]] = nx[s[k]]
      BY <3>2, <3>3, <1>13
    <3>5. k # e => r[j + 1] = s[k + 1]
      <4>1. k # e => k + 1 \in 1 .. e /\ k + 1 >= i /\ (k + 1) + 1 = j + 1
        BY <3>1, <1>3
      <4> QED
        BY <4>1, <1>5
    <3>6. nx2[r[j]] = IF j = e + 1 THEN NULL ELSE r[j + 1]
      BY <3>1, <3>4, <3>5, <1>8
    <3>7. pv2[r[j]] = r[k]
      <4>1. CASE k = i
        BY <4>1, <3>2, <1>5, <1>12
      <4>2. CASE k # i
        <5>1. k - 1 \in 1 .. e /\ k - 1 >= i /\ (k - 1) + 1 = k /\ k # 1
          BY <3>1, <4>2, <1>3
        <5>2. r[k] = s[k - 1] /\ s[k] # m /\ pv[s[k]] = s[k - 1]
          BY <5>1, <4>2, <1>3, <1>5, <1>7, <1>8
        <5> QED
          BY <5>2, <3>2, <1>12
      <4> QED
        BY <4>1, <4>2
    <3> QED
      BY <3>2, <3>6, <3>7
  <2> QED
    BY <2>1, <2>2, <2>3, <1>3
<1>17. Ptrs(r, h, f2, l, nx2, pv2)
  BY <1>5, <1>6, <1>14, <1>15, <1>16 DEF Ptrs
<1> QED
  BY <1>4, <1>9, <1>10, <1>11, <1>17
-----------------------------------------------------------------------------
(* Every operation keeps SqInv.                                            *)

\* What a head's queue holds is not in another's.
LEMMA ApartFacts ==
  ASSUME SqInv
  PROVE  /\ \A h \in Heads : q[h] \in Seq(Nodes) /\ IsInjective(q[h])
         /\ \A g, h \in Heads : \A n \in Range(q[h]) : g # h => n \notin Range(q[g])
         /\ \A h \in Heads : Range(q[h]) \subseteq Queued /\ Range(q[h]) \subseteq Nodes
<1>1. \A h \in Heads : q[h] \in Seq(Nodes) /\ IsInjective(q[h])
  BY DEF SqInv, SqType, Apart
<1>2. \A h \in Heads : Range(q[h]) \subseteq Nodes
  BY <1>1, SeqFacts
<1> QED
  BY <1>1, <1>2 DEF SqInv, Apart, Queued

\* The queue of one head is replaced by r, whose nodes are its own or new.
LEMMA StillApart ==
  ASSUME SqInv, NEW h \in Heads, NEW r \in Seq(Nodes), IsInjective(r), NEW fresh,
         fresh \cap Queued = {}, Range(r) \subseteq Range(q[h]) \cup fresh
  PROVE  /\ Apart([q EXCEPT ![h] = r])
         /\ [q EXCEPT ![h] = r] \in [Heads -> Seq(Nodes)]
<1>1. q \in [Heads -> Seq(Nodes)]
  BY DEF SqInv, SqType
<1>2. PICK p : p = [q EXCEPT ![h] = r]
  OBVIOUS
<1>3. p \in [Heads -> Seq(Nodes)] /\ p[h] = r /\ \A g \in Heads : g # h => p[g] = q[g]
  BY <1>1, <1>2
<1>4. \A g \in Heads : IsInjective(p[g])
  BY <1>3, ApartFacts
<1>5. ASSUME NEW g \in Heads, NEW k \in Heads, g # k PROVE Range(p[g]) \cap Range(p[k]) = {}
  BY <1>3, <1>5, ApartFacts
<1> QED
  BY <1>2, <1>3, <1>4, <1>5 DEF Apart

LEMMA InitHeadKeeps ==
  ASSUME SqInv, NEW h \in Heads, SQUEUE_INIT_HEAD(h)
  PROVE  SqInv'
<1>1. /\ q[h] = <<>> /\ first' = [first EXCEPT ![h] = NULL] /\ last_addr' = [last_addr EXCEPT ![h] = h]
      /\ moved' = moved \ {h} /\ UNCHANGED <<next, prev, q>>
  BY DEF SQUEUE_INIT_HEAD
<1>2. SqType'
  BY <1>1 DEF SqInv, SqType
<1>3. Apart(q')
  BY <1>1 DEF SqInv
<1>4. ASSUME NEW g \in Heads \ moved'
      PROVE  Ptrs(q'[g], g, first'[g], last_addr'[g], next', prev')
  <2>1. CASE g = h
    <3>1. q'[g] = <<>> /\ first'[g] = NULL /\ last_addr'[g] = g
      BY <2>1, <1>1 DEF SqInv, SqType
    <3>2. Len(q'[g]) = 0
      BY <3>1
    <3> QED
      BY <3>1, <3>2 DEF Ptrs
  <2>2. CASE g # h
    BY <2>2, <1>1 DEF SqInv, SqType
  <2> QED
    BY <2>1, <2>2
<1> QED
  BY <1>1, <1>2, <1>3, <1>4 DEF SqInv

LEMMA InqKeeps ==
  ASSUME SqInv, NEW h \in Heads, NEW n \in Nodes, squeue_inq(n, h)
  PROVE  SqInv'
<1> USE SqueueAssumption
<1>1. /\ h \in Heads \ moved /\ n \notin Queued
      /\ Store(last_addr[h], n, [next EXCEPT ![n] = NULL])
      /\ prev' = [prev EXCEPT ![n] = last_addr[h]]
      /\ last_addr' = [last_addr EXCEPT ![h] = n]
      /\ q' = [q EXCEPT ![h] = Append(q[h], n)]
      /\ moved' = moved
  BY DEF squeue_inq, Usable
<1>2. SqType /\ q[h] \in Seq(Nodes) /\ IsInjective(q[h]) /\ n \notin Range(q[h])
  BY <1>1, ApartFacts DEF SqInv
<1>3. PICK l : l = last_addr[h]
  OBVIOUS
<1>4. PICK f2 : f2 = IF l \in Heads THEN n ELSE first[h]
  OBVIOUS
<1>5. next' = IF l \in Nodes THEN [[next EXCEPT ![n] = NULL] EXCEPT ![l] = n] ELSE [next EXCEPT ![n] = NULL]
  BY <1>1, <1>3 DEF Store
<1>6. /\ Ptrs(Append(q[h], n), h, f2, n, next', prev')
      /\ l \in Heads => l = h
      /\ l \in Nodes => l \in Range(q[h])
      /\ l \in Heads \cup Nodes
  <2>1. Ptrs(q[h], h, first[h], l, next, prev)
    BY <1>1, <1>3 DEF SqInv
  <2>2. next \in [Nodes -> Nodes \cup {NULL}] /\ prev \in [Nodes -> Nodes \cup Heads \cup {NULL}]
    BY <1>2 DEF SqType
  <2>3. prev' = [prev EXCEPT ![n] = l]
    BY <1>1, <1>3
  <2> QED
    <3>1. Appends(n, first[h], l, next, prev, f2, next', prev')
      BY <2>3, <1>4, <1>5 DEF Appends
    <3> QED
      BY <2>1, <2>2, <3>1, <1>2, PtrsAppend
<1>7. first' = [first EXCEPT ![h] = f2]
  BY <1>1, <1>2, <1>3, <1>4, <1>6 DEF Store, SqType
<1>8. /\ Append(q[h], n) \in Seq(Nodes) /\ IsInjective(Append(q[h], n))
      /\ Range(Append(q[h], n)) \subseteq Range(q[h]) \cup {n}
  <2>1. PICK r : r = Append(q[h], n)
    OBVIOUS
  <2>2. PICK s \in Seq(Nodes) : s = q[h] /\ IsInjective(s) /\ n \notin Range(s)
    BY <1>2
  <2>3. /\ r \in Seq(Nodes) /\ Len(r) = Len(s) + 1 /\ r[Len(s) + 1] = n
        /\ \A i \in 1 .. Len(s) : r[i] = s[i]
    BY <2>1, <2>2, AppendProperties
  <2>4. DOMAIN r = 1 .. Len(s) + 1 /\ DOMAIN s = 1 .. Len(s) /\ Len(s) \in Nat
    BY <2>3, SeqFacts
  <2>5. IsInjective(r)
    BY <2>2, <2>3, <2>4 DEF IsInjective, Range
  <2>6. Range(r) \subseteq Range(s) \cup {n}
    BY <2>3, <2>4 DEF Range
  <2> QED
    BY <2>1, <2>2, <2>3, <2>5, <2>6
<1>9. Apart(q') /\ q' \in [Heads -> Seq(Nodes)]
  <2>1. {n} \cap Queued = {}
    BY <1>1
  <2> QED
    BY <1>1, <1>8, <2>1, StillApart
<1>10. SqType'
  <2>1. f2 \in Nodes \cup {NULL}
    BY <1>2, <1>4 DEF SqType
  <2>2. first' \in [Heads -> Nodes \cup {NULL}]
    BY <1>2, <1>7, <2>1 DEF SqType
  <2>3. last_addr' \in [Heads -> Heads \cup Nodes] /\ l \in Heads \cup Nodes
    BY <1>1, <1>2, <1>6 DEF SqType
  <2>4. next' \in [Nodes -> Nodes \cup {NULL}]
    BY <1>2, <1>5 DEF SqType
  <2>5. prev' \in [Nodes -> Nodes \cup Heads \cup {NULL}]
    BY <1>1, <1>2, <1>3, <2>3 DEF SqType
  <2> QED
    BY <1>1, <1>2, <1>9, <2>2, <2>3, <2>4, <2>5 DEF SqType
<1>11. ASSUME NEW g \in Heads \ moved'
       PROVE  Ptrs(q'[g], g, first'[g], last_addr'[g], next', prev')
  <2>1. CASE g = h
    <3>1. q'[g] = Append(q[h], n) /\ first'[g] = f2 /\ last_addr'[g] = n
      BY <2>1, <1>1, <1>2, <1>7 DEF SqType
    <3> QED
      BY <2>1, <3>1, <1>6
  <2>2. CASE g # h
    <3>1. q'[g] = q[g] /\ first'[g] = first[g] /\ last_addr'[g] = last_addr[g]
      BY <2>2, <1>1, <1>2, <1>7 DEF SqType
    <3>2. ASSUME NEW m \in Range(q[g]) PROVE next'[m] = next[m] /\ prev'[m] = prev[m]
      <4>1. m \in Nodes /\ m # n /\ m \notin Range(q[h])
        BY <2>2, <1>1, ApartFacts
      <4>2. m # l
        BY <4>1, <1>6
      <4> QED
        BY <4>1, <4>2, <1>1, <1>2, <1>5 DEF SqType
    <3>3. Ptrs(q[g], g, first[g], last_addr[g], next, prev) /\ q[g] \in Seq(Nodes)
      BY <1>1, <1>2 DEF SqInv, SqType
    <3> QED
      BY <3>1, <3>2, <3>3, PtrsFrame
  <2> QED
    BY <2>1, <2>2
<1>12. \A g \in moved' : q'[g] = <<>>
  BY <1>1, <1>2 DEF SqInv, SqType
<1> QED
  BY <1>9, <1>10, <1>11, <1>12 DEF SqInv

LEMMA InsertKeeps ==
  ASSUME SqInv, NEW h \in Heads, NEW m \in Nodes, NEW n \in Nodes, squeue_insert_prev(h, m, n)
  PROVE  SqInv'
<1> USE SqueueAssumption
<1>0. PICK i : i = CHOOSE k \in DOMAIN q[h] : q[h][k] = m
  OBVIOUS
<1>1. /\ h \in Heads \ moved /\ m \in Range(q[h]) /\ n \notin Queued
      /\ Store(prev[m], n, [next EXCEPT ![n] = m])
      /\ prev' = [prev EXCEPT ![n] = prev[m], ![m] = n]
      /\ q' = [q EXCEPT ![h] = InsertAt(q[h], i, n)]
      /\ moved' = moved /\ last_addr' = last_addr
  BY <1>0 DEF squeue_insert_prev, Usable
<1>2. SqType /\ q[h] \in Seq(Nodes) /\ IsInjective(q[h]) /\ n \notin Range(q[h])
  BY <1>1, ApartFacts DEF SqInv
<1>3. i \in 1 .. Len(q[h]) /\ m = q[h][i]
  <2>1. \E k \in DOMAIN q[h] : q[h][k] = m
    BY <1>1 DEF Range
  <2>2. i \in DOMAIN q[h] /\ q[h][i] = m
    BY <1>0, <2>1
  <2> QED
    BY <1>2, <2>2, SeqFacts
<1>4. PICK f2 : f2 = IF prev[m] \in Heads THEN n ELSE first[h]
  OBVIOUS
<1>5. next' = IF prev[m] \in Nodes THEN [[next EXCEPT ![n] = m] EXCEPT ![prev[m]] = n] ELSE [next EXCEPT ![n] = m]
  BY <1>1 DEF Store
<1>6. /\ Ptrs(InsertAt(q[h], i, n), h, f2, last_addr[h], next', prev')
      /\ prev[m] \in Heads => prev[m] = h
      /\ prev[m] \in Nodes => prev[m] \in Range(q[h])
      /\ prev[m] \in Heads \cup Nodes
  <2>1. Ptrs(q[h], h, first[h], last_addr[h], next, prev)
    BY <1>1 DEF SqInv
  <2>2. next \in [Nodes -> Nodes \cup {NULL}] /\ prev \in [Nodes -> Nodes \cup Heads \cup {NULL}]
    BY <1>2 DEF SqType
  <2>3. Inserts(q[h], i, m, n, first[h], next, prev, f2, next', prev')
    BY <1>1, <1>3, <1>4, <1>5 DEF Inserts
  <2> QED
    <3>1. PICK s \in Seq(Nodes) : s = q[h]
      BY <1>2
    <3>2. /\ i \in 1 .. Len(s) /\ IsInjective(s) /\ n \notin Range(s)
          /\ Ptrs(s, h, first[h], last_addr[h], next, prev)
          /\ Inserts(s, i, m, n, first[h], next, prev, f2, next', prev')
      BY <3>1, <2>1, <2>3, <1>2, <1>3
    <3>3. /\ Ptrs(InsertAt(s, i, n), h, f2, last_addr[h], next', prev')
          /\ prev[m] \in Heads => prev[m] = h
          /\ prev[m] \in Nodes => prev[m] \in Range(s)
          /\ prev[m] \in Heads \cup Nodes
      BY <3>2, <2>2, PtrsInsert
    <3> QED
      BY <3>1, <3>3
<1>7. first' = [first EXCEPT ![h] = f2]
  BY <1>1, <1>2, <1>4, <1>6 DEF Store, SqType
<1>8. /\ InsertAt(q[h], i, n) \in Seq(Nodes) /\ IsInjective(InsertAt(q[h], i, n))
      /\ Range(InsertAt(q[h], i, n)) \subseteq Range(q[h]) \cup {n}
  <2>1. PICK r : r = InsertAt(q[h], i, n)
    OBVIOUS
  <2>2. PICK s \in Seq(Nodes) : s = q[h]
    BY <1>2
  <2>3. Inserted(r, s, i, n) /\ IsInjective(s) /\ n \notin Range(s) /\ i \in 1 .. Len(s)
    BY <2>1, <2>2, <1>2, <1>3, InsertedAt
  <2>4. Len(s) \in Nat /\ DOMAIN s = 1 .. Len(s) /\ \A k \in 1 .. Len(s) : s[k] \in Range(s)
    BY SeqFacts
  <2>5. PICK e \in Nat : e = Len(s)
    BY <2>4
  <2>6. /\ r \in Seq(Nodes) /\ DOMAIN r = 1 .. e + 1 /\ r[i] = n /\ i \in 1 .. e
        /\ \A k \in 1 .. e : k < i => r[k] = s[k]
        /\ \A k \in 1 .. e : k >= i => r[k + 1] = s[k]
    BY <2>3, <2>5, SeqFacts DEF Inserted
  <2>7. \A j, k \in 1 .. e : s[j] = s[k] => j = k
    BY <2>3, <2>4, <2>5 DEF IsInjective
  <2>8. ASSUME NEW j \in 1 .. e + 1
        PROVE  \/ j = i /\ r[j] = n
               \/ j < i /\ j \in 1 .. e /\ r[j] = s[j]
               \/ j > i /\ j - 1 \in 1 .. e /\ r[j] = s[j - 1]
    <3>1. CASE j = i
      BY <3>1, <2>6
    <3>2. CASE j < i
      BY <3>2, <2>6
    <3>3. CASE j > i
      <4>1. j - 1 \in 1 .. e /\ j - 1 >= i /\ (j - 1) + 1 = j
        BY <3>3, <2>6
      <4> QED
        BY <3>3, <4>1, <2>6
    <3> QED
      BY <3>1, <3>2, <3>3, <2>6
  <2>9. \A k \in 1 .. e : s[k] \in Range(s) /\ s[k] # n
    BY <2>3, <2>4, <2>5
  <2>10. Range(r) \subseteq Range(s) \cup {n}
    <3>1. \A j \in 1 .. e + 1 : r[j] \in Range(s) \cup {n}
      BY <2>8, <2>9
    <3>2. Range(r) = {r[j] : j \in 1 .. e + 1}
      BY <2>6 DEF Range
    <3> QED
      BY <3>1, <3>2
  <2>11. ASSUME NEW j \in 1 .. e + 1, NEW k \in 1 .. e + 1, r[j] = r[k] PROVE j = k
    <3>1. CASE j = i
      BY <3>1, <2>6, <2>8, <2>9, <2>11
    <3>2. CASE k = i
      BY <3>2, <2>6, <2>8, <2>9, <2>11
    <3>3. CASE j # i /\ k # i
      <4> DEFINE g(x) == IF x < i THEN x ELSE x - 1
      <4>1. g(j) \in 1 .. e /\ g(k) \in 1 .. e /\ r[j] = s[g(j)] /\ r[k] = s[g(k)]
        BY <3>3, <2>6, <2>8
      <4>2. g(j) = g(k)
        BY <4>1, <2>7, <2>11
      <4> QED
        BY <3>3, <4>2, <2>6
    <3> QED
      BY <3>1, <3>2, <3>3
  <2> QED
    BY <2>1, <2>2, <2>6, <2>10, <2>11 DEF IsInjective
<1>9. Apart(q') /\ q' \in [Heads -> Seq(Nodes)]
  <2>1. {n} \cap Queued = {}
    BY <1>1
  <2> QED
    BY <1>1, <1>8, <2>1, StillApart
<1>10. SqType'
  <2>1. f2 \in Nodes \cup {NULL}
    BY <1>2, <1>4 DEF SqType
  <2>2. first' \in [Heads -> Nodes \cup {NULL}]
    BY <1>2, <1>7, <2>1 DEF SqType
  <2>4. next' \in [Nodes -> Nodes \cup {NULL}]
    BY <1>2, <1>5 DEF SqType
  <2>5. prev' \in [Nodes -> Nodes \cup Heads \cup {NULL}]
    BY <1>1, <1>2, <1>6 DEF SqType
  <2> QED
    BY <1>1, <1>2, <1>9, <2>2, <2>4, <2>5 DEF SqType
<1>11. ASSUME NEW g \in Heads \ moved'
       PROVE  Ptrs(q'[g], g, first'[g], last_addr'[g], next', prev')
  <2>1. CASE g = h
    <3>1. q'[g] = InsertAt(q[h], i, n) /\ first'[g] = f2 /\ last_addr'[g] = last_addr[h]
      BY <2>1, <1>1, <1>2, <1>7 DEF SqType
    <3> QED
      BY <2>1, <3>1, <1>6
  <2>2. CASE g # h
    <3>1. q'[g] = q[g] /\ first'[g] = first[g] /\ last_addr'[g] = last_addr[g]
      BY <2>2, <1>1, <1>2, <1>7 DEF SqType
    <3>2. ASSUME NEW k \in Range(q[g]) PROVE next'[k] = next[k] /\ prev'[k] = prev[k]
      <4>1. k \in Nodes /\ k # n /\ k \notin Range(q[h])
        BY <2>2, <1>1, ApartFacts
      <4>2. k # prev[m] /\ k # m
        BY <4>1, <1>1, <1>6
      <4> QED
        BY <4>1, <4>2, <1>1, <1>2, <1>5 DEF SqType
    <3>3. Ptrs(q[g], g, first[g], last_addr[g], next, prev) /\ q[g] \in Seq(Nodes)
      BY <1>1, <1>2 DEF SqInv, SqType
    <3> QED
      BY <3>1, <3>2, <3>3, PtrsFrame
  <2> QED
    BY <2>1, <2>2
<1>12. \A g \in moved' : q'[g] = <<>>
  BY <1>1, <1>2 DEF SqInv, SqType
<1> QED
  BY <1>9, <1>10, <1>11, <1>12 DEF SqInv

LEMMA DeqKeeps ==
  ASSUME SqInv, NEW h \in Heads, squeue_deq(h)
  PROVE  SqInv'
<1> USE SqueueAssumption
<1>1. /\ h \in Heads \ moved /\ first[h] # NULL
      /\ first' = [first EXCEPT ![h] = next[first[h]]]
      /\ last_addr' = [last_addr EXCEPT ![h] = IF next[first[h]] = NULL THEN h ELSE last_addr[h]]
      /\ prev' = IF next[first[h]] = NULL THEN prev ELSE [prev EXCEPT ![next[first[h]]] = prev[first[h]]]
      /\ q' = [q EXCEPT ![h] = Tail(q[h])]
      /\ next' = next /\ moved' = moved
  BY DEF squeue_deq, Usable, LastAfterDeq
<1>2. /\ SqType /\ q[h] \in Seq(Nodes) /\ IsInjective(q[h])
      /\ Ptrs(q[h], h, first[h], last_addr[h], next, prev)
  BY <1>1, ApartFacts DEF SqInv
<1>3. q[h] # <<>>
  BY <1>1, <1>2 DEF Ptrs
<1>4. PICK l2 : l2 = IF next[first[h]] = NULL THEN h ELSE last_addr[h]
  OBVIOUS
<1>5. /\ Ptrs(Tail(q[h]), h, next[first[h]], l2, next, prev')
      /\ Tail(q[h]) \in Seq(Nodes) /\ IsInjective(Tail(q[h])) /\ Range(Tail(q[h])) \subseteq Range(q[h])
      /\ first[h] \in Nodes /\ (next[first[h]] # NULL => next[first[h]] \in Range(q[h]))
  <2>1. next \in [Nodes -> Nodes \cup {NULL}] /\ prev \in [Nodes -> Nodes \cup Heads \cup {NULL}]
    BY <1>2 DEF SqType
  <2>2. Deqs(h, first[h], last_addr[h], next, prev, l2, prev')
    BY <1>1, <1>4 DEF Deqs
  <2> QED
    BY <2>1, <2>2, <1>2, <1>3, PtrsTail
<1>6. Apart(q') /\ q' \in [Heads -> Seq(Nodes)]
  <2>1. {} \cap Queued = {} /\ Range(Tail(q[h])) \subseteq Range(q[h]) \cup {}
    BY <1>5
  <2> QED
    BY <1>1, <1>5, <2>1, StillApart
<1>7. SqType'
  BY <1>1, <1>2, <1>5, <1>6 DEF SqType
<1>8. ASSUME NEW g \in Heads \ moved'
      PROVE  Ptrs(q'[g], g, first'[g], last_addr'[g], next', prev')
  <2>1. CASE g = h
    <3>1. q'[g] = Tail(q[h]) /\ first'[g] = next[first[h]] /\ last_addr'[g] = l2
      BY <2>1, <1>1, <1>2, <1>4 DEF SqType
    <3> QED
      BY <2>1, <3>1, <1>1, <1>5
  <2>2. CASE g # h
    <3>1. q'[g] = q[g] /\ first'[g] = first[g] /\ last_addr'[g] = last_addr[g]
      BY <2>2, <1>1, <1>2 DEF SqType
    <3>2. ASSUME NEW k \in Range(q[g]) PROVE next'[k] = next[k] /\ prev'[k] = prev[k]
      <4>1. k \in Nodes /\ k \notin Range(q[h])
        BY <2>2, ApartFacts
      <4>2. next[first[h]] # NULL => k # next[first[h]]
        BY <4>1, <1>5
      <4> QED
        BY <4>1, <4>2, <1>1, <1>2 DEF SqType
    <3>3. Ptrs(q[g], g, first[g], last_addr[g], next, prev) /\ q[g] \in Seq(Nodes)
      BY <1>1, <1>2 DEF SqInv, SqType
    <3> QED
      BY <3>1, <3>2, <3>3, PtrsFrame
  <2> QED
    BY <2>1, <2>2
<1>9. \A g \in moved' : q'[g] = <<>>
  BY <1>1, <1>2 DEF SqInv, SqType
<1> QED
  BY <1>6, <1>7, <1>8, <1>9 DEF SqInv

LEMMA CopyKeeps ==
  ASSUME SqInv, NEW dst \in Heads, NEW src \in Heads, squeue_copy(dst, src)
  PROVE  SqInv'
<1> USE SqueueAssumption
<1>1. dst # src /\ src \in Heads \ moved /\ q[dst] = <<>>
  BY DEF squeue_copy, Usable
<1>2. CASE first[src] = NULL
  BY <1>2, InitHeadKeeps DEF squeue_copy
<1>3. CASE first[src] # NULL
  <2>1. /\ first' = [first EXCEPT ![dst] = first[src]]
        /\ last_addr' = [last_addr EXCEPT ![dst] = last_addr[src]]
        /\ prev' = [prev EXCEPT ![first[src]] = dst]
        /\ q' = [q EXCEPT ![dst] = q[src], ![src] = <<>>]
        /\ moved' = (moved \ {dst}) \cup {src} /\ next' = next
    BY <1>3 DEF squeue_copy
  <2>2. /\ SqType /\ q[src] \in Seq(Nodes) /\ IsInjective(q[src])
        /\ Ptrs(q[src], src, first[src], last_addr[src], next, prev)
    BY <1>1, ApartFacts DEF SqInv
  <2>3. q[src] # <<>>
    BY <1>3, <2>2 DEF Ptrs
  <2>4. /\ Ptrs(q[src], dst, first[src], last_addr[src], next, prev')
        /\ first[src] \in Range(q[src]) /\ last_addr[src] \in Range(q[src])
    <3>1. prev \in [Nodes -> Nodes \cup Heads \cup {NULL}]
      BY <2>2 DEF SqType
    <3> QED
      BY <3>1, <2>1, <2>2, <2>3, PtrsMove
  <2>5. /\ q'[dst] = q[src] /\ q'[src] = <<>> /\ \A g \in Heads : g # dst /\ g # src => q'[g] = q[g]
        /\ q' \in [Heads -> Seq(Nodes)]
    BY <1>1, <2>1, <2>2, EmptySeq DEF SqType
  <2>6. Apart(q')
    <3>1. IsInjective(<<>>) /\ Range(<<>>) = {}
      BY DEF IsInjective, Range
    <3>2. ASSUME NEW g \in Heads PROVE IsInjective(q'[g])
      BY <3>1, <2>2, <2>5, ApartFacts
    <3>3. ASSUME NEW g \in Heads, NEW h \in Heads, g # h PROVE Range(q'[g]) \cap Range(q'[h]) = {}
      <4>1. CASE g = src \/ h = src
        BY <3>1, <4>1, <2>5
      <4>2. CASE g # src /\ h # src
        BY <3>3, <4>2, <2>5, ApartFacts
      <4> QED
        BY <4>1, <4>2
    <3> QED
      BY <3>2, <3>3 DEF Apart
  <2>7. SqType'
    BY <1>1, <2>1, <2>2, <2>5 DEF SqType
  <2>8. ASSUME NEW g \in Heads \ moved'
        PROVE  Ptrs(q'[g], g, first'[g], last_addr'[g], next', prev')
    <3>1. CASE g = dst
      <4>1. first'[g] = first[src] /\ last_addr'[g] = last_addr[src]
        BY <3>1, <2>1, <2>2 DEF SqType
      <4> QED
        BY <3>1, <4>1, <2>1, <2>4, <2>5
    <3>2. CASE g # dst
      <4>1. g # src /\ g \in Heads \ moved
        BY <3>2, <2>1
      <4>2. q'[g] = q[g] /\ first'[g] = first[g] /\ last_addr'[g] = last_addr[g]
        BY <3>2, <4>1, <2>1, <2>2, <2>5 DEF SqType
      <4>3. ASSUME NEW k \in Range(q[g]) PROVE next'[k] = next[k] /\ prev'[k] = prev[k]
        <5>1. k \in Nodes /\ k \notin Range(q[src])
          BY <4>1, ApartFacts
        <5>2. k # first[src]
          BY <5>1, <2>4
        <5> QED
          BY <5>1, <5>2, <2>1, <2>2 DEF SqType
      <4>4. Ptrs(q[g], g, first[g], last_addr[g], next, prev) /\ q[g] \in Seq(Nodes)
        BY <4>1, <2>2 DEF SqInv, SqType
      <4> QED
        BY <4>2, <4>3, <4>4, PtrsFrame
    <3> QED
      BY <3>1, <3>2
  <2>9. ASSUME NEW g \in moved' PROVE q'[g] = <<>>
    <3>1. CASE g = src
      BY <3>1, <2>5
    <3>2. CASE g # src
      <4>1. g \in moved /\ g # dst /\ g \in Heads
        BY <3>2, <2>1, <2>2 DEF SqType
      <4> QED
        BY <3>2, <4>1, <2>5 DEF SqInv
    <3> QED
      BY <3>1, <3>2
  <2> QED
    BY <2>6, <2>7, <2>8, <2>9 DEF SqInv
<1> QED
  BY <1>2, <1>3

LEMMA SqStart == SqInit => SqInv
<1> SUFFICES ASSUME SqInit PROVE SqInv
  OBVIOUS
<1>1. SqType
  BY EmptySeq DEF SqInit, SqType
<1>2. \A h \in Heads : q[h] = <<>> /\ first[h] = NULL /\ last_addr[h] = h
  BY DEF SqInit
<1>3. IsInjective(<<>>) /\ Range(<<>>) = {} /\ Len(<<>>) = 0
  BY DEF IsInjective, Range
<1>4. Apart(q)
  BY <1>2, <1>3 DEF Apart
<1>5. \A h \in Heads : Ptrs(<<>>, h, NULL, h, next, prev)
  BY <1>3 DEF Ptrs
<1> QED
  BY <1>1, <1>2, <1>4, <1>5 DEF SqInv, SqInit

\* The pointers of every head lead through exactly the nodes put in and not
\* taken out, in order, both ways, after any sequence of the operations of
\* squeue.h, for any number of heads and nodes (squeue.h:32-185).
THEOREM PointersAreTheQueue == SqSpec => []ListIsQueue
<1>1. SqInv /\ [SqNext]_sqVars => SqInv'
  <2> SUFFICES ASSUME SqInv, [SqNext]_sqVars PROVE SqInv'
    OBVIOUS
  <2>1. CASE UNCHANGED sqVars
    BY <2>1 DEF sqVars, SqInv, SqType
  <2> QED
    BY <2>1, InitHeadKeeps, InqKeeps, InsertKeeps, DeqKeeps, CopyKeeps DEF SqNext
<1>2. SqInv => ListIsQueue
  <2> SUFFICES ASSUME SqInv, NEW h \in Heads, Usable(h)
               PROVE  LET s == q[h]
                          e == Len(s)
                      IN  /\ first[h] = IF e = 0 THEN NULL ELSE s[1]
                          /\ squeue_get_tail(h) = IF e = 0 THEN NULL ELSE s[e]
                          /\ e = 0 => last_addr[h] = h
                          /\ \A i \in 1 .. e :
                               /\ next[s[i]] = IF i = e THEN NULL ELSE s[i + 1]
                               /\ squeue_get_prev(h, s[i]) = IF i = 1 THEN NULL ELSE s[i - 1]
    BY DEF ListIsQueue
  <2>1. PICK s \in Seq(Nodes) : s = q[h]
    BY DEF SqInv, SqType
  <2>2. Ptrs(s, h, first[h], last_addr[h], next, prev)
    BY <2>1 DEF SqInv, Usable
  <2>3. /\ s = <<>> <=> Len(s) = 0
        /\ \A i \in 1 .. Len(s) : s[i] \in Nodes
        /\ Len(s) \in Nat
    BY SeqFacts
  <2>4. first[h] = IF Len(s) = 0 THEN NULL ELSE s[1]
    BY <2>2, <2>3 DEF Ptrs
  <2>5. Len(s) = 0 => last_addr[h] = h
    BY <2>2, <2>3 DEF Ptrs
  <2>6. squeue_get_tail(h) = IF Len(s) = 0 THEN NULL ELSE s[Len(s)]
    <3>1. CASE Len(s) = 0
      BY <3>1, <2>4 DEF squeue_get_tail
    <3>2. CASE Len(s) # 0
      <4>1. first[h] = s[1] /\ s[1] \in Nodes
        BY <3>2, <2>3, <2>4
      <4> QED
        BY <3>2, <4>1, <2>2, <2>3, SqueueAssumption DEF squeue_get_tail, Ptrs
    <3> QED
      BY <3>1, <3>2
  <2>7. ASSUME NEW i \in 1 .. Len(s)
        PROVE  /\ next[s[i]] = IF i = Len(s) THEN NULL ELSE s[i + 1]
               /\ squeue_get_prev(h, s[i]) = IF i = 1 THEN NULL ELSE s[i - 1]
    <3>1. /\ next[s[i]] = IF i = Len(s) THEN NULL ELSE s[i + 1]
          /\ prev[s[i]] = IF i = 1 THEN h ELSE s[i - 1]
      BY <2>2 DEF Ptrs
    <3>2. i # 1 => i - 1 \in 1 .. Len(s)
      BY <2>3
    <3>3. i # 1 => s[i - 1] # h
      BY <3>2, <2>3, SqueueAssumption
    <3> QED
      BY <3>1, <3>3 DEF squeue_get_prev
  <2> QED
    BY <2>1, <2>4, <2>5, <2>6, <2>7
<1> QED
  BY <1>1, <1>2, SqStart, PTL DEF SqSpec

-----------------------------------------------------------------------------
(* The logger.  Neither part of LogIntact is inductive.  What is: which    *)
(* characters went out to files, and that the writer's hand, the ring and  *)
(* a caller hold the rest in order (RingInv); which files are older, a lap *)
(* behind the count or not, so that a rename replaces the oldest (RotInv,  *)
(* FilesInv); that a message's characters go in while no other's do        *)
(* (MsgInv); and who can be where in each mode (WhereInv).                 *)

Rotating == {"size", "name", "rename", "count"}
LogPcs == Rotating \cup {"idle", "lock", "in", "rear", "append", "started", "test", "wait",
           "reopen", "out", "front", "put", "ended"}
\* The ring: Dist counts from the slot at the front.
Slots == 0 .. RING_SIZE - 1
SlotAfter(s) == IF s + 1 = RING_SIZE THEN 0 ELSE s + 1
Dist(s) == IF s >= front THEN s - front ELSE s + RING_SIZE - front
Used == Dist(rear)
\* Of the characters accepted, the newest has its slot but rear does not count it
\* yet, Used are in the ring, one is in the writer's hand, and Out went to files.
Pending == IF \E c \in Callers : at[c] = "rear" THEN 1 ELSE 0
Hand == IF at[Writer] = "put" THEN 1 ELSE 0
Out == Len(accepted) - Pending - Used - Hand

LogTypes ==
    /\ mode \in {"none", "async", "exiting", "sync"}
    /\ at \in [Threads -> LogPcs]
    /\ goal \in [Threads -> {"append", "started", "reopen"}]
    /\ newFile \in [Threads -> Nat]
    /\ data \in [Slots -> Nat] /\ front \in Slots /\ rear \in Slots
    /\ left \in [Callers -> Nat] /\ line \in [Callers -> Nat]
    /\ messages \in Nat /\ accepted \in Seq(Nat) /\ outch \in Nat
    /\ g_cur_files_cnt \in 0 .. g_logfile_max_cnt
    /\ file \in [FileNames -> Seq(Nat)] /\ present \subseteq 0 .. g_logfile_max_cnt

\* Who can be where in each mode, and that only one thread rotates.
WhereInv ==
    /\ mode \in {"none", "sync"} => at[Writer] = "idle"
    /\ mode \in {"none", "exiting"} => \A c \in Callers : at[c] = "idle"
    /\ mode # "async" => front = rear
    /\ mode = "async" => \A c \in Callers : at[c] \in {"idle", "lock", "in", "rear"}
    /\ mode = "sync" =>
         /\ \A c \in Callers : at[c] \in {"idle", "append"} \cup Rotating
         /\ \A c, d \in Callers : at[c] # "idle" /\ at[d] # "idle" => c = d
    /\ at[Writer] \notin {"lock", "in", "rear", "append"}
    /\ \A c \in Callers : goal[c] = "append"
    /\ at[Writer] \in Rotating => goal[Writer] \in {"started", "reopen"}

\* The ring holds the characters after those that went out, one after another.
RingInv ==
    /\ \A c \in Callers : at[c] \in {"in", "rear"} => lock = c
    /\ \A c \in Callers : at[c] = "rear" =>
         data[rear] = Len(accepted) /\ left[c] > 0 /\ SlotAfter(rear) # front
    /\ at[Writer] = "front" => front # rear /\ outch = data[front]
    /\ at[Writer] = "put" => outch = Out + 1
    /\ Out \in Nat
    /\ \A s \in Slots : Dist(s) < Used => data[s] = Out + Hand + Dist(s) + 1

\* The number of the last rotated file, also after its rename and before the
\* count.
Cnt == IF \E t \in Threads : at[t] = "count" THEN g_cur_files_cnt + 1 ELSE g_cur_files_cnt

\* A rotation renames an existing file to the number after the last.
RotInv ==
    /\ \A t \in Threads : at[t] \in {"name", "rename"} => Live \in present
    /\ \A t \in Threads : at[t] = "rename" => newFile[t] = g_cur_files_cnt + 1
    /\ \A t \in Threads : at[t] \in {"rename", "count"} => g_cur_files_cnt < g_logfile_max_cnt
    /\ at[Writer] \in {"out", "front", "put"} => Live \in present

\* The age of the files: those with the numbers after Cnt are a lap behind.
Older(f, g) ==
    \/ f # Live /\ g = Live
    \/ f # Live /\ g # Live /\ f > Cnt /\ g <= Cnt
    \/ f # Live /\ g # Live /\ f < g /\ (f > Cnt <=> g > Cnt)

\* Every file holds consecutive characters, an older file has older ones, and
\* from some character on everything that went out is there.
FilesInv ==
    /\ \A f \in FileNames \ present : file[f] = <<>>
    /\ \A f \in present : Range(file[f]) \subseteq 1 .. Out
    /\ \A f \in present : \A i \in 1 .. Len(file[f]) - 1 : file[f][i + 1] = file[f][i] + 1
    /\ file[Live] # <<>> => file[Live][Len(file[Live])] = Out
    /\ \A i \in OnDisk : \A j \in i .. Out : j \in OnDisk
    /\ \A f, g \in present : Older(f, g) =>
         \A x \in Range(file[f]), y \in Range(file[g]) : x < y
    /\ g_logfile_max_cnt \notin present => \A f \in present : f <= Cnt
    /\ Cnt = g_logfile_max_cnt => Cnt \in present

\* Messages that are being written have numbers of their own, and the one whose
\* characters are going in is the last in the log.
MsgInv ==
    /\ \A i \in DOMAIN accepted : accepted[i] <= messages
    /\ \A c \in Callers : at[c] # "idle" => line[c] <= messages
    /\ \A c, d \in Callers :
         at[c] # "idle" /\ at[d] # "idle" /\ line[c] = line[d] => c = d
    /\ \A c \in Callers : at[c] # "idle" =>
         \A i \in DOMAIN accepted : accepted[i] = line[c] =>
            /\ at[c] \in {"in", "rear"}
            /\ \A j \in i .. Len(accepted) : accepted[j] = line[c]
    /\ \A i, j, k \in DOMAIN accepted :
            i < j /\ j < k /\ accepted[i] = accepted[k] => accepted[j] = accepted[i]

LogInv == LogTypes /\ WhereInv /\ RingInv /\ RotInv /\ FilesInv /\ MsgInv

\* The remainder by the size of the ring, of sums of two slots.
LEMMA SlotSum ==
    ASSUME NEW x \in Slots, NEW i \in Slots
    PROVE  /\ x + i < RING_SIZE => RingSlot(x + i) = x + i
           /\ x + i >= RING_SIZE => RingSlot(x + i) = x + i - RING_SIZE
<1>1. RING_SIZE \in Nat /\ RING_SIZE > 1
  BY LogAssumption
<1>2. CASE x + i < RING_SIZE
  BY <1>1, <1>2 DEF RingSlot, Slots
<1>3. CASE x + i >= RING_SIZE
  BY <1>1, <1>3 DEF RingSlot, Slots
<1>4. QED BY <1>1, <1>2, <1>3 DEF Slots

\* The slot after a slot.
LEMMA SlotNext ==
    ASSUME NEW x \in Slots
    PROVE  RingSlot(x + 1) = SlotAfter(x) /\ SlotAfter(x) \in Slots
<1>1. RING_SIZE \in Nat /\ RING_SIZE > 1
  BY LogAssumption
<1>2. 1 \in Slots
  BY <1>1 DEF Slots
<1>3. QED BY <1>1, <1>2, SlotSum DEF Slots, SlotAfter

\* What the assumptions say of the constants.
LEMMA LogConsts ==
    /\ RING_SIZE \in Nat /\ RING_SIZE > 1 /\ CheckEvery \in Nat \ {0}
    /\ MaxFileLen \in Nat \ {0}
    /\ g_logfile_max_cnt \in Nat /\ g_logfile_max_cnt > 0
    /\ 0 .. g_logfile_max_cnt \subseteq FileNames /\ FileNames \subseteq Nat
    /\ Live \in FileNames /\ Live = 0
    /\ Callers \subseteq Threads /\ Writer \in Threads
    /\ Writer \notin Callers /\ Nobody \notin Callers
    /\ LineLengths \subseteq Nat \ {0}
<1>1. Cardinality(Callers) \in Nat
  BY LogAssumption, FS_CardinalityType
<1>2. QED BY <1>1, LogAssumption, LogNames DEF FileNames, Live, Threads

\* At the start everything has its type.
LEMMA LogTypesStart == LogInit => LogTypes
<1> SUFFICES ASSUME LogInit PROVE LogTypes
  OBVIOUS
<1>1. 0 \in Slots
  BY LogConsts DEF Slots
<1>2. QED BY <1>1, LogConsts DEF LogInit, LogTypes, LogPcs, Threads, Slots

\* Files are written by renaming and by appending.
LEMMA LogTypesKept ==
    ASSUME "restartEarly" \in LogHabits, LogTypes, RingInv, RotInv, LogNext
    PROVE  LogTypes'
<1> USE LogConsts DEF LogTypes
<1>1. ASSUME NEW m \in {"async", "sync"}, loggger_init(m) PROVE LogTypes'
  <2>1. get_cur_logfile_cnt \in Nat
    <3>1. IsFiniteSet(0 .. g_logfile_max_cnt)
      BY FS_Interval
    <3>2. IsFiniteSet(present)
      BY <3>1, FS_Subset
    <3>3. QED BY <3>2, FS_CardinalityType DEF get_cur_logfile_cnt
  <2>2. get_cur_logfile_cnt \in 0 .. g_logfile_max_cnt
    BY <1>1, <2>1 DEF loggger_init
  <2>3. 0 \in Slots
    BY DEF Slots
  <2>4. at' \in [Threads -> LogPcs] /\ goal' \in [Threads -> {"append", "started", "reopen"}]
    BY <1>1 DEF loggger_init, CheckSize, Go, LogPcs, Rotating
  <2>5. QED BY <1>1, <2>2, <2>3, <2>4 DEF loggger_init, msgVars
<1>2. ASSUME loggger_exit \/ exit_joined PROVE LogTypes'
  BY <1>2 DEF loggger_exit, exit_joined, Go, LogPcs, ringVars, fileVars, checkVars, msgVars
<1>3. ASSUME fputs_start \/ fputs_test \/ queue_out PROVE LogTypes'
  <2>1. at' \in [Threads -> LogPcs]
    BY <1>3 DEF fputs_start, fputs_test, queue_out, Go, LogPcs
  <2>2. outch' \in Nat
    BY <1>3 DEF fputs_start, fputs_test, queue_out
  <2>3. QED BY <1>3, <2>1, <2>2 DEF fputs_start, fputs_test, queue_out, WriterOnly, msgVars
<1>4. ASSUME fputs_open PROVE LogTypes'
  <2>1. at' \in [Threads -> LogPcs]
    BY <1>4 DEF fputs_open, Go, LogPcs
  <2>2. present' \subseteq 0 .. g_logfile_max_cnt
    <3>1. Live \in 0 .. g_logfile_max_cnt
      OBVIOUS
    <3>2. present' = present \cup {Live} \/ present' = present
      BY <1>4 DEF fputs_open
    <3>3. QED BY <3>1, <3>2
  <2>3. QED BY <1>4, <2>1, <2>2 DEF fputs_open, WriterOnly, msgVars
<1>5. ASSUME queue_out_front PROVE LogTypes'
  BY <1>5, SlotNext DEF queue_out_front, Go, LogPcs, WriterOnly, checkVars, msgVars
<1>6. ASSUME fputs_put PROVE LogTypes'
  <2>1. Append(file[Live], outch) \in Seq(Nat)
    BY AppendProperties
  <2>2. QED BY <1>6, <2>1 DEF fputs_put, CheckSize, Go, LogPcs, Rotating, WriterOnly, checkVars, msgVars
<1>7. ASSUME NEW t \in Threads,
             file_size_check(t) \/ rotate_name(t) \/ rotate_rename(t) \/ rotate_count(t)
      PROVE LogTypes'
  <2>1. CASE file_size_check(t)
    BY <2>1 DEF file_size_check, Go, LogPcs, Rotating, ringVars, fileVars, checkVars, msgVars
  <2>2. CASE rotate_name(t)
    BY <2>2 DEF rotate_name, WrappedCnt, RotateOnly, Go, LogPcs, Rotating, ringVars, msgVars
  <2>3. CASE rotate_rename(t)
    <3>1. newFile[t] \in 0 .. g_logfile_max_cnt
      BY <2>3 DEF rotate_rename, RotInv
    <3>2. at' \in [Threads -> LogPcs]
      BY <2>3 DEF rotate_rename, Go, LogPcs, Rotating
    <3>file. file' \in [FileNames -> Seq(Nat)]
      <4>1. <<>> \in Seq(Nat) /\ file[Live] \in Seq(Nat)
        BY EmptySeq
      <4>2. file' = [file EXCEPT ![newFile[t]] = file[Live], ![Live] = <<>>] \/ file' = file
        BY <2>3 DEF rotate_rename
      <4>3. QED BY <4>1, <4>2, <3>1
    <3>present. present' \subseteq present \cup {newFile[t]}
      BY <2>3 DEF rotate_rename
    <3>3. file' \in [FileNames -> Seq(Nat)] /\ present' \subseteq 0 .. g_logfile_max_cnt
      BY <3>1, <3>file, <3>present
    <3>4. QED BY <2>3, <3>2, <3>3 DEF rotate_rename, RotateOnly, ringVars, msgVars
  <2>4. CASE rotate_count(t)
    BY <2>4 DEF RotInv, rotate_count, RotateOnly, Go, LogPcs, Rotating, ringVars, msgVars
  <2>5. QED BY <1>7, <2>1, <2>2, <2>3, <2>4
<1>8. ASSUME NEW c \in Callers, NEW n \in LineLengths, logger_write(c, n) \/ logger_write_sync(c, n)
      PROVE LogTypes'
  <2>1. at' \in [Threads -> LogPcs] /\ goal' \in [Threads -> {"append", "started", "reopen"}]
    BY <1>8 DEF logger_write, logger_write_sync, CheckSize, Go, LogPcs, Rotating
  <2>2. Begins(c, "async", n) \/ Begins(c, "sync", n)
    BY <1>8 DEF logger_write, logger_write_sync
  <2>3. messages' \in Nat
    BY <2>2 DEF Begins
  <2>4. left' \in [Callers -> Nat] /\ line' \in [Callers -> Nat]
    <3>1. n \in Nat
      OBVIOUS
    <3>2. left' = [left EXCEPT ![c] = n] /\ line' = [line EXCEPT ![c] = messages']
      BY <2>2 DEF Begins
    <3>3. QED BY <2>3, <3>1, <3>2
  <2>5. QED BY <2>1, <2>2, <2>3, <2>4 DEF Begins, ringVars, fileVars
<1>9. ASSUME NEW c \in Callers, logger_lock(c) \/ logger_unlock(c) PROVE LogTypes'
  BY <1>9 DEF logger_lock, LockRing, logger_unlock, Go, LogPcs, checkVars, fileVars, msgVars
<1>10. ASSUME NEW c \in Callers, queue_in(c) PROVE LogTypes'
  <2>1. Append(accepted, line[c]) \in Seq(Nat) /\ Len(accepted) + 1 \in Nat
    BY AppendProperties, LenProperties
  <2>2. at' \in [Threads -> LogPcs] /\ left' \in [Callers -> Nat]
    BY <1>10 DEF queue_in, Go, LogPcs
  <2>3. data' \in [Slots -> Nat] /\ accepted' \in Seq(Nat)
    <3>1. \/ data' = data /\ accepted' = accepted
          \/ /\ data' = [data EXCEPT ![rear] = Len(accepted) + 1]
             /\ accepted' = Append(accepted, line[c])
      BY <1>10 DEF queue_in
    <3>2. data' \in [Slots -> Nat]
      BY <2>1, <3>1
    <3>3. accepted' \in Seq(Nat)
      BY <2>1, <3>1
    <3>4. QED BY <3>2, <3>3
  <2>4. QED BY <1>10, <2>2, <2>3 DEF queue_in, checkVars, fileVars
<1>11. ASSUME NEW c \in Callers, queue_in_rear(c) PROVE LogTypes'
  <2>1. left[c] > 0
    BY <1>11 DEF queue_in_rear, RingInv
  <2>2. left' \in [Callers -> Nat] /\ at' \in [Threads -> LogPcs]
    BY <1>11, <2>1 DEF queue_in_rear, Go, LogPcs
  <2>3. QED BY <1>11, <2>2, SlotNext DEF queue_in_rear, checkVars, fileVars
<1>12. ASSUME NEW c \in Callers, sync_append(c) PROVE LogTypes'
  <2>1. [i \in 1 .. left[c] |-> Len(accepted) + i] \in Seq(Nat)
    <3>1. Len(accepted) \in Nat
      BY LenProperties
    <3>2. \A i \in 1 .. left[c] : Len(accepted) + i \in Nat
      BY <3>1
    <3>3. left[c] \in Nat
      OBVIOUS
    <3> HIDE DEF LogTypes
    <3>4. QED BY <3>2, <3>3
  <2>2. [i \in 1 .. left[c] |-> line[c]] \in Seq(Nat)
    OBVIOUS
  <2>3. /\ file[Live] \o [i \in 1 .. left[c] |-> Len(accepted) + i] \in Seq(Nat)
        /\ accepted \o [i \in 1 .. left[c] |-> line[c]] \in Seq(Nat)
    BY <2>1, <2>2, ConcatProperties
  <2>4. at' \in [Threads -> LogPcs] /\ left' \in [Callers -> Nat]
    BY <1>12 DEF sync_append, Go, LogPcs
  <2>5. file' \in [FileNames -> Seq(Nat)] /\ present' \subseteq 0 .. g_logfile_max_cnt
    BY <1>12, <2>3 DEF sync_append
  <2>6. QED BY <1>12, <2>3, <2>4, <2>5 DEF sync_append, checkVars, ringVars
<1>13. QED
  BY <1>1, <1>2, <1>3, <1>4, <1>5, <1>6, <1>7, <1>8, <1>9, <1>10, <1>11, <1>12 DEF LogNext

\* At the start nobody is anywhere.
LEMMA WhereStart == LogInit => WhereInv
BY LogConsts DEF LogInit, WhereInv, Rotating

\* Who is where in each mode.
LEMMA WhereKept ==
    ASSUME "exitDrained" \in LogHabits, "oneWriter" \in LogHabits,
           LogTypes, WhereInv, RingInv, LogNext
    PROVE  WhereInv'
<1> USE LogConsts DEF LogTypes, WhereInv, Go, Rotating
<1>1. ASSUME NEW m \in {"async", "sync"}, loggger_init(m) PROVE WhereInv'
  BY <1>1 DEF loggger_init, CheckSize, msgVars
<1>2. ASSUME loggger_exit \/ exit_joined PROVE WhereInv'
  BY <1>2 DEF loggger_exit, exit_joined, ringVars, fileVars, checkVars, msgVars
<1>3. ASSUME fputs_start \/ fputs_test \/ fputs_open \/ queue_out PROVE WhereInv'
  <2>1. mode' = mode /\ goal' = goal /\ front' = front /\ rear' = rear
    BY <1>3 DEF fputs_start, fputs_test, fputs_open, queue_out, WriterOnly
  <2>2. \E p \in {"test", "ended", "wait", "out", "front"} : at' = [at EXCEPT ![Writer] = p]
    BY <1>3 DEF fputs_start, fputs_test, fputs_open, queue_out
  <2>3. at[Writer] # "idle"
    BY <1>3 DEF fputs_start, fputs_test, fputs_open, queue_out
  <2>4. QED BY <2>1, <2>2, <2>3
<1>4. ASSUME queue_out_front PROVE WhereInv'
  <2>1. front # rear
    BY <1>4 DEF queue_out_front, RingInv
  <2>2. QED BY <1>4, <2>1 DEF queue_out_front, WriterOnly
<1>5. ASSUME fputs_put PROVE WhereInv'
  BY <1>5 DEF fputs_put, CheckSize, WriterOnly
<1>6. ASSUME NEW t \in Threads,
             file_size_check(t) \/ rotate_name(t) \/ rotate_rename(t) \/ rotate_count(t)
      PROVE WhereInv'
  <2>1. mode' = mode /\ goal' = goal /\ front' = front /\ rear' = rear
    BY <1>6 DEF file_size_check, rotate_name, rotate_rename, rotate_count, RotateOnly,
                ringVars, checkVars
  <2>2. \E p \in {"name", "rename", "count", goal[t]} : at' = [at EXCEPT ![t] = p]
    BY <1>6 DEF file_size_check, rotate_name, rotate_rename, rotate_count
  <2>3. at[t] \in Rotating
    BY <1>6 DEF file_size_check, rotate_name, rotate_rename, rotate_count
  <2>4. CASE t = Writer
    BY <2>1, <2>2, <2>3, <2>4
  <2>5. CASE t \in Callers
    <3>1. mode = "sync" /\ goal[t] = "append"
      BY <2>3, <2>5
    <3>2. QED BY <2>1, <2>2, <2>3, <2>5, <3>1
  <2>6. QED BY <2>4, <2>5 DEF Threads
<1>7. ASSUME NEW c \in Callers, NEW n \in LineLengths, logger_write(c, n) PROVE WhereInv'
  BY <1>7 DEF logger_write, Begins, ringVars
<1>8. ASSUME NEW c \in Callers, NEW n \in LineLengths, logger_write_sync(c, n) PROVE WhereInv'
  <2>1. mode = "sync" /\ mode' = mode /\ front' = front /\ rear' = rear
    BY <1>8 DEF logger_write_sync, Begins, ringVars
  <2>2. \A d \in Callers : at[d] = "idle"
    BY <1>8 DEF logger_write_sync
  <2>3. \E p \in {"size", "append"} : at' = [at EXCEPT ![c] = p]
    BY <1>8 DEF logger_write_sync, CheckSize
  <2>4. goal' = goal \/ goal' = [goal EXCEPT ![c] = "append"]
    BY <1>8 DEF logger_write_sync, CheckSize
  <2>5. QED BY <2>1, <2>2, <2>3, <2>4
<1>9. ASSUME NEW c \in Callers,
             logger_lock(c) \/ queue_in(c) \/ queue_in_rear(c) \/ logger_unlock(c)
      PROVE WhereInv'
  <2>1. mode' = mode /\ goal' = goal /\ front' = front
    BY <1>9 DEF logger_lock, LockRing, queue_in, queue_in_rear, logger_unlock, checkVars
  <2>2. (\E p \in {"in", "rear", "idle"} : at' = [at EXCEPT ![c] = p]) \/ at' = at
    BY <1>9 DEF logger_lock, LockRing, queue_in, queue_in_rear, logger_unlock
  <2>3. at[c] \in {"lock", "in", "rear"}
    BY <1>9 DEF logger_lock, LockRing, queue_in, queue_in_rear, logger_unlock
  <2>4. mode = "async"
    BY <2>3
  <2>5. QED BY <2>1, <2>2, <2>3, <2>4
<1>10. ASSUME NEW c \in Callers, sync_append(c) PROVE WhereInv'
  BY <1>10 DEF sync_append, ringVars, checkVars
<1>11. QED
  BY <1>1, <1>2, <1>3, <1>4, <1>5, <1>6, <1>7, <1>8, <1>9, <1>10 DEF LogNext

\* At most one thread is about to rotate the files.
LEMMA OneRotator ==
    ASSUME WhereInv, NEW s \in Threads, NEW t \in Threads,
           at[s] \in Rotating, at[t] \in Rotating, LogTypes
    PROVE  s = t
BY LogConsts DEF WhereInv, Rotating, Threads, LogTypes

\* The counts of the ring.
LEMMA RingNums ==
    ASSUME LogTypes
    PROVE  /\ \A s \in Slots : Dist(s) \in Slots
           /\ Used \in Slots /\ (Used = 0 <=> front = rear)
           /\ Pending \in {0, 1} /\ Hand \in {0, 1}
           /\ Len(accepted) \in Nat /\ Out \in Int
<1>1. \A s \in Slots : Dist(s) \in Slots
  BY LogConsts DEF LogTypes, Slots, Dist
<1>2. Used \in Slots /\ (Used = 0 <=> front = rear)
  BY LogConsts DEF LogTypes, Slots, Dist, Used
<1>3. Pending \in {0, 1} /\ Hand \in {0, 1}
  BY DEF Pending, Hand
<1>4. Len(accepted) \in Nat
  BY LenProperties DEF LogTypes
<1>5. QED BY <1>1, <1>2, <1>3, <1>4 DEF Out, Slots

\* At the start the ring is empty and nothing went out.
LEMMA RingStart ==
    ASSUME LogInit PROVE RingInv /\ Out = 0
<1>1. LogTypes /\ front = 0 /\ rear = 0 /\ accepted = <<>>
  BY LogTypesStart DEF LogInit
<1>2. Used = 0
  BY <1>1, RingNums
<1>3. \A t \in Threads : at[t] = "idle"
  BY DEF LogInit
<1>4. Pending = 0 /\ Hand = 0 /\ Len(accepted) = 0
  BY <1>1, <1>3, LogConsts DEF Pending, Hand
<1>5. Out = 0
  BY <1>2, <1>4 DEF Out
<1>6. \A s \in Slots : Dist(s) >= 0
  BY <1>1, RingNums DEF Slots
<1>7. QED BY <1>2, <1>3, <1>5, <1>6, LogConsts, RingNums, <1>1 DEF RingInv, Slots

\* Steps that change neither the ring nor who is about to advance its ends.
LEMMA RingSame ==
    ASSUME LogTypes, RingInv, data' = data, front' = front, rear' = rear, accepted' = accepted,
           \A c \in Callers : at'[c] = "rear" <=> at[c] = "rear",
           \A c \in Callers : at[c] = "rear" => left'[c] = left[c],
           \A c \in Callers : at'[c] \in {"in", "rear"} => lock' = c,
           at'[Writer] = "put" <=> at[Writer] = "put",
           at[Writer] = "put" => outch' = outch,
           at'[Writer] = "front" => front # rear /\ outch' = data[front]
    PROVE  RingInv' /\ Out' = Out
<1>1. Pending' = Pending /\ Hand' = Hand
  BY DEF Pending, Hand
<1>2. Used' = Used /\ \A s \in Slots : Dist(s)' = Dist(s)
  BY DEF Used, Dist
<1>3. Out' = Out
  BY <1>1, <1>2 DEF Out
<1>4. QED BY <1>1, <1>2, <1>3 DEF RingInv

\* The ring is set up when it is empty and nobody uses it.
LEMMA RingReset ==
    ASSUME LogTypes, WhereInv, RingInv, LogTypes', loggger_init("async")
    PROVE  RingInv' /\ Out' = Out
<1>1. /\ mode = "none" /\ accepted' = accepted /\ front' = 0 /\ rear' = 0
      /\ at' = [at EXCEPT ![Writer] = "size"]
  BY DEF loggger_init, CheckSize, Go, msgVars
<1>2. at[Writer] = "idle" /\ front = rear /\ \A c \in Callers : at[c] = "idle" /\ at'[c] = "idle"
  BY <1>1, LogConsts DEF WhereInv, LogTypes
<1>3. at'[Writer] = "size"
  BY <1>1, LogConsts DEF LogTypes
<1>4. Used = 0 /\ Used' = 0
  BY <1>1, <1>2, RingNums, LogConsts DEF Used, Dist, Slots
<1>5. Pending = 0 /\ Pending' = 0 /\ Hand = 0 /\ Hand' = 0
  BY <1>2, <1>3 DEF Pending, Hand
<1>6. Out' = Out
  BY <1>1, <1>4, <1>5 DEF Out
<1>7. \A s \in Slots : Dist(s)' \in Nat
  BY <1>1, LogConsts DEF Dist, Slots
<1>8. \A s \in Slots : ~(Dist(s)' < Used')
  BY <1>4, <1>7
<1>9. Out' \in Nat
  BY <1>6 DEF RingInv
<1>10. QED BY <1>2, <1>3, <1>6, <1>8, <1>9 DEF RingInv

\* A character is put behind the last one, where the writer does not look.
LEMMA RingIn ==
    ASSUME LogTypes, RingInv, NEW c \in Callers, queue_in(c), ~Full
    PROVE  RingInv' /\ Out' = Out
<1>1. /\ at[c] = "in" /\ left[c] > 0 /\ left' = left /\ lock' = lock /\ outch' = outch
      /\ front' = front /\ rear' = rear
      /\ data' = [data EXCEPT ![rear] = Len(accepted) + 1]
      /\ accepted' = Append(accepted, line[c])
      /\ at' = [at EXCEPT ![c] = "rear"]
  BY DEF queue_in, Go
<1>2. SlotAfter(rear) # front
  BY SlotNext DEF Full, LogTypes
<1>3. \A d \in Callers : at[d] # "rear"
  BY <1>1 DEF RingInv
<1>4. /\ at'[c] = "rear" /\ at'[Writer] = at[Writer]
      /\ \A d \in Callers : at'[d] \in {"in", "rear"} => lock' = d
      /\ \A d \in Callers : at'[d] = "rear" => d = c
  BY <1>1, <1>3, LogConsts DEF LogTypes, RingInv
<1>5. Pending = 0 /\ Pending' = 1 /\ Hand' = Hand
  BY <1>3, <1>4 DEF Pending, Hand
<1>6. Used' = Used /\ \A s \in Slots : Dist(s)' = Dist(s)
  BY <1>1 DEF Used, Dist
<1>7. Len(accepted') = Len(accepted) + 1
  BY <1>1, AppendProperties DEF LogTypes
<1>8. Out' = Out
  BY <1>5, <1>6, <1>7, RingNums DEF Out, Slots
<1>9. data'[rear] = Len(accepted) + 1 /\ \A s \in Slots : s # rear => data'[s] = data[s]
  BY <1>1 DEF LogTypes
<1>10. \A s \in Slots : Dist(s) < Used => s # rear
  BY RingNums DEF Used, Slots
<1>11. front = rear => at[Writer] # "front"
  BY DEF RingInv
<1>12. front # rear => data'[front] = data[front]
  BY <1>9 DEF LogTypes
<1>after. SlotAfter(rear)' = SlotAfter(rear)
  BY <1>1 DEF SlotAfter
<1>13. QED
  BY <1>1, <1>2, <1>4, <1>5, <1>6, <1>7, <1>8, <1>9, <1>10, <1>11, <1>12, <1>after DEF RingInv

\* It counts when rear moves, for which there is room.
LEMMA RingRear ==
    ASSUME LogTypes, RingInv, NEW c \in Callers, queue_in_rear(c)
    PROVE  RingInv' /\ Out' = Out
<1>1. /\ at[c] = "rear" /\ lock' = lock /\ outch' = outch /\ accepted' = accepted
      /\ front' = front /\ data' = data /\ rear' = SlotAfter(rear)
      /\ at' = [at EXCEPT ![c] = "in"]
  BY SlotNext DEF queue_in_rear, Go, LogTypes
<1>2. \A d \in Callers : at[d] \in {"in", "rear"} => d = c
  BY <1>1 DEF RingInv
<1>3. /\ at'[c] = "in" /\ at'[Writer] = at[Writer]
      /\ \A d \in Callers : at'[d] # "rear" /\ (at'[d] = "in" => lock' = d)
  BY <1>1, <1>2, LogConsts DEF LogTypes, RingInv
<1>4. Pending = 1 /\ Pending' = 0 /\ Hand' = Hand
  BY <1>1, <1>3 DEF Pending, Hand
<1>5. SlotAfter(rear) # front /\ data[rear] = Len(accepted)
  BY <1>1 DEF RingInv
<1>6. Used' = Used + 1 /\ \A s \in Slots : Dist(s)' = Dist(s)
  <2>1. Used' = IF rear' >= front THEN rear' - front ELSE rear' + RING_SIZE - front
    BY <1>1 DEF Used, Dist
  <2>2. rear \in Nat /\ front \in Nat /\ rear < RING_SIZE /\ front < RING_SIZE
    BY LogConsts DEF LogTypes, Slots
  <2>3. CASE rear + 1 = RING_SIZE
    BY <1>1, <1>5, <2>1, <2>2, <2>3, LogConsts DEF Used, Dist, SlotAfter
  <2>4. CASE rear + 1 # RING_SIZE
    BY <1>1, <1>5, <2>1, <2>2, <2>4, LogConsts DEF Used, Dist, SlotAfter
  <2>5. \A s \in Slots : Dist(s)' = Dist(s)
    BY <1>1 DEF Dist
  <2>6. QED BY <2>3, <2>4, <2>5
<1>7. Out' = Out
  BY <1>1, <1>4, <1>6, RingNums DEF Out, Slots
<1>8. \A s \in Slots : Dist(s) < Used + 1 => Dist(s) < Used \/ s = rear
  BY LogConsts DEF Used, Dist, LogTypes, Slots
<1>9. Len(accepted) = Out + Hand + Used + 1
  BY <1>4, RingNums DEF Out, Slots
<1>10. \A s \in Slots : Dist(s)' < Used' => data'[s] = Out' + Hand' + Dist(s)' + 1
  <2> SUFFICES ASSUME NEW s \in Slots, Dist(s) < Used + 1
               PROVE  data[s] = Out + Hand + Dist(s) + 1
    BY <1>1, <1>3, <1>4, <1>6, <1>7
  <2>1. CASE s = rear
    BY <2>1, <1>5, <1>9 DEF Used
  <2>2. CASE Dist(s) < Used
    BY <2>2 DEF RingInv
  <2>3. QED BY <1>8, <2>1, <2>2
<1>11. at[Writer] = "front" => front' # rear'
  BY <1>1, <1>5
<1>12. QED BY <1>1, <1>3, <1>7, <1>10, <1>11 DEF RingInv

\* The writer gives the first slot back; what was in it is in its hand.
LEMMA RingFront ==
    ASSUME LogTypes, RingInv, queue_out_front
    PROVE  RingInv' /\ Out' = Out
<1>1. /\ at[Writer] = "front" /\ lock' = lock /\ outch' = outch /\ accepted' = accepted
      /\ front' = SlotAfter(front) /\ data' = data /\ rear' = rear /\ left' = left
      /\ at' = [at EXCEPT ![Writer] = "put"]
  BY SlotNext DEF queue_out_front, Go, LogTypes, WriterOnly, msgVars
<1>2. front # rear /\ outch = data[front]
  BY <1>1 DEF RingInv
<1>3. at'[Writer] = "put" /\ \A d \in Callers : at'[d] = at[d]
  BY <1>1, LogConsts DEF LogTypes
<1>4. Pending' = Pending /\ Hand = 0 /\ Hand' = 1
  BY <1>1, <1>3 DEF Pending, Hand
<1>dist. \A s : Dist(s)' = IF s >= front' THEN s - front' ELSE s + RING_SIZE - front'
  BY DEF Dist
<1>front. front \in Nat /\ front < RING_SIZE
  BY LogConsts DEF LogTypes, Slots
<1>less. \A s \in Slots : s # front => Dist(s)' = Dist(s) - 1
  <2> SUFFICES ASSUME NEW s \in Nat, s < RING_SIZE, s # front
               PROVE  Dist(s)' = Dist(s) - 1
    BY LogConsts DEF Slots
  <2>1. CASE front + 1 = RING_SIZE
    BY <1>1, <1>dist, <1>front, <2>1, LogConsts DEF Dist, SlotAfter
  <2>2. CASE front + 1 # RING_SIZE
    BY <1>1, <1>dist, <1>front, <2>2, LogConsts DEF Dist, SlotAfter
  <2>3. QED BY <2>1, <2>2
<1>5. Used' = Used - 1
  <2>2. Used' = IF rear >= front' THEN rear - front' ELSE rear + RING_SIZE - front'
    BY <1>1 DEF Used, Dist
  <2>3. rear \in Nat /\ rear < RING_SIZE
    BY LogConsts DEF LogTypes, Slots
  <2>4. CASE front + 1 = RING_SIZE
    BY <1>1, <1>2, <1>front, <2>2, <2>3, <2>4, LogConsts DEF Used, Dist, SlotAfter
  <2>5. CASE front + 1 # RING_SIZE
    BY <1>1, <1>2, <1>front, <2>2, <2>3, <2>5, LogConsts DEF Used, Dist, SlotAfter
  <2>6. QED BY <2>4, <2>5
<1>6. Dist(front) = 0 /\ \A s \in Slots : s = front => Dist(s)' = RING_SIZE - 1
  <2>1. Dist(front) = 0
    BY <1>front DEF Dist
  <2>2. CASE front + 1 = RING_SIZE
    BY <1>1, <1>dist, <1>front, <2>1, <2>2, LogConsts DEF SlotAfter
  <2>3. CASE front + 1 # RING_SIZE
    BY <1>1, <1>dist, <1>front, <2>1, <2>3, LogConsts DEF SlotAfter
  <2>4. QED BY <2>2, <2>3
<1>7. Out' = Out
  <2>1. Out' = Len(accepted) - Pending - (Used - 1) - 1
    BY <1>1, <1>4, <1>5 DEF Out
  <2>2. Used \in Nat
    BY RingNums DEF Slots
  <2>3. QED BY <1>4, <2>1, <2>2, RingNums DEF Out
<1>8. Used > 0 /\ Used < RING_SIZE
  BY <1>2, RingNums, LogConsts DEF Slots
<1>9. outch = Out + 1
  <2>1. Dist(front) < Used /\ front \in Slots
    BY <1>6, <1>8 DEF LogTypes
  <2>2. data[front] = Out + Hand + Dist(front) + 1
    BY <2>1 DEF RingInv
  <2>3. QED BY <1>2, <1>4, <1>6, <2>2, RingNums
<1>10. \A s \in Slots : Dist(s)' < Used' => data'[s] = Out' + Hand' + Dist(s)' + 1
  <2> SUFFICES ASSUME NEW s \in Slots, Dist(s)' < Used - 1
               PROVE  data[s] = Out + 1 + Dist(s)' + 1
    BY <1>1, <1>4, <1>5, <1>7
  <2>1. s # front
    <3>1. Used \in Nat /\ RING_SIZE \in Nat
      BY LogConsts, RingNums DEF Slots
    <3>2. QED BY <1>6, <1>8, <3>1
  <2>2. Dist(s)' = Dist(s) - 1
    BY <2>1, <1>less
  <2>3. Dist(s) < Used
    BY <2>2, RingNums DEF Slots
  <2>4. data[s] = Out + Hand + Dist(s) + 1
    BY <2>3 DEF RingInv
  <2>5. QED BY <2>2, <2>4, <1>4, RingNums DEF Slots
<1>11. \A c \in Callers : at'[c] = "rear" => SlotAfter(rear') # front'
  <2> SUFFICES ASSUME NEW c \in Callers, at[c] = "rear"
               PROVE  SlotAfter(rear) # SlotAfter(front)
    BY <1>1, <1>3
  <2>1. QED BY <1>2, LogConsts DEF SlotAfter, LogTypes, Slots
<1>after. SlotAfter(rear)' = SlotAfter(rear)
  BY <1>1 DEF SlotAfter
<1>12. QED BY <1>1, <1>3, <1>7, <1>9, <1>10, <1>11, <1>after DEF RingInv

\* ... and then in the file.
LEMMA RingPut ==
    ASSUME LogTypes, RingInv, fputs_put
    PROVE  RingInv' /\ Out' = Out + 1
<1>1. /\ at[Writer] = "put" /\ lock' = lock /\ accepted' = accepted /\ left' = left
      /\ front' = front /\ data' = data /\ rear' = rear
      /\ \E p \in {"size", "out"} : at' = [at EXCEPT ![Writer] = p]
  BY DEF fputs_put, Go, CheckSize, WriterOnly, msgVars
<1>2. at'[Writer] \notin {"put", "front"} /\ \A d \in Callers : at'[d] = at[d]
  BY <1>1, LogConsts DEF LogTypes
<1>3. Pending' = Pending /\ Hand = 1 /\ Hand' = 0
  BY <1>1, <1>2 DEF Pending, Hand
<1>4. Used' = Used /\ \A s \in Slots : Dist(s)' = Dist(s)
  BY <1>1 DEF Used, Dist
<1>5. Out' = Out + 1
  BY <1>1, <1>3, <1>4, RingNums DEF Out, Slots
<1>after. SlotAfter(rear)' = SlotAfter(rear)
  BY <1>1 DEF SlotAfter
<1>6. \A s \in Slots : Dist(s)' < Used' => data'[s] = Out' + Hand' + Dist(s)' + 1
  BY <1>1, <1>3, <1>4, <1>5, RingNums DEF RingInv
<1>7. Out' \in Nat
  BY <1>5 DEF RingInv
<1>8. \A c \in Callers : at'[c] = "rear" =>
        data'[rear'] = Len(accepted') /\ left'[c] > 0 /\ SlotAfter(rear)' # front'
  BY <1>1, <1>2, <1>after DEF RingInv
<1>9. \A c \in Callers : at'[c] \in {"in", "rear"} => lock' = c
  BY <1>1, <1>2 DEF RingInv
<1>10. QED BY <1>2, <1>5, <1>6, <1>7, <1>8, <1>9 DEF RingInv

\* In synchronous mode a message goes straight to the file.
LEMMA RingSync ==
    ASSUME LogTypes, WhereInv, RingInv, NEW c \in Callers, sync_append(c)
    PROVE  RingInv' /\ Out' = Out + left[c] /\ Out = Len(accepted)
<1>1. /\ at[c] = "append" /\ data' = data /\ front' = front /\ rear' = rear
      /\ accepted' = accepted \o [i \in 1 .. left[c] |-> line[c]]
      /\ at' = [at EXCEPT ![c] = "idle"]
  BY DEF sync_append, Go, ringVars
<1>2. mode = "sync"
  BY <1>1 DEF WhereInv, LogTypes
<1>3. front = rear /\ at[Writer] = "idle"
  BY <1>2 DEF WhereInv
<1>4. \A d \in Callers : at[d] \notin {"in", "rear"}
  BY <1>2 DEF WhereInv, Rotating
<1>5. at'[Writer] = "idle" /\ \A d \in Callers : at'[d] \notin {"in", "rear"}
  BY <1>1, <1>3, <1>4, LogConsts DEF LogTypes
<1>6. Pending = 0 /\ Pending' = 0 /\ Hand = 0 /\ Hand' = 0
  BY <1>3, <1>4, <1>5 DEF Pending, Hand
<1>7. Used = 0
  BY <1>3, RingNums
<1>8. Used' = 0 /\ \A s \in Slots : Dist(s)' = Dist(s)
  BY <1>1, <1>7 DEF Used, Dist
<1>9. Len(accepted') = Len(accepted) + left[c]
  <2>1. [i \in 1 .. left[c] |-> line[c]] \in Seq(Nat) /\ Len([i \in 1 .. left[c] |-> line[c]]) = left[c]
    BY DEF LogTypes
  <2>2. QED BY <1>1, <2>1, ConcatProperties DEF LogTypes
<1>10. Out = Len(accepted) /\ Out' = Out + left[c]
  BY <1>6, <1>7, <1>8, <1>9, RingNums DEF Out
<1>11. Out' \in Nat
  BY <1>10, RingNums DEF LogTypes
<1>12. \A s \in Slots : ~(Dist(s)' < Used')
  BY <1>8, RingNums DEF Slots
<1>13. QED BY <1>5, <1>10, <1>11, <1>12 DEF RingInv

\* What a step does to the ring and to the number of characters written.
LEMMA RingKept ==
    ASSUME LogTypes, WhereInv, RingInv, LogNext, LogTypes'
    PROVE  /\ RingInv'
           /\ \/ Out' = Out
              \/ fputs_put /\ Out' = Out + 1
              \/ \E c \in Callers : sync_append(c) /\ Out' = Out + left[c]
<1> USE LogConsts
<1> DEFINE Quiet == RingInv' /\ Out' = Out
<1>1. ASSUME loggger_init("sync") PROVE Quiet
  <2>1. UNCHANGED <<data, front, rear, accepted, at, left, lock, outch>>
    BY <1>1 DEF loggger_init, msgVars
  <2>2. QED BY <2>1, RingSame DEF RingInv
<1>2. ASSUME loggger_init("async") PROVE Quiet
  BY <1>2, RingReset
<1>3. ASSUME loggger_exit \/ exit_joined PROVE Quiet
  <2>1. UNCHANGED <<data, front, rear, accepted, left, lock, outch>>
    BY <1>3 DEF loggger_exit, exit_joined, ringVars, msgVars
  <2>2. at' = at \/ (at[Writer] = "ended" /\ at' = [at EXCEPT ![Writer] = "idle"])
    BY <1>3 DEF loggger_exit, exit_joined, Go
  <2>3. /\ \A c \in Callers : at'[c] = at[c]
        /\ at'[Writer] = "put" <=> at[Writer] = "put"
        /\ at'[Writer] = "front" => at[Writer] = "front"
    BY <2>2 DEF LogTypes
  <2>4. QED BY <2>1, <2>3, RingSame DEF RingInv
<1>4. ASSUME fputs_start \/ fputs_test \/ fputs_open PROVE Quiet
  <2>1. UNCHANGED <<data, front, rear, accepted, left, lock, outch>>
    BY <1>4 DEF fputs_start, fputs_test, fputs_open, WriterOnly, msgVars
  <2>2. \E p \in {"test", "ended", "wait", "out"} : at' = [at EXCEPT ![Writer] = p]
    BY <1>4 DEF fputs_start, fputs_test, fputs_open, Go
  <2>3. at[Writer] # "put"
    BY <1>4 DEF fputs_start, fputs_test, fputs_open
  <2>4. at'[Writer] \notin {"put", "front"} /\ \A c \in Callers : at'[c] = at[c]
    BY <2>2 DEF LogTypes
  <2>5. QED BY <2>1, <2>3, <2>4, RingSame DEF RingInv
<1>5. ASSUME queue_out PROVE Quiet
  <2>1. UNCHANGED <<data, front, rear, accepted, left, lock>> /\ at[Writer] = "out"
    BY <1>5 DEF queue_out, WriterOnly, msgVars
  <2>2. \/ at' = [at EXCEPT ![Writer] = "test"]
        \/ front # rear /\ outch' = data[front] /\ at' = [at EXCEPT ![Writer] = "front"]
    BY <1>5 DEF queue_out, Go
  <2>3. /\ at'[Writer] # "put" /\ \A c \in Callers : at'[c] = at[c]
        /\ at'[Writer] = "front" => front # rear /\ outch' = data[front]
    BY <2>2 DEF LogTypes
  <2>4. QED BY <2>1, <2>3, RingSame DEF RingInv
<1>6. ASSUME NEW t \in Threads,
             file_size_check(t) \/ rotate_name(t) \/ rotate_rename(t) \/ rotate_count(t)
      PROVE Quiet
  <2>1. UNCHANGED <<data, front, rear, accepted, left, lock, outch>>
    BY <1>6 DEF file_size_check, rotate_name, rotate_rename, rotate_count, RotateOnly,
                ringVars, msgVars
  <2>2. \E p \in {"name", "rename", "count", goal[t]} : at' = [at EXCEPT ![t] = p]
    BY <1>6 DEF file_size_check, rotate_name, rotate_rename, rotate_count, Go
  <2>3. at[t] \in Rotating /\ goal[t] \in {"append", "started", "reopen"}
    BY <1>6 DEF file_size_check, rotate_name, rotate_rename, rotate_count, Rotating, LogTypes
  <2>4. at'[t] \notin {"in", "rear", "put", "front"} /\ \A s \in Threads \ {t} : at'[s] = at[s]
    BY <2>2, <2>3 DEF LogTypes
  <2>5. at[t] \notin {"in", "rear", "put", "front"}
    BY <2>3 DEF Rotating
  <2>6. /\ \A c \in Callers : at'[c] = "rear" <=> at[c] = "rear"
        /\ \A c \in Callers : at'[c] \in {"in", "rear"} => lock' = c
        /\ at'[Writer] = "put" <=> at[Writer] = "put"
        /\ at'[Writer] = "front" => at[Writer] = "front"
    BY <2>1, <2>4, <2>5 DEF RingInv
  <2>7. QED BY <2>1, <2>6, RingSame DEF RingInv
<1>7. ASSUME NEW c \in Callers, NEW n \in LineLengths, logger_write(c, n) \/ logger_write_sync(c, n)
      PROVE Quiet
  <2>1. UNCHANGED <<data, front, rear, accepted, lock, outch>> /\ left' = [left EXCEPT ![c] = n]
    BY <1>7 DEF logger_write, logger_write_sync, Begins, ringVars
  <2>2. at[c] = "idle" /\ \E p \in {"lock", "size", "append"} : at' = [at EXCEPT ![c] = p]
    BY <1>7 DEF logger_write, logger_write_sync, Begins, CheckSize, Go
  <2>3. at'[c] \notin {"in", "rear"} /\ \A s \in Threads \ {c} : at'[s] = at[s]
    BY <2>2 DEF LogTypes
  <2>4. \A d \in Callers : at[d] = "rear" => left'[d] = left[d]
    BY <2>1, <2>2 DEF LogTypes
  <2>5. /\ \A d \in Callers : at'[d] = "rear" <=> at[d] = "rear"
        /\ \A d \in Callers : at'[d] \in {"in", "rear"} => lock' = d
        /\ at'[Writer] = at[Writer]
    BY <2>1, <2>2, <2>3 DEF RingInv
  <2>6. QED BY <2>1, <2>4, <2>5, RingSame DEF RingInv
<1>8. ASSUME NEW c \in Callers, logger_lock(c) \/ logger_unlock(c) PROVE Quiet
  <2>1. UNCHANGED <<data, front, rear, accepted, left, outch>>
    BY <1>8 DEF logger_lock, LockRing, logger_unlock, msgVars
  <2>2. \/ lock = Nobody /\ lock' = c /\ at[c] = "lock" /\ at' = [at EXCEPT ![c] = "in"]
        \/ at[c] = "in" /\ at' = [at EXCEPT ![c] = "idle"]
    BY <1>8 DEF logger_lock, LockRing, logger_unlock, Go
  <2>3. \A d \in Callers : d # c => at[d] \notin {"in", "rear"}
    BY <2>2 DEF RingInv
  <2>4. at'[c] # "rear" /\ \A s \in Threads \ {c} : at'[s] = at[s]
    BY <2>2 DEF LogTypes
  <2>5. at'[c] = "in" => lock' = c
    BY <2>2 DEF LogTypes
  <2>6. /\ \A d \in Callers : at'[d] = "rear" <=> at[d] = "rear"
        /\ \A d \in Callers : at'[d] \in {"in", "rear"} => lock' = d
        /\ at'[Writer] = at[Writer]
    BY <2>2, <2>3, <2>4, <2>5
  <2>7. QED BY <2>1, <2>6, RingSame DEF RingInv
<1>9. ASSUME NEW c \in Callers, queue_in(c) PROVE Quiet
  <2>1. CASE Full
    <3>1. UNCHANGED <<data, front, rear, accepted, at, lock, outch>> /\ at[c] = "in"
          /\ left' = [left EXCEPT ![c] = 0]
      BY <1>9, <2>1 DEF queue_in
    <3>2. \A d \in Callers : at[d] = "rear" => left'[d] = left[d]
      BY <3>1 DEF LogTypes
    <3>3. QED BY <3>1, <3>2, RingSame DEF RingInv
  <2>2. CASE ~Full
    BY <1>9, <2>2, RingIn
  <2>3. QED BY <2>1, <2>2
<1>10. ASSUME NEW c \in Callers, queue_in_rear(c) PROVE Quiet
  BY <1>10, RingRear
<1>11. ASSUME queue_out_front PROVE Quiet
  BY <1>11, RingFront
<1>12. ASSUME fputs_put PROVE RingInv' /\ Out' = Out + 1
  BY <1>12, RingPut
<1>13. ASSUME NEW c \in Callers, sync_append(c) PROVE RingInv' /\ Out' = Out + left[c]
  BY <1>13, RingSync
<1>14. QED
  BY <1>1, <1>2, <1>3, <1>4, <1>5, <1>6, <1>7, <1>8, <1>9, <1>10, <1>11, <1>12, <1>13 DEF LogNext

\* Steps of a thread that is not in the middle of a rotation.
LEMMA RotMoves ==
    ASSUME LogTypes, RotInv, g_cur_files_cnt' = g_cur_files_cnt, newFile' = newFile,
           present \subseteq present', NEW t \in Threads, NEW p,
           at' = [at EXCEPT ![t] = p], at[t] # "count", p \notin {"rename", "count"},
           p = "name" \/ (t = Writer /\ p \in {"out", "front", "put"}) => Live \in present'
    PROVE  RotInv' /\ Cnt' = Cnt
<1>1. at'[t] = p /\ \A s \in Threads : s # t => at'[s] = at[s]
  BY DEF LogTypes
<1>2. (\E s \in Threads : at'[s] = "count") <=> (\E s \in Threads : at[s] = "count")
  BY <1>1
<1>3. Cnt' = Cnt
  BY <1>2 DEF Cnt
<1>4. \A s \in Threads : at'[s] \in {"name", "rename"} => Live \in present'
  BY <1>1 DEF RotInv
<1>5. \A s \in Threads : at'[s] \in {"rename", "count"} => at[s] = at'[s]
  BY <1>1
<1>6. at'[Writer] \in {"out", "front", "put"} => Live \in present'
  BY <1>1 DEF RotInv
<1>7. QED BY <1>3, <1>4, <1>5, <1>6 DEF RotInv

\* Nothing happens to the counting.
LEMMA RotStays ==
    ASSUME RotInv, g_cur_files_cnt' = g_cur_files_cnt, newFile' = newFile,
           present' = present, at' = at
    PROVE  RotInv' /\ Cnt' = Cnt
BY DEF RotInv, Cnt

\* The three steps of a rotation.
LEMMA RotateNames ==
    ASSUME LogTypes, WhereInv, RotInv, NEW t \in Threads, rotate_name(t)
    PROVE  /\ RotInv' /\ Cnt = g_cur_files_cnt /\ Cnt' = WrappedCnt
           /\ UNCHANGED <<file, present>>
<1> USE LogConsts
<1>1. /\ at[t] = "name" /\ g_cur_files_cnt' = WrappedCnt /\ UNCHANGED <<file, present>>
      /\ newFile' = [newFile EXCEPT ![t] = WrappedCnt + 1]
      /\ at' = [at EXCEPT ![t] = "rename"]
  BY DEF rotate_name, Go
<1>2. \A s \in Threads : at[s] \in Rotating => s = t
  BY <1>1, OneRotator DEF Rotating
<1>3. at'[t] = "rename" /\ \A s \in Threads : s # t => at'[s] = at[s]
  BY <1>1 DEF LogTypes
<1>4. \A s \in Threads : s # t => at'[s] \notin Rotating
  BY <1>2, <1>3
<1>5. Cnt = g_cur_files_cnt /\ Cnt' = WrappedCnt
  <2>1. ~ \E s \in Threads : at[s] = "count"
    BY <1>1, <1>2 DEF Rotating
  <2>2. ~ \E s \in Threads : at'[s] = "count"
    BY <1>3, <1>4 DEF Rotating
  <2>3. QED BY <1>1, <2>1, <2>2 DEF Cnt
<1>6. WrappedCnt < g_logfile_max_cnt /\ newFile'[t] = WrappedCnt + 1
  BY <1>1 DEF LogTypes, WrappedCnt
<1>7. Live \in present
  BY <1>1 DEF RotInv
<1>8. QED BY <1>1, <1>3, <1>4, <1>5, <1>6, <1>7 DEF RotInv, Rotating

\* The file gets its number.
LEMMA RotateRenames ==
    ASSUME LogTypes, WhereInv, RotInv, NEW t \in Threads, rotate_rename(t)
    PROVE  /\ RotInv' /\ Cnt = g_cur_files_cnt /\ Cnt' = Cnt + 1 /\ Cnt' \in 1 .. g_logfile_max_cnt
           /\ file' = [file EXCEPT ![Cnt'] = file[Live], ![Live] = <<>>]
           /\ present' = (present \ {Live}) \cup {Cnt'} /\ Live \in present
<1> USE LogConsts
<1>1. /\ at[t] = "rename" /\ UNCHANGED <<g_cur_files_cnt, newFile>>
      /\ at' = [at EXCEPT ![t] = "count"]
  BY DEF rotate_rename, Go
<1>2. Live \in present /\ newFile[t] = g_cur_files_cnt + 1 /\ g_cur_files_cnt < g_logfile_max_cnt
  BY <1>1 DEF RotInv
<1>3. \A s \in Threads : at[s] \in Rotating => s = t
  BY <1>1, OneRotator DEF Rotating
<1>4. at'[t] = "count" /\ \A s \in Threads : s # t => at'[s] = at[s]
  BY <1>1 DEF LogTypes
<1>5. \A s \in Threads : s # t => at'[s] \notin Rotating
  BY <1>3, <1>4
<1>6. Cnt = g_cur_files_cnt /\ Cnt' = g_cur_files_cnt + 1
  <2>1. ~ \E s \in Threads : at[s] = "count"
    BY <1>1, <1>3 DEF Rotating
  <2>2. QED BY <1>1, <1>4, <2>1 DEF Cnt
<1>7. t \in Callers => at[Writer] = "idle"
  <2>1. t \in Callers => mode = "sync"
    BY <1>1 DEF WhereInv, LogTypes
  <2>2. QED BY <2>1 DEF WhereInv
<1>8. at'[Writer] \notin {"out", "front", "put"}
  BY <1>4, <1>7 DEF Threads
<1>9. RotInv'
  BY <1>1, <1>2, <1>4, <1>5, <1>8 DEF RotInv, Rotating
<1>10. /\ file' = [file EXCEPT ![newFile[t]] = file[Live], ![Live] = <<>>]
       /\ present' = (present \ {Live}) \cup {newFile[t]}
  BY <1>2 DEF rotate_rename
<1>11. newFile[t] = Cnt' /\ Cnt' \in 1 .. g_logfile_max_cnt
  BY <1>2, <1>6 DEF LogTypes
<1>12. QED BY <1>2, <1>6, <1>9, <1>10, <1>11

\* The renamed file is counted.
LEMMA RotateCounts ==
    ASSUME LogTypes, WhereInv, RotInv, NEW t \in Threads, rotate_count(t)
    PROVE  /\ RotInv' /\ Cnt' = Cnt /\ UNCHANGED <<file, present>>
<1> USE LogConsts
<1>1. /\ at[t] = "count" /\ g_cur_files_cnt' = g_cur_files_cnt + 1
      /\ at' = [at EXCEPT ![t] = goal[t]] /\ UNCHANGED <<file, present>>
  BY DEF rotate_count, Go
<1>2. \A s \in Threads : at[s] \in Rotating => s = t
  BY <1>1, OneRotator DEF Rotating
<1>3. at'[t] \in {"append", "started", "reopen"} /\ \A s \in Threads : s # t => at'[s] = at[s]
  BY <1>1 DEF LogTypes
<1>4. \A s \in Threads : at'[s] \notin Rotating
  BY <1>2, <1>3 DEF Rotating
<1>5. Cnt' = Cnt
  <2>1. ~ \E s \in Threads : at'[s] = "count"
    BY <1>4 DEF Rotating
  <2>2. QED BY <1>1, <2>1 DEF Cnt
<1>6. at'[Writer] \in {"out", "front", "put"} => Live \in present'
  BY <1>1, <1>3 DEF RotInv
<1>7. QED BY <1>1, <1>4, <1>5, <1>6 DEF RotInv, Rotating

\* A character is on disk when a file has it.
LEMMA DiskFacts ==
    /\ \A x : x \in OnDisk <=> \E f \in present : x \in Range(file[f])
    /\ \A x : x \in OnDisk' <=> \E f \in present' : x \in Range(file'[f])
BY DEF OnDisk

\* The last number is in range.
LEMMA CntFacts ==
    ASSUME LogTypes, RotInv
    PROVE  Cnt \in 0 .. g_logfile_max_cnt /\ Cnt \in Nat
<1>1. CASE \E t \in Threads : at[t] = "count"
  <2>1. g_cur_files_cnt < g_logfile_max_cnt
    BY <1>1 DEF RotInv
  <2>2. QED BY <1>1, <2>1, LogConsts DEF Cnt, LogTypes
<1>2. CASE ~ \E t \in Threads : at[t] = "count"
  BY <1>2, LogConsts DEF Cnt, LogTypes
<1>3. QED BY <1>1, <1>2

\* Nothing happens to the files.
LEMMA FilesSame ==
    ASSUME FilesInv, file' = file, present' = present, Cnt' = Cnt, Out' = Out
    PROVE  FilesInv'
BY DEF FilesInv, Older, OnDisk

\* The log file is created.
LEMMA FilesOpen ==
    ASSUME LogTypes, RotInv, RotInv', FilesInv, file' = file, present' = present \cup {Live},
           Cnt' = Cnt, Out' = Out
    PROVE  FilesInv'
<1> USE LogConsts
<1>1. CASE Live \in present
  <2>1. present' = present
    BY <1>1
  <2>2. QED BY <2>1, FilesSame
<1>2. CASE Live \notin present
  <2>1. file[Live] = <<>> /\ Range(file[Live]) = {}
    <3>1. file[Live] = <<>>
      BY <1>2 DEF FilesInv
    <3>2. QED BY <3>1 DEF Range
  <2>2. \A x : x \in OnDisk' <=> x \in OnDisk
    BY <2>1, DiskFacts
  <2>3. \A f \in FileNames \ present' : file'[f] = <<>>
    BY DEF FilesInv
  <2>4. \A f \in present' : Range(file'[f]) \subseteq 1 .. Out'
    BY <2>1 DEF FilesInv
  <2>5. \A f \in present' : \A i \in 1 .. Len(file'[f]) - 1 : file'[f][i + 1] = file'[f][i] + 1
    <3>1. \A i \in 1 .. Len(<<>>) - 1 : FALSE
      OBVIOUS
    <3>2. QED BY <2>1, <3>1 DEF FilesInv
  <2>6. \A i \in OnDisk' : \A j \in i .. Out' : j \in OnDisk'
    BY <2>2 DEF FilesInv
  <2>7. \A f, g \in present' : Older(f, g)' =>
          \A x \in Range(file'[f]), y \in Range(file'[g]) : x < y
    <3> SUFFICES ASSUME NEW f \in present', NEW g \in present', Older(f, g)',
                        NEW x \in Range(file[f]), NEW y \in Range(file[g])
                 PROVE  x < y
      OBVIOUS
    <3>1. Older(f, g)
      BY DEF Older
    <3>2. f \in present /\ g \in present
      BY <2>1
    <3>3. QED BY <3>1, <3>2 DEF FilesInv
  <2>8. g_logfile_max_cnt \notin present' => \A f \in present' : f <= Cnt'
    BY CntFacts DEF FilesInv
  <2>9. QED BY <2>1, <2>3, <2>4, <2>5, <2>6, <2>7, <2>8 DEF FilesInv
<1>3. QED BY <1>1, <1>2

\* k characters are written at the end of the log file.
LEMMA FilesGrow ==
    ASSUME LogTypes, RingInv, RotInv, FilesInv, NEW k \in Nat, Cnt' = Cnt, Out' = Out + k,
           present' = present \cup {Live},
           \A f \in FileNames : f # Live => file'[f] = file[f],
           file'[Live] \in Seq(Nat), Len(file'[Live]) = Len(file[Live]) + k,
           \A i \in 1 .. Len(file[Live]) : file'[Live][i] = file[Live][i],
           \A i \in 1 .. k : file'[Live][Len(file[Live]) + i] = Out + i
    PROVE  FilesInv'
<1> USE LogConsts
<1>1. /\ Out \in Nat /\ file[Live] \in Seq(Nat) /\ present \subseteq FileNames
      /\ present' \subseteq FileNames
  BY DEF RingInv, LogTypes
<1>2. PICK len \in Nat : len = Len(file[Live])
  BY <1>1, LenProperties
<1>3. PICK w : w = file[Live]
  OBVIOUS
<1>4. PICK r : r = file'[Live]
  OBVIOUS
<1>5. /\ w \in Seq(Nat) /\ r \in Seq(Nat) /\ Len(w) = len /\ Len(r) = len + k
      /\ \A i \in 1 .. len : r[i] = w[i]
      /\ \A i \in 1 .. k : r[len + i] = Out + i
  BY <1>1, <1>2, <1>3, <1>4
<1>6. \A i \in 1 .. len + k : (i <= len => r[i] = w[i]) /\ (i > len => r[i] = Out + (i - len))
  <2> SUFFICES ASSUME NEW i \in 1 .. len + k
               PROVE  (i <= len => r[i] = w[i]) /\ (i > len => r[i] = Out + (i - len))
    OBVIOUS
  <2>1. CASE i <= len
    BY <1>5, <2>1
  <2>2. CASE i > len
    <3>1. i - len \in 1 .. k /\ len + (i - len) = i
      BY <2>2
    <3>2. QED BY <1>5, <2>2, <3>1
  <2>3. QED BY <2>1, <2>2
<1>7. DOMAIN w = 1 .. len /\ DOMAIN r = 1 .. len + k
  BY <1>5, LenProperties
<1>8. \A x : x \in Range(r) <=> x \in Range(w) \/ x \in Out + 1 .. Out + k
  <2>1. \A x \in Range(r) : x \in Range(w) \/ x \in Out + 1 .. Out + k
    <3> SUFFICES ASSUME NEW i \in 1 .. len + k
                 PROVE  r[i] \in Range(w) \/ r[i] \in Out + 1 .. Out + k
      BY <1>7 DEF Range
    <3>1. CASE i <= len
      <4>1. i \in 1 .. len /\ r[i] = w[i]
        BY <1>5, <3>1
      <4>2. QED BY <1>7, <4>1 DEF Range
    <3>2. CASE i > len
      <4>1. r[i] = Out + (i - len)
        BY <1>6, <3>2
      <4>2. QED BY <1>1, <3>2, <4>1
    <3>3. QED BY <3>1, <3>2
  <2>2. \A x \in Range(w) : x \in Range(r)
    <3> SUFFICES ASSUME NEW i \in 1 .. len PROVE w[i] \in Range(r)
      BY <1>7 DEF Range
    <3>1. i \in 1 .. len + k /\ r[i] = w[i]
      BY <1>5
    <3>2. QED BY <1>7, <3>1 DEF Range
  <2>3. \A x \in Out + 1 .. Out + k : x \in Range(r)
    <3> SUFFICES ASSUME NEW x \in Out + 1 .. Out + k PROVE x \in Range(r)
      OBVIOUS
    <3>1. PICK i \in 1 .. k : x = Out + i
      <4>1. x - Out \in 1 .. k /\ x = Out + (x - Out)
        BY <1>1
      <4>2. QED BY <4>1
    <3>2. r[len + i] = x /\ len + i \in 1 .. len + k
      BY <1>5, <3>1
    <3>3. QED BY <1>7, <3>2 DEF Range
  <2>4. QED BY <2>1, <2>2, <2>3
<1>9. Live \notin present => w = <<>> /\ Range(w) = {}
  <2>1. Live \notin present => w = <<>>
    BY <1>3 DEF FilesInv
  <2>2. QED BY <2>1 DEF Range
<1>10. Live \in present => Range(w) \subseteq 1 .. Out
  BY <1>3 DEF FilesInv
<1>11. \A x : x \in OnDisk' <=> x \in OnDisk \/ x \in Out + 1 .. Out + k
  <2>1. \A x : x \in OnDisk' <=> x \in Range(r) \/ \E f \in present : f # Live /\ x \in Range(file[f])
    BY <1>1, <1>4, DiskFacts
  <2>2. \A x : x \in OnDisk <=> x \in Range(w) \/ \E f \in present : f # Live /\ x \in Range(file[f])
    BY <1>3, <1>9, DiskFacts
  <2>3. QED BY <1>8, <2>1, <2>2
<1>12. \A x \in OnDisk : x \in 1 .. Out
  BY DiskFacts DEF FilesInv
<1>13. \A f \in FileNames \ present' : file'[f] = <<>>
  BY DEF FilesInv
<1>14. \A f \in present' : Range(file'[f]) \subseteq 1 .. Out'
  <2> SUFFICES ASSUME NEW f \in present', NEW x \in Range(file'[f]) PROVE x \in 1 .. Out + k
    OBVIOUS
  <2>1. x \in OnDisk'
    BY DiskFacts
  <2>2. QED BY <1>1, <1>11, <1>12, <2>1
<1>15. \A f \in present' : \A i \in 1 .. Len(file'[f]) - 1 : file'[f][i + 1] = file'[f][i] + 1
  <2>1. \A f \in present' : f # Live =>
          \A i \in 1 .. Len(file'[f]) - 1 : file'[f][i + 1] = file'[f][i] + 1
    <3> SUFFICES ASSUME NEW f \in present', f # Live
                 PROVE  \A i \in 1 .. Len(file'[f]) - 1 : file'[f][i + 1] = file'[f][i] + 1
      OBVIOUS
    <3>1. f \in present /\ file'[f] = file[f]
      BY <1>1
    <3>2. QED BY <3>1 DEF FilesInv
  <2>2. \A i \in 1 .. len + k - 1 : r[i + 1] = r[i] + 1
    <3> SUFFICES ASSUME NEW i \in 1 .. len + k - 1 PROVE r[i + 1] = r[i] + 1
      OBVIOUS
    <3>1. i \in 1 .. len + k /\ i + 1 \in 1 .. len + k
      OBVIOUS
    <3>2. CASE i < len
      <4>1. Live \in present
        BY <1>5, <1>9, <3>2
      <4>2. w[i + 1] = w[i] + 1
        BY <1>3, <1>5, <3>2, <4>1 DEF FilesInv
      <4>3. QED BY <1>6, <3>1, <3>2, <4>2
    <3>3. CASE i = len
      <4>1. w # <<>>
        BY <1>5, <3>3
      <4>2. w[len] = Out
        BY <1>3, <1>5, <4>1 DEF FilesInv
      <4>3. r[i] = Out
        <5>1. r[i] = w[i]
          BY <1>6, <3>1, <3>3
        <5>2. QED BY <3>3, <4>2, <5>1
      <4>4. r[i + 1] = Out + (i + 1 - len)
        BY <1>6, <3>1, <3>3
      <4>5. QED BY <1>1, <3>3, <4>3, <4>4
    <3>4. CASE i > len
      <4>1. r[i] = Out + (i - len) /\ r[i + 1] = Out + (i + 1 - len)
        BY <1>6, <3>1, <3>4
      <4>2. QED BY <1>1, <4>1
    <3>5. QED BY <3>2, <3>3, <3>4
  <2>3. \A i \in 1 .. Len(file'[Live]) - 1 : file'[Live][i + 1] = file'[Live][i] + 1
    BY <1>4, <1>5, <2>2
  <2>4. ASSUME NEW f \in present'
        PROVE  \A i \in 1 .. Len(file'[f]) - 1 : file'[f][i + 1] = file'[f][i] + 1
    <3>1. CASE f = Live
      BY <2>3, <3>1
    <3>2. CASE f # Live
      BY <2>1, <3>2
    <3>3. QED BY <3>1, <3>2
  <2>5. QED BY <2>4
<1>16. file'[Live] # <<>> => file'[Live][Len(file'[Live])] = Out'
  <2> SUFFICES ASSUME r # <<>> PROVE r[len + k] = Out + k
    BY <1>4, <1>5
  <2>1. len + k \in 1 .. len + k
    BY <1>5, EmptySeq
  <2>2. CASE k = 0
    <3>1. w # <<>>
      BY <1>5, <2>1, <2>2
    <3>2. w[len] = Out
      BY <1>3, <1>5, <3>1 DEF FilesInv
    <3>3. len + k = len /\ r[len] = w[len]
      BY <1>6, <2>1, <2>2
    <3>4. QED BY <1>1, <2>2, <3>2, <3>3
  <2>3. CASE k > 0
    <3>1. len + k > len /\ (len + k) - len = k
      BY <2>3
    <3>2. r[len + k] = Out + ((len + k) - len)
      BY <1>6, <2>1, <3>1
    <3>3. QED BY <3>1, <3>2
  <2>4. QED BY <2>2, <2>3
<1>17. \A i \in OnDisk' : \A j \in i .. Out' : j \in OnDisk'
  <2> SUFFICES ASSUME NEW i \in OnDisk', NEW j \in i .. Out + k PROVE j \in OnDisk'
    OBVIOUS
  <2>1. i \in Nat
    BY <1>1, <1>11, <1>12
  <2>2. CASE j <= Out
    <3>1. i \in OnDisk
      BY <1>1, <1>11, <2>1, <2>2
    <3>2. j \in OnDisk
      BY <2>1, <2>2, <3>1 DEF FilesInv
    <3>3. QED BY <1>11, <3>2
  <2>3. CASE j > Out
    <3>1. j \in Out + 1 .. Out + k
      BY <1>1, <2>1, <2>3
    <3>2. QED BY <1>11, <3>1
  <2>4. QED BY <1>1, <2>1, <2>2, <2>3
<1>18. \A f, g \in present' : Older(f, g)' =>
         \A x \in Range(file'[f]), y \in Range(file'[g]) : x < y
  <2> SUFFICES ASSUME NEW f \in present', NEW g \in present', Older(f, g)',
                      NEW x \in Range(file'[f]), NEW y \in Range(file'[g])
               PROVE  x < y
    OBVIOUS
  <2>1. Older(f, g) /\ f # Live
    BY DEF Older
  <2>2. f \in present /\ x \in Range(file[f])
    BY <1>1, <2>1
  <2>3. CASE g # Live
    <3>1. g \in present /\ y \in Range(file[g])
      BY <1>1, <2>3
    <3>2. QED BY <2>1, <2>2, <3>1 DEF FilesInv
  <2>4. CASE g = Live
    <3>1. y \in Range(w) \/ y \in Out + 1 .. Out + k
      BY <1>4, <1>8, <2>4
    <3>2. CASE y \in Range(w)
      <4>1. Live \in present
        BY <1>9, <3>2
      <4>2. QED BY <1>3, <2>1, <2>2, <2>4, <3>2, <4>1 DEF FilesInv
    <3>3. CASE y \in Out + 1 .. Out + k
      <4>1. x \in 1 .. Out
        BY <2>2 DEF FilesInv
      <4>2. QED BY <1>1, <3>3, <4>1
    <3>4. QED BY <3>1, <3>2, <3>3
  <2>5. QED BY <2>3, <2>4
<1>19. /\ g_logfile_max_cnt \notin present' => \A f \in present' : f <= Cnt'
       /\ Cnt' = g_logfile_max_cnt => Cnt' \in present'
  BY CntFacts DEF FilesInv
<1>20. QED BY <1>13, <1>14, <1>15, <1>16, <1>17, <1>18, <1>19 DEF FilesInv

\* The log file is renamed to the number of the oldest file.
LEMMA FilesRename ==
    ASSUME LogTypes, RotInv, RingInv, FilesInv, Out' = Out, Live \in present,
           Cnt' = Cnt + 1, Cnt' \in 1 .. g_logfile_max_cnt,
           file' = [file EXCEPT ![Cnt'] = file[Live], ![Live] = <<>>],
           present' = (present \ {Live}) \cup {Cnt'}
    PROVE  FilesInv'
<1> USE LogConsts
<1>1. PICK n \in Nat : n = Cnt
  BY CntFacts
<1>2. PICK k \in Nat : k = Cnt'
  OBVIOUS
<1>3. k = n + 1 /\ k # Live /\ k \in FileNames /\ k <= g_logfile_max_cnt
  BY <1>1, <1>2
<1>4. present \subseteq FileNames /\ present' = (present \ {Live}) \cup {k} /\ present' \subseteq FileNames
  BY <1>2, <1>3 DEF LogTypes
<1>5. /\ file'[k] = file[Live] /\ file'[Live] = <<>>
      /\ \A f \in FileNames : f # k /\ f # Live => file'[f] = file[f]
  BY <1>2, <1>3 DEF LogTypes
<1>6. \A f, g \in FileNames : Older(f, g) <=>
        \/ f # Live /\ g = Live
        \/ f # Live /\ g # Live /\ f > n /\ g <= n
        \/ f # Live /\ g # Live /\ f < g /\ (f > n <=> g > n)
  BY <1>1 DEF Older
<1>7. \A f, g \in FileNames : Older(f, g)' <=>
        \/ f # Live /\ g = Live
        \/ f # Live /\ g # Live /\ f > k /\ g <= k
        \/ f # Live /\ g # Live /\ f < g /\ (f > k <=> g > k)
  BY <1>2 DEF Older
<1>8. \A f \in present : f # k => Older(k, f)
  BY <1>3, <1>4, <1>6
<1>9. \A x : x \in OnDisk' <=> \E f \in present : f # k /\ x \in Range(file[f])
  <2>1. ASSUME NEW x, NEW f \in present', x \in Range(file'[f])
        PROVE  \E g \in present : g # k /\ x \in Range(file[g])
    <3>1. CASE f = k
      BY <1>3, <1>5, <2>1, <3>1
    <3>2. CASE f # k
      <4>1. f \in present /\ f # Live
        BY <1>4, <3>2
      <4>2. QED BY <1>4, <1>5, <2>1, <3>2, <4>1
    <3>3. QED BY <3>1, <3>2
  <2>2. ASSUME NEW x, NEW f \in present, f # k, x \in Range(file[f])
        PROVE  \E g \in present' : x \in Range(file'[g])
    <3>1. CASE f = Live
      BY <1>4, <1>5, <2>2, <3>1
    <3>2. CASE f # Live
      <4>1. f \in present' /\ file'[f] = file[f]
        BY <1>4, <1>5, <2>2, <3>2
      <4>2. QED BY <2>2, <4>1
    <3>3. QED BY <3>1, <3>2
  <2>3. QED BY <2>1, <2>2, DiskFacts
<1>10. \A f \in FileNames \ present' : file'[f] = <<>>
  BY <1>4, <1>5 DEF FilesInv
<1>11. \A f \in present' : \E g \in present : file'[f] = file[g]
  BY <1>4, <1>5
<1>12. \A f \in present' : Range(file'[f]) \subseteq 1 .. Out'
  BY <1>11 DEF FilesInv
<1>13. \A f \in present' : \A i \in 1 .. Len(file'[f]) - 1 : file'[f][i + 1] = file'[f][i] + 1
  <2> SUFFICES ASSUME NEW f \in present'
               PROVE  \A i \in 1 .. Len(file'[f]) - 1 : file'[f][i + 1] = file'[f][i] + 1
    OBVIOUS
  <2>1. PICK g \in present : file'[f] = file[g]
    BY <1>11
  <2>2. \A i \in 1 .. Len(file[g]) - 1 : file[g][i + 1] = file[g][i] + 1
    BY DEF FilesInv
  <2>3. QED BY <2>1, <2>2
<1>14. \A i \in OnDisk' : \A j \in i .. Out' : j \in OnDisk'
  <2> SUFFICES ASSUME NEW i \in OnDisk', NEW j \in i .. Out PROVE j \in OnDisk'
    OBVIOUS
  <2>1. PICK f \in present : f # k /\ i \in Range(file[f])
    BY <1>9
  <2>2. i \in 1 .. Out /\ Out \in Nat
    BY <2>1 DEF FilesInv, RingInv
  <2>3. i \in OnDisk
    BY <2>1, DiskFacts
  <2>4. j \in OnDisk
    BY <2>3 DEF FilesInv
  <2>5. PICK g \in present : j \in Range(file[g])
    BY <2>4, DiskFacts
  <2>6. CASE g = k
    <3>1. Older(g, f)
      BY <1>8, <2>1, <2>6
    <3>2. j < i
      BY <2>1, <2>5, <3>1 DEF FilesInv
    <3>3. QED BY <2>2, <3>2
  <2>7. CASE g # k
    BY <1>9, <2>5, <2>7
  <2>8. QED BY <2>6, <2>7
<1>15. \A f, g \in present' : Older(f, g)' =>
         \A x \in Range(file'[f]), y \in Range(file'[g]) : x < y
  <2> SUFFICES ASSUME NEW f \in present', NEW g \in present', Older(f, g)',
                      NEW x \in Range(file'[f]), NEW y \in Range(file'[g])
               PROVE  x < y
    OBVIOUS
  <2>1. f \in FileNames /\ g \in FileNames /\ f \in Nat /\ g \in Nat /\ f # Live /\ g # Live
    BY <1>3, <1>4
  <2>2. f # k
    BY <1>7, <2>1
  <2>3. f \in present /\ file'[f] = file[f]
    BY <1>4, <1>5, <2>1, <2>2
  <2>4. CASE g = k
    <3>1. Older(f, Live)
      BY <1>6, <2>1
    <3>2. file'[g] = file[Live]
      BY <1>5, <2>4
    <3>3. QED BY <2>3, <3>1, <3>2 DEF FilesInv
  <2>5. CASE g # k
    <3>1. g \in present /\ file'[g] = file[g]
      BY <1>4, <1>5, <2>1, <2>5
    <3>2. Older(f, g)
      BY <1>3, <1>6, <1>7, <2>1, <2>2, <2>5
    <3>3. QED BY <2>3, <3>1, <3>2 DEF FilesInv
  <2>6. QED BY <2>4, <2>5
<1>16. g_logfile_max_cnt \notin present' => \A f \in present' : f <= Cnt'
  <2> SUFFICES ASSUME g_logfile_max_cnt \notin present', NEW f \in present' PROVE f <= k
    BY <1>2
  <2>1. g_logfile_max_cnt \notin present
    BY <1>4
  <2>2. f = k \/ f <= n
    BY <1>1, <1>4, <2>1 DEF FilesInv
  <2>3. f \in Nat
    BY <1>4
  <2>4. QED BY <1>3, <2>2, <2>3
<1>17. Cnt' \in present'
  BY <1>2, <1>4
<1>18. file'[Live] # <<>> => file'[Live][Len(file'[Live])] = Out'
  BY <1>5
<1>19. QED BY <1>10, <1>12, <1>13, <1>14, <1>15, <1>16, <1>17, <1>18 DEF FilesInv

\* Counting goes on at 0 after the last number, or at the number of files.
LEMMA FilesRecount ==
    ASSUME LogTypes, RotInv, FilesInv, file' = file, present' = present, Out' = Out,
           Cnt' \in Nat, Cnt' < g_logfile_max_cnt,
           \/ Cnt' = Cnt
           \/ Cnt = g_logfile_max_cnt /\ Cnt' = 0
           \/ \A f \in present : f <= Cnt'
    PROVE  FilesInv'
<1> USE LogConsts
<1>1. CASE Cnt' = Cnt
  BY <1>1, FilesSame
<1>2. CASE Cnt' # Cnt
  <2>1. present \subseteq Nat /\ \A f \in present : f <= g_logfile_max_cnt
    BY DEF LogTypes
  <2>2. /\ \A f, g \in present : f # Live /\ g # Live => ~(f > Cnt /\ g <= Cnt) /\ (f > Cnt <=> g > Cnt)
        /\ \A f, g \in present : f # Live /\ g # Live => ~(f > Cnt' /\ g <= Cnt') /\ (f > Cnt' <=> g > Cnt')
    <3>1. CASE Cnt = g_logfile_max_cnt /\ Cnt' = 0
      BY <2>1, <3>1
    <3>2. CASE \A f \in present : f <= Cnt'
      <4>1. g_logfile_max_cnt \notin present
        BY <2>1, <3>2
      <4>2. \A f \in present : f <= Cnt
        BY <4>1 DEF FilesInv
      <4>3. QED BY <2>1, <3>2, <4>2, CntFacts
    <3>3. QED BY <1>2, <3>1, <3>2
  <2>3. \A f, g \in present : Older(f, g)' => Older(f, g)
    <3> SUFFICES ASSUME NEW f \in present, NEW g \in present, Older(f, g)' PROVE Older(f, g)
      OBVIOUS
    <3>1. f # Live
      BY DEF Older
    <3>2. CASE g = Live
      BY <3>1, <3>2 DEF Older
    <3>3. CASE g # Live
      <4>1. f < g
        BY <2>2, <3>1, <3>3 DEF Older
      <4>2. QED BY <2>2, <3>1, <3>3, <4>1 DEF Older
    <3>4. QED BY <3>2, <3>3
  <2>4. \A f, g \in present' : Older(f, g)' =>
          \A x \in Range(file'[f]), y \in Range(file'[g]) : x < y
    BY <2>3 DEF FilesInv
  <2>5. g_logfile_max_cnt \notin present' => \A f \in present' : f <= Cnt'
    BY <1>2 DEF FilesInv
  <2>6. Cnt' # g_logfile_max_cnt
    OBVIOUS
  <2>7. OnDisk' = OnDisk
    BY DEF OnDisk
  <2>8. QED BY <2>4, <2>5, <2>6, <2>7 DEF FilesInv
<1>3. QED BY <1>1, <1>2

\* loggger_init counts the files, and finds them as the last run left them.
LEMMA LoggerStartsFiles ==
    ASSUME "restartEarly" \in LogHabits, LogTypes, WhereInv, RotInv, FilesInv, Out' = Out,
           NEW m \in {"async", "sync"}, loggger_init(m), LogTypes'
    PROVE  RotInv' /\ FilesInv'
<1> USE LogConsts
<1>1. /\ mode = "none" /\ UNCHANGED <<file, present>>
      /\ g_cur_files_cnt' = get_cur_logfile_cnt /\ get_cur_logfile_cnt < g_logfile_max_cnt
      /\ \A f \in present : f <= get_cur_logfile_cnt
      /\ at' = at \/ at' = [at EXCEPT ![Writer] = "size"]
  BY DEF loggger_init, CheckSize, Go
<1>2. \A t \in Threads : at[t] = "idle"
  BY <1>1 DEF WhereInv, Threads
<1>3. \A t \in Threads : at'[t] \in {"idle", "size"}
  BY <1>1, <1>2 DEF LogTypes
<1>4. RotInv'
  <2>1. \A t \in Threads : at'[t] \notin {"name", "rename", "count", "out", "front", "put"}
    BY <1>3
  <2>2. QED BY <2>1 DEF RotInv
<1>5. Cnt' = g_cur_files_cnt'
  <2>1. ~ \E t \in Threads : at'[t] = "count"
    BY <1>3
  <2>2. QED BY <2>1 DEF Cnt
<1>6. Cnt' \in Nat /\ Cnt' < g_logfile_max_cnt /\ \A f \in present : f <= Cnt'
  BY <1>1, <1>5 DEF LogTypes
<1>7. QED BY <1>1, <1>4, <1>6, FilesRecount

\* The steps of file_size_check.
LEMMA RotateKeepsFiles ==
    ASSUME LogTypes, WhereInv, RingInv, RotInv, FilesInv, Out' = Out, NEW t \in Threads,
           file_size_check(t) \/ rotate_name(t) \/ rotate_rename(t) \/ rotate_count(t)
    PROVE  RotInv' /\ FilesInv'
<1> USE LogConsts
<1>1. CASE file_size_check(t)
  <2>1. UNCHANGED <<g_cur_files_cnt, newFile, file, present>> /\ at[t] = "size"
    BY <1>1 DEF file_size_check, checkVars, fileVars
  <2>2. \/ at' = [at EXCEPT ![t] = "name"] /\ Len(file[Live]) >= MaxFileLen
        \/ at' = [at EXCEPT ![t] = goal[t]]
    BY <1>1 DEF file_size_check, Go
  <2>3. goal[t] \in {"append", "started", "reopen"}
    BY DEF LogTypes
  <2>4. Len(file[Live]) >= MaxFileLen => Live \in present
    <3>1. Len(file[Live]) >= MaxFileLen => file[Live] # <<>>
      BY EmptySeq
    <3>2. QED BY <3>1 DEF FilesInv
  <2>5. \E p : at' = [at EXCEPT ![t] = p] /\ p \in {"name", "append", "started", "reopen"}
              /\ (p = "name" => Live \in present)
    BY <2>2, <2>3, <2>4
  <2>6. PICK p : at' = [at EXCEPT ![t] = p] /\ p \in {"name", "append", "started", "reopen"}
                 /\ (p = "name" => Live \in present)
    BY <2>5
  <2>7. RotInv' /\ Cnt' = Cnt
    <3>1. p \notin {"rename", "count", "out", "front", "put"} /\ at[t] # "count"
      BY <2>1, <2>6
    <3>2. present \subseteq present' /\ (p = "name" => Live \in present')
      BY <2>1, <2>6
    <3>3. QED BY <2>1, <2>6, <3>1, <3>2, RotMoves
  <2>8. QED BY <2>1, <2>7, FilesSame
<1>2. CASE rotate_name(t)
  <2>1. RotInv' /\ Cnt = g_cur_files_cnt /\ Cnt' = WrappedCnt /\ UNCHANGED <<file, present>>
    BY <1>2, RotateNames
  <2>2. Cnt' \in Nat /\ Cnt' < g_logfile_max_cnt
    BY <2>1 DEF WrappedCnt, LogTypes
  <2>3. Cnt' = Cnt \/ (Cnt = g_logfile_max_cnt /\ Cnt' = 0)
    BY <2>1 DEF WrappedCnt, LogTypes
  <2>4. QED BY <2>1, <2>2, <2>3, FilesRecount
<1>3. CASE rotate_rename(t)
  BY <1>3, RotateRenames, FilesRename
<1>4. CASE rotate_count(t)
  BY <1>4, RotateCounts, FilesSame
<1>5. QED BY <1>1, <1>2, <1>3, <1>4

\* The file gets the character that the writer has in its hand ...
LEMMA PutKeepsFiles ==
    ASSUME LogTypes, RingInv, RotInv, FilesInv, fputs_put
    PROVE  RotInv' /\ FilesInv'
<1> USE LogConsts
<1>1. /\ at[Writer] = "put" /\ UNCHANGED <<g_cur_files_cnt, newFile, present>>
      /\ file' = [file EXCEPT ![Live] = Append(@, outch)]
      /\ \E p \in {"size", "out"} : at' = [at EXCEPT ![Writer] = p]
  BY DEF fputs_put, Go, CheckSize, WriterOnly
<1>2. Live \in present /\ outch = Out + 1 /\ Out' = Out + 1
  BY <1>1, RingPut DEF RotInv, RingInv
<1>3. PICK p \in {"size", "out"} : at' = [at EXCEPT ![Writer] = p]
  BY <1>1
<1>4. RotInv' /\ Cnt' = Cnt
  <2>1. p \notin {"rename", "count", "name"} /\ at[Writer] # "count" /\ Live \in present'
    BY <1>1, <1>2, <1>3
  <2>2. QED BY <1>1, <1>3, <2>1, RotMoves
<1>5. file[Live] \in Seq(Nat) /\ outch \in Nat
  BY DEF LogTypes
<1>6. /\ file'[Live] = Append(file[Live], outch)
      /\ \A f \in FileNames : f # Live => file'[f] = file[f]
  BY <1>1 DEF LogTypes
<1>7. /\ file'[Live] \in Seq(Nat) /\ Len(file'[Live]) = Len(file[Live]) + 1
      /\ \A i \in 1 .. Len(file[Live]) : file'[Live][i] = file[Live][i]
      /\ file'[Live][Len(file[Live]) + 1] = Out + 1
  BY <1>2, <1>5, <1>6, AppendProperties
<1>8. \A i \in 1 .. 1 : file'[Live][Len(file[Live]) + i] = Out + i
  <2>1. \A i \in 1 .. 1 : i = 1
    OBVIOUS
  <2>2. QED BY <1>7, <2>1
<1>9. present' = present \cup {Live}
  BY <1>1, <1>2
<1>10. 1 \in Nat
  OBVIOUS
<1>11. QED BY <1>2, <1>4, <1>6, <1>7, <1>8, <1>9, <1>10, FilesGrow

\* ... or a message at once.
LEMMA SyncKeepsFiles ==
    ASSUME LogTypes, WhereInv, RingInv, RotInv, FilesInv, NEW c \in Callers, sync_append(c)
    PROVE  RotInv' /\ FilesInv'
<1> USE LogConsts
<1>1. /\ at[c] = "append" /\ UNCHANGED <<g_cur_files_cnt, newFile>>
      /\ present' = present \cup {Live}
      /\ file' = [file EXCEPT ![Live] = @ \o [i \in 1 .. left[c] |-> Len(accepted) + i]]
      /\ at' = [at EXCEPT ![c] = "idle"]
  BY DEF sync_append, Go, checkVars
<1>2. Out' = Out + left[c] /\ Out = Len(accepted)
  BY RingSync
<1>3. RotInv' /\ Cnt' = Cnt
  <2>1. at[c] # "count" /\ c # Writer /\ c \in Threads /\ present \subseteq present'
    BY <1>1
  <2>2. PICK p : p = "idle"
    OBVIOUS
  <2>3. at' = [at EXCEPT ![c] = p] /\ p \notin {"rename", "count", "name"}
    BY <1>1, <2>2
  <2>4. QED BY <1>1, <2>1, <2>3, RotMoves
<1>4. PICK k \in Nat : k = left[c]
  BY DEF LogTypes
<1>5. PICK s : s = [i \in 1 .. k |-> Out + i]
  OBVIOUS
<1>6. Out \in Nat
  BY DEF RingInv
<1>7. s \in Seq(Nat) /\ Len(s) = k /\ \A i \in 1 .. k : s[i] = Out + i
  <2>1. \A i \in 1 .. k : Out + i \in Nat
    BY <1>6
  <2>2. QED BY <1>5, <2>1
<1>8. file[Live] \in Seq(Nat)
  BY DEF LogTypes
<1>9. /\ file'[Live] = file[Live] \o s
      /\ \A f \in FileNames : f # Live => file'[f] = file[f]
  BY <1>1, <1>2, <1>4, <1>5 DEF LogTypes
<1>10. /\ file'[Live] \in Seq(Nat) /\ Len(file'[Live]) = Len(file[Live]) + k
       /\ \A i \in 1 .. Len(file[Live]) : file'[Live][i] = file[Live][i]
  <2>1. file[Live] \o s \in Seq(Nat) /\ Len(file[Live] \o s) = Len(file[Live]) + k
    BY <1>7, <1>8, ConcatProperties
  <2>2. \A i \in 1 .. Len(file[Live]) : (file[Live] \o s)[i] = file[Live][i]
    BY <1>7, <1>8
  <2>3. QED BY <1>9, <2>1, <2>2
<1>11. \A i \in 1 .. k : file'[Live][Len(file[Live]) + i] = Out + i
  <2> SUFFICES ASSUME NEW i \in 1 .. k PROVE file'[Live][Len(file[Live]) + i] = Out + i
    OBVIOUS
  <2>1. Len(file[Live]) \in Nat
    BY <1>8, LenProperties
  <2>2. (file[Live] \o s)[Len(file[Live]) + i] = s[i]
    BY <1>7, <1>8, <2>1
  <2>3. QED BY <1>7, <1>9, <2>2
<1>12. Out' = Out + k
  BY <1>2, <1>4
<1>13. QED BY <1>1, <1>3, <1>9, <1>10, <1>11, <1>12, FilesGrow

\* Every step keeps the files in order.
LEMMA FilesKept ==
    ASSUME "restartEarly" \in LogHabits, LogTypes, WhereInv, RingInv, RotInv, FilesInv,
           LogTypes', LogNext
    PROVE  RotInv' /\ FilesInv'
<1> USE LogConsts
<1>1. ASSUME fputs_put PROVE RotInv' /\ FilesInv'
  BY <1>1, PutKeepsFiles
<1>2. ASSUME NEW c \in Callers, sync_append(c) PROVE RotInv' /\ FilesInv'
  BY <1>2, SyncKeepsFiles
<1>3. CASE Out' = Out
  <2>1. ASSUME NEW m \in {"async", "sync"}, loggger_init(m) PROVE RotInv' /\ FilesInv'
    BY <1>3, <2>1, LoggerStartsFiles
  <2>2. ASSUME loggger_exit PROVE RotInv' /\ FilesInv'
    <3>1. at' = at /\ UNCHANGED <<g_cur_files_cnt, newFile, file, present>>
      BY <2>2 DEF loggger_exit, checkVars, fileVars
    <3>2. QED BY <1>3, <3>1, RotStays, FilesSame
  <2>3. ASSUME exit_joined \/ fputs_start \/ fputs_test \/ queue_out_front PROVE RotInv' /\ FilesInv'
    <3>1. /\ UNCHANGED <<g_cur_files_cnt, newFile, file, present>>
          /\ at[Writer] \in {"ended", "started", "test", "front"}
      BY <2>3 DEF exit_joined, fputs_start, fputs_test, queue_out_front, WriterOnly, checkVars, fileVars
    <3>2. PICK p \in {"idle", "test", "ended", "wait", "put"} :
            at' = [at EXCEPT ![Writer] = p] /\ (p = "put" => at[Writer] = "front")
      BY <2>3 DEF exit_joined, fputs_start, fputs_test, queue_out_front, Go
    <3>3. p = "put" => Live \in present'
      BY <3>1, <3>2 DEF RotInv
    <3>4. p \notin {"rename", "count", "name", "out", "front"} /\ at[Writer] # "count"
      BY <3>1
    <3>5. RotInv' /\ Cnt' = Cnt
      BY <3>1, <3>2, <3>3, <3>4, RotMoves
    <3>6. QED BY <1>3, <3>1, <3>5, FilesSame
  <2>4. ASSUME queue_out PROVE RotInv' /\ FilesInv'
    <3>1. UNCHANGED <<g_cur_files_cnt, newFile, file, present>> /\ at[Writer] = "out"
      BY <2>4 DEF queue_out, WriterOnly
    <3>2. PICK p \in {"test", "front"} : at' = [at EXCEPT ![Writer] = p]
      BY <2>4 DEF queue_out, Go
    <3>3. Live \in present'
      BY <3>1 DEF RotInv
    <3>4. RotInv' /\ Cnt' = Cnt
      BY <3>1, <3>2, <3>3, RotMoves
    <3>5. QED BY <1>3, <3>1, <3>4, FilesSame
  <2>5. ASSUME fputs_open PROVE RotInv' /\ FilesInv'
    <3>1. UNCHANGED <<g_cur_files_cnt, newFile, file>> /\ at[Writer] \in {"wait", "reopen"}
      BY <2>5 DEF fputs_open, WriterOnly
    <3>2. CASE present' = present \cup {Live} /\ at' = [at EXCEPT ![Writer] = "out"]
      <4>1. RotInv' /\ Cnt' = Cnt
        <5>1. PICK p : p = "out"
          OBVIOUS
        <5>2. at' = [at EXCEPT ![Writer] = p] /\ p \notin {"rename", "count", "name"}
          BY <3>2, <5>1
        <5>3. at[Writer] # "count" /\ Live \in present' /\ present \subseteq present'
          BY <3>1, <3>2
        <5>4. QED BY <3>1, <5>2, <5>3, RotMoves
      <4>2. QED BY <1>3, <3>1, <3>2, <4>1, FilesOpen
    <3>3. CASE present' = present /\ at' = [at EXCEPT ![Writer] = "test"]
      <4>1. RotInv' /\ Cnt' = Cnt
        <5>1. PICK p : p = "test"
          OBVIOUS
        <5>2. /\ at' = [at EXCEPT ![Writer] = p]
              /\ p \notin {"rename", "count", "name", "out", "front", "put"}
          BY <3>3, <5>1
        <5>3. at[Writer] # "count" /\ present \subseteq present'
          BY <3>1, <3>3
        <5>4. QED BY <3>1, <5>2, <5>3, RotMoves
      <4>2. QED BY <1>3, <3>1, <3>3, <4>1, FilesSame
    <3>4. QED BY <2>5, <3>2, <3>3 DEF fputs_open, Go
  <2>6. ASSUME NEW t \in Threads,
               file_size_check(t) \/ rotate_name(t) \/ rotate_rename(t) \/ rotate_count(t)
        PROVE RotInv' /\ FilesInv'
    BY <1>3, <2>6, RotateKeepsFiles
  <2>7. ASSUME NEW c \in Callers, NEW n \in LineLengths, logger_write(c, n) \/ logger_write_sync(c, n)
        PROVE RotInv' /\ FilesInv'
    <3>1. UNCHANGED <<g_cur_files_cnt, newFile, file, present>> /\ at[c] = "idle"
      BY <2>7 DEF logger_write, logger_write_sync, Begins, fileVars
    <3>2. PICK p \in {"lock", "size", "append"} : at' = [at EXCEPT ![c] = p]
      BY <2>7 DEF logger_write, logger_write_sync, CheckSize, Go
    <3>3. RotInv' /\ Cnt' = Cnt
      BY <3>1, <3>2, RotMoves
    <3>4. QED BY <1>3, <3>1, <3>3, FilesSame
  <2>8. ASSUME NEW c \in Callers,
               logger_lock(c) \/ queue_in(c) \/ queue_in_rear(c) \/ logger_unlock(c)
        PROVE RotInv' /\ FilesInv'
    <3>1. /\ UNCHANGED <<g_cur_files_cnt, newFile, file, present>>
          /\ at[c] \in {"lock", "in", "rear"}
      BY <2>8 DEF logger_lock, LockRing, queue_in, queue_in_rear, logger_unlock, checkVars, fileVars
    <3>2. at' = at \/ \E p \in {"in", "rear", "idle"} : at' = [at EXCEPT ![c] = p]
      BY <2>8 DEF logger_lock, LockRing, queue_in, queue_in_rear, logger_unlock, Go
    <3>3. CASE at' = at
      BY <1>3, <3>1, <3>3, RotStays, FilesSame
    <3>4. ASSUME NEW p \in {"in", "rear", "idle"}, at' = [at EXCEPT ![c] = p]
          PROVE  RotInv' /\ Cnt' = Cnt
      BY <3>1, <3>4, RotMoves
    <3>5. QED BY <1>3, <3>1, <3>2, <3>3, <3>4, FilesSame
  <2>9. QED
    BY <1>1, <1>2, <2>1, <2>2, <2>3, <2>4, <2>5, <2>6, <2>7, <2>8 DEF LogNext
<1>4. QED BY <1>1, <1>2, <1>3, RingKept

\* At the start there is no message.
LEMMA MsgStart == LogInit => MsgInv
BY LogConsts DEF LogInit, MsgInv

\* Nothing is accepted, and nobody begins a message.
LEMMA MsgSame ==
    ASSUME MsgInv, accepted' = accepted, messages' = messages, line' = line,
           \A c \in Callers : at'[c] # "idle" => at[c] # "idle",
           \A c \in Callers : at'[c] # "idle" /\ at[c] \in {"in", "rear"} => at'[c] \in {"in", "rear"}
    PROVE  MsgInv'
BY DEF MsgInv

\* A message gets a number that none has had.
LEMMA MsgBegins ==
    ASSUME LogTypes, MsgInv, NEW c \in Callers, NEW p,
           accepted' = accepted, messages' = messages + 1,
           line' = [line EXCEPT ![c] = messages + 1], at' = [at EXCEPT ![c] = p], at[c] = "idle"
    PROVE  MsgInv'
<1> USE LogConsts
<1>1. PICK m \in Nat : m = messages
  BY DEF LogTypes
<1>2. line'[c] = m + 1 /\ \A d \in Callers : d # c => line'[d] = line[d] /\ at'[d] = at[d]
  BY <1>1 DEF LogTypes
<1>3. \A d \in Callers : line[d] \in Nat
  BY DEF LogTypes
<1>4. PICK n \in Nat : n = Len(accepted)
  BY LenProperties DEF LogTypes
<1>5. DOMAIN accepted = 1 .. n /\ \A i \in 1 .. n : accepted[i] \in Nat /\ accepted[i] <= m
  <2>1. accepted \in Seq(Nat)
    BY DEF LogTypes
  <2>2. DOMAIN accepted = 1 .. n /\ \A i \in 1 .. n : accepted[i] \in Nat
    BY <1>4, <2>1
  <2>3. \A i \in DOMAIN accepted : accepted[i] <= m
    BY <1>1 DEF MsgInv
  <2>4. QED BY <2>2, <2>3
<1>6. \A i \in DOMAIN accepted' : accepted'[i] <= messages'
  BY <1>1, <1>5
<1>7. \A d \in Callers : at'[d] # "idle" => line'[d] <= messages'
  BY <1>1, <1>2, <1>3 DEF MsgInv
<1>8. \A d, e \in Callers : at'[d] # "idle" /\ at'[e] # "idle" /\ line'[d] = line'[e] => d = e
  <2> SUFFICES ASSUME NEW d \in Callers, NEW e \in Callers,
                      at'[d] # "idle", at'[e] # "idle", line'[d] = line'[e]
               PROVE  d = e
    OBVIOUS
  <2>1. \A x \in Callers : x # c /\ at'[x] # "idle" => line'[x] # m + 1
    BY <1>1, <1>2, <1>3 DEF MsgInv
  <2>2. CASE d # c /\ e # c
    BY <1>2, <2>2 DEF MsgInv
  <2>3. QED BY <1>2, <2>1, <2>2
<1>9. \A d \in Callers : at'[d] # "idle" =>
         \A i \in DOMAIN accepted' : accepted'[i] = line'[d] =>
            /\ at'[d] \in {"in", "rear"}
            /\ \A j \in i .. Len(accepted') : accepted'[j] = line'[d]
  <2>1. \A i \in 1 .. n : accepted[i] # m + 1
    BY <1>5
  <2>2. QED BY <1>2, <1>5, <2>1 DEF MsgInv
<1>10. \A i, j, k \in DOMAIN accepted' :
            i < j /\ j < k /\ accepted'[i] = accepted'[k] => accepted'[j] = accepted'[i]
  BY DEF MsgInv
<1>11. QED BY <1>6, <1>7, <1>8, <1>9, <1>10 DEF MsgInv

\* Characters of one message are accepted, while no other message has begun to be.
LEMMA MsgAccepted ==
    ASSUME LogTypes, MsgInv, NEW c \in Callers, NEW k \in Nat, NEW p \in {"idle", "rear"},
           at[c] # "idle", at' = [at EXCEPT ![c] = p], messages' = messages, line' = line,
           \A d \in Callers : d # c => at[d] \notin {"in", "rear"},
           accepted' \in Seq(Nat), Len(accepted') = Len(accepted) + k,
           \A i \in 1 .. Len(accepted) : accepted'[i] = accepted[i],
           \A i \in 1 .. k : accepted'[Len(accepted) + i] = line[c]
    PROVE  MsgInv'
<1> USE LogConsts
<1>1. PICK n \in Nat : n = Len(accepted)
  BY LenProperties DEF LogTypes
<1>2. DOMAIN accepted = 1 .. n /\ DOMAIN accepted' = 1 .. n + k /\ Len(accepted') = n + k
  BY <1>1 DEF LogTypes
<1>3. PICK l \in Nat : l = line[c]
  BY DEF LogTypes
<1>4. \A i \in 1 .. n + k : (i <= n /\ accepted'[i] = accepted[i]) \/ (i > n /\ accepted'[i] = l)
  <2> SUFFICES ASSUME NEW i \in 1 .. n + k, i > n PROVE accepted'[i] = l
    BY <1>1
  <2>1. i - n \in 1 .. k /\ n + (i - n) = i
    OBVIOUS
  <2>2. QED BY <1>1, <1>3, <2>1
<1>5. \A d \in Callers : d # c => at'[d] = at[d]
  BY DEF LogTypes
<1>6. at'[c] = p
  BY DEF LogTypes
<1>7. \A i \in DOMAIN accepted' : accepted'[i] <= messages'
  BY <1>2, <1>3, <1>4 DEF MsgInv
<1>8. \A d \in Callers : at'[d] # "idle" => line'[d] <= messages'
  BY <1>5 DEF MsgInv
<1>9. \A d, e \in Callers : at'[d] # "idle" /\ at'[e] # "idle" /\ line'[d] = line'[e] => d = e
  BY <1>5 DEF MsgInv
<1>10. \A i \in 1 .. n : accepted[i] = l => \A j \in i .. n : accepted[j] = l
  <2>1. \A i \in DOMAIN accepted : accepted[i] = line[c] =>
             \A j \in i .. Len(accepted) : accepted[j] = line[c]
    BY DEF MsgInv
  <2>2. QED BY <1>1, <1>2, <1>3, <2>1
<1>11. \A i \in 1 .. n + k : accepted'[i] = l => \A j \in i .. n + k : accepted'[j] = l
  <2> SUFFICES ASSUME NEW i \in 1 .. n + k, accepted'[i] = l, NEW j \in i .. n + k
               PROVE  accepted'[j] = l
    OBVIOUS
  <2>1. CASE j > n
    BY <1>4, <2>1
  <2>2. CASE j <= n
    <3>1. i \in 1 .. n /\ j \in i .. n /\ accepted[i] = l
      BY <1>4, <2>2
    <3>2. accepted[j] = l
      BY <1>10, <3>1
    <3>3. QED BY <1>1, <3>1, <3>2
  <2>3. QED BY <2>1, <2>2
<1>12. ASSUME NEW d \in Callers, at'[d] # "idle", NEW i \in 1 .. n + k, accepted'[i] = line[d]
       PROVE  d = c
  <2>1. CASE i > n
    <3>1. line[d] = line[c]
      BY <1>3, <1>4, <1>12, <2>1
    <3>2. QED BY <1>5, <1>12, <3>1 DEF MsgInv
  <2>2. CASE i <= n
    <3>1. i \in DOMAIN accepted /\ accepted[i] = line[d]
      BY <1>2, <1>4, <1>12, <2>2
    <3>2. at[d] # "idle"
      BY <1>5, <1>12
    <3>3. at[d] \in {"in", "rear"}
      BY <3>1, <3>2 DEF MsgInv
    <3>4. QED BY <3>3
  <2>3. QED BY <2>1, <2>2
<1>13. \A d \in Callers : at'[d] # "idle" =>
         \A i \in DOMAIN accepted' : accepted'[i] = line'[d] =>
            /\ at'[d] \in {"in", "rear"}
            /\ \A j \in i .. Len(accepted') : accepted'[j] = line'[d]
  BY <1>2, <1>3, <1>6, <1>11, <1>12
<1>14. \A i, j, m \in DOMAIN accepted' :
            i < j /\ j < m /\ accepted'[i] = accepted'[m] => accepted'[j] = accepted'[i]
  <2> SUFFICES ASSUME NEW i \in 1 .. n + k, NEW j \in 1 .. n + k, NEW m \in 1 .. n + k,
                      i < j, j < m, accepted'[i] = accepted'[m]
               PROVE  accepted'[j] = accepted'[i]
    BY <1>2
  <2>1. CASE m <= n
    <3>1. accepted'[i] = accepted[i] /\ accepted'[j] = accepted[j] /\ accepted'[m] = accepted[m]
      BY <1>4, <2>1
    <3>2. i \in DOMAIN accepted /\ j \in DOMAIN accepted /\ m \in DOMAIN accepted
      BY <1>2, <2>1
    <3>3. accepted[i] = accepted[m] => accepted[j] = accepted[i]
      BY <3>2 DEF MsgInv
    <3>4. QED BY <3>1, <3>3
  <2>2. CASE m > n
    <3>1. accepted'[i] = l /\ j \in i .. n + k
      BY <1>4, <2>2
    <3>2. QED BY <1>11, <3>1
  <2>3. QED BY <2>1, <2>2
<1>15. QED BY <1>7, <1>8, <1>9, <1>13, <1>14 DEF MsgInv

\* No message is mixed with another: the lock is held for a whole one.
LEMMA MsgKept ==
    ASSUME LogTypes, WhereInv, RingInv, MsgInv, LogNext, LogTypes'
    PROVE  MsgInv'
<1> USE LogConsts
<1>1. ASSUME loggger_exit \/ exit_joined \/ fputs_start \/ fputs_test \/ fputs_open
             \/ queue_out \/ queue_out_front \/ fputs_put
      PROVE  MsgInv'
  <2>1. UNCHANGED <<accepted, messages, line>>
    BY <1>1 DEF loggger_exit, exit_joined, fputs_start, fputs_test, fputs_open, queue_out,
                queue_out_front, fputs_put, WriterOnly, msgVars
  <2>2. at' = at \/ \E p : at' = [at EXCEPT ![Writer] = p]
    BY <1>1 DEF loggger_exit, exit_joined, fputs_start, fputs_test, fputs_open, queue_out,
                queue_out_front, fputs_put, CheckSize, Go
  <2>3. \A c \in Callers : at'[c] = at[c]
    BY <2>2 DEF LogTypes
  <2>4. QED BY <2>1, <2>3, MsgSame
<1>2. ASSUME NEW m \in {"async", "sync"}, loggger_init(m) PROVE MsgInv'
  <2>1. UNCHANGED <<accepted, messages, line>>
    BY <1>2 DEF loggger_init, msgVars
  <2>2. at' = at \/ \E p : at' = [at EXCEPT ![Writer] = p]
    BY <1>2 DEF loggger_init, CheckSize, Go
  <2>3. \A c \in Callers : at'[c] = at[c]
    BY <2>2 DEF LogTypes
  <2>4. QED BY <2>1, <2>3, MsgSame
<1>3. ASSUME NEW t \in Threads,
             file_size_check(t) \/ rotate_name(t) \/ rotate_rename(t) \/ rotate_count(t)
      PROVE  MsgInv'
  <2>1. UNCHANGED <<accepted, messages, line>> /\ at[t] \in {"size", "name", "rename", "count"}
    BY <1>3 DEF file_size_check, rotate_name, rotate_rename, rotate_count, RotateOnly, msgVars
  <2>2. \E p : at' = [at EXCEPT ![t] = p]
    BY <1>3 DEF file_size_check, rotate_name, rotate_rename, rotate_count, Go
  <2>3. at[t] \notin {"idle", "in", "rear"} /\ \A c \in Callers : c # t => at'[c] = at[c]
    BY <2>1, <2>2 DEF LogTypes
  <2>4. QED BY <2>1, <2>3, MsgSame
<1>4. ASSUME NEW c \in Callers, NEW n \in LineLengths, logger_write(c, n) \/ logger_write_sync(c, n)
      PROVE  MsgInv'
  <2>1. /\ accepted' = accepted /\ messages' = messages + 1 /\ at[c] = "idle"
        /\ line' = [line EXCEPT ![c] = messages + 1]
    BY <1>4 DEF logger_write, logger_write_sync, Begins
  <2>2. PICK p : at' = [at EXCEPT ![c] = p]
    BY <1>4 DEF logger_write, logger_write_sync, CheckSize, Go
  <2>3. QED BY <2>1, <2>2, MsgBegins
<1>5. ASSUME NEW c \in Callers, logger_lock(c) \/ queue_in_rear(c) \/ logger_unlock(c) PROVE MsgInv'
  <2>1. UNCHANGED <<accepted, messages, line>> /\ at[c] # "idle"
    BY <1>5 DEF logger_lock, LockRing, queue_in_rear, logger_unlock, msgVars
  <2>2. PICK p \in {"in", "idle"} : at' = [at EXCEPT ![c] = p]
    BY <1>5 DEF logger_lock, LockRing, queue_in_rear, logger_unlock, Go
  <2>3. at'[c] \in {"in", "idle"} /\ \A d \in Callers : d # c => at'[d] = at[d]
    BY <2>2 DEF LogTypes
  <2>4. QED BY <2>1, <2>3, MsgSame
<1>6. ASSUME NEW c \in Callers, queue_in(c) PROVE MsgInv'
  <2>1. CASE Full
    <3>1. UNCHANGED <<accepted, messages, line, at>>
      BY <1>6, <2>1 DEF queue_in
    <3>2. QED BY <3>1, MsgSame
  <2>2. CASE ~Full
    <3>1. /\ at[c] = "in" /\ UNCHANGED <<messages, line>>
          /\ accepted' = Append(accepted, line[c]) /\ at' = [at EXCEPT ![c] = "rear"]
      BY <1>6, <2>2 DEF queue_in, Go
    <3>2. PICK p \in {"idle", "rear"} : at' = [at EXCEPT ![c] = p]
      BY <3>1
    <3>3. \A d \in Callers : d # c => at[d] \notin {"in", "rear"}
      BY <3>1 DEF RingInv
    <3>4. accepted \in Seq(Nat) /\ line[c] \in Nat
      BY DEF LogTypes
    <3>5. /\ accepted' \in Seq(Nat) /\ Len(accepted') = Len(accepted) + 1
          /\ \A i \in 1 .. Len(accepted) : accepted'[i] = accepted[i]
          /\ accepted'[Len(accepted) + 1] = line[c]
      BY <3>1, <3>4, AppendProperties
    <3>6. 1 \in Nat /\ \A i \in 1 .. 1 : i = 1
      OBVIOUS
    <3>7. \A i \in 1 .. 1 : accepted'[Len(accepted) + i] = line[c]
      BY <3>5, <3>6
    <3>8. QED BY <3>1, <3>2, <3>3, <3>5, <3>6, <3>7, MsgAccepted
  <2>3. QED BY <2>1, <2>2
<1>7. ASSUME NEW c \in Callers, sync_append(c) PROVE MsgInv'
  <2>1. /\ at[c] = "append" /\ UNCHANGED <<messages, line>>
        /\ accepted' = accepted \o [i \in 1 .. left[c] |-> line[c]]
        /\ at' = [at EXCEPT ![c] = "idle"]
    BY <1>7 DEF sync_append, Go
  <2>2. PICK p \in {"idle", "rear"} : at' = [at EXCEPT ![c] = p]
    BY <2>1
  <2>3. \A d \in Callers : d # c => at[d] \notin {"in", "rear"}
    <3>1. mode = "sync"
      BY <2>1 DEF WhereInv, LogTypes
    <3>2. QED BY <3>1 DEF WhereInv, Rotating
  <2>4. PICK k \in Nat : k = left[c]
    BY DEF LogTypes
  <2>5. PICK s : s = [i \in 1 .. k |-> line[c]]
    OBVIOUS
  <2>6. accepted \in Seq(Nat) /\ line[c] \in Nat
    BY DEF LogTypes
  <2>7. s \in Seq(Nat) /\ Len(s) = k /\ \A i \in 1 .. k : s[i] = line[c]
    BY <2>5, <2>6
  <2>8. accepted' = accepted \o s
    BY <2>1, <2>4, <2>5
  <2>9. accepted' \in Seq(Nat) /\ Len(accepted') = Len(accepted) + k
    BY <2>6, <2>7, <2>8, ConcatProperties
  <2>10. \A i \in 1 .. Len(accepted) : accepted'[i] = accepted[i]
    <3>1. \A i \in 1 .. Len(accepted) : (accepted \o s)[i] = accepted[i]
      BY <2>6, <2>7
    <3>2. QED BY <2>8, <3>1
  <2>11. \A i \in 1 .. k : accepted'[Len(accepted) + i] = line[c]
    <3> SUFFICES ASSUME NEW i \in 1 .. k PROVE accepted'[Len(accepted) + i] = line[c]
      OBVIOUS
    <3>1. Len(accepted) \in Nat
      BY <2>6, LenProperties
    <3>2. (accepted \o s)[Len(accepted) + i] = s[i]
      BY <2>6, <2>7, <3>1
    <3>3. QED BY <2>7, <2>8, <3>2
  <2>12. at[c] # "idle"
    BY <2>1
  <2>13. QED BY <2>1, <2>2, <2>3, <2>9, <2>10, <2>11, <2>12, MsgAccepted
<1>8. QED BY <1>1, <1>2, <1>3, <1>4, <1>5, <1>6, <1>7 DEF LogNext

\* The invariant holds at the start.
LEMMA LogInvStart == LogInit => LogInv
<1> SUFFICES ASSUME LogInit PROVE LogInv
  OBVIOUS
<1> USE LogConsts
<1>1. LogTypes /\ WhereInv /\ MsgInv
  BY LogTypesStart, WhereStart, MsgStart
<1>2. RingInv /\ Out = 0
  BY RingStart
<1>3. \A t \in Threads : at[t] = "idle"
  BY DEF LogInit
<1>4. RotInv
  BY <1>3 DEF RotInv
<1>5. Cnt = 0
  BY <1>3 DEF Cnt, LogInit
<1>6. present = {} /\ \A f \in FileNames : file[f] = <<>>
  BY DEF LogInit
<1>7. FilesInv
  <2>1. OnDisk = {}
    BY <1>6 DEF OnDisk
  <2>2. QED BY <1>2, <1>5, <1>6, <2>1 DEF FilesInv
<1>8. QED BY <1>1, <1>2, <1>4, <1>7 DEF LogInv

\* Every step keeps the invariant, when the application keeps the three rules.
LEMMA LogInvKept ==
    ASSUME AllLogHabits \subseteq LogHabits, LogInv, [LogNext]_logVars
    PROVE  LogInv'
<1>1. /\ "oneWriter" \in LogHabits /\ "exitDrained" \in LogHabits /\ "restartEarly" \in LogHabits
  BY DEF AllLogHabits
<1>2. LogTypes /\ WhereInv /\ RingInv /\ RotInv /\ FilesInv /\ MsgInv
  BY DEF LogInv
<1>3. CASE LogNext
  <2>1. LogTypes'
    BY <1>1, <1>2, <1>3, LogTypesKept
  <2>2. WhereInv'
    BY <1>1, <1>2, <1>3, WhereKept
  <2>3. RingInv'
    BY <1>2, <1>3, <2>1, RingKept
  <2>4. RotInv' /\ FilesInv'
    BY <1>1, <1>2, <1>3, <2>1, FilesKept
  <2>5. MsgInv'
    BY <1>2, <1>3, <2>1, MsgKept
  <2>6. QED BY <2>1, <2>2, <2>3, <2>4, <2>5 DEF LogInv
<1>4. CASE UNCHANGED logVars
  <2> USE DEF logVars, ringVars, checkVars, fileVars, msgVars
  <2>1. LogTypes'
    BY <1>2, <1>4 DEF LogTypes
  <2>2. WhereInv'
    BY <1>2, <1>4 DEF WhereInv
  <2>3. RingInv' /\ Out' = Out
    BY <1>2, <1>4, RingSame DEF RingInv
  <2>4. RotInv' /\ Cnt' = Cnt
    BY <1>2, <1>4, RotStays
  <2>5. FilesInv'
    BY <1>2, <1>4, <2>3, <2>4, FilesSame
  <2>6. MsgInv'
    BY <1>2, <1>4, MsgSame
  <2>7. QED BY <2>1, <2>2, <2>3, <2>4, <2>5, <2>6 DEF LogInv
<1>5. QED BY <1>3, <1>4

\* What the ring holds, counted from its front.
LEMMA RingHolds ==
    ASSUME LogTypes, RingInv
    PROVE  InRing = (Out + Hand + 1) .. (Out + Hand + Used)
<1> USE LogConsts
<1>1. front \in Slots /\ rear \in Slots /\ data \in [Slots -> Nat]
  BY DEF LogTypes
<1>2. PICK u \in Slots : u = Used
  BY RingNums
<1>3. PICK o \in Nat : o = Out + Hand
  BY RingNums DEF RingInv
<1>4. (rear + RING_SIZE - front) % RING_SIZE = u
  <2>1. CASE rear >= front
    <3>1. PICK d \in Nat : d = rear - front /\ d < RING_SIZE
      BY <1>1, <2>1 DEF Slots
    <3>2. rear + RING_SIZE - front = d + RING_SIZE
      BY <1>1, <3>1 DEF Slots
    <3>3. (d + RING_SIZE) % RING_SIZE = d
      BY <3>1
    <3>4. QED BY <1>2, <2>1, <3>1, <3>2, <3>3 DEF Used, Dist
  <2>2. CASE rear < front
    <3>1. PICK d \in Nat : d = rear + RING_SIZE - front /\ d < RING_SIZE
      BY <1>1, <2>2 DEF Slots
    <3>2. d % RING_SIZE = d
      BY <3>1
    <3>3. QED BY <1>1, <1>2, <2>2, <3>1, <3>2 DEF Used, Dist, Slots
  <2>3. QED BY <1>1, <2>1, <2>2 DEF Slots
<1>5. \A i \in 0 .. u - 1 : data[RingSlot(front + i)] = o + i + 1
  <2> SUFFICES ASSUME NEW i \in 0 .. u - 1 PROVE data[RingSlot(front + i)] = o + i + 1
    OBVIOUS
  <2>1. i \in Slots
    BY <1>2 DEF Slots
  <2>2. PICK s \in Slots : s = RingSlot(front + i) /\ Dist(s) = i
    BY <1>1, <2>1, SlotSum DEF Slots, Dist
  <2>3. Dist(s) < Used
    BY <1>2, <2>1, <2>2 DEF Slots
  <2>4. data[s] = Out + Hand + Dist(s) + 1
    BY <2>3 DEF RingInv
  <2>5. QED BY <1>3, <2>2, <2>4
<1>6. InRing = {data[RingSlot(front + i)] : i \in 0 .. u - 1}
  BY <1>4 DEF InRing
<1>7. InRing = {o + i + 1 : i \in 0 .. u - 1}
  BY <1>5, <1>6
<1>8. {o + i + 1 : i \in 0 .. u - 1} = (o + 1) .. (o + u)
  <2>1. u \in Nat
    BY <1>2 DEF Slots
  <2>2. ASSUME NEW x \in (o + 1) .. (o + u) PROVE x \in {o + i + 1 : i \in 0 .. u - 1}
    <3>1. x - o - 1 \in 0 .. u - 1 /\ x = o + (x - o - 1) + 1
      BY <2>1
    <3>2. QED BY <3>1
  <2>3. ASSUME NEW i \in 0 .. u - 1 PROVE o + i + 1 \in (o + 1) .. (o + u)
    BY <2>1
  <2>4. QED BY <2>2, <2>3
<1>9. QED BY <1>2, <1>3, <1>7, <1>8

\* The characters that two threads hold, the writer the oldest and a caller the newest.
LEMMA HandHolds ==
    ASSUME LogTypes, RingInv
    PROVE  /\ Hand = 1 => Out + 1 \in InHand
           /\ Pending = 1 => Len(accepted) \in InHand
           /\ \A x \in InHand : x > Out
<1> USE LogConsts
<1>1. Hand = 1 => Out + 1 \in InHand
  BY DEF Hand, InHand, RingInv
<1>2. Pending = 1 => Len(accepted) \in InHand
  <2> SUFFICES ASSUME Pending = 1 PROVE Len(accepted) \in InHand
    OBVIOUS
  <2>1. PICK c \in Callers : at[c] = "rear"
    BY DEF Pending
  <2>2. data[rear] = Len(accepted)
    BY <2>1 DEF RingInv
  <2>3. QED BY <2>1, <2>2 DEF InHand
<1>3. ASSUME NEW x \in InHand PROVE x > Out
  <2>1. CASE at[Writer] = "put" /\ x = outch
    BY <2>1 DEF RingInv
  <2>2. ASSUME NEW c \in Callers, at[c] = "rear", x = data[rear] PROVE x > Out
    <3>1. Pending = 1 /\ x = Len(accepted)
      BY <2>2 DEF Pending, RingInv
    <3>2. QED BY <3>1, RingNums DEF Out, Slots
  <2>3. \/ at[Writer] = "put" /\ x = outch
        \/ \E c \in Callers : at[c] = "rear" /\ x = data[rear]
    BY DEF InHand
  <2>4. QED BY <2>1, <2>2, <2>3
<1>4. QED BY <1>1, <1>2, <1>3

\* The invariant implies the property.
LEMMA LogInvIntact ==
    ASSUME LogInv PROVE LogIntact
<1> USE LogConsts
<1>1. LogTypes /\ RingInv /\ FilesInv /\ MsgInv
  BY DEF LogInv
<1>2. InOrder
  BY <1>1 DEF InOrder, FilesInv, MsgInv
<1>3. NewestKept
  <2>1. PICK n \in Nat, o \in Nat, h \in {0, 1}, u \in Nat, p \in {0, 1} :
          n = Len(accepted) /\ o = Out /\ h = Hand /\ u = Used /\ p = Pending
    BY <1>1, RingNums DEF RingInv, Slots
  <2>2. n = o + h + u + p
    BY <2>1 DEF Out
  <2>3. DOMAIN accepted = 1 .. n
    BY <1>1, <2>1 DEF LogTypes
  <2>4. InRing = (o + h + 1) .. (o + h + u)
    BY <1>1, <2>1, RingHolds
  <2>5. (h = 1 => o + 1 \in InHand) /\ (p = 1 => n \in InHand) /\ \A x \in InHand : x > o
    BY <1>1, <2>1, HandHolds
  <2>6. \A i \in OnDisk : \A j \in i .. o : j \in OnDisk
    BY <1>1, <2>1 DEF FilesInv
  <2>7. ASSUME NEW i \in 1 .. n, NEW j \in 1 .. n, i < j, i \in OnDisk \cup InRing \cup InHand
        PROVE  j \in OnDisk \cup InRing \cup InHand
    <3>1. CASE j <= o
      <4>1. i \notin InRing /\ i \notin InHand
        BY <2>4, <2>5, <2>7, <3>1
      <4>2. i \in OnDisk /\ j \in i .. o
        BY <2>7, <3>1, <4>1
      <4>3. QED BY <2>6, <4>2
    <3>2. CASE j > o /\ j <= o + h
      BY <2>5, <3>2
    <3>3. CASE j > o + h /\ j <= o + h + u
      BY <2>4, <3>3
    <3>4. CASE j > o + h + u
      <4>1. p = 1 /\ j = n
        BY <2>2, <3>4
      <4>2. QED BY <2>5, <4>1
    <3>5. QED BY <3>1, <3>2, <3>3, <3>4
  <2>8. QED BY <2>3, <2>7 DEF NewestKept
<1>4. QED BY <1>2, <1>3 DEF LogIntact

\* When one thread at a time logs synchronously, loggger_exit waits for the ring
\* to be empty and a restart finds the numbers of the files counted, the files,
\* the ring and the hands between them hold an unbroken end of the log, in order
\* and with no message mixed, for any number of threads, size of the ring, file
\* limit and restarts (logproc.cpp:85-170, 280-413, 462-537).
THEOREM LogKeepsItsEnd ==
    ASSUME AllLogHabits \subseteq LogHabits
    PROVE  LogSpec => []LogIntact
<1>1. LogInit => LogInv
  BY LogInvStart
<1>2. LogInv /\ [LogNext]_logVars => LogInv'
  BY LogInvKept
<1>3. LogInv => LogIntact
  BY LogInvIntact
<1>4. QED BY <1>1, <1>2, <1>3, PTL DEF LogSpec
=============================================================================
