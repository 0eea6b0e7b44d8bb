------------------------------ MODULE MemPool ------------------------------
(* The memory pool of xutil (mempool.cpp): a fixed array of blocks and a   *)
(* stack m_stack of pointers to the free ones, whose first m_stack_idx     *)
(* slots are in use.  A slot keeps its old pointer when the top moves      *)
(* below it.  One thread uses a pool: the code has no lock.                *)
EXTENDS Naturals, FiniteSets

CONSTANTS
    m_node_cnt,     \* number of blocks of the pool
    PoolHabits      \* the rules its user keeps, see below

(* mallocOnly   blocks are taken with mpool_malloc, never with             *)
(*              mpool_new_obj                                              *)
(* freeOwn      mpool_free gets a block that was handed out and not freed  *)
(* resetUnused  mpool_reset is called only when no block is in use         *)
AllPoolHabits == {"mallocOnly", "freeOwn", "resetUnused"}

ASSUME MemPoolAssumption == m_node_cnt \in Nat \ {0} /\ PoolHabits \subseteq AllPoolHabits

Blocks == 1 .. m_node_cnt
Junk == 0           \* what a slot outside the array, or never written, holds
NoBlock == m_node_cnt + 1    \* NULL

VARIABLES
    m_stack,        \* slot 0, 1, ... -> block
    m_stack_idx,    \* number of free blocks
    inUse,          \* history: the blocks that the user has
    got             \* what the last call returned

memVars == <<m_stack, m_stack_idx, inUse, got>>

-----------------------------------------------------------------------------
(* mpool_init and mpool_reset push the blocks in the order of their        *)
(* addresses.                                                              *)
AllPushed == [i \in 0 .. m_node_cnt - 1 |-> i + 1]

MemInit ==
    /\ m_stack = AllPushed
    /\ m_stack_idx = m_node_cnt
    /\ inUse = {}
    /\ got = NoBlock

(* What m_stack[i] reads; slot m_node_cnt lies behind the array.           *)
StackSlot(i) == IF i < m_node_cnt THEN m_stack[i] ELSE Junk

Empty ==
    /\ m_stack_idx = 0
    /\ got' = NoBlock
    /\ UNCHANGED <<m_stack, m_stack_idx, inUse>>

Take(b) ==
    /\ m_stack_idx > 0
    /\ m_stack_idx' = m_stack_idx - 1
    /\ got' = b
    /\ inUse' = inUse \cup {b}
    /\ UNCHANGED m_stack

\* Mutant: the slot above the top, as in mpool_new_obj.
mpool_malloc_wrong_slot == Empty \/ Take(StackSlot(m_stack_idx))

(* The index is decremented before the slot is read.                       *)
mpool_malloc == Empty \/ Take(StackSlot(m_stack_idx - 1))

(* m_stack[m_stack_idx--]: the slot is read before the index is            *)
(* decremented, so it is the one above the top.                            *)
mpool_new_obj ==
    /\ "mallocOnly" \in PoolHabits => m_stack_idx = 0
    /\ Empty \/ Take(StackSlot(m_stack_idx))

(* mpool_free, mpool_free_obj: a full stack ignores the block.             *)
mpool_free(b) ==
    /\ "freeOwn" \in PoolHabits => b \in inUse
    /\ inUse' = inUse \ {b}
    /\ got' = NoBlock
    /\ IF m_stack_idx >= m_node_cnt
       THEN UNCHANGED <<m_stack, m_stack_idx>>
       ELSE /\ m_stack' = [m_stack EXCEPT ![m_stack_idx] = b]
            /\ m_stack_idx' = m_stack_idx + 1

mpool_reset ==
    /\ "resetUnused" \in PoolHabits => inUse = {}
    /\ m_stack' = AllPushed
    /\ m_stack_idx' = m_node_cnt
    /\ got' = NoBlock
    /\ UNCHANGED inUse

MemNext == mpool_malloc \/ mpool_new_obj \/ mpool_reset \/ \E b \in Blocks : mpool_free(b)

MemSpec == MemInit /\ [][MemNext]_memVars

-----------------------------------------------------------------------------
Free == {m_stack[i] : i \in 0 .. m_stack_idx - 1}

(* Every block is in exactly one place: in one free slot or with the user. *)
(* So a block handed out is not handed out again before mpool_free, and no *)
(* block leaks, whatever the order of the calls of mpool_malloc and        *)
(* mpool_free (mempool.cpp:81-103).                                        *)
BlocksAccounted ==
    /\ inUse \subseteq Blocks
    /\ inUse \cap Free = {}
    /\ inUse \cup Free = Blocks
    /\ Cardinality(Free) = m_stack_idx
=============================================================================
