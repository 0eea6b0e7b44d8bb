------------------------------- MODULE Squeue -------------------------------
(* The queue of xutil (squeue.h) that CNetRecv keeps its send buffers in:  *)
(* a list through next and prev, and a head that holds the first node and  *)
(* the address of the pointer that ends the list.  next is a node's first  *)
(* field, so the address of a node's next is the node itself, and the      *)
(* address of a head's first is written here as the head.  The callers     *)
(* lock: every operation is one step.                                      *)
EXTENDS Naturals, Sequences, SequencesExt

CONSTANTS Heads, Nodes, NULL

ASSUME SqueueAssumption == Heads \cap Nodes = {} /\ NULL \notin Heads \cup Nodes

VARIABLES
    first,      \* head -> node or NULL
    last_addr,  \* head -> head or node: where the next node is linked in
    next,       \* node -> node or NULL
    prev,       \* node -> node or head
    q,          \* history: the nodes each head should hold, in order
    moved       \* heads whose contents squeue_copy took, not yet reset

sqVars == <<first, last_addr, next, prev, q, moved>>

SqInit ==
    /\ first = [h \in Heads |-> NULL]
    /\ last_addr = [h \in Heads |-> h]
    /\ next = [n \in Nodes |-> NULL]
    /\ prev = [n \in Nodes |-> NULL]
    /\ q = [h \in Heads |-> <<>>]
    /\ moved = {}

Queued == UNION {Range(q[h]) : h \in Heads}
Usable(h) == h \notin moved

SQUEUE_INIT_HEAD(h) ==
    /\ q[h] = <<>>
    /\ first' = [first EXCEPT ![h] = NULL]
    /\ last_addr' = [last_addr EXCEPT ![h] = h]
    /\ moved' = moved \ {h}
    /\ UNCHANGED <<next, prev, q>>

(* The source keeps its pointers: its owner must reset it before the next  *)
(* use.                                                                    *)
squeue_copy(dst, src) ==
    /\ dst # src /\ Usable(src) /\ q[dst] = <<>>
    /\ IF first[src] # NULL
       THEN /\ first' = [first EXCEPT ![dst] = first[src]]
            /\ last_addr' = [last_addr EXCEPT ![dst] = last_addr[src]]
            /\ prev' = [prev EXCEPT ![first[src]] = dst]
            /\ q' = [q EXCEPT ![dst] = q[src], ![src] = <<>>]
            /\ moved' = (moved \ {dst}) \cup {src}
            /\ UNCHANGED next
       ELSE SQUEUE_INIT_HEAD(dst)

(* The assignment through the address: *a = n.                             *)
Store(a, n, nxt) ==
    /\ first' = IF a \in Heads THEN [first EXCEPT ![a] = n] ELSE first
    /\ next' = IF a \in Nodes THEN [nxt EXCEPT ![a] = n] ELSE nxt

squeue_inq(n, h) ==
    /\ Usable(h) /\ n \notin Queued
    /\ Store(last_addr[h], n, [next EXCEPT ![n] = NULL])
    /\ prev' = [prev EXCEPT ![n] = last_addr[h]]
    /\ last_addr' = [last_addr EXCEPT ![h] = n]
    /\ q' = [q EXCEPT ![h] = Append(@, n)]
    /\ UNCHANGED moved

(* n goes in front of the queued node m.                                   *)
squeue_insert_prev(h, m, n) ==
    /\ Usable(h) /\ m \in Range(q[h]) /\ n \notin Queued
    /\ prev' = [prev EXCEPT ![n] = prev[m], ![m] = n]
    /\ Store(prev[m], n, [next EXCEPT ![n] = m])
    /\ q' = [q EXCEPT ![h] = InsertAt(@, CHOOSE i \in DOMAIN @ : @[i] = m, n)]
    /\ UNCHANGED <<last_addr, moved>>

\* Mutant: the address of the node taken out stays.
LastAfterDeq_kept(h) == last_addr[h]

(* When the last node goes, the end of the list is the head again.         *)
LastAfterDeq(h) == IF next[first[h]] = NULL THEN h ELSE last_addr[h]

(* squeue_deq, and squeue_deq_condition when its check holds.              *)
squeue_deq(h) ==
    /\ Usable(h) /\ first[h] # NULL
    /\ first' = [first EXCEPT ![h] = next[first[h]]]
    /\ last_addr' = [last_addr EXCEPT ![h] = LastAfterDeq(h)]
    /\ prev' = IF next[first[h]] = NULL THEN prev
               ELSE [prev EXCEPT ![next[first[h]]] = prev[first[h]]]
    /\ q' = [q EXCEPT ![h] = Tail(@)]
    /\ UNCHANGED <<next, moved>>

squeue_get_tail(h) == IF first[h] = NULL THEN NULL ELSE last_addr[h]
squeue_get_prev(h, n) == IF prev[n] = h THEN NULL ELSE prev[n]

SqNext ==
    \E h \in Heads :
        \/ SQUEUE_INIT_HEAD(h) \/ squeue_deq(h)
        \/ \E src \in Heads : squeue_copy(h, src)
        \/ \E n \in Nodes : squeue_inq(n, h)
        \/ \E m, n \in Nodes : squeue_insert_prev(h, m, n)

SqSpec == SqInit /\ [][SqNext]_sqVars

-----------------------------------------------------------------------------
(* The pointers are the queue: from first the next pointers lead through   *)
(* exactly the nodes put in and not taken out, in order (so squeue_deq     *)
(* returns the oldest and squeue_walk visits all), squeue_get_tail returns *)
(* the last one, and squeue_get_prev walks back, after any sequence of     *)
(* calls (squeue.h:32-185).                                                *)
ListIsQueue ==
    \A h \in Heads : Usable(h) =>
        LET s == q[h]
            e == Len(s)
        IN  /\ first[h] = IF e = 0 THEN NULL ELSE s[1]
            /\ squeue_get_tail(h) = IF e = 0 THEN NULL ELSE s[e]
            /\ e = 0 => last_addr[h] = h
            /\ \A i \in 1 .. e :
                /\ next[s[i]] = IF i = e THEN NULL ELSE s[i + 1]
                /\ squeue_get_prev(h, s[i]) = IF i = 1 THEN NULL ELSE s[i - 1]
=============================================================================
