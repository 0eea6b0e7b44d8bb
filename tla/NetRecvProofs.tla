---------------------------- MODULE NetRecvProofs ----------------------------
(***************************************************************************)
(* Proofs about the connection classes, for any connections, threads,      *)
(* descriptors, messages and node size.                                    *)
(*                                                                         *)
(* The stream of a connection is whole and in order.  With async write     *)
(* only loop 0 writes, and what it has not written is in the node and the  *)
(* queue.  Without it, the writer holds the rest of its message in its     *)
(* stack frame, outside any lock, with a copy of m_fd: its bytes reach     *)
(* this connection and no other only because descriptors of connections    *)
(* differ, and because from the close to the deletion of the connection    *)
(* the loop is inside the free callback, where no other connection can get *)
(* the number.                                                             *)
(***************************************************************************)
EXTENDS NetRecv, NetPollProofs, SequenceTheorems

Unit == [to : Conns, msg : Nat, i : Nat]
FdOrNone == Fds \cup {NoFd}

ConnRec == [mem : {None, "live", "gone"}, fd : FdOrNone, dialed : BOOLEAN,
            rd : BOOLEAN, wr : BOOLEAN, cn : BOOLEAN, up : BOOLEAN,
            async : BOOLEAN, failed : BOOLEAN, freed : BOOLEAN,
            queue : Seq(Unit), node : Seq(Unit), dead : BOOLEAN]
IsCall(r) ==
    /\ r = [pc |-> r.pc, obj |-> r.obj, data |-> r.data, fd |-> r.fd]
    /\ r.data \in Seq(Unit)
    /\ r.pc \in DirectPcs => r.obj \in Conns

StreamType ==
    /\ pc \in [Loops -> Pcs]
    /\ conn \in [Conns -> ConnRec]
    /\ call = [a \in Actors |-> call[a]]
    /\ \A a \in Actors : IsCall(call[a])
    /\ cb = [pc |-> cb.pc, obj |-> cb.obj]
    /\ cli \in FdOrNone
    /\ wire \in [Conns -> Seq(Unit)]
    /\ given \in [Conns -> Seq(Unit)]
    /\ nmsgs \in Nat

\* Thread a is in a direct write of connection c.
Writing(a, c) == call[a].pc \in DirectPcs /\ call[a].obj = c

\* Where the loop is while it runs a callback: it stays inside the free callback
\* until the connection is deleted.  A direct write of loop 0 is one that the
\* application's code makes in a callback.
InCallback ==
    IF cb.pc \in {"close", "delete"}
    THEN cb.obj \in Conns /\ pc[0] \in FreePcs \cup {"wait", "exit"}
    ELSE cb.pc # None => pc[0] \in CallbackPcs \ {"timers"}

UserWrites == call[0].pc \in DirectPcs => UserCode

\* Two connections never have the same descriptor.
FdsDiffer ==
    /\ \A c, d \in Conns : conn[c].fd = conn[d].fd /\ conn[c].fd # NoFd => c = d
    /\ \A c \in Conns : conn[c].fd = cli => cli = NoFd

\* A direct write is the only one of its connection, and the descriptor that it
\* copied is still the connection's, or is nobody's.
WriterOf(a, c) ==
    /\ conn[c].mem = "live"
    /\ ~conn[c].async
    /\ \A b \in Actors : Writing(b, c) => a = b
    /\ call[a].pc = "direct" /\ call[a].fd # conn[c].fd =>
         /\ conn[c].fd = NoFd
         /\ cb.pc = "delete" /\ cb.obj = c
         /\ \A d \in Conns : conn[d].fd # call[a].fd

WriterShape == \A a \in Actors, c \in Conns : Writing(a, c) => WriterOf(a, c)

\* What went out (w) and what waits in the node (n) and the queue (q) is what was
\* given (g); so is what went out and what a writer has left (d).
Joined(w, n, q, g) == w \o (n \o q) = g
LeftOver(w, d, g) == w \o d = g
Begins(w, g) == \E rest \in Seq(Unit) : w \o rest = g

Flows(c) ==
    /\ conn[c].async => Joined(wire[c], conn[c].node, conn[c].queue, given[c])
    /\ ~conn[c].async => conn[c].node = <<>> /\ conn[c].queue = <<>>
    /\ ~conn[c].async /\ ~conn[c].dead /\ conn[c].fd # NoFd =>
         /\ (\A a \in Actors : ~Writing(a, c)) => wire[c] = given[c]
         /\ \A a \in Actors : Writing(a, c) => LeftOver(wire[c], call[a].data, given[c])
    /\ Begins(wire[c], given[c])
    /\ conn[c].failed => conn[c].dead
    /\ conn[c].mem = None => wire[c] = <<>> /\ given[c] = <<>> /\ ~conn[c].async
    /\ cb.pc = "take" /\ cb.obj = c => conn[c].node = <<>>

StreamInv ==
    /\ StreamType
    /\ InCallback
    /\ UserWrites
    /\ FdsDiffer
    /\ WriterShape
    /\ \A c \in Conns : Flows(c)
-----------------------------------------------------------------------------
(***************************************************************************)
(* Sequences.                                                              *)
(***************************************************************************)

\* What is cut off the front of a sequence and what is left make the sequence.
LEMMA CutConcat ==
  ASSUME NEW S, NEW s \in Seq(S), NEW n \in 0 .. Len(s)
  PROVE  /\ SubSeq(s, 1, n) \in Seq(S)
         /\ SubSeq(s, n + 1, Len(s)) \in Seq(S)
         /\ SubSeq(s, 1, n) \o SubSeq(s, n + 1, Len(s)) = s
         /\ n = Len(s) => SubSeq(s, 1, n) = s /\ SubSeq(s, n + 1, Len(s)) = <<>>
         /\ n = 0 => SubSeq(s, 1, n) = <<>>
<1>1. PICK k \in Nat : k = Len(s) /\ n \in 0 .. k
  BY LenProperties
<1>2. \A i \in 1 .. k : s[i] \in S
  BY <1>1, ElementOfSeq
<1>3. SubSeq(s, 1, n) \in Seq(S)
  BY <1>1, <1>2, SubSeqProperties
<1>4. SubSeq(s, n + 1, Len(s)) \in Seq(S)
  <2>1. n + 1 \in Int /\ k \in Int /\ \A i \in n + 1 .. k : s[i] \in S
    BY <1>1, <1>2
  <2> QED
    BY <1>1, <2>1, SubSeqProperties
<1>5. SubSeq(s, 1, n) \o SubSeq(s, n + 1, Len(s)) = SubSeq(s, 1, Len(s))
  <2>1. /\ 1 \in 1 .. Len(s) + 1
        /\ n \in 1 - 1 .. Len(s)
        /\ Len(s) \in n .. Len(s)
    BY <1>1
  <2> QED
    BY <2>1, ConcatAdjacentSubSeq
<1>6. SubSeq(s, 1, Len(s)) = s
  BY SubSeqFull
<1>7. n = Len(s) => SubSeq(s, n + 1, Len(s)) = <<>>
  BY <1>1, SubSeqEmpty
<1>8. n = 0 => SubSeq(s, 1, n) = <<>>
  BY <1>1, SubSeqEmpty
<1> QED
  BY <1>3, <1>4, <1>5, <1>6, <1>7, <1>8

\* A sequence is a prefix of what it is continued to.
LEMMA BeginsIsPrefix ==
  ASSUME NEW s \in Seq(Unit), NEW g \in Seq(Unit), Begins(s, g)
  PROVE  SX!IsPrefix(s, g)
<1>0. PICK t \in Seq(Unit) : g = s \o t
  BY DEF Begins
<1>1. PICK k \in Nat : k = Len(s)
  BY LenProperties
<1>2. PICK m \in Nat : m = Len(t)
  BY LenProperties
<1>3. /\ Len(s \o t) = k + m
      /\ \A i \in 1 .. k + m : (s \o t)[i] = IF i <= k THEN s[i] ELSE t[i - k]
  BY <1>1, <1>2, ConcatProperties
<1>4. SubSeq(s \o t, 1, Len(s)) = s
  BY SubSeqOfConcat1
<1>5. SubSeq(s, 1, Len(s)) = s
  BY SubSeqFull
<1> QED
  BY <1>0, <1>1, <1>2, <1>3, <1>4, <1>5 DEF SX!IsPrefix

Assoc(s, t, u) == s \o (t \o u) = (s \o t) \o u

LEMMA UnitsAssoc == \A s, t, u \in Seq(Unit) : Assoc(s, t, u)
BY ConcatAssociative DEF Assoc

\* The queue grows at its end.
LEMMA QueueGrows ==
  ASSUME NEW w \in Seq(Unit), NEW n \in Seq(Unit), NEW q \in Seq(Unit),
         NEW g \in Seq(Unit), Joined(w, n, q, g), NEW m \in Seq(Unit)
  PROVE  Joined(w, n, q \o m, g \o m)
<1>1. Assoc(n, q, m)
  BY UnitsAssoc
<1>2. PICK nq \in Seq(Unit) : nq = n \o q
  BY ConcatProperties
<1>3. Assoc(w, nq, m)
  BY UnitsAssoc
<1> QED
  BY <1>1, <1>2, <1>3 DEF Joined, Assoc

\* The next node is cut from the queue when the last one is used up.
LEMMA NodeTaken ==
  ASSUME NEW w \in Seq(Unit), NEW q \in Seq(Unit), NEW g \in Seq(Unit),
         Joined(w, <<>>, q, g), NEW k \in 0 .. Len(q)
  PROVE  Joined(w, SubSeq(q, 1, k), SubSeq(q, k + 1, Len(q)), g)
<1>1. SubSeq(q, 1, k) \o SubSeq(q, k + 1, Len(q)) = q
  BY CutConcat
<1>2. <<>> \o q = q
  BY ConcatEmptySeq
<1> QED
  BY <1>1, <1>2 DEF Joined

\* Units of the node go out.
LEMMA NodeSent ==
  ASSUME NEW w \in Seq(Unit), NEW n \in Seq(Unit), NEW q \in Seq(Unit),
         NEW g \in Seq(Unit), Joined(w, n, q, g), NEW k \in 0 .. Len(n)
  PROVE  Joined(w \o SubSeq(n, 1, k), SubSeq(n, k + 1, Len(n)), q, g)
<1>1. PICK x \in Seq(Unit), y \in Seq(Unit) :
         x = SubSeq(n, 1, k) /\ y = SubSeq(n, k + 1, Len(n))
  BY CutConcat
<1>2. x \o y = n
  BY <1>1, CutConcat
<1>3. PICK z \in Seq(Unit) : z = y \o q
  BY ConcatProperties
<1>4. Assoc(w, x, z) /\ Assoc(x, y, q)
  BY UnitsAssoc
<1>6. (w \o x) \o (y \o q) = w \o ((x \o y) \o q)
  BY <1>3, <1>4 DEF Assoc
<1> QED
  BY <1>1, <1>2, <1>6 DEF Joined

\* A writer sends units of what it has left.
LEMMA DataSent ==
  ASSUME NEW w \in Seq(Unit), NEW d \in Seq(Unit), NEW g \in Seq(Unit),
         LeftOver(w, d, g), NEW k \in 0 .. Len(d)
  PROVE  /\ LeftOver(w \o SubSeq(d, 1, k), SubSeq(d, k + 1, Len(d)), g)
         /\ Begins(w \o SubSeq(d, 1, k), g)
         /\ k = Len(d) => w \o SubSeq(d, 1, k) = g
<1>1. PICK x \in Seq(Unit), y \in Seq(Unit) :
         x = SubSeq(d, 1, k) /\ y = SubSeq(d, k + 1, Len(d))
  BY CutConcat
<1>2. x \o y = d
  BY <1>1, CutConcat
<1>3. Assoc(w, x, y)
  BY UnitsAssoc
<1>4. (w \o x) \o y = g
  BY <1>2, <1>3 DEF LeftOver, Assoc
<1>5. k = Len(d) => x = d
  BY <1>1, CutConcat
<1>6. k = Len(d) => w \o x = g
  BY <1>5 DEF LeftOver
<1> QED
  BY <1>1, <1>4, <1>6 DEF LeftOver, Begins

LEMMA BeginsFacts ==
  ASSUME NEW w \in Seq(Unit), NEW g \in Seq(Unit)
  PROVE  /\ \A n, q \in Seq(Unit) : Joined(w, n, q, g) =>
               Begins(w, g) /\ LeftOver(w, n \o q, g)
         /\ \A m \in Seq(Unit) : Begins(w, g) => Begins(w, g \o m)
         /\ \A m \in Seq(Unit) : LeftOver(w, m, w \o m)
         /\ Begins(w, w)
         /\ Joined(w, <<>>, <<>>, w)
<1>1. ASSUME NEW n \in Seq(Unit), NEW q \in Seq(Unit), Joined(w, n, q, g)
      PROVE  Begins(w, g) /\ LeftOver(w, n \o q, g)
  <2>1. PICK nq \in Seq(Unit) : nq = n \o q
    BY ConcatProperties
  <2> QED
    BY <1>1, <2>1 DEF Joined, Begins, LeftOver
<1>2. ASSUME NEW m \in Seq(Unit), Begins(w, g) PROVE Begins(w, g \o m)
  <2>1. PICK t \in Seq(Unit) : w \o t = g
    BY <1>2 DEF Begins
  <2>2. Assoc(w, t, m)
    BY UnitsAssoc
  <2>3. PICK u \in Seq(Unit) : u = t \o m
    BY ConcatProperties
  <2> QED
    BY <2>1, <2>2, <2>3 DEF Begins, Assoc
<1>3. ASSUME NEW m \in Seq(Unit) PROVE LeftOver(w, m, w \o m)
  BY DEF LeftOver
<1>4. w \o <<>> = w /\ <<>> \in Seq(Unit)
  BY ConcatEmptySeq, EmptySeq
<1>5. <<>> \o <<>> = <<>>
  BY <1>4, ConcatEmptySeq
<1>6. Begins(w, w)
  BY <1>4 DEF Begins
<1>7. Joined(w, <<>>, <<>>, w)
  BY <1>4, <1>5 DEF Joined
<1> QED
  BY <1>1, <1>2, <1>3, <1>6, <1>7

\* A message is a sequence of units, also when it is the next one.
LEMMA MessageType ==
  ASSUME NEW c \in Conns, nmsgs \in Nat, nmsgs < Len(MsgLen)
  PROVE  Message(c, nmsgs + 1) \in Seq(Unit)
<1>1. PICK k \in Nat : k = Len(MsgLen)
  BY MsgLenAssumption, LenProperties
<1>2. MsgLen[nmsgs + 1] \in Nat
  BY <1>1, MsgLenAssumption, ElementOfSeq
<1>3. PICK n \in Nat : n = MsgLen[nmsgs + 1]
  BY <1>2
<1>4. \A i \in 1 .. n : [to |-> c, msg |-> nmsgs + 1, i |-> i] \in Unit
  BY DEF Unit
<1>5. Message(c, nmsgs + 1) \in [1 .. n -> Unit]
  BY <1>3, <1>4 DEF Message
<1> QED
  BY <1>5, SeqDef
-----------------------------------------------------------------------------
(***************************************************************************)
(* Where the loop is.                                                      *)
(***************************************************************************)

\* A call of the library, by whatever thread, moves no loop.
LEMMA CallsKeepPc ==
  ASSUME NEW a, NEW fd
  PROVE  /\ add_listen_job(a, fd) => pc' = pc
         /\ add_read_job_new(a, fd) => pc' = pc
         /\ add_read_job_ctl(a, fd) => pc' = pc
         /\ add_read_job_set(a) => pc' = pc
         /\ add_write_job_new(a, fd) => pc' = pc
         /\ add_write_job_more(a, fd) => pc' = pc
         /\ del_read_job(a, fd) => pc' = pc
         /\ del_write_job(a, fd) => pc' = pc
         /\ del_listen_job_mark(a, fd) => pc' = pc
         /\ del_listen_job_ctl(a) => pc' = pc
BY DEF add_listen_job, add_read_job_new, add_read_job_ctl, add_read_job_set,
       add_write_job_new, add_write_job_more, del_read_job, del_write_job,
       del_wr_job, del_listen_job_mark, del_listen_job_ctl, loopVars

\* So do the calls that the connection classes make.
LEMMA WrappersKeepPc ==
  ASSUME NEW a, NEW c, NEW w
  PROVE  /\ AddWrite(a, c, w) => pc' = pc
         /\ DelRead(a, c) => pc' = pc
         /\ DelWrite(a, c) => pc' = pc
BY CallsKeepPc DEF AddWrite, DelRead, DelWrite, vars

\* The steps of the loop itself.
LEMMA LoopMovesPc ==
  ASSUME pc \in [Loops -> Pcs]
  PROVE  /\ LoopQuiet => pc' \in [Loops -> Pcs]
         /\ RecvData(0) \/ Accept(0) \/ WriteClear(0) =>
              pc' \in [Loops -> Pcs] /\ pc'[0] \in CallbackPcs \ {"timers"}
         /\ ReadCbReturn(0) \/ ReadEndReturn(0) \/ WriteCbReturn(0) =>
              pc' \in [Loops -> Pcs]
         /\ FreeJob(0) => /\ pc' \in [Loops -> Pcs]
                          /\ pc'[0] \in FreePcs \cup {"wait", "exit"}
<1> USE LoopsFacts DEF Pcs, EventPcs, FreePcs
<1> DEFINE Moved == \E p \in Pcs : pc' = [pc EXCEPT ![0] = p]
<1>0. ASSUME Moved PROVE pc' \in [Loops -> Pcs]
  BY <1>0
<1>1. EventDone(0) => Moved
  BY DEF EventDone
<1>2. ReadDone(0) => Moved
  BY <1>1 DEF ReadDone, Goto
<1>3. LoopTop(0) \/ LoopOut(0) => Moved
  BY DEF LoopTop, LoopOut, Reap
<1>4. EpollReady(0) \/ EpollIdle(0) \/ Dispatch(0) => Moved
  BY DEF EpollReady, EpollIdle, Dispatch
<1>5. RecvDrained(0) \/ AcceptDrained(0) \/ ReadEndReturn(0) => Moved
  BY <1>2 DEF RecvDrained, AcceptDrained, ReadEndReturn
<1>6. WriteCheck(0) \/ WriteCbReturn(0) => Moved
  BY <1>1 DEF WriteCheck, WriteCbReturn, Goto
<1>7. ReadCbReturn(0) \/ TimersReturn(0) => Moved
  BY DEF ReadCbReturn, TimersReturn, Goto
<1>9. RecvData(0) \/ Accept(0) \/ WriteClear(0) =>
         \E p \in CallbackPcs \ {"timers"} : pc' = [pc EXCEPT ![0] = p]
  BY DEF RecvData, Accept, WriteClear, Goto, CallbackPcs
<1>10. CallbackPcs \subseteq Pcs
  BY DEF CallbackPcs
<1>8. FreeJob(0) => \E p \in FreePcs \cup {"wait", "exit"} : pc' = [pc EXCEPT ![0] = p]
  BY DEF FreeJob
<1> HIDE DEF Moved
<1> QED
  BY <1>0, <1>3, <1>4, <1>5, <1>6, <1>7, <1>8, <1>9, <1>10 DEF LoopQuiet
-----------------------------------------------------------------------------
(***************************************************************************)
(* Steps that leave the streams alone.                                     *)
(***************************************************************************)

\* The fields of a connection that its stream depends on.
SameConn(c) ==
    /\ conn'[c].mem = conn[c].mem
    /\ conn'[c].fd = conn[c].fd
    /\ conn'[c].async = conn[c].async
    /\ conn'[c].failed = conn[c].failed
    /\ conn'[c].dead = conn[c].dead
    /\ conn'[c].node = conn[c].node
    /\ conn'[c].queue = conn[c].queue

FlagsOnly ==
    /\ conn' \in [Conns -> ConnRec]
    /\ \A c \in Conns : SameConn(c)

CallsTyped ==
    /\ call' = [a \in Actors |-> call'[a]]
    /\ \A a \in Actors : IsCall(call'[a])

\* No direct write begins, moves on or ends.
CallsKept ==
    /\ CallsTyped
    /\ \A a \in Actors :
         call[a].pc \in DirectPcs \/ call'[a].pc \in DirectPcs => call'[a] = call[a]

LEMMA FlagUpdate ==
  ASSUME conn \in [Conns -> ConnRec], NEW c, NEW b \in BOOLEAN,
         \/ conn' = [conn EXCEPT ![c].rd = b]
         \/ conn' = [conn EXCEPT ![c].wr = b]
         \/ conn' = [conn EXCEPT ![c].cn = b]
         \/ conn' = [conn EXCEPT ![c].up = b]
         \/ conn' = [conn EXCEPT ![c].freed = b]
         \/ conn' = conn
  PROVE  FlagsOnly
<1>1. CASE conn' = conn
  BY <1>1 DEF FlagsOnly, SameConn
<1>2. CASE c \notin Conns
  BY <1>2 DEF FlagsOnly, SameConn
<1>3. CASE c \in Conns
  <2>1. PICK r \in ConnRec : r = conn[c]
    BY <1>3
  <2>2. ASSUME NEW q \in ConnRec, conn' = [conn EXCEPT ![c] = q],
               q.mem = r.mem, q.fd = r.fd, q.async = r.async, q.failed = r.failed,
               q.dead = r.dead, q.node = r.node, q.queue = r.queue
        PROVE  FlagsOnly
    BY <2>1, <2>2 DEF FlagsOnly, SameConn
  <2>3. CASE conn' = [conn EXCEPT ![c].rd = b]
    BY <2>1, <2>2, <2>3 DEF ConnRec
  <2>4. CASE conn' = [conn EXCEPT ![c].wr = b]
    BY <2>1, <2>2, <2>4 DEF ConnRec
  <2>5. CASE conn' = [conn EXCEPT ![c].cn = b]
    BY <2>1, <2>2, <2>5 DEF ConnRec
  <2>6. CASE conn' = [conn EXCEPT ![c].up = b]
    BY <2>1, <2>2, <2>6 DEF ConnRec
  <2>7. CASE conn' = [conn EXCEPT ![c].freed = b]
    BY <2>1, <2>2, <2>7 DEF ConnRec
  <2> QED
    BY <1>1, <2>3, <2>4, <2>5, <2>6, <2>7
<1> QED
  BY <1>2, <1>3

LEMMA NoCallFacts == NoCall.pc \notin DirectPcs /\ IsCall(NoCall)
<1>1. NoCall.data \in Seq(Unit) /\ NoCall.pc \notin DirectPcs
  BY EmptySeq DEF NoCall, DirectPcs, None
<1>2. NoCall = [pc |-> NoCall.pc, obj |-> NoCall.obj, data |-> NoCall.data, fd |-> NoCall.fd]
  BY DEF NoCall
<1> QED
  BY <1>1, <1>2 DEF IsCall

\* One call changes.
LEMMA CallAt ==
  ASSUME StreamType, NEW a \in Actors, NEW q, IsCall(q), call' = [call EXCEPT ![a] = q]
  PROVE  /\ CallsTyped
         /\ call'[a] = q
         /\ \A b \in Actors : b # a => call'[b] = call[b]
<1>1. call' = [b \in Actors |-> IF b = a THEN q ELSE call[b]]
  BY DEF StreamType
<1>2. call'[a] = q /\ \A b \in Actors : b # a => call'[b] = call[b]
  BY <1>1
<1>3. \A b \in Actors : IsCall(call'[b])
  BY <1>2 DEF StreamType
<1>4. call' = [b \in Actors |-> call'[b]]
  BY <1>1
<1> QED
  BY <1>2, <1>3, <1>4 DEF CallsTyped

\* Calls that are no direct write and do not become one.
LEMMA CallUpdate ==
  ASSUME StreamType, NEW a, call[a].pc \notin DirectPcs,
         NEW p, p \notin DirectPcs, NEW c,
         \/ Goto2(a, p)
         \/ Return2(a)
         \/ call' = [call EXCEPT ![a].pc = p, ![a].obj = c]
         \/ call' = [call EXCEPT ![a] = [NoCall EXCEPT !.pc = p, !.obj = c]]
         \/ call' = call
  PROVE  CallsKept
<1>1. CASE a \notin Actors \/ call' = call
  BY <1>1 DEF CallsKept, CallsTyped, StreamType, Goto2, Return2
<1>2. CASE a \in Actors
  <2>1. NoCall.pc \notin DirectPcs /\ IsCall(NoCall)
    BY NoCallFacts
  <2>2. PICK r : r = call[a] /\ IsCall(r)
    BY <1>2 DEF StreamType
  <2>3. ASSUME NEW q, IsCall(q), q.pc \notin DirectPcs, call' = [call EXCEPT ![a] = q]
        PROVE  CallsKept
    BY <1>2, <2>3, CallAt DEF CallsKept
  <2>4. CASE Goto2(a, p)
    <3>1. PICK q : q = [r EXCEPT !.pc = p]
      OBVIOUS
    <3>2. IsCall(q) /\ q.pc = p
      BY <2>2, <3>1 DEF IsCall
    <3>3. call' = [call EXCEPT ![a] = q]
      BY <2>2, <2>4, <3>1 DEF Goto2
    <3> QED
      BY <2>3, <3>2, <3>3
  <2>5. CASE Return2(a)
    BY <2>1, <2>3, <2>5 DEF Return2
  <2>6. CASE call' = [call EXCEPT ![a].pc = p, ![a].obj = c]
    <3>1. PICK q : q = [r EXCEPT !.pc = p, !.obj = c]
      OBVIOUS
    <3>2. IsCall(q) /\ q.pc = p
      BY <2>2, <3>1 DEF IsCall
    <3>3. call' = [call EXCEPT ![a] = q]
      <4>1. call' = [b \in Actors |-> IF b = a THEN q ELSE call[b]]
        BY <2>6, <2>2, <3>1 DEF StreamType
      <4> QED
        BY <4>1 DEF StreamType
    <3> QED
      BY <2>3, <3>2, <3>3
  <2>7. CASE call' = [call EXCEPT ![a] = [NoCall EXCEPT !.pc = p, !.obj = c]]
    <3>1. PICK q : q = [NoCall EXCEPT !.pc = p, !.obj = c]
      OBVIOUS
    <3>2. IsCall(q) /\ q.pc = p
      BY <2>1, <3>1, EmptySeq DEF IsCall, NoCall
    <3> QED
      BY <2>3, <2>7, <3>1, <3>2
  <2> QED
    BY <1>1, <2>4, <2>5, <2>6, <2>7
<1> QED
  BY <1>1, <1>2

\* The stream of c stays as it is.
KeepsStream(c) ==
    /\ SameConn(c)
    /\ wire'[c] = wire[c]
    /\ given'[c] = given[c]
    /\ \A a \in Actors : Writing(a, c) \/ Writing(a, c)' => call'[a] = call[a]

\* The loop leaves the free callback of a connection by deleting it, and goes to
\* take a node only without one.
CbKept ==
    /\ pc' \in [Loops -> Pcs]
    /\ cb' = [pc |-> cb'.pc, obj |-> cb'.obj]
    /\ InCallback'
    /\ call[0].pc \in DirectPcs => UserCode'
    /\ cb.pc = "delete" => cb' = cb
    /\ \A c \in Conns : cb'.pc = "take" /\ cb'.obj = c => conn'[c].node = <<>>

CliKept ==
    /\ cli' \in FdOrNone
    /\ \A c \in Conns : conn[c].fd = cli' => cli' = NoFd

\* Descriptors are given up, not taken.
NoFdTaken == \A c \in Conns : conn'[c].fd = conn[c].fd \/ conn'[c].fd = NoFd

LEMMA KeepsFlow ==
  ASSUME NEW c \in Conns, Flows(c), KeepsStream(c),
         cb'.pc = "take" /\ cb'.obj = c => conn'[c].node = <<>>
  PROVE  Flows(c)'
<1>1. \A a \in Actors : Writing(a, c)' => Writing(a, c) /\ call'[a] = call[a]
  BY DEF KeepsStream, Writing
<1>2. \A a \in Actors : Writing(a, c) => Writing(a, c)' /\ call'[a] = call[a]
  BY DEF KeepsStream, Writing
<1>3. /\ wire'[c] = wire[c] /\ given'[c] = given[c]
      /\ conn'[c].mem = conn[c].mem
      /\ conn'[c].fd = conn[c].fd
      /\ conn'[c].async = conn[c].async
      /\ conn'[c].failed = conn[c].failed
      /\ conn'[c].dead = conn[c].dead
      /\ conn'[c].node = conn[c].node
      /\ conn'[c].queue = conn[c].queue
  BY DEF KeepsStream, SameConn
<1>4. (\A a \in Actors : ~Writing(a, c)') => \A a \in Actors : ~Writing(a, c)
  BY <1>2
<1>5. ~conn[c].async /\ ~conn[c].dead /\ conn[c].fd # NoFd =>
        /\ (\A a \in Actors : ~Writing(a, c)') => wire[c] = given[c]
        /\ \A a \in Actors : Writing(a, c)' => LeftOver(wire[c], call'[a].data, given[c])
  BY <1>1, <1>4 DEF Flows
<1> QED
  BY <1>3, <1>5 DEF Flows

LEMMA KeepsFds ==
  ASSUME FdsDiffer, NoFdTaken, CliKept
  PROVE  FdsDiffer'
BY DEF FdsDiffer, NoFdTaken, CliKept

LEMMA KeepsWriter ==
  ASSUME WriterShape, NEW a \in Actors, NEW c \in Conns, KeepsStream(c),
         Writing(a, c)', NoFdTaken \/ cb.pc # "delete",
         cb.pc = "delete" => cb' = cb
  PROVE  WriterOf(a, c)'
<1>1. Writing(a, c) /\ call'[a] = call[a]
  BY DEF KeepsStream, Writing
<1>2. conn'[c].mem = conn[c].mem /\ conn'[c].fd = conn[c].fd /\ conn'[c].async = conn[c].async
  BY DEF KeepsStream, SameConn
<1>3. /\ conn[c].mem = "live" /\ ~conn[c].async
      /\ \A b \in Actors : Writing(b, c) => a = b
      /\ call[a].pc = "direct" /\ call[a].fd # conn[c].fd =>
           /\ conn[c].fd = NoFd
           /\ cb.pc = "delete" /\ cb.obj = c
           /\ \A d \in Conns : conn[d].fd # call[a].fd
  BY <1>1 DEF WriterShape, WriterOf
<1>4. \A b \in Actors : Writing(b, c)' => Writing(b, c)
  BY DEF KeepsStream, Writing
<1>5. ASSUME call[a].pc = "direct", call[a].fd # conn[c].fd
      PROVE  /\ conn[c].fd = NoFd /\ cb'.pc = "delete" /\ cb'.obj = c
             /\ \A d \in Conns : conn'[d].fd # call[a].fd
  BY <1>3, <1>5 DEF NoFdTaken
<1> QED
  BY <1>1, <1>2, <1>3, <1>4, <1>5 DEF WriterOf

\* A step that does nothing to the streams, whatever it does to the library.
Quiet ==
    /\ FlagsOnly
    /\ CallsKept
    /\ UNCHANGED <<wire, given, nmsgs>>

LEMMA QuietStep ==
  ASSUME StreamInv, Quiet, CbKept, CliKept
  PROVE  StreamInv'
<1>1. \A c \in Conns : KeepsStream(c)
  BY DEF Quiet, FlagsOnly, CallsKept, KeepsStream, Writing
<1>2. NoFdTaken
  BY DEF Quiet, FlagsOnly, SameConn, NoFdTaken
<1>3. StreamType'
  BY DEF Quiet, FlagsOnly, CallsKept, CallsTyped, CbKept, CliKept, StreamInv, StreamType
<1>4. InCallback'
  BY DEF CbKept
<1>8. UserWrites'
  <2>1. 0 \in Actors
    BY LoopsFacts DEF Actors
  <2> QED
    BY <2>1 DEF CbKept, UserWrites, Quiet, CallsKept
<1>5. FdsDiffer'
  BY <1>2, KeepsFds DEF StreamInv
<1>6. WriterShape'
  BY <1>1, <1>2, KeepsWriter DEF StreamInv, CbKept, WriterShape
<1>7. \A c \in Conns : Flows(c)'
  BY <1>1, KeepsFlow DEF StreamInv, CbKept
<1> QED
  BY <1>3, <1>4, <1>5, <1>6, <1>7, <1>8 DEF StreamInv

\* Such a step of a thread: the loop and its callback stay where they are.
LEMMA ThreadQuiet ==
  ASSUME StreamInv, Quiet, UNCHANGED <<pc, cb, cli>>
  PROVE  StreamInv'
<1>1. CbKept
  <2>1. \A c \in Conns : cb.pc = "take" /\ cb.obj = c => conn'[c].node = <<>>
    BY DEF StreamInv, Flows, Quiet, FlagsOnly, SameConn
  <2> QED
    BY <2>1 DEF CbKept, StreamInv, StreamType, InCallback, UserWrites, UserCode
<1>2. CliKept
  BY DEF CliKept, StreamInv, StreamType, FdsDiffer
<1> QED
  BY <1>1, <1>2, QuietStep

\* The member functions, but for the direct writes, as steps of thread a.
LEMMA MembersQuiet ==
  ASSUME StreamInv, NEW a \in Actors,
         \/ \E c \in Conns : free(a, c)
         \/ \E x \in Acceptors : accept_init(a, x) \/ accept_free(a, x)
         \/ send_data_lock(a) \/ send_data_add(a) \/ send_data_flag(a)
         \/ unregister_read(a) \/ unregister_write(a) \/ free_unlock(a)
         \/ register_connect(a) \/ register_read(a) \/ register_read_flag(a)
         \/ accept_free_ctl(a)
  PROVE  StreamInv'
<1> USE DEF ConnKeeps, Quiet
<1>0. conn \in [Conns -> ConnRec] /\ StreamType
  BY DEF StreamInv, StreamType
<1>a. UNCHANGED vars => pc' = pc
  BY DEF vars
<1>b. conn' = conn => FlagsOnly
  BY <1>0, FlagUpdate
<1>c. call' = call => CallsKept
  BY <1>0 DEF CallsKept, CallsTyped, StreamType
<1>1. ASSUME NEW c \in Conns, free(a, c) PROVE StreamInv'
  <2>1. pc' = pc /\ UNCHANGED <<cb, cli, wire, given, nmsgs>>
    BY <1>1, <1>a DEF free
  <2>2. FlagsOnly
    BY <1>1, <1>0, FlagUpdate DEF free, FreeLock
  <2>3. PICK p \in {"unread", "unwrite"} :
           call' = [call EXCEPT ![a] = [NoCall EXCEPT !.pc = p, !.obj = c]]
    BY <1>1 DEF free, FreeLock
  <2>4. call[a].pc \notin DirectPcs /\ p \notin DirectPcs
    BY <1>1 DEF free, Free, NoCall, None, DirectPcs
  <2>5. CallsKept
    BY <1>0, <2>3, <2>4, CallUpdate
  <2> QED
    BY <2>1, <2>2, <2>5, ThreadQuiet
<1>2. ASSUME NEW x \in Acceptors, accept_init(a, x) PROVE StreamInv'
  <2>1. pc' = pc /\ UNCHANGED <<cb, cli, wire, given, nmsgs, conn, call>>
    BY <1>2, CallsKeepPc DEF accept_init
  <2> QED
    BY <2>1, <1>b, <1>c, ThreadQuiet
<1>3. ASSUME NEW x \in Acceptors, accept_free(a, x) PROVE StreamInv'
  <2>1. pc' = pc /\ UNCHANGED <<cb, cli, wire, given, nmsgs, conn>>
    BY <1>3, <1>a, CallsKeepPc DEF accept_free
  <2>2. call[a].pc \notin DirectPcs /\ "freelisten" \notin DirectPcs
    BY <1>3 DEF accept_free, Free, NoCall, None, DirectPcs
  <2>3. CallsKept
    BY <1>3, <1>0, <2>2, CallUpdate DEF accept_free
  <2> QED
    BY <2>1, <2>3, <1>b, ThreadQuiet
<1>4. CASE send_data_lock(a)
  <2>1. pc' = pc /\ UNCHANGED <<cb, cli, wire, given, nmsgs, conn>>
    BY <1>4, <1>a DEF send_data_lock
  <2>2. call[a].pc \notin DirectPcs /\ "addwrite" \notin DirectPcs
    BY <1>4 DEF send_data_lock, DirectPcs
  <2>3. CallsKept
    BY <1>4, <1>0, <2>2, CallUpdate DEF send_data_lock
  <2> QED
    BY <2>1, <2>3, <1>b, ThreadQuiet
<1>5. CASE send_data_add(a)
  <2>1. pc' = pc /\ UNCHANGED <<cb, cli, wire, given, nmsgs, conn>>
    BY <1>5, WrappersKeepPc DEF send_data_add
  <2>2. call[a].pc \notin DirectPcs /\ "wrflag" \notin DirectPcs
    BY <1>5 DEF send_data_add, DirectPcs
  <2>3. CallsKept
    BY <1>5, <1>0, <2>2, CallUpdate DEF send_data_add
  <2> QED
    BY <2>1, <2>3, <1>b, ThreadQuiet
<1>6. CASE send_data_flag(a)
  <2>1. pc' = pc /\ UNCHANGED <<cb, cli, wire, given, nmsgs>>
    BY <1>6, <1>a DEF send_data_flag
  <2>2. FlagsOnly
    BY <1>6, <1>0, FlagUpdate DEF send_data_flag
  <2>3. CallsKept
    BY <1>6, <1>0, CallUpdate DEF send_data_flag, DirectPcs
  <2> QED
    BY <2>1, <2>2, <2>3, ThreadQuiet
<1>7. CASE unregister_read(a)
  <2>1. pc' = pc /\ UNCHANGED <<cb, cli, wire, given, nmsgs>>
    BY <1>7, WrappersKeepPc DEF unregister_read
  <2>2. FlagsOnly
    BY <1>7, <1>0, FlagUpdate DEF unregister_read
  <2>3. CallsKept
    BY <1>7, <1>0, CallUpdate DEF unregister_read, DirectPcs
  <2> QED
    BY <2>1, <2>2, <2>3, ThreadQuiet
<1>8. CASE unregister_write(a)
  <2>1. pc' = pc /\ UNCHANGED <<cb, cli, wire, given, nmsgs>>
    BY <1>8, <1>a, WrappersKeepPc DEF unregister_write
  <2>2. FlagsOnly
    BY <1>8, <1>0, FlagUpdate DEF unregister_write
  <2>3. CallsKept
    BY <1>8, <1>0, CallUpdate DEF unregister_write, DirectPcs
  <2> QED
    BY <2>1, <2>2, <2>3, ThreadQuiet
<1>9. CASE free_unlock(a)
  <2>1. pc' = pc /\ UNCHANGED <<cb, cli, wire, given, nmsgs, conn>>
    BY <1>9, <1>a DEF free_unlock
  <2>2. CallsKept
    BY <1>9, <1>0, CallUpdate DEF free_unlock, DirectPcs
  <2> QED
    BY <2>1, <2>2, <1>b, ThreadQuiet
<1>10. CASE register_connect(a)
  <2>1. pc' = pc /\ UNCHANGED <<cb, cli, wire, given, nmsgs, conn>>
    BY <1>10, WrappersKeepPc DEF register_connect
  <2>2. CallsKept
    BY <1>10, <1>0, CallUpdate DEF register_connect, DirectPcs
  <2> QED
    BY <2>1, <2>2, <1>b, ThreadQuiet
<1>11. CASE register_read(a)
  <2>1. pc' = pc /\ UNCHANGED <<cb, cli, wire, given, nmsgs, conn>>
    BY <1>11, CallsKeepPc DEF register_read
  <2>2. /\ call[a].pc \notin DirectPcs
        /\ Goto2(a, "rdflag") \/ Goto2(a, "addset") \/ Return2(a)
        /\ "rdflag" \notin DirectPcs /\ "addset" \notin DirectPcs
    BY <1>11 DEF register_read, DirectPcs
  <2>3. CallsKept
    BY <1>0, <2>2, CallUpdate
  <2> QED
    BY <2>1, <2>3, <1>b, ThreadQuiet
<1>12. CASE register_read_flag(a)
  <2>1. pc' = pc /\ UNCHANGED <<cb, cli, wire, given, nmsgs>>
    BY <1>12, <1>a DEF register_read_flag
  <2>2. FlagsOnly
    BY <1>12, <1>0, FlagUpdate DEF register_read_flag
  <2>3. CallsKept
    BY <1>12, <1>0, CallUpdate DEF register_read_flag, DirectPcs
  <2> QED
    BY <2>1, <2>2, <2>3, ThreadQuiet
<1>13. CASE accept_free_ctl(a)
  <2>1. pc' = pc /\ UNCHANGED <<cb, cli, wire, given, nmsgs, conn>>
    BY <1>13, CallsKeepPc DEF accept_free_ctl
  <2>2. CallsKept
    BY <1>13, <1>0, CallUpdate DEF accept_free_ctl, DirectPcs
  <2> QED
    BY <2>1, <2>2, <1>b, ThreadQuiet
<1> QED
  BY <1>1, <1>2, <1>3, <1>4, <1>5, <1>6, <1>7, <1>8, <1>9, <1>10, <1>11, <1>12, <1>13

\* A step of the loop outside the free callbacks of connections.
LEMMA LoopStepQuiet ==
  ASSUME StreamInv, Quiet, CliKept, pc' \in [Loops -> Pcs], cb.pc # "delete",
         call[0].pc \notin DirectPcs,
         cb' = [pc |-> cb'.pc, obj |-> cb'.obj],
         cb'.pc \notin {"close", "delete"},
         cb'.pc # None => pc'[0] \in CallbackPcs \ {"timers"},
         \A c \in Conns : cb'.pc = "take" /\ cb'.obj = c => conn'[c].node = <<>>
  PROVE  StreamInv'
<1>1. CbKept
  BY DEF CbKept, InCallback
<1> QED
  BY <1>1, QuietStep

LEMMA CbGotoFacts ==
  ASSUME StreamInv, NEW p, CbGoto(p)
  PROVE  /\ cb'.pc = p /\ cb'.obj = cb.obj
         /\ cb' = [pc |-> cb'.pc, obj |-> cb'.obj]
BY DEF CbGoto, StreamInv, StreamType

\* The loop outside the connection classes, and the return of their callbacks.
LEMMA LoopQuietKeeps ==
  ASSUME StreamInv, LoopQuiet \/ accept_free_callback \/ CbReturn
  PROVE  StreamInv'
<1>0. pc \in [Loops -> Pcs] /\ conn \in [Conns -> ConnRec] /\ StreamType
  BY DEF StreamInv, StreamType
<1>1. pc' \in [Loops -> Pcs]
  BY <1>0, LoopMovesPc DEF accept_free_callback, CbReturn
<1>2. UNCHANGED <<conn, call, wire, given, nmsgs, cli>>
  BY DEF LoopQuiet, accept_free_callback, CbReturn, CbKeeps, objVars
<1>3. Quiet
  BY <1>0, <1>2, FlagUpdate DEF Quiet, CallsKept, CallsTyped, StreamType
<1>4. CliKept
  BY <1>2 DEF CliKept, StreamInv, StreamType, FdsDiffer
<1>5. CASE LoopQuiet \/ accept_free_callback
  <2>1. cb.pc = None /\ cb' = cb
    BY <1>5 DEF LoopQuiet, accept_free_callback, objVars
  <2>2. call[0].pc \notin DirectPcs
    <3>1. CASE pc[0] # "timers"
      BY <2>1, <3>1 DEF StreamInv, UserWrites, UserCode, None
    <3>2. CASE pc[0] = "timers"
      <4>1. call[0] = NoCall
        BY <1>5, <3>2 DEF LoopQuiet, LoopTop, LoopOut, EpollReady, EpollIdle, Dispatch,
             RecvDrained, AcceptDrained, WriteCheck, accept_free_callback, FreePcs
      <4> QED
        BY <4>1 DEF NoCall, None, DirectPcs
    <3> QED
      BY <3>1, <3>2
  <2> QED
    BY <1>0, <1>1, <1>3, <1>4, <2>1, <2>2, LoopStepQuiet DEF None, StreamType
<1>6. CASE CbReturn
  <2>1. cb.pc # "delete" /\ cb' = NoCb /\ call[0].pc \notin DirectPcs
    BY <1>6 DEF CbReturn, NoCall, None, DirectPcs
  <2> QED
    BY <1>1, <1>3, <1>4, <2>1, LoopStepQuiet DEF NoCb, None
<1> QED
  BY <1>5, <1>6

\* A callback begins.
LEMMA CallbackStarts ==
  ASSUME StreamInv, RecvStart \/ AcceptStart \/ WriteStart
  PROVE  StreamInv'
<1>0. pc \in [Loops -> Pcs] /\ conn \in [Conns -> ConnRec] /\ StreamType
  BY DEF StreamInv, StreamType
<1>1. pc' \in [Loops -> Pcs] /\ pc'[0] \in CallbackPcs \ {"timers"}
  BY <1>0, LoopMovesPc DEF RecvStart, AcceptStart, WriteStart
<1>2. UNCHANGED <<conn, call, wire, given, nmsgs>>
  BY DEF RecvStart, AcceptStart, WriteStart, CbKeeps
<1>3. Quiet
  BY <1>0, <1>2, FlagUpdate DEF Quiet, CallsKept, CallsTyped, StreamType
<1>4. cb.pc # "delete" /\ call[0].pc \notin DirectPcs
  <2>1. pc[0] \in {"read", "write2"}
    BY DEF RecvStart, AcceptStart, WriteStart, RecvData, Accept, WriteClear
  <2>2. cb.pc = None
    BY <2>1 DEF StreamInv, InCallback, FreePcs, CallbackPcs
  <2> QED
    BY <2>1, <2>2 DEF StreamInv, UserWrites, UserCode, None
<1>5. /\ cb' = [pc |-> cb'.pc, obj |-> cb'.obj]
      /\ cb'.pc \in {"recv", "fail", "accept", "entry"}
  BY DEF RecvStart, AcceptStart, WriteStart
<1>6. CliKept
  <2>1. CASE AcceptStart
    <3>1. cli' \in Closed
      BY <2>1 DEF AcceptStart
    <3> QED
      BY <3>1 DEF Closed, CliKept, FdOrNone
  <2>2. CASE RecvStart \/ WriteStart
    BY <2>2 DEF RecvStart, WriteStart, CbKeeps, CliKept, StreamInv, StreamType, FdsDiffer
  <2> QED
    BY <2>1, <2>2
<1> QED
  BY <1>1, <1>3, <1>4, <1>5, <1>6, LoopStepQuiet

\* The steps of callbacks that do not touch the data.
LEMMA CallbacksQuiet ==
  ASSUME StreamInv,
         \/ WriteEntry \/ recv_handle_fails \/ FailFree \/ accept_refuse
         \/ send_handle_again \/ send_handle_flag
         \/ connect_result \/ connect_handle_returns \/ connect_cleanup
         \/ unregister_connect
  PROVE  StreamInv'
<1> USE DEF ConnKeeps, CbKeeps, Quiet
<1>0. pc \in [Loops -> Pcs] /\ conn \in [Conns -> ConnRec] /\ StreamType
  BY DEF StreamInv, StreamType
<1>a. UNCHANGED vars => pc' = pc
  BY DEF vars
<1>b. conn' = conn => FlagsOnly
  BY <1>0, FlagUpdate
<1>c. call' = call => CallsKept
  BY <1>0 DEF CallsKept, CallsTyped, StreamType
<1>d. cli' = cli \/ cli' = NoFd => CliKept
  BY DEF CliKept, StreamInv, StreamType, FdsDiffer, FdOrNone
<1>f. cb.pc \notin {"close", "delete", None}
  BY DEF WriteEntry, recv_handle_fails, FailFree, accept_refuse, send_handle_again,
         send_handle_flag, connect_result, connect_handle_returns, connect_cleanup,
         unregister_connect, None
<1>g. pc[0] \in CallbackPcs \ {"timers"} /\ call[0].pc \notin DirectPcs
  <2>1. cb.pc \notin {"recv", "conn_ok", "conn_bad"} \/ call[0] = NoCall
    BY DEF WriteEntry, recv_handle_fails, FailFree, accept_refuse, send_handle_again,
           send_handle_flag, connect_result, connect_handle_returns, connect_cleanup,
           unregister_connect
  <2>2. call[0] = NoCall => call[0].pc \notin DirectPcs
    BY DEF NoCall, None, DirectPcs
  <2> QED
    BY <1>f, <2>1, <2>2 DEF StreamInv, InCallback, UserWrites, UserCode
<1>e. ASSUME FlagsOnly, CallsKept, UNCHANGED <<pc, wire, given, nmsgs>>,
             cli' = cli \/ cli' = NoFd, NEW p, CbGoto(p),
             p \notin {"close", "delete", "take"}
      PROVE  StreamInv'
  BY <1>0, <1>d, <1>e, <1>f, <1>g, CbGotoFacts, LoopStepQuiet
<1>1. CASE WriteEntry
  <2>1. pc' = pc /\ UNCHANGED <<conn, call, wire, given, nmsgs, cli>> /\ cb.pc # "delete"
    BY <1>1, <1>a DEF WriteEntry
  <2>2. CbGoto("connect") \/ CbGoto("sendbuf") \/ (CbGoto("take") /\ conn[cb.obj].node = <<>>)
    BY <1>1 DEF WriteEntry
  <2>3. CASE CbGoto("take") /\ conn[cb.obj].node = <<>>
    BY <1>0, <1>b, <1>c, <1>d, <1>f, <1>g, <2>1, <2>3, CbGotoFacts, LoopStepQuiet
  <2> QED
    BY <1>b, <1>c, <1>e, <2>1, <2>2, <2>3
<1>2. CASE recv_handle_fails
  BY <1>2, <1>a, <1>b, <1>c, <1>e DEF recv_handle_fails
<1>3. CASE FailFree
  <2>1. pc' = pc /\ UNCHANGED <<wire, given, nmsgs, cli>> /\ cb.pc # "delete"
    BY <1>3, <1>a DEF FailFree
  <2>2. FlagsOnly
    BY <1>3, <1>0, FlagUpdate DEF FailFree, FreeLock
  <2>3. PICK p \in {"unread", "unwrite"} :
           call' = [call EXCEPT ![0] = [NoCall EXCEPT !.pc = p, !.obj = cb.obj]]
    BY <1>3 DEF FailFree, FreeLock
  <2>5. CallsKept
    BY <1>0, <1>g, <2>3, CallUpdate DEF DirectPcs
  <2> QED
    BY <1>3, <1>e, <2>1, <2>2, <2>5 DEF FailFree
<1>4. CASE accept_refuse
  BY <1>4, <1>a, <1>b, <1>c, <1>e DEF accept_refuse
<1>5. CASE send_handle_again
  <2>1. pc' = pc
    BY <1>5, WrappersKeepPc DEF send_handle_again
  <2> QED
    BY <1>5, <1>b, <1>c, <1>e, <2>1 DEF send_handle_again
<1>6. CASE send_handle_flag
  <2>1. FlagsOnly
    BY <1>6, <1>0, FlagUpdate DEF send_handle_flag
  <2> QED
    BY <1>6, <1>a, <1>c, <1>e, <2>1 DEF send_handle_flag
<1>7. CASE connect_result
  <2>1. pc' = pc /\ UNCHANGED <<conn, wire, given, nmsgs, cli>> /\ cb.pc # "delete"
    BY <1>7, <1>a DEF connect_result
  <2>3. CallsKept
    BY <1>7, <1>0, <1>g, CallUpdate DEF connect_result, DirectPcs
  <2> QED
    BY <1>7, <1>b, <1>e, <2>1, <2>3 DEF connect_result
<1>8. CASE connect_handle_returns
  <2>1. FlagsOnly
    BY <1>8, <1>0, FlagUpdate DEF connect_handle_returns
  <2> QED
    BY <1>8, <1>a, <1>c, <1>e, <2>1 DEF connect_handle_returns
<1>9. CASE connect_cleanup
  BY <1>9, <1>a, <1>b, <1>c, <1>e DEF connect_cleanup
<1>10. CASE unregister_connect
  <2>1. pc' = pc
    BY <1>10, WrappersKeepPc DEF unregister_connect
  <2>2. FlagsOnly
    BY <1>10, <1>0, FlagUpdate DEF unregister_connect
  <2> QED
    BY <1>10, <1>c, <1>e, <2>1, <2>2 DEF unregister_connect
<1> QED
  BY <1>1, <1>2, <1>3, <1>4, <1>5, <1>6, <1>7, <1>8, <1>9, <1>10
-----------------------------------------------------------------------------
(***************************************************************************)
(* Steps on one stream.                                                    *)
(***************************************************************************)

\* It is enough to look at the one connection that a step touches.
LEMMA OneStream ==
  ASSUME StreamInv, StreamType', InCallback', UserWrites', FdsDiffer',
         NoFdTaken \/ cb.pc # "delete", NEW c \in Conns,
         \A d \in Conns \ {c} : KeepsStream(d),
         \A d \in Conns \ {c} : cb'.pc = "take" /\ cb'.obj = d => conn'[d].node = <<>>,
         \A d \in Conns \ {c} : \A a \in Actors : Writing(a, d) =>
            (cb.pc = "delete" => cb' = cb \/ cb.obj # d),
         \A a \in Actors : Writing(a, c)' => WriterOf(a, c)',
         Flows(c)'
  PROVE  StreamInv'
<1>1. ASSUME NEW d \in Conns, NEW a \in Actors, Writing(a, d)' PROVE WriterOf(a, d)'
  <2>1. CASE d = c
    BY <1>1, <2>1
  <2>2. CASE d # c
    <3>1. KeepsStream(d)
      BY <2>2
    <3>2. Writing(a, d)
      BY <1>1, <3>1 DEF KeepsStream, Writing
    <3>3. CASE cb.pc = "delete" => cb' = cb
      BY <1>1, <3>1, <3>3, KeepsWriter DEF StreamInv
    <3>4. CASE cb.pc = "delete" /\ cb' # cb
      <4>1. cb.obj # d
        BY <2>2, <3>2, <3>4
      <4>2. WriterOf(a, d)
        BY <3>2 DEF StreamInv, WriterShape
      <4>3. call[a].pc = "direct" => call[a].fd = conn[d].fd
        BY <4>1, <4>2 DEF WriterOf
      <4>4. call'[a] = call[a] /\ \A b \in Actors : Writing(b, d)' => Writing(b, d)
        BY <1>1, <3>1 DEF KeepsStream, Writing
      <4>5. conn'[d].mem = conn[d].mem /\ conn'[d].fd = conn[d].fd /\ conn'[d].async = conn[d].async
        BY <3>1 DEF KeepsStream, SameConn
      <4> QED
        BY <4>2, <4>3, <4>4, <4>5 DEF WriterOf
    <3> QED
      BY <3>3, <3>4
  <2> QED
    BY <2>1, <2>2
<1>2. ASSUME NEW d \in Conns, d # c PROVE Flows(d)'
  BY <1>2, KeepsFlow DEF StreamInv
<1> QED
  BY <1>1, <1>2 DEF StreamInv, WriterShape

\* The free actors.
LEMMA FreeActor ==
  ASSUME NEW a \in Actors, Free(a)
  PROVE  call[a] = NoCall /\ call[a].pc \notin DirectPcs
BY NoCallFacts DEF Free

\* send_data with async write: the message joins the queue.
LEMMA SendQueues ==
  ASSUME StreamInv, NEW a \in Actors, NEW c \in Conns, send_data(a, c), conn[c].async,
         "memEnough" \in Habits
  PROVE  StreamInv'
<1> DEFINE m == Message(c, nmsgs + 1)
<1>0. StreamType /\ conn[c] \in ConnRec /\ conn \in [Conns -> ConnRec] /\ nmsgs \in Nat
  BY DEF StreamInv, StreamType
<1>1. m \in Seq(Unit)
  BY <1>0, MessageType DEF send_data
<1>2. /\ conn' = [conn EXCEPT ![c].queue = @ \o m]
      /\ call' = [call EXCEPT ![a].pc = "register", ![a].obj = c]
      /\ given' = [given EXCEPT ![c] = @ \o m]
      /\ nmsgs' = nmsgs + 1
      /\ UNCHANGED <<cb, cli, wire>> /\ pc' = pc
      /\ conn[c].mem = "live"
  BY DEF send_data, vars
<1> HIDE DEF m
<1>3. CallsKept
  BY <1>0, <1>2, FreeActor, CallUpdate DEF send_data, DirectPcs
<1>4. PICK r \in ConnRec : r = conn[c]
  BY <1>0
<1>5. /\ r.queue \in Seq(Unit) /\ r.node \in Seq(Unit) /\ r.queue \o m \in Seq(Unit)
      /\ wire[c] \in Seq(Unit) /\ given[c] \in Seq(Unit)
  BY <1>0, <1>1, ConcatProperties DEF ConnRec, StreamType
<1>6. PICK q \in ConnRec : q = [r EXCEPT !.queue = r.queue \o m]
  BY <1>5 DEF ConnRec
<1>7. conn' = [conn EXCEPT ![c] = q]
  BY <1>2, <1>4, <1>6
<1>8. /\ conn' \in [Conns -> ConnRec]
      /\ conn'[c] = q
      /\ \A d \in Conns \ {c} : conn'[d] = conn[d]
  BY <1>0, <1>7
<1>9. /\ q.mem = r.mem /\ q.fd = r.fd /\ q.async = r.async /\ q.failed = r.failed
      /\ q.dead = r.dead /\ q.node = r.node /\ q.queue = r.queue \o m
  BY <1>6 DEF ConnRec
<1>10. /\ given' \in [Conns -> Seq(Unit)]
       /\ given'[c] = given[c] \o m
       /\ \A d \in Conns \ {c} : given'[d] = given[d]
  BY <1>0, <1>1, <1>2, <1>5, ConcatProperties DEF StreamType
<1>11. StreamType'
  BY <1>0, <1>2, <1>3, <1>8, <1>10 DEF StreamType, CallsKept, CallsTyped
<1>12. InCallback'
  BY <1>2 DEF InCallback, StreamInv
<1>13. UserWrites'
  BY <1>2, <1>3, LoopsFacts DEF UserWrites, UserCode, StreamInv, CallsKept, Actors
<1>14. NoFdTaken
  BY <1>4, <1>8, <1>9 DEF NoFdTaken
<1>15. FdsDiffer'
  <2>1. CliKept
    BY <1>2, <1>0 DEF CliKept, StreamInv, StreamType, FdsDiffer
  <2> QED
    BY <2>1, <1>14, KeepsFds DEF StreamInv
<1>16. \A d \in Conns \ {c} : KeepsStream(d)
  BY <1>2, <1>3, <1>8, <1>10 DEF KeepsStream, SameConn, CallsKept, Writing
<1>17. \A b \in Actors : Writing(b, c)' => Writing(b, c)
  BY <1>3 DEF CallsKept, Writing
<1>18. \A b \in Actors : ~Writing(b, c)'
  BY <1>17 DEF StreamInv, WriterShape, WriterOf
<1>19. Flows(c)
  BY DEF StreamInv
<1>20. Flows(c)'
  <2>1. Joined(wire[c], r.node, r.queue, given[c]) /\ Begins(wire[c], given[c])
    BY <1>4, <1>19 DEF Flows
  <2>2. Joined(wire[c], r.node, r.queue \o m, given[c] \o m)
    BY <1>1, <1>5, <2>1, QueueGrows
  <2>3. Begins(wire[c], given[c] \o m)
    BY <1>1, <1>5, <2>1, BeginsFacts
  <2>4. cb.pc = "take" /\ cb.obj = c => r.node = <<>>
    BY <1>4, <1>19 DEF Flows
  <2>5. r.failed => r.dead
    BY <1>4, <1>19 DEF Flows
  <2> QED
    BY <1>2, <1>4, <1>8, <1>9, <1>10, <2>2, <2>3, <2>4, <2>5 DEF Flows, None
<1>21. \A d \in Conns \ {c} : cb'.pc = "take" /\ cb'.obj = d => conn'[d].node = <<>>
  BY <1>2, <1>8 DEF StreamInv, Flows
<1> QED
  BY <1>2, <1>11, <1>12, <1>13, <1>14, <1>15, <1>16, <1>18, <1>20, <1>21, OneStream

\* A thread's step that leaves the loop, its callback and the descriptors alone.
ThreadOnly ==
    /\ UNCHANGED <<pc, cb, cli>>
    /\ NoFdTaken
    /\ call'[0].pc \in DirectPcs => UserCode

LEMMA ThreadFacts ==
  ASSUME StreamInv, ThreadOnly
  PROVE  InCallback' /\ UserWrites' /\ FdsDiffer' /\ (cb.pc = "delete" => cb' = cb)
<1>1. CliKept
  BY DEF ThreadOnly, CliKept, StreamInv, StreamType, FdsDiffer
<1>2. FdsDiffer'
  BY <1>1, KeepsFds DEF ThreadOnly, StreamInv
<1>3. InCallback'
  BY DEF ThreadOnly, InCallback, StreamInv
<1>4. UserWrites'
  BY DEF ThreadOnly, UserWrites, UserCode
<1> QED
  BY <1>2, <1>3, <1>4 DEF ThreadOnly

\* send_data without async write: the message is in the hands of the writer.
LEMMA SendDirect ==
  ASSUME StreamInv, NEW a \in Actors, NEW c \in Conns, send_data(a, c), ~conn[c].async,
         "oneWriter" \in Habits
  PROVE  StreamInv'
<1> DEFINE m == Message(c, nmsgs + 1)
<1>0. StreamType /\ conn \in [Conns -> ConnRec] /\ nmsgs \in Nat
  BY DEF StreamInv, StreamType
<1>1. m \in Seq(Unit)
  BY <1>0, MessageType DEF send_data
<1>2. /\ call' = [call EXCEPT ![a] = [pc |-> "directfd", obj |-> c, data |-> m, fd |-> NoFd]]
      /\ given' = [given EXCEPT ![c] = @ \o m]
      /\ nmsgs' = nmsgs + 1
      /\ UNCHANGED <<conn, cb, cli, wire>> /\ pc' = pc
      /\ conn[c].mem = "live"
  BY DEF send_data, vars
<1> HIDE DEF m
<1>3. PICK q : q = [pc |-> "directfd", obj |-> c, data |-> m, fd |-> NoFd]
  OBVIOUS
<1>4. IsCall(q) /\ q.pc = "directfd" /\ q.obj = c /\ q.data = m
  BY <1>1, <1>3 DEF IsCall
<1>5. CallsTyped /\ call'[a] = q /\ \A b \in Actors : b # a => call'[b] = call[b]
  BY <1>0, <1>2, <1>3, <1>4, CallAt
<1>6. call[a].pc \notin DirectPcs /\ (a = 0 => UserCode)
  <2>1. 0 \notin Clients
    BY ActorsAssumption, LoopsFacts
  <2> QED
    BY <2>1, FreeActor DEF send_data, Free
<1>7. \A b \in Actors : ~Writing(b, c)
  BY DEF send_data, MaySend, Inside, Writing
<1>8. \A b \in Actors : Writing(b, c)' <=> b = a
  BY <1>4, <1>5, <1>7 DEF Writing, DirectPcs
<1>9. /\ wire[c] \in Seq(Unit) /\ given[c] \in Seq(Unit) /\ given[c] \o m \in Seq(Unit)
  BY <1>0, <1>1, ConcatProperties DEF StreamType
<1>10. /\ given' \in [Conns -> Seq(Unit)]
       /\ given'[c] = given[c] \o m
       /\ \A d \in Conns \ {c} : given'[d] = given[d]
  BY <1>0, <1>2, <1>9 DEF StreamType
<1>11. StreamType'
  BY <1>0, <1>2, <1>5, <1>10 DEF StreamType, CallsTyped
<1>12. ThreadOnly
  <2>1. call'[0].pc \in DirectPcs => UserCode
    BY <1>5, <1>6, LoopsFacts DEF StreamInv, UserWrites, Actors
  <2> QED
    BY <1>2, <2>1 DEF ThreadOnly, NoFdTaken
<1>13. \A d \in Conns \ {c} : KeepsStream(d)
  BY <1>2, <1>4, <1>5, <1>6, <1>10 DEF KeepsStream, SameConn, Writing
<1>14. Flows(c)
  BY DEF StreamInv
<1>15. Flows(c)'
  <2>1. Begins(wire[c], given[c] \o m)
    BY <1>1, <1>9, <1>14, BeginsFacts DEF Flows
  <2>2. ~conn[c].dead /\ conn[c].fd # NoFd => LeftOver(wire[c], m, given[c] \o m)
    BY <1>1, <1>7, <1>9, <1>14, BeginsFacts DEF Flows
  <2>3. \A b \in Actors : Writing(b, c)' => call'[b].data = m
    BY <1>4, <1>5, <1>8
  <2>4. Writing(a, c)'
    BY <1>8
  <2>5. ~conn[c].dead /\ conn[c].fd # NoFd =>
           \A b \in Actors : Writing(b, c)' => LeftOver(wire[c], call'[b].data, given[c] \o m)
    BY <2>2, <2>3
  <2>6. ~(\A b \in Actors : ~Writing(b, c)')
    BY <2>4
  <2> QED
    BY <1>2, <1>10, <1>14, <2>1, <2>5, <2>6 DEF Flows, None
<1>16. \A b \in Actors : Writing(b, c)' => WriterOf(b, c)'
  BY <1>2, <1>4, <1>5, <1>8 DEF WriterOf
<1>17. \A d \in Conns : cb'.pc = "take" /\ cb'.obj = d => conn'[d].node = <<>>
  BY <1>2 DEF StreamInv, Flows
<1> QED
  BY <1>11, <1>12, <1>13, <1>15, <1>16, <1>17, ThreadFacts, OneStream DEF ThreadOnly

\* The writer copies m_fd.
LEMMA DirectFdStep ==
  ASSUME StreamInv, NEW a \in Actors, direct_fd(a)
  PROVE  StreamInv'
<1>0. StreamType /\ IsCall(call[a])
  BY DEF StreamInv, StreamType
<1>1. PICK c \in Conns : c = call[a].obj /\ Writing(a, c)
  BY <1>0 DEF IsCall, direct_fd, DirectPcs, Writing
<1>2. PICK r : r = call[a]
  OBVIOUS
<1>3. PICK q : q = [r EXCEPT !.pc = "direct", !.fd = conn[c].fd]
  OBVIOUS
<1>4. IsCall(q) /\ q.pc = "direct" /\ q.obj = c /\ q.data = call[a].data /\ q.fd = conn[c].fd
  BY <1>0, <1>1, <1>2, <1>3 DEF IsCall
<1>5. call' = [call EXCEPT ![a] = q]
  <2>1. call' = [call EXCEPT ![a].pc = "direct", ![a].fd = conn[c].fd]
    BY <1>1 DEF direct_fd
  <2>2. call' = [b \in Actors |-> IF b = a THEN q ELSE call[b]]
    BY <1>0, <1>2, <1>3, <2>1 DEF StreamType
  <2> QED
    BY <1>0, <2>2 DEF StreamType
<1>6. CallsTyped /\ call'[a] = q /\ \A b \in Actors : b # a => call'[b] = call[b]
  BY <1>0, <1>4, <1>5, CallAt
<1>7. pc' = pc /\ UNCHANGED <<conn, cb, cli, wire, given, nmsgs>>
  BY DEF direct_fd, vars
<1>8. StreamType'
  BY <1>0, <1>6, <1>7 DEF StreamType, CallsTyped
<1>9. ThreadOnly
  <2>1. call'[0].pc \in DirectPcs => UserCode
    BY <1>1, <1>6, LoopsFacts DEF StreamInv, UserWrites, Actors, Writing
  <2> QED
    BY <1>7, <2>1 DEF ThreadOnly, NoFdTaken
<1>10. \A d \in Conns \ {c} : KeepsStream(d)
  BY <1>1, <1>4, <1>6, <1>7 DEF KeepsStream, SameConn, Writing
<1>11. \A b \in Actors : Writing(b, c)' <=> Writing(b, c)
  BY <1>1, <1>4, <1>6 DEF Writing, DirectPcs
<1>12. \A b \in Actors : call'[b].data = call[b].data
  BY <1>4, <1>6
<1>13. Flows(c)'
  <2>1. Flows(c)
    BY DEF StreamInv
  <2>2. (\A b \in Actors : ~Writing(b, c)') <=> (\A b \in Actors : ~Writing(b, c))
    BY <1>11
  <2>3. \A b \in Actors : LeftOver(wire[c], call[b].data, given[c]) =>
                          LeftOver(wire[c], call'[b].data, given[c])
    BY <1>12
  <2>4. ~conn[c].async /\ ~conn[c].dead /\ conn[c].fd # NoFd =>
          /\ (\A b \in Actors : ~Writing(b, c)') => wire[c] = given[c]
          /\ \A b \in Actors : Writing(b, c)' => LeftOver(wire[c], call'[b].data, given[c])
    BY <1>11, <2>1, <2>2, <2>3 DEF Flows
  <2> QED
    BY <1>7, <2>1, <2>4 DEF Flows
<1>14. \A b \in Actors : Writing(b, c)' => WriterOf(b, c)'
  <2>1. WriterOf(a, c)
    BY <1>1 DEF StreamInv, WriterShape
  <2>2. \A b \in Actors : Writing(b, c)' => a = b
    BY <1>11, <2>1 DEF WriterOf
  <2>3. WriterOf(a, c)'
    BY <1>4, <1>6, <1>7, <2>1, <2>2 DEF WriterOf
  <2> QED
    BY <2>2, <2>3
<1>15. \A d \in Conns : cb'.pc = "take" /\ cb'.obj = d => conn'[d].node = <<>>
  BY <1>7 DEF StreamInv, Flows
<1> QED
  BY <1>8, <1>9, <1>10, <1>13, <1>14, <1>15, ThreadFacts, OneStream DEF ThreadOnly

\* The connections that a writer's bytes can reach: its own or none.
LEMMA WriterReaches ==
  ASSUME StreamInv, NEW a \in Actors, NEW c \in Conns, Writing(a, c),
         call[a].pc = "direct", NEW d \in Conns, conn[d].fd # NoFd, conn[d].fd = call[a].fd
  PROVE  d = c
<1>1. WriterOf(a, c)
  BY DEF StreamInv, WriterShape
<1>2. conn[c].fd = conn[d].fd
  BY <1>1 DEF WriterOf
<1> QED
  BY <1>2 DEF StreamInv, FdsDiffer

\* The writer's call goes on with less to send, or ends.
LEMMA WriterMoves ==
  ASSUME StreamInv, NEW a \in Actors, NEW c \in Conns, Writing(a, c),
         NEW q, IsCall(q), call' = [call EXCEPT ![a] = q],
         q = NoCall \/ (q.pc = call[a].pc /\ q.obj = c /\ q.fd = call[a].fd)
  PROVE  /\ CallsTyped /\ call'[a] = q /\ \A b \in Actors : b # a => call'[b] = call[b]
         /\ \A d \in Conns \ {c} : \A b \in Actors :
              Writing(b, d) \/ Writing(b, d)' => call'[b] = call[b]
         /\ \A b \in Actors : Writing(b, c)' => b = a /\ q # NoCall
         /\ call'[0].pc \in DirectPcs => UserCode
<1>1. CallsTyped /\ call'[a] = q /\ \A b \in Actors : b # a => call'[b] = call[b]
  BY CallAt DEF StreamInv, StreamType
<1>2. WriterOf(a, c)
  BY DEF StreamInv, WriterShape
<1>3. \A b \in Actors : Writing(b, c) => a = b
  BY <1>2 DEF WriterOf
<1>4. \A b \in Actors : Writing(b, c)' => b = a /\ q # NoCall
  BY <1>1, <1>3, NoCallFacts DEF Writing
<1>5. \A d \in Conns \ {c} : \A b \in Actors :
         Writing(b, d) \/ Writing(b, d)' => call'[b] = call[b]
  BY <1>1, NoCallFacts DEF Writing
<1>6. call'[0].pc \in DirectPcs => UserCode
  BY <1>1, NoCallFacts, LoopsFacts DEF StreamInv, UserWrites, Actors, Writing
<1> QED
  BY <1>1, <1>4, <1>5, <1>6

\* Some of the writer's units go out.
LEMMA DirectSends ==
  ASSUME StreamInv, NEW a \in Actors, NEW c \in Conns, Writing(a, c),
         call[a].pc = "direct", conn[c].fd # NoFd, conn[c].fd = call[a].fd, ~conn[c].dead,
         NEW n \in 1 .. Len(call[a].data),
         wire' = [wire EXCEPT ![c] = @ \o SubSeq(call[a].data, 1, n)],
         IF n = Len(call[a].data) THEN Return2(a)
         ELSE call' = [call EXCEPT ![a].data = SubSeq(@, n + 1, Len(@))],
         UNCHANGED <<pc, conn, cb, cli, given, nmsgs>>
  PROVE  StreamInv'
<1>0. StreamType /\ IsCall(call[a])
  BY DEF StreamInv, StreamType
<1>1. WriterOf(a, c) /\ Flows(c)
  BY DEF StreamInv, WriterShape
<1>2. PICK x \in Seq(Unit) : x = call[a].data
  BY <1>0 DEF IsCall
<1>3. n \in 0 .. Len(x) /\ SubSeq(x, 1, n) \in Seq(Unit) /\ SubSeq(x, n + 1, Len(x)) \in Seq(Unit)
  <2>1. n \in 0 .. Len(x)
    BY <1>2, LenProperties
  <2> QED
    BY <2>1, CutConcat
<1>4. PICK out \in Seq(Unit), left \in Seq(Unit) :
         out = SubSeq(x, 1, n) /\ left = SubSeq(x, n + 1, Len(x))
  BY <1>3
<1>5. PICK w \in Seq(Unit), g \in Seq(Unit) : w = wire[c] /\ g = given[c]
  BY <1>0 DEF StreamType
<1>6. LeftOver(w, x, g)
  BY <1>1, <1>2, <1>5 DEF Flows, WriterOf
<1>7. /\ LeftOver(w \o out, left, g) /\ Begins(w \o out, g)
      /\ n = Len(x) => w \o out = g
  BY <1>3, <1>4, <1>6, DataSent
<1>8. PICK v \in Seq(Unit) : v = w \o out
  BY ConcatProperties
<1>9. /\ wire' \in [Conns -> Seq(Unit)] /\ wire'[c] = v
      /\ \A d \in Conns \ {c} : wire'[d] = wire[d]
  BY <1>0, <1>2, <1>4, <1>5, <1>8 DEF StreamType
<1>10. PICK q : /\ IsCall(q) /\ call' = [call EXCEPT ![a] = q]
                /\ IF n = Len(x) THEN q = NoCall
                   ELSE q.pc = call[a].pc /\ q.obj = c /\ q.fd = call[a].fd /\ q.data = left
  <2>1. CASE n = Len(x)
    BY <1>2, <2>1, NoCallFacts DEF Return2
  <2>2. CASE n # Len(x)
    <3>1. PICK r : r = call[a]
      OBVIOUS
    <3>2. PICK q : q = [r EXCEPT !.data = left]
      OBVIOUS
    <3>3. call' = [call EXCEPT ![a] = q]
      BY <1>2, <1>4, <2>2, <3>1, <3>2
    <3>4. IsCall(q) /\ q.pc = r.pc /\ q.obj = r.obj /\ q.fd = r.fd /\ q.data = left
      BY <1>0, <3>1, <3>2 DEF IsCall
    <3> QED
      BY <2>2, <3>1, <3>3, <3>4 DEF Writing
  <2> QED
    BY <2>1, <2>2
<1>11. q = NoCall \/ (q.pc = call[a].pc /\ q.obj = c /\ q.fd = call[a].fd)
  BY <1>10
<1>12. /\ CallsTyped /\ call'[a] = q /\ \A b \in Actors : b # a => call'[b] = call[b]
       /\ \A d \in Conns \ {c} : \A b \in Actors :
              Writing(b, d) \/ Writing(b, d)' => call'[b] = call[b]
       /\ \A b \in Actors : Writing(b, c)' => b = a /\ q # NoCall
       /\ call'[0].pc \in DirectPcs => UserCode
  BY <1>10, <1>11, WriterMoves
<1>13. StreamType'
  BY <1>0, <1>9, <1>12 DEF StreamType, CallsTyped
<1>14. ThreadOnly
  BY <1>12 DEF ThreadOnly, NoFdTaken
<1>15. \A d \in Conns \ {c} : KeepsStream(d)
  BY <1>9, <1>12 DEF KeepsStream, SameConn
<1>16. \A b \in Actors : Writing(b, c)' => b = a /\ n # Len(x) /\ call'[b] = q
  BY <1>10, <1>12
<1>17. Flows(c)'
  <2>1. \A b \in Actors : Writing(b, c)' => LeftOver(v, call'[b].data, g)
    BY <1>7, <1>8, <1>10, <1>16
  <2>2. (\A b \in Actors : ~Writing(b, c)') => v = g
    <3>1. ASSUME n # Len(x) PROVE Writing(a, c)'
      BY <1>10, <1>12, <3>1 DEF Writing
    <3> QED
      BY <1>7, <1>8, <3>1
  <2> QED
    BY <1>1, <1>5, <1>7, <1>8, <1>9, <2>1, <2>2 DEF Flows, WriterOf, None
<1>18. \A b \in Actors : Writing(b, c)' => WriterOf(b, c)'
  BY <1>1, <1>10, <1>12, <1>16 DEF WriterOf
<1>19. \A d \in Conns : cb'.pc = "take" /\ cb'.obj = d => conn'[d].node = <<>>
  BY DEF StreamInv, Flows
<1> QED
  BY <1>13, <1>14, <1>15, <1>17, <1>18, <1>19, ThreadFacts, OneStream DEF ThreadOnly

\* The write fails: the connection is dead, or was closed before.
LEMMA DirectFails ==
  ASSUME StreamInv, NEW a \in Actors, NEW c \in Conns, Writing(a, c), call[a].pc = "direct",
         Return2(a), NEW to \in SUBSET Conns,
         \A d \in Conns : d \in to <=> conn[d].fd # NoFd /\ conn[d].fd = call[a].fd /\ ~conn[d].dead,
         conn' = [d \in Conns |-> IF d \in to THEN [conn[d] EXCEPT !.dead = TRUE] ELSE conn[d]],
         UNCHANGED <<pc, wire, cb, cli, given, nmsgs>>
  PROVE  StreamInv'
<1>0. StreamType /\ conn \in [Conns -> ConnRec]
  BY DEF StreamInv, StreamType
<1>1. WriterOf(a, c) /\ Flows(c)
  BY DEF StreamInv, WriterShape
<1>2. \A d \in to : d = c
  BY WriterReaches
<1>3. PICK r \in ConnRec : r = conn[c]
  BY <1>0
<1>4. PICK q \in ConnRec : q = [r EXCEPT !.dead = TRUE]
  BY DEF ConnRec
<1>5. /\ q.mem = r.mem /\ q.fd = r.fd /\ q.async = r.async /\ q.failed = r.failed
      /\ q.dead = TRUE /\ q.node = r.node /\ q.queue = r.queue
  BY <1>4 DEF ConnRec
<1>6. /\ \A d \in Conns \ {c} : conn'[d] = conn[d]
      /\ conn'[c] = IF c \in to THEN q ELSE r
  BY <1>2, <1>3, <1>4
<1>7. conn' \in [Conns -> ConnRec]
  BY <1>0, <1>2, <1>3, <1>4
<1>8. call' = [call EXCEPT ![a] = NoCall] /\ IsCall(NoCall)
  BY NoCallFacts DEF Return2
<1>9. /\ CallsTyped
      /\ \A d \in Conns \ {c} : \A b \in Actors :
            Writing(b, d) \/ Writing(b, d)' => call'[b] = call[b]
      /\ \A b \in Actors : ~Writing(b, c)'
      /\ call'[0].pc \in DirectPcs => UserCode
  BY <1>8, WriterMoves
<1>10. StreamType'
  BY <1>0, <1>7, <1>9 DEF StreamType, CallsTyped
<1>11. ThreadOnly
  BY <1>3, <1>5, <1>6, <1>9 DEF ThreadOnly, NoFdTaken
<1>12. \A d \in Conns \ {c} : KeepsStream(d)
  BY <1>6, <1>9 DEF KeepsStream, SameConn
<1>13. conn'[c].fd = NoFd \/ conn'[c].dead
  <2>1. CASE conn[c].fd = call[a].fd
    BY <1>3, <1>5, <1>6, <2>1
  <2>2. CASE conn[c].fd # call[a].fd
    BY <1>1, <1>3, <1>5, <1>6, <2>2 DEF WriterOf
  <2> QED
    BY <2>1, <2>2
<1>14. /\ conn'[c].mem = conn[c].mem /\ conn'[c].async = conn[c].async
       /\ conn'[c].failed = conn[c].failed /\ (conn[c].dead => conn'[c].dead)
       /\ conn'[c].node = conn[c].node /\ conn'[c].queue = conn[c].queue
  BY <1>3, <1>5, <1>6
<1>15. Flows(c)'
  BY <1>1, <1>13, <1>14 DEF Flows
<1>16. \A d \in Conns \ {c} : cb'.pc = "take" /\ cb'.obj = d => conn'[d].node = <<>>
  BY <1>6 DEF StreamInv, Flows
<1> QED
  BY <1>9, <1>10, <1>11, <1>12, <1>15, <1>16, ThreadFacts, OneStream DEF ThreadOnly

LEMMA DirectWriteStep ==
  ASSUME StreamInv, NEW a \in Actors, direct_write(a)
  PROVE  StreamInv'
<1>0. StreamType /\ IsCall(call[a])
  BY DEF StreamInv, StreamType
<1>1. PICK c \in Conns : c = call[a].obj /\ Writing(a, c)
  BY <1>0 DEF IsCall, direct_write, DirectPcs, Writing
<1>2. call[a].pc = "direct" /\ UNCHANGED <<pc, cb, cli, given, nmsgs>>
  BY DEF direct_write, vars
<1>3. PICK to \in SUBSET Conns :
         to = {d \in Conns : conn[d].fd # NoFd /\ conn[d].fd = call[a].fd /\ ~conn[d].dead}
  OBVIOUS
<1>4. \/ \E d \in to, n \in 1 .. Len(call[a].data) :
           /\ wire' = [wire EXCEPT ![d] = @ \o SubSeq(call[a].data, 1, n)]
           /\ IF n = Len(call[a].data) THEN Return2(a)
              ELSE call' = [call EXCEPT ![a].data = SubSeq(@, n + 1, Len(@))]
           /\ UNCHANGED conn
      \/ /\ Return2(a)
         /\ conn' = [d \in Conns |-> IF d \in to THEN [conn[d] EXCEPT !.dead = TRUE] ELSE conn[d]]
         /\ UNCHANGED wire
  BY <1>3 DEF direct_write
<1>5. \A d \in Conns : d \in to <=> conn[d].fd # NoFd /\ conn[d].fd = call[a].fd /\ ~conn[d].dead
  BY <1>3
<1>6. ASSUME NEW d \in to, NEW n \in 1 .. Len(call[a].data),
             wire' = [wire EXCEPT ![d] = @ \o SubSeq(call[a].data, 1, n)],
             IF n = Len(call[a].data) THEN Return2(a)
             ELSE call' = [call EXCEPT ![a].data = SubSeq(@, n + 1, Len(@))],
             UNCHANGED conn
      PROVE  StreamInv'
  <2>1. d = c /\ conn[c].fd # NoFd /\ conn[c].fd = call[a].fd /\ ~conn[c].dead
    BY <1>1, <1>2, <1>5, WriterReaches
  <2> QED
    BY <1>1, <1>2, <1>6, <2>1, DirectSends
<1>7. CASE /\ Return2(a)
           /\ conn' = [d \in Conns |-> IF d \in to THEN [conn[d] EXCEPT !.dead = TRUE] ELSE conn[d]]
           /\ UNCHANGED wire
  BY <1>1, <1>2, <1>5, <1>7, DirectFails
<1> QED
  BY <1>4, <1>6, <1>7

\* The loop, in a callback, changes connection c to q.
LEMMA LoopOne ==
  ASSUME StreamInv, NEW c \in Conns, NEW q \in ConnRec, conn' = [conn EXCEPT ![c] = q],
         q.fd = conn[c].fd \/ q.fd = NoFd,
         wire' \in [Conns -> Seq(Unit)], \A d \in Conns \ {c} : wire'[d] = wire[d],
         UNCHANGED <<call, cli, given, nmsgs>>, pc' \in [Loops -> Pcs],
         cb' = [pc |-> cb'.pc, obj |-> cb'.obj], InCallback', call[0].pc \notin DirectPcs,
         cb'.pc = "take" => cb'.obj = c, cb.pc = "delete" => cb.obj = c,
         \A a \in Actors : Writing(a, c) => WriterOf(a, c)',
         Flows(c)'
  PROVE  StreamInv'
<1>0. StreamType /\ conn \in [Conns -> ConnRec]
  BY DEF StreamInv, StreamType
<1>1. /\ conn' \in [Conns -> ConnRec] /\ conn'[c] = q
      /\ \A d \in Conns \ {c} : conn'[d] = conn[d]
  BY <1>0
<1>2. StreamType'
  BY <1>0, <1>1 DEF StreamType
<1>3. NoFdTaken /\ CliKept
  BY <1>0, <1>1 DEF NoFdTaken, CliKept, StreamInv, StreamType, FdsDiffer
<1>4. FdsDiffer' /\ UserWrites'
  BY <1>3, KeepsFds DEF StreamInv, UserWrites
<1>5. \A a \in Actors, d \in Conns : Writing(a, d)' <=> Writing(a, d)
  BY DEF Writing
<1>6. \A d \in Conns \ {c} : KeepsStream(d)
  BY <1>1 DEF KeepsStream, SameConn
<1> QED
  BY <1>1, <1>2, <1>3, <1>4, <1>5, <1>6, OneStream

\* Where the steps of the send callback leave the loop.
LEMMA SendCbFacts ==
  ASSUME StreamInv, cb.pc \in {"take", "sendbuf"}, NEW p, CbGoto(p),
         p \in {"take", "sendbuf", "done", "again", "fail"}, UNCHANGED vars
  PROVE  /\ pc' \in [Loops -> Pcs] /\ cb' = [pc |-> cb'.pc, obj |-> cb'.obj]
         /\ InCallback' /\ call[0].pc \notin DirectPcs
         /\ cb'.obj = cb.obj /\ cb'.pc = p /\ cb.pc # "delete" /\ pc' = pc
<1>1. pc' = pc /\ pc \in [Loops -> Pcs]
  BY DEF vars, StreamInv, StreamType
<1>2. cb'.pc = p /\ cb'.obj = cb.obj /\ cb' = [pc |-> cb'.pc, obj |-> cb'.obj]
  BY CbGotoFacts
<1>3. pc[0] \in CallbackPcs \ {"timers"}
  BY DEF StreamInv, InCallback, None
<1>4. call[0].pc \notin DirectPcs
  BY DEF StreamInv, UserWrites, UserCode, None
<1>5. InCallback'
  BY <1>1, <1>2, <1>3 DEF InCallback
<1> QED
  BY <1>1, <1>2, <1>4, <1>5

\* A writer of c is not disturbed by what happens to node, queue or wire of c.
LEMMA WriterStays ==
  ASSUME StreamInv, NEW c \in Conns, NEW q \in ConnRec, conn' = [conn EXCEPT ![c] = q],
         q.mem = conn[c].mem, q.fd = conn[c].fd, conn[c].async \/ ~q.async,
         UNCHANGED call, cb.pc # "delete", NEW a \in Actors, Writing(a, c)
  PROVE  WriterOf(a, c)'
<1>0. conn \in [Conns -> ConnRec] /\ WriterOf(a, c)
  BY DEF StreamInv, StreamType, WriterShape
<1>1. conn'[c] = q
  BY <1>0
<1>2. \A b \in Actors : Writing(b, c)' => Writing(b, c)
  BY DEF Writing
<1> QED
  BY <1>0, <1>1, <1>2 DEF WriterOf

LEMMA TakeStep ==
  ASSUME StreamInv, send_handle_take, cb.obj \in Conns
  PROVE  StreamInv'
<1>0. StreamType /\ conn \in [Conns -> ConnRec]
  BY DEF StreamInv, StreamType
<1>1. PICK c \in Conns : c = cb.obj
  OBVIOUS
<1>2. PICK r \in ConnRec : r = conn[c]
  BY <1>0
<1>3. PICK k \in Nat : k = Len(r.queue) /\ r.queue \in Seq(Unit)
  BY LenProperties DEF ConnRec
<1>4. PICK n \in 0 .. k :
        /\ conn' = [conn EXCEPT ![c].node = SubSeq(r.queue, 1, n),
                                ![c].queue = SubSeq(r.queue, n + 1, Len(r.queue))]
        /\ CbGoto(IF n = 0 THEN "done" ELSE "sendbuf")
  <2>1. PICK n : n = IF k < NodeSize THEN k ELSE NodeSize
    OBVIOUS
  <2>2. n \in 0 .. k
    BY <2>1, NodeSizeAssumption
  <2> QED
    BY <1>1, <1>2, <1>3, <2>1, <2>2 DEF send_handle_take
<1>5. SubSeq(r.queue, 1, n) \in Seq(Unit) /\ SubSeq(r.queue, n + 1, Len(r.queue)) \in Seq(Unit)
  BY <1>3, CutConcat
<1>6. PICK x \in Seq(Unit), y \in Seq(Unit) :
         x = SubSeq(r.queue, 1, n) /\ y = SubSeq(r.queue, n + 1, Len(r.queue))
  BY <1>5
<1>7. PICK q \in ConnRec : q = [r EXCEPT !.node = x, !.queue = y]
  BY DEF ConnRec
<1>8. /\ q.mem = r.mem /\ q.fd = r.fd /\ q.async = r.async /\ q.failed = r.failed
      /\ q.dead = r.dead /\ q.node = x /\ q.queue = y
  BY <1>7 DEF ConnRec
<1>9. conn' = [conn EXCEPT ![c] = q] /\ conn'[c] = q
  BY <1>0, <1>2, <1>4, <1>6, <1>7
<1>10. /\ UNCHANGED vars /\ UNCHANGED <<call, cli, wire, given, nmsgs>> /\ cb.pc = "take"
  BY DEF send_handle_take, CbKeeps
<1>11. Flows(c) /\ r.node = <<>>
  BY <1>1, <1>2, <1>10 DEF StreamInv, Flows
<1>12. \E p \in {"done", "sendbuf"} : CbGoto(p)
  BY <1>4
<1>13. /\ pc' \in [Loops -> Pcs] /\ cb' = [pc |-> cb'.pc, obj |-> cb'.obj]
       /\ InCallback' /\ call[0].pc \notin DirectPcs
       /\ cb'.obj = cb.obj /\ cb'.pc \in {"done", "sendbuf"}
  BY <1>10, <1>12, SendCbFacts
<1>14. PICK w \in Seq(Unit), g \in Seq(Unit) : w = wire[c] /\ g = given[c]
  BY <1>0 DEF StreamType
<1>15. r.async => Joined(w, x, y, g)
  <2>1. r.async => Joined(w, <<>>, r.queue, g)
    BY <1>2, <1>11, <1>14 DEF Flows
  <2> QED
    BY <1>3, <1>6, <2>1, NodeTaken
<1>16. ~r.async => x = <<>> /\ y = <<>>
  <2>1. ~r.async => r.queue = <<>>
    BY <1>2, <1>11 DEF Flows
  <2>2. ~r.async => k = 0 /\ n = 0
    BY <1>3, <1>4, <2>1
  <2> QED
    BY <1>3, <1>6, <2>2, CutConcat
<1>17. \A a \in Actors : Writing(a, c)' <=> Writing(a, c)
  BY <1>10 DEF Writing
<1>18. Flows(c)'
  BY <1>2, <1>8, <1>9, <1>10, <1>11, <1>13, <1>14, <1>15, <1>16, <1>17 DEF Flows
<1>19. \A a \in Actors : Writing(a, c) => WriterOf(a, c)'
  BY <1>2, <1>8, <1>9, <1>10, WriterStays
<1> QED
  BY <1>0, <1>1, <1>2, <1>8, <1>9, <1>10, <1>13, <1>18, <1>19, LoopOne DEF StreamType

\* send_buf_node: n units of the node go out.
LEMMA NodeGoesOut ==
  ASSUME StreamInv, NEW c \in Conns, cb.obj = c, cb.pc = "sendbuf",
         NEW n \in 0 .. Len(conn[c].node),
         wire' = [wire EXCEPT ![c] = @ \o SubSeq(conn[c].node, 1, n)],
         conn' = [conn EXCEPT ![c].node = SubSeq(conn[c].node, n + 1, Len(conn[c].node))],
         CbGoto(IF n = Len(conn[c].node) THEN "take" ELSE "again"),
         UNCHANGED vars, UNCHANGED <<call, cli, given, nmsgs>>
  PROVE  StreamInv'
<1>0. StreamType /\ conn \in [Conns -> ConnRec]
  BY DEF StreamInv, StreamType
<1>1. PICK r \in ConnRec : r = conn[c]
  BY <1>0
<1>2. PICK d \in Seq(Unit) : d = r.node /\ n \in 0 .. Len(d)
  BY <1>1 DEF ConnRec
<1>3. SubSeq(d, 1, n) \in Seq(Unit) /\ SubSeq(d, n + 1, Len(d)) \in Seq(Unit)
  BY <1>2, CutConcat
<1>4. PICK x \in Seq(Unit), y \in Seq(Unit) :
         x = SubSeq(d, 1, n) /\ y = SubSeq(d, n + 1, Len(d))
  BY <1>3
<1>5. PICK q \in ConnRec : q = [r EXCEPT !.node = y]
  BY DEF ConnRec
<1>6. /\ q.mem = r.mem /\ q.fd = r.fd /\ q.async = r.async /\ q.failed = r.failed
      /\ q.dead = r.dead /\ q.node = y /\ q.queue = r.queue
  BY <1>5 DEF ConnRec
<1>7. conn' = [conn EXCEPT ![c] = q] /\ conn'[c] = q
  BY <1>0, <1>1, <1>2, <1>4, <1>5
<1>8. Flows(c)
  BY DEF StreamInv
<1>9. \E p \in {"take", "again"} : CbGoto(p) /\ (p = "take" => n = Len(d))
  BY <1>1, <1>2
<1>10. /\ pc' \in [Loops -> Pcs] /\ cb' = [pc |-> cb'.pc, obj |-> cb'.obj]
       /\ InCallback' /\ call[0].pc \notin DirectPcs
       /\ cb'.obj = c /\ (cb'.pc = "take" => n = Len(d))
  BY <1>9, SendCbFacts
<1>11. PICK w \in Seq(Unit), g \in Seq(Unit) : w = wire[c] /\ g = given[c]
  BY <1>0 DEF StreamType
<1>12. PICK v \in Seq(Unit) : v = w \o x
  BY ConcatProperties
<1>13. /\ wire' \in [Conns -> Seq(Unit)] /\ wire'[c] = v
       /\ \A e \in Conns \ {c} : wire'[e] = wire[e]
  BY <1>0, <1>1, <1>2, <1>4, <1>11, <1>12 DEF StreamType
<1>14. r.async => Joined(v, y, r.queue, g) /\ Begins(v, g)
  <2>1. r.queue \in Seq(Unit)
    BY DEF ConnRec
  <2>2. r.async => Joined(w, d, r.queue, g)
    BY <1>1, <1>2, <1>8, <1>11 DEF Flows
  <2>3. r.async => Joined(v, y, r.queue, g)
    BY <1>2, <1>4, <1>12, <2>1, <2>2, NodeSent
  <2> QED
    BY <2>1, <2>3, BeginsFacts
<1>15. ~r.async => v = w /\ y = <<>>
  <2>1. ~r.async => d = <<>>
    BY <1>1, <1>2, <1>8 DEF Flows
  <2>2. ~r.async => Len(d) = 0 /\ n = 0
    BY <1>2, <2>1
  <2>3. ~r.async => x = <<>> /\ y = <<>>
    BY <1>2, <1>4, <2>2, CutConcat
  <2> QED
    BY <1>12, <2>3, ConcatEmptySeq
<1>16. n = Len(d) => y = <<>>
  BY <1>2, <1>4, CutConcat
<1>17. \A a \in Actors : Writing(a, c)' <=> Writing(a, c)
  BY DEF Writing
<1>18. Flows(c)'
  <2>1. CASE r.async
    <3>1. r.mem = None => FALSE
      BY <1>1, <1>8, <2>1 DEF Flows
    <3> QED
      BY <1>1, <1>6, <1>7, <1>8, <1>10, <1>11, <1>13, <1>14, <1>16, <2>1, <3>1 DEF Flows
  <2>2. CASE ~r.async
    BY <1>1, <1>6, <1>7, <1>8, <1>10, <1>11, <1>13, <1>15, <1>16, <1>17, <2>2 DEF Flows
  <2> QED
    BY <2>1, <2>2
<1>19. ASSUME NEW a \in Actors, Writing(a, c) PROVE WriterOf(a, c)'
  <2>1. q.mem = conn[c].mem /\ q.fd = conn[c].fd /\ (conn[c].async \/ ~q.async)
    BY <1>1, <1>6
  <2>2. call' = call /\ cb.pc # "delete"
    OBVIOUS
  <2> QED
    BY <1>7, <1>19, <2>1, <2>2, WriterStays
<1>20. /\ q.fd = conn[c].fd /\ (cb'.pc = "take" => cb'.obj = c)
       /\ cb.pc = "delete" => cb.obj = c
  BY <1>1, <1>6, <1>10
<1> QED
  BY <1>7, <1>10, <1>13, <1>18, <1>19, <1>20, LoopOne

\* send_buf_node: the write fails, and the connection is dead.
LEMMA NodeFails ==
  ASSUME StreamInv, NEW c \in Conns, cb.obj = c, cb.pc = "sendbuf",
         conn' = [conn EXCEPT ![c].failed = TRUE, ![c].dead = TRUE], CbGoto("fail"),
         UNCHANGED vars, UNCHANGED <<call, cli, wire, given, nmsgs>>
  PROVE  StreamInv'
<1>0. StreamType /\ conn \in [Conns -> ConnRec]
  BY DEF StreamInv, StreamType
<1>1. PICK r \in ConnRec : r = conn[c]
  BY <1>0
<1>2. PICK q \in ConnRec : q = [r EXCEPT !.failed = TRUE, !.dead = TRUE]
  BY DEF ConnRec
<1>3. /\ q.mem = r.mem /\ q.fd = r.fd /\ q.async = r.async
      /\ q.dead = TRUE /\ q.node = r.node /\ q.queue = r.queue
  BY <1>2 DEF ConnRec
<1>4. conn' = [conn EXCEPT ![c] = q] /\ conn'[c] = q
  BY <1>0, <1>1, <1>2
<1>5. /\ pc' \in [Loops -> Pcs] /\ cb' = [pc |-> cb'.pc, obj |-> cb'.obj]
      /\ InCallback' /\ call[0].pc \notin DirectPcs /\ cb'.pc = "fail"
  BY SendCbFacts
<1>6. Flows(c)'
  <2>1. Flows(c)
    BY DEF StreamInv
  <2> QED
    BY <1>1, <1>3, <1>4, <1>5, <2>1 DEF Flows
<1>7. \A a \in Actors : Writing(a, c) => WriterOf(a, c)'
  BY <1>1, <1>3, <1>4, WriterStays
<1>8. q.fd = conn[c].fd /\ wire' \in [Conns -> Seq(Unit)]
  BY <1>0, <1>1, <1>3 DEF StreamType
<1> QED
  BY <1>4, <1>5, <1>6, <1>7, <1>8, LoopOne

\* A callback of something that is no connection changes no connection.
LEMMA ForeignCallback ==
  ASSUME StreamInv, cb.pc \in {"take", "sendbuf"}, cb.obj \notin Conns,
         UNCHANGED <<conn, call, cli, wire, given, nmsgs>>, UNCHANGED vars,
         NEW p, CbGoto(p), p \in {"take", "sendbuf", "done", "again", "fail"}
  PROVE  StreamInv'
<1>1. /\ pc' \in [Loops -> Pcs] /\ cb' = [pc |-> cb'.pc, obj |-> cb'.obj] /\ InCallback'
      /\ call[0].pc \notin DirectPcs /\ cb'.obj = cb.obj /\ cb.pc # "delete" /\ cb'.pc = p
  BY SendCbFacts
<1>2. conn \in [Conns -> ConnRec] /\ StreamType
  BY DEF StreamInv, StreamType
<1>3. Quiet
  BY <1>2, FlagUpdate DEF Quiet, CallsKept, CallsTyped, StreamType
<1>4. CliKept
  BY DEF CliKept, StreamInv, StreamType, FdsDiffer
<1>5. CbKept
  BY <1>1 DEF CbKept
<1> QED
  BY <1>3, <1>4, <1>5, QuietStep

LEMMA SendCbStep ==
  ASSUME StreamInv, send_handle_take \/ send_buf_node
  PROVE  StreamInv'
<1>0. StreamType /\ conn \in [Conns -> ConnRec] /\ wire \in [Conns -> Seq(Unit)]
  BY DEF StreamInv, StreamType
<1>1. CASE send_handle_take /\ cb.obj \in Conns
  BY <1>1, TakeStep
<1>2. CASE send_handle_take /\ cb.obj \notin Conns
  <2>1. conn' = conn /\ UNCHANGED vars /\ UNCHANGED <<call, cli, wire, given, nmsgs>> /\ cb.pc = "take"
    BY <1>0, <1>2 DEF send_handle_take, CbKeeps
  <2>2. \E p \in {"done", "sendbuf"} : CbGoto(p)
    BY <1>2 DEF send_handle_take
  <2> QED
    BY <1>2, <2>1, <2>2, ForeignCallback
<1>3. CASE send_buf_node /\ cb.obj \in Conns
  <2>1. UNCHANGED vars /\ UNCHANGED <<call, cli, given, nmsgs>> /\ cb.pc = "sendbuf"
    BY <1>3 DEF send_buf_node
  <2>2. PICK c \in Conns : cb.obj = c
    BY <1>3
  <2>3. \/ \E n \in 0 .. Len(conn[c].node) :
             /\ wire' = [wire EXCEPT ![c] = @ \o SubSeq(conn[c].node, 1, n)]
             /\ conn' = [conn EXCEPT ![c].node = SubSeq(conn[c].node, n + 1, Len(conn[c].node))]
             /\ CbGoto(IF n = Len(conn[c].node) THEN "take" ELSE "again")
        \/ /\ conn' = [conn EXCEPT ![c].failed = TRUE, ![c].dead = TRUE]
           /\ CbGoto("fail") /\ UNCHANGED wire
    BY <1>3, <2>2 DEF send_buf_node
  <2> QED
    BY <2>1, <2>2, <2>3, NodeGoesOut, NodeFails
<1>4. CASE send_buf_node /\ cb.obj \notin Conns
  <2>1. conn' = conn /\ wire' = wire
    <3>1. PICK y, z : /\ conn' = [conn EXCEPT ![cb.obj] = z]
                      /\ wire' = [wire EXCEPT ![cb.obj] = y] \/ wire' = wire
      BY <1>4 DEF send_buf_node
    <3>2. conn' = conn
      BY <1>0, <1>4, <3>1
    <3>3. wire' = wire
      BY <1>0, <1>4, <3>1
    <3> QED
      BY <3>2, <3>3
  <2>2. UNCHANGED vars /\ UNCHANGED <<call, cli, given, nmsgs>> /\ cb.pc = "sendbuf"
    BY <1>4 DEF send_buf_node
  <2>3. \E p \in {"take", "again", "fail"} : CbGoto(p)
    BY <1>4 DEF send_buf_node
  <2> QED
    BY <1>4, <2>1, <2>2, <2>3, ForeignCallback
<1> QED
  BY <1>1, <1>2, <1>3, <1>4

\* free_async_write_resource: the rest is written, or the connection is dead.
LEMMA FlushStep ==
  ASSUME StreamInv, free_async_write_resource
  PROVE  StreamInv'
<1>0. StreamType /\ conn \in [Conns -> ConnRec]
  BY DEF StreamInv, StreamType
<1>1. PICK c \in Conns : c = bind[First(dels[0])].obj
  BY DEF free_async_write_resource
<1>2. PICK r \in ConnRec : r = conn[c]
  BY <1>0
<1>3. PICK left \in Seq(Unit) : left = r.node \o r.queue
  BY ConcatProperties DEF ConnRec
<1>4. PICK k \in Nat : k = Len(left)
  BY LenProperties
<1>a. PICK n \in IF (r.async /\ ~r.failed) /\ ~r.dead THEN 0 .. Len(left) ELSE {0} :
        /\ wire' = [wire EXCEPT ![c] = @ \o SubSeq(left, 1, n)]
        /\ conn' = [conn EXCEPT ![c].async = FALSE, ![c].node = <<>>,
                                ![c].queue = <<>>, ![c].dead = @ \/ n < Len(left)]
  BY <1>1, <1>2, <1>3 DEF free_async_write_resource
<1>5. /\ n \in 0 .. k
      /\ n = 0 \/ (r.async /\ ~r.failed /\ ~r.dead)
      /\ wire' = [wire EXCEPT ![c] = @ \o SubSeq(left, 1, n)]
      /\ conn' = [conn EXCEPT ![c].async = FALSE, ![c].node = <<>>,
                              ![c].queue = <<>>, ![c].dead = @ \/ n < k]
  BY <1>4, <1>a
<1>6. /\ UNCHANGED vars /\ UNCHANGED <<call, cli, given, nmsgs>>
      /\ cb.pc = None /\ pc[0] \in FreePcs /\ cb' = [pc |-> "close", obj |-> c]
  BY <1>1 DEF free_async_write_resource
<1>7. PICK b \in BOOLEAN : b = (r.dead \/ n < k)
  OBVIOUS
<1>8. PICK q \in ConnRec : q = [r EXCEPT !.async = FALSE, !.node = <<>>, !.queue = <<>>, !.dead = b]
  BY EmptySeq DEF ConnRec
<1>9. /\ q.mem = r.mem /\ q.fd = r.fd /\ q.async = FALSE /\ q.failed = r.failed
      /\ q.dead = b /\ q.node = <<>> /\ q.queue = <<>>
  BY <1>8 DEF ConnRec
<1>10. conn' = [conn EXCEPT ![c] = q] /\ conn'[c] = q
  BY <1>0, <1>2, <1>5, <1>7, <1>8
<1>11. PICK w \in Seq(Unit), g \in Seq(Unit) : w = wire[c] /\ g = given[c]
  BY <1>0 DEF StreamType
<1>12. n \in 0 .. Len(left) /\ SubSeq(left, 1, n) \in Seq(Unit)
  BY <1>4, CutConcat
<1>13. PICK x \in Seq(Unit) : x = SubSeq(left, 1, n)
  BY <1>12
<1>14. PICK v \in Seq(Unit) : v = w \o x
  BY ConcatProperties
<1>15. /\ wire' \in [Conns -> Seq(Unit)] /\ wire'[c] = v
       /\ \A d \in Conns \ {c} : wire'[d] = wire[d]
  BY <1>0, <1>5, <1>11, <1>13, <1>14 DEF StreamType
<1>16. Flows(c) /\ (r.mem = None => ~r.async)
  BY <1>2 DEF StreamInv, Flows
<1>17. ASSUME r.async PROVE Flows(c)'
  <2>1. r.node \in Seq(Unit) /\ r.queue \in Seq(Unit) /\ Joined(w, r.node, r.queue, g)
    BY <1>2, <1>11, <1>16, <1>17 DEF Flows, ConnRec
  <2>2. LeftOver(w, left, g)
    BY <1>3, <2>1, BeginsFacts
  <2>3. Begins(v, g) /\ (n = k => v = g)
    BY <1>4, <1>12, <1>13, <1>14, <2>2, DataSent
  <2>4. ~b => n = k
    <3>1. ~b => ~(n < k)
      BY <1>7
    <3>2. n <= k /\ n \in Nat
      BY <1>5
    <3> QED
      BY <3>1, <3>2
  <2>5. \A a \in Actors : ~Writing(a, c)'
    BY <1>2, <1>6, <1>17 DEF StreamInv, WriterShape, WriterOf, Writing
  <2>6. Flows(c)'
    BY <1>2, <1>6, <1>7, <1>9, <1>10, <1>11, <1>15, <1>16, <1>17, <2>3, <2>4, <2>5 DEF Flows
  <2> QED
    BY <2>6
<1>18. ASSUME ~r.async PROVE Flows(c)'
  <2>1. r.node = <<>> /\ r.queue = <<>>
    BY <1>2, <1>16, <1>18 DEF Flows
  <2>2. left = <<>> /\ k = 0 /\ n = 0
    <3>1. <<>> \in Seq(Unit)
      BY EmptySeq
    <3>2. <<>> \o <<>> = <<>>
      BY <3>1, ConcatEmptySeq
    <3>3. left = <<>>
      BY <1>3, <2>1, <3>2
    <3> QED
      BY <1>4, <1>5, <3>3
  <2>3. x = <<>> /\ v = w
    BY <1>12, <1>13, <1>14, <2>2, CutConcat, ConcatEmptySeq
  <2>4. b = r.dead
    BY <1>7, <2>2 DEF ConnRec
  <2>5. \A a \in Actors : Writing(a, c)' <=> Writing(a, c)
    BY <1>6 DEF Writing
  <2>6. Flows(c)'
    BY <1>2, <1>6, <1>9, <1>10, <1>11, <1>15, <1>16, <1>18, <2>3, <2>4, <2>5 DEF Flows
  <2> QED
    BY <2>6
<1>19. Flows(c)'
  BY <1>17, <1>18
<1>20. \A a \in Actors : Writing(a, c) => WriterOf(a, c)'
  <2>1. q.mem = conn[c].mem /\ q.fd = conn[c].fd /\ (conn[c].async \/ ~q.async)
    BY <1>2, <1>9
  <2> QED
    BY <1>6, <1>10, <2>1, WriterStays DEF None
<1>21. /\ pc' \in [Loops -> Pcs] /\ cb' = [pc |-> cb'.pc, obj |-> cb'.obj] /\ InCallback'
       /\ cb'.pc = "close" /\ cb.pc # "delete" /\ call[0].pc \notin DirectPcs
  <2>1. pc' = pc /\ pc \in [Loops -> Pcs]
    BY <1>0, <1>6 DEF vars, StreamType
  <2>2. call[0].pc \notin DirectPcs
    BY <1>6 DEF StreamInv, UserWrites, UserCode, FreePcs, None
  <2> QED
    BY <1>6, <2>1, <2>2 DEF InCallback, None
<1>22. q.fd = conn[c].fd
  BY <1>2, <1>9
<1> QED
  BY <1>6, <1>10, <1>15, <1>19, <1>20, <1>21, <1>22, LoopOne

\* The close gives the descriptor up; writers keep a number that is nobody's.
LEMMA CloseStep ==
  ASSUME StreamInv, free_close
  PROVE  StreamInv'
<1>0. StreamType /\ conn \in [Conns -> ConnRec] /\ pc \in [Loops -> Pcs]
  BY DEF StreamInv, StreamType
<1>1. PICK c \in Conns : c = cb.obj
  BY DEF free_close, StreamInv, InCallback
<1>2. /\ cb.pc = "close" /\ FreeJob(0) /\ CbGoto("delete")
      /\ UNCHANGED <<call, cli, wire, given, nmsgs>>
      /\ conn' = [conn EXCEPT ![c].fd = NoFd]
  BY <1>1 DEF free_close, CbKeeps
<1>3. PICK r \in ConnRec : r = conn[c]
  BY <1>0
<1>4. PICK q \in ConnRec : q = [r EXCEPT !.fd = NoFd]
  BY DEF ConnRec, FdOrNone
<1>5. /\ q.mem = r.mem /\ q.fd = NoFd /\ q.async = r.async /\ q.failed = r.failed
      /\ q.dead = r.dead /\ q.node = r.node /\ q.queue = r.queue
  BY <1>4 DEF ConnRec
<1>6. conn' = [conn EXCEPT ![c] = q] /\ conn'[c] = q /\ \A d \in Conns \ {c} : conn'[d] = conn[d]
  BY <1>0, <1>2, <1>3, <1>4
<1>7. cb'.pc = "delete" /\ cb'.obj = c /\ cb' = [pc |-> cb'.pc, obj |-> cb'.obj]
  BY <1>1, <1>2, CbGotoFacts
<1>8. pc' \in [Loops -> Pcs] /\ InCallback'
  BY <1>0, <1>2, <1>7, LoopMovesPc DEF InCallback
<1>9. call[0].pc \notin DirectPcs
  BY <1>2 DEF StreamInv, UserWrites, UserCode, None
<1>10. Flows(c)'
  <2>1. Flows(c)
    BY DEF StreamInv
  <2> QED
    BY <1>2, <1>3, <1>5, <1>6, <1>7, <2>1 DEF Flows
<1>11. ASSUME NEW a \in Actors, Writing(a, c) PROVE WriterOf(a, c)'
  <2>1. WriterOf(a, c)
    BY <1>11 DEF StreamInv, WriterShape
  <2>2. \A b \in Actors : Writing(b, c)' => Writing(b, c)
    BY <1>2 DEF Writing
  <2>3. call[a].pc = "direct" => call[a].fd = conn[c].fd
    BY <1>2, <2>1 DEF WriterOf
  <2>4. conn[c].fd # NoFd => \A d \in Conns : conn'[d].fd # conn[c].fd
    BY <1>5, <1>6 DEF StreamInv, FdsDiffer
  <2> QED
    BY <1>2, <1>3, <1>5, <1>6, <1>7, <2>1, <2>2, <2>3, <2>4 DEF WriterOf
<1>12. wire' \in [Conns -> Seq(Unit)] /\ \A d \in Conns \ {c} : wire'[d] = wire[d]
  BY <1>0, <1>2 DEF StreamType
<1> QED
  BY <1>2, <1>5, <1>6, <1>7, <1>8, <1>9, <1>10, <1>11, <1>12, LoopOne

\* The connection is deleted when no thread is inside a call on it.
LEMMA DeleteStep ==
  ASSUME StreamInv, free_handle, "deferDelete" \in Habits
  PROVE  StreamInv'
<1>0. StreamType /\ conn \in [Conns -> ConnRec] /\ pc \in [Loops -> Pcs]
  BY DEF StreamInv, StreamType
<1>1. PICK c \in Conns : c = cb.obj
  BY DEF free_handle, StreamInv, InCallback
<1>2. /\ cb.pc = "delete" /\ cb' = NoCb
      /\ UNCHANGED vars /\ UNCHANGED <<call, cli, wire, given, nmsgs>>
      /\ conn' = [conn EXCEPT ![c].mem = "gone"]
      /\ \A a \in Actors : ~Inside(a, c)
  BY <1>1 DEF free_handle, CbKeeps
<1>3. PICK r \in ConnRec : r = conn[c]
  BY <1>0
<1>4. PICK q \in ConnRec : q = [r EXCEPT !.mem = "gone"]
  BY DEF ConnRec
<1>5. /\ q.mem = "gone" /\ q.fd = r.fd /\ q.async = r.async /\ q.failed = r.failed
      /\ q.dead = r.dead /\ q.node = r.node /\ q.queue = r.queue
  BY <1>4 DEF ConnRec
<1>6. conn' = [conn EXCEPT ![c] = q] /\ conn'[c] = q
  BY <1>0, <1>2, <1>3, <1>4
<1>7. cb'.pc = None /\ cb' = [pc |-> cb'.pc, obj |-> cb'.obj]
  BY <1>2 DEF NoCb
<1>8. pc' \in [Loops -> Pcs] /\ InCallback'
  BY <1>0, <1>2, <1>7 DEF InCallback, None, vars
<1>9. call[0].pc \notin DirectPcs
  BY <1>2 DEF StreamInv, UserWrites, UserCode, None
<1>10. \A a \in Actors : ~Writing(a, c) /\ ~Writing(a, c)'
  BY <1>2 DEF Inside, Writing
<1>11. Flows(c)'
  <2>1. Flows(c)
    BY DEF StreamInv
  <2> QED
    BY <1>2, <1>3, <1>5, <1>6, <1>7, <1>10, <2>1 DEF Flows, None
<1>12. wire' \in [Conns -> Seq(Unit)] /\ \A d \in Conns \ {c} : wire'[d] = wire[d]
  BY <1>0, <1>2 DEF StreamType
<1>13. q.fd = conn[c].fd /\ (cb'.pc = "take" => cb'.obj = c) /\ (cb.pc = "delete" => cb.obj = c)
  BY <1>1, <1>3, <1>5, <1>7 DEF None
<1> QED
  BY <1>2, <1>6, <1>7, <1>8, <1>9, <1>10, <1>11, <1>12, <1>13, LoopOne

\* A connection is made, with a descriptor that no other connection has.
LEMMA MadeStep ==
  ASSUME StreamInv, NEW c \in Conns, conn[c].mem = None, NEW q \in ConnRec,
         conn' = [conn EXCEPT ![c] = q], q.mem # None, q.node = <<>>, q.queue = <<>>,
         ~q.dead, ~q.failed,
         q.fd = NoFd \/ (\A d \in Conns : conn[d].fd # q.fd),
         q.fd = NoFd \/ q.fd # cli',
         cli' = cli \/ cli' = NoFd,
         CallsKept, UNCHANGED <<pc, wire, given, nmsgs>>,
         cb' = [pc |-> cb'.pc, obj |-> cb'.obj], InCallback', cb.pc # "delete",
         call[0].pc \in DirectPcs => UserCode',
         \A d \in Conns : cb'.pc = "take" /\ cb'.obj = d => conn[d].node = <<>>
  PROVE  StreamInv'
<1>0. StreamType /\ conn \in [Conns -> ConnRec] /\ pc \in [Loops -> Pcs]
  BY DEF StreamInv, StreamType
<1>1. /\ conn' \in [Conns -> ConnRec] /\ conn'[c] = q
      /\ \A d \in Conns \ {c} : conn'[d] = conn[d]
  BY <1>0
<1>2. StreamType'
  BY <1>0, <1>1 DEF StreamType, CallsKept, CallsTyped, FdOrNone
<1>3. UserWrites'
  BY LoopsFacts DEF UserWrites, CallsKept, Actors
<1>4. FdsDiffer'
  BY <1>1 DEF StreamInv, FdsDiffer
<1>5. \A a \in Actors : ~Writing(a, c)
  BY DEF StreamInv, WriterShape, WriterOf, None
<1>6. \A a \in Actors : ~Writing(a, c)'
  BY <1>5 DEF CallsKept, Writing
<1>7. \A d \in Conns \ {c} : KeepsStream(d)
  BY <1>1 DEF KeepsStream, SameConn, CallsKept, Writing
<1>8. wire[c] = <<>> /\ given[c] = <<>>
  BY DEF StreamInv, Flows
<1>9. Flows(c)'
  <2>1. Joined(<<>>, <<>>, <<>>, <<>>) /\ Begins(<<>>, <<>>)
    <3>1. <<>> \in Seq(Unit)
      BY EmptySeq
    <3> QED
      BY <3>1, BeginsFacts
  <2> QED
    BY <1>1, <1>6, <1>8, <2>1 DEF Flows
<1>10. \A d \in Conns \ {c} : cb'.pc = "take" /\ cb'.obj = d => conn'[d].node = <<>>
  BY <1>1
<1> QED
  BY <1>2, <1>3, <1>4, <1>6, <1>7, <1>9, <1>10, OneStream

LEMMA NewConnFacts ==
  ASSUME NEW fd \in FdOrNone, NEW async \in BOOLEAN
  PROVE  LET q == NewConn(fd, async)
         IN  /\ q \in ConnRec /\ q.mem = "live" /\ q.fd = fd /\ q.node = <<>>
             /\ q.queue = <<>> /\ ~q.dead /\ ~q.failed
<1>1. <<>> \in Seq(Unit)
  BY EmptySeq
<1> QED
  BY <1>1 DEF NewConn, ConnRec

\* init with a peer's address, in a callback of the loop.
LEMMA DialStep ==
  ASSUME StreamInv, NEW a \in Actors, NEW c \in Conns, dial(a, c), "initInLoop" \in Habits
  PROVE  StreamInv'
<1>0. StreamType /\ conn \in [Conns -> ConnRec] /\ pc \in [Loops -> Pcs]
  BY DEF StreamInv, StreamType
<1>1. /\ conn[c].mem = None /\ a = 0 /\ call[a].pc \notin DirectPcs
      /\ pc' = pc /\ UNCHANGED <<cb, cli, wire, given, nmsgs>>
  BY FreeActor DEF dial, MayInit, ConnKeeps, vars
<1>2. cb.pc # "delete"
  <2>1. UserCode
    BY <1>1, ActorsAssumption, LoopsFacts DEF dial, Free
  <2> QED
    BY <2>1 DEF UserCode, None
<1>3. PICK f \in Closed, async \in BOOLEAN :
        LET new == NewConn(NoFd, async)
        IN  \/ /\ conn' = [conn EXCEPT ![c] = [new EXCEPT !.fd = f, !.up = TRUE]]
               /\ call' = [call EXCEPT ![a].pc = "addread", ![a].obj = c]
            \/ /\ conn' = [conn EXCEPT ![c] = [new EXCEPT !.fd = f, !.cn = TRUE]]
               /\ call' = [call EXCEPT ![a].pc = "addconn", ![a].obj = c]
            \/ /\ conn' = [conn EXCEPT ![c] = [new EXCEPT !.mem = "gone"]]
               /\ UNCHANGED call
  BY ModesAssumption DEF dial
<1>4. f \in FdOrNone /\ f # cli /\ \A d \in Conns : conn[d].fd # f
  BY DEF Closed, FdOrNone
<1>5. PICK new : new = NewConn(NoFd, async)
  OBVIOUS
<1>6. /\ new \in ConnRec /\ new.mem = "live" /\ new.fd = NoFd /\ new.node = <<>>
      /\ new.queue = <<>> /\ ~new.dead /\ ~new.failed
  BY <1>5, NewConnFacts DEF FdOrNone
<1>7. CallsKept
  <2>1. "addread" \notin DirectPcs /\ "addconn" \notin DirectPcs
    BY DEF DirectPcs
  <2>2. \/ call' = [call EXCEPT ![a].pc = "addread", ![a].obj = c]
        \/ call' = [call EXCEPT ![a].pc = "addconn", ![a].obj = c]
        \/ call' = call
    BY <1>3
  <2>3. call[a].pc \notin DirectPcs
    BY <1>1
  <2>4. CASE call' = [call EXCEPT ![a].pc = "addread", ![a].obj = c]
    BY <1>0, <2>1, <2>3, <2>4, CallUpdate
  <2>5. CASE call' = [call EXCEPT ![a].pc = "addconn", ![a].obj = c]
    BY <1>0, <2>1, <2>3, <2>5, CallUpdate
  <2>6. CASE call' = call
    BY <1>0, <2>1, <2>3, <2>6, CallUpdate
  <2> QED
    BY <2>2, <2>4, <2>5, <2>6
<1>8. PICK q \in ConnRec :
        /\ conn' = [conn EXCEPT ![c] = q] /\ q.mem \in {"live", "gone"}
        /\ q.fd \in {f, NoFd} /\ q.node = <<>> /\ q.queue = <<>> /\ ~q.dead /\ ~q.failed
  <2>1. CASE conn' = [conn EXCEPT ![c] = [new EXCEPT !.fd = f, !.up = TRUE]]
    <3>1. PICK q \in ConnRec : q = [new EXCEPT !.fd = f, !.up = TRUE]
      BY <1>4, <1>6 DEF ConnRec
    <3> QED
      BY <1>6, <2>1, <3>1 DEF ConnRec
  <2>2. CASE conn' = [conn EXCEPT ![c] = [new EXCEPT !.fd = f, !.cn = TRUE]]
    <3>1. PICK q \in ConnRec : q = [new EXCEPT !.fd = f, !.cn = TRUE]
      BY <1>4, <1>6 DEF ConnRec
    <3> QED
      BY <1>6, <2>2, <3>1 DEF ConnRec
  <2>3. CASE conn' = [conn EXCEPT ![c] = [new EXCEPT !.mem = "gone"]]
    <3>1. PICK q \in ConnRec : q = [new EXCEPT !.mem = "gone"]
      BY <1>6 DEF ConnRec
    <3> QED
      BY <1>6, <2>3, <3>1 DEF ConnRec
  <2> QED
    BY <1>3, <1>5, <2>1, <2>2, <2>3
<1>9. /\ cb' = [pc |-> cb'.pc, obj |-> cb'.obj] /\ InCallback'
      /\ call[0].pc \in DirectPcs => UserCode'
      /\ \A d \in Conns : cb'.pc = "take" /\ cb'.obj = d => conn[d].node = <<>>
  BY <1>0, <1>1 DEF StreamInv, StreamType, InCallback, Flows
<1>10. /\ q.mem # None /\ (q.fd = NoFd \/ \A d \in Conns : conn[d].fd # q.fd)
       /\ q.fd = NoFd \/ q.fd # cli'
  BY <1>1, <1>4, <1>8 DEF None
<1> QED
  BY <1>1, <1>2, <1>7, <1>8, <1>9, <1>10, MadeStep

\* accept_handle takes the accepted descriptor over.
LEMMA AcceptHandleStep ==
  ASSUME StreamInv, NEW c \in Conns, accept_handle(c)
  PROVE  StreamInv'
<1>0. StreamType /\ conn \in [Conns -> ConnRec] /\ pc \in [Loops -> Pcs]
  BY DEF StreamInv, StreamType
<1>1. /\ conn[c].mem = None /\ cb.pc = "accept" /\ CbGoto("done") /\ cli' = NoFd
      /\ pc' = pc /\ UNCHANGED <<wire, given, nmsgs>>
      /\ call' = [call EXCEPT ![0].pc = "addread", ![0].obj = c]
  BY DEF accept_handle, vars
<1>2. call[0].pc \notin DirectPcs /\ pc[0] \in CallbackPcs \ {"timers"}
  BY <1>1 DEF StreamInv, UserWrites, UserCode, InCallback, None
<1>3. CallsKept
  BY <1>0, <1>1, <1>2, CallUpdate DEF DirectPcs
<1>4. PICK async \in BOOLEAN : conn' = [conn EXCEPT ![c] = NewConn(cli, async)]
  BY ModesAssumption DEF accept_handle
<1>5. PICK q : q = NewConn(cli, async)
  OBVIOUS
<1>6. /\ q \in ConnRec /\ q.mem = "live" /\ q.fd = cli /\ q.node = <<>>
      /\ q.queue = <<>> /\ ~q.dead /\ ~q.failed
  BY <1>0, <1>5, NewConnFacts DEF StreamType
<1>7. q.fd = NoFd \/ \A d \in Conns : conn[d].fd # q.fd
  BY <1>6 DEF StreamInv, FdsDiffer
<1>8. cb'.pc = "done" /\ cb' = [pc |-> cb'.pc, obj |-> cb'.obj]
  BY <1>1, CbGotoFacts
<1>9. InCallback'
  BY <1>1, <1>2, <1>8 DEF InCallback
<1>10. q.mem # None /\ (q.fd = NoFd \/ q.fd # cli') /\ cb.pc # "delete"
  BY <1>1, <1>6 DEF None
<1>11. conn' = [conn EXCEPT ![c] = q]
  BY <1>4, <1>5
<1> QED
  BY <1>1, <1>2, <1>3, <1>6, <1>7, <1>8, <1>9, <1>10, <1>11, MadeStep
-----------------------------------------------------------------------------
(***************************************************************************)
(* The theorem.                                                            *)
(***************************************************************************)
StreamHabits == {"initInLoop", "deferDelete", "memEnough", "oneWriter"}

LEMMA StreamInvInit == RecvInit => StreamInv
<1> SUFFICES ASSUME RecvInit PROVE StreamInv
  OBVIOUS
<1>1. NoConn \in ConnRec /\ NoConn.mem = None /\ NoConn.fd = NoFd /\ ~NoConn.async
      /\ NoConn.node = <<>> /\ NoConn.queue = <<>> /\ ~NoConn.dead /\ ~NoConn.failed
  <2>1. PICK q \in ConnRec : q = NewConn(NoFd, FALSE) /\ q.fd = NoFd /\ q.node = <<>>
                             /\ q.queue = <<>> /\ ~q.dead /\ ~q.failed
    BY NewConnFacts DEF FdOrNone
  <2>2. q.async = FALSE
    BY <2>1 DEF NewConn
  <2>3. PICK r : r = [q EXCEPT !.mem = None]
    OBVIOUS
  <2> QED
    BY <2>1, <2>2, <2>3 DEF NoConn, ConnRec
<1>2. <<>> \in Seq(Unit)
  BY EmptySeq
<1>3. pc \in [Loops -> Pcs] /\ pc[0] = "top"
  BY LoopsFacts DEF RecvInit, Init, Pcs
<1>4. 0 \in Actors
  BY LoopsFacts DEF Actors
<1>5. /\ \A c \in Conns : conn[c] = NoConn /\ wire[c] = <<>> /\ given[c] = <<>>
      /\ \A a \in Actors : call[a] = NoCall
      /\ cb = NoCb /\ cli = NoFd
  BY DEF RecvInit
<1>6. StreamType
  BY <1>1, <1>2, <1>3, NoCallFacts DEF RecvInit, StreamType, NoCb, FdOrNone
<1>7. InCallback /\ UserWrites
  BY <1>4, <1>5, NoCallFacts DEF InCallback, UserWrites, NoCb, None
<1>8. FdsDiffer
  BY <1>1, <1>5 DEF FdsDiffer
<1>9. \A a \in Actors, c \in Conns : ~Writing(a, c)
  BY <1>5, NoCallFacts DEF Writing
<1>10. Begins(<<>>, <<>>)
  BY <1>2, BeginsFacts
<1>11. \A c \in Conns : Flows(c)
  BY <1>1, <1>5, <1>9, <1>10 DEF Flows, NoCb, None
<1> QED
  BY <1>6, <1>7, <1>8, <1>9, <1>11 DEF StreamInv, WriterShape

LEMMA StreamInvStep ==
  ASSUME StreamHabits \subseteq Habits, StreamInv, [RecvNext]_allVars
  PROVE  StreamInv'
<1> USE DEF StreamHabits
<1>1. CASE UNCHANGED allVars
  <2>1. UNCHANGED <<pc, conn, call, cb, cli, wire, given, nmsgs>>
    BY <1>1 DEF allVars, vars, objVars
  <2>2. Quiet
    BY <2>1, FlagUpdate DEF Quiet, CallsKept, CallsTyped, StreamInv, StreamType
  <2> QED
    BY <2>1, <2>2, ThreadQuiet
<1>2. ASSUME NEW a \in Actors, Begin(a) PROVE StreamInv'
  <2>1. ASSUME NEW c \in Conns, send_data(a, c) PROVE StreamInv'
    BY <2>1, SendQueues, SendDirect
  <2>2. ASSUME NEW c \in Conns, dial(a, c) PROVE StreamInv'
    BY <2>2, DialStep
  <2>3. ASSUME \/ \E c \in Conns : free(a, c)
               \/ \E x \in Acceptors : accept_init(a, x) \/ accept_free(a, x)
        PROVE  StreamInv'
    BY <2>3, MembersQuiet
  <2> QED
    BY <1>2, <2>1, <2>2, <2>3 DEF Begin
<1>3. ASSUME NEW a \in Actors, Continue(a) PROVE StreamInv'
  <2>1. CASE direct_fd(a)
    BY <2>1, DirectFdStep
  <2>2. CASE direct_write(a)
    BY <2>2, DirectWriteStep
  <2>3. ASSUME \/ send_data_lock(a) \/ send_data_add(a) \/ send_data_flag(a)
               \/ unregister_read(a) \/ unregister_write(a) \/ free_unlock(a)
               \/ register_connect(a) \/ register_read(a) \/ register_read_flag(a)
               \/ accept_free_ctl(a)
        PROVE  StreamInv'
    BY <2>3, MembersQuiet
  <2> QED
    BY <1>3, <2>1, <2>2, <2>3 DEF Continue
<1>4. CASE LoopQuiet \/ CbReturn
  BY <1>4, LoopQuietKeeps
<1>5. CASE Callback
  <2>1. CASE RecvStart \/ AcceptStart \/ WriteStart
    BY <2>1, CallbackStarts
  <2>2. CASE \/ WriteEntry \/ recv_handle_fails \/ FailFree \/ accept_refuse
             \/ send_handle_again \/ send_handle_flag
             \/ connect_result \/ connect_handle_returns \/ connect_cleanup
             \/ unregister_connect
    BY <2>2, CallbacksQuiet
  <2>3. CASE \E c \in Conns : accept_handle(c)
    BY <2>3, AcceptHandleStep
  <2>4. CASE send_handle_take \/ send_buf_node
    BY <2>4, SendCbStep
  <2>5. CASE free_async_write_resource
    BY <2>5, FlushStep
  <2>6. CASE free_close
    BY <2>6, CloseStep
  <2>7. CASE free_handle
    BY <2>7, DeleteStep
  <2>8. CASE accept_free_callback
    BY <2>8, LoopQuietKeeps
  <2> QED
    BY <1>5, <2>1, <2>2, <2>3, <2>4, <2>5, <2>6, <2>7, <2>8 DEF Callback
<1> QED
  BY <1>1, <1>2, <1>3, <1>4, <1>5 DEF RecvNext

LEMMA StreamInvSafe == StreamInv => StreamInOrder
<1> SUFFICES ASSUME StreamInv, NEW c \in Conns
             PROVE  /\ SX!IsPrefix(wire[c], given[c])
                    /\ conn[c].async => wire[c] \o conn[c].node \o conn[c].queue = given[c]
  BY DEF StreamInOrder
<1>1. PICK w \in Seq(Unit), g \in Seq(Unit) : w = wire[c] /\ g = given[c]
  BY DEF StreamInv, StreamType
<1>2. PICK n \in Seq(Unit), q \in Seq(Unit) : n = conn[c].node /\ q = conn[c].queue
  BY DEF StreamInv, StreamType, ConnRec
<1>3. Begins(w, g) /\ (conn[c].async => Joined(w, n, q, g))
  BY <1>1, <1>2 DEF StreamInv, Flows
<1>4. SX!IsPrefix(w, g)
  BY <1>3, BeginsIsPrefix
<1>5. conn[c].async => w \o n \o q = g
  <2>1. Assoc(w, n, q)
    BY UnitsAssoc
  <2> QED
    BY <1>3, <2>1 DEF Joined, Assoc
<1> QED
  BY <1>1, <1>2, <1>4, <1>5

\* The peer of a connection receives what send_data was given, whole and in the
\* order of the calls, and nothing of another connection.  The application must
\* initialise connections in the loop, must not delete one while a thread is
\* inside it, must have memory and, without async write, one writer at a time.
THEOREM StreamsInOrder ==
  ASSUME StreamHabits \subseteq Habits
  PROVE  RecvSpec => []StreamInOrder
<1>1. RecvInit => StreamInv
  BY StreamInvInit
<1>2. StreamInv /\ [RecvNext]_allVars => StreamInv'
  BY StreamInvStep
<1>3. StreamInv => StreamInOrder
  BY StreamInvSafe
<1> QED
  BY <1>1, <1>2, <1>3, PTL DEF RecvSpec
=============================================================================
