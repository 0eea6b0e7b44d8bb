---------------------------- MODULE NetRecvQueue -----------------------------
(***************************************************************************)
(* Data that a connection has queued is watched: somebody is about to send *)
(* it, or has registered the connection for writing.                       *)
(*                                                                         *)
(* Whoever queues data registers the connection afterwards, and the write  *)
(* callback either empties the queue or registers again.  Between the two  *)
(* the data waits for that thread, or for the callback.  It must not wait  *)
(* for a write event that goes to _connect_callback, or that               *)
(* unregister_connect takes away.                                          *)
(***************************************************************************)
EXTENDS NetRecvJobs

\* The connection has a job with the write event, with send_handle for it.
Writes(c) == \E j \in Alive : bind[j].obj = c /\ "W" \in job[j].ev
Sends(c) == \E j \in Alive : bind[j].obj = c /\ bind[j].wcb = "send" /\ "W" \in job[j].ev

Data(c) == conn[c].node # <<>> \/ conn[c].queue # <<>>

\* A thread is about to register the connection, or the loop to send.
Registering(c) ==
    \E a \in Actors : call[a].obj = c /\ call[a].pc \in {"register", "addwrite"}
Sending(c) == InCb(c, {"entry", "take", "sendbuf", "again", "fail"})

\* The loop is in the write callback that tells the result of connect.
Connecting(c) ==
    \/ InCb(c, {"connect"})
    \/ InCb(c, {"entry"}) /\ bind[cur[0].job].wcb = "connect"

QueueShape(c) ==
    /\ Unconnected(c) => ~Data(c)
    /\ Writes(c) => Sends(c) \/ Unconnected(c)
    /\ Connecting(c) => Unconnected(c) /\ ~Writes(c)
    /\ InCb(c, ConnectCbPcs) =>
         \A a \in Clients : call[a].obj = c => call[a].pc \notin SendPcs
    /\ InCb(c, {"conn_ok", "conn_bad", "cleanup"}) /\ Writes(c) =>
         conn[c].wr \/ InLoop(c, {"wrflag"})
    /\ InCb(c, {"unreg"}) => ~Writes(c)
    /\ InCb(c, {"take"}) => conn[c].node = <<>>
    /\ conn[c].mem = "live" /\ ~conn[c].freed =>
         /\ conn[c].async /\ Data(c) => Registering(c) \/ Sending(c) \/ Sends(c)
         /\ conn[c].fd # NoFd \/ Unconnected(c)

\* An event that says "writable" is of a job that is still to be written, or
\* being deleted: nothing between epoll_wait and the callback takes the write
\* event away and leaves the job.
OutShape ==
    /\ \A e \in batch[0] :
         "OUT" \in e.ev /\ job[e.job].kind = "wr" /\ ~job[e.job].del =>
           "W" \in job[e.job].ev \/ (pc[0] = "writecb" /\ e = cur[0])
    /\ pc[0] = "write2" => "OUT" \in cur[0].ev

QueueInv == OutShape /\ \A c \in Conns : QueueShape(c)

\* A job loses the write event only with its life.
NoLoss ==
    \A j \in Alive : job[j].kind = "wr" /\ "W" \in job[j].ev =>
        job'[j].del \/ "W" \in job'[j].ev

LEMMA EventsHeld ==
    ASSUME LoopsInv
    PROVE  /\ \A e \in batch[0] : e.job \in Alive
           /\ pc[0] \in EventPcs \ {"events"} => cur[0] \in batch[0] /\ cur[0].job \in Alive
           /\ pc[0] \notin EventPcs => batch[0] = {}
<1>1. MemInv /\ 0 \in Loops
  BY AliveFacts
<1> QED
  BY <1>1 DEF MemInv, NoDangling, TypeInv, LoopShape

LEMMA OutKept ==
    ASSUME LoopsInv, OutShape, Stays, NoLoss, UNCHANGED <<pc, batch, cur>>
    PROVE  OutShape'
BY EventsHeld DEF OutShape, Stays, FieldsStay, NoLoss

\* What the connection has registered stays as it is.
JobsQuiet(d) == (Writes(d)' <=> Writes(d)) /\ (Sends(d)' <=> Sends(d))

\* Only jobs that are not being deleted have the write event.
LEMMA WriterLives ==
    ASSUME LoopsInv, JobsInv, NEW j \in Alive, "W" \in job[j].ev
    PROVE  ~job[j].del /\ job[j].kind = "wr"
<1>1. j \in 1 .. njobs /\ job[j].kind \in {"listen", "wr"}
  BY AliveFacts
<1>2. KindShape
  BY DEF LoopsInv, WatchInv, OneJobInv, Shape
<1> QED
  BY <1>1, <1>2 DEF KindShape

LEMMA SameQuiet ==
    ASSUME LoopsInv, JobsInv, NEW d \in Conns, JobsSame(d), JobsHeld(d),
           \A j \in Alive : bind[j].obj = d => bind'[j] = bind[j]
    PROVE  JobsQuiet(d)
<1>1. ASSUME NEW j \in Alive, bind[j].obj = d, "W" \in job[j].ev
      PROVE  j \in Alive' /\ bind'[j] = bind[j] /\ job'[j] = job[j]
  <2>1. j \in Alive' /\ bind'[j].obj = d
    BY <1>1, WriterLives DEF JobsHeld
  <2> QED
    BY <1>1, <2>1 DEF JobsSame
<1>2. ASSUME NEW j \in Alive', bind'[j].obj = d
      PROVE  j \in Alive /\ bind[j].obj = d /\ bind'[j] = bind[j] /\ job'[j] = job[j]
  BY <1>2 DEF JobsSame
<1> QED
  BY <1>1, <1>2 DEF JobsQuiet, Writes, Sends

\* Nobody comes to register the connection, and nobody leaves without doing it
\* while it can be written.
CallsQuiet(d) ==
    /\ \A a \in Clients : call'[a].obj = d /\ call'[a].pc \in SendPcs =>
                            call[a].obj = d /\ call[a].pc \in SendPcs
    /\ Registering(d) => Registering(d)' \/ conn'[d].freed
    /\ Writes(d)' /\ (conn[d].wr \/ InLoop(d, {"wrflag"})) =>
         conn'[d].wr \/ InLoop(d, {"wrflag"})'

\* The step does nothing to the connection's queue and its registration.
Untouched(d) ==
    /\ JobsQuiet(d) \/ (~Writes(d)' /\ conn'[d].freed)
    /\ Data(d)' => Data(d)
    /\ Unconnected(d)' <=> Unconnected(d)
    /\ CallsQuiet(d)
    /\ \/ /\ cb' = cb /\ conn'[d].node = conn[d].node
          /\ InCb(d, {"entry"}) => bind'[cur'[0].job].wcb = bind[cur[0].job].wcb
       \/ /\ ~InCb(d, ConnectCbPcs \cup SendCbPcs)'
          /\ conn'[d].freed \/ ~Sending(d)
    /\ conn'[d].mem = "live" /\ ~conn'[d].freed =>
         /\ conn[d].mem = "live" /\ ~conn[d].freed /\ conn'[d].fd = conn[d].fd
         /\ conn'[d].async => conn[d].async

LEMMA QuietKeeps ==
    ASSUME NEW d \in Conns, QueueShape(d), Untouched(d)
    PROVE  QueueShape(d)'
<1>1. (Writes(d)' => Writes(d)) /\ (Writes(d)' => Sends(d)' \/ Unconnected(d)')
  BY DEF QueueShape, Untouched, JobsQuiet
<1>2. Unconnected(d)' => ~Data(d)'
  BY DEF QueueShape, Untouched
<1>3. conn'[d].mem = "live" /\ ~conn'[d].freed =>
        conn'[d].fd # NoFd \/ Unconnected(d)'
  BY DEF QueueShape, Untouched
<1>4. ~conn'[d].freed => /\ Registering(d) => Registering(d)'
                         /\ Sends(d) => Sends(d)'
  BY DEF Untouched, CallsQuiet, JobsQuiet
<1>5. CASE /\ cb' = cb /\ conn'[d].node = conn[d].node
           /\ InCb(d, {"entry"}) => bind'[cur'[0].job].wcb = bind[cur[0].job].wcb
  <2>1. \A ps : InCb(d, ps)' <=> InCb(d, ps)
    BY <1>5 DEF InCb
  <2>2. (Connecting(d)' <=> Connecting(d)) /\ (Sending(d)' <=> Sending(d))
    BY <1>5, <2>1 DEF Connecting, Sending
  <2>3. Connecting(d)' => Unconnected(d)' /\ ~Writes(d)'
    BY <1>1, <2>2 DEF QueueShape, Untouched
  <2>4. InCb(d, ConnectCbPcs)' =>
          \A a \in Clients : call'[a].obj = d => call'[a].pc \notin SendPcs
    BY <2>1 DEF QueueShape, Untouched, CallsQuiet
  <2>5. /\ InCb(d, {"conn_ok", "conn_bad", "cleanup"})' /\ Writes(d)' =>
             conn'[d].wr \/ InLoop(d, {"wrflag"})'
        /\ InCb(d, {"unreg"})' => ~Writes(d)'
        /\ InCb(d, {"take"})' => conn'[d].node = <<>>
    BY <1>1, <1>5, <2>1 DEF QueueShape, Untouched, CallsQuiet
  <2>6. conn'[d].mem = "live" /\ ~conn'[d].freed /\ conn'[d].async /\ Data(d)' =>
          Registering(d)' \/ Sending(d)' \/ Sends(d)'
    BY <1>4, <2>2 DEF QueueShape, Untouched
  <2> QED
    BY <1>1, <1>2, <1>3, <2>3, <2>4, <2>5, <2>6 DEF QueueShape
<1>6. CASE ~InCb(d, ConnectCbPcs \cup SendCbPcs)' /\ (conn'[d].freed \/ ~Sending(d))
  <2>1. /\ \A ps \in {ConnectCbPcs, {"connect"}, {"entry"}, {"unreg"}, {"take"},
                      {"conn_ok", "conn_bad", "cleanup"}} : ~InCb(d, ps)'
    BY <1>6 DEF InCb, ConnectCbPcs, SendCbPcs
  <2>2. ~Connecting(d)'
    BY <2>1 DEF Connecting
  <2>3. conn'[d].mem = "live" /\ ~conn'[d].freed /\ conn'[d].async /\ Data(d)' =>
          Registering(d)' \/ Sending(d)' \/ Sends(d)'
    BY <1>4, <1>6 DEF QueueShape, Untouched
  <2> QED
    BY <1>1, <1>2, <1>3, <2>1, <2>2, <2>3 DEF QueueShape
<1> QED
  BY <1>5, <1>6 DEF Untouched

\* The queue of a connection, and all of it that is looked at here.
DataSame(c) ==
    /\ conn'[c].async = conn[c].async
    /\ conn'[c].node = conn[c].node /\ conn'[c].queue = conn[c].queue
ConnQuiet(d) == CoreSame(d) /\ DataSame(d)
OthersQuiet(c) == \A d \in Conns : d # c => ConnQuiet(d)

\* The bindings of its jobs.
BindSame(d) == \A j \in Alive : bind[j].obj = d => bind'[j] = bind[j]

\* A thread that goes from one place outside send_data to another.
LEMMA CallsLeft ==
    ASSUME NEW d \in Conns, NEW a \in Actors, OneCall(a), 0 \in Actors,
           \/ call' = call
           \/ /\ call[a].obj = d => call[a].pc \notin {"register", "addwrite", "wrflag"}
              /\ call'[a].obj = d => call'[a].pc \notin SendPcs,
           Writes(d)' /\ conn[d].wr => conn'[d].wr
    PROVE  CallsQuiet(d)
<1>1. \A b \in Actors : \/ call'[b] = call[b]
                        \/ /\ call[b].obj = d => call[b].pc \notin {"register", "addwrite", "wrflag"}
                           /\ call'[b].obj = d => call'[b].pc \notin SendPcs
  BY DEF OneCall
<1>2. Clients \subseteq Actors
  BY DEF Actors
<1> QED
  BY <1>1, <1>2 DEF CallsQuiet, Registering, InLoop

LEMMA OtherQuiet ==
    ASSUME LoopsInv, StreamInv, JobsInv, NEW d \in Conns, JobsSame(d), JobsHeld(d),
           BindSame(d), ConnQuiet(d), NEW a \in Actors, NEW c, c # d,
           CallAbout(a, c), CbAbout(c), cur' = cur \/ cb.obj # d
    PROVE  Untouched(d)
<1>0. d # None /\ d \notin Acceptors /\ 0 \in Actors
  BY NamesAssumption, AliveFacts DEF None
<1>1. JobsQuiet(d)
  BY SameQuiet DEF BindSame
<1>2. CallsQuiet(d)
  BY <1>0, CallsLeft DEF CallAbout, ConnQuiet, CoreSame
<1>3. cb' = cb \/ (cb.obj # d /\ cb'.obj # d)
  BY <1>0 DEF CbAbout
<1>4. Unconnected(d)' <=> Unconnected(d)
  BY <1>3 DEF Unconnected, InCb, ConnQuiet, CoreSame
<1>5. CASE cb' = cb
  <2>1. InCb(d, {"entry"}) => bind'[cur'[0].job].wcb = bind[cur[0].job].wcb
    <3> SUFFICES ASSUME cb.obj = d, cb.pc = "entry"
                 PROVE  bind'[cur'[0].job].wcb = bind[cur[0].job].wcb
      BY DEF InCb
    <3>1. cur[0].job \in Alive /\ bind[cur[0].job].obj = d
      BY CbWhere, "entry" \notin {None, "close", "delete"} DEF None
    <3> QED
      BY <3>1 DEF BindSame
  <2> QED
    BY <1>1, <1>2, <1>4, <1>5, <2>1 DEF Untouched, ConnQuiet, CoreSame, DataSame, Data
<1>6. CASE cb.obj # d /\ cb'.obj # d
  <2>1. ~Sending(d) /\ ~InCb(d, ConnectCbPcs \cup SendCbPcs)'
    BY <1>6 DEF Sending, InCb
  <2> QED
    BY <1>1, <1>2, <1>4, <2>1 DEF Untouched, ConnQuiet, CoreSame, DataSame, Data
<1> QED
  BY <1>3, <1>5, <1>6

\* A step about c.
LEMMA QueueStep ==
    ASSUME QueueInv, LoopsInv, OutShape', NEW c, \A d \in Conns : d # c => Untouched(d),
           c \in Conns => QueueShape(c)'
    PROVE  QueueInv'
BY QuietKeeps DEF QueueInv

LEMMA VarsQuiet ==
    ASSUME LoopsInv, JobsInv, QueueInv, UNCHANGED <<vars, bind>>
    PROVE  /\ OutShape' /\ cur' = cur
           /\ \A d \in Conns : JobsSame(d) /\ JobsHeld(d) /\ BindSame(d) /\ JobsQuiet(d)
<1>1. /\ Stays /\ \A d : JobsSame(d) /\ JobsHeld(d)
  BY VarsKept
<1>2. \A d \in Conns : JobsQuiet(d)
  BY <1>1, SameQuiet
<1>3. NoLoss /\ UNCHANGED <<pc, batch, cur>>
  BY DEF NoLoss, vars
<1> QED
  BY <1>1, <1>2, <1>3, OutKept DEF QueueInv, BindSame

\* A step of a member function or callback of c that does not call the library.
LEMMA OwnQueueStep ==
    ASSUME LoopsInv, StreamInv, JobsInv, QueueInv, UNCHANGED <<vars, bind>>,
           NEW a \in Actors, NEW c, CallAbout(a, c), CbAbout(c), OthersQuiet(c),
           c \in Conns => QueueShape(c)'
    PROVE  QueueInv'
<1>1. /\ OutShape' /\ cur' = cur
      /\ \A d \in Conns : JobsSame(d) /\ JobsHeld(d) /\ BindSame(d)
  BY VarsQuiet
<1>2. \A d \in Conns : d # c => Untouched(d)
  BY <1>1, OtherQuiet DEF OthersQuiet
<1> QED
  BY <1>1, <1>2, QueueStep

LEMMA FlagData ==
    ASSUME StreamInv, NEW c \in Conns, NEW v,
           \/ conn' = conn
           \/ conn' = [conn EXCEPT ![c].rd = v] \/ conn' = [conn EXCEPT ![c].wr = v]
           \/ conn' = [conn EXCEPT ![c].cn = v] \/ conn' = [conn EXCEPT ![c].up = v]
           \/ conn' = [conn EXCEPT ![c].freed = v] \/ conn' = [conn EXCEPT ![c].fd = v]
           \/ conn' = [conn EXCEPT ![c].mem = v]
    PROVE  OthersQuiet(c) /\ DataSame(c)
<1>1. conn = [d \in Conns |-> conn[d]] /\ conn[c] \in ConnRec
  BY DEF StreamInv, StreamType
<1>2. PICK k \in ConnRec : k = conn[c]
  BY <1>1
<1>3. ASSUME NEW q, conn' = [conn EXCEPT ![c] = q],
             q.async = k.async, q.node = k.node, q.queue = k.queue
      PROVE  OthersQuiet(c) /\ DataSame(c)
  <2>1. conn'[c] = q /\ \A d \in Conns : d # c => conn'[d] = conn[d]
    BY <1>1, <1>3
  <2> QED
    BY <1>2, <1>3, <2>1 DEF OthersQuiet, ConnQuiet, CoreSame, DataSame
<1>4. PICK q : /\ \/ q = k \/ q = [k EXCEPT !.rd = v] \/ q = [k EXCEPT !.wr = v]
                  \/ q = [k EXCEPT !.cn = v] \/ q = [k EXCEPT !.up = v]
                  \/ q = [k EXCEPT !.freed = v] \/ q = [k EXCEPT !.fd = v]
                  \/ q = [k EXCEPT !.mem = v]
               /\ conn' = [conn EXCEPT ![c] = q]
  BY <1>1, <1>2
<1>5. q.async = k.async /\ q.node = k.node /\ q.queue = k.queue
  BY <1>4 DEF ConnRec
<1> QED
  BY <1>3, <1>4, <1>5
\* c is as it was but for its flags.
Steady(c) ==
    /\ OthersQuiet(c) /\ DataSame(c)
    /\ conn'[c].mem = conn[c].mem /\ conn'[c].fd = conn[c].fd
    /\ conn'[c].dialed = conn[c].dialed /\ conn'[c].up = conn[c].up
    /\ conn[c].freed => conn'[c].freed

LEMMA FlagSteady ==
    ASSUME StreamInv, NEW c \in Conns, NEW v,
           \/ conn' = conn
           \/ conn' = [conn EXCEPT ![c].rd = v] \/ conn' = [conn EXCEPT ![c].wr = v]
           \/ conn' = [conn EXCEPT ![c].cn = v]
           \/ conn' = [conn EXCEPT ![c].freed = v] /\ v
    PROVE  Steady(c)
<1>1. OthersQuiet(c) /\ DataSame(c)
  BY FlagData
<1>2. CASE conn' = conn
  BY <1>1, <1>2 DEF Steady
<1>3. CASE conn' = [conn EXCEPT ![c].rd = v]
  BY <1>1, <1>3, FlagSets DEF Steady, FlagsNow
<1>4. CASE conn' = [conn EXCEPT ![c].wr = v]
  BY <1>1, <1>4, FlagSets DEF Steady, FlagsNow
<1>5. CASE conn' = [conn EXCEPT ![c].cn = v]
  BY <1>1, <1>5, FlagSets DEF Steady, FlagsNow
<1>6. CASE conn' = [conn EXCEPT ![c].freed = v] /\ v
  BY <1>1, <1>6, FlagSets DEF Steady, FlagsNow
<1> QED
  BY <1>2, <1>3, <1>4, <1>5, <1>6

\* A step of a member function that does not call the library, or of a callback
\* that does not and goes on outside the write callbacks.
LEMMA OwnQuiet ==
    ASSUME LoopsInv, StreamInv, JobsInv, QueueInv, UNCHANGED <<vars, bind>>,
           NEW a \in Actors, NEW c \in Conns, CallAbout(a, c), CbAbout(c), Steady(c), CallsQuiet(c),
           \/ cb' = cb
           \/ /\ ~InCb(c, ConnectCbPcs \cup SendCbPcs)'
              /\ ~InCb(c, {"conn_ok"})
              /\ conn'[c].freed \/ ~Sending(c)
    PROVE  QueueInv'
<1>1. cur' = cur /\ JobsQuiet(c)
  BY VarsQuiet
<1>2. Unconnected(c)' <=> Unconnected(c)
  BY DEF Unconnected, InCb, Steady, ConnectCbPcs
<1>3. Untouched(c)
  BY <1>1, <1>2 DEF Untouched, Steady, DataSame, Data, InCb
<1>4. QueueShape(c)'
  BY <1>3, QuietKeeps DEF QueueInv
<1> QED
  BY <1>4, OwnQueueStep DEF Steady

\* Those of a thread's member functions.
LEMMA MemberQuiet ==
    ASSUME LoopsInv, StreamInv, JobsInv, QueueInv, UNCHANGED <<vars, bind, cb>>,
           NEW a \in Actors, NEW c \in Conns, CallAbout(a, c), Steady(c),
           conn[c].wr => conn'[c].wr,
           \/ call[a].pc \notin {"register", "addwrite"}
           \/ /\ call[a].pc = "register"
              /\ conn'[c].freed \/ (call'[a].pc = "addwrite" /\ call'[a].obj = c),
           call[a].pc = "wrflag" => conn'[c].wr,
           call'[a].obj = c => call'[a].pc \notin SendPcs
                               \/ (call[a].pc = "register" /\ call'[a].pc = "addwrite" /\ call[a].obj = c)
    PROVE  QueueInv'
<1>0. Clients \subseteq Actors /\ 0 \in Actors
  BY AliveFacts DEF Actors
<1>1. ASSUME NEW b \in Clients, call'[b].obj = c, call'[b].pc \in SendPcs
      PROVE  call[b].obj = c /\ call[b].pc \in SendPcs
  BY <1>0, <1>1 DEF CallAbout, OneCall, SendPcs
<1>2. Registering(c) => Registering(c)' \/ conn'[c].freed
  <2>1. ASSUME NEW b \in Actors, call[b].obj = c, call[b].pc \in {"register", "addwrite"}
        PROVE  Registering(c)' \/ conn'[c].freed
    <3>1. CASE b # a
      BY <2>1, <3>1 DEF CallAbout, OneCall, Registering
    <3>2. CASE b = a /\ ~conn'[c].freed
      BY <2>1, <3>2 DEF Registering
    <3> QED
      BY <3>1, <3>2
  <2> QED
    BY <2>1 DEF Registering
<1>3. conn[c].wr \/ InLoop(c, {"wrflag"}) => conn'[c].wr \/ InLoop(c, {"wrflag"})'
  BY <1>0 DEF InLoop, CallAbout, OneCall
<1>4. CallsQuiet(c)
  BY <1>1, <1>2, <1>3 DEF CallsQuiet
<1> QED
  BY <1>4, OwnQuiet DEF CbAbout
-----------------------------------------------------------------------------
(***************************************************************************)
(* The steps that leave the queue and the registration alone.              *)
(***************************************************************************)

\* Only the sockets fail.
LEMMA DeadSteady ==
    ASSUME StreamInv, NEW c \in Conns, NEW to,
           conn' = [d \in Conns |-> IF d \in to THEN [conn[d] EXCEPT !.dead = TRUE] ELSE conn[d]]
    PROVE  Steady(c) /\ conn'[c].wr = conn[c].wr
<1>1. ASSUME NEW d \in Conns PROVE ConnQuiet(d)
  <2>1. PICK r \in ConnRec : r = conn[d]
    BY DEF StreamInv, StreamType
  <2>2. conn'[d] = IF d \in to THEN [r EXCEPT !.dead = TRUE] ELSE r
    BY <2>1
  <2> QED
    BY <2>1, <2>2 DEF ConnRec, ConnQuiet, CoreSame, DataSame
<1> QED
  BY <1>1 DEF Steady, OthersQuiet, ConnQuiet, CoreSame

LEMMA DirectQueue ==
    ASSUME LoopsInv, StreamInv, JobsInv, QueueInv, NEW a \in Actors,
           direct_fd(a) \/ direct_write(a)
    PROVE  QueueInv'
<1>1. PICK c : c = call[a].obj
  OBVIOUS
<1>2. call[a].pc \in DirectPcs /\ UNCHANGED <<vars, bind, cb>>
  BY DEF direct_fd, direct_write, DirectPcs
<1>3. c \in Conns
  BY <1>1, <1>2, CallHere DEF ConnPcs
<1>4. PICK r : r = call[a] /\ r = [pc |-> r.pc, obj |-> r.obj, data |-> r.data, fd |-> r.fd]
  BY DEF StreamInv, StreamType, IsCall
<1>5. call = [b \in Actors |-> call[b]]
  BY DEF StreamInv, StreamType
<1>6. ASSUME NEW q, call' = [call EXCEPT ![a] = q], q = NoCall \/ (q.obj = c /\ q.pc \in DirectPcs)
      PROVE  /\ CallAbout(a, c) /\ (call'[a].obj = c => call'[a].pc \notin SendPcs)
  <2>1. call'[a] = q /\ OneCall(a)
    BY <1>5, <1>6 DEF OneCall
  <2> QED
    BY <1>1, <1>6, <2>1 DEF CallAbout, NoCall, None, DirectPcs, SendPcs
<1>7. CallAbout(a, c) /\ (call'[a].obj = c => call'[a].pc \notin SendPcs)
  <2>1. CASE direct_fd(a)
    <3>1. PICK q : q = [r EXCEPT !.pc = "direct", !.fd = conn[call[a].obj].fd]
      OBVIOUS
    <3>2. call' = [call EXCEPT ![a] = q]
      BY <1>4, <1>5, <2>1, <3>1 DEF direct_fd
    <3>3. q.obj = c /\ q.pc \in DirectPcs
      BY <1>1, <1>4, <3>1 DEF DirectPcs
    <3> QED
      BY <1>6, <3>2, <3>3
  <2>2. CASE Return2(a)
    BY <1>6, <2>2 DEF Return2
  <2>3. ASSUME NEW n, call' = [call EXCEPT ![a].data = SubSeq(@, n + 1, Len(@))]
        PROVE  CallAbout(a, c) /\ (call'[a].obj = c => call'[a].pc \notin SendPcs)
    <3>1. PICK v : v = SubSeq(call[a].data, n + 1, Len(call[a].data))
      OBVIOUS
    <3>2. PICK q : q = [r EXCEPT !.data = v]
      OBVIOUS
    <3>3. call' = [call EXCEPT ![a] = q]
      BY <1>4, <2>3, <3>1, <3>2
    <3>4. q.obj = c /\ q.pc \in DirectPcs
      BY <1>1, <1>2, <1>4, <3>2
    <3> QED
      BY <1>6, <3>3, <3>4
  <2>4. \/ direct_fd(a) \/ Return2(a)
        \/ \E n : call' = [call EXCEPT ![a].data = SubSeq(@, n + 1, Len(@))]
    BY DEF direct_write
  <2> QED
    BY <2>1, <2>2, <2>3, <2>4
<1>8. Steady(c) /\ conn'[c].wr = conn[c].wr
  <2>1. CASE conn' = conn
    BY <1>3, <2>1, FlagSteady
  <2>2. CASE conn' # conn
    <3> DEFINE to == {d \in Conns : conn[d].fd # NoFd /\ conn[d].fd = call[a].fd
                                      /\ ~conn[d].dead}
    <3>1. conn' = [d \in Conns |-> IF d \in to THEN [conn[d] EXCEPT !.dead = TRUE] ELSE conn[d]]
      BY <2>2 DEF direct_fd, direct_write
    <3> HIDE DEF to
    <3> QED
      BY <1>3, <3>1, DeadSteady
  <2> QED
    BY <2>1, <2>2
<1> QED
  BY <1>2, <1>3, <1>7, <1>8, MemberQuiet DEF DirectPcs

LEMMA MembersQueue ==
    ASSUME LoopsInv, StreamInv, JobsInv, QueueInv, NEW a \in Actors,
           send_data_lock(a) \/ send_data_flag(a) \/ free_unlock(a) \/ register_read_flag(a)
    PROVE  QueueInv'
<1>1. PICK c : c = call[a].obj
  OBVIOUS
<1>2. /\ call[a].pc \in {"register", "wrflag", "unlock", "rdflag"}
      /\ UNCHANGED <<vars, bind, cb>>
  BY DEF send_data_lock, send_data_flag, free_unlock, register_read_flag
<1>3. c \in Conns
  BY <1>1, <1>2, CallHere DEF ConnPcs, SendPcs, FreeConnPcs, InitPcs
<1>4. /\ OneCall(a) /\ CallAbout(a, c)
      /\ \/ call'[a] = NoCall /\ (call[a].pc = "register" => conn'[c].freed)
         \/ call[a].pc = "register" /\ call'[a].pc = "addwrite" /\ call'[a].obj = c
  <2>1. \/ Return2(a) /\ (call[a].pc = "register" => conn'[c].freed)
        \/ call[a].pc = "register" /\ Goto2(a, "addwrite")
    BY <1>1 DEF send_data_lock, send_data_flag, free_unlock, register_read_flag
  <2>2. CASE Return2(a) /\ (call[a].pc = "register" => conn'[c].freed)
    BY <1>1, <2>2, CallsOf DEF CallAbout, NoCall
  <2>3. CASE call[a].pc = "register" /\ Goto2(a, "addwrite")
    BY <1>1, <2>3, CallsOf DEF CallAbout
  <2> QED
    BY <2>1, <2>2, <2>3
<1>5. Steady(c) /\ (conn[c].wr => conn'[c].wr) /\ (call[a].pc = "wrflag" => conn'[c].wr)
  <2>1. \/ conn' = conn /\ call[a].pc # "wrflag"
        \/ conn' = [conn EXCEPT ![c].wr = TRUE]
        \/ conn' = [conn EXCEPT ![c].rd = TRUE] /\ call[a].pc # "wrflag"
    BY <1>1 DEF send_data_lock, send_data_flag, free_unlock, register_read_flag
  <2>2. CASE conn' = conn /\ call[a].pc # "wrflag"
    BY <1>3, <2>2, FlagSteady
  <2>3. CASE conn' = [conn EXCEPT ![c].wr = TRUE]
    BY <1>3, <2>3, FlagSteady, FlagSets DEF FlagsNow
  <2>4. CASE conn' = [conn EXCEPT ![c].rd = TRUE] /\ call[a].pc # "wrflag"
    <3>1. Steady(c)
      BY <1>3, <2>4, FlagSteady
    <3>2. FlagsNow(c, TRUE, conn[c].wr, conn[c].cn, conn[c].up, conn[c].freed)
      BY <1>3, <2>4, FlagSets
    <3> QED
      BY <2>4, <3>1, <3>2 DEF FlagsNow
  <2> QED
    BY <2>1, <2>2, <2>3, <2>4
<1>6. call'[a] = NoCall => call'[a].obj # c
  BY <1>3, NamesAssumption DEF NoCall, None
<1> QED
  BY <1>1, <1>2, <1>3, <1>4, <1>5, <1>6, MemberQuiet

LEMMA FreeLockSteady ==
    ASSUME LoopsInv, StreamInv, JobsInv, NEW c \in Conns, FreeLock(0, c), call[0] = NoCall
    PROVE  /\ Steady(c) /\ conn'[c].freed /\ conn'[c].wr = conn[c].wr
           /\ CallAbout(0, c) /\ call'[0].obj = c /\ call'[0].pc \notin SendPcs
<1>1. 0 \in Actors
  BY AliveFacts
<1>2. Steady(c) /\ conn'[c].freed /\ conn'[c].wr = conn[c].wr
  <2>1. conn' = [conn EXCEPT ![c].freed = TRUE]
    BY DEF FreeLock
  <2>2. FlagsNow(c, conn[c].rd, conn[c].wr, conn[c].cn, conn[c].up, TRUE)
    BY <2>1, FlagSets
  <2>3. Steady(c)
    BY <2>1, FlagSteady
  <2> QED
    BY <2>2, <2>3 DEF FlagsNow
<1>3. PICK p : p = IF conn[c].rd THEN "unread" ELSE "unwrite"
  OBVIOUS
<1>4. Enters(0, p, c)
  BY <1>3 DEF FreeLock, Enters
<1>5. call'[0].pc = p /\ call'[0].obj = c /\ OneCall(0) /\ p \notin SendPcs
  BY <1>1, <1>3, <1>4, CallsOf DEF SendPcs
<1> QED
  BY <1>2, <1>5 DEF CallAbout, NoCall

LEMMA FreeQueue ==
    ASSUME LoopsInv, StreamInv, JobsInv, QueueInv, RecvHabits \subseteq Habits,
           NEW a \in Actors, NEW c \in Conns, free(a, c)
    PROVE  QueueInv'
<1>1. /\ a = 0 /\ call[0] = NoCall /\ FreeLock(0, c) /\ UNCHANGED <<vars, cb, bind>>
  BY DEF free, Free, RecvHabits, AllHabits
<1>2. call[0].pc \notin {"register", "addwrite", "wrflag"}
  BY <1>1 DEF NoCall, None
<1> QED
  BY <1>1, <1>2, FreeLockSteady, MemberQuiet
-----------------------------------------------------------------------------
(***************************************************************************)
(* Calls of the library that change nothing of the registration.           *)
(***************************************************************************)

\* The connections other than c, and whatever waits in the batch.
LEMMA LibQueueStep ==
    ASSUME LoopsInv, StreamInv, JobsInv, QueueInv, Stays, NoLoss, UNCHANGED <<pc, batch, cur>>,
           NEW c, \A d \in Conns : d # c => JobsSame(d) /\ JobsHeld(d) /\ BindSame(d),
           NEW a \in Actors, CallAbout(a, c), CbAbout(c), OthersQuiet(c),
           c \in Conns => QueueShape(c)'
    PROVE  QueueInv'
<1>1. OutShape'
  BY OutKept DEF QueueInv
<1>2. \A d \in Conns : d # c => Untouched(d)
  BY OtherQuiet DEF OthersQuiet
<1> QED
  BY <1>1, <1>2, QueueStep

LEMMA LibQuiet ==
    ASSUME LoopsInv, StreamInv, JobsInv, QueueInv, Stays, NoLoss,
           UNCHANGED <<pc, batch, cur, cb>>, NEW c \in Conns,
           \A d \in Conns : d # c => JobsSame(d) /\ JobsHeld(d),
           \A d \in Conns : BindSame(d),
           NEW a \in Actors, CallAbout(a, c), Steady(c), CallsQuiet(c),
           JobsQuiet(c) \/ (~Writes(c)' /\ conn'[c].freed)
    PROVE  QueueInv'
<1>1. InCb(c, {"entry"}) => bind'[cur'[0].job].wcb = bind[cur[0].job].wcb
  <2> SUFFICES ASSUME cb.obj = c, cb.pc = "entry"
               PROVE  bind'[cur'[0].job].wcb = bind[cur[0].job].wcb
    BY DEF InCb
  <2>1. cur[0].job \in Alive /\ bind[cur[0].job].obj = c
    BY CbWhere, "entry" \notin {None, "close", "delete"} DEF None
  <2> QED
    BY <2>1 DEF BindSame
<1>2. Unconnected(c)' <=> Unconnected(c)
  BY DEF Unconnected, InCb, Steady
<1>3. Untouched(c)
  BY <1>1, <1>2 DEF Untouched, Steady, DataSame, Data
<1>4. QueueShape(c)'
  BY <1>3, QuietKeeps DEF QueueInv
<1> QED
  BY <1>4, LibQueueStep DEF Steady, CbAbout

\* Only jobs of c could lose the write event.
LEMMA NoLossBy ==
    ASSUME LoopsInv, JobsInv, NEW c,
           \A d \in Conns : d # c => JobsSame(d) /\ JobsHeld(d),
           \A j \in Alive : bind[j].obj = c /\ "W" \in job[j].ev =>
             job'[j].del \/ "W" \in job'[j].ev
    PROVE  NoLoss
<1> SUFFICES ASSUME NEW j \in Alive, job[j].kind = "wr", "W" \in job[j].ev, bind[j].obj # c
             PROVE  "W" \in job'[j].ev
  BY DEF NoLoss
<1>1. bind[j].obj \in Conns /\ ~job[j].del
  BY WriterLives DEF JobsInv, BindShape
<1> QED
  BY <1>1 DEF JobsSame, JobsHeld

LEMMA SameWrites ==
    ASSUME NEW c, \A j \in Alive : bind[j].obj = c /\ "W" \in job[j].ev =>
                    j \in Alive' /\ bind'[j] = bind[j] /\ "W" \in job'[j].ev,
           \A j \in Alive' : bind'[j].obj = c /\ "W" \in job'[j].ev =>
                    j \in Alive /\ bind'[j] = bind[j] /\ "W" \in job[j].ev
    PROVE  JobsQuiet(c)
BY DEF JobsQuiet, Writes, Sends

LEMMA RegisterReadQueue ==
    ASSUME LoopsInv, StreamInv, JobsInv, QueueInv, KeepsEvent, "ctlSpace" \in Rules,
           NEW a \in Actors, register_read(a)
    PROVE  QueueInv'
<1>1. PICK c : c = call[a].obj
  OBVIOUS
<1>2. call[a].pc \in {"addread", "addset"} /\ UNCHANGED <<conn, cb>>
  BY DEF register_read, ConnKeeps
<1>3. /\ c \in Conns /\ ConnShape(c) /\ CallShape(c, a) /\ a = 0 /\ 0 \in Actors
  BY <1>1, <1>2, CallHere, AliveFacts DEF ConnPcs, InitPcs
<1>4. ~conn[c].freed /\ ~Unconnected(c) /\ conn[c].fd # NoFd /\ conn[c].fd \in Fds
  BY <1>2, <1>3 DEF CallShape, InitPcs, StreamInv, StreamType, ConnRec, FdOrNone
<1>5. Usable(c)
  BY <1>3, <1>4 DEF Usable, ConnShape, JobShape
<1>6. /\ ReadsNew(a, c) \/ ReadsCtl(a, c) \/ ReadsSet(a, c)
      /\ LibStep
  BY <1>1, <1>3, <1>4, <1>5, RegisterReadKind
<1>7. PICK p \in {"addset", "rdflag"} : call'[a].pc = p /\ call'[a].obj = c /\ OneCall(a)
  BY <1>1, <1>6, CallsOf DEF ReadsNew, ReadsCtl, ReadsSet
<1>8. CallAbout(a, c) /\ Steady(c)
  BY <1>1, <1>2, <1>3, <1>7, FlagSteady DEF CallAbout
<1>9. CallsQuiet(c)
  BY <1>2, <1>3, <1>7, CallsLeft DEF SendPcs
<1>10. ASSUME Stays, UNCHANGED <<pc, batch, cur>>, JobsQuiet(c),
              \A d \in Conns : d # c => JobsSame(d) /\ JobsHeld(d),
              \A d \in Conns : BindSame(d),
              \A j \in Alive : bind[j].obj = c /\ "W" \in job[j].ev => "W" \in job'[j].ev
       PROVE  QueueInv'
  <2>1. NoLoss
    BY <1>10, NoLossBy
  <2> QED
    BY <1>2, <1>3, <1>8, <1>9, <1>10, <2>1, LibQuiet
<1>11. CASE ReadsNew(a, c)
  <2>1. /\ Made(c, conn[c].fd, "wr", {"R"}) /\ Stays
        /\ \A d : d # c => JobsSame(d) /\ JobsHeld(d)
        /\ UNCHANGED <<pc, cur>>
    BY <1>3, <1>4, <1>6, <1>11, MadeKeeps DEF ReadsNew, Objects
  <2>2. \A j \in Alive : bind[j].obj # c
    BY <1>3, <1>11 DEF ReadsNew, Unused, ConnShape, JobShape
  <2>3. JobsQuiet(c)
    BY <2>1, <2>2, SameWrites DEF Made
  <2>4. batch' = batch /\ \A d \in Conns : BindSame(d)
    BY <1>11, <2>1 DEF ReadsNew, Creates, Made, BindSame
  <2> QED
    BY <1>10, <2>1, <2>2, <2>3, <2>4
<1>12. CASE ReadsCtl(a, c)
  <2>1. UNCHANGED <<njobs, job, freed, bind, aborted, lateDel, pc, batch, cur>>
    BY <1>12 DEF ReadsCtl, ReadCtl
  <2>2. Stays /\ \A d : JobsSame(d) /\ JobsHeld(d)
    BY <1>6, <2>1, SameKeeps
  <2>3. \A d \in Conns : BindSame(d) /\ JobsQuiet(d)
    BY <2>1, <2>2, SameQuiet DEF BindSame
  <2> QED
    BY <1>3, <1>10, <2>1, <2>2, <2>3
<1>13. CASE ReadsSet(a, c)
  <2>1. PICK h \in half : h.by = a /\ ReadSet(h) /\ bind[h.job].obj = c
    BY <1>13 DEF ReadsSet
  <2>2. PICK j \in Alive : j = h.job /\ ~job[j].del
    BY AliveFacts DEF LoopsInv, WatchInv, OneJobInv, Shape, HalfShape
  <2>3. /\ UNCHANGED <<njobs, freed, bind, aborted, lateDel, pc, batch, cur>>
        /\ JobSet(j, [job[j] EXCEPT !.rdcb = TRUE, !.ev = @ \cup {"R"}])
    BY <1>13, <2>1, <2>2 DEF ReadsSet, ReadSet
  <2>4. /\ Stays /\ Alive' = Alive
        /\ \A d : d # c => JobsSame(d) /\ JobsHeld(d)
    BY <1>6, <2>1, <2>2, <2>3, ChangedKeeps, LateByLoop
  <2>5. job'[j].ev = job[j].ev \cup {"R"}
    <3>1. PICK t \in JobRec : t = job[j]
      BY AliveFacts
    <3>2. PICK u : u = [t EXCEPT !.rdcb = TRUE, !.ev = t.ev \cup {"R"}]
      OBVIOUS
    <3>3. u.ev = t.ev \cup {"R"}
      BY <3>2 DEF JobRec
    <3>4. job'[j] = u
      BY <2>3, <3>1, <3>2 DEF JobSet
    <3> QED
      BY <3>1, <3>3, <3>4
  <2>6. \A k \in Alive : bind[k].obj = c => k = j
    BY <1>3, <2>1, <2>2, OnlyJob
  <2>7. \A k \in Alive : bind[k].obj = c => ("W" \in job'[k].ev <=> "W" \in job[k].ev)
    BY <2>5, <2>6
  <2>8. JobsQuiet(c)
    BY <2>3, <2>4, <2>7, SameWrites
  <2> QED
    BY <1>10, <2>3, <2>4, <2>7, <2>8 DEF BindSame
<1> QED
  BY <1>6, <1>11, <1>12, <1>13

\* free's calls.
LEMMA UnregisterReadQueue ==
    ASSUME LoopsInv, StreamInv, JobsInv, QueueInv, KeepsEvent, NEW a \in Actors, unregister_read(a)
    PROVE  QueueInv'
<1>1. PICK c : c = call[a].obj
  OBVIOUS
<1>2. /\ call[a].pc = "unread" /\ Goto2(a, "unwrite") /\ UNCHANGED <<cb, bind>>
      /\ DelRead(a, c) /\ conn' = [conn EXCEPT ![c].rd = FALSE]
  BY <1>1 DEF unregister_read, ConnKeeps
<1>3. c \in Conns /\ 0 \in Actors
  BY <1>1, <1>2, CallHere, AliveFacts DEF ConnPcs, FreeConnPcs
<1>4. DelsWr(c, "R", "W") /\ LibStep
  BY <1>2, <1>3, DelWrKinds
<1>5. /\ CallKeeps(c) /\ Alive' = Alive
      /\ \A j \in Alive : bind[j].obj = c => DelLeaves(j, "R", "W")
  BY <1>2, <1>3, <1>4, DelKeeps
<1>6. batch' = batch
  BY <1>4 DEF DelsWr, DelWr, vars
<1>7. \A j \in Alive : bind[j].obj = c => ("W" \in job'[j].ev <=> "W" \in job[j].ev)
  BY <1>5 DEF DelLeaves
<1>8. JobsQuiet(c) /\ \A d \in Conns : BindSame(d)
  BY <1>2, <1>5, <1>7, SameWrites DEF BindSame
<1>9. NoLoss
  BY <1>5, <1>7, NoLossBy DEF CallKeeps
<1>10. Steady(c)
  BY <1>2, <1>3, FlagSteady
<1>11. conn'[c].wr = conn[c].wr
  BY <1>2, <1>3, FlagSets DEF FlagsNow
<1>12. call'[a].pc = "unwrite" /\ call'[a].obj = c /\ OneCall(a)
  BY <1>1, <1>2, CallsOf
<1>13. CallsQuiet(c) /\ CallAbout(a, c)
  BY <1>1, <1>2, <1>3, <1>11, <1>12, CallsLeft DEF SendPcs, CallAbout
<1> QED
  BY <1>2, <1>3, <1>5, <1>6, <1>8, <1>9, <1>10, <1>13, LibQuiet DEF CallKeeps

LEMMA UnregisterWriteQueue ==
    ASSUME LoopsInv, StreamInv, JobsInv, QueueInv, KeepsEvent, NEW a \in Actors, unregister_write(a)
    PROVE  QueueInv'
<1>1. PICK c : c = call[a].obj
  OBVIOUS
<1>2. /\ call[a].pc = "unwrite" /\ Goto2(a, "unlock") /\ UNCHANGED <<cb, bind>>
      /\ conn[c].wr \/ conn[c].cn => DelWrite(a, c)
      /\ ~(conn[c].wr \/ conn[c].cn) => UNCHANGED vars
      /\ conn[c].wr => conn' = [conn EXCEPT ![c].wr = FALSE]
      /\ ~conn[c].wr => conn' = [conn EXCEPT ![c].cn = FALSE]
  BY <1>1 DEF unregister_write, ConnKeeps
<1>3. c \in Conns /\ ConnShape(c) /\ CallShape(c, a) /\ a = 0 /\ regLock[c] = a /\ call[a] # NoCall
  BY <1>1, <1>2, CallHere DEF ConnPcs, FreeConnPcs, LockPcs
<1>4. ~conn[c].rd /\ 0 \in Actors /\ conn[c].freed
  BY <1>2, <1>3 DEF CallShape, FreeConnPcs
<1>5. ~conn[c].wr /\ ~conn[c].cn => ~WrKnown(c)
  <2>1. \A b \in Actors : call[b].obj = c => call[b].pc # "wrflag"
    BY <1>2, <1>3 DEF JobsInv, ActorShape, LockPcs
  <2>2. ~InCb(c, {"againflag"})
    BY <1>3, NoCallInCallback DEF InCb, ConnCbPcs, SendCbPcs, UserCode, None
  <2> QED
    BY <2>1, <2>2 DEF WrKnown
<1>6. ASSUME NEW j \in Alive, bind[j].obj = c, ~job[j].del
      PROVE  "R" \notin job[j].ev /\ (conn[c].wr \/ conn[c].cn)
  <2>1. JobShape(c, j)
    BY <1>3, <1>6 DEF ConnShape
  <2>2. ~RdKnown(c)
    BY <1>2, <1>3, <1>4 DEF RdKnown, InLoop
  <2> QED
    BY <1>5, <1>6, <2>1, <2>2 DEF JobShape
<1>7. DelsWr(c, "W", "R") /\ LibStep
  <2>1. CASE conn[c].wr \/ conn[c].cn
    BY <1>2, <1>3, <2>1, DelWrKinds
  <2>2. CASE ~(conn[c].wr \/ conn[c].cn)
    BY <1>2, <1>6, <2>2 DEF DelsWr, LibStep
  <2> QED
    BY <2>1, <2>2
<1>8. /\ CallKeeps(c) /\ Alive' = Alive
      /\ \A j \in Alive : bind[j].obj = c => DelLeaves(j, "W", "R")
  BY <1>2, <1>3, <1>7, DelKeeps
<1>9. batch' = batch
  BY <1>7 DEF DelsWr, DelWr, vars
<1>10. \A j \in Alive : bind[j].obj = c => job'[j].del /\ "W" \notin job'[j].ev
  BY <1>6, <1>8 DEF DelLeaves
<1>11. ~Writes(c)' /\ \A d \in Conns : BindSame(d)
  BY <1>2, <1>8, <1>10 DEF Writes, BindSame
<1>12. NoLoss
  BY <1>8, <1>10, NoLossBy DEF CallKeeps
<1>13. Steady(c)
  BY <1>2, <1>3, FlagSteady
<1>14. conn'[c].freed
  BY <1>4, <1>13 DEF Steady
<1>15. call'[a].pc = "unlock" /\ call'[a].obj = c /\ OneCall(a)
  BY <1>1, <1>2, CallsOf
<1>16. CallsQuiet(c) /\ CallAbout(a, c)
  BY <1>1, <1>2, <1>3, <1>4, <1>11, <1>15, CallsLeft DEF SendPcs, CallAbout
<1> QED
  BY <1>2, <1>3, <1>8, <1>9, <1>11, <1>12, <1>13, <1>14, <1>16, LibQuiet DEF CallKeeps

\* The acceptors have no queue.
LEMMA AcceptorQueue ==
    ASSUME LoopsInv, StreamInv, JobsInv, QueueInv, Stays, UNCHANGED <<pc, batch, cur, cb, conn>>,
           \A d \in Conns : JobsSame(d) /\ JobsHeld(d) /\ BindSame(d),
           NEW a \in Actors, NEW x \in Acceptors, CallAbout(a, x)
    PROVE  QueueInv'
<1>1. x \notin Conns
  BY NamesAssumption
<1>2. NoLoss
  <2>1. \A j \in Alive : bind[j].obj = x => "W" \notin job[j].ev
    BY <1>1, WriterLives DEF JobsInv, BindShape
  <2>2. \A d \in Conns : JobsSame(d) /\ JobsHeld(d)
    OBVIOUS
  <2> QED
    BY <2>1, <2>2, NoLossBy
<1>3. OthersQuiet(x) /\ CbAbout(x)
  BY DEF OthersQuiet, ConnQuiet, CoreSame, DataSame, CbAbout
<1> QED
  BY <1>1, <1>2, <1>3, LibQueueStep

LEMMA AcceptInitQueue ==
    ASSUME LoopsInv, StreamInv, JobsInv, QueueInv, KeepsEvent, "ctlSpace" \in Rules,
           NEW a \in Actors, NEW x \in Acceptors, accept_init(a, x)
    PROVE  QueueInv'
<1>1. /\ Free(a) /\ acc[x].mem = None
      /\ UNCHANGED <<conn, regLock, call, cb, cli>>
  BY DEF accept_init
<1>2. PICK f \in Closed : /\ add_listen_job(a, f) /\ bind' = Bound(x, f, None)
  BY DEF accept_init
<1>3. f \in Fds /\ f # NoFd /\ Unused(f)
  BY ClosedUnused
<1>4. Creates(f, "listen", {"R"}, 0)
  BY <1>2, <1>3, AddListenKind
<1>5. NewBind(x, None)
  <2>1. njobs \in Nat /\ njobs' = njobs + 1
    BY <1>4, AliveFacts DEF Creates
  <2> QED
    BY <1>2, <2>1 DEF NewBind, Bound
<1>6. LibStep
  BY <1>2, <1>3, CallIsNext DEF Call, LoopsInv, NoAbort
<1>7. x \in Objects /\ x \notin Conns
  BY NamesAssumption DEF Objects
<1>8. /\ Made(x, f, "listen", {"R"}) /\ Stays
      /\ \A d : d # x => JobsSame(d) /\ JobsHeld(d)
      /\ UNCHANGED <<pc, cur>>
  BY <1>3, <1>4, <1>5, <1>6, <1>7, MadeKeeps
<1>9. CallAbout(a, x)
  BY <1>1 DEF Free, NoCall, CallAbout, OneCall
<1>10. batch' = batch
  BY <1>4 DEF Creates
<1>11. \A d \in Conns : BindSame(d)
  BY <1>8 DEF Made, BindSame
<1> QED
  BY <1>1, <1>7, <1>8, <1>9, <1>10, <1>11, AcceptorQueue

LEMMA AcceptFreeQueue ==
    ASSUME LoopsInv, StreamInv, JobsInv, QueueInv, KeepsEvent, RecvHabits \subseteq Habits,
           NEW a \in Actors, NEW x \in Acceptors, accept_free(a, x)
    PROVE  QueueInv'
<1>1. /\ Free(a) /\ a = 0 /\ call[a] = NoCall
      /\ acc[x].fd # NoFd /\ x \notin Conns /\ UNCHANGED <<conn, cb, bind>>
  BY NamesAssumption DEF accept_free, Free, RecvHabits, AllHabits
<1>2. PICK j : j = find_io_job(acc[x].fd)
  OBVIOUS
<1>3. CASE j = NoJob
  <2>1. UNCHANGED <<vars, call>>
    BY <1>2, <1>3 DEF accept_free
  <2>2. Stays /\ \A d : JobsSame(d) /\ JobsHeld(d)
    BY <1>1, <2>1, VarsKept
  <2>3. CallAbout(a, x) /\ \A d \in Conns : BindSame(d)
    BY <1>1, <2>1 DEF CallAbout, OneCall, NoCall, BindSame
  <2> QED
    BY <1>1, <2>1, <2>2, <2>3, AcceptorQueue DEF vars
<1>4. CASE j # NoJob
  <2>1. del_listen_job_mark(a, acc[x].fd) /\ Enters(a, "freelisten", x)
    BY <1>2, <1>4 DEF accept_free, Enters
  <2>2. j \in Alive /\ job[j].fd = acc[x].fd /\ ~job[j].del /\ acc[x].fd \in Fds
    BY <1>2, <1>4, FindsSome
  <2>3. ListenMark(a, j)
    BY <1>2, <2>1, <2>2, ListenMarkKind, AliveFacts
  <2>4. LibStep
    BY <2>1, <2>2, CallIsNext DEF Call, LoopsInv, NoAbort
  <2>5. bind[j].obj = x
    <3>1. bind[j].obj \in Acceptors
      BY <2>2, <2>3 DEF ListenMark, JobsInv, BindShape
    <3> QED
      BY <1>1, <2>2, <3>1 DEF JobsInv, AccShape
  <2>6. PICK fr : JobSet(j, [job[j] EXCEPT !.free = fr, !.del = TRUE])
    BY <2>3 DEF ListenMark
  <2>7. /\ UNCHANGED <<njobs, freed, aborted, pc, batch, cur>>
        /\ \A d \in lateDel' : d.by = 0
    <3>1. PICK e : e = [by |-> a, fd |-> job[j].fd]
      OBVIOUS
    <3>2. lateDel' = lateDel \cup {e} /\ e.by = 0
      BY <1>1, <2>3, <3>1 DEF ListenMark
    <3> QED
      BY <2>3, <3>2, LateByLoop DEF ListenMark
  <2>8. Stays /\ \A d : d # x => JobsSame(d) /\ JobsHeld(d)
    BY <1>1, <2>2, <2>4, <2>5, <2>6, <2>7, ChangedKeeps
  <2>9. call'[a].pc = "freelisten" /\ call'[a].obj = x /\ OneCall(a)
    BY <2>1, CallsOf
  <2>10. CallAbout(a, x) /\ \A d \in Conns : BindSame(d)
    BY <1>1, <2>9 DEF CallAbout, NoCall, BindSame
  <2> QED
    BY <1>1, <2>7, <2>8, <2>10, AcceptorQueue
<1> QED
  BY <1>3, <1>4

LEMMA AcceptFreeCtlQueue ==
    ASSUME LoopsInv, StreamInv, JobsInv, QueueInv, NEW a \in Actors, accept_free_ctl(a)
    PROVE  QueueInv'
<1>1. PICK x : x = call[a].obj
  OBVIOUS
<1>2. /\ call[a].pc = "freelisten" /\ del_listen_job_ctl(a) /\ Return2(a)
      /\ UNCHANGED <<conn, cb, bind>>
  BY DEF accept_free_ctl
<1>3. x \in Acceptors
  BY <1>1, <1>2 DEF JobsInv, ActorShape, NoCall, None, ConnPcs, SendPcs, DirectPcs,
     FreeConnPcs, InitPcs
<1>4. PICK d \in lateDel : ListenCtl(d)
  BY <1>2, ListenCtlKind, AliveFacts
<1>5. LibStep
  BY <1>2, CallIsNext DEF Call, LoopsInv, NoAbort
<1>6. UNCHANGED <<njobs, job, freed, aborted, pc, batch, cur>> /\ lateDel' \subseteq lateDel
  BY <1>4 DEF ListenCtl
<1>7. Stays /\ \A d2 : JobsSame(d2) /\ JobsHeld(d2)
  BY <1>2, <1>5, <1>6, SameKeeps
<1>8. CallAbout(a, x) /\ \A d2 \in Conns : BindSame(d2)
  BY <1>1, <1>2, CallsOf DEF CallAbout, NoCall, BindSame
<1> QED
  BY <1>2, <1>3, <1>6, <1>7, <1>8, AcceptorQueue
-----------------------------------------------------------------------------
(***************************************************************************)
(* The callbacks that leave the queue alone.                               *)
(***************************************************************************)
LEMMA CallbackQuiet ==
    ASSUME LoopsInv, StreamInv, JobsInv, QueueInv, UNCHANGED <<vars, bind>>,
           NEW c \in Conns, c = cb.obj, NEW p \in {"done", "fail"}, CbGoto(p),
           cb.pc # "conn_ok", CallAbout(0, c), call[0] = NoCall,
           call'[0].obj = c => call'[0].pc \notin SendPcs,
           Steady(c), conn'[c].freed \/ ~Sending(c), conn[c].wr => conn'[c].wr
    PROVE  QueueInv'
<1>1. cb'.pc = p /\ cb'.obj = c
  BY CbGotoFacts
<1>2. ~InCb(c, ConnectCbPcs \cup SendCbPcs)' /\ ~InCb(c, {"conn_ok"})
  BY <1>1 DEF InCb, ConnectCbPcs, SendCbPcs
<1>3. 0 \in Actors /\ call[0].pc = None
  BY AliveFacts DEF NoCall
<1>4. CallsQuiet(c)
  BY <1>3, CallsLeft DEF CallAbout, None
<1>5. CbAbout(c)
  BY <1>1 DEF CbAbout
<1> QED
  BY <1>2, <1>3, <1>4, <1>5, OwnQuiet

LEMMA QuietCallbackQueue ==
    ASSUME LoopsInv, StreamInv, JobsInv, QueueInv,
           \/ recv_handle_fails \/ send_handle_flag
           \/ connect_cleanup /\ CbGoto("done")
    PROVE  QueueInv'
<1>1. PICK c : c = cb.obj
  OBVIOUS
<1>2. /\ cb.pc \in {"recv", "againflag", "cleanup"} /\ UNCHANGED <<vars, bind, call>>
      /\ (cb.pc = "recv" => call[0] = NoCall)
      /\ CbGoto("done") \/ CbGoto("fail")
  BY DEF recv_handle_fails, send_handle_flag, connect_cleanup, CbKeeps
<1>3. cb.pc \in ConnCbPcs
  BY <1>2 DEF ConnCbPcs, SendCbPcs, ConnectCbPcs
<1>4. c \in Conns
  BY <1>1, <1>3, CbInConns
<1>5. call[0] = NoCall
  BY <1>2, <1>3, NoCallInCallback DEF UserCode, None
<1>6. CallAbout(0, c) /\ call'[0].obj # c
  BY <1>2, <1>4, <1>5, NamesAssumption DEF CallAbout, OneCall, NoCall, None
<1>7. ~Sending(c) /\ cb.pc # "conn_ok"
  BY <1>2 DEF Sending, InCb
<1>8. Steady(c) /\ (conn[c].wr => conn'[c].wr)
  <2>1. conn' = conn \/ conn' = [conn EXCEPT ![c].wr = TRUE]
    BY <1>1 DEF recv_handle_fails, send_handle_flag, connect_cleanup
  <2>2. CASE conn' = conn
    BY <1>4, <2>2, FlagSteady
  <2>3. CASE conn' = [conn EXCEPT ![c].wr = TRUE]
    BY <1>4, <2>3, FlagSteady, FlagSets DEF FlagsNow
  <2> QED
    BY <2>1, <2>2, <2>3
<1>9. CASE CbGoto("done")
  BY <1>1, <1>2, <1>4, <1>5, <1>6, <1>7, <1>8, <1>9, CallbackQuiet
<1>10. CASE CbGoto("fail")
  BY <1>1, <1>2, <1>4, <1>5, <1>6, <1>7, <1>8, <1>10, CallbackQuiet
<1> QED
  BY <1>2, <1>9, <1>10

LEMMA FailFreeQueue ==
    ASSUME LoopsInv, StreamInv, JobsInv, QueueInv, FailFree
    PROVE  QueueInv'
<1>1. PICK c : c = cb.obj
  OBVIOUS
<1>2. cb.pc = "fail" /\ FreeLock(0, c) /\ CbGoto("done") /\ UNCHANGED <<vars, bind>>
  BY <1>1 DEF FailFree
<1>3. cb.pc \in ConnCbPcs
  BY <1>2 DEF ConnCbPcs
<1>4. c \in Conns /\ call[0] = NoCall
  BY <1>1, <1>2, <1>3, CbInConns, NoCallInCallback DEF UserCode, None
<1>5. /\ Steady(c) /\ conn'[c].freed /\ conn'[c].wr = conn[c].wr
      /\ CallAbout(0, c) /\ call'[0].pc \notin SendPcs
  BY <1>2, <1>4, FreeLockSteady
<1> QED
  BY <1>1, <1>2, <1>4, <1>5, CallbackQuiet

\* The connection of accept_refuse is none.
LEMMA AcceptRefuseQueue ==
    ASSUME LoopsInv, StreamInv, JobsInv, QueueInv, accept_refuse
    PROVE  QueueInv'
<1>1. /\ cb.pc = "accept" /\ CbGoto("done") /\ UNCHANGED <<vars, conn, call, bind>>
  BY DEF accept_refuse
<1>2. PICK c : c = cb.obj
  OBVIOUS
<1>3. c \notin Conns /\ call[0] = NoCall /\ 0 \in Actors
  BY <1>1, <1>2, AcceptHere, AliveFacts
<1>4. cb'.obj = c
  BY <1>1, <1>2, CbGotoFacts
<1>5. CbAbout(c) /\ CallAbout(0, c) /\ OthersQuiet(c)
  BY <1>1, <1>2, <1>3, <1>4
     DEF CbAbout, CallAbout, OneCall, NoCall, OthersQuiet, ConnQuiet, CoreSame, DataSame
<1> QED
  BY <1>1, <1>3, <1>5, OwnQueueStep
-----------------------------------------------------------------------------
(***************************************************************************)
(* The write callbacks.                                                    *)
(***************************************************************************)
\* A connection's record is replaced.
LEMMA ConnBecomes ==
    ASSUME StreamInv, NEW c \in Conns, NEW q, conn' = [conn EXCEPT ![c] = q]
    PROVE  conn'[c] = q /\ OthersQuiet(c) /\ \A d \in Conns : d # c => CoreSame(d)
<1>1. conn'[c] = q /\ \A d \in Conns : d # c => conn'[d] = conn[d]
  BY DEF StreamInv, StreamType
<1> QED
  BY <1>1 DEF OthersQuiet, ConnQuiet, CoreSame, DataSame

\* A callback of c goes to a pc where it still is about to write, or ends.
LEMMA WriteCbStep ==
    ASSUME LoopsInv, StreamInv, JobsInv, QueueInv, UNCHANGED <<vars, bind, call>>,
           NEW c \in Conns, c = cb.obj, NEW p, CbGoto(p), call[0] = NoCall,
           cb.pc \in {"entry", "take", "sendbuf"},
           p \in {"take", "sendbuf", "again", "fail", "done"},
           OthersQuiet(c), CoreSame(c), conn'[c].async => conn[c].async,
           Data(c)' => Data(c), p = "done" => ~Data(c)', p = "take" => conn'[c].node = <<>>
    PROVE  QueueInv'
<1>1. cb'.pc = p /\ cb'.obj = c
  BY CbGotoFacts
<1>2. CallAbout(0, c) /\ CbAbout(c) /\ 0 \in Actors
  BY <1>1, AliveFacts DEF CallAbout, OneCall, NoCall, CbAbout
<1>3. JobsQuiet(c)
  BY VarsQuiet
<1>4. Unconnected(c)' <=> Unconnected(c)
  BY <1>1 DEF Unconnected, InCb, CoreSame
<1>5. ~Connecting(c)'
  BY <1>1 DEF Connecting, InCb
<1>6. \A ps \in {ConnectCbPcs, {"conn_ok", "conn_bad", "cleanup"}, {"unreg"}} : ~InCb(c, ps)'
  BY <1>1 DEF InCb, ConnectCbPcs
<1>7. InCb(c, {"take"})' => conn'[c].node = <<>>
  BY <1>1 DEF InCb
<1>8. Data(c)' => Sending(c)'
  BY <1>1 DEF Sending, InCb
<1>9. QueueShape(c)
  BY DEF QueueInv
<1>10. QueueShape(c)'
  BY <1>3, <1>4, <1>5, <1>6, <1>7, <1>8, <1>9 DEF QueueShape, JobsQuiet, CoreSame
<1> QED
  BY <1>2, <1>10, OwnQueueStep

LEMMA WriteEntryQueue ==
    ASSUME LoopsInv, StreamInv, JobsInv, QueueInv, WriteEntry
    PROVE  QueueInv'
<1>1. PICK c : c = cb.obj
  OBVIOUS
<1>2. cb.pc = "entry" /\ UNCHANGED <<vars, conn, bind, call>>
  BY DEF WriteEntry, CbKeeps
<1>3. c \in Conns /\ ConnShape(c) /\ call[0] = NoCall
  BY <1>1, <1>2, SendingHere DEF SendCbPcs
<1>4. OthersQuiet(c) /\ CoreSame(c) /\ (Data(c)' <=> Data(c)) /\ conn'[c] = conn[c]
  BY <1>2 DEF OthersQuiet, ConnQuiet, CoreSame, DataSame, Data
<1>5. CASE bind[cur[0].job].wcb # "connect"
  <2>1. (CbGoto("take") /\ conn[c].node = <<>>) \/ CbGoto("sendbuf")
    BY <1>1, <1>5 DEF WriteEntry
  <2>2. CASE CbGoto("take") /\ conn[c].node = <<>>
    BY <1>1, <1>2, <1>3, <1>4, <2>2, WriteCbStep
  <2>3. CASE CbGoto("sendbuf")
    BY <1>1, <1>2, <1>3, <1>4, <2>3, WriteCbStep
  <2> QED
    BY <2>1, <2>2, <2>3
<1>6. CASE bind[cur[0].job].wcb = "connect"
  <2>1. cb'.pc = "connect" /\ cb'.obj = c
    <3>1. CbGoto("connect")
      BY <1>6 DEF WriteEntry
    <3> QED
      BY <1>1, <3>1, CbGotoFacts
  <2>2. QueueShape(c) /\ Connecting(c)
    BY <1>1, <1>2, <1>3, <1>6 DEF QueueInv, Connecting, InCb
  <2>3. Unconnected(c) /\ ~Writes(c) /\ ~Data(c)
    BY <2>2 DEF QueueShape
  <2>4. Unconnected(c)' /\ ~Writes(c)' /\ ~Data(c)'
    <3>1. JobsQuiet(c)
      BY <1>2, <1>3, VarsQuiet
    <3> QED
      BY <1>2, <1>4, <2>1, <2>3, <3>1 DEF Unconnected, InCb, JobsQuiet
  <2>5. \A a \in Clients : call'[a].obj = c => call'[a].pc \notin SendPcs
    <3> SUFFICES ASSUME NEW a \in Clients, call[a].obj = c PROVE call[a].pc \notin SendPcs
      BY <1>2
    <3> QED
      BY <1>3, <2>3 DEF ConnShape, CallShape, Actors
  <2>6. ~InCb(c, {"take"})'
    BY <2>1 DEF InCb
  <2>7. QueueShape(c)'
    BY <2>4, <2>5, <2>6 DEF QueueShape
  <2>8. CallAbout(0, c) /\ CbAbout(c) /\ 0 \in Actors
    BY <1>1, <1>2, <1>3, <2>1, AliveFacts DEF CallAbout, OneCall, NoCall, CbAbout
  <2> QED
    BY <1>2, <1>4, <2>7, <2>8, OwnQueueStep
<1> QED
  BY <1>5, <1>6
LEMMA NodeFacts ==
    ASSUME StreamInv, NEW c \in Conns
    PROVE  conn[c].node \in Seq(Unit) /\ conn[c].queue \in Seq(Unit) /\ conn[c] \in ConnRec
BY DEF StreamInv, StreamType, ConnRec

LEMMA SendTakeQueue ==
    ASSUME LoopsInv, StreamInv, JobsInv, QueueInv, send_handle_take
    PROVE  QueueInv'
<1>1. PICK c : c = cb.obj
  OBVIOUS
<1>2. cb.pc = "take" /\ UNCHANGED <<vars, bind, call>>
  BY DEF send_handle_take, CbKeeps
<1>3. c \in Conns /\ call[0] = NoCall
  BY <1>1, <1>2, SendingHere DEF SendCbPcs
<1>4. PICK q : q = conn[c].queue
  OBVIOUS
<1>5. PICK n : n = IF Len(q) < NodeSize THEN Len(q) ELSE NodeSize
  OBVIOUS
<1>6. /\ conn' = [conn EXCEPT ![c].node = SubSeq(q, 1, n), ![c].queue = SubSeq(q, n + 1, Len(q))]
      /\ CbGoto(IF n = 0 THEN "done" ELSE "sendbuf")
  BY <1>1, <1>4, <1>5 DEF send_handle_take
<1>7. PICK k \in ConnRec : k = conn[c] /\ k.queue = q /\ q \in Seq(Unit)
  BY <1>3, <1>4, NodeFacts
<1>8. PICK v, w : v = SubSeq(q, 1, n) /\ w = SubSeq(q, n + 1, Len(q))
  OBVIOUS
<1>9. PICK r : r = [k EXCEPT !.node = v, !.queue = w]
  OBVIOUS
<1>10. conn' = [conn EXCEPT ![c] = r]
  BY <1>6, <1>7, <1>8, <1>9
<1>11. conn'[c] = r /\ OthersQuiet(c)
  BY <1>3, <1>10, ConnBecomes
<1>12. CoreSame(c)
  BY <1>3, <1>6, DataSets
<1>13. r.node = v /\ r.queue = w /\ r.async = k.async
  BY <1>9 DEF ConnRec
<1>14. conn[c].node = <<>>
  BY <1>1, <1>2, <1>3 DEF QueueInv, QueueShape, InCb
<1>15. CASE q = <<>>
  <2>1. n = 0
    BY <1>5, <1>15, NodeSizeAssumption
  <2>2. v = <<>> /\ w = <<>>
    BY <1>8, <1>15, <2>1
  <2>3. CbGoto("done") /\ ~Data(c)'
    BY <1>6, <1>11, <1>13, <2>1, <2>2 DEF Data
  <2> QED
    BY <1>1, <1>2, <1>3, <1>7, <1>11, <1>12, <1>13, <2>3, WriteCbStep
<1>16. CASE q # <<>>
  <2>1. n # 0
    BY <1>5, <1>7, <1>16, NodeSizeAssumption
  <2>2. CbGoto("sendbuf") /\ Data(c)
    BY <1>4, <1>6, <1>16, <2>1 DEF Data
  <2> QED
    BY <1>1, <1>2, <1>3, <1>7, <1>11, <1>12, <1>13, <2>2, WriteCbStep
<1> QED
  BY <1>15, <1>16

LEMMA SendBufQueue ==
    ASSUME LoopsInv, StreamInv, JobsInv, QueueInv, send_buf_node
    PROVE  QueueInv'
<1>1. PICK c : c = cb.obj
  OBVIOUS
<1>2. cb.pc = "sendbuf" /\ UNCHANGED <<vars, bind, call>>
  BY DEF send_buf_node
<1>3. c \in Conns /\ call[0] = NoCall
  BY <1>1, <1>2, SendingHere DEF SendCbPcs
<1>4. PICK k \in ConnRec : k = conn[c]
  BY <1>3, NodeFacts
<1>5. PICK s \in Seq(Unit) : s = k.node
  BY <1>3, <1>4, NodeFacts
<1>6. CASE conn' = [conn EXCEPT ![c].failed = TRUE, ![c].dead = TRUE] /\ CbGoto("fail")
  <2>1. PICK r : r = [k EXCEPT !.failed = TRUE, !.dead = TRUE]
    OBVIOUS
  <2>2. conn' = [conn EXCEPT ![c] = r]
    BY <1>4, <1>6, <2>1
  <2>3. conn'[c] = r /\ OthersQuiet(c)
    BY <1>3, <2>2, ConnBecomes
  <2>4. r.node = k.node /\ r.queue = k.queue /\ r.async = k.async
    BY <2>1 DEF ConnRec
  <2>5. Data(c)' <=> Data(c)
    BY <1>4, <2>3, <2>4 DEF Data
  <2>6. CoreSame(c)
    BY <1>3, <1>6, DataSets
  <2> QED
    BY <1>1, <1>2, <1>3, <1>4, <1>6, <2>3, <2>4, <2>5, <2>6, WriteCbStep
<1>7. ASSUME NEW n \in 0 .. Len(s),
             conn' = [conn EXCEPT ![c].node = SubSeq(s, n + 1, Len(s))],
             CbGoto(IF n = Len(s) THEN "take" ELSE "again")
      PROVE  QueueInv'
  <2>1. PICK v : v = SubSeq(s, n + 1, Len(s))
    OBVIOUS
  <2>2. PICK r : r = [k EXCEPT !.node = v]
    OBVIOUS
  <2>3. conn' = [conn EXCEPT ![c] = r]
    BY <1>4, <1>7, <2>1, <2>2
  <2>4. conn'[c] = r /\ OthersQuiet(c)
    BY <1>3, <2>3, ConnBecomes
  <2>5. r.node = v /\ r.queue = k.queue /\ r.async = k.async
    BY <2>2 DEF ConnRec
  <2>6. n = Len(s) => v = <<>>
    BY <2>1, CutConcat
  <2>7. Data(c)' => Data(c)
    <3> SUFFICES ASSUME s = <<>>, k.queue = <<>> PROVE v = <<>>
      BY <1>4, <1>5, <2>4, <2>5 DEF Data
    <3> QED
      BY <2>6
  <2>8. CoreSame(c)
    BY <1>3, <1>7, DataSets
  <2>9. CASE n = Len(s)
    <3>1. CbGoto("take") /\ conn'[c].node = <<>>
      BY <1>7, <2>4, <2>5, <2>6, <2>9
    <3> QED
      BY <1>1, <1>2, <1>3, <1>4, <2>4, <2>5, <2>7, <2>8, <3>1, WriteCbStep
  <2>10. CASE n # Len(s)
    <3>1. CbGoto("again")
      BY <1>7, <2>10
    <3> QED
      BY <1>1, <1>2, <1>3, <1>4, <2>4, <2>5, <2>7, <2>8, <3>1, WriteCbStep
  <2> QED
    BY <2>9, <2>10
<1> QED
  BY <1>1, <1>4, <1>5, <1>6, <1>7 DEF send_buf_node
-----------------------------------------------------------------------------
(***************************************************************************)
(* Calls of add_write_job.                                                 *)
(***************************************************************************)
\* All that connection c has registered is to be written, with callback w.
Written(c, w) ==
    /\ \E j \in Alive : bind[j].obj = c
    /\ \A j \in Alive : bind[j].obj = c => bind[j].wcb = w /\ "W" \in job[j].ev

LEMMA AddedQueue ==
    ASSUME LoopsInv, StreamInv, JobsInv, KeepsEvent, LibStep, NEW c \in Conns,
           NEW w \in {"send", "connect"}, AddsWrite(c, w), conn[c].fd # NoFd
    PROVE  /\ Stays /\ NoLoss /\ UNCHANGED <<pc, batch, cur>> /\ Written(c, w)'
           /\ \A d \in Conns : d # c => JobsSame(d) /\ JobsHeld(d) /\ BindSame(d)
<1>1. CallKeeps(c)
  BY AddsWriteKeeps
<1>2. CASE /\ Unused(conn[c].fd) /\ conn[c].fd \in Fds /\ NewBind(c, w)
           /\ Creates(conn[c].fd, "wr", {"W"}, 0)
  <2>1. Made(c, conn[c].fd, "wr", {"W"})
    BY <1>2, MadeKeeps, NamesAssumption DEF Objects
  <2>2. \A j \in Alive : bind[j].obj # c
    BY <1>2 DEF Unused, JobsInv, ConnShape, JobShape
  <2>3. bind'[njobs + 1].wcb = w
    <3>1. njobs + 1 \in Jobs
      <4>1. TypeInv' /\ njobs' = njobs + 1 /\ njobs \in Nat
        BY <1>2, LibTypes, AliveFacts DEF Creates
      <4> QED
        BY <4>1, MaxJobsAssumption DEF TypeInv, TypeOK, Jobs
    <3>2. bind \in [Jobs -> BindRec]
      BY DEF JobsInv, BindShape
    <3> QED
      BY <1>2, <3>1, <3>2 DEF NewBind
  <2>4. \A j \in Alive' : bind'[j].obj = c => j = njobs + 1
    BY <2>1, <2>2 DEF Made
  <2>5. Written(c, w)'
    BY <2>1, <2>3, <2>4 DEF Written, Made
  <2>6. NoLoss /\ \A d \in Conns : BindSame(d)
    BY <2>1 DEF Made, NoLoss, BindSame
  <2>7. batch' = batch
    BY <1>2 DEF Creates
  <2> QED
    BY <1>1, <2>5, <2>6, <2>7 DEF CallKeeps
<1>3. ASSUME NEW j \in Alive, bind[j].obj = c, ~job[j].del,
             bind' = [bind EXCEPT ![j].wcb = w],
             WriteMore(j) \/ (UNCHANGED vars /\ "W" \in job[j].ev)
      PROVE  /\ Stays /\ NoLoss /\ UNCHANGED <<pc, batch, cur>> /\ Written(c, w)'
             /\ \A d \in Conns : d # c => JobsSame(d) /\ JobsHeld(d) /\ BindSame(d)
  <2>1. bind \in [Jobs -> BindRec] /\ j \in Jobs
    BY AliveFacts DEF JobsInv, BindShape
  <2>2. PICK r \in BindRec : r = bind[j]
    BY <2>1
  <2>3. PICK q : q = [r EXCEPT !.wcb = w]
    OBVIOUS
  <2>4. bind' = [bind EXCEPT ![j] = q] /\ q.wcb = w /\ q.obj = c
    BY <1>3, <2>2, <2>3 DEF BindRec
  <2>5. bind'[j] = q /\ \A k \in Alive : k # j => bind'[k] = bind[k]
    BY <2>1, <2>4, AliveFacts
  <2>6. UNCHANGED <<njobs, freed, pc, batch, cur>>
    BY <1>3 DEF WriteMore, vars
  <2>7. Alive' = Alive
    BY <2>6 DEF Alive
  <2>8. /\ \A k \in Alive : k # j => job'[k] = job[k]
        /\ "W" \in job'[j].ev
    <3>1. CASE UNCHANGED vars /\ "W" \in job[j].ev
      BY <3>1 DEF vars
    <3>2. CASE WriteMore(j)
      <4>1. PICK t \in JobRec : t = job[j]
        BY AliveFacts
      <4>2. JobSet(j, [t EXCEPT !.ev = t.ev \cup {"W"}])
        BY <3>2, <4>1 DEF WriteMore
      <4>3. PICK u : u = [t EXCEPT !.ev = t.ev \cup {"W"}]
        OBVIOUS
      <4>4. u.ev = t.ev \cup {"W"}
        BY <4>3 DEF JobRec
      <4>5. job'[j] = u /\ \A k \in Alive : k # j => job'[k] = job[k]
        BY <4>2, <4>3, AliveFacts DEF JobSet
      <4> QED
        BY <4>4, <4>5
    <3> QED
      BY <1>3, <3>1, <3>2
  <2>9. Written(c, w)'
    <3>1. \A k \in Alive : bind[k].obj = c => k = j
      BY <1>3, OnlyJob
    <3>2. \A k \in Alive : bind'[k].obj = c => k = j
      BY <2>5, <3>1
    <3> QED
      BY <2>4, <2>5, <2>7, <2>8, <3>2 DEF Written
  <2>10. NoLoss
    BY <2>8 DEF NoLoss
  <2>11. \A d \in Conns : d # c => BindSame(d)
    BY <1>3, <2>5 DEF BindSame
  <2> QED
    BY <1>1, <2>6, <2>9, <2>10, <2>11 DEF CallKeeps
<1> QED
  BY <1>2, <1>3 DEF AddsWrite

LEMMA SendAgainQueue ==
    ASSUME LoopsInv, StreamInv, JobsInv, QueueInv, KeepsEvent, "ctlSpace" \in Rules,
           send_handle_again
    PROVE  QueueInv'
<1>1. PICK c : c = cb.obj
  OBVIOUS
<1>2. cb.pc = "again" /\ AddWrite(0, c, "send") /\ UNCHANGED <<conn, call>>
  BY <1>1 DEF send_handle_again, ConnKeeps
<1>3. /\ c \in Conns /\ conn[c].fd # NoFd /\ Usable(c) /\ call[0] = NoCall /\ 0 \in Actors
  BY <1>1, <1>2, SendingHere, AliveFacts DEF SendCbPcs
<1>4. AddsWrite(c, "send") /\ LibStep
  BY <1>2, <1>3, AddWriteKind
<1>5. WriteAdded(c)
  BY <1>3, <1>4, AddsWriteKeeps
<1>6. CbGoto("againflag")
  BY <1>1, <1>5 DEF send_handle_again
<1>7. cb'.pc = "againflag" /\ cb'.obj = c
  BY <1>1, <1>6, CbGotoFacts
<1>8. /\ Stays /\ NoLoss /\ UNCHANGED <<pc, batch, cur>> /\ Written(c, "send")'
      /\ \A d \in Conns : d # c => JobsSame(d) /\ JobsHeld(d) /\ BindSame(d)
  BY <1>3, <1>4, AddedQueue
<1>9. Sends(c)'
  BY <1>8 DEF Written, Sends
<1>10. Unconnected(c)' <=> Unconnected(c)
  BY <1>2, <1>7 DEF Unconnected, InCb
<1>11. \A ps \in {{"connect"}, {"entry"}, {"take"}, {"unreg"}, ConnectCbPcs,
                  {"conn_ok", "conn_bad", "cleanup"}} : ~InCb(c, ps)'
  BY <1>7 DEF InCb, ConnectCbPcs
<1>12. QueueShape(c)'
  <2>1. QueueShape(c) /\ ~Connecting(c)'
    BY <1>3, <1>11 DEF QueueInv, Connecting
  <2> QED
    BY <1>2, <1>9, <1>10, <1>11, <2>1 DEF QueueShape, Data
<1>13. CallAbout(0, c) /\ CbAbout(c) /\ OthersQuiet(c)
  BY <1>1, <1>2, <1>3, <1>7
     DEF CallAbout, OneCall, NoCall, CbAbout, OthersQuiet, ConnQuiet, CoreSame, DataSame
<1> QED
  BY <1>3, <1>8, <1>12, <1>13, LibQueueStep

\* Of the loops only loop 0 runs code of the application.
Callers == \A a \in Actors : call[a] # NoCall => a \in Clients \cup {0}

LEMMA SendAddQueue ==
    ASSUME LoopsInv, StreamInv, JobsInv, QueueInv, Callers, KeepsEvent, "ctlSpace" \in Rules,
           NEW a \in Actors, send_data_add(a)
    PROVE  QueueInv'
<1>1. PICK c : c = call[a].obj
  OBVIOUS
<1>2. /\ call[a].pc = "addwrite" /\ AddWrite(a, c, "send") /\ UNCHANGED <<conn, cb>>
  BY <1>1 DEF send_data_add, ConnKeeps
<1>3. /\ c \in Conns /\ ConnShape(c) /\ CallShape(c, a) /\ call[a] # NoCall
  BY <1>1, <1>2, CallHere DEF ConnPcs, SendPcs
<1>4. ~conn[c].freed /\ ~Unconnected(c) /\ conn[c].mem = "live"
  BY <1>2, <1>3 DEF CallShape, SendPcs
<1>5. Usable(c) /\ QueueShape(c)
  BY <1>3, <1>4 DEF Usable, ConnShape, JobShape, QueueInv
<1>6. AddsWrite(c, "send") /\ LibStep
  BY <1>2, <1>3, <1>5, AddWriteKind
<1>7. conn[c].fd # NoFd
  BY <1>4, <1>5 DEF QueueShape
<1>8. WriteAdded(c)
  BY <1>3, <1>6, <1>7, AddsWriteKeeps
<1>9. call'[a].pc = "wrflag" /\ call'[a].obj = c /\ OneCall(a)
  BY <1>1, <1>8, CallsOf DEF send_data_add
<1>10. /\ Stays /\ NoLoss /\ UNCHANGED <<pc, batch, cur>> /\ Written(c, "send")'
       /\ \A d \in Conns : d # c => JobsSame(d) /\ JobsHeld(d) /\ BindSame(d)
  BY <1>3, <1>6, <1>7, AddedQueue
<1>11. Sends(c)'
  BY <1>10 DEF Written, Sends
<1>12. \A ps : InCb(c, ps)' <=> InCb(c, ps)
  BY <1>2 DEF InCb
<1>13. ~Unconnected(c)'
  BY <1>2, <1>4, <1>12 DEF Unconnected
<1>14. ~Connecting(c) /\ ~InCb(c, {"connect"})
  BY <1>4, <1>5 DEF QueueShape, Connecting
<1>15. ~Connecting(c)'
  <2>1. ASSUME InCb(c, {"entry"}) PROVE bind'[cur'[0].job].wcb = "send"
    <3>1. cur[0].job \in Alive /\ bind[cur[0].job].obj = c
      BY <2>1, CbWhere DEF InCb, None
    <3>2. cur' = cur /\ cur[0].job \in Alive' /\ bind'[cur[0].job].obj = c
      <4>1. Alive \subseteq Alive'
        BY <1>3, <1>6, <1>7, AddsWriteKeeps DEF Made
      <4> QED
        BY <1>10, <3>1, <4>1 DEF Stays
    <3> QED
      BY <1>10, <3>2 DEF Written
  <2> QED
    BY <1>12, <1>14, <2>1 DEF Connecting
<1>16. InCb(c, ConnectCbPcs) => a \notin Clients
  BY <1>1, <1>2, <1>5 DEF QueueShape, SendPcs
<1>17. InCb(c, ConnectCbPcs)' =>
         \A b \in Clients : call'[b].obj = c => call'[b].pc \notin SendPcs
  <2>1. Clients \subseteq Actors
    BY DEF Actors
  <2> QED
    BY <1>5, <1>9, <1>12, <1>16, <2>1 DEF QueueShape, OneCall
<1>18. InCb(c, {"conn_ok", "conn_bad", "cleanup"})' => InLoop(c, {"wrflag"})'
  <2>1. InCb(c, {"conn_ok", "conn_bad", "cleanup"})' => a = 0
    BY <1>3, <1>12, <1>16 DEF Callers, InCb, ConnectCbPcs
  <2> QED
    BY <1>9, <2>1 DEF InLoop
<1>19. ~InCb(c, {"unreg"})'
  <2> SUFFICES ASSUME InCb(c, {"unreg"}) PROVE FALSE
    BY <1>12
  <2>1. a = 0
    BY <1>3, <1>16 DEF Callers, InCb, ConnectCbPcs
  <2>2. call[0] = NoCall
    BY NoCallInCallback DEF InCb, UserCode, None, ConnCbPcs, ConnectCbPcs
  <2> QED
    BY <1>3, <2>1, <2>2
<1>20. QueueShape(c)'
  BY <1>2, <1>5, <1>7, <1>11, <1>12, <1>13, <1>15, <1>17, <1>18, <1>19 DEF QueueShape
<1>21. CallAbout(a, c) /\ CbAbout(c) /\ OthersQuiet(c)
  BY <1>1, <1>2, <1>9
     DEF CallAbout, CbAbout, OthersQuiet, ConnQuiet, CoreSame, DataSame
<1> QED
  BY <1>3, <1>10, <1>20, <1>21, LibQueueStep
\* register_connect: no callback of the connection can be running, for it has
\* no job yet.
LEMMA RegisterConnectQueue ==
    ASSUME LoopsInv, StreamInv, JobsInv, QueueInv, KeepsEvent, "ctlSpace" \in Rules,
           NEW a \in Actors, register_connect(a)
    PROVE  QueueInv'
<1>1. PICK c : c = call[a].obj
  OBVIOUS
<1>2. /\ call[a].pc = "addconn" /\ AddWrite(a, c, "connect") /\ UNCHANGED <<conn, cb>>
  BY <1>1 DEF register_connect, ConnKeeps
<1>3. /\ c \in Conns /\ ConnShape(c) /\ CallShape(c, a) /\ call[a] # NoCall /\ a = 0
  BY <1>1, <1>2, CallHere DEF ConnPcs, InitPcs
<1>4. Unconnected(c) /\ conn[c].fd # NoFd
  BY <1>2, <1>3 DEF CallShape, InitPcs
<1>5. \A j \in Alive : bind[j].obj # c
  BY <1>1, <1>2, <1>3 DEF InLoop, ConnShape, JobShape
<1>6. AddsWrite(c, "connect") /\ LibStep
  BY <1>2, <1>3, <1>5, AddWriteKind DEF Usable
<1>7. /\ Stays /\ NoLoss /\ UNCHANGED <<pc, batch, cur>>
      /\ \A d \in Conns : d # c => JobsSame(d) /\ JobsHeld(d) /\ BindSame(d)
  BY <1>3, <1>4, <1>6, AddedQueue
<1>8. cb.obj # c
  <2>1. CASE cb.pc \in {"close", "delete"}
    <3>1. call[0] = NoCall
      BY <2>1, NoCallInCallback DEF UserCode, None
    <3> QED
      BY <1>3, <3>1
  <2>2. CASE cb.pc = None
    BY <1>3, <2>2, NamesAssumption DEF JobsInv, CbShape, None
  <2>3. CASE cb.pc \notin {None, "close", "delete"}
    BY <1>5, <2>3, CbWhere
  <2> QED
    BY <2>1, <2>2, <2>3
<1>9. \A ps : ~InCb(c, ps)'
  BY <1>2, <1>8 DEF InCb
<1>10. Unconnected(c)' /\ ~Connecting(c)'
  BY <1>2, <1>4, <1>9 DEF Unconnected, Connecting
<1>11. ~Data(c)'
  BY <1>2, <1>3, <1>4 DEF QueueInv, QueueShape, Data
<1>12. QueueShape(c)'
  BY <1>9, <1>10, <1>11 DEF QueueShape
<1>13. call'[a] = NoCall /\ OneCall(a)
  BY CallsOf DEF register_connect
<1>14. CallAbout(a, c) /\ CbAbout(c) /\ OthersQuiet(c)
  BY <1>1, <1>2, <1>13
     DEF CallAbout, NoCall, CbAbout, OthersQuiet, ConnQuiet, CoreSame, DataSame
<1> QED
  BY <1>3, <1>7, <1>12, <1>14, LibQueueStep

LEMMA ConnectResultQueue ==
    ASSUME LoopsInv, StreamInv, JobsInv, QueueInv, connect_result
    PROVE  QueueInv'
<1>1. PICK c : c = cb.obj
  OBVIOUS
<1>2. cb.pc = "connect" /\ UNCHANGED <<vars, conn, bind>>
  BY DEF connect_result, ConnKeeps
<1>3. c \in Conns /\ ConnShape(c) /\ call[0] = NoCall /\ conn[c].fd # NoFd /\ 0 \in Actors
  BY <1>1, <1>2, SendingHere, AliveFacts
<1>4. PICK p \in {"conn_ok", "conn_bad"} : CbGoto(p)
  BY DEF connect_result
<1>5. cb'.pc = p /\ cb'.obj = c
  BY <1>1, <1>4, CbGotoFacts
<1>6. OneCall(0) /\ (call' = call \/ (call'[0].pc = "addread" /\ call'[0].obj = c))
  <2>1. call' = call \/ Enters(0, "addread", c)
    BY <1>1 DEF connect_result, Enters
  <2>2. CASE call' = call
    <3>1. OneCall(0)
      BY <2>2 DEF OneCall
    <3> QED
      BY <2>2, <3>1
  <2>3. CASE Enters(0, "addread", c)
    BY <1>3, <2>3, CallsOf
  <2> QED
    BY <2>1, <2>2, <2>3
<1>7. CallAbout(0, c) /\ CbAbout(c) /\ OthersQuiet(c)
  BY <1>1, <1>2, <1>3, <1>5, <1>6
     DEF CallAbout, NoCall, CbAbout, OthersQuiet, ConnQuiet, CoreSame, DataSame
<1>8. QueueShape(c) /\ Connecting(c)
  BY <1>1, <1>2, <1>3 DEF QueueInv, Connecting, InCb
<1>9. Unconnected(c) /\ ~Writes(c) /\ ~Data(c)
  BY <1>8 DEF QueueShape
<1>10. ~Writes(c)' /\ ~Data(c)'
  <2>1. JobsQuiet(c)
    BY <1>2, <1>3, VarsQuiet
  <2> QED
    BY <1>2, <1>9, <2>1 DEF Data, JobsQuiet
<1>11. \A a \in Clients : call'[a].obj = c => call'[a].pc \notin SendPcs
  <2>1. \A a \in Clients : call[a].obj = c => call[a].pc \notin SendPcs
    BY <1>3, <1>9 DEF ConnShape, CallShape, Actors
  <2>2. ASSUME NEW a \in Clients PROVE call'[a] = call[a] \/ call'[a].pc = "addread"
    BY <1>6 DEF OneCall, Actors
  <2> QED
    BY <2>1, <2>2 DEF SendPcs
<1>12. ~Connecting(c)' /\ ~InCb(c, {"take"})' /\ ~InCb(c, {"unreg"})'
  BY <1>5 DEF Connecting, InCb
<1>13. QueueShape(c)'
  BY <1>2, <1>3, <1>10, <1>11, <1>12 DEF QueueShape
<1> QED
  BY <1>2, <1>3, <1>7, <1>13, OwnQueueStep

LEMMA ConnectReturnsQueue ==
    ASSUME LoopsInv, StreamInv, JobsInv, QueueInv, connect_handle_returns
    PROVE  QueueInv'
<1>1. PICK c : c = cb.obj
  OBVIOUS
<1>2. /\ cb.pc \in {"conn_ok", "conn_bad"} /\ call[0] = NoCall /\ CbGoto("cleanup")
      /\ UNCHANGED <<vars, bind, call>>
  BY DEF connect_handle_returns, CbKeeps
<1>3. PICK up : up = (conn[c].up \/ cb.pc = "conn_ok")
  OBVIOUS
<1>4. conn' = [conn EXCEPT ![c].up = up]
  BY <1>1, <1>3 DEF connect_handle_returns
<1>5. c \in Conns
  BY <1>1, <1>2, CbInConns DEF ConnCbPcs, ConnectCbPcs
<1>6. cb'.pc = "cleanup" /\ cb'.obj = c
  BY <1>1, <1>2, CbGotoFacts
<1>7. FlagsNow(c, conn[c].rd, conn[c].wr, conn[c].cn, up, conn[c].freed)
  BY <1>4, <1>5, FlagSets
<1>8. OthersQuiet(c) /\ DataSame(c)
  BY <1>4, <1>5, FlagData
<1>9. Unconnected(c)' <=> Unconnected(c)
  BY <1>1, <1>3, <1>6, <1>7 DEF Unconnected, InCb, FlagsNow
<1>10. /\ ~Sending(c) /\ ~Connecting(c)' /\ ~InCb(c, {"take"})' /\ ~InCb(c, {"unreg"})'
       /\ InCb(c, ConnectCbPcs) /\ InCb(c, {"conn_ok", "conn_bad", "cleanup"})
  BY <1>1, <1>2, <1>6 DEF Sending, Connecting, InCb, ConnectCbPcs
<1>11. JobsQuiet(c) /\ QueueShape(c)
  BY <1>2, <1>5, VarsQuiet DEF QueueInv
<1>12. Registering(c)' <=> Registering(c)
  BY <1>2 DEF Registering
<1>13. InLoop(c, {"wrflag"})' <=> InLoop(c, {"wrflag"})
  BY <1>2 DEF InLoop
<1>14. QueueShape(c)'
  BY <1>2, <1>7, <1>8, <1>9, <1>10, <1>11, <1>12, <1>13
     DEF QueueShape, FlagsNow, DataSame, Data, JobsQuiet
<1>15. CallAbout(0, c) /\ CbAbout(c) /\ 0 \in Actors
  BY <1>1, <1>2, <1>6, AliveFacts DEF CallAbout, OneCall, NoCall, CbAbout
<1> QED
  BY <1>2, <1>8, <1>14, <1>15, OwnQueueStep

LEMMA ConnectCleanupQueue ==
    ASSUME LoopsInv, StreamInv, JobsInv, QueueInv, connect_cleanup
    PROVE  QueueInv'
<1>1. PICK c : c = cb.obj
  OBVIOUS
<1>2. /\ cb.pc = "cleanup" /\ UNCHANGED <<vars, conn, bind, call>>
      /\ CbGoto("done") \/ (CbGoto("unreg") /\ ~conn[c].wr)
  BY <1>1 DEF connect_cleanup, CbKeeps
<1>3. cb.pc \in ConnCbPcs
  BY <1>2 DEF ConnCbPcs, ConnectCbPcs
<1>4. c \in Conns /\ call[0] = NoCall
  BY <1>1, <1>2, <1>3, CbInConns, NoCallInCallback DEF UserCode, None
<1>5. CASE CbGoto("done")
  BY <1>5, QuietCallbackQueue
<1>6. CASE CbGoto("unreg") /\ ~conn[c].wr
  <2>1. cb'.pc = "unreg" /\ cb'.obj = c
    BY <1>1, <1>6, CbGotoFacts
  <2>2. /\ ~Sending(c) /\ ~Connecting(c)' /\ ~InCb(c, {"take"})'
        /\ ~InCb(c, {"conn_ok", "conn_bad", "cleanup"})'
        /\ InCb(c, ConnectCbPcs) /\ InCb(c, {"conn_ok", "conn_bad", "cleanup"})
    BY <1>1, <1>2, <2>1 DEF Sending, Connecting, InCb, ConnectCbPcs
  <2>3. JobsQuiet(c) /\ QueueShape(c)
    BY <1>2, <1>4, VarsQuiet DEF QueueInv
  <2>4. ~InLoop(c, {"wrflag"})
    BY <1>4 DEF InLoop, NoCall, None
  <2>5. ~Writes(c) /\ ~Writes(c)'
    BY <1>6, <2>2, <2>3, <2>4 DEF QueueShape, JobsQuiet
  <2>6. Unconnected(c)' <=> Unconnected(c)
    BY <1>1, <1>2, <2>1 DEF Unconnected, InCb
  <2>7. Registering(c)' <=> Registering(c)
    BY <1>2 DEF Registering
  <2>8. QueueShape(c)'
    BY <1>2, <2>2, <2>3, <2>5, <2>6, <2>7 DEF QueueShape, Data, JobsQuiet
  <2>9. CallAbout(0, c) /\ CbAbout(c) /\ OthersQuiet(c) /\ 0 \in Actors
    BY <1>1, <1>2, <1>4, <2>1, AliveFacts
       DEF CallAbout, OneCall, NoCall, CbAbout, OthersQuiet, ConnQuiet, CoreSame, DataSame
  <2> QED
    BY <1>2, <1>4, <2>8, <2>9, OwnQueueStep
<1> QED
  BY <1>2, <1>5, <1>6

LEMMA UnregisterConnectQueue ==
    ASSUME LoopsInv, StreamInv, JobsInv, QueueInv, KeepsEvent, unregister_connect
    PROVE  QueueInv'
<1>1. PICK c : c = cb.obj
  OBVIOUS
<1>2. /\ cb.pc = "unreg" /\ DelWrite(0, c) /\ CbGoto("done")
      /\ conn' = [conn EXCEPT ![c].cn = FALSE] /\ UNCHANGED <<bind, call>>
  BY <1>1 DEF unregister_connect, CbKeeps
<1>3. cb.pc \in ConnCbPcs /\ ~UserCode
  BY <1>2 DEF ConnCbPcs, ConnectCbPcs, UserCode, None
<1>4. c \in Conns /\ call[0] = NoCall /\ 0 \in Actors
  BY <1>1, <1>3, CbInConns, NoCallInCallback, AliveFacts
<1>5. cb'.pc = "done" /\ cb'.obj = c
  BY <1>1, <1>2, CbGotoFacts
<1>6. DelsWr(c, "W", "R") /\ LibStep
  BY <1>2, <1>4, DelWrKinds
<1>7. /\ CallKeeps(c) /\ Alive' = Alive
      /\ \A j \in Alive : bind[j].obj = c => DelLeaves(j, "W", "R")
  BY <1>2, <1>4, <1>6, DelKeeps
<1>8. batch' = batch
  BY <1>6 DEF DelsWr, DelWr, vars
<1>9. QueueShape(c) /\ InCb(c, {"unreg"})
  BY <1>1, <1>2, <1>4 DEF QueueInv, InCb
<1>10. ~Writes(c)
  BY <1>9 DEF QueueShape
<1>11. ~Writes(c)'
  BY <1>2, <1>7, <1>10 DEF Writes, DelLeaves
<1>12. NoLoss
  BY <1>7, <1>10, NoLossBy DEF CallKeeps, Writes
<1>13. Steady(c)
  BY <1>2, <1>4, FlagSteady
<1>14. conn'[c].freed = conn[c].freed
  BY <1>2, <1>4, FlagSets DEF FlagsNow
<1>15. Unconnected(c)' <=> Unconnected(c)
  BY <1>2, <1>5, <1>13 DEF Unconnected, InCb, Steady
<1>16. /\ ~Sending(c) /\ ~Connecting(c)'
       /\ \A ps \in {{"take"}, {"unreg"}, ConnectCbPcs, {"conn_ok", "conn_bad", "cleanup"}} :
            ~InCb(c, ps)'
  BY <1>2, <1>5 DEF Sending, Connecting, InCb, ConnectCbPcs
<1>17. Registering(c)' <=> Registering(c)
  BY <1>2 DEF Registering
<1>18. ~Sends(c)
  BY <1>10 DEF Sends, Writes
<1>19. QueueShape(c)'
  BY <1>9, <1>11, <1>13, <1>14, <1>15, <1>16, <1>17, <1>18 DEF QueueShape, Steady, DataSame, Data
<1>20. CallAbout(0, c) /\ CbAbout(c)
  BY <1>1, <1>2, <1>4, <1>5 DEF CallAbout, OneCall, NoCall, CbAbout
<1>21. \A d \in Conns : BindSame(d)
  BY <1>2 DEF BindSame
<1> QED
  BY <1>4, <1>7, <1>8, <1>12, <1>13, <1>19, <1>20, <1>21, LibQueueStep DEF CallKeeps, Steady
-----------------------------------------------------------------------------
(***************************************************************************)
(* New data, new connections.                                              *)
(***************************************************************************)
LEMMA SendDataQueue ==
    ASSUME LoopsInv, StreamInv, JobsInv, QueueInv, RecvHabits \subseteq Habits,
           NEW a \in Actors, NEW c \in Conns, send_data(a, c)
    PROVE  QueueInv'
<1>1. /\ Free(a) /\ MaySend(a, c) /\ UNCHANGED <<vars, cb, bind>> /\ call[a] = NoCall
  BY DEF send_data, Free
<1>3. /\ conn' = conn \/ \E v : conn' = [conn EXCEPT ![c].queue = v]
      /\ \/ ~conn[c].async /\ conn' = conn /\ \E d, f : \E p \in DirectPcs :
              call' = [call EXCEPT ![a] = [pc |-> p, obj |-> c, data |-> d, fd |-> f]]
         \/ conn[c].async /\ Enters(a, "register", c)
  <2>1. CASE ~conn[c].async
    BY <2>1 DEF send_data, DirectPcs
  <2>2. CASE conn[c].async
    <3>1. /\ Enters(a, "register", c)
          /\ conn' = [conn EXCEPT ![c].queue = @ \o Message(c, nmsgs + 1)]
      BY <2>2 DEF send_data, Enters, RecvHabits, AllHabits
    <3>2. PICK v : v = conn[c].queue \o Message(c, nmsgs + 1)
      OBVIOUS
    <3>3. conn' = [conn EXCEPT ![c].queue = v]
      BY <3>1, <3>2
    <3> QED
      BY <2>2, <3>1, <3>3
  <2> QED
    BY <2>1, <2>2
<1>4. /\ CoreSame(c) /\ OthersQuiet(c)
      /\ conn'[c].async = conn[c].async /\ conn'[c].node = conn[c].node
      /\ conn' = conn => DataSame(c)
  <2>1. CASE conn' = conn
    BY <2>1 DEF CoreSame, OthersQuiet, ConnQuiet, DataSame
  <2>2. ASSUME NEW v, conn' = [conn EXCEPT ![c].queue = v], conn' # conn
        PROVE  /\ CoreSame(c) /\ OthersQuiet(c)
               /\ conn'[c].async = conn[c].async /\ conn'[c].node = conn[c].node
    <3>1. PICK k \in ConnRec : k = conn[c]
      BY NodeFacts
    <3>2. PICK r : r = [k EXCEPT !.queue = v]
      OBVIOUS
    <3>3. conn' = [conn EXCEPT ![c] = r]
      BY <2>2, <3>1, <3>2
    <3>4. conn'[c] = r /\ OthersQuiet(c)
      BY <3>3, ConnBecomes
    <3>5. /\ r.mem = k.mem /\ r.fd = k.fd /\ r.dialed = k.dialed /\ r.up = k.up
          /\ r.rd = k.rd /\ r.wr = k.wr /\ r.cn = k.cn /\ r.freed = k.freed
          /\ r.async = k.async /\ r.node = k.node
      BY <3>2 DEF ConnRec
    <3> QED
      BY <3>1, <3>4, <3>5 DEF CoreSame
  <2> QED
    BY <1>3, <2>1, <2>2
<1>5. /\ OneCall(a) /\ call'[a].obj = c
      /\ call'[a].pc = "register" \/ (~conn[c].async /\ call'[a].pc \in DirectPcs)
  <2>1. CASE Enters(a, "register", c)
    BY <2>1, CallsOf
  <2>2. ASSUME NEW p \in DirectPcs, NEW d, NEW f,
               call' = [call EXCEPT ![a] = [pc |-> p, obj |-> c, data |-> d, fd |-> f]]
        PROVE  OneCall(a) /\ call'[a].obj = c /\ call'[a].pc = p
    BY <2>2 DEF StreamInv, StreamType, OneCall
  <2> QED
    BY <1>3, <2>1, <2>2
<1>6. CallAbout(a, c) /\ CbAbout(c)
  BY <1>1, <1>5 DEF CallAbout, NoCall, CbAbout
<1>7. /\ JobsQuiet(c) /\ QueueShape(c) /\ cur' = cur
  BY <1>1, VarsQuiet DEF QueueInv
<1>8. \A ps : InCb(c, ps)' <=> InCb(c, ps)
  BY <1>1 DEF InCb
<1>9. Unconnected(c)' <=> Unconnected(c)
  BY <1>4, <1>8 DEF Unconnected, CoreSame
<1>10. Connecting(c)' <=> Connecting(c)
  BY <1>1, <1>7, <1>8 DEF Connecting
<1>11. ~Unconnected(c)
  BY <1>1 DEF MaySend, RecvHabits, AllHabits, Unconnected, InCb
<1>12. InCb(c, ConnectCbPcs)' =>
         \A b \in Clients : call'[b].obj = c => call'[b].pc \notin SendPcs
  <2> SUFFICES ASSUME InCb(c, ConnectCbPcs), NEW b \in Clients, call'[b].obj = c
               PROVE  call'[b].pc \notin SendPcs
    BY <1>8
  <2>1. b # a
    BY <1>1 DEF MaySend, RecvHabits, AllHabits, InCb
  <2>2. call'[b] = call[b]
    BY <1>5, <2>1 DEF OneCall, Actors
  <2> QED
    BY <1>7, <2>2 DEF QueueShape
<1>13. InLoop(c, {"wrflag"}) => InLoop(c, {"wrflag"})'
  <2>1. 0 \in Actors
    BY AliveFacts
  <2> QED
    BY <1>1, <1>5, <2>1 DEF InLoop, OneCall, NoCall, None
<1>14. conn'[c].async => Registering(c)'
  BY <1>4, <1>5 DEF Registering
<1>15. QueueShape(c)'
  BY <1>4, <1>7, <1>8, <1>9, <1>10, <1>11, <1>12, <1>13, <1>14
     DEF QueueShape, CoreSame, JobsQuiet
<1> QED
  BY <1>1, <1>4, <1>6, <1>15, OwnQueueStep

\* A connection that is made now, and one whose connect failed at once.
LEMMA MadeQueue ==
    ASSUME LoopsInv, StreamInv, JobsInv, QueueInv, UNCHANGED <<vars, bind>>,
           NEW c \in Conns, conn[c].mem = None, NEW q, conn' = [conn EXCEPT ![c] = q],
           q.node = <<>>, q.queue = <<>>, q.mem = "live" => q.fd # NoFd,
           CallAbout(0, c), cb' = cb \/ (cb.obj \in Acceptors /\ cb'.obj \in Acceptors)
    PROVE  QueueInv'
<1>1. /\ cb.obj # c /\ \A j \in Alive : bind[j].obj # c
  BY NotMade DEF None
<1>2. conn'[c] = q /\ OthersQuiet(c) /\ 0 \in Actors
  BY ConnBecomes, AliveFacts
<1>3. \A ps : ~InCb(c, ps)'
  BY <1>1, NamesAssumption DEF InCb
<1>4. ~Writes(c)'
  <2>1. ~Writes(c)
    BY <1>1 DEF Writes
  <2>2. JobsQuiet(c)
    BY VarsQuiet
  <2> QED
    BY <2>1, <2>2 DEF JobsQuiet
<1>5. ~Data(c)' /\ ~Connecting(c)'
  BY <1>2, <1>3 DEF Data, Connecting
<1>6. QueueShape(c)'
  BY <1>2, <1>3, <1>4, <1>5 DEF QueueShape
<1>7. CbAbout(c)
  BY DEF CbAbout
<1> QED
  BY <1>2, <1>6, <1>7, OwnQueueStep

LEMMA AcceptHandleQueue ==
    ASSUME LoopsInv, StreamInv, JobsInv, QueueInv, NEW c \in Conns, accept_handle(c)
    PROVE  QueueInv'
<1>1. /\ cb.pc = "accept" /\ conn[c].mem = None /\ CbGoto("done")
      /\ Enters(0, "addread", c) /\ UNCHANGED <<vars, bind>>
  BY DEF accept_handle, Enters
<1>2. PICK async \in Modes : conn' = [conn EXCEPT ![c] = NewConn(cli, async)]
  BY DEF accept_handle
<1>3. cb.obj \in Acceptors /\ call[0] = NoCall /\ cli # NoFd /\ 0 \in Actors
  BY <1>1, AcceptHere, AliveFacts
<1>4. PICK q : q = NewConn(cli, async)
  OBVIOUS
<1>5. q.fd = cli /\ q.node = <<>> /\ q.queue = <<>>
  BY <1>4 DEF NewConn
<1>6. CallAbout(0, c)
  BY <1>1, <1>3, CallsOf DEF CallAbout, NoCall
<1>7. cb'.obj \in Acceptors
  BY <1>1, <1>3, CbGotoFacts
<1> QED
  BY <1>1, <1>2, <1>3, <1>4, <1>5, <1>6, <1>7, MadeQueue

LEMMA DialQueue ==
    ASSUME LoopsInv, StreamInv, JobsInv, QueueInv, RecvHabits \subseteq Habits,
           NEW a \in Actors, NEW c \in Conns, dial(a, c)
    PROVE  QueueInv'
<1>1. /\ a = 0 /\ call[0] = NoCall /\ conn[c].mem = None /\ 0 \in Actors
      /\ UNCHANGED <<vars, cb, bind>>
  BY AliveFacts DEF dial, Free, MayInit, RecvHabits, AllHabits
<1>0. call[0].obj = None
  BY <1>1 DEF NoCall
<1>2. PICK f \in Closed, async \in Modes, result \in {"at once", "pending", "error"} :
        LET new == NewConn(NoFd, async)
        IN  CASE result = "at once" ->
                    /\ conn' = [conn EXCEPT ![c] = [new EXCEPT !.fd = f, !.up = TRUE]]
                    /\ call' = [call EXCEPT ![a].pc = "addread", ![a].obj = c]
              [] result = "pending" ->
                    /\ conn' = [conn EXCEPT ![c] = [new EXCEPT !.fd = f, !.cn = TRUE]]
                    /\ call' = [call EXCEPT ![a].pc = "addconn", ![a].obj = c]
              [] OTHER ->
                    /\ conn' = [conn EXCEPT ![c] = [new EXCEPT !.mem = "gone"]]
                    /\ UNCHANGED call
  BY DEF dial
<1>3. f # NoFd
  BY ClosedUnused
<1>4. PICK new \in ConnRec : new = NewConn(NoFd, async) /\ new.node = <<>> /\ new.queue = <<>>
  <2>1. NoFd \in FdOrNone /\ async \in BOOLEAN
    BY ModesAssumption DEF FdOrNone
  <2>2. NewConn(NoFd, async) \in ConnRec
    BY <2>1, NewConnFields
  <2> QED
    BY <2>2 DEF NewConn
<1>5. \E q, p : /\ conn' = [conn EXCEPT ![c] = q] /\ q.node = <<>> /\ q.queue = <<>>
                /\ q.mem = "live" => q.fd # NoFd
                /\ Enters(0, p, c) \/ call' = call
  <2>1. CASE result = "at once"
    <3>1. PICK q : q = [new EXCEPT !.fd = f, !.up = TRUE]
      OBVIOUS
    <3>2. q.fd = f /\ q.node = <<>> /\ q.queue = <<>>
      BY <1>4, <3>1 DEF ConnRec
    <3>3. conn' = [conn EXCEPT ![c] = q] /\ Enters(0, "addread", c)
      BY <1>1, <1>2, <1>4, <2>1, <3>1 DEF Enters
    <3> QED
      BY <1>3, <3>2, <3>3
  <2>2. CASE result = "pending"
    <3>1. PICK q : q = [new EXCEPT !.fd = f, !.cn = TRUE]
      OBVIOUS
    <3>2. q.fd = f /\ q.node = <<>> /\ q.queue = <<>>
      BY <1>4, <3>1 DEF ConnRec
    <3>3. conn' = [conn EXCEPT ![c] = q] /\ Enters(0, "addconn", c)
      BY <1>1, <1>2, <1>4, <2>2, <3>1 DEF Enters
    <3> QED
      BY <1>3, <3>2, <3>3
  <2>3. CASE result = "error"
    <3>1. PICK q : q = [new EXCEPT !.mem = "gone"]
      OBVIOUS
    <3>2. q.mem = "gone" /\ q.node = <<>> /\ q.queue = <<>>
      BY <1>4, <3>1 DEF ConnRec
    <3>3. conn' = [conn EXCEPT ![c] = q] /\ call' = call
      BY <1>1, <1>2, <1>4, <2>3, <3>1
    <3> QED
      BY <3>2, <3>3
  <2> QED
    BY <2>1, <2>2, <2>3
<1>6. PICK q, p : /\ conn' = [conn EXCEPT ![c] = q] /\ q.node = <<>> /\ q.queue = <<>>
                  /\ q.mem = "live" => q.fd # NoFd
                  /\ Enters(0, p, c) \/ call' = call
  BY <1>5
<1>7. CallAbout(0, c)
  <2>1. call[0].obj = None
    BY <1>0
  <2>2. CASE call' = call
    BY <2>1, <2>2 DEF CallAbout, OneCall
  <2>3. CASE Enters(0, p, c)
    <3>1. call'[0].obj = c /\ OneCall(0)
      BY <1>1, <2>3, CallsOf
    <3> QED
      BY <2>1, <3>1 DEF CallAbout
  <2> QED
    BY <1>6, <2>2, <2>3
<1> QED
  BY <1>1, <1>6, <1>7, MadeQueue
-----------------------------------------------------------------------------
(***************************************************************************)
(* The loop.                                                               *)
(***************************************************************************)
\* The loop moves, between the callbacks; it stays on its event, takes the next
\* one, or is through with one.
BatchMoves ==
    /\ batch'[0] \subseteq batch[0]
    /\ pc[0] = "writecb" => cur[0] \notin batch'[0] \/ (pc'[0] = "writecb" /\ cur' = cur)
    /\ pc'[0] = "write2" => "OUT" \in cur'[0].ev

LEMMA OutMoves ==
    ASSUME LoopsInv, OutShape, Stays, NoLoss, BatchMoves
    PROVE  OutShape'
<1>1. ASSUME NEW e \in batch'[0], "OUT" \in e.ev, job'[e.job].kind = "wr", ~job'[e.job].del
      PROVE  "W" \in job'[e.job].ev \/ (pc'[0] = "writecb" /\ e = cur'[0])
  <2>1. e \in batch[0] /\ e.job \in Alive
    BY <1>1, EventsHeld DEF BatchMoves
  <2>2. job[e.job].kind = "wr" /\ ~job[e.job].del
    BY <1>1, <2>1 DEF Stays, FieldsStay
  <2>3. CASE "W" \in job[e.job].ev
    BY <1>1, <2>1, <2>2, <2>3 DEF NoLoss
  <2>4. CASE pc[0] = "writecb" /\ e = cur[0]
    BY <1>1, <2>4 DEF BatchMoves
  <2> QED
    BY <1>1, <2>1, <2>2, <2>3, <2>4 DEF OutShape
<1> QED
  BY <1>1 DEF OutShape, BatchMoves

\* A step of the loop that leaves the jobs, the connections and their calls.
LEMMA LoopMovesQueue ==
    ASSUME LoopsInv, StreamInv, JobsInv, QueueInv, OutShape', Stays,
           \A d : JobsSame(d) /\ JobsHeld(d), UNCHANGED <<bind, conn, call>>,
           ~InCb(cb.obj, ConnectCbPcs \cup SendCbPcs), cb.pc # "fail" \/ cb' = cb,
           \/ cb' = cb
           \/ cb'.pc \notin ConnectCbPcs \cup SendCbPcs
    PROVE  QueueInv'
<1>1. ASSUME NEW d \in Conns PROVE Untouched(d)
  <2>1. JobsQuiet(d)
    BY SameQuiet
  <2>2. CallsQuiet(d)
    BY DEF CallsQuiet, Registering, InLoop
  <2>3. Unconnected(d)' <=> Unconnected(d)
    BY DEF Unconnected, InCb, ConnectCbPcs
  <2>4. CASE cb' = cb
    <3>1. ~InCb(d, {"entry"})
      BY DEF InCb, SendCbPcs
    <3> QED
      BY <2>1, <2>2, <2>3, <2>4, <3>1 DEF Untouched, Data
  <2>5. CASE cb'.pc \notin ConnectCbPcs \cup SendCbPcs /\ cb.pc # "fail"
    <3>1. ~InCb(d, ConnectCbPcs \cup SendCbPcs)' /\ ~Sending(d)
      BY <2>5 DEF InCb, SendCbPcs, Sending
    <3> QED
      BY <2>1, <2>2, <2>3, <3>1 DEF Untouched, Data
  <2> QED
    BY <2>4, <2>5
<1>2. \A d \in Conns : QueueShape(d)'
  BY <1>1, QuietKeeps DEF QueueInv
<1> QED
  BY <1>2 DEF QueueInv

LEMMA LoopQuietQueue ==
    ASSUME LoopsInv, StreamInv, JobsInv, QueueInv, LoopQuiet
    PROVE  QueueInv'
<1>0. /\ cb.pc = None /\ 0 \in Loops /\ pc \in [Loops -> Pcs]
      /\ batch = [l \in Loops |-> batch[l]] /\ cur = [l \in Loops |-> cur[l]]
      /\ UNCHANGED <<conn, call, cb, bind>>
  BY AliveFacts DEF LoopQuiet, objVars, StreamInv, StreamType, MemInv, TypeInv, TypeOK
<1>1. \/ LoopTop(0) \/ LoopOut(0) \/ EpollReady(0) \/ EpollIdle(0) \/ Dispatch(0)
      \/ RecvDrained(0) \/ AcceptDrained(0) \/ WriteCheck(0) \/ TimersReturn(0)
  BY DEF LoopQuiet
<1>2. UNCHANGED <<njobs, job, freed, half, lateDel, aborted>>
  BY <1>1 DEF LoopTop, LoopOut, Reap, EpollReady, EpollIdle, Dispatch, RecvDrained,
     AcceptDrained, WriteCheck, TimersReturn, Frame, LoopKeeps
<1>3. LibStep
  BY <1>0, <1>1, LoopIsNext DEF Loop, LoopsInv, NoAbort
<1>4. Stays /\ \A d : JobsSame(d) /\ JobsHeld(d)
  BY <1>0, <1>2, <1>3, SameKeeps
<1>5. NoLoss
  BY <1>2 DEF NoLoss
<1>6. OutShape'
  <2>1. CASE LoopTop(0) \/ LoopOut(0)
    <3>1. batch' = batch /\ pc[0] # "writecb" /\ pc'[0] # "write2"
      BY <1>0, <2>1 DEF LoopTop, LoopOut, Reap
    <3> QED
      BY <1>4, <1>5, <3>1, OutMoves DEF BatchMoves, QueueInv
  <2>2. CASE EpollIdle(0) \/ TimersReturn(0)
    <3>1. batch' = batch /\ pc[0] # "writecb" /\ pc'[0] # "write2"
      BY <1>0, <2>2 DEF EpollIdle, TimersReturn, Goto
    <3> QED
      BY <1>4, <1>5, <3>1, OutMoves DEF BatchMoves, QueueInv
  <2>3. CASE Dispatch(0)
    <3>1. batch' = batch /\ pc[0] # "writecb" /\ pc'[0] # "write2"
      BY <1>0, <2>3 DEF Dispatch
    <3> QED
      BY <1>4, <1>5, <3>1, OutMoves DEF BatchMoves, QueueInv
  <2>4. CASE RecvDrained(0) \/ AcceptDrained(0)
    <3>1. batch'[0] \subseteq batch[0] /\ pc[0] # "writecb" /\ pc'[0] # "write2"
      BY <1>0, <2>4 DEF RecvDrained, AcceptDrained, ReadDone, EventDone, Goto
    <3> QED
      BY <1>4, <1>5, <3>1, OutMoves DEF BatchMoves, QueueInv
  <2>5. CASE WriteCheck(0)
    <3>1. batch'[0] \subseteq batch[0] /\ pc[0] # "writecb"
      BY <1>0, <2>5 DEF WriteCheck, EventDone, Goto
    <3>2. pc'[0] = "write2" => "OUT" \in cur'[0].ev
      BY <1>0, <2>5 DEF WriteCheck, EventDone, Goto
    <3> QED
      BY <1>4, <1>5, <3>1, <3>2, OutMoves DEF BatchMoves, QueueInv
  <2>6. CASE EpollReady(0)
    <3>1. PICK fds \in SUBSET {f \in Fds : epoll[0][f].job # NoJob} :
            \E fired \in [fds -> SUBSET {"IN", "OUT"}] :
              /\ \A f \in fds : fired[f] \subseteq epoll[0][f].ev
              /\ batch' = [batch EXCEPT ![0] =
                             {[job |-> epoll[0][f].job, ev |-> fired[f]] : f \in fds}]
      BY <2>6 DEF EpollReady
    <3>2. PICK fired \in [fds -> SUBSET {"IN", "OUT"}] :
              /\ \A f \in fds : fired[f] \subseteq epoll[0][f].ev
              /\ batch' = [batch EXCEPT ![0] =
                             {[job |-> epoll[0][f].job, ev |-> fired[f]] : f \in fds}]
      BY <3>1
    <3>3. batch'[0] = {[job |-> epoll[0][f].job, ev |-> fired[f]] : f \in fds}
      BY <1>0, <3>2
    <3>4. ASSUME NEW e \in batch'[0], "OUT" \in e.ev, ~job[e.job].del
          PROVE  "W" \in job[e.job].ev
      <4>1. PICK f \in fds : e = [job |-> epoll[0][f].job, ev |-> fired[f]]
        BY <3>3, <3>4
      <4>2. e.job = epoll[0][f].job /\ "OUT" \in epoll[0][f].ev /\ f \in Fds
            /\ epoll[0][f].job # NoJob
        BY <3>2, <3>4, <4>1
      <4>3. e.job \in Alive /\ job[e.job].fd = f
        BY <1>0, <4>2, AliveFacts DEF MemInv, NoDangling
      <4>4. epoll[0][f] = WantedEntry(e.job, 0)
        BY <1>0, <4>3 DEF LoopsInv, WatchInv, Watched
      <4>5. Wanted(e.job) # {} /\ "OUT" \in Flags(Wanted(e.job))
        <5>1. CASE 0 = job[e.job].thrd /\ Wanted(e.job) # {}
          <6>1. epoll[0][f].ev = Flags(Wanted(e.job))
            BY <4>4, <5>1 DEF WantedEntry
          <6> QED
            BY <4>2, <5>1, <6>1
        <5>2. CASE ~(0 = job[e.job].thrd /\ Wanted(e.job) # {})
          <6>1. epoll[0][f].job = NoJob
            BY <4>4, <5>2 DEF WantedEntry, NoEntry
          <6> QED
            BY <4>2, <6>1
        <5> QED
          BY <5>1, <5>2
      <4>6. PICK w \in Wanted(e.job) : w # "R"
        BY <4>5 DEF Flags
      <4>7. w \in job[e.job].ev /\ job[e.job].ev \subseteq {"R", "W"}
        BY <3>4, <4>3, <4>6, AliveFacts DEF Wanted, JobRec
      <4> QED
        BY <4>6, <4>7
    <3>5. pc'[0] # "write2" /\ job' = job
      BY <1>0, <1>2, <2>6 DEF EpollReady
    <3> QED
      BY <3>4, <3>5 DEF OutShape
  <2> QED
    BY <1>1, <2>1, <2>2, <2>3, <2>4, <2>5, <2>6
<1> QED
  BY <1>0, <1>4, <1>6, LoopMovesQueue DEF InCb, ConnectCbPcs, SendCbPcs, None

LEMMA StartQueue ==
    ASSUME LoopsInv, StreamInv, JobsInv, QueueInv, RecvStart \/ AcceptStart
    PROVE  QueueInv'
<1>0. 0 \in Loops /\ pc \in [Loops -> Pcs] /\ UNCHANGED <<conn, call, bind>>
  BY AliveFacts DEF RecvStart, AcceptStart, CbKeeps, StreamInv, StreamType
<1>1. RecvData(0) \/ Accept(0)
  BY DEF RecvStart, AcceptStart
<1>2. UNCHANGED <<njobs, job, freed, half, lateDel, aborted, cur, batch>> /\ pc[0] = "read"
      /\ pc'[0] # "write2"
  BY <1>0, <1>1 DEF RecvData, Accept, Frame, LoopKeeps, Goto
<1>3. LibStep
  BY <1>0, <1>1, LoopIsNext DEF Loop, LoopsInv, NoAbort
<1>4. cb.pc = None
  BY <1>2 DEF StreamInv, InCallback, FreePcs, CallbackPcs
<1>5. Stays /\ \A d : JobsSame(d) /\ JobsHeld(d)
  BY <1>0, <1>2, <1>3, SameKeeps
<1>6. NoLoss /\ BatchMoves
  BY <1>2 DEF NoLoss, BatchMoves
<1>7. OutShape'
  BY <1>5, <1>6, OutMoves DEF QueueInv
<1>8. cb'.pc \in {"recv", "fail", "accept"}
  BY DEF RecvStart, AcceptStart
<1> QED
  BY <1>0, <1>4, <1>5, <1>7, <1>8, LoopMovesQueue DEF InCb, ConnectCbPcs, SendCbPcs, None

LEMMA CbReturnQueue ==
    ASSUME LoopsInv, StreamInv, JobsInv, QueueInv, CbReturn
    PROVE  QueueInv'
<1>0. /\ 0 \in Loops /\ pc \in [Loops -> Pcs]
      /\ batch = [l \in Loops |-> batch[l]] /\ cur = [l \in Loops |-> cur[l]]
      /\ UNCHANGED <<conn, call, bind>> /\ cb.pc \in {"recv", "done"} /\ cb' = NoCb
  BY AliveFacts DEF CbReturn, CbKeeps, StreamInv, StreamType, MemInv, TypeInv, TypeOK
<1>1. ReadCbReturn(0) \/ ReadEndReturn(0) \/ WriteCbReturn(0)
  BY DEF CbReturn
<1>2. UNCHANGED <<njobs, job, freed, half, lateDel, aborted>>
  BY <1>1 DEF ReadCbReturn, ReadEndReturn, WriteCbReturn, Frame, LoopKeeps
<1>3. LibStep
  BY <1>0, <1>1, LoopIsNext DEF Loop, LoopsInv, NoAbort
<1>4. Stays /\ \A d : JobsSame(d) /\ JobsHeld(d)
  BY <1>0, <1>2, <1>3, SameKeeps
<1>5. NoLoss
  BY <1>2 DEF NoLoss
<1>6. BatchMoves
  <2>1. batch'[0] \subseteq batch[0] /\ pc'[0] # "write2"
    BY <1>0, <1>1 DEF ReadCbReturn, ReadEndReturn, WriteCbReturn, ReadDone, EventDone, Goto
  <2>2. pc[0] = "writecb" => cur[0] \notin batch'[0]
    BY <1>0, <1>1 DEF ReadCbReturn, ReadEndReturn, WriteCbReturn, EventDone
  <2> QED
    BY <2>1, <2>2 DEF BatchMoves
<1>7. OutShape'
  BY <1>4, <1>5, <1>6, OutMoves DEF QueueInv
<1>8. cb'.pc \notin ConnectCbPcs \cup SendCbPcs
  BY <1>0 DEF NoCb, ConnectCbPcs, SendCbPcs, None
<1> QED
  BY <1>0, <1>4, <1>7, <1>8, LoopMovesQueue DEF InCb, ConnectCbPcs, SendCbPcs
-----------------------------------------------------------------------------
(***************************************************************************)
(* The write event.                                                        *)
(***************************************************************************)
LEMMA WriteStartQueue ==
    ASSUME LoopsInv, StreamInv, JobsInv, QueueInv, KeepsEvent, WriteStart
    PROVE  QueueInv'
<1>0. /\ 0 \in Loops /\ 0 \in Actors /\ pc \in [Loops -> Pcs]
      /\ UNCHANGED <<conn, call, bind>> /\ WriteClear(0)
  BY AliveFacts DEF WriteStart, CbKeeps, StreamInv, StreamType
<1>1. PICK j : j = cur[0].job
  OBVIOUS
<1>2. PICK c : c = bind[j].obj
  OBVIOUS
<1>3. Clears(0, j)
  BY <1>0, <1>1, ClearsKind, AliveFacts
<1>4. LibStep
  BY <1>0, LoopIsNext DEF Loop, LoopsInv, NoAbort
<1>5. /\ pc[0] = "write2" /\ pc'[0] = "writecb" /\ cur' = cur /\ batch' = batch /\ half' = half
      /\ UNCHANGED <<njobs, freed, lateDel, aborted>>
      /\ JobSet(j, [job[j] EXCEPT !.ev = @ \ {"W"}])
  BY <1>0, <1>3 DEF Clears
<1>6. j \in Alive /\ j \in 1 .. njobs /\ job[j].kind = "wr" /\ ~job[j].del /\ cur[0] \in batch[0]
  BY <1>1, <1>5, CurAlive, AliveFacts, EventsHeld DEF EventPcs, JobsInv, CurShape
<1>7. c \in Conns /\ c # None
  BY <1>2, <1>6, NamesAssumption DEF JobsInv, BindShape, None
<1>8. cb.pc = None /\ call[0] = NoCall /\ cb.obj = None
  <2>1. cb.pc = None
    BY <1>5 DEF StreamInv, InCallback, FreePcs, CallbackPcs
  <2> QED
    BY <1>5, <2>1, NoCallInLoop
<1>9. /\ Stays /\ Alive' = Alive
      /\ \A d : d # c => JobsSame(d) /\ JobsHeld(d)
  BY <1>0, <1>2, <1>4, <1>5, <1>6, ChangedKeeps, LateByLoop
<1>10. job'[j].ev = job[j].ev \ {"W"}
  <2>1. PICK t \in JobRec : t = job[j]
    BY <1>6, AliveFacts
  <2>2. PICK u : u = [t EXCEPT !.ev = t.ev \ {"W"}]
    OBVIOUS
  <2>3. u.ev = t.ev \ {"W"}
    BY <2>2 DEF JobRec
  <2>4. job'[j] = u
    BY <1>5, <2>1, <2>2 DEF JobSet
  <2> QED
    BY <2>1, <2>3, <2>4
<1>11. "OUT" \in cur[0].ev /\ "W" \in job[j].ev
  <2>1. "OUT" \in cur[0].ev
    BY <1>5 DEF QueueInv, OutShape
  <2> QED
    BY <1>1, <1>5, <1>6, <2>1 DEF QueueInv, OutShape
<1>12. OutShape'
  <2>1. ASSUME NEW e \in batch'[0], "OUT" \in e.ev, job'[e.job].kind = "wr", ~job'[e.job].del,
               e # cur[0]
        PROVE  "W" \in job'[e.job].ev
    <3>1. e \in batch[0] /\ e.job \in Alive /\ e.job \in 1 .. njobs
      BY <1>5, <2>1, EventsHeld, AliveFacts
    <3>2. e.job # j
      BY <1>0, <1>1, <1>6, <2>1, <3>1 DEF LoopsInv, WatchInv, OneJobInv, Shape, EntryShape
    <3>3. job'[e.job] = job[e.job]
      BY <1>5, <3>1, <3>2 DEF JobSet
    <3> QED
      BY <1>5, <2>1, <3>1, <3>3 DEF QueueInv, OutShape
  <2> QED
    BY <1>5, <2>1 DEF OutShape
<1>13. cb'.pc = "entry" /\ cb'.obj = c
  BY <1>1, <1>2 DEF WriteStart
<1>14. \A k \in Alive' : bind'[k].obj = c => k = j
  BY <1>0, <1>2, <1>6, <1>7, <1>9, OnlyJob
<1>15. ~Writes(c)'
  BY <1>10, <1>14 DEF Writes
<1>16. ~Data(c)' <=> ~Data(c)
  BY <1>0 DEF Data
<1>17. Unconnected(c)' <=> Unconnected(c)
  BY <1>0, <1>7, <1>8, <1>13 DEF Unconnected, InCb
<1>18. bind[j].wcb = "connect" => Unconnected(c)
  <2>1. \A k \in Alive : bind[k].obj = c => k = j
    BY <1>0, <1>9, <1>14
  <2>2. ASSUME bind[j].wcb = "connect" PROVE ~Sends(c)
    BY <2>1, <2>2 DEF Sends
  <2>3. Writes(c)
    BY <1>2, <1>6, <1>11 DEF Writes
  <2>4. QueueShape(c)
    BY <1>7 DEF QueueInv
  <2> QED
    BY <2>2, <2>3, <2>4 DEF QueueShape
<1>19. QueueShape(c)'
  <2>1. QueueShape(c)
    BY <1>7 DEF QueueInv
  <2>2. Connecting(c)' => bind[j].wcb = "connect"
    BY <1>0, <1>1, <1>5, <1>13 DEF Connecting, InCb
  <2>3. /\ \A ps \in {ConnectCbPcs, {"conn_ok", "conn_bad", "cleanup"}, {"unreg"}, {"take"}} :
             ~InCb(c, ps)'
        /\ Sending(c)'
    BY <1>13 DEF InCb, Sending, ConnectCbPcs
  <2>4. Unconnected(c)' => ~Data(c)'
    BY <1>16, <1>17, <2>1 DEF QueueShape
  <2>5. conn'[c].mem = "live" /\ ~conn'[c].freed => conn'[c].fd # NoFd \/ Unconnected(c)'
    BY <1>0, <1>17, <2>1 DEF QueueShape
  <2> QED
    BY <1>15, <1>17, <1>18, <2>2, <2>3, <2>4, <2>5 DEF QueueShape
<1>20. ASSUME NEW d \in Conns, d # c PROVE Untouched(d)
  <2>1. ConnQuiet(d) /\ BindSame(d)
    BY <1>0 DEF ConnQuiet, CoreSame, DataSame, BindSame
  <2>2. CbAbout(c) /\ CallAbout(0, c)
    BY <1>0, <1>8, <1>13 DEF CbAbout, CallAbout, OneCall, NoCall
  <2> QED
    BY <1>0, <1>5, <1>9, <1>20, <2>1, <2>2, OtherQuiet
<1> QED
  BY <1>7, <1>12, <1>19, <1>20, QueueStep
-----------------------------------------------------------------------------
(***************************************************************************)
(* The free callbacks.                                                     *)
(***************************************************************************)
LEMMA FlushQueue ==
    ASSUME LoopsInv, StreamInv, JobsInv, QueueInv, free_async_write_resource
    PROVE  QueueInv'
<1>1. PICK c : c = bind[First(dels[0])].obj
  OBVIOUS
<1>2. /\ pc[0] \in FreePcs /\ cb.pc = None /\ c \in Conns
      /\ cb' = [pc |-> "close", obj |-> c]
      /\ UNCHANGED <<vars, acc, regLock, call, cli, bind>>
  BY <1>1 DEF free_async_write_resource
<1>3. call[0] = NoCall /\ cb.obj = None
  BY <1>2, NoCallInLoop DEF FreePcs
<1>4. cb'.pc = "close" /\ cb'.obj = c /\ CbAbout(c) /\ None # c
  BY <1>2, <1>3, NamesAssumption DEF CbAbout, None
<1>5. CallAbout(0, c) /\ 0 \in Actors
  BY <1>2, <1>3, AliveFacts DEF CallAbout, OneCall, NoCall
<1>6. PICK v : conn' = [conn EXCEPT ![c].async = FALSE, ![c].node = <<>>,
                                    ![c].queue = <<>>, ![c].dead = v]
  BY <1>1 DEF free_async_write_resource
<1>7. CoreSame(c) /\ conn[c] \in ConnRec
  BY <1>2, <1>6, DataSets, NodeFacts
<1>8. OthersQuiet(c) /\ conn'[c].node = <<>> /\ conn'[c].queue = <<>>
  <2>1. PICK k \in ConnRec : k = conn[c]
    BY <1>7
  <2>2. PICK q : q = [k EXCEPT !.async = FALSE, !.node = <<>>, !.queue = <<>>, !.dead = v]
    OBVIOUS
  <2>3. conn' = [conn EXCEPT ![c] = q]
    BY <1>2, <1>6, <2>1, <2>2 DEF StreamInv, StreamType
  <2>4. q.node = <<>> /\ q.queue = <<>>
    BY <2>2 DEF ConnRec
  <2> QED
    BY <1>2, <2>3, <2>4, ConnBecomes
<1>9. JobsQuiet(c)
  BY <1>2, VarsQuiet
<1>10. QueueShape(c)'
  <2>1. QueueShape(c)
    BY <1>2 DEF QueueInv
  <2>2. Unconnected(c)' <=> Unconnected(c)
    BY <1>3, <1>4, <1>7 DEF Unconnected, InCb, CoreSame
  <2>3. ~Data(c)'
    BY <1>8 DEF Data
  <2>4. /\ \A ps \in {ConnectCbPcs, {"conn_ok", "conn_bad", "cleanup"}, {"unreg"}, {"take"}} :
             ~InCb(c, ps)'
        /\ ~Connecting(c)'
    BY <1>4 DEF InCb, Connecting, ConnectCbPcs
  <2> QED
    BY <1>7, <1>9, <2>1, <2>2, <2>3, <2>4 DEF QueueShape, JobsQuiet, CoreSame
<1> QED
  BY <1>2, <1>4, <1>5, <1>8, <1>10, OwnQueueStep

\* What FreeJob does to the batch: there is none then.
LEMMA FreedBatch ==
    ASSUME LoopsInv, StreamInv, QueueInv, FreeJob(0), Stays, job' = job
    PROVE  OutShape' /\ cur' = cur
<1>1. /\ batch' = batch /\ cur' = cur /\ pc[0] \in FreePcs /\ 0 \in Loops
      /\ pc \in [Loops -> Pcs]
  BY AliveFacts DEF FreeJob, StreamInv, StreamType
<1>2. pc[0] # "writecb" /\ pc'[0] # "write2"
  BY <1>1 DEF FreeJob, FreePcs
<1>3. NoLoss
  BY DEF NoLoss
<1> QED
  BY <1>1, <1>2, <1>3, OutMoves DEF BatchMoves, QueueInv

LEMMA FreeCloseQueue ==
    ASSUME LoopsInv, StreamInv, JobsInv, QueueInv, KeepsEvent, free_close
    PROVE  QueueInv'
<1>1. PICK c : c = cb.obj
  OBVIOUS
<1>2. PICK j : j = First(dels[0])
  OBVIOUS
<1>3. /\ cb.pc = "close" /\ FreeJob(0) /\ conn' = [conn EXCEPT ![c].fd = NoFd]
      /\ CbGoto("delete") /\ UNCHANGED <<acc, regLock, call, cli, bind>>
  BY <1>1 DEF free_close, CbKeeps
<1>4. c \in Conns /\ ConnShape(c) /\ None # c
  BY <1>1, <1>3, CbInConns, NamesAssumption DEF None
<1>5. call[0] = NoCall
  BY <1>3, NoCallInCallback DEF UserCode, None
<1>6. bind[j].obj = c
  BY <1>1, <1>2, <1>3 DEF JobsInv, CbShape
<1>7. /\ j \in Alive /\ Alive' = Alive \ {j} /\ job' = job /\ Stays
      /\ \A d : d # c => JobsSame(d) /\ JobsHeld(d)
  BY <1>2, <1>3, <1>6, JobFreed
<1>8. OutShape' /\ cur' = cur
  BY <1>3, <1>7, FreedBatch
<1>9. /\ CallAbout(0, c) /\ 0 \in Actors
  BY <1>3, <1>5, AliveFacts DEF CallAbout, OneCall, NoCall
<1>10. cb'.pc = "delete" /\ cb'.obj = c /\ CbAbout(c)
  BY <1>1, <1>3, CbGotoFacts DEF CbAbout
<1>11. ~Writes(c)'
  BY <1>3, <1>4, <1>6, <1>7, OnlyJob DEF Writes
<1>12. OthersQuiet(c) /\ DataSame(c)
  BY <1>3, <1>4, FlagData
<1>13. /\ conn'[c].freed = conn[c].freed /\ conn'[c].mem = conn[c].mem
       /\ conn'[c].dialed = conn[c].dialed /\ conn'[c].up = conn[c].up
  <2>1. PICK k \in ConnRec : k = conn[c]
    BY <1>4, NodeFacts
  <2>2. PICK r : r = [k EXCEPT !.fd = NoFd]
    OBVIOUS
  <2>3. conn'[c] = r
    BY <1>3, <1>4, <2>1, <2>2, ConnBecomes
  <2> QED
    BY <2>1, <2>2, <2>3 DEF ConnRec
<1>14. Unconnected(c)' <=> Unconnected(c)
  BY <1>3, <1>10, <1>13 DEF Unconnected, InCb
<1>15. conn[c].freed \/ Unconnected(c)
  <2>1. job[j].del
    BY <1>2, <1>3, CurAlive DEF FreeJob
  <2> QED
    BY <1>4, <1>6, <1>7, <2>1 DEF ConnShape, JobShape
<1>16. QueueShape(c)'
  <2>1. Unconnected(c)' => ~Data(c)'
    BY <1>4, <1>12, <1>14 DEF QueueInv, QueueShape, DataSame, Data
  <2>2. /\ \A ps \in {ConnectCbPcs, {"conn_ok", "conn_bad", "cleanup"}, {"unreg"}, {"take"}} :
             ~InCb(c, ps)'
        /\ ~Connecting(c)'
    BY <1>10 DEF InCb, Connecting, ConnectCbPcs
  <2> QED
    BY <1>11, <1>13, <1>14, <1>15, <2>1, <2>2 DEF QueueShape
<1>17. ASSUME NEW d \in Conns, d # c PROVE Untouched(d)
  <2>1. BindSame(d) /\ ConnQuiet(d)
    BY <1>3, <1>12, <1>17 DEF BindSame, OthersQuiet
  <2> QED
    BY <1>7, <1>8, <1>9, <1>10, <1>17, <2>1, OtherQuiet
<1> QED
  BY <1>4, <1>8, <1>16, <1>17, QueueStep

LEMMA FreeHandleQueue ==
    ASSUME LoopsInv, StreamInv, JobsInv, QueueInv, free_handle
    PROVE  QueueInv'
<1>1. PICK c : c = cb.obj
  OBVIOUS
<1>2. /\ cb.pc = "delete" /\ conn' = [conn EXCEPT ![c].mem = "gone"] /\ cb' = NoCb
      /\ UNCHANGED <<vars, acc, regLock, call, cli, bind>>
  BY <1>1 DEF free_handle, CbKeeps
<1>3. c \in Conns /\ ConnShape(c) /\ ConnCbShape(c) /\ None # c
  BY <1>1, <1>2, CbInConns, NamesAssumption DEF None
<1>4. call[0] = NoCall
  BY <1>2, NoCallInCallback DEF UserCode, None
<1>5. CallAbout(0, c) /\ 0 \in Actors
  BY <1>2, <1>4, AliveFacts DEF CallAbout, OneCall, NoCall
<1>6. cb'.pc = None /\ cb'.obj = None /\ CbAbout(c)
  BY <1>1, <1>2 DEF NoCb, CbAbout
<1>7. OthersQuiet(c) /\ DataSame(c)
  BY <1>2, <1>3, FlagData
<1>8. conn'[c].mem = "gone" /\ conn'[c].dialed = conn[c].dialed /\ conn'[c].up = conn[c].up
  <2>1. PICK k \in ConnRec : k = conn[c]
    BY <1>3, NodeFacts
  <2>2. PICK r : r = [k EXCEPT !.mem = "gone"]
    OBVIOUS
  <2>3. conn'[c] = r
    BY <1>2, <1>3, <2>1, <2>2, ConnBecomes
  <2> QED
    BY <2>1, <2>2, <2>3 DEF ConnRec
<1>9. Unconnected(c)' <=> Unconnected(c)
  BY <1>2, <1>3, <1>6, <1>8 DEF Unconnected, InCb
<1>10. JobsQuiet(c)
  BY <1>2, <1>3, VarsQuiet
<1>11. QueueShape(c)'
  <2>1. QueueShape(c)
    BY <1>3 DEF QueueInv
  <2>2. Unconnected(c)' => ~Data(c)'
    BY <1>7, <1>9, <2>1 DEF QueueShape, DataSame, Data
  <2>3. /\ \A ps \in {ConnectCbPcs, {"conn_ok", "conn_bad", "cleanup"}, {"unreg"}, {"take"}} :
             ~InCb(c, ps)'
        /\ ~Connecting(c)'
    BY <1>3, <1>6 DEF InCb, Connecting
  <2>4. conn'[c].mem # "live"
    BY <1>8
  <2> QED
    BY <1>9, <1>10, <2>1, <2>2, <2>3, <2>4 DEF QueueShape, JobsQuiet
<1> QED
  BY <1>2, <1>5, <1>6, <1>7, <1>11, OwnQueueStep

LEMMA AcceptFreedQueue ==
    ASSUME LoopsInv, StreamInv, JobsInv, QueueInv, KeepsEvent, accept_free_callback
    PROVE  QueueInv'
<1>1. PICK j : j = First(dels[0])
  OBVIOUS
<1>2. PICK x : x = bind[j].obj
  OBVIOUS
<1>3. /\ pc[0] \in FreePcs /\ cb.pc = None /\ x \in Acceptors /\ FreeJob(0)
      /\ UNCHANGED <<conn, regLock, call, cb, cli, bind>>
  BY <1>1, <1>2 DEF accept_free_callback
<1>4. x \notin Conns
  BY <1>3, NamesAssumption
<1>5. call[0] = NoCall /\ cb.obj = None
  BY <1>3, NoCallInLoop DEF FreePcs
<1>6. /\ Alive' = Alive \ {j} /\ job' = job /\ Stays
      /\ \A d : d # x => JobsSame(d) /\ JobsHeld(d)
  BY <1>1, <1>2, <1>3, JobFreed
<1>7. OutShape' /\ cur' = cur
  BY <1>3, <1>6, FreedBatch
<1>8. CallAbout(0, x) /\ CbAbout(x) /\ 0 \in Actors
  BY <1>3, <1>5, AliveFacts DEF CallAbout, OneCall, NoCall, CbAbout
<1>9. ASSUME NEW d \in Conns PROVE Untouched(d)
  <2>1. BindSame(d) /\ ConnQuiet(d) /\ x # d
    BY <1>3, <1>4 DEF BindSame, ConnQuiet, CoreSame, DataSame
  <2> QED
    BY <1>6, <1>7, <1>8, <2>1, OtherQuiet
<1> QED
  BY <1>4, <1>7, <1>9, QueueStep
-----------------------------------------------------------------------------
(***************************************************************************)
(* Together.                                                               *)
(***************************************************************************)
LEMMA StutterQueue ==
    ASSUME LoopsInv, JobsInv, QueueInv, UNCHANGED allVars
    PROVE  QueueInv'
<1>1. UNCHANGED <<vars, bind>> /\ UNCHANGED <<conn, call, cb>>
  BY DEF allVars, objVars
<1>2. OutShape' /\ cur' = cur /\ \A d \in Conns : JobsQuiet(d)
  BY <1>1, VarsQuiet
<1>3. ASSUME NEW d \in Conns PROVE Untouched(d)
  <2>1. CallsQuiet(d)
    BY <1>1 DEF CallsQuiet, Registering, InLoop
  <2>2. Unconnected(d)' <=> Unconnected(d)
    BY <1>1 DEF Unconnected, InCb
  <2> QED
    BY <1>1, <1>2, <2>1, <2>2 DEF Untouched, Data
<1>4. \A d \in Conns : QueueShape(d)'
  BY <1>3, QuietKeeps DEF QueueInv
<1> QED
  BY <1>2, <1>4 DEF QueueInv

LEMMA QueueInvStep ==
    ASSUME LoopsInv, StreamInv, JobsInv, QueueInv, Callers, "ctlSpace" \in Rules,
           RecvHabits \subseteq Habits, [RecvNext]_allVars
    PROVE  QueueInv'
<1> USE KeepsLoop
<1>1. CASE UNCHANGED allVars
  BY <1>1, StutterQueue
<1>2. ASSUME NEW a \in Actors, Begin(a) PROVE QueueInv'
  <2>1. CASE \E c \in Conns : send_data(a, c)
    BY <2>1, SendDataQueue
  <2>2. CASE \E c \in Conns : free(a, c)
    BY <2>2, FreeQueue
  <2>3. CASE \E c \in Conns : dial(a, c)
    BY <2>3, DialQueue
  <2>4. CASE \E x \in Acceptors : accept_init(a, x)
    BY <2>4, AcceptInitQueue
  <2>5. CASE \E x \in Acceptors : accept_free(a, x)
    BY <2>5, AcceptFreeQueue
  <2> QED
    BY <1>2, <2>1, <2>2, <2>3, <2>4, <2>5 DEF Begin
<1>3. ASSUME NEW a \in Actors, Continue(a) PROVE QueueInv'
  <2>1. CASE send_data_lock(a) \/ send_data_flag(a) \/ free_unlock(a) \/ register_read_flag(a)
    BY <2>1, MembersQueue
  <2>2. CASE direct_fd(a) \/ direct_write(a)
    BY <2>2, DirectQueue
  <2>3. CASE send_data_add(a)
    BY <2>3, SendAddQueue
  <2>4. CASE unregister_read(a)
    BY <2>4, UnregisterReadQueue
  <2>5. CASE unregister_write(a)
    BY <2>5, UnregisterWriteQueue
  <2>6. CASE register_connect(a)
    BY <2>6, RegisterConnectQueue
  <2>7. CASE register_read(a)
    BY <2>7, RegisterReadQueue
  <2>8. CASE accept_free_ctl(a)
    BY <2>8, AcceptFreeCtlQueue
  <2> QED
    BY <1>3, <2>1, <2>2, <2>3, <2>4, <2>5, <2>6, <2>7, <2>8 DEF Continue
<1>4. ASSUME Callback PROVE QueueInv'
  <2>1. CASE RecvStart \/ AcceptStart
    BY <2>1, StartQueue
  <2>2. CASE WriteStart \/ WriteEntry
    BY <2>2, WriteStartQueue, WriteEntryQueue
  <2>3. CASE recv_handle_fails \/ send_handle_flag
    BY <2>3, QuietCallbackQueue
  <2>4. CASE FailFree
    BY <2>4, FailFreeQueue
  <2>5. CASE (\E c \in Conns : accept_handle(c)) \/ accept_refuse
    BY <2>5, AcceptHandleQueue, AcceptRefuseQueue
  <2>6. CASE send_handle_take \/ send_buf_node \/ send_handle_again
    BY <2>6, SendTakeQueue, SendBufQueue, SendAgainQueue
  <2>7. CASE connect_result \/ connect_handle_returns \/ connect_cleanup
    BY <2>7, ConnectResultQueue, ConnectReturnsQueue, ConnectCleanupQueue
  <2>8. CASE unregister_connect
    BY <2>8, UnregisterConnectQueue
  <2>9. CASE \/ free_async_write_resource \/ free_close \/ free_handle
             \/ accept_free_callback
    BY <2>9, FlushQueue, FreeCloseQueue, FreeHandleQueue, AcceptFreedQueue
  <2> QED
    BY <1>4, <2>1, <2>2, <2>3, <2>4, <2>5, <2>6, <2>7, <2>8, <2>9 DEF Callback
<1>5. CASE LoopQuiet \/ CbReturn
  BY <1>5, LoopQuietQueue, CbReturnQueue
<1> QED
  BY <1>1, <1>2, <1>3, <1>4, <1>5 DEF RecvNext

LEMMA QueueInvInit == RecvInit => QueueInv /\ Callers
<1> SUFFICES ASSUME RecvInit PROVE QueueInv /\ Callers
  OBVIOUS
<1>1. /\ pc[0] = "top" /\ batch[0] = {} /\ cb = NoCb /\ Alive = {} /\ 0 \in Actors
      /\ \A a \in Actors : call[a] = NoCall
  BY LoopsFacts DEF RecvInit, Init, Alive, Actors
<1>2. /\ NoCall.pc = None /\ NoCall.obj = None /\ NoCb.pc = None /\ NoCb.obj = None
  BY DEF NoCall, NoCb
<1>3. OutShape
  BY <1>1 DEF OutShape
<1>4. ASSUME NEW c \in Conns PROVE QueueShape(c)
  <2>1. conn[c] = NoConn /\ c # None
    BY NamesAssumption DEF RecvInit, None
  <2>2. /\ NoConn.mem = None /\ NoConn.dialed /\ ~NoConn.up
        /\ NoConn.node = <<>> /\ NoConn.queue = <<>>
    BY DEF NoConn, NewConn
  <2>3. \A ps : ~InCb(c, ps)
    BY <1>1, <1>2, <2>1 DEF InCb
  <2>4. ~Data(c) /\ ~Writes(c) /\ ~Connecting(c)
    BY <1>1, <2>1, <2>2, <2>3 DEF Data, Writes, Connecting
  <2> QED
    BY <2>1, <2>2, <2>3, <2>4 DEF QueueShape, None
<1> QED
  BY <1>1, <1>3, <1>4 DEF QueueInv, Callers

LEMMA CallersStep ==
    ASSUME StreamInv, Callers, 0 \in Actors, [RecvNext]_allVars
    PROVE  Callers'
<1>0. call = [a \in Actors |-> call[a]] /\ NoCall.pc = None
  BY DEF StreamInv, StreamType, NoCall
<1>1. CASE \A a \in Actors : a # 0 => call'[a] = call[a]
  BY <1>1 DEF Callers
<1>2. ASSUME NEW a \in Clients \cup {0}, \A b \in Actors : b # a => call'[b] = call[b]
      PROVE  Callers'
  BY <1>2 DEF Callers
<1>3. ASSUME NEW a \in Actors, Begin(a) PROVE Callers'
  <2>1. a \in Clients \cup {0}
    BY <1>3 DEF Begin, send_data, free, dial, accept_init, accept_free, Free
  <2>2. CASE \E c \in Conns : send_data(a, c)
    <3>1. PICK r : call' = [call EXCEPT ![a] = r] \/ call' = call
      BY <1>0, <2>2 DEF send_data
    <3> QED
      BY <1>0, <1>2, <2>1, <3>1
  <2>3. CASE \E c \in Conns : free(a, c)
    <3>1. PICK r : call' = [call EXCEPT ![a] = r]
      BY <1>0, <2>3 DEF free, FreeLock
    <3> QED
      BY <1>0, <1>2, <2>1, <3>1
  <2>4. CASE \E c \in Conns : dial(a, c)
    <3>1. PICK c, p : Enters(a, p, c) \/ call' = call
      BY <2>4 DEF dial, Enters
    <3> QED
      BY <1>2, <2>1, <3>1, CallsOf DEF OneCall
  <2>5. CASE \E x \in Acceptors : accept_init(a, x) \/ accept_free(a, x)
    <3>1. PICK c, p : Enters(a, p, c) \/ call' = call
      BY <2>5 DEF accept_init, accept_free, Enters
    <3> QED
      BY <1>2, <2>1, <3>1, CallsOf DEF OneCall
  <2> QED
    BY <1>3, <2>2, <2>3, <2>4, <2>5 DEF Begin
<1>4. ASSUME NEW a \in Actors, Continue(a) PROVE Callers'
  <2>1. call[a].pc # None
    BY <1>4 DEF Continue, send_data_lock, send_data_add, send_data_flag, direct_fd,
       direct_write, unregister_read, unregister_write, free_unlock, register_connect,
       register_read, register_read_flag, accept_free_ctl, None
  <2>2. a \in Clients \cup {0}
    BY <1>0, <2>1 DEF Callers
  <2>3. \/ \E p : Goto2(a, p) \/ Return2(a) \/ \E r : call' = [call EXCEPT ![a] = r]
    <3>1. CASE send_data_lock(a) \/ send_data_add(a) \/ send_data_flag(a)
      BY <3>1 DEF send_data_lock, send_data_add, send_data_flag
    <3>2. CASE direct_fd(a) \/ direct_write(a)
      <4>1. \/ Return2(a)
            \/ \E p, f : call' = [call EXCEPT ![a].pc = p, ![a].fd = f]
            \/ \E s : call' = [call EXCEPT ![a].data = s]
        BY <3>2 DEF direct_fd, direct_write
      <4> QED
        BY <1>0, <4>1
    <3>3. CASE unregister_read(a) \/ unregister_write(a) \/ free_unlock(a)
      BY <3>3 DEF unregister_read, unregister_write, free_unlock
    <3>4. CASE \/ register_connect(a) \/ register_read(a) \/ register_read_flag(a)
               \/ accept_free_ctl(a)
      BY <3>4 DEF register_connect, register_read, register_read_flag, accept_free_ctl
    <3> QED
      BY <1>4, <3>1, <3>2, <3>3, <3>4 DEF Continue
  <2>4. \A b \in Actors : b # a => call'[b] = call[b]
    <3>1. CASE \E r : call' = [call EXCEPT ![a] = r]
      BY <1>0, <3>1
    <3> QED
      BY <2>3, <3>1, CallsOf DEF OneCall
  <2> QED
    BY <1>2, <2>2, <2>4
<1>5. CASE Callback
  <2>1. CASE FailFree
    <3>1. \E r : call' = [call EXCEPT ![0] = r]
      BY <2>1 DEF FailFree, FreeLock
    <3> QED
      BY <1>0, <1>1, <3>1
  <2>2. CASE (\E c \in Conns : accept_handle(c)) \/ connect_result
    <3>1. PICK c, p : Enters(0, p, c) \/ call' = call
      BY <2>2 DEF accept_handle, connect_result, Enters
    <3> QED
      BY <1>1, <3>1, CallsOf DEF OneCall
  <2>3. CASE call' = call
    BY <1>1, <2>3
  <2>4. CASE \/ RecvStart \/ AcceptStart \/ WriteStart \/ WriteEntry \/ recv_handle_fails
             \/ accept_refuse \/ send_handle_take \/ send_buf_node \/ send_handle_again
             \/ send_handle_flag \/ connect_handle_returns \/ connect_cleanup
             \/ unregister_connect \/ free_async_write_resource \/ free_close \/ free_handle
             \/ accept_free_callback
    <3>1. call' = call
      BY <2>4 DEF RecvStart, AcceptStart, WriteStart, WriteEntry, recv_handle_fails,
         accept_refuse, send_handle_take, send_buf_node, send_handle_again, send_handle_flag,
         connect_handle_returns, connect_cleanup, unregister_connect,
         free_async_write_resource, free_close, free_handle, accept_free_callback, CbKeeps
    <3> QED
      BY <1>1, <3>1
  <2> QED
    BY <1>5, <2>1, <2>2, <2>4 DEF Callback
<1>6. CASE LoopQuiet \/ CbReturn \/ UNCHANGED allVars
  BY <1>1, <1>6 DEF LoopQuiet, CbReturn, CbKeeps, allVars, objVars
<1> QED
  BY <1>3, <1>4, <1>5, <1>6 DEF RecvNext

\* Where neither a thread nor the loop has the data, the job is there, listed, and
\* its write callback is send_handle.
LEMMA QueueInvSafe ==
    ASSUME RecvInv, QueueInv
    PROVE  QueuedIsWatched
<1> SUFFICES ASSUME NEW c \in Conns, conn[c].mem = "live", conn[c].async, ~conn[c].freed,
                    conn[c].node \o conn[c].queue # <<>>, ~InPcs(c, SendPcs),
                    ~(cb.obj = c /\ cb.pc \in SendCbPcs \cup {"fail"})
             PROVE  \E j \in ioJobs : /\ job[j].fd = conn[c].fd
                                      /\ "W" \in job[j].ev
                                      /\ ~job[j].del
                                      /\ bind[j] = [obj |-> c, wcb |-> "send"]
  BY DEF QueuedIsWatched
<1>1. LoopsInv /\ StreamInv /\ JobsInv /\ QueueShape(c)
  BY DEF RecvInv, QueueInv
<1>2. Data(c)
  <2>1. <<>> \o <<>> = <<>>
    OBVIOUS
  <2> QED
    BY <2>1 DEF Data
<1>3. ~Registering(c)
  BY DEF Registering, InPcs, Inside, SendPcs
<1>4. ~Sending(c)
  BY DEF Sending, InCb, SendCbPcs
<1>5. Sends(c)
  BY <1>1, <1>2, <1>3, <1>4 DEF QueueShape
<1>6. PICK j \in Alive : bind[j].obj = c /\ bind[j].wcb = "send" /\ "W" \in job[j].ev
  BY <1>5 DEF Sends
<1>7. ~job[j].del /\ j \in Jobs
  BY <1>1, <1>6, WriterLives, AliveFacts
<1>8. j \in ioJobs
  BY <1>1, <1>7, AliveFacts DEF MemInv, OwnedOnce
<1>9. job[j].fd = conn[c].fd
  BY <1>1, <1>6 DEF JobsInv, ConnShape, JobShape
<1>10. bind[j] = [obj |-> c, wcb |-> "send"]
  BY <1>1, <1>6, <1>7 DEF JobsInv, BindShape, BindRec
<1> QED
  BY <1>6, <1>7, <1>8, <1>9, <1>10

\* Queued data does not get stuck: while no thread is in send_data before it has
\* registered, and the loop is not in the write callback, the connection's job has
\* the write event, and _send_callback for it.  add_write_job on a job that has
\* the event for connect, the flags that connect_handle reads without the lock, and
\* the write event that the loop takes away before the callback do not lose it.
THEOREM QueuedDataIsWatched ==
    ASSUME "userFree" \in Rules, "ctlSpace" \in Rules, RecvHabits \subseteq Habits
    PROVE  RecvSpec => []QueuedIsWatched
<1> DEFINE QInv == RecvInv /\ QueueInv /\ Callers
<1>1. RecvInit => QInv
  BY RecvInvInit, QueueInvInit
<1>2. QInv /\ [RecvNext]_allVars => QInv'
  <2> SUFFICES ASSUME QInv, [RecvNext]_allVars PROVE QInv'
    OBVIOUS
  <2>1. RecvInv'
    BY RecvInvStep
  <2>2. QueueInv'
    BY QueueInvStep DEF RecvInv
  <2>3. Callers'
    BY CallersStep, AliveFacts DEF RecvInv
  <2> QED
    BY <2>1, <2>2, <2>3
<1>3. QInv => QueuedIsWatched
  BY QueueInvSafe
<1> QED
  BY <1>1, <1>2, <1>3, PTL DEF RecvSpec
=============================================================================
