------------------------------- MODULE MCUtil -------------------------------
(* The utilities side by side: a behaviour exercises one of them.          *)
EXTENDS MemPool, Squeue, Ranges, LogProc

VARIABLE unit

AddressWords == {0, 6, 15}
Ip4 == {<<w>> : w \in 0 .. 15}
Ip6 == [1 .. 4 -> AddressWords]

Token(k, v, ip, to, n, m) == [kind |-> k, v |-> v, ip |-> ip, to |-> to, n |-> n, m |-> m]
Subnets == {Token("subnet", 4, ip, ip, n, 0) : ip \in Ip4, n \in 0 .. 5}
           \cup {Token("subnet", 6, ip, ip, n, 0) : ip \in Ip6, n \in 0 .. 16}
Shorts == {Token("short", 4, ip, ip, n, 0) : ip \in Ip4, n \in 0 .. 2}
          \cup {Token("short", 6, <<6, 0, 15, w>>, <<>>, n, 0) : w \in 0 .. 15, n \in 0 .. 4}
PortTokens == {Token("ports", 4, <<>>, <<>>, n, m) : n, m \in 0 .. 11}
              \cup {Token("port", 4, <<>>, <<>>, n, 0) : n \in 0 .. 11}
Few == {Token("single", 6, <<0, 6, 15, 0>>, <<>>, 0, 0), Token("bad", 4, <<>>, <<>>, 0, 0),
        Token("range", 4, <<3>>, <<9>>, 0, 0)}
IpLists == {<<t>> : t \in Subnets \cup Shorts}
           \cup {<<t, u>> : t, u \in Few} \cup {<<t, t, t>> : t \in Few}
PortLists == {<<t>> : t \in PortTokens} \cup {<<t, Token("port", 4, <<>>, <<>>, 5, 0)>> : t \in PortTokens}
AllLists == IpLists \cup PortLists \cup {<<>>}

UtilInit ==
    /\ unit \in {"mempool", "squeue", "ranges", "logproc"}
    /\ MemInit /\ SqInit /\ RangeInit /\ LogInit

UtilNext ==
    /\ UNCHANGED unit
    /\ \/ unit = "mempool" /\ MemNext /\ UNCHANGED <<sqVars, rangeVars, logVars>>
       \/ unit = "squeue" /\ SqNext /\ UNCHANGED <<memVars, rangeVars, logVars>>
       \/ unit = "ranges" /\ RangeNext /\ UNCHANGED <<memVars, sqVars, logVars>>
       \/ unit = "logproc" /\ LogNext /\ UNCHANGED <<memVars, sqVars, rangeVars>>

UtilSpec == UtilInit /\ [][UtilNext]_<<unit, memVars, sqVars, rangeVars, logVars>>
=============================================================================
