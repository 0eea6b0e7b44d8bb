------------------------------ MODULE MCNetRecv ------------------------------
(***************************************************************************)
(* NetRecv on small instances: one loop and one client thread, connections *)
(* and an acceptor that share two descriptors.                             *)
(***************************************************************************)
EXTENDS NetRecv

CONSTANTS c1, f1, f2, k1, k2, x1

LoopZero == [f \in Fds |-> 0]
Kernel == {"userFree", "ctlSpace"}

\* One message of a node and a half, and one that fits.
TwoMessages == <<3, 1>>
OneMessage == <<2>>
Async == {TRUE}
BothModes == BOOLEAN
=============================================================================
