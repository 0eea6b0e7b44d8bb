------------------------------ MODULE MCNetPoll ------------------------------
(***************************************************************************)
(* NetPoll on small instances: two loops, one client thread, and           *)
(* descriptors for which the application passes a fixed thread index or    *)
(* lets the library choose (256, the default argument of the API).         *)
(***************************************************************************)
EXTENDS NetPoll

CONSTANTS c1, c2, f1, f2

AutoIndex == 256
\* f1 is pinned to loop 1, any other goes to the loop the library chooses.
MixedThrdArg == [f \in Fds |-> IF f = f1 THEN 1 ELSE AutoIndex]
=============================================================================
