---------------------------- MODULE MCThreadPool ----------------------------
(***************************************************************************)
(* ThreadPool on small instances: one worker from Init, two or three tasks *)
(* and the threads that pass them to Execute.                              *)
(***************************************************************************)
EXTENDS ThreadPool

CONSTANTS c1, c2, t1, t2, t3, w1
=============================================================================
