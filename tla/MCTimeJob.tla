----------------------------- MODULE MCTimeJob -----------------------------
(***************************************************************************)
(* TimeJob on small instances: an application thread and a pool thread.    *)
(***************************************************************************)
EXTENDS TimeJob

CONSTANTS th, pt, k1, k2
=============================================================================
