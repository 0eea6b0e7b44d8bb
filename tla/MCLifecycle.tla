---------------------------- MODULE MCLifecycle ----------------------------
(***************************************************************************)
(* Lifecycle on a small instance: up to two loops, started twice, and two  *)
(* event pools.                                                            *)
(***************************************************************************)
EXTENDS Lifecycle

TwoPools == {1, 2}
=============================================================================
