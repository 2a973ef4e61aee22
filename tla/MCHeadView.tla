---------------------------- MODULE MCHeadView ----------------------------
(* Instances of HeadView for TLC. *)
EXTENDS HeadView
===========================================================================
