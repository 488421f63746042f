------------------------------ MODULE MCSched ------------------------------
(* Sched alone for TLC. *)
EXTENDS Sched
=============================================================================
