------------------------------ MODULE Sysproc ------------------------------
(***************************************************************************)
(* The system calls of kernel/sysproc.c that a process waits in: fork(),   *)
(* exit(), wait() and kill() on the process table (module Proc), and       *)
(* sleep() on the clock (module SysSleep).  The two share no state.        *)
(***************************************************************************)
EXTENDS Proc

CONSTANTS Sleepers, NoProc, TICK_MOD, Args, MaxLag     \* SysSleep

VARIABLES ticks, tickslock, s_killed, s_pc, n, ticks0, elapsed, lag

svars == <<ticks, tickslock, s_killed, s_pc, n, ticks0, elapsed, lag>>

Sl == INSTANCE SysSleep WITH Procs <- Sleepers, killed <- s_killed, pc <- s_pc

ASSUME SleepConstants == Sl!SleepConstants
-----------------------------------------------------------------------------
(* sys_sleep() returns 0 only after n ticks, and outlasts them by no more  *)
(* than the wait for a CPU, whenever `ticks' wraps around.                 *)
SleepsAsAsked == Sl!SleepsAsAsked

(* Every sleep() returns, that of a process that is killed too. *)
SleepEnds == Sl!SleepEnds
=============================================================================
