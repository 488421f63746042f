------------------------------- MODULE MCProc -------------------------------
(***************************************************************************)
(* The process table and the clock with sleep() for TLC.  In a behaviour   *)
(* one of them moves and the other stays as it is initialised.             *)
(***************************************************************************)
EXTENDS Sysproc

CONSTANT Parts     \* those that may move

VARIABLE part      \* the one that moves

allvars == <<part, vars, svars>>

MCArgs == {-1, 2}

OfProc(A) == part = "proc" /\ A /\ UNCHANGED <<part, svars>>
OfSleep(A) == part = "sleep" /\ A /\ UNCHANGED <<part, vars>>

MCInit == part \in Parts /\ Init /\ Sl!Init
MCNext == OfProc(Next) \/ OfSleep(Sl!Next)

(* A process inside a system call goes on, and gets a spinlock that is     *)
(* free again and again; init calls wait() again and again (user/init.c),  *)
(* and the clock ticks.                                                    *)
Fairness ==
  /\ \A p \in Slots : SF_allvars(OfProc(KernelStep(p)) \/ OfSleep(p \in Sleepers /\ Sl!CallStep(p)))
  /\ SF_allvars(OfProc(wait_call(initproc)) \/ OfSleep(Sl!clockintr))

MCSpec == MCInit /\ [][MCNext]_allvars /\ Fairness
=============================================================================
