------------------------------ MODULE MCKernel ------------------------------
(***************************************************************************)
(* The scheduler, address spaces and the functions that copy between them  *)
(* and the kernel, for TLC.  In a behaviour one of them moves, or is given *)
(* an input, and the others stay as they are initialised.                  *)
(***************************************************************************)
EXTENDS Sched, Sequences

CONSTANTS
  VMPROCS, NPAGES, PGSIZE, FAN, NFILE, Deltas, Programs, \* Vm
  MAXVA, UINT, WORD                                     \* UserMem

VARIABLES
  part,      \* the one that moves
  free, proc, pipes, pfiles, panicked, failed,
  given      \* what a function of UserMem is given

mvars == <<free, proc, pipes, pfiles, panicked, failed>>
allvars == <<part, given, vars, mvars>>

V == INSTANCE Vm WITH NPROC <- VMPROCS
U == INSTANCE UserMem

(* Arguments of sbrk(); programs without and with segments, one of which   *)
(* ends below the one before.                                              *)
MCDeltas == {-3, 1, 3}
MCPrograms == {<<>>, <<1>>, <<3, 2>>}

(* Three pages of user addresses in three frames of memory that are in     *)
(* another order, every page unmapped, for the kernel only, read-only or   *)
(* writable; memory with at most one zero byte; addresses up to one past   *)
(* MAXVA; and lengths.                                                     *)
Frame == <<5, 1, 3>>
Flags == {{}, {"v", "w"}, {"v", "u"}, {"v", "u", "w"}}
PageTable(fl) ==
  [v \in {x \in 0..2 : fl[x + 1] # {}} |->
     [pa |-> Frame[v + 1], u |-> "u" \in fl[v + 1], w |-> "w" \in fl[v + 1]]]
Memory(zero) == [a \in 1..6 |-> IF a = zero THEN 0 ELSE a]
Source(len) == [i \in 1..len |-> 10 + i]
Copies == [fl : [1..3 -> Flags], zero : 0..6, va : 0..7, len : 0..4]

MCInit ==
  /\ Init /\ V!Init
  /\ \/ part \in {"sched", "vm"} /\ given = <<>>
     \/ part = "copy" /\ given \in Copies

MCNext ==
  /\ UNCHANGED <<part, given>>
  /\ \/ part = "sched" /\ Next /\ UNCHANGED mvars
     \/ part = "vm" /\ V!Next /\ UNCHANGED vars
     \/ part = "copy" /\ UNCHANGED <<vars, mvars>>

MCSpec == MCInit /\ [][MCNext]_allvars
-----------------------------------------------------------------------------
(* No page of kalloc.c is lost or used twice, no process has memory above  *)
(* p->sz or lacks some below it, and no call reaches a panic of vm.c.      *)
MemoryAccounted == part = "vm" => V!MemoryAccounted

(* fork(), exec(), sbrk() and pipe() that fail leave everything as it was. *)
FailureChangesNothing == V!FailureChangesNothing

(* copyout(), copyin(), copyinstr() and fetchaddr() touch exactly the      *)
(* user's bytes, across pages, or fail.                                    *)
CopiesExact ==
  part = "copy" =>
    U!CopiesExact(PageTable(given.fl), Memory(given.zero), given.va, Source(given.len))
=============================================================================
