----------------------------- MODULE ProcProofs -----------------------------
(***************************************************************************)
(* Proofs about fork(), exit() and wait() for every size of the process    *)
(* table and any number of forks: pids are unique, every process has a     *)
(* living parent, no parent sleeps in wait() beside a zombie child, and a  *)
(* slot is freed only when its process has left its kernel stack.  At the  *)
(* end, sys_sleep(): a sleeper sleeps as long as it asked for, although    *)
(* ticks wraps, for any number of sleepers.                                *)
(***************************************************************************)
EXTENDS Sysproc, TLAPS, WellFoundedInduction

(* The loops over proc[] that stop at the first match: a set of slots that *)
(* is not empty has a first one.                                           *)
LEMMA FirstSlot ==
  ASSUME NPROC \in Nat \ {0}, NEW S \in SUBSET Slots, S # {}
  PROVE  First(S) \in S /\ \A y \in S : First(S) <= y
<1>1. S \subseteq Nat
  BY DEF Slots
<1> DEFINE Less == {ss \in Nat \X Nat : ss[1] < ss[2]}
<1>2. IsWellFoundedOn(Less, Nat)
  BY ONLY Zenon, NatLessThanWellFounded DEF OpToRel
<1>3. PICK x \in S : \A y \in S : ~(<<y, x>> \in Less)
  <2> HIDE DEF Less
  <2> QED
    BY ZenonT(40), <1>1, <1>2, WFMin
<1>4. ASSUME NEW y \in S, y < x PROVE FALSE
  BY ZenonT(40), <1>1, <1>3, <1>4
<1>5. \A y \in S : x <= y
  BY <1>1, <1>4
<1> QED
  BY Zenon, <1>5 DEF First

(* The slots are numbered from 1, which is init's, and a null pointer is   *)
(* none of them.                                                           *)
LEMMA Ranges ==
  ASSUME NPROC \in Nat \ {0}
  PROVE  /\ Slots \subseteq Nat /\ None \notin Slots /\ initproc \in Slots
BY DEF Slots, None, initproc

(* usertrap() keeps the invariant. *)
LEMMA Step_usertrap ==
  ASSUME NPROC \in Nat \ {0}, ProcInv, NEW p \in Slots, usertrap(p)
  PROVE  ProcInv'
<1> USE Ranges DEF ProcInv, usertrap, At, Goto
<1>1. TypeOK'
  BY Zenon DEF TypeOK
<1>2. PidsUnique'
  BY Zenon DEF TypeOK, PidsUnique, PidInv
<1>3. PidInv'
  BY Zenon DEF TypeOK, PidInv, PidsUnique
<1>4. PlaceInv'
  BY ZenonT(40) DEF TypeOK, PlaceInv, ForkInv, InFork
<1>5. ForkInv'
  BY DEF TypeOK, ForkInv, PlaceInv, InFork
<1>6. ParentAlive'
  BY Zenon DEF TypeOK, ParentAlive, PlaceInv, ForkInv, ExitInv, Dead, InFork
<1>7. ExitInv'
  BY DEF TypeOK, ExitInv, PlaceInv, ForkInv, Dead, InFork
<1>8. WaitInv'
  BY DEF TypeOK, WaitInv, PlaceInv, ForkInv, ExitInv, ParentAlive, Dead, InFork
<1> QED
  BY Zenon, <1>1, <1>2, <1>3, <1>4, <1>5, <1>6, <1>7, <1>8

(* fork() without a free slot keeps the invariant. *)
LEMMA Step_fork_full ==
  ASSUME NPROC \in Nat \ {0}, ProcInv, NEW p \in Slots, fork_full(p)
  PROVE  ProcInv'
<1> USE Ranges DEF ProcInv, fork_full, At, Goto
<1>1. TypeOK'
  BY Zenon DEF TypeOK
<1>2. PidsUnique'
  BY Zenon DEF TypeOK, PidsUnique, PidInv
<1>3. PidInv'
  BY Zenon DEF TypeOK, PidInv, PidsUnique
<1>4. PlaceInv'
  BY ZenonT(40) DEF TypeOK, PlaceInv, ForkInv, InFork
<1>5. ForkInv'
  BY DEF TypeOK, ForkInv, PlaceInv, InFork
<1>6. ParentAlive'
  BY Zenon DEF TypeOK, ParentAlive, PlaceInv, ForkInv, ExitInv, Dead, InFork
<1>7. ExitInv'
  BY DEF TypeOK, ExitInv, PlaceInv, ForkInv, Dead, InFork
<1>8. WaitInv'
  BY DEF TypeOK, WaitInv, PlaceInv, ForkInv, ExitInv, ParentAlive, Dead, InFork
<1> QED
  BY Zenon, <1>1, <1>2, <1>3, <1>4, <1>5, <1>6, <1>7, <1>8

(* allocproc() keeps the invariant: the slot is free, and its pid is new. *)
LEMMA Step_allocproc ==
  ASSUME NPROC \in Nat \ {0}, ProcInv, NEW p \in Slots, allocproc(p)
  PROVE  ProcInv'
<1>0. PICK m \in Slots : m = First(FreeSlots) /\ m \in FreeSlots /\ \A y \in FreeSlots : m <= y
  BY ZenonT(40), FirstSlot DEF allocproc, FreeSlots
<1> USE <1>0, Ranges DEF ProcInv, allocproc, At, Goto, FreeSlots
<1>1. TypeOK'
  BY DEF TypeOK
<1>2. PidsUnique'
  BY DEF TypeOK, PidsUnique, PidInv
<1>3. PidInv'
  BY DEF TypeOK, PidInv, PidsUnique
<1>4. PlaceInv'
  BY DEF TypeOK, PlaceInv, ForkInv, InFork
<1>5. ForkInv'
  BY DEF TypeOK, ForkInv, PlaceInv, InFork
<1>6. ParentAlive'
  BY DEF TypeOK, ParentAlive, PlaceInv, ForkInv, ExitInv, Dead, InFork
<1>7. ExitInv'
  BY DEF TypeOK, ExitInv, PlaceInv, ForkInv, Dead, InFork
<1>8. WaitInv'
  BY DEF TypeOK, WaitInv, PlaceInv, ForkInv, ExitInv, ParentAlive, Dead, InFork
<1> QED
  BY Zenon, <1>1, <1>2, <1>3, <1>4, <1>5, <1>6, <1>7, <1>8

(* fork() that runs out of memory and frees the slot again keeps the       *)
(* invariant.                                                              *)
LEMMA Step_fork_nomem ==
  ASSUME NPROC \in Nat \ {0}, ProcInv, NEW p \in Slots, fork_nomem(p)
  PROVE  ProcInv'
<1>0. PICK m \in Slots : m = First(FreeSlots) /\ m \in FreeSlots /\ \A y \in FreeSlots : m <= y
  BY Zenon, FirstSlot DEF fork_nomem, FreeSlots
<1> USE <1>0, Ranges DEF ProcInv, fork_nomem, At, Goto, FreeSlots
<1>1. TypeOK'
  BY DEF TypeOK
<1>2. PidsUnique'
  BY ZenonT(40) DEF TypeOK, PidsUnique, PidInv
<1>3. PidInv'
  BY DEF TypeOK, PidInv, PidsUnique
<1>4. PlaceInv'
  BY DEF TypeOK, PlaceInv, ForkInv, InFork
<1>5. ForkInv'
  BY DEF TypeOK, ForkInv, PlaceInv, InFork
<1>6. ParentAlive'
  BY Zenon DEF TypeOK, ParentAlive, PlaceInv, ForkInv, ExitInv, Dead, InFork
<1>7. ExitInv'
  BY DEF TypeOK, ExitInv, PlaceInv, ForkInv, Dead, InFork
<1>8. WaitInv'
  BY DEF TypeOK, WaitInv, PlaceInv, ForkInv, ExitInv, ParentAlive, Dead, InFork
<1> QED
  BY Zenon, <1>1, <1>2, <1>3, <1>4, <1>5, <1>6, <1>7, <1>8

(* fork() that records the parent under wait_lock keeps the invariant. *)
LEMMA Step_fork_parent ==
  ASSUME NPROC \in Nat \ {0}, ProcInv, NEW p \in Slots, fork_parent(p)
  PROVE  ProcInv'
<1> USE Ranges DEF ProcInv, fork_parent, At, Goto
<1>1. TypeOK'
  BY ZenonT(40) DEF TypeOK
<1>2. PidsUnique'
  BY Zenon DEF TypeOK, PidsUnique, PidInv
<1>3. PidInv'
  BY Zenon DEF TypeOK, PidInv, PidsUnique
<1>4. PlaceInv'
  BY ZenonT(40) DEF TypeOK, PlaceInv, ForkInv, InFork
<1>5. ForkInv'
  BY DEF TypeOK, ForkInv, PlaceInv, InFork
<1>6. ParentAlive'
  BY DEF TypeOK, ParentAlive, PlaceInv, ForkInv, ExitInv, Dead, InFork
<1>7. ExitInv'
  BY DEF TypeOK, ExitInv, PlaceInv, ForkInv, Dead, InFork
<1>8. WaitInv'
  BY DEF TypeOK, WaitInv, PlaceInv, ForkInv, ExitInv, ParentAlive, Dead, InFork
<1> QED
  BY Zenon, <1>1, <1>2, <1>3, <1>4, <1>5, <1>6, <1>7, <1>8

(* fork() that makes the child RUNNABLE keeps the invariant: its parent is *)
(* alive.                                                                  *)
LEMMA Step_fork_run ==
  ASSUME NPROC \in Nat \ {0}, ProcInv, NEW p \in Slots, fork_run(p)
  PROVE  ProcInv'
<1> USE Ranges DEF ProcInv, fork_run, At, Goto
<1>1. TypeOK'
  BY DEF TypeOK, PlaceInv, ForkInv, InFork
<1>2. PidsUnique'
  BY DEF TypeOK, PidsUnique, PidInv, PlaceInv, ForkInv, InFork
<1>3. PidInv'
  BY Zenon DEF TypeOK, PidInv, PidsUnique
<1>4. PlaceInv'
  BY DEF TypeOK, PlaceInv, ForkInv, InFork
<1>5. ForkInv'
  BY DEF TypeOK, ForkInv, PlaceInv, InFork
<1>6. ParentAlive'
  BY DEF TypeOK, ParentAlive, PlaceInv, ForkInv, ExitInv, Dead, InFork
<1>7. ExitInv'
  BY DEF TypeOK, ExitInv, PlaceInv, ForkInv, Dead, InFork
<1>8. WaitInv'
  BY DEF TypeOK, WaitInv, PlaceInv, ForkInv, ExitInv, ParentAlive, Dead, InFork
<1> QED
  BY Zenon, <1>1, <1>2, <1>3, <1>4, <1>5, <1>6, <1>7, <1>8

(* Entering exit() keeps the invariant. *)
LEMMA Step_exit_call ==
  ASSUME NPROC \in Nat \ {0}, ProcInv, NEW p \in Slots, exit_call(p)
  PROVE  ProcInv'
<1> USE Ranges DEF ProcInv, exit_call, At, Goto
<1>1. TypeOK'
  BY Zenon DEF TypeOK
<1>2. PidsUnique'
  BY Zenon DEF TypeOK, PidsUnique, PidInv
<1>3. PidInv'
  BY Zenon DEF TypeOK, PidInv, PidsUnique
<1>4. PlaceInv'
  BY ZenonT(40) DEF TypeOK, PlaceInv, ForkInv, InFork
<1>5. ForkInv'
  BY DEF TypeOK, ForkInv, PlaceInv, InFork
<1>6. ParentAlive'
  BY Zenon DEF TypeOK, ParentAlive, PlaceInv, ForkInv, ExitInv, Dead, InFork
<1>7. ExitInv'
  BY DEF TypeOK, ExitInv, PlaceInv, ForkInv, Dead, InFork
<1>8. WaitInv'
  BY DEF TypeOK, WaitInv, PlaceInv, ForkInv, ExitInv, ParentAlive, Dead, InFork
<1> QED
  BY Zenon, <1>1, <1>2, <1>3, <1>4, <1>5, <1>6, <1>7, <1>8

(* init that exits stops the machine, which keeps the invariant. *)
LEMMA Step_exit_init ==
  ASSUME NPROC \in Nat \ {0}, ProcInv, NEW p \in Slots, exit_init(p)
  PROVE  ProcInv'
<1> USE Ranges DEF ProcInv, exit_init, At, Goto
<1>1. TypeOK'
  BY Zenon DEF TypeOK
<1>2. PidsUnique'
  BY Zenon DEF TypeOK, PidsUnique, PidInv
<1>3. PidInv'
  BY Zenon DEF TypeOK, PidInv, PidsUnique
<1>4. PlaceInv'
  BY Zenon DEF TypeOK, PlaceInv, ForkInv, InFork
<1>5. ForkInv'
  BY Zenon DEF TypeOK, ForkInv, PlaceInv, InFork
<1>6. ParentAlive'
  BY Zenon DEF TypeOK, ParentAlive, PlaceInv, ForkInv, ExitInv, Dead, InFork
<1>7. ExitInv'
  BY DEF TypeOK, ExitInv, PlaceInv, ForkInv, Dead, InFork
<1>8. WaitInv'
  BY DEF TypeOK, WaitInv, PlaceInv, ForkInv, ExitInv, ParentAlive, Dead, InFork
<1> QED
  BY Zenon, <1>1, <1>2, <1>3, <1>4, <1>5, <1>6, <1>7, <1>8

(* exit() up to its wakeup(p->parent) keeps the invariant: the children    *)
(* are init's, and init is awake if there are any.                         *)
LEMMA Step_exit ==
  ASSUME NPROC \in Nat \ {0}, ProcInv, NEW p \in Slots, exit(p)
  PROVE  ProcInv'
<1> USE Ranges DEF ProcInv, exit, At, Goto, reparent, wakeup, Children
<1>1. TypeOK'
  BY DEF TypeOK
<1>2. PidsUnique'
  BY Zenon DEF TypeOK, PidsUnique, PidInv
<1>3. PidInv'
  BY Zenon DEF TypeOK, PidInv, PidsUnique
<1>4. PlaceInv'
  BY ZenonT(40) DEF TypeOK, PlaceInv, ForkInv, InFork
<1>5. ForkInv'
  BY DEF TypeOK, ForkInv, PlaceInv, InFork
<1>6. ParentAlive'
  BY DEF TypeOK, ParentAlive, PlaceInv, ForkInv, ExitInv, Dead, InFork
<1>7. ExitInv'
  BY DEF TypeOK, ExitInv, PlaceInv, ForkInv, Dead, InFork
<1>8. WaitInv'
  BY DEF TypeOK, WaitInv, PlaceInv, ForkInv, ExitInv, ParentAlive, Dead, InFork
<1> QED
  BY Zenon, <1>1, <1>2, <1>3, <1>4, <1>5, <1>6, <1>7, <1>8

(* exit() that becomes a ZOMBIE and releases wait_lock keeps the           *)
(* invariant: the parent it woke cannot have gone back to sleep.           *)
LEMMA Step_exit_zombie ==
  ASSUME NPROC \in Nat \ {0}, ProcInv, NEW p \in Slots, exit_zombie(p)
  PROVE  ProcInv'
<1> USE Ranges DEF ProcInv, exit_zombie, At, Goto
<1>1. TypeOK'
  BY Zenon DEF TypeOK
<1>2. PidsUnique'
  BY ZenonT(40) DEF TypeOK, PidsUnique, PidInv
<1>3. PidInv'
  BY Zenon DEF TypeOK, PidInv, PidsUnique
<1>4. PlaceInv'
  BY DEF TypeOK, PlaceInv, ForkInv, InFork
<1>5. ForkInv'
  BY DEF TypeOK, ForkInv, PlaceInv, InFork
<1>6. ParentAlive'
  BY DEF TypeOK, ParentAlive, PlaceInv, ForkInv, ExitInv, Dead, InFork
<1>7. ExitInv'
  BY DEF TypeOK, ExitInv, PlaceInv, ForkInv, Dead, InFork
<1>8. WaitInv'
  BY DEF TypeOK, WaitInv, PlaceInv, ForkInv, ExitInv, ParentAlive, Dead, InFork
<1> QED
  BY Zenon, <1>1, <1>2, <1>3, <1>4, <1>5, <1>6, <1>7, <1>8

(* The last switch of exit(), after which p->lock is free, keeps the       *)
(* invariant.                                                              *)
LEMMA Step_exit_swtch ==
  ASSUME NPROC \in Nat \ {0}, ProcInv, NEW p \in Slots, exit_swtch(p)
  PROVE  ProcInv'
<1> USE Ranges DEF ProcInv, exit_swtch, At, Goto
<1>1. TypeOK'
  BY Zenon DEF TypeOK
<1>2. PidsUnique'
  BY Zenon DEF TypeOK, PidsUnique, PidInv
<1>3. PidInv'
  BY Zenon DEF TypeOK, PidInv, PidsUnique
<1>4. PlaceInv'
  BY DEF TypeOK, PlaceInv, ForkInv, InFork
<1>5. ForkInv'
  BY DEF TypeOK, ForkInv, PlaceInv, InFork
<1>6. ParentAlive'
  BY Zenon DEF TypeOK, ParentAlive, PlaceInv, ForkInv, ExitInv, Dead, InFork
<1>7. ExitInv'
  BY DEF TypeOK, ExitInv, PlaceInv, ForkInv, Dead, InFork
<1>8. WaitInv'
  BY DEF TypeOK, WaitInv, PlaceInv, ForkInv, ExitInv, ParentAlive, Dead, InFork
<1> QED
  BY Zenon, <1>1, <1>2, <1>3, <1>4, <1>5, <1>6, <1>7, <1>8

(* Entering wait() keeps the invariant. *)
LEMMA Step_wait_call ==
  ASSUME NPROC \in Nat \ {0}, ProcInv, NEW p \in Slots, wait_call(p)
  PROVE  ProcInv'
<1> USE Ranges DEF ProcInv, wait_call, At, Goto
<1>1. TypeOK'
  BY Zenon DEF TypeOK
<1>2. PidsUnique'
  BY Zenon DEF TypeOK, PidsUnique, PidInv
<1>3. PidInv'
  BY Zenon DEF TypeOK, PidInv, PidsUnique
<1>4. PlaceInv'
  BY ZenonT(40) DEF TypeOK, PlaceInv, ForkInv, InFork
<1>5. ForkInv'
  BY DEF TypeOK, ForkInv, PlaceInv, InFork
<1>6. ParentAlive'
  BY Zenon DEF TypeOK, ParentAlive, PlaceInv, ForkInv, ExitInv, Dead, InFork
<1>7. ExitInv'
  BY DEF TypeOK, ExitInv, PlaceInv, ForkInv, Dead, InFork
<1>8. WaitInv'
  BY DEF TypeOK, WaitInv, PlaceInv, ForkInv, ExitInv, ParentAlive, Dead, InFork
<1> QED
  BY Zenon, <1>1, <1>2, <1>3, <1>4, <1>5, <1>6, <1>7, <1>8

(* wait() that gets wait_lock keeps the invariant. *)
LEMMA Step_wait ==
  ASSUME NPROC \in Nat \ {0}, ProcInv, NEW p \in Slots, wait(p)
  PROVE  ProcInv'
<1> USE Ranges DEF ProcInv, wait, At, Goto
<1>1. TypeOK'
  BY DEF TypeOK
<1>2. PidsUnique'
  BY Zenon DEF TypeOK, PidsUnique, PidInv
<1>3. PidInv'
  BY Zenon DEF TypeOK, PidInv, PidsUnique
<1>4. PlaceInv'
  BY ZenonT(40) DEF TypeOK, PlaceInv, ForkInv, InFork
<1>5. ForkInv'
  BY DEF TypeOK, ForkInv, PlaceInv, InFork
<1>6. ParentAlive'
  BY Zenon DEF TypeOK, ParentAlive, PlaceInv, ForkInv, ExitInv, Dead, InFork
<1>7. ExitInv'
  BY DEF TypeOK, ExitInv, PlaceInv, ForkInv, Dead, InFork
<1>8. WaitInv'
  BY DEF TypeOK, WaitInv, PlaceInv, ForkInv, ExitInv, ParentAlive, Dead, InFork
<1> QED
  BY Zenon, <1>1, <1>2, <1>3, <1>4, <1>5, <1>6, <1>7, <1>8

(* wait() that frees the first zombie child keeps the invariant: a zombie  *)
(* has no children.                                                        *)
LEMMA Step_wait_reap ==
  ASSUME NPROC \in Nat \ {0}, ProcInv, NEW p \in Slots, wait_reap(p)
  PROVE  ProcInv'
<1>0. PICK m \in Slots : m = First(Zombies(p)) /\ m \in Zombies(p) /\ \A y \in Zombies(p) : m <= y
  BY ZenonT(40), FirstSlot DEF wait_reap, Zombies, Children
<1> USE <1>0, Ranges DEF ProcInv, wait_reap, At, Goto, Zombies, Children, freeproc,
     ChildLocksFree, Visited
<1>1. TypeOK'
  BY ZenonT(40) DEF TypeOK
<1>2. PidsUnique'
  BY DEF TypeOK, PidsUnique, PidInv
<1>3. PidInv'
  BY DEF TypeOK, PidInv, PidsUnique
<1>4. PlaceInv'
  BY DEF TypeOK, PlaceInv, ForkInv, InFork
<1>5. ForkInv'
  BY DEF TypeOK, ForkInv, PlaceInv, InFork
<1>6. ParentAlive'
  BY DEF TypeOK, ParentAlive, PlaceInv, ForkInv, ExitInv, Dead, InFork
<1>7. ExitInv'
  BY DEF TypeOK, ExitInv, PlaceInv, ForkInv, Dead, InFork
<1>8. WaitInv'
  BY DEF TypeOK, WaitInv, PlaceInv, ForkInv, ExitInv, ParentAlive, Dead, InFork
<1> QED
  BY Zenon, <1>1, <1>2, <1>3, <1>4, <1>5, <1>6, <1>7, <1>8

(* wait() that returns -1 keeps the invariant. *)
LEMMA Step_wait_fail ==
  ASSUME NPROC \in Nat \ {0}, ProcInv, NEW p \in Slots, wait_fail(p)
  PROVE  ProcInv'
<1> USE Ranges DEF ProcInv, wait_fail, At, Goto
<1>1. TypeOK'
  BY Zenon DEF TypeOK
<1>2. PidsUnique'
  BY Zenon DEF TypeOK, PidsUnique, PidInv
<1>3. PidInv'
  BY Zenon DEF TypeOK, PidInv, PidsUnique
<1>4. PlaceInv'
  BY DEF TypeOK, PlaceInv, ForkInv, InFork
<1>5. ForkInv'
  BY DEF TypeOK, ForkInv, PlaceInv, InFork
<1>6. ParentAlive'
  BY Zenon DEF TypeOK, ParentAlive, PlaceInv, ForkInv, ExitInv, Dead, InFork
<1>7. ExitInv'
  BY SMTT(40) DEF TypeOK, ExitInv, PlaceInv, ForkInv, Dead, InFork
<1>8. WaitInv'
  BY DEF TypeOK, WaitInv, PlaceInv, ForkInv, ExitInv, ParentAlive, Dead, InFork
<1> QED
  BY Zenon, <1>1, <1>2, <1>3, <1>4, <1>5, <1>6, <1>7, <1>8

(* wait() that finds no zombie and is going to sleep keeps the invariant. *)
LEMMA Step_wait_decide ==
  ASSUME NPROC \in Nat \ {0}, ProcInv, NEW p \in Slots, wait_decide(p)
  PROVE  ProcInv'
<1> USE Ranges DEF ProcInv, wait_decide, At, Goto, Zombies, Children
<1>1. TypeOK'
  BY Zenon DEF TypeOK
<1>2. PidsUnique'
  BY Zenon DEF TypeOK, PidsUnique, PidInv
<1>3. PidInv'
  BY Zenon DEF TypeOK, PidInv, PidsUnique
<1>4. PlaceInv'
  BY ZenonT(40) DEF TypeOK, PlaceInv, ForkInv, InFork
<1>5. ForkInv'
  BY DEF TypeOK, ForkInv, PlaceInv, InFork
<1>6. ParentAlive'
  BY Zenon DEF TypeOK, ParentAlive, PlaceInv, ForkInv, ExitInv, Dead, InFork
<1>7. ExitInv'
  BY DEF TypeOK, ExitInv, PlaceInv, ForkInv, Dead, InFork
<1>8. WaitInv'
  BY DEF TypeOK, WaitInv, PlaceInv, ForkInv, ExitInv, ParentAlive, Dead, InFork
<1> QED
  BY Zenon, <1>1, <1>2, <1>3, <1>4, <1>5, <1>6, <1>7, <1>8

(* wait() that sleeps and releases wait_lock keeps the invariant. *)
LEMMA Step_wait_sleep ==
  ASSUME NPROC \in Nat \ {0}, ProcInv, NEW p \in Slots, wait_sleep(p)
  PROVE  ProcInv'
<1> USE Ranges DEF ProcInv, wait_sleep, At, Goto
<1>1. TypeOK'
  BY Zenon DEF TypeOK
<1>2. PidsUnique'
  BY Zenon DEF TypeOK, PidsUnique, PidInv
<1>3. PidInv'
  BY Zenon DEF TypeOK, PidInv, PidsUnique
<1>4. PlaceInv'
  BY DEF TypeOK, PlaceInv, ForkInv, InFork
<1>5. ForkInv'
  BY DEF TypeOK, ForkInv, PlaceInv, InFork
<1>6. ParentAlive'
  BY DEF TypeOK, ParentAlive, PlaceInv, ForkInv, ExitInv, Dead, InFork
<1>7. ExitInv'
  BY DEF TypeOK, ExitInv, PlaceInv, ForkInv, Dead, InFork
<1>8. WaitInv'
  BY DEF TypeOK, WaitInv, PlaceInv, ForkInv, ExitInv, ParentAlive, Dead, InFork
<1> QED
  BY Zenon, <1>1, <1>2, <1>3, <1>4, <1>5, <1>6, <1>7, <1>8

(* kill() keeps the invariant. *)
LEMMA Step_kill ==
  ASSUME NPROC \in Nat \ {0}, ProcInv, NEW p \in Slots, NEW i \in Nat, kill(p, i)
  PROVE  ProcInv'
<1>0. PICK m \in Slots : m = First(Targets(i)) /\ m \in Targets(i) /\ \A y \in Targets(i) : m <= y
  BY Zenon, FirstSlot DEF kill, Targets
<1> USE <1>0, Ranges DEF ProcInv, kill, At, Goto, Targets, wakeup
<1>1. TypeOK'
  BY Zenon DEF TypeOK
<1>2. PidsUnique'
  BY Zenon DEF TypeOK, PidsUnique, PidInv
<1>3. PidInv'
  BY Zenon DEF TypeOK, PidInv, PidsUnique
<1>4. PlaceInv'
  BY DEF TypeOK, PlaceInv, ForkInv, InFork
<1>5. ForkInv'
  BY DEF TypeOK, ForkInv, PlaceInv, InFork
<1>6. ParentAlive'
  BY DEF TypeOK, ParentAlive, PlaceInv, ForkInv, ExitInv, Dead, InFork
<1>7. ExitInv'
  BY DEF TypeOK, ExitInv, PlaceInv, ForkInv, Dead, InFork
<1>8. WaitInv'
  BY DEF TypeOK, WaitInv, PlaceInv, ForkInv, ExitInv, ParentAlive, Dead, InFork
<1> QED
  BY Zenon, <1>1, <1>2, <1>3, <1>4, <1>5, <1>6, <1>7, <1>8

(* kill() of a pid that nobody has keeps the invariant. *)
LEMMA Step_kill_nobody ==
  ASSUME NPROC \in Nat \ {0}, ProcInv, NEW p \in Slots, NEW i \in Nat, kill_nobody(p, i)
  PROVE  ProcInv'
<1> USE Ranges DEF ProcInv, kill_nobody, At, Goto
<1>1. TypeOK'
  BY Zenon DEF TypeOK
<1>2. PidsUnique'
  BY Zenon DEF TypeOK, PidsUnique, PidInv
<1>3. PidInv'
  BY Zenon DEF TypeOK, PidInv, PidsUnique
<1>4. PlaceInv'
  BY ZenonT(40) DEF TypeOK, PlaceInv, ForkInv, InFork
<1>5. ForkInv'
  BY DEF TypeOK, ForkInv, PlaceInv, InFork
<1>6. ParentAlive'
  BY Zenon DEF TypeOK, ParentAlive, PlaceInv, ForkInv, ExitInv, Dead, InFork
<1>7. ExitInv'
  BY DEF TypeOK, ExitInv, PlaceInv, ForkInv, Dead, InFork
<1>8. WaitInv'
  BY DEF TypeOK, WaitInv, PlaceInv, ForkInv, ExitInv, ParentAlive, Dead, InFork
<1> QED
  BY Zenon, <1>1, <1>2, <1>3, <1>4, <1>5, <1>6, <1>7, <1>8

(* The invariant holds after userinit(). *)
LEMMA InitInv == ASSUME NPROC \in Nat \ {0}, Init PROVE ProcInv
<1> USE Ranges DEF Init, None
<1>1. TypeOK
  BY ZenonT(40) DEF TypeOK
<1>2. PidsUnique /\ PidInv /\ PlaceInv
  BY DEF PidsUnique, PidInv, PlaceInv
<1>3. ForkInv
  BY Zenon DEF ForkInv, InFork
<1>4. ParentAlive /\ ExitInv /\ WaitInv
  BY Zenon DEF ParentAlive, ExitInv, WaitInv, Dead
<1> QED
  BY Zenon, <1>1, <1>2, <1>3, <1>4 DEF ProcInv

(* Every step of a process keeps the invariant. *)
LEMMA StepInv == ASSUME NPROC \in Nat \ {0}, KillPids \subseteq Nat, ProcInv,
     [Next]_vars PROVE ProcInv'
<1>1. CASE UNCHANGED vars
  BY <1>1 DEF vars, ProcInv, TypeOK, PidsUnique, PidInv, PlaceInv, ForkInv, InFork, ParentAlive,
     ExitInv, WaitInv
<1>2. ASSUME NEW p \in Slots, fork(p) \/ ForkStep(p) PROVE ProcInv'
  BY Zenon, <1>2, Step_fork_full, Step_allocproc, Step_fork_nomem, Step_fork_parent,
       Step_fork_run DEF fork, ForkStep
<1>3. ASSUME NEW p \in Slots, ExitStep(p) PROVE ProcInv'
  BY Zenon, <1>3, Step_exit_init, Step_exit, Step_exit_zombie, Step_exit_swtch DEF ExitStep
<1>4. ASSUME NEW p \in Slots, WaitStep(p) PROVE ProcInv'
  BY Zenon, <1>4, Step_wait_reap, Step_wait_fail, Step_wait_decide, Step_wait_sleep DEF WaitStep
<1>5. ASSUME NEW p \in Slots, NEW i \in KillPids, kill(p, i) \/ kill_nobody(p, i) PROVE ProcInv'
  BY Zenon, <1>5, Step_kill, Step_kill_nobody
<1>6. CASE \E p \in Slots : usertrap(p) \/ exit_call(p) \/ wait_call(p) \/ wait(p)
  BY Zenon, <1>6, Step_usertrap, Step_exit_call, Step_wait_call, Step_wait
<1> QED
  BY Zenon, <1>1, <1>2, <1>3, <1>4, <1>5, <1>6 DEF Next, halted

(* ProcInv holds in every reachable state of Proc. *)
THEOREM ProcInvariance ==
  ASSUME NPROC \in Nat \ {0}, KillPids \subseteq Nat
  PROVE  Spec => []ProcInv
<1>1. Init => ProcInv
  BY Zenon, InitInv
<1>2. ProcInv /\ [Next]_vars => ProcInv'
  BY Zenon, StepInv
<1> QED
  BY <1>1, <1>2, PTL DEF Spec

(* allocpid() gives no pid to two processes, reparent() leaves no process  *)
(* without a living parent, and wait() misses no exit().                   *)
THEOREM FamilyStaysInOrder ==
  ASSUME NPROC \in Nat \ {0}, KillPids \subseteq Nat
  PROVE  Spec => []FamilyInOrder
<1>1. ProcInv => FamilyInOrder
  BY Zenon DEF ProcInv, FamilyInOrder, NoMissedExit, Zombies, Children, WaitInv
<1> QED
  BY <1>1, ProcInvariance, PTL

(* A slot becomes UNUSED only in wait(), which has the zombie's lock; the  *)
(* zombie holds that lock until its last switch is over.                   *)
LEMMA OnlyReapFrees ==
  ASSUME NPROC \in Nat \ {0}, ProcInv, Next, NEW s \in Slots, state[s] # "UNUSED",
       state'[s] = "UNUSED"
  PROVE  pc[s] = "gone"
<1> USE Ranges
<1>1. ASSUME NEW p \in Slots, fork(p) \/ ForkStep(p) PROVE FALSE
  BY ZenonT(40), <1>1 DEF fork, ForkStep, fork_full, allocproc, fork_nomem, fork_parent, fork_run,
       ProcInv, TypeOK
<1>2. ASSUME NEW p \in Slots, ExitStep(p) PROVE FALSE
  BY SMTT(40), <1>2 DEF ExitStep, exit_init, exit, exit_zombie, exit_swtch, wakeup, ProcInv, TypeOK
<1>3. ASSUME NEW p \in Slots, wait_fail(p) \/ wait_decide(p) \/ wait_sleep(p) PROVE FALSE
  BY Zenon, <1>3 DEF wait_fail, wait_decide, wait_sleep, ProcInv, TypeOK
<1>4. ASSUME NEW p \in Slots, NEW i \in KillPids, kill(p, i) \/ kill_nobody(p, i) PROVE FALSE
  BY <1>4 DEF kill, kill_nobody, wakeup, ProcInv, TypeOK
<1>5. ASSUME NEW p \in Slots, usertrap(p) \/ exit_call(p) \/ wait_call(p) \/ wait(p) PROVE FALSE
  BY Zenon, <1>5 DEF usertrap, exit_call, wait_call, wait
<1>6. PICK p \in Slots : wait_reap(p)
  BY Zenon, <1>1, <1>2, <1>3, <1>4, <1>5 DEF Next, WaitStep, halted, vars
<1> DEFINE z == First(Zombies(p))
<1>7. z \in Zombies(p) /\ \A y \in Zombies(p) : z <= y
  BY Zenon, <1>6, FirstSlot DEF wait_reap, Zombies, Children
<1>8. s = z
  BY Zenon, <1>6 DEF wait_reap, freeproc, ProcInv, TypeOK
<1>9. plock[z] = None /\ state[z] = "ZOMBIE"
  BY Zenon, <1>6, <1>7 DEF wait_reap, ChildLocksFree, Visited, Zombies
<1> QED
  BY Zenon, <1>8, <1>9 DEF ProcInv, PlaceInv

(* wait() frees no process that still runs on its kernel stack. *)
THEOREM ReapedOnlyAfterSwtch ==
  ASSUME NPROC \in Nat \ {0}, KillPids \subseteq Nat
  PROVE  Spec => ReapedAfterSwtch
<1>1. ProcInv /\ [Next]_vars =>
        [\A s \in Slots : (state[s] # "UNUSED" /\ state'[s] = "UNUSED") => pc[s] = "gone"]_vars
  BY Zenon, OnlyReapFrees
<1> QED
  BY <1>1, ProcInvariance, PTL DEF Spec, ReapedAfterSwtch

-----------------------------------------------------------------------------
(* What % does next to the modulus. *)
LEMMA ModSmall ==
  ASSUME NEW m \in Nat \ {0}, NEW x \in 0..m-1
  PROVE  x % m = x /\ (x - m) % m = x /\ m % m = 0
  OBVIOUS

(* The unsigned `ticks - ticks0' is the number of ticks since the call,    *)
(* whether or not `ticks' has wrapped.                                     *)
LEMMA DueIsElapsed ==
  ASSUME Sl!TypeOK, Sl!SleepInv, NEW p \in Sleepers, s_pc[p] = "loop"
  PROVE  Sl!Due(p) <=> elapsed[p] >= n[p]
<1>1. /\ elapsed[p] \in 0..TICK_MOD-1 /\ n[p] \in Nat
      /\ ticks - ticks0[p] = elapsed[p] \/ ticks - ticks0[p] = elapsed[p] - TICK_MOD
  BY SleepConstants DEF Sl!SleepConstants, Sl!TypeOK, Sl!SleepInv
<1>2. (ticks - ticks0[p]) % TICK_MOD = elapsed[p]
  BY <1>1, ModSmall, SleepConstants DEF Sl!SleepConstants
<1> QED
  BY Zenon, <1>1, <1>2 DEF Sl!Due

(* A call of sleep(), which makes a negative argument 0, keeps the         *)
(* invariant.                                                              *)
LEMMA Sleeper_sys_sleep ==
  ASSUME Sl!TypeOK, Sl!SleepInv, NEW p \in Sleepers, NEW arg \in Args, Sl!sys_sleep(p, arg)
  PROVE  Sl!TypeOK' /\ Sl!SleepInv'
<1> USE SleepConstants, DueIsElapsed DEF Sl!SleepConstants, Sl!sys_sleep, Sl!Goto
<1>1. Sl!TypeOK'
  BY DEF Sl!TypeOK
<1>2. Sl!SleepInv'
  BY DEF Sl!TypeOK, Sl!SleepInv
<1> QED
  BY Zenon, <1>1, <1>2

(* sys_sleep() that takes tickslock and reads ticks0 keeps the invariant. *)
LEMMA Sleeper_sys_sleep_start ==
  ASSUME Sl!TypeOK, Sl!SleepInv, NEW p \in Sleepers, Sl!sys_sleep_start(p)
  PROVE  Sl!TypeOK' /\ Sl!SleepInv'
<1> USE SleepConstants, DueIsElapsed DEF Sl!SleepConstants, Sl!sys_sleep_start, Sl!Goto, Sl!Return, Sl!locals
<1>1. Sl!TypeOK'
  BY Zenon DEF Sl!TypeOK
<1>2. Sl!SleepInv'
  BY DEF Sl!TypeOK, Sl!SleepInv
<1> QED
  BY Zenon, <1>1, <1>2

(* sys_sleep() that has slept for n ticks keeps the invariant. *)
LEMMA Sleeper_sys_sleep_return ==
  ASSUME Sl!TypeOK, Sl!SleepInv, NEW p \in Sleepers, Sl!sys_sleep_return(p)
  PROVE  Sl!TypeOK' /\ Sl!SleepInv'
<1> USE SleepConstants, DueIsElapsed DEF Sl!SleepConstants, Sl!sys_sleep_return, Sl!Goto, Sl!Return, Sl!locals
<1>1. Sl!TypeOK'
  BY DEF Sl!TypeOK
<1>2. Sl!SleepInv'
  BY DEF Sl!TypeOK, Sl!SleepInv
<1> QED
  BY Zenon, <1>1, <1>2

(* sys_sleep() that finds itself killed keeps the invariant. *)
LEMMA Sleeper_sys_sleep_killed ==
  ASSUME Sl!TypeOK, Sl!SleepInv, NEW p \in Sleepers, Sl!sys_sleep_killed(p)
  PROVE  Sl!TypeOK' /\ Sl!SleepInv'
<1> USE SleepConstants, DueIsElapsed DEF Sl!SleepConstants, Sl!sys_sleep_killed, Sl!Goto, Sl!Return, Sl!locals
<1>1. Sl!TypeOK'
  BY DEF Sl!TypeOK
<1>2. Sl!SleepInv'
  BY DEF Sl!TypeOK, Sl!SleepInv
<1> QED
  BY Zenon, <1>1, <1>2

(* sys_sleep() that is going to sleep once more keeps the invariant. *)
LEMMA Sleeper_sys_sleep_decide ==
  ASSUME Sl!TypeOK, Sl!SleepInv, NEW p \in Sleepers, Sl!sys_sleep_decide(p)
  PROVE  Sl!TypeOK' /\ Sl!SleepInv'
<1> USE SleepConstants, DueIsElapsed DEF Sl!SleepConstants, Sl!sys_sleep_decide, Sl!Goto, Sl!Return, Sl!locals
<1>1. Sl!TypeOK'
  BY Zenon DEF Sl!TypeOK
<1>2. Sl!SleepInv'
  BY DEF Sl!TypeOK, Sl!SleepInv
<1> QED
  BY Zenon, <1>1, <1>2

(* sleep(&ticks, &tickslock) keeps the invariant. *)
LEMMA Sleeper_sleep ==
  ASSUME Sl!TypeOK, Sl!SleepInv, NEW p \in Sleepers, Sl!sleep(p)
  PROVE  Sl!TypeOK' /\ Sl!SleepInv'
<1> USE SleepConstants, DueIsElapsed DEF Sl!SleepConstants, Sl!sleep, Sl!Goto, Sl!Return, Sl!locals
<1>1. Sl!TypeOK'
  BY Zenon DEF Sl!TypeOK
<1>2. Sl!SleepInv'
  BY Zenon DEF Sl!TypeOK, Sl!SleepInv
<1> QED
  BY Zenon, <1>1, <1>2

(* A sleeper that has been woken and has tickslock again keeps the         *)
(* invariant.                                                              *)
LEMMA Sleeper_sleep_reacquire ==
  ASSUME Sl!TypeOK, Sl!SleepInv, NEW p \in Sleepers, Sl!sleep_reacquire(p)
  PROVE  Sl!TypeOK' /\ Sl!SleepInv'
<1> USE SleepConstants, DueIsElapsed DEF Sl!SleepConstants, Sl!sleep_reacquire, Sl!Goto, Sl!Return, Sl!locals
<1>1. Sl!TypeOK'
  BY DEF Sl!TypeOK
<1>2. Sl!SleepInv'
  BY Zenon DEF Sl!TypeOK, Sl!SleepInv
<1> QED
  BY Zenon, <1>1, <1>2

(* kill() keeps the invariant. *)
LEMMA Sleeper_kill ==
  ASSUME Sl!TypeOK, Sl!SleepInv, NEW p \in Sleepers, Sl!kill(p)
  PROVE  Sl!TypeOK' /\ Sl!SleepInv'
<1> USE SleepConstants, DueIsElapsed DEF Sl!SleepConstants, Sl!kill, Sl!Goto, Sl!Return, Sl!locals
<1>1. Sl!TypeOK'
  BY Zenon DEF Sl!TypeOK
<1>2. Sl!SleepInv'
  BY DEF Sl!TypeOK, Sl!SleepInv
<1> QED
  BY Zenon, <1>1, <1>2

(* clockintr() that advances `ticks', around its end too, and wakes every  *)
(* sleeper keeps the invariant.                                            *)
LEMMA Sleeper_clockintr ==
  ASSUME Sl!TypeOK, Sl!SleepInv, Sl!clockintr
  PROVE  Sl!TypeOK' /\ Sl!SleepInv'
<1> USE SleepConstants DEF Sl!SleepConstants, Sl!clockintr, Sl!Tick, Sl!InCall
<1>1. ticks' = IF ticks + 1 = TICK_MOD THEN 0 ELSE ticks + 1
  <2>1. TICK_MOD \in Nat \ {0} /\ ticks \in 0..TICK_MOD-1
    BY DEF Sl!TypeOK
  <2>2. CASE ticks + 1 = TICK_MOD
    BY Zenon, <2>1, <2>2, ModSmall
  <2>3. CASE ticks + 1 # TICK_MOD
    <3>1. ticks + 1 \in 0..TICK_MOD-1
      BY <2>1, <2>3
    <3> QED
      BY Zenon, <2>1, <2>3, <3>1, ModSmall
  <2> QED
    BY Zenon, <2>2, <2>3
<1>2. Sl!TypeOK'
  <2>1. ticks' \in 0..TICK_MOD-1
    BY <1>1 DEF Sl!TypeOK
  <2>2. lag' \in [Sleepers -> 0..MaxLag] /\ elapsed' \in [Sleepers -> Nat]
    BY DEF Sl!TypeOK
  <2> QED
    BY Zenon, <2>1, <2>2 DEF Sl!TypeOK
<1>3. Sl!SleepInv'
  BY <1>1, <1>2 DEF Sl!TypeOK, Sl!SleepInv
<1> QED
  BY Zenon, <1>2, <1>3

(* The invariant holds before the first call. *)
LEMMA SleepInit == Sl!Init => Sl!TypeOK /\ Sl!SleepInv
  BY SleepConstants DEF Sl!SleepConstants, Sl!Init, Sl!TypeOK, Sl!SleepInv

(* Every step of a sleeper, of kill() and of the clock keeps the           *)
(* invariant.                                                              *)
LEMMA SleepStep == Sl!TypeOK /\ Sl!SleepInv /\ [Sl!Next]_(Sl!vars) => (Sl!TypeOK /\ Sl!SleepInv)'
<1> SUFFICES ASSUME Sl!TypeOK, Sl!SleepInv, [Sl!Next]_(Sl!vars) PROVE Sl!TypeOK' /\ Sl!SleepInv'
  BY Zenon
<1>1. ASSUME NEW p \in Sleepers, Sl!CallStep(p) PROVE Sl!TypeOK' /\ Sl!SleepInv'
  BY Zenon, <1>1, Sleeper_sys_sleep_start, Sleeper_sys_sleep_return, Sleeper_sys_sleep_killed,
     Sleeper_sys_sleep_decide, Sleeper_sleep, Sleeper_sleep_reacquire DEF Sl!CallStep
<1>2. CASE UNCHANGED Sl!vars
  BY Zenon, <1>2 DEF Sl!vars, Sl!TypeOK, Sl!SleepInv
<1> QED
  BY Zenon, <1>1, <1>2, Sleeper_sys_sleep, Sleeper_kill, Sleeper_clockintr DEF Sl!Next

(* The types and SleepInv hold in every reachable state of SysSleep. *)
THEOREM SleepInvariance == Sl!Spec => [](Sl!TypeOK /\ Sl!SleepInv)
  BY SleepInit, SleepStep, PTL DEF Sl!Spec

(* The invariant bounds a sleep from below by its argument and from above  *)
(* by the lag of its wakeup.                                               *)
LEMMA Sleeps == Sl!TypeOK /\ Sl!SleepInv => SleepsAsAsked
  BY Zenon, DueIsElapsed DEF SleepsAsAsked, Sl!SleepsAsAsked, Sl!SleepInv

(* sleep(n) that is not killed returns after at least n ticks, and no      *)
(* later than its lag behind the clock.                                    *)
THEOREM SleepIsAsLongAsAsked == Sl!Spec => []SleepsAsAsked
  BY SleepInvariance, Sleeps, PTL
=============================================================================
