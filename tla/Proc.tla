-------------------------------- MODULE Proc --------------------------------
(***************************************************************************)
(* The life of processes in kernel/proc.c: fork(), exit(), wait(), kill()  *)
(* over the process table, with wait_lock and the p->locks that are held   *)
(* from one step to the next.                                              *)
(*                                                                         *)
(* The scheduler is left to module Sched: a process that is RUNNABLE here  *)
(* is runnable or running.  As Sched shows, testing a condition under a    *)
(* lock and sleeping is atomic, and so is a wakeup() under that lock; but  *)
(* kill() takes no such lock, so the test of `killed' and the sleep that   *)
(* follows it are two steps.                                               *)
(***************************************************************************)
EXTENDS Integers

CONSTANTS
  NPROC,     \* slots of the process table
  KillPids,  \* pids passed to kill()
  MaxPid     \* bound on nextpid, for model checking

Slots == 1..NPROC
initproc == 1
None == 0     \* a null struct proc *, a free lock

VARIABLES
  state, parent, pid, killed,  \* struct proc
  nextpid,
  plock, wait_lock,            \* holders of p->lock and of wait_lock
  pc, child,                   \* place of each process; np in fork()
  panicked

vars == <<state, parent, pid, killed, nextpid, plock, wait_lock, pc, child, panicked>>

At(p, l) == ~panicked /\ state[p] = "RUNNABLE" /\ pc[p] = l
Goto(p, l) == pc' = [pc EXCEPT ![p] = l]

(* wakeup(chan) for the channels used here: the proc of the sleeper. *)
wakeup(s, P) ==
  [p \in Slots |-> IF p \in P /\ s[p] = "SLEEPING" THEN "RUNNABLE" ELSE s[p]]

(***************************************************************************)
(* usertrap(): killed processes exit instead of entering a system call.    *)
(***************************************************************************)
usertrap(p) ==
  /\ At(p, "user")
  /\ Goto(p, IF killed[p] THEN "exit" ELSE "syscall")
  /\ UNCHANGED <<state, parent, pid, killed, nextpid, plock, wait_lock, child, panicked>>

(***************************************************************************)
(* fork(): allocproc() takes the first UNUSED slot and a pid under         *)
(* np->lock, which is released before the parent is recorded.  Either it   *)
(* or uvmcopy() may run out of memory; freeproc() then clears the slot.    *)
(***************************************************************************)
First(S) == CHOOSE s \in S : \A t \in S : s <= t     \* the loops over proc[] stop there

FreeSlots == {s \in Slots : state[s] = "UNUSED"}

fork_full(p) ==
  /\ At(p, "syscall")
  /\ FreeSlots = {}
  /\ Goto(p, "user")
  /\ UNCHANGED <<state, parent, pid, killed, nextpid, plock, wait_lock, child, panicked>>
(* mutant: allocpid() does not advance nextpid *)
allocproc_SamePid(p) ==
  LET np == First(FreeSlots) IN
  /\ At(p, "syscall")
  /\ FreeSlots # {}
  /\ state' = [state EXCEPT ![np] = "USED"]
  /\ pid' = [pid EXCEPT ![np] = nextpid]
  /\ child' = [child EXCEPT ![p] = np]
  /\ Goto(p, "fork_parent")
  /\ UNCHANGED <<parent, killed, nextpid, plock, wait_lock, panicked>>

allocproc(p) ==
  LET np == First(FreeSlots) IN
  /\ At(p, "syscall")
  /\ FreeSlots # {}
  /\ nextpid <= MaxPid
  /\ nextpid' = nextpid + 1
  /\ state' = [state EXCEPT ![np] = "USED"]
  /\ pid' = [pid EXCEPT ![np] = nextpid]
  /\ child' = [child EXCEPT ![p] = np]
  /\ Goto(p, "fork_parent")
  /\ UNCHANGED <<parent, killed, plock, wait_lock, panicked>>

fork_nomem(p) ==
  /\ At(p, "syscall")
  /\ FreeSlots # {}
  /\ nextpid <= MaxPid
  /\ nextpid' = nextpid + 1
  /\ killed' = [killed EXCEPT ![First(FreeSlots)] = FALSE]
  /\ Goto(p, "user")
  /\ UNCHANGED <<state, parent, pid, plock, wait_lock, child, panicked>>

fork_parent(p) ==
  /\ At(p, "fork_parent")
  /\ wait_lock = None
  /\ parent' = [parent EXCEPT ![child[p]] = p]
  /\ Goto(p, "fork_run")
  /\ UNCHANGED <<state, pid, killed, nextpid, plock, wait_lock, child, panicked>>

fork_run(p) ==
  /\ At(p, "fork_run")
  /\ state' = [state EXCEPT ![child[p]] = "RUNNABLE"]
  /\ pc' = [pc EXCEPT ![p] = "user", ![child[p]] = "user"]
  /\ child' = [child EXCEPT ![p] = None]
  /\ UNCHANGED <<parent, pid, killed, nextpid, plock, wait_lock, panicked>>

(***************************************************************************)
(* exit(): under wait_lock hand the children to init and wake the parent;  *)
(* p->lock is kept from ZOMBIE until the switch to the scheduler is over.  *)
(***************************************************************************)
Children(p) == {q \in Slots : parent[q] = p}

exit_call(p) ==
  /\ At(p, "syscall")
  /\ Goto(p, "exit")
  /\ UNCHANGED <<state, parent, pid, killed, nextpid, plock, wait_lock, child, panicked>>

exit_init(p) ==
  /\ At(p, "exit")
  /\ p = initproc
  /\ panicked' = TRUE
  /\ UNCHANGED <<state, parent, pid, killed, nextpid, plock, wait_lock, pc, child>>

reparent(p) == [q \in Slots |-> IF parent[q] = p THEN initproc ELSE parent[q]]
(* mutant: the children keep their dead parent *)
exit_NoReparent(p) ==
  /\ At(p, "exit")
  /\ p # initproc
  /\ wait_lock = None
  /\ wait_lock' = p
  /\ state' = wakeup(state, {parent[p]})
  /\ Goto(p, "exit_zombie")
  /\ UNCHANGED <<parent, pid, killed, nextpid, plock, child, panicked>>

(* mutant: reparent() without its wakeup(initproc) *)
exit_NoInitWakeup(p) ==
  /\ At(p, "exit")
  /\ p # initproc
  /\ wait_lock = None
  /\ wait_lock' = p
  /\ parent' = reparent(p)
  /\ state' = wakeup(state, {parent[p]})
  /\ Goto(p, "exit_zombie")
  /\ UNCHANGED <<pid, killed, nextpid, plock, child, panicked>>

exit(p) ==
  /\ At(p, "exit")
  /\ p # initproc
  /\ wait_lock = None
  /\ wait_lock' = p
  /\ parent' = reparent(p)
  /\ state' = wakeup(state, {parent[p]} \cup (IF Children(p) = {} THEN {} ELSE {initproc}))
  /\ Goto(p, "exit_zombie")
  /\ UNCHANGED <<pid, killed, nextpid, plock, child, panicked>>

exit_zombie(p) ==
  /\ At(p, "exit_zombie")
  /\ plock[p] = None
  /\ plock' = [plock EXCEPT ![p] = p]
  /\ state' = [state EXCEPT ![p] = "ZOMBIE"]
  /\ wait_lock' = None
  /\ Goto(p, "exit_swtch")
  /\ UNCHANGED <<parent, pid, killed, nextpid, child, panicked>>

exit_swtch(p) ==
  /\ ~panicked
  /\ pc[p] = "exit_swtch"
  /\ plock' = [plock EXCEPT ![p] = None]
  /\ Goto(p, "gone")
  /\ UNCHANGED <<state, parent, pid, killed, nextpid, wait_lock, child, panicked>>
(* mutant: the scan ends at the first child, whatever its state *)
Zombies_FirstChild(p) ==
  {q \in Children(p) : state[q] = "ZOMBIE" /\ \A r \in Children(p) : q <= r}

(***************************************************************************)
(* wait(): the scan runs under wait_lock and takes the lock of each child. *)
(***************************************************************************)
Zombies(p) == {q \in Children(p) : state[q] = "ZOMBIE"}
Visited(p) == {q \in Children(p) : \A z \in Zombies(p) : q <= z}
(* mutant: wait() does not take the child's lock *)
ChildLocksFree_NoLock(p) == TRUE

ChildLocksFree(p) == \A q \in Visited(p) : plock[q] = None

wait_call(p) ==
  /\ At(p, "syscall")
  /\ Goto(p, "wait")
  /\ UNCHANGED <<state, parent, pid, killed, nextpid, plock, wait_lock, child, panicked>>

wait(p) ==
  /\ At(p, "wait") \/ At(p, "sleeping")
  /\ wait_lock = None
  /\ wait_lock' = p
  /\ Goto(p, "wait_scan")
  /\ UNCHANGED <<state, parent, pid, killed, nextpid, plock, child, panicked>>

freeproc(z) ==
  /\ state' = [state EXCEPT ![z] = "UNUSED"]
  /\ parent' = [parent EXCEPT ![z] = None]
  /\ pid' = [pid EXCEPT ![z] = 0]
  /\ killed' = [killed EXCEPT ![z] = FALSE]

wait_reap(p) ==
  LET z == First(Zombies(p)) IN
  /\ At(p, "wait_scan")
  /\ Zombies(p) # {}
  /\ ChildLocksFree(p)
  /\ freeproc(z)
  /\ wait_lock' = None
  /\ pc' = [pc EXCEPT ![p] = "user", ![z] = "none"]
  /\ UNCHANGED <<nextpid, plock, child, panicked>>
(* mutant: an error return that keeps wait_lock *)
wait_fail_KeepLock(p) ==
  /\ At(p, "wait_scan")
  /\ ChildLocksFree(p)
  /\ IF Zombies(p) # {} THEN p # initproc ELSE Children(p) = {} \/ killed[p]
  /\ Goto(p, "user")
  /\ UNCHANGED <<state, parent, pid, killed, nextpid, plock, wait_lock, child, panicked>>

(* copyout() of the status fails, or there is nothing to wait for, or the  *)
(* process has been killed.  init passes no address for the status.        *)
wait_fail(p) ==
  /\ At(p, "wait_scan")
  /\ ChildLocksFree(p)
  /\ IF Zombies(p) # {} THEN p # initproc ELSE Children(p) = {} \/ killed[p]
  /\ wait_lock' = None
  /\ Goto(p, "user")
  /\ UNCHANGED <<state, parent, pid, killed, nextpid, plock, child, panicked>>

wait_decide(p) ==
  /\ At(p, "wait_scan")
  /\ ChildLocksFree(p)
  /\ Zombies(p) = {} /\ Children(p) # {} /\ ~killed[p]
  /\ Goto(p, "wait_sleep")
  /\ UNCHANGED <<state, parent, pid, killed, nextpid, plock, wait_lock, child, panicked>>

wait_sleep(p) ==
  /\ At(p, "wait_sleep")
  /\ state' = [state EXCEPT ![p] = "SLEEPING"]
  /\ wait_lock' = None
  /\ Goto(p, "sleeping")
  /\ UNCHANGED <<parent, pid, killed, nextpid, plock, child, panicked>>

(***************************************************************************)
(* kill(): the first slot whose pid field has the value asked for.         *)
(***************************************************************************)
Targets(i) == {s \in Slots : pid[s] = i}

kill(p, i) ==
  LET s == First(Targets(i)) IN
  /\ At(p, "syscall")
  /\ Targets(i) # {}
  /\ plock[s] = None
  /\ killed' = [killed EXCEPT ![s] = TRUE]
  /\ state' = wakeup(state, {s})
  /\ Goto(p, "user")
  /\ UNCHANGED <<parent, pid, nextpid, plock, wait_lock, child, panicked>>

kill_nobody(p, i) ==
  /\ At(p, "syscall")
  /\ Targets(i) = {}
  /\ Goto(p, "user")
  /\ UNCHANGED <<state, parent, pid, killed, nextpid, plock, wait_lock, child, panicked>>

(* userinit(): slot 1 holds the first process. *)
Init ==
  /\ state = [s \in Slots |-> IF s = initproc THEN "RUNNABLE" ELSE "UNUSED"]
  /\ parent = [s \in Slots |-> None]
  /\ pid = [s \in Slots |-> IF s = initproc THEN 1 ELSE 0]
  /\ killed = [s \in Slots |-> FALSE]
  /\ nextpid = 2
  /\ plock = [s \in Slots |-> None]
  /\ wait_lock = None
  /\ pc = [s \in Slots |-> IF s = initproc THEN "user" ELSE "none"]
  /\ child = [s \in Slots |-> None]
  /\ panicked = FALSE

(* panic(): every CPU ends up in its endless loop. *)
halted == panicked /\ UNCHANGED vars

fork(p) == fork_full(p) \/ allocproc(p) \/ fork_nomem(p)
ForkStep(p) == fork_parent(p) \/ fork_run(p)
ExitStep(p) == exit_init(p) \/ exit(p) \/ exit_zombie(p) \/ exit_swtch(p)
WaitStep(p) == wait_reap(p) \/ wait_fail(p) \/ wait_decide(p) \/ wait_sleep(p)

Next ==
  \/ \E p \in Slots :
       \/ usertrap(p) \/ fork(p) \/ ForkStep(p)
       \/ exit_call(p) \/ ExitStep(p)
       \/ wait_call(p) \/ wait(p) \/ WaitStep(p)
       \/ \E i \in KillPids : kill(p, i) \/ kill_nobody(p, i)
  \/ halted

Spec == Init /\ [][Next]_vars

(***************************************************************************)
(* A process inside fork(), exit() or wait() goes on, a spinlock that is   *)
(* free again and again is granted, and init calls wait() again and again  *)
(* (user/init.c).                                                          *)
(***************************************************************************)
KernelStep(p) == usertrap(p) \/ ForkStep(p) \/ ExitStep(p) \/ wait(p) \/ WaitStep(p)
-----------------------------------------------------------------------------
Dead == {"UNUSED", "USED", "ZOMBIE"}

(* Types of the process table; wait_lock is held exactly in the critical  *)
(* sections of exit() and wait().                                          *)
TypeOK ==
  /\ state \in [Slots -> {"UNUSED", "USED", "RUNNABLE", "SLEEPING", "ZOMBIE"}]
  /\ parent \in [Slots -> Slots \cup {None}]
  /\ pid \in [Slots -> Nat] /\ nextpid \in Nat
  /\ killed \in [Slots -> BOOLEAN]
  /\ plock \in [Slots -> Slots \cup {None}]
  /\ wait_lock \in Slots \cup {None}
  /\ pc \in [Slots -> {"none", "user", "syscall", "fork_parent", "fork_run",
                       "exit", "exit_zombie", "exit_swtch", "gone",
                       "wait", "wait_scan", "wait_sleep", "sleeping"}]
  /\ child \in [Slots -> Slots \cup {None}]
  /\ panicked \in BOOLEAN
  /\ \A p \in Slots : (wait_lock = p) <=> pc[p] \in {"exit_zombie", "wait_scan", "wait_sleep"}

(* Every process but init has a parent that is alive and can still wait    *)
(* for it, from before it first runs until it is reaped.                   *)
ParentAlive ==
  \A q \in Slots \ {initproc} :
    state[q] \notin {"UNUSED", "USED"} =>
      parent[q] # None /\ state[parent[q]] \notin Dead

(* A process that sleeps in wait() has no zombie child: the wakeup() calls *)
(* of exit() and of reparent() reach every parent that has something to    *)
(* collect, an orphan's new parent included.                               *)
NoMissedExit ==
  wait_lock = None =>
    \A p \in Slots : state[p] = "SLEEPING" => Zombies(p) = {}

(* Two processes never have the same pid, and a used slot has one.         *)
PidsUnique ==
  \A s, t \in Slots :
    /\ (pid[s] = pid[t] /\ pid[s] # 0) => s = t
    /\ pid[s] = 0 <=> state[s] = "UNUSED"

(* wait() never frees a process that still runs on its kernel stack: when  *)
(* a slot becomes UNUSED its last switch to the scheduler is over.         *)
ReapedAfterSwtch ==
  [][\A s \in Slots : (state[s] # "UNUSED" /\ state'[s] = "UNUSED") => pc[s] = "gone"]_vars

(* kill() kills the process with the given pid, so a process is not killed *)
(* before it has a pid.                                                    *)
NotKilledAtBirth ==
  [][\A s \in Slots : (state[s] = "UNUSED" /\ state'[s] = "USED") => ~killed'[s]]_vars

(* init collects every orphan that has become a zombie.                    *)
OrphansReaped ==
  \A q \in Slots :
    (state[q] = "ZOMBIE" /\ parent[q] = initproc) ~> (state[q] = "UNUSED" \/ panicked)

(* The family tree that wait() and exit() walk is in order: the table is   *)
(* well-formed, pids tell processes apart, parents are there, and none of  *)
(* them misses a child's exit.                                             *)
FamilyInOrder == TypeOK /\ PidsUnique /\ ParentAlive /\ NoMissedExit
-----------------------------------------------------------------------------
(* Why the family stays in order, as an inductive invariant.  allocpid()   *)
(* has not given out nextpid yet; the place of a process goes with its     *)
(* state, and exit() keeps p->lock to the end of its switch.               *)
PidInv == \A s \in Slots : pid[s] < nextpid

PlaceInv ==
  \A p \in Slots :
    /\ state[p] \in {"UNUSED", "USED"} <=> pc[p] = "none"
    /\ state[p] = "ZOMBIE" <=> pc[p] \in {"exit_swtch", "gone"}
    /\ state[p] = "SLEEPING" => pc[p] = "sleeping"
    /\ pc[p] = "exit_swtch" => plock[p] = p

(* The slot a process fills in fork() is its own, and in the end its child. *)
InFork == {p \in Slots : pc[p] \in {"fork_parent", "fork_run"}}

ForkInv ==
  /\ \A p \in InFork :
       /\ child[p] \in Slots /\ state[child[p]] = "USED"
       /\ pc[p] = "fork_run" => parent[child[p]] = p
  /\ \A p, q \in InFork : child[p] = child[q] => p = q

(* init stays, and a process past reparent() has no children any more. *)
ExitInv ==
  /\ state[initproc] \notin Dead /\ pc[initproc] # "exit_zombie"
  /\ \A p, q \in Slots : pc[p] \in {"exit_zombie", "exit_swtch", "gone"} => parent[q] # p

(* A parent that is about to sleep, or sleeps, has nothing to collect, and *)
(* the parent of a process that is about to be a zombie is awake.          *)
WaitInv ==
  \A p, q \in Slots : parent[q] = p =>
    /\ (state[p] = "SLEEPING" \/ pc[p] = "wait_sleep") => state[q] # "ZOMBIE"
    /\ pc[q] = "exit_zombie" => state[p] # "SLEEPING"

ProcInv ==
  /\ TypeOK /\ PidsUnique /\ PidInv /\ PlaceInv /\ ForkInv
  /\ ParentAlive /\ ExitInv /\ WaitInv
=============================================================================
