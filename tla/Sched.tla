------------------------------- MODULE Sched -------------------------------
(***************************************************************************)
(* The scheduler of kernel/proc.c and its sleep()/wakeup()/kill(), with    *)
(* every spinlock and every switch of contexts as a step of its own.       *)
(*                                                                         *)
(* CPUs run either scheduler() or the kernel thread of a process, with     *)
(* interrupts on or off (push_off() and pop_off() of spinlock.c).  Each    *)
(* process, when it is in the kernel for it, waits for a condition in the  *)
(* form of the kernel's interruptible waits (pipe, console, sys_sleep):    *)
(*   acquire(lk); while(items == 0){ if(killed(p)) ...; sleep(chan, lk); } *)
(*   items--; release(lk)                                                  *)
(* and the condition is made true by a system call or by an interrupt      *)
(* handler on any CPU whose interrupts are on:                             *)
(*   acquire(lk); items++; wakeup(chan); release(lk)                       *)
(* A timer interrupt takes the CPU from a process wherever interrupts are  *)
(* on, in user space or in the kernel.                                     *)
(***************************************************************************)
EXTENDS Integers, FiniteSets

CONSTANTS
  NPROC,      \* slots of the process table
  NCPU,       \* CPUs
  MaxItems    \* bound on `items', for model checking

ASSUME SchedConstants == NPROC \in Nat \ {0} /\ NCPU \in Nat \ {0} /\ MaxItems \in Nat

Procs == 1..NPROC
CPUs == 1..NCPU
Nobody == 0   \* no process on the CPU, no CPU holding the lock

VARIABLES
  state, chan, killed,  \* struct proc; chan is TRUE when p->chan is set
  plock,                \* holder of p->lock
  lk, items,            \* the lock and the condition it protects
  wait_lock,            \* holder of wait_lock
  intr,                 \* intr_get() of each CPU
  intena,               \* c->intena; FALSE while noff is 0, when nobody reads it
  saved,                \* sched()'s local intena, FALSE outside sched()
  back,                 \* where a timer interrupt found the process
  exec,                 \* process whose context the CPU executes, or Nobody
  cproc,                \* c->proc
  scan,                 \* scheduler()'s loop variable p
  visit,                \* wakeup()'s loop variable p, Nobody outside wakeup()
  pc                    \* place of each process

ints == <<intr, intena, saved, back>>
vars == <<state, chan, killed, plock, lk, items, wait_lock, ints,
          exec, cproc, scan, visit, pc>>

(* CPU c executes process p, at place l of its code, outside a handler. *)
At(c, p, l) == exec[c] = p /\ pc[p] = l /\ visit[c] = Nobody
Goto(p, l) == pc' = [pc EXCEPT ![p] = l]

(***************************************************************************)
(* Spinlocks: acquire() turns the CPU's interrupts off, and the release()  *)
(* of its last lock puts them back as they were.  A CPU that has to spin   *)
(* does so with interrupts off: the step below is the end of the wait.     *)
(***************************************************************************)
noff(c) == Cardinality({p \in Procs : plock[p] = c})
             + (IF lk = c THEN 1 ELSE 0) + (IF wait_lock = c THEN 1 ELSE 0)

push_off(c) ==
  /\ intr' = [intr EXCEPT ![c] = FALSE]
  /\ intena' = [intena EXCEPT ![c] = IF noff(c) = 0 THEN intr[c] ELSE @]
(* mutant: interrupts come back with the first release() *)
pop_off_Unmatched(c, ena) ==
  /\ intr' = [intr EXCEPT ![c] = ena]
  /\ intena' = [intena EXCEPT ![c] = noff(c) # 1 /\ ena]

pop_off(c, ena) ==
  /\ intr' = [intr EXCEPT ![c] = @ \/ (noff(c) = 1 /\ ena)]
  /\ intena' = [intena EXCEPT ![c] = noff(c) # 1 /\ ena]

acquire(p, c) == plock[p] = Nobody /\ plock' = [plock EXCEPT ![p] = c] /\ push_off(c)
release(p) == plock' = [plock EXCEPT ![p] = Nobody]

(***************************************************************************)
(* scheduler(): visit one slot.  The chosen process starts with its own    *)
(* lock held; when it switches back, the scheduler releases it, and        *)
(* interrupts are as that process left them until the end of the table.    *)
(***************************************************************************)
NextSlot(c, on) ==
  /\ scan' = [scan EXCEPT ![c] = (@ % NPROC) + 1]
  /\ intr' = [intr EXCEPT ![c] = on \/ scan[c] = NPROC]

InScheduler(c) == exec[c] = Nobody /\ cproc[c] = Nobody /\ visit[c] = Nobody
(* mutant: the chosen process is not marked RUNNING *)
scheduler_run_NoState(c) ==
  LET p == scan[c] IN
  /\ InScheduler(c)
  /\ state[p] = "RUNNABLE"
  /\ acquire(p, c)
  /\ cproc' = [cproc EXCEPT ![c] = p]
  /\ exec' = [exec EXCEPT ![c] = p]
  /\ UNCHANGED <<state, chan, killed, lk, items, wait_lock, saved, back, scan, visit, pc>>

scheduler_run(c) ==
  LET p == scan[c] IN
  /\ InScheduler(c)
  /\ state[p] = "RUNNABLE"
  /\ acquire(p, c)
  /\ state' = [state EXCEPT ![p] = "RUNNING"]
  /\ cproc' = [cproc EXCEPT ![c] = p]
  /\ exec' = [exec EXCEPT ![c] = p]
  /\ UNCHANGED <<chan, killed, lk, items, wait_lock, saved, back, scan, visit, pc>>

scheduler_skip(c) ==
  /\ InScheduler(c)
  /\ plock[scan[c]] = Nobody
  /\ state[scan[c]] # "RUNNABLE"
  /\ NextSlot(c, intr[c])
  /\ UNCHANGED <<state, chan, killed, plock, lk, items, wait_lock, intena, saved, back,
                 exec, cproc, visit, pc>>

scheduler_back(c) ==
  /\ exec[c] = Nobody
  /\ cproc[c] # Nobody
  /\ cproc' = [cproc EXCEPT ![c] = Nobody]
  /\ release(cproc[c])
  /\ NextSlot(c, intena[c])
  /\ intena' = [intena EXCEPT ![c] = FALSE]
  /\ UNCHANGED <<state, chan, killed, lk, items, wait_lock, saved, back, exec, visit, pc>>

(***************************************************************************)
(* sched(): the checks, then swtch() to the CPU's scheduler context.       *)
(***************************************************************************)
SchedChecks(p, c) ==
  plock[p] = c /\ noff(c) = 1 /\ state[p] # "RUNNING" /\ ~intr[c]

SchedFrom == [sleep_sched |-> "sleep_tidy", yield_sched |-> "yield_tidy",
              exit_sched |-> "zombie"]

sched(c) ==
  \E p \in Procs, l \in DOMAIN SchedFrom :
    /\ At(c, p, l)
    /\ SchedChecks(p, c)
    /\ saved' = [saved EXCEPT ![p] = intena[c]]
    /\ Goto(p, SchedFrom[l])
    /\ exec' = [exec EXCEPT ![c] = Nobody]
    /\ UNCHANGED <<state, chan, killed, plock, lk, items, wait_lock, intr, intena, back,
                   cproc, scan, visit>>

(***************************************************************************)
(* forkret(), the first steps of a process: it releases the lock the       *)
(* scheduler took and goes to user space, where interrupts are on.         *)
(***************************************************************************)
forkret(c) ==
  \E p \in Procs :
    /\ At(c, p, "forkret")
    /\ release(p)
    /\ intr' = [intr EXCEPT ![c] = TRUE]
    /\ intena' = [intena EXCEPT ![c] = FALSE]
    /\ Goto(p, "user")
    /\ UNCHANGED <<state, chan, killed, lk, items, wait_lock, saved, back,
                   exec, cproc, scan, visit>>

(***************************************************************************)
(* A timer interrupt, in usertrap() or in kerneltrap(): yield(), and back  *)
(* with sret, which turns interrupts on again as they were.                *)
(***************************************************************************)
timer(c) ==
  \E p \in Procs :
    /\ exec[c] = p /\ intr[c]
    /\ pc[p] = "user" => plock[p] = Nobody /\ ~killed[p]
    /\ intr' = [intr EXCEPT ![c] = FALSE]
    /\ back' = [back EXCEPT ![p] = pc[p]]
    /\ Goto(p, "yield")
    /\ UNCHANGED <<state, chan, killed, plock, lk, items, wait_lock, intena, saved,
                   exec, cproc, scan, visit>>

yield(c) ==
  \E p \in Procs :
    /\ At(c, p, "yield")
    /\ acquire(p, c)
    /\ state' = [state EXCEPT ![p] = "RUNNABLE"]
    /\ Goto(p, "yield_sched")
    /\ UNCHANGED <<chan, killed, lk, items, wait_lock, saved, back, exec, cproc, scan, visit>>

yield_tidy(c) ==
  \E p \in Procs :
    /\ At(c, p, "yield_tidy")
    /\ release(p)
    /\ intr' = [intr EXCEPT ![c] = TRUE]
    /\ intena' = [intena EXCEPT ![c] = FALSE]
    /\ saved' = [saved EXCEPT ![p] = FALSE]
    /\ back' = [back EXCEPT ![p] = "user"]
    /\ Goto(p, back[p])
    /\ UNCHANGED <<state, chan, killed, lk, items, wait_lock, exec, cproc, scan, visit>>

(***************************************************************************)
(* usertrap(): a killed process exits, with interrupts still off; any      *)
(* other goes on to its system call.  Its end, after the system call or a  *)
(* device interrupt, looks again and goes back to user space.              *)
(***************************************************************************)
usertrap(c) ==
  \E p \in Procs :
    /\ At(c, p, "user")
    /\ plock[p] = Nobody
    /\ intr' = [intr EXCEPT ![c] = ~killed[p]]
    /\ Goto(p, IF killed[p] THEN "exit" ELSE "syscall")
    /\ UNCHANGED <<state, chan, killed, plock, lk, items, wait_lock, intena, saved, back,
                   exec, cproc, scan, visit>>

usertrapret(c) ==
  \E p \in Procs :
    /\ At(c, p, "trapret") \/ At(c, p, "devintr")
    /\ plock[p] = Nobody
    /\ intr' = [intr EXCEPT ![c] = @ \/ ~killed[p]]
    /\ Goto(p, IF killed[p] THEN "exit" ELSE "user")
    /\ UNCHANGED <<state, chan, killed, plock, lk, items, wait_lock, intena, saved, back,
                   exec, cproc, scan, visit>>

(***************************************************************************)
(* exit(), from acquire(&wait_lock) on: it ends in sched() with p->lock    *)
(* held and never returns.  Its wakeup() is for wait(), which sleeps on    *)
(* another channel than the one of this module.                            *)
(***************************************************************************)
exit(c) ==
  \E p \in Procs :
    /\ At(c, p, "exit")
    /\ wait_lock = Nobody
    /\ wait_lock' = c
    /\ push_off(c)
    /\ Goto(p, "exit_wait")
    /\ UNCHANGED <<state, chan, killed, plock, lk, items, saved, back,
                   exec, cproc, scan, visit>>

exit_zombie(c) ==
  \E p \in Procs :
    /\ At(c, p, "exit_wait")
    /\ acquire(p, c)
    /\ state' = [state EXCEPT ![p] = "ZOMBIE"]
    /\ Goto(p, "exit_locked")
    /\ UNCHANGED <<chan, killed, lk, items, wait_lock, saved, back, exec, cproc, scan, visit>>

exit_release(c) ==
  \E p \in Procs :
    /\ At(c, p, "exit_locked")
    /\ wait_lock' = Nobody
    /\ pop_off(c, intena[c])
    /\ Goto(p, "exit_sched")
    /\ UNCHANGED <<state, chan, killed, plock, lk, items, saved, back,
                   exec, cproc, scan, visit>>

(***************************************************************************)
(* The waiting loop and sleep().                                           *)
(***************************************************************************)
acquire_lk(c) ==
  \E p \in Procs :
    /\ At(c, p, "syscall") \/ At(c, p, "sleep_reacquire")
    /\ lk = Nobody
    /\ lk' = c
    /\ push_off(c)
    /\ Goto(p, "test")
    /\ UNCHANGED <<state, chan, killed, plock, items, wait_lock, saved, back,
                   exec, cproc, scan, visit>>

release_lk(c) == lk' = Nobody /\ pop_off(c, intena[c])

test_true(c) ==
  \E p \in Procs :
    /\ At(c, p, "test")
    /\ items > 0
    /\ items' = items - 1
    /\ release_lk(c)
    /\ Goto(p, "trapret")
    /\ UNCHANGED <<state, chan, killed, plock, wait_lock, saved, back,
                   exec, cproc, scan, visit>>
(* mutant: the process sleeps without testing its condition first *)
test_false_NoTest(c) ==
  \E p \in Procs :
    /\ At(c, p, "test")
    /\ plock[p] = Nobody
    /\ ~killed[p]
    /\ Goto(p, "sleep")
    /\ UNCHANGED <<state, chan, killed, plock, lk, items, wait_lock, ints,
                   exec, cproc, scan, visit>>

test_false(c) ==
  \E p \in Procs :
    /\ At(c, p, "test")
    /\ items = 0
    /\ plock[p] = Nobody
    /\ ~killed[p]
    /\ Goto(p, "sleep")
    /\ UNCHANGED <<state, chan, killed, plock, lk, items, wait_lock, ints,
                   exec, cproc, scan, visit>>

test_killed(c) ==
  \E p \in Procs :
    /\ At(c, p, "test")
    /\ items = 0
    /\ plock[p] = Nobody
    /\ killed[p]
    /\ release_lk(c)
    /\ Goto(p, "trapret")
    /\ UNCHANGED <<state, chan, killed, plock, items, wait_lock, saved, back,
                   exec, cproc, scan, visit>>

sleep(c) ==
  \E p \in Procs :
    /\ At(c, p, "sleep")
    /\ acquire(p, c)
    /\ Goto(p, "sleep_locked")
    /\ UNCHANGED <<state, chan, killed, lk, items, wait_lock, saved, back,
                   exec, cproc, scan, visit>>

sleep_locked(c) ==
  \E p \in Procs :
    /\ At(c, p, "sleep_locked")
    /\ release_lk(c)
    /\ Goto(p, "sleep_chan")
    /\ UNCHANGED <<state, chan, killed, plock, items, wait_lock, saved, back,
                   exec, cproc, scan, visit>>

sleep_chan(c) ==
  \E p \in Procs :
    /\ At(c, p, "sleep_chan")
    /\ chan' = [chan EXCEPT ![p] = TRUE]
    /\ state' = [state EXCEPT ![p] = "SLEEPING"]
    /\ Goto(p, "sleep_sched")
    /\ UNCHANGED <<killed, plock, lk, items, wait_lock, ints, exec, cproc, scan, visit>>

sleep_tidy(c) ==
  \E p \in Procs :
    /\ At(c, p, "sleep_tidy")
    /\ chan' = [chan EXCEPT ![p] = FALSE]
    /\ release(p)
    /\ pop_off(c, saved[p])
    /\ saved' = [saved EXCEPT ![p] = FALSE]
    /\ Goto(p, "sleep_reacquire")
    /\ UNCHANGED <<state, killed, lk, items, wait_lock, back, exec, cproc, scan, visit>>

(***************************************************************************)
(* The other side: make the condition true and call wakeup(chan).  In an   *)
(* interrupt handler interrupts are off until sret, or, when it came from  *)
(* user space, until usertrapret(); in a system call they are off from     *)
(* acquire(lk) to release(lk), which is the same step of the CPU.          *)
(***************************************************************************)
produce(c) ==
  /\ intr[c]
  /\ lk = Nobody
  /\ items < MaxItems
  /\ lk' = c
  /\ items' = items + 1
  /\ intr' = [intr EXCEPT ![c] = FALSE]
  /\ visit' = [visit EXCEPT ![c] = 1]
  /\ pc' = [p \in Procs |-> IF exec[c] = p /\ pc[p] = "user" THEN "devintr" ELSE pc[p]]
  /\ UNCHANGED <<state, chan, killed, plock, wait_lock, intena, saved, back,
                 exec, cproc, scan>>

EndWakeup(c) ==
  IF visit[c] = NPROC
    THEN /\ visit' = [visit EXCEPT ![c] = Nobody]
         /\ lk' = Nobody
         /\ intr' = [intr EXCEPT ![c] = \A p \in Procs : exec[c] = p => pc[p] # "devintr"]
    ELSE /\ visit' = [visit EXCEPT ![c] = @ + 1]
         /\ UNCHANGED <<lk, intr>>
(* mutant: wakeup() passes over a process whose lock is taken *)
wakeup_TryLock(c) ==
  LET p == visit[c] IN
  /\ p # Nobody
  /\ state' = IF p # cproc[c] /\ plock[p] = Nobody /\ state[p] = "SLEEPING" /\ chan[p]
                THEN [state EXCEPT ![p] = "RUNNABLE"] ELSE state
  /\ EndWakeup(c)
  /\ UNCHANGED <<chan, killed, plock, items, wait_lock, intena, saved, back,
                 exec, cproc, scan, pc>>

wakeup(c) ==
  LET p == visit[c] IN
  /\ p # Nobody
  /\ p = cproc[c] \/ plock[p] = Nobody
  /\ state' = IF p # cproc[c] /\ state[p] = "SLEEPING" /\ chan[p]
                THEN [state EXCEPT ![p] = "RUNNABLE"] ELSE state
  /\ EndWakeup(c)
  /\ UNCHANGED <<chan, killed, plock, items, wait_lock, intena, saved, back,
                 exec, cproc, scan, pc>>

kill(c, p) ==
  /\ \E q \in Procs : At(c, q, "syscall")
  /\ plock[p] = Nobody
  /\ killed' = [killed EXCEPT ![p] = TRUE]
  /\ state' = IF state[p] = "SLEEPING" THEN [state EXCEPT ![p] = "RUNNABLE"] ELSE state
  /\ UNCHANGED <<chan, plock, lk, items, wait_lock, ints, exec, cproc, scan, visit, pc>>

Init ==
  /\ state = [p \in Procs |-> "RUNNABLE"]
  /\ chan = [p \in Procs |-> FALSE]
  /\ killed = [p \in Procs |-> FALSE]
  /\ plock = [p \in Procs |-> Nobody]
  /\ lk = Nobody
  /\ items = 0
  /\ wait_lock = Nobody
  /\ intr = [c \in CPUs |-> TRUE]
  /\ intena = [c \in CPUs |-> FALSE]
  /\ saved = [p \in Procs |-> FALSE]
  /\ back = [p \in Procs |-> "user"]
  /\ exec = [c \in CPUs |-> Nobody]
  /\ cproc = [c \in CPUs |-> Nobody]
  /\ scan = [c \in CPUs |-> 1]
  /\ visit = [c \in CPUs |-> Nobody]
  /\ pc = [p \in Procs |-> "forkret"]

KernelStep(c) ==
  \/ scheduler_run(c) \/ scheduler_skip(c) \/ scheduler_back(c)
  \/ sched(c) \/ forkret(c) \/ yield(c) \/ yield_tidy(c) \/ usertrapret(c)
  \/ exit(c) \/ exit_zombie(c) \/ exit_release(c)
  \/ acquire_lk(c) \/ test_true(c) \/ test_false(c) \/ test_killed(c)
  \/ sleep(c) \/ sleep_locked(c) \/ sleep_chan(c) \/ sleep_tidy(c) \/ wakeup(c)

Next ==
  \E c \in CPUs :
    \/ KernelStep(c) \/ usertrap(c) \/ timer(c) \/ produce(c)
    \/ \E p \in Procs : kill(c, p)

Spec == Init /\ [][Next]_vars

(* Locks are granted and CPUs run: even so, whether anyone makes the       *)
(* condition true again is left open.                                      *)
FairSpec ==
  Spec /\ \A c \in CPUs : SF_vars(KernelStep(c)) /\ WF_vars(usertrap(c))
-----------------------------------------------------------------------------
States == {"RUNNABLE", "RUNNING", "SLEEPING", "ZOMBIE"}
Interruptible == {"user", "syscall", "trapret", "exit", "sleep_reacquire"}
Places == Interruptible \cup DOMAIN SchedFrom \cup {SchedFrom[l] : l \in DOMAIN SchedFrom}
            \cup {"forkret", "devintr", "yield", "exit_wait", "exit_locked",
                  "test", "sleep", "sleep_locked", "sleep_chan"}

(* Types of the process table, the per-CPU state and the locks. *)
TypeOK ==
  /\ state \in [Procs -> States]
  /\ chan \in [Procs -> BOOLEAN] /\ killed \in [Procs -> BOOLEAN]
  /\ plock \in [Procs -> CPUs \cup {Nobody}]
  /\ lk \in CPUs \cup {Nobody} /\ items \in Nat /\ wait_lock \in CPUs \cup {Nobody}
  /\ intr \in [CPUs -> BOOLEAN] /\ intena \in [CPUs -> BOOLEAN]
  /\ saved \in [Procs -> BOOLEAN] /\ back \in [Procs -> Interruptible]
  /\ exec \in [CPUs -> Procs \cup {Nobody}] /\ cproc \in [CPUs -> Procs \cup {Nobody}]
  /\ scan \in [CPUs -> Procs] /\ visit \in [CPUs -> Procs \cup {Nobody}]
  /\ pc \in [Procs -> Places]

(* The kernel stack and context of a process are in use by one CPU at a    *)
(* time: no second CPU picks a process up before sched() on the first has  *)
(* saved its context, and a zombie is never run again.                     *)
OneCpuPerProcess ==
  /\ \A c, d \in CPUs : (exec[c] # Nobody /\ exec[c] = exec[d]) => c = d
  /\ \A c \in CPUs : exec[c] # Nobody => cproc[c] = exec[c]
  /\ \A p \in Procs : (state[p] = "ZOMBIE" /\ plock[p] = Nobody) =>
                        \A c \in CPUs : exec[c] # p

(* The panics of sched() cannot happen: whoever calls it holds p->lock and *)
(* no other lock, has changed p->state, and has interrupts off.  And a CPU *)
(* that holds a spinlock takes no interrupt, whose handler might ask for   *)
(* the same lock or call yield() with it.                                  *)
SchedNeverPanics ==
  /\ \A c \in CPUs, p \in Procs, l \in DOMAIN SchedFrom : At(c, p, l) => SchedChecks(p, c)
  /\ \A c \in CPUs : noff(c) # 0 => ~intr[c]

(* No lost wakeup: a process is never asleep while the condition it waits  *)
(* for holds, except while the wakeup() that will reach it is on its way.  *)
NoLostWakeup ==
  \A p \in Procs : (state[p] = "SLEEPING" /\ items > 0) =>
    \E c \in CPUs : lk = c /\ visit[c] # Nobody /\ visit[c] <= p

(***************************************************************************)
(* The inductive invariant: which CPU has which process, which locks are   *)
(* held where, and what a sleeper's state says about the condition.        *)
(***************************************************************************)
Unlocked == Interruptible \cup {"devintr", "yield", "exit_wait", "test", "sleep"}
Parked == {"forkret", "sleep_tidy", "yield_tidy", "zombie"}
HasLk == {"test", "sleep", "sleep_locked"}

StateAt(l) == CASE l = "sleep_sched" -> "SLEEPING"
                [] l = "yield_sched" -> "RUNNABLE"
                [] l \in {"exit_locked", "exit_sched"} -> "ZOMBIE"
                [] OTHER -> "RUNNING"

(* A process on a CPU: c->proc, p->lock and p->state are as its place says. *)
OnCpu ==
  \A c \in CPUs, p \in Procs : exec[c] = p =>
    /\ cproc[c] = p /\ pc[p] # "zombie"
    /\ plock[p] = IF pc[p] \in Unlocked THEN Nobody ELSE c
    /\ state[p] = StateAt(pc[p])

(* A process on no CPU has been switched away from, or has never run. *)
OffCpu ==
  \A p \in Procs : (\A c \in CPUs : exec[c] # p) =>
    /\ pc[p] \in Parked /\ state[p] # "RUNNING"
    /\ state[p] = "SLEEPING" => pc[p] = "sleep_tidy"
    /\ state[p] = "ZOMBIE" <=> pc[p] = "zombie"

(* p->lock is held by the CPU that has the process, which is one CPU; the  *)
(* scheduler holds it from the switch until it lets go of the process.     *)
LocksInv ==
  /\ \A p \in Procs : plock[p] # Nobody => cproc[plock[p]] = p
  /\ \A c, d \in CPUs : (cproc[c] # Nobody /\ cproc[c] = cproc[d]) => c = d
  /\ \A c \in CPUs : (exec[c] = Nobody /\ cproc[c] # Nobody) =>
                       plock[cproc[c]] = c /\ visit[c] = Nobody

(* lk is held by a wakeup() in progress, on a CPU whose interrupts were on, *)
(* or by a process between its acquire() and its sleep().                  *)
LkInv ==
  /\ \A c \in CPUs : visit[c] # Nobody =>
       /\ lk = c
       /\ exec[c] # Nobody => pc[exec[c]] \in (Interruptible \ {"user"}) \cup {"devintr"}
  /\ \A c \in CPUs : (exec[c] # Nobody /\ pc[exec[c]] \in HasLk) => lk = c
  /\ lk # Nobody => visit[lk] # Nobody \/ (exec[lk] # Nobody /\ pc[exec[lk]] \in HasLk)

(* wait_lock is held by the CPU of a process in the middle of exit(). *)
WaitLockInv ==
  /\ \A c \in CPUs : (exec[c] # Nobody /\ pc[exec[c]] \in {"exit_wait", "exit_locked"}) =>
                       wait_lock = c
  /\ wait_lock # Nobody => /\ exec[wait_lock] # Nobody
                           /\ pc[exec[wait_lock]] \in {"exit_wait", "exit_locked"}

(* Interrupts are on in scheduler() between two slots, and at places where *)
(* a process holds no lock; never in an interrupt handler.                 *)
IntrInv ==
  \A c \in CPUs : intr[c] =>
    /\ visit[c] = Nobody
    /\ exec[c] = Nobody => cproc[c] = Nobody
    /\ exec[c] # Nobody => pc[exec[c]] \in Interruptible

(* Whoever is asleep, or cannot avoid it any more, has seen the condition  *)
(* false, or a wakeup() is on its way.                                     *)
WaitInv ==
  /\ \A p \in Procs : pc[p] \in {"sleep", "sleep_locked"} => items = 0
  /\ \A p \in Procs : state[p] = "SLEEPING" => chan[p]
  /\ \A p \in Procs : ((pc[p] = "sleep_chan" \/ state[p] = "SLEEPING") /\ items > 0) =>
       \E c \in CPUs : lk = c /\ visit[c] # Nobody /\ visit[c] <= p

SchedInv == TypeOK /\ OnCpu /\ OffCpu /\ LocksInv /\ LkInv /\ WaitLockInv /\ IntrInv /\ WaitInv

(* kill() wakes its victim from sleep(), so that it gets to usertrap() and *)
(* exits: a killed process does not stay asleep.                           *)
KilledWakesUp ==
  \A p \in Procs : (killed[p] /\ state[p] = "SLEEPING") ~> state[p] # "SLEEPING"

(* wakeup() is called with the condition true, and nobody makes it false   *)
(* while it runs.                                                          *)
SignalInv == \A c \in CPUs : visit[c] # Nobody => items > 0

(* Processes that sleep as far as the others can tell: from the moment     *)
(* sleep() has p->lock until wakeup() or kill() changes p->state, and none *)
(* while a wakeup() is on its way.                                         *)
Waiting ==
  {p \in Procs : /\ pc[p] \in {"sleep_locked", "sleep_chan", "sleep_sched", "sleep_tidy"}
                 /\ pc[p] \in {"sleep_sched", "sleep_tidy"} => state[p] = "SLEEPING"
                 /\ \A c \in CPUs : visit[c] = Nobody}

Mon == INSTANCE Monitor WITH waiting <- Waiting

(* sleep() and wakeup(), lock by lock and across the context switches of   *)
(* several CPUs, implement an atomic test-and-wait and an atomic           *)
(* signal-all.                                                             *)
ImplementsMonitor == Mon!Spec
=============================================================================
