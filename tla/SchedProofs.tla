----------------------------- MODULE SchedProofs ----------------------------
(***************************************************************************)
(* Proofs about scheduling, sleep and wakeup for every number of processes *)
(* and CPUs: a process is on one CPU at a time, the checks of sched()      *)
(* hold, and no wakeup is lost.  They rest on SchedInv, which says what    *)
(* holds at every step of swtch() and of the two locks: one lemma per      *)
(* action, one step per conjunct.                                          *)
(***************************************************************************)
EXTENDS Sched, TLAPS, FiniteSetTheorems

(* Processes and CPUs are numbered from 1, and `Nobody' is none of them;   *)
(* proc[] is scanned without leaving it.                                   *)
LEMMA Ranges ==
  /\ Procs \subseteq Nat /\ CPUs \subseteq Nat
  /\ Nobody \notin Procs /\ Nobody \notin CPUs /\ Nobody \in Nat
  /\ 1 \in Procs /\ NPROC \in Procs
  /\ \A p \in Procs : /\ (p % NPROC) + 1 \in Procs /\ (p # NPROC => p + 1 \in Procs)
                      /\ 1 <= p /\ p <= NPROC
BY SchedConstants DEF Procs, CPUs, Nobody

(* The places from which sched() is called, where each goes on, and all    *)
(* places of a process.                                                    *)
LEMMA SwitchPlaces ==
  /\ DOMAIN SchedFrom = {"sleep_sched", "yield_sched", "exit_sched"}
  /\ SchedFrom["sleep_sched"] = "sleep_tidy" /\ SchedFrom["yield_sched"] = "yield_tidy"
  /\ SchedFrom["exit_sched"] = "zombie"
  /\ Places = {"user", "syscall", "trapret", "exit", "sleep_reacquire", "sleep_sched",
               "yield_sched", "exit_sched", "sleep_tidy", "yield_tidy", "zombie", "forkret",
               "devintr", "yield", "exit_wait", "exit_locked", "test", "sleep",
               "sleep_locked", "sleep_chan"}
BY DEF SchedFrom, Places, Interruptible

(* A CPU that has a p->lock and another lock has not noff = 1: pop_off()   *)
(* leaves its interrupts off.                                              *)
LEMMA TwoLocks ==
  ASSUME NEW c \in CPUs, NEW p \in Procs, plock[p] = c, lk = c \/ wait_lock = c
  PROVE  noff(c) # 1
<1> DEFINE held == {q \in Procs : plock[q] = c}
<1>1. IsFiniteSet(held) /\ held # {}
  <2>1. IsFiniteSet(Procs)
    BY SchedConstants, FS_Interval DEF Procs
  <2>2. held \subseteq Procs /\ p \in held
    BY Zenon
  <2> QED
    BY Zenon, <2>1, <2>2, FS_Subset
<1>2. Cardinality(held) \in Nat /\ Cardinality(held) # 0
  BY Zenon, <1>1, FS_CardinalityType, FS_EmptySet
<1> HIDE DEF held
<1>3. noff(c) # 1
  <2>1. noff(c) = Cardinality(held) + (IF lk = c THEN 1 ELSE 0) + (IF wait_lock = c THEN 1 ELSE 0)
    BY Zenon DEF noff, held
  <2> QED
    BY <1>2, <2>1
<1> QED
  BY Zenon, <1>3

(* A process is executed by one CPU, the one whose c->proc it is.          *)
LEMMA ExecUnique ==
  ASSUME SchedInv, NEW c \in CPUs, exec[c] # Nobody
  PROVE  exec[c] \in Procs /\ cproc[c] = exec[c] /\ \A d \in CPUs : exec[d] = exec[c] => c = d
<1>1. ASSUME NEW d \in CPUs, exec[d] # Nobody PROVE exec[d] \in Procs /\ cproc[d] = exec[d]
  <2>1. exec[d] \in Procs
    BY Zenon, <1>1 DEF SchedInv, TypeOK
  <2> QED
    BY Zenon, <2>1 DEF SchedInv, OnCpu
<1> QED
  BY Zenon, <1>1 DEF SchedInv, LocksInv

(* A RUNNABLE process whose lock is free is on no CPU.                     *)
LEMMA ReadyIsOff ==
  ASSUME SchedInv, NEW p \in Procs, state[p] = "RUNNABLE", plock[p] = Nobody
  PROVE  \A d \in CPUs : cproc[d] # p /\ exec[d] # p
<1> SUFFICES ASSUME NEW d \in CPUs, cproc[d] = p \/ exec[d] = p PROVE FALSE
  BY Zenon
<1>1. exec[d] # p
  <2> SUFFICES ASSUME exec[d] = p PROVE FALSE
    BY Zenon
  <2>1. /\ plock[p] = IF pc[p] \in Unlocked THEN Nobody ELSE d
        /\ state[p] = StateAt(pc[p])
    BY Zenon DEF SchedInv, OnCpu
  <2> QED
    BY Zenon, <2>1, Ranges DEF StateAt, Unlocked, Interruptible
<1>2. exec[d] = Nobody /\ cproc[d] = p
  BY Zenon, <1>1, ExecUnique
<1> QED
  BY Zenon, <1>2, Ranges DEF SchedInv, LocksInv

(* scheduler() that finds a RUNNABLE process, sets c->proc and switches to *)
(* it keeps the invariant.                                                 *)
LEMMA Step_scheduler_run ==
  ASSUME SchedInv, NEW c \in CPUs, scheduler_run(c)
  PROVE  SchedInv'
<1> USE Ranges, SwitchPlaces DEF SchedInv
<1>1. TypeOK'
  BY Zenon DEF TypeOK, States, Interruptible, scheduler_run, InScheduler, acquire, push_off
<1>2. OnCpu'
  BY SMTT(40) DEF TypeOK, OnCpu, OffCpu, LocksInv, Interruptible, Unlocked, Parked, StateAt,
       scheduler_run, InScheduler, acquire
<1>3. OffCpu'
  BY DEF TypeOK, OnCpu, OffCpu, LocksInv, Interruptible, Unlocked, Parked, StateAt,
       scheduler_run, InScheduler, acquire
<1>4. LocksInv'
  <2>1. \A d \in CPUs : cproc[d] # scan[c] /\ exec[d] # scan[c]
    BY Zenon, ReadyIsOff DEF TypeOK, scheduler_run, acquire
  <2> QED
    BY <2>1 DEF TypeOK, LocksInv, scheduler_run, InScheduler, acquire
<1>5. LkInv'
  BY SMTT(40) DEF TypeOK, OnCpu, OffCpu, LocksInv, LkInv, Interruptible, Unlocked, Parked, StateAt,
       HasLk, scheduler_run, InScheduler, acquire
<1>6. WaitLockInv'
  <2>1. \A d \in CPUs : exec[d] # scan[c]
    BY Zenon, ReadyIsOff DEF TypeOK, scheduler_run, acquire
  <2>2. scan[c] \in Procs /\ pc[scan[c]] \notin {"exit_wait", "exit_locked"}
    BY ZenonT(40), <2>1 DEF TypeOK, OffCpu, Parked
  <2> QED
    BY Zenon, <2>2 DEF TypeOK, WaitLockInv, scheduler_run, InScheduler
<1>7. IntrInv'
  BY DEF TypeOK, OnCpu, LocksInv, LkInv, IntrInv, Interruptible, scheduler_run, InScheduler,
       acquire, push_off
<1>8. WaitInv'
  BY DEF TypeOK, OnCpu, OffCpu, LocksInv, LkInv, WaitInv, Interruptible, Unlocked, Parked,
       StateAt, HasLk, scheduler_run, InScheduler, acquire
<1> QED
  BY Zenon, <1>1, <1>2, <1>3, <1>4, <1>5, <1>6, <1>7, <1>8

(* scheduler() that passes over a process in another state, and turns      *)
(* interrupts on at the end of the table, keeps the invariant.             *)
LEMMA Step_scheduler_skip ==
  ASSUME SchedInv, NEW c \in CPUs, scheduler_skip(c)
  PROVE  SchedInv'
<1> USE Ranges, SwitchPlaces DEF SchedInv
<1>1. TypeOK'
  BY Zenon DEF TypeOK, States, Interruptible, scheduler_skip, InScheduler, NextSlot
<1>2. OnCpu'
  BY DEF TypeOK, OnCpu, OffCpu, LocksInv, Interruptible, Unlocked, Parked, StateAt,
       scheduler_skip, InScheduler, NextSlot
<1>3. OffCpu'
  BY DEF TypeOK, OnCpu, OffCpu, LocksInv, Interruptible, Unlocked, Parked, StateAt,
       scheduler_skip, InScheduler, NextSlot
<1>4. LocksInv'
  BY DEF TypeOK, OnCpu, OffCpu, LocksInv, LkInv, Interruptible, Unlocked, Parked, StateAt,
       scheduler_skip, InScheduler, NextSlot
<1>5. LkInv'
  BY ZenonT(40) DEF TypeOK, OnCpu, OffCpu, LocksInv, LkInv, Interruptible, Unlocked, Parked, StateAt,
       HasLk, scheduler_skip, InScheduler, NextSlot
<1>6. WaitLockInv'
  BY Zenon DEF TypeOK, OnCpu, LocksInv, WaitLockInv, scheduler_skip, InScheduler, NextSlot
<1>7. IntrInv'
  BY DEF TypeOK, OnCpu, LocksInv, LkInv, IntrInv, Interruptible, scheduler_skip,
       InScheduler, NextSlot
<1>8. WaitInv'
  BY ZenonT(40) DEF TypeOK, OnCpu, OffCpu, LocksInv, LkInv, WaitInv, Interruptible, Unlocked, Parked,
       StateAt, HasLk, scheduler_skip, InScheduler, NextSlot
<1> QED
  BY Zenon, <1>1, <1>2, <1>3, <1>4, <1>5, <1>6, <1>7, <1>8

(* scheduler() that gets the CPU back, clears c->proc and releases p->lock *)
(* keeps the invariant, whether interrupts come on with it or not.         *)
LEMMA Step_scheduler_back ==
  ASSUME SchedInv, NEW c \in CPUs, scheduler_back(c)
  PROVE  SchedInv'
<1> USE Ranges, SwitchPlaces DEF SchedInv
<1>1. TypeOK'
  BY Zenon DEF TypeOK, States, Interruptible, scheduler_back, release, NextSlot
<1>2. OnCpu'
  BY DEF TypeOK, OnCpu, OffCpu, LocksInv, Interruptible, Unlocked, Parked, StateAt,
       scheduler_back, release, NextSlot
<1>3. OffCpu'
  BY DEF TypeOK, OnCpu, OffCpu, LocksInv, Interruptible, Unlocked, Parked, StateAt,
       scheduler_back, release, NextSlot
<1>4. LocksInv'
  BY DEF TypeOK, OnCpu, OffCpu, LocksInv, LkInv, Interruptible, Unlocked, Parked, StateAt,
       scheduler_back, release, NextSlot
<1>5. LkInv'
  BY ZenonT(40) DEF TypeOK, OnCpu, OffCpu, LocksInv, LkInv, Interruptible, Unlocked, Parked, StateAt,
       HasLk, scheduler_back, release, NextSlot
<1>6. WaitLockInv'
  BY Zenon DEF TypeOK, OnCpu, LocksInv, WaitLockInv, scheduler_back, release, NextSlot
<1>7. IntrInv'
  BY DEF TypeOK, OnCpu, LocksInv, LkInv, IntrInv, Interruptible, scheduler_back, release,
       NextSlot
<1>8. WaitInv'
  BY ZenonT(40) DEF TypeOK, OnCpu, OffCpu, LocksInv, LkInv, WaitInv, Interruptible, Unlocked, Parked,
       StateAt, HasLk, scheduler_back, release, NextSlot
<1> QED
  BY Zenon, <1>1, <1>2, <1>3, <1>4, <1>5, <1>6, <1>7, <1>8

(* The switch in sched(), from whichever place it is called, keeps the     *)
(* invariant.                                                              *)
LEMMA Step_sched ==
  ASSUME SchedInv, NEW c \in CPUs, sched(c)
  PROVE  SchedInv'
<1> USE Ranges, SwitchPlaces DEF SchedInv
<1>1. TypeOK'
  BY DEF TypeOK, States, Interruptible, sched, At, Goto, SchedChecks
<1>2. OnCpu'
  BY DEF TypeOK, OnCpu, OffCpu, LocksInv, Interruptible, Unlocked, Parked, StateAt, sched,
       At, Goto, SchedChecks
<1>3. OffCpu'
  BY DEF TypeOK, OnCpu, OffCpu, LocksInv, Interruptible, Unlocked, Parked, StateAt, sched,
       At, Goto, SchedChecks
<1>4. LocksInv'
  BY DEF TypeOK, OnCpu, OffCpu, LocksInv, LkInv, Interruptible, Unlocked, Parked, StateAt,
       sched, At, Goto, SchedChecks
<1>5. LkInv'
  BY DEF TypeOK, OnCpu, OffCpu, LocksInv, LkInv, Interruptible, Unlocked, Parked, StateAt,
       HasLk, sched, At, Goto, SchedChecks
<1>6. WaitLockInv'
  BY DEF TypeOK, OnCpu, LocksInv, WaitLockInv, sched, At, Goto, SchedChecks
<1>7. IntrInv'
  BY DEF TypeOK, OnCpu, LocksInv, LkInv, IntrInv, Interruptible, sched, At, Goto,
       SchedChecks
<1>8. WaitInv'
  BY DEF TypeOK, OnCpu, OffCpu, LocksInv, LkInv, WaitInv, Interruptible, Unlocked, Parked,
       StateAt, HasLk, sched, At, Goto, SchedChecks
<1> QED
  BY Zenon, <1>1, <1>2, <1>3, <1>4, <1>5, <1>6, <1>7, <1>8

(* The first steps of a process, which release p->lock, keep the           *)
(* invariant.                                                              *)
LEMMA Step_forkret ==
  ASSUME SchedInv, NEW c \in CPUs, forkret(c)
  PROVE  SchedInv'
<1> USE Ranges, SwitchPlaces DEF SchedInv
<1>1. TypeOK'
  BY DEF TypeOK, States, Interruptible, forkret, At, Goto, release
<1>2. OnCpu'
  BY DEF TypeOK, OnCpu, OffCpu, LocksInv, Interruptible, Unlocked, Parked, StateAt, forkret,
       At, Goto, release
<1>3. OffCpu'
  BY DEF TypeOK, OnCpu, OffCpu, LocksInv, Interruptible, Unlocked, Parked, StateAt, forkret,
       At, Goto, release
<1>4. LocksInv'
  BY DEF TypeOK, OnCpu, OffCpu, LocksInv, LkInv, Interruptible, Unlocked, Parked, StateAt,
       forkret, At, Goto, release
<1>5. LkInv'
  BY DEF TypeOK, OnCpu, OffCpu, LocksInv, LkInv, Interruptible, Unlocked, Parked, StateAt,
       HasLk, forkret, At, Goto, release
<1>6. WaitLockInv'
  BY DEF TypeOK, OnCpu, LocksInv, WaitLockInv, forkret, At, Goto, release
<1>7. IntrInv'
  BY DEF TypeOK, OnCpu, LocksInv, LkInv, IntrInv, Interruptible, forkret, At, Goto, release
<1>8. WaitInv'
  BY DEF TypeOK, OnCpu, OffCpu, LocksInv, LkInv, WaitInv, Interruptible, Unlocked, Parked,
       StateAt, HasLk, forkret, At, Goto, release
<1> QED
  BY Zenon, <1>1, <1>2, <1>3, <1>4, <1>5, <1>6, <1>7, <1>8

(* A timer interrupt, wherever interrupts are on, keeps the invariant. *)
LEMMA Step_timer ==
  ASSUME SchedInv, NEW c \in CPUs, timer(c)
  PROVE  SchedInv'
<1> USE Ranges, SwitchPlaces DEF SchedInv
<1>1. TypeOK'
  BY DEF TypeOK, States, Interruptible, IntrInv, timer, At, Goto
<1>2. OnCpu'
  BY DEF TypeOK, OnCpu, OffCpu, LocksInv, IntrInv, Interruptible, Unlocked, Parked, StateAt,
       timer, At, Goto
<1>3. OffCpu'
  BY DEF TypeOK, OnCpu, OffCpu, LocksInv, IntrInv, Interruptible, Unlocked, Parked, StateAt,
       timer, At, Goto
<1>4. LocksInv'
  BY DEF TypeOK, OnCpu, OffCpu, LocksInv, LkInv, IntrInv, Interruptible, Unlocked, Parked,
       StateAt, timer, At, Goto
<1>5. LkInv'
  BY DEF TypeOK, OnCpu, OffCpu, LocksInv, LkInv, IntrInv, Interruptible, Unlocked, Parked,
       StateAt, HasLk, timer, At, Goto
<1>6. WaitLockInv'
  BY DEF TypeOK, OnCpu, LocksInv, WaitLockInv, IntrInv, Interruptible, timer, At, Goto
<1>7. IntrInv'
  BY DEF TypeOK, OnCpu, LocksInv, LkInv, IntrInv, Interruptible, timer, At, Goto
<1>8. WaitInv'
  BY DEF TypeOK, OnCpu, OffCpu, LocksInv, LkInv, WaitInv, IntrInv, Interruptible, Unlocked,
       Parked, StateAt, HasLk, timer, At, Goto
<1> QED
  BY Zenon, <1>1, <1>2, <1>3, <1>4, <1>5, <1>6, <1>7, <1>8

(* yield() that takes p->lock and makes the process RUNNABLE keeps the     *)
(* invariant.                                                              *)
LEMMA Step_yield ==
  ASSUME SchedInv, NEW c \in CPUs, yield(c)
  PROVE  SchedInv'
<1> USE Ranges, SwitchPlaces DEF SchedInv
<1>1. TypeOK'
  BY DEF TypeOK, States, Interruptible, yield, At, Goto, acquire, push_off
<1>2. OnCpu'
  BY DEF TypeOK, OnCpu, OffCpu, LocksInv, Interruptible, Unlocked, Parked, StateAt, yield,
       At, Goto, acquire
<1>3. OffCpu'
  BY DEF TypeOK, OnCpu, OffCpu, LocksInv, Interruptible, Unlocked, Parked, StateAt, yield,
       At, Goto, acquire
<1>4. LocksInv'
  BY DEF TypeOK, OnCpu, OffCpu, LocksInv, LkInv, Interruptible, Unlocked, Parked, StateAt,
       yield, At, Goto, acquire
<1>5. LkInv'
  BY DEF TypeOK, OnCpu, OffCpu, LocksInv, LkInv, Interruptible, Unlocked, Parked, StateAt,
       HasLk, yield, At, Goto, acquire
<1>6. WaitLockInv'
  BY DEF TypeOK, OnCpu, LocksInv, WaitLockInv, yield, At, Goto, acquire
<1>7. IntrInv'
  BY DEF TypeOK, OnCpu, LocksInv, LkInv, IntrInv, Interruptible, yield, At, Goto, acquire,
       push_off
<1>8. WaitInv'
  BY DEF TypeOK, OnCpu, OffCpu, LocksInv, LkInv, WaitInv, Interruptible, Unlocked, Parked,
       StateAt, HasLk, yield, At, Goto, acquire
<1> QED
  BY Zenon, <1>1, <1>2, <1>3, <1>4, <1>5, <1>6, <1>7, <1>8

(* yield() that runs again, releases p->lock and returns to where the      *)
(* interrupt found the process keeps the invariant.                        *)
LEMMA Step_yield_tidy ==
  ASSUME SchedInv, NEW c \in CPUs, yield_tidy(c)
  PROVE  SchedInv'
<1> USE Ranges, SwitchPlaces DEF SchedInv
<1>1. TypeOK'
  BY DEF TypeOK, States, Interruptible, yield_tidy, At, Goto, release
<1>2. OnCpu'
  BY DEF TypeOK, OnCpu, OffCpu, LocksInv, Interruptible, Unlocked, Parked, StateAt,
       yield_tidy, At, Goto, release
<1>3. OffCpu'
  BY DEF TypeOK, OnCpu, OffCpu, LocksInv, Interruptible, Unlocked, Parked, StateAt,
       yield_tidy, At, Goto, release
<1>4. LocksInv'
  BY DEF TypeOK, OnCpu, OffCpu, LocksInv, LkInv, Interruptible, Unlocked, Parked, StateAt,
       yield_tidy, At, Goto, release
<1>5. LkInv'
  BY DEF TypeOK, OnCpu, OffCpu, LocksInv, LkInv, Interruptible, Unlocked, Parked, StateAt,
       HasLk, yield_tidy, At, Goto, release
<1>6. WaitLockInv'
  BY DEF TypeOK, OnCpu, LocksInv, WaitLockInv, Interruptible, yield_tidy, At, Goto, release
<1>7. IntrInv'
  BY DEF TypeOK, OnCpu, LocksInv, LkInv, IntrInv, Interruptible, yield_tidy, At, Goto,
       release
<1>8. WaitInv'
  BY SMTT(40) DEF TypeOK, OnCpu, OffCpu, LocksInv, LkInv, WaitInv, Interruptible, Unlocked, Parked,
       StateAt, HasLk, yield_tidy, At, Goto, release
<1> QED
  BY Zenon, <1>1, <1>2, <1>3, <1>4, <1>5, <1>6, <1>7, <1>8

(* A system call keeps the invariant. *)
LEMMA Step_usertrap ==
  ASSUME SchedInv, NEW c \in CPUs, usertrap(c)
  PROVE  SchedInv'
<1> USE Ranges, SwitchPlaces DEF SchedInv
<1>1. TypeOK'
  BY DEF TypeOK, States, Interruptible, usertrap, At, Goto
<1>2. OnCpu'
  BY DEF TypeOK, OnCpu, OffCpu, LocksInv, Interruptible, Unlocked, Parked, StateAt,
       usertrap, At, Goto
<1>3. OffCpu'
  BY DEF TypeOK, OnCpu, OffCpu, LocksInv, Interruptible, Unlocked, Parked, StateAt,
       usertrap, At, Goto
<1>4. LocksInv'
  BY DEF TypeOK, OnCpu, OffCpu, LocksInv, LkInv, Interruptible, Unlocked, Parked, StateAt,
       usertrap, At, Goto
<1>5. LkInv'
  BY DEF TypeOK, OnCpu, OffCpu, LocksInv, LkInv, Interruptible, Unlocked, Parked, StateAt,
       HasLk, usertrap, At, Goto
<1>6. WaitLockInv'
  BY DEF TypeOK, OnCpu, LocksInv, WaitLockInv, usertrap, At, Goto
<1>7. IntrInv'
  BY DEF TypeOK, OnCpu, LocksInv, LkInv, IntrInv, Interruptible, usertrap, At, Goto
<1>8. WaitInv'
  BY DEF TypeOK, OnCpu, OffCpu, LocksInv, LkInv, WaitInv, Interruptible, Unlocked, Parked,
       StateAt, HasLk, usertrap, At, Goto
<1> QED
  BY Zenon, <1>1, <1>2, <1>3, <1>4, <1>5, <1>6, <1>7, <1>8

(* The end of usertrap() keeps the invariant. *)
LEMMA Step_usertrapret ==
  ASSUME SchedInv, NEW c \in CPUs, usertrapret(c)
  PROVE  SchedInv'
<1> USE Ranges, SwitchPlaces DEF SchedInv
<1>1. TypeOK'
  BY DEF TypeOK, States, Interruptible, usertrapret, At, Goto
<1>2. OnCpu'
  BY DEF TypeOK, OnCpu, OffCpu, LocksInv, Interruptible, Unlocked, Parked, StateAt,
       usertrapret, At, Goto
<1>3. OffCpu'
  BY DEF TypeOK, OnCpu, OffCpu, LocksInv, Interruptible, Unlocked, Parked, StateAt,
       usertrapret, At, Goto
<1>4. LocksInv'
  BY DEF TypeOK, OnCpu, OffCpu, LocksInv, LkInv, Interruptible, Unlocked, Parked, StateAt,
       usertrapret, At, Goto
<1>5. LkInv'
  BY DEF TypeOK, OnCpu, OffCpu, LocksInv, LkInv, Interruptible, Unlocked, Parked, StateAt,
       HasLk, usertrapret, At, Goto
<1>6. WaitLockInv'
  BY DEF TypeOK, OnCpu, LocksInv, WaitLockInv, usertrapret, At, Goto
<1>7. IntrInv'
  BY DEF TypeOK, OnCpu, LocksInv, LkInv, IntrInv, Interruptible, usertrapret, At, Goto
<1>8. WaitInv'
  BY DEF TypeOK, OnCpu, OffCpu, LocksInv, LkInv, WaitInv, Interruptible, Unlocked, Parked,
       StateAt, HasLk, usertrapret, At, Goto
<1> QED
  BY Zenon, <1>1, <1>2, <1>3, <1>4, <1>5, <1>6, <1>7, <1>8

(* exit() that takes wait_lock keeps the invariant. *)
LEMMA Step_exit ==
  ASSUME SchedInv, NEW c \in CPUs, exit(c)
  PROVE  SchedInv'
<1> USE Ranges, SwitchPlaces DEF SchedInv
<1>1. TypeOK'
  BY DEF TypeOK, States, Interruptible, exit, At, Goto, push_off
<1>2. OnCpu'
  BY DEF TypeOK, OnCpu, OffCpu, LocksInv, Interruptible, Unlocked, Parked, StateAt, exit,
       At, Goto
<1>3. OffCpu'
  BY DEF TypeOK, OnCpu, OffCpu, LocksInv, Interruptible, Unlocked, Parked, StateAt, exit,
       At, Goto
<1>4. LocksInv'
  BY DEF TypeOK, OnCpu, OffCpu, LocksInv, LkInv, Interruptible, Unlocked, Parked, StateAt,
       exit, At, Goto
<1>5. LkInv'
  BY DEF TypeOK, OnCpu, OffCpu, LocksInv, LkInv, Interruptible, Unlocked, Parked, StateAt,
       HasLk, exit, At, Goto
<1>6. WaitLockInv'
  BY DEF TypeOK, OnCpu, LocksInv, WaitLockInv, exit, At, Goto
<1>7. IntrInv'
  BY DEF TypeOK, OnCpu, LocksInv, LkInv, IntrInv, Interruptible, exit, At, Goto, push_off
<1>8. WaitInv'
  BY DEF TypeOK, OnCpu, OffCpu, LocksInv, LkInv, WaitInv, Interruptible, Unlocked, Parked,
       StateAt, HasLk, exit, At, Goto
<1> QED
  BY Zenon, <1>1, <1>2, <1>3, <1>4, <1>5, <1>6, <1>7, <1>8

(* exit() that makes the process a ZOMBIE under p->lock keeps the          *)
(* invariant.                                                              *)
LEMMA Step_exit_zombie ==
  ASSUME SchedInv, NEW c \in CPUs, exit_zombie(c)
  PROVE  SchedInv'
<1> USE Ranges, SwitchPlaces DEF SchedInv
<1>1. TypeOK'
  BY DEF TypeOK, States, Interruptible, exit_zombie, At, Goto, acquire, push_off
<1>2. OnCpu'
  BY DEF TypeOK, OnCpu, OffCpu, LocksInv, Interruptible, Unlocked, Parked, StateAt,
       exit_zombie, At, Goto, acquire
<1>3. OffCpu'
  BY DEF TypeOK, OnCpu, OffCpu, LocksInv, Interruptible, Unlocked, Parked, StateAt,
       exit_zombie, At, Goto, acquire
<1>4. LocksInv'
  BY DEF TypeOK, OnCpu, OffCpu, LocksInv, LkInv, Interruptible, Unlocked, Parked, StateAt,
       exit_zombie, At, Goto, acquire
<1>5. LkInv'
  BY DEF TypeOK, OnCpu, OffCpu, LocksInv, LkInv, Interruptible, Unlocked, Parked, StateAt,
       HasLk, exit_zombie, At, Goto, acquire
<1>6. WaitLockInv'
  BY DEF TypeOK, OnCpu, LocksInv, WaitLockInv, exit_zombie, At, Goto, acquire
<1>7. IntrInv'
  BY DEF TypeOK, OnCpu, LocksInv, LkInv, IntrInv, Interruptible, exit_zombie, At, Goto,
       acquire, push_off
<1>8. WaitInv'
  BY DEF TypeOK, OnCpu, OffCpu, LocksInv, LkInv, WaitInv, Interruptible, Unlocked, Parked,
       StateAt, HasLk, exit_zombie, At, Goto, acquire
<1> QED
  BY Zenon, <1>1, <1>2, <1>3, <1>4, <1>5, <1>6, <1>7, <1>8

(* exit() that releases wait_lock, with p->lock still held, keeps the      *)
(* invariant: interrupts stay off.                                         *)
LEMMA Step_exit_release ==
  ASSUME SchedInv, NEW c \in CPUs, exit_release(c)
  PROVE  SchedInv'
<1> USE Ranges, SwitchPlaces DEF SchedInv
<1>1. TypeOK'
  BY DEF TypeOK, States, Interruptible, exit_release, At, Goto, pop_off
<1>2. OnCpu'
  BY DEF TypeOK, OnCpu, OffCpu, LocksInv, Interruptible, Unlocked, Parked, StateAt,
       exit_release, At, Goto
<1>3. OffCpu'
  BY DEF TypeOK, OnCpu, OffCpu, LocksInv, Interruptible, Unlocked, Parked, StateAt,
       exit_release, At, Goto
<1>4. LocksInv'
  BY DEF TypeOK, OnCpu, OffCpu, LocksInv, LkInv, Interruptible, Unlocked, Parked, StateAt,
       exit_release, At, Goto
<1>5. LkInv'
  BY DEF TypeOK, OnCpu, OffCpu, LocksInv, LkInv, Interruptible, Unlocked, Parked, StateAt,
       HasLk, exit_release, At, Goto
<1>6. WaitLockInv'
  BY DEF TypeOK, OnCpu, LocksInv, WaitLockInv, exit_release, At, Goto
<1>7. IntrInv'
  <2>1. PICK p \in Procs : At(c, p, "exit_locked") /\ exec' = exec /\ visit' = visit /\ cproc' = cproc
                           /\ \A q \in Procs \ {p} : pc'[q] = pc[q]
    BY Zenon DEF exit_release, Goto, TypeOK
  <2>2. plock[p] = c /\ (lk = c \/ wait_lock = c)
    BY <2>1 DEF OnCpu, Unlocked, Interruptible, WaitLockInv, HasLk, At
  <2>3. noff(c) # 1
    BY Zenon, <2>2, TwoLocks
  <2>4. ~intr[c]
    BY Zenon, <2>1 DEF At, IntrInv, Interruptible
  <2>5. ~intr'[c] /\ \A d \in CPUs \ {c} : intr'[d] = intr[d]
    BY Zenon, <2>3, <2>4 DEF exit_release, pop_off, TypeOK
  <2>6. \A d \in CPUs \ {c} : exec[d] # p
    BY Zenon, <2>1, ExecUnique DEF At
  <2>7. \A d \in CPUs \ {c} : exec[d] # Nobody => pc'[exec[d]] = pc[exec[d]]
    BY Zenon, <2>1, <2>6 DEF TypeOK
  <2> QED
    BY Zenon, <2>1, <2>5, <2>7 DEF IntrInv
<1>8. WaitInv'
  BY DEF TypeOK, OnCpu, OffCpu, LocksInv, LkInv, WaitInv, Interruptible, Unlocked, Parked,
       StateAt, HasLk, exit_release, At, Goto
<1> QED
  BY Zenon, <1>1, <1>2, <1>3, <1>4, <1>5, <1>6, <1>7, <1>8

(* A system call that takes the condition's lock keeps the invariant. *)
LEMMA Step_acquire_lk ==
  ASSUME SchedInv, NEW c \in CPUs, acquire_lk(c)
  PROVE  SchedInv'
<1> USE Ranges, SwitchPlaces DEF SchedInv
<1>1. TypeOK'
  BY DEF TypeOK, States, Interruptible, acquire_lk, At, Goto, push_off
<1>2. OnCpu'
  BY DEF TypeOK, OnCpu, OffCpu, LocksInv, Interruptible, Unlocked, Parked, StateAt,
       acquire_lk, At, Goto
<1>3. OffCpu'
  BY DEF TypeOK, OnCpu, OffCpu, LocksInv, Interruptible, Unlocked, Parked, StateAt,
       acquire_lk, At, Goto
<1>4. LocksInv'
  BY DEF TypeOK, OnCpu, OffCpu, LocksInv, LkInv, Interruptible, Unlocked, Parked, StateAt,
       acquire_lk, At, Goto
<1>5. LkInv'
  BY DEF TypeOK, OnCpu, OffCpu, LocksInv, LkInv, Interruptible, Unlocked, Parked, StateAt,
       HasLk, acquire_lk, At, Goto
<1>6. WaitLockInv'
  BY DEF TypeOK, OnCpu, LocksInv, WaitLockInv, acquire_lk, At, Goto
<1>7. IntrInv'
  BY DEF TypeOK, OnCpu, LocksInv, LkInv, IntrInv, Interruptible, acquire_lk, At, Goto,
       push_off
<1>8. WaitInv'
  BY DEF TypeOK, OnCpu, OffCpu, LocksInv, LkInv, WaitInv, Interruptible, Unlocked, Parked,
       StateAt, HasLk, acquire_lk, At, Goto
<1> QED
  BY Zenon, <1>1, <1>2, <1>3, <1>4, <1>5, <1>6, <1>7, <1>8

(* A test that finds the condition true and returns to the user keeps the  *)
(* invariant.                                                              *)
LEMMA Step_test_true ==
  ASSUME SchedInv, NEW c \in CPUs, test_true(c)
  PROVE  SchedInv'
<1> USE Ranges, SwitchPlaces DEF SchedInv
<1>1. TypeOK'
  BY DEF TypeOK, States, Interruptible, test_true, At, Goto, release_lk, pop_off
<1>2. OnCpu'
  BY DEF TypeOK, OnCpu, OffCpu, LocksInv, Interruptible, Unlocked, Parked, StateAt,
       test_true, At, Goto, release_lk
<1>3. OffCpu'
  BY DEF TypeOK, OnCpu, OffCpu, LocksInv, Interruptible, Unlocked, Parked, StateAt,
       test_true, At, Goto, release_lk
<1>4. LocksInv'
  BY DEF TypeOK, OnCpu, OffCpu, LocksInv, LkInv, Interruptible, Unlocked, Parked, StateAt,
       test_true, At, Goto, release_lk
<1>5. LkInv'
  BY DEF TypeOK, OnCpu, OffCpu, LocksInv, LkInv, Interruptible, Unlocked, Parked, StateAt,
       HasLk, test_true, At, Goto, release_lk
<1>6. WaitLockInv'
  BY DEF TypeOK, OnCpu, LocksInv, WaitLockInv, test_true, At, Goto, release_lk
<1>7. IntrInv'
  BY DEF TypeOK, OnCpu, LocksInv, LkInv, IntrInv, Interruptible, test_true, At, Goto,
       release_lk, pop_off
<1>8. WaitInv'
  BY DEF TypeOK, OnCpu, OffCpu, LocksInv, LkInv, WaitInv, Interruptible, Unlocked, Parked,
       StateAt, HasLk, test_true, At, Goto, release_lk
<1> QED
  BY Zenon, <1>1, <1>2, <1>3, <1>4, <1>5, <1>6, <1>7, <1>8

(* A test that fails and goes on to sleep() keeps the invariant. *)
LEMMA Step_test_false ==
  ASSUME SchedInv, NEW c \in CPUs, test_false(c)
  PROVE  SchedInv'
<1> USE Ranges, SwitchPlaces DEF SchedInv
<1>1. TypeOK'
  BY DEF TypeOK, States, Interruptible, test_false, At, Goto, ints
<1>2. OnCpu'
  BY DEF TypeOK, OnCpu, OffCpu, LocksInv, Interruptible, Unlocked, Parked, StateAt,
       test_false, At, Goto, ints
<1>3. OffCpu'
  BY DEF TypeOK, OnCpu, OffCpu, LocksInv, Interruptible, Unlocked, Parked, StateAt,
       test_false, At, Goto, ints
<1>4. LocksInv'
  BY DEF TypeOK, OnCpu, OffCpu, LocksInv, LkInv, Interruptible, Unlocked, Parked, StateAt,
       test_false, At, Goto, ints
<1>5. LkInv'
  BY DEF TypeOK, OnCpu, OffCpu, LocksInv, LkInv, Interruptible, Unlocked, Parked, StateAt,
       HasLk, test_false, At, Goto, ints
<1>6. WaitLockInv'
  BY DEF TypeOK, OnCpu, LocksInv, WaitLockInv, test_false, At, Goto, ints
<1>7. IntrInv'
  BY DEF TypeOK, OnCpu, LocksInv, LkInv, IntrInv, Interruptible, test_false, At, Goto, ints
<1>8. WaitInv'
  BY DEF TypeOK, OnCpu, OffCpu, LocksInv, LkInv, WaitInv, Interruptible, Unlocked, Parked,
       StateAt, HasLk, test_false, At, Goto, ints
<1> QED
  BY Zenon, <1>1, <1>2, <1>3, <1>4, <1>5, <1>6, <1>7, <1>8

(* A test that fails for a process that has been killed, which releases    *)
(* the lock, keeps the invariant.                                          *)
LEMMA Step_test_killed ==
  ASSUME SchedInv, NEW c \in CPUs, test_killed(c)
  PROVE  SchedInv'
<1> USE Ranges, SwitchPlaces DEF SchedInv
<1>1. TypeOK'
  BY DEF TypeOK, States, Interruptible, test_killed, At, Goto, release_lk, pop_off
<1>2. OnCpu'
  BY DEF TypeOK, OnCpu, OffCpu, LocksInv, Interruptible, Unlocked, Parked, StateAt,
       test_killed, At, Goto, release_lk
<1>3. OffCpu'
  BY DEF TypeOK, OnCpu, OffCpu, LocksInv, Interruptible, Unlocked, Parked, StateAt,
       test_killed, At, Goto, release_lk
<1>4. LocksInv'
  BY DEF TypeOK, OnCpu, OffCpu, LocksInv, LkInv, Interruptible, Unlocked, Parked, StateAt,
       test_killed, At, Goto, release_lk
<1>5. LkInv'
  BY DEF TypeOK, OnCpu, OffCpu, LocksInv, LkInv, Interruptible, Unlocked, Parked, StateAt,
       HasLk, test_killed, At, Goto, release_lk
<1>6. WaitLockInv'
  BY DEF TypeOK, OnCpu, LocksInv, WaitLockInv, test_killed, At, Goto, release_lk
<1>7. IntrInv'
  BY DEF TypeOK, OnCpu, LocksInv, LkInv, IntrInv, Interruptible, test_killed, At, Goto,
       release_lk, pop_off
<1>8. WaitInv'
  BY DEF TypeOK, OnCpu, OffCpu, LocksInv, LkInv, WaitInv, Interruptible, Unlocked, Parked,
       StateAt, HasLk, test_killed, At, Goto, release_lk
<1> QED
  BY Zenon, <1>1, <1>2, <1>3, <1>4, <1>5, <1>6, <1>7, <1>8

(* sleep() that takes p->lock while it still has lk keeps the invariant. *)
LEMMA Step_sleep ==
  ASSUME SchedInv, NEW c \in CPUs, sleep(c)
  PROVE  SchedInv'
<1> USE Ranges, SwitchPlaces DEF SchedInv
<1>1. TypeOK'
  BY DEF TypeOK, States, Interruptible, sleep, At, Goto, acquire, push_off
<1>2. OnCpu'
  BY DEF TypeOK, OnCpu, OffCpu, LocksInv, Interruptible, Unlocked, Parked, StateAt, sleep,
       At, Goto, acquire
<1>3. OffCpu'
  BY DEF TypeOK, OnCpu, OffCpu, LocksInv, Interruptible, Unlocked, Parked, StateAt, sleep,
       At, Goto, acquire
<1>4. LocksInv'
  BY DEF TypeOK, OnCpu, OffCpu, LocksInv, LkInv, Interruptible, Unlocked, Parked, StateAt,
       sleep, At, Goto, acquire
<1>5. LkInv'
  BY DEF TypeOK, OnCpu, OffCpu, LocksInv, LkInv, Interruptible, Unlocked, Parked, StateAt,
       HasLk, sleep, At, Goto, acquire
<1>6. WaitLockInv'
  BY DEF TypeOK, OnCpu, LocksInv, WaitLockInv, sleep, At, Goto, acquire
<1>7. IntrInv'
  BY DEF TypeOK, OnCpu, LocksInv, LkInv, IntrInv, Interruptible, sleep, At, Goto, acquire,
       push_off
<1>8. WaitInv'
  BY DEF TypeOK, OnCpu, OffCpu, LocksInv, LkInv, WaitInv, Interruptible, Unlocked, Parked,
       StateAt, HasLk, sleep, At, Goto, acquire
<1> QED
  BY Zenon, <1>1, <1>2, <1>3, <1>4, <1>5, <1>6, <1>7, <1>8

(* sleep() that has p->lock and releases lk keeps the invariant: from here *)
(* a wakeup() needs p->lock, and interrupts stay off.                      *)
LEMMA Step_sleep_locked ==
  ASSUME SchedInv, NEW c \in CPUs, sleep_locked(c)
  PROVE  SchedInv'
<1> USE Ranges, SwitchPlaces DEF SchedInv
<1>1. TypeOK'
  BY DEF TypeOK, States, Interruptible, sleep_locked, At, Goto, release_lk, pop_off
<1>2. OnCpu'
  BY DEF TypeOK, OnCpu, OffCpu, LocksInv, Interruptible, Unlocked, Parked, StateAt,
       sleep_locked, At, Goto, release_lk
<1>3. OffCpu'
  BY DEF TypeOK, OnCpu, OffCpu, LocksInv, Interruptible, Unlocked, Parked, StateAt,
       sleep_locked, At, Goto, release_lk
<1>4. LocksInv'
  BY DEF TypeOK, OnCpu, OffCpu, LocksInv, LkInv, Interruptible, Unlocked, Parked, StateAt,
       sleep_locked, At, Goto, release_lk
<1>5. LkInv'
  BY DEF TypeOK, OnCpu, OffCpu, LocksInv, LkInv, Interruptible, Unlocked, Parked, StateAt,
       HasLk, sleep_locked, At, Goto, release_lk
<1>6. WaitLockInv'
  BY DEF TypeOK, OnCpu, LocksInv, WaitLockInv, sleep_locked, At, Goto, release_lk
<1>7. IntrInv'
  <2>1. PICK p \in Procs : At(c, p, "sleep_locked") /\ exec' = exec /\ visit' = visit /\ cproc' = cproc
                           /\ \A q \in Procs \ {p} : pc'[q] = pc[q]
    BY Zenon DEF sleep_locked, Goto, TypeOK
  <2>2. plock[p] = c /\ (lk = c \/ wait_lock = c)
    BY SMTT(40), <2>1 DEF OnCpu, Unlocked, Interruptible, LkInv, HasLk, At
  <2>3. noff(c) # 1
    BY Zenon, <2>2, TwoLocks
  <2>4. ~intr[c]
    BY Zenon, <2>1 DEF At, IntrInv, Interruptible
  <2>5. ~intr'[c] /\ \A d \in CPUs \ {c} : intr'[d] = intr[d]
    BY Zenon, <2>3, <2>4 DEF sleep_locked, release_lk, pop_off, TypeOK
  <2>6. \A d \in CPUs \ {c} : exec[d] # p
    BY Zenon, <2>1, ExecUnique DEF At
  <2>7. \A d \in CPUs \ {c} : exec[d] # Nobody => pc'[exec[d]] = pc[exec[d]]
    BY Zenon, <2>1, <2>6 DEF TypeOK
  <2> QED
    BY Zenon, <2>1, <2>5, <2>7 DEF IntrInv
<1>8. WaitInv'
  BY DEF TypeOK, OnCpu, OffCpu, LocksInv, LkInv, WaitInv, Interruptible, Unlocked, Parked,
       StateAt, HasLk, sleep_locked, At, Goto, release_lk
<1> QED
  BY Zenon, <1>1, <1>2, <1>3, <1>4, <1>5, <1>6, <1>7, <1>8

(* sleep() that sets p->chan and p->state keeps the invariant. *)
LEMMA Step_sleep_chan ==
  ASSUME SchedInv, NEW c \in CPUs, sleep_chan(c)
  PROVE  SchedInv'
<1> USE Ranges, SwitchPlaces DEF SchedInv
<1>1. TypeOK'
  BY DEF TypeOK, States, Interruptible, sleep_chan, At, Goto, ints
<1>2. OnCpu'
  BY DEF TypeOK, OnCpu, OffCpu, LocksInv, Interruptible, Unlocked, Parked, StateAt,
       sleep_chan, At, Goto, ints
<1>3. OffCpu'
  BY DEF TypeOK, OnCpu, OffCpu, LocksInv, Interruptible, Unlocked, Parked, StateAt,
       sleep_chan, At, Goto, ints
<1>4. LocksInv'
  BY DEF TypeOK, OnCpu, OffCpu, LocksInv, LkInv, Interruptible, Unlocked, Parked, StateAt,
       sleep_chan, At, Goto, ints
<1>5. LkInv'
  BY DEF TypeOK, OnCpu, OffCpu, LocksInv, LkInv, Interruptible, Unlocked, Parked, StateAt,
       HasLk, sleep_chan, At, Goto, ints
<1>6. WaitLockInv'
  BY DEF TypeOK, OnCpu, LocksInv, WaitLockInv, sleep_chan, At, Goto, ints
<1>7. IntrInv'
  BY DEF TypeOK, OnCpu, LocksInv, LkInv, IntrInv, Interruptible, sleep_chan, At, Goto, ints
<1>8. WaitInv'
  BY DEF TypeOK, OnCpu, OffCpu, LocksInv, LkInv, WaitInv, Interruptible, Unlocked, Parked,
       StateAt, HasLk, sleep_chan, At, Goto, ints
<1> QED
  BY Zenon, <1>1, <1>2, <1>3, <1>4, <1>5, <1>6, <1>7, <1>8

(* sleep() that has been woken, clears p->chan and releases p->lock keeps  *)
(* the invariant.                                                          *)
LEMMA Step_sleep_tidy ==
  ASSUME SchedInv, NEW c \in CPUs, sleep_tidy(c)
  PROVE  SchedInv'
<1> USE Ranges, SwitchPlaces DEF SchedInv
<1>1. TypeOK'
  BY DEF TypeOK, States, Interruptible, sleep_tidy, At, Goto, release, pop_off
<1>2. OnCpu'
  BY DEF TypeOK, OnCpu, OffCpu, LocksInv, Interruptible, Unlocked, Parked, StateAt,
       sleep_tidy, At, Goto, release
<1>3. OffCpu'
  BY DEF TypeOK, OnCpu, OffCpu, LocksInv, Interruptible, Unlocked, Parked, StateAt,
       sleep_tidy, At, Goto, release
<1>4. LocksInv'
  BY DEF TypeOK, OnCpu, OffCpu, LocksInv, LkInv, Interruptible, Unlocked, Parked, StateAt,
       sleep_tidy, At, Goto, release
<1>5. LkInv'
  BY DEF TypeOK, OnCpu, OffCpu, LocksInv, LkInv, Interruptible, Unlocked, Parked, StateAt,
       HasLk, sleep_tidy, At, Goto, release
<1>6. WaitLockInv'
  BY DEF TypeOK, OnCpu, LocksInv, WaitLockInv, sleep_tidy, At, Goto, release
<1>7. IntrInv'
  BY DEF TypeOK, OnCpu, LocksInv, LkInv, IntrInv, Interruptible, sleep_tidy, At, Goto,
       release, pop_off
<1>8. WaitInv'
  BY DEF TypeOK, OnCpu, OffCpu, LocksInv, LkInv, WaitInv, Interruptible, Unlocked, Parked,
       StateAt, HasLk, sleep_tidy, At, Goto, release
<1> QED
  BY Zenon, <1>1, <1>2, <1>3, <1>4, <1>5, <1>6, <1>7, <1>8

(* A step that makes the condition true and starts wakeup() keeps the      *)
(* invariant: every sleeper is still ahead of the scan.                    *)
LEMMA Step_produce ==
  ASSUME SchedInv, NEW c \in CPUs, produce(c)
  PROVE  SchedInv'
<1> USE Ranges, SwitchPlaces DEF SchedInv
<1>1. TypeOK'
  BY DEF TypeOK, States, Interruptible, produce
<1>2. OnCpu'
  BY DEF TypeOK, OnCpu, OffCpu, LocksInv, IntrInv, Interruptible, Unlocked, Parked, StateAt,
       produce
<1>3. OffCpu'
  BY DEF TypeOK, OnCpu, OffCpu, LocksInv, IntrInv, Interruptible, Unlocked, Parked, StateAt,
       produce
<1>4. LocksInv'
  BY DEF TypeOK, OnCpu, OffCpu, LocksInv, LkInv, IntrInv, Interruptible, Unlocked, Parked,
       StateAt, produce
<1>5. LkInv'
  BY DEF TypeOK, OnCpu, OffCpu, LocksInv, LkInv, IntrInv, Interruptible, Unlocked, Parked,
       StateAt, HasLk, produce
<1>6. WaitLockInv'
  BY DEF TypeOK, OnCpu, LocksInv, WaitLockInv, IntrInv, Interruptible, produce
<1>7. IntrInv'
  <2>1. ~intr'[c] /\ \A d \in CPUs \ {c} : intr'[d] = intr[d] /\ visit'[d] = visit[d]
    BY Zenon DEF TypeOK, produce
  <2>2. \A d \in CPUs \ {c} : exec[d] # Nobody => exec[d] # exec[c]
    BY Zenon, ExecUnique
  <2>3. \A d \in CPUs \ {c} : exec[d] # Nobody => pc'[exec[d]] = pc[exec[d]]
    BY Zenon, <2>2 DEF TypeOK, produce
  <2>4. exec' = exec /\ cproc' = cproc
    BY Zenon DEF produce
  <2> QED
    BY Zenon, <2>1, <2>3, <2>4 DEF IntrInv
<1>8. WaitInv'
  <2>1. \A p \in Procs : pc[p] \notin {"sleep", "sleep_locked"}
    BY SMTT(40) DEF TypeOK, OffCpu, LkInv, Parked, HasLk, produce
  <2>2. visit'[c] = 1 /\ lk' = c /\ UNCHANGED <<state, chan>>
    BY Zenon DEF TypeOK, produce
  <2>3. \A p \in Procs : pc'[p] = pc[p] \/ pc'[p] = "devintr"
    BY Zenon DEF produce
  <2> QED
    BY Zenon, <2>1, <2>2, <2>3 DEF TypeOK, WaitInv
<1> QED
  BY Zenon, <1>1, <1>2, <1>3, <1>4, <1>5, <1>6, <1>7, <1>8

(* wakeup() that has looked at one more slot of proc[] keeps the           *)
(* invariant: the slot it leaves behind holds no sleeper, because a        *)
(* process about to set its state has p->lock, and the CPU that scans      *)
(* skips only its own process, which does not sleep.                       *)
LEMMA Step_wakeup ==
  ASSUME SchedInv, NEW c \in CPUs, wakeup(c)
  PROVE  SchedInv'
<1> USE Ranges, SwitchPlaces DEF SchedInv
<1>1. TypeOK'
  <2>1. /\ state' \in [Procs -> States] /\ lk' \in CPUs \cup {Nobody}
        /\ UNCHANGED <<chan, killed, plock, items, wait_lock, intena, saved, back>>
        /\ UNCHANGED <<exec, cproc, scan, pc>>
    BY ZenonT(40) DEF TypeOK, States, wakeup, EndWakeup
  <2>2. intr' \in [CPUs -> BOOLEAN]
    BY ZenonT(40) DEF TypeOK, wakeup, EndWakeup
  <2>3. visit' \in [CPUs -> Procs \cup {Nobody}]
    <3>1. visit[c] \in Procs /\ (visit[c] # NPROC => visit[c] + 1 \in Procs)
      BY ZenonT(40) DEF TypeOK, wakeup, EndWakeup
    <3>2. CASE visit[c] = NPROC
      BY Zenon, <3>2 DEF TypeOK, wakeup, EndWakeup
    <3>3. CASE visit[c] # NPROC
      BY Zenon, <3>1, <3>3 DEF TypeOK, wakeup, EndWakeup
    <3> QED
      BY Zenon, <3>2, <3>3
  <2> QED
    BY Zenon, <2>1, <2>2, <2>3 DEF TypeOK
<1>2. OnCpu'
  BY DEF TypeOK, OnCpu, OffCpu, LocksInv, StateAt, Interruptible, Unlocked, Parked, wakeup,
       EndWakeup
<1>3. OffCpu'
  BY DEF TypeOK, OnCpu, OffCpu, LocksInv, StateAt, Interruptible, Unlocked, Parked, wakeup,
       EndWakeup
<1>4. LocksInv'
  BY DEF TypeOK, OnCpu, OffCpu, LocksInv, LkInv, StateAt, Interruptible, Unlocked, Parked, wakeup,
       EndWakeup
<1>5. LkInv'
  <2>1. lk = c /\ \A d \in CPUs : visit[d] # Nobody => d = c
    BY Zenon DEF TypeOK, LkInv, wakeup
  <2>2. UNCHANGED <<exec, pc>> /\ \A d \in CPUs \ {c} : visit'[d] = visit[d]
    BY Zenon DEF TypeOK, wakeup, EndWakeup
  <2>3. CASE visit[c] = NPROC
    <3>1. lk' = Nobody /\ visit'[c] = Nobody
      BY Zenon, <2>3 DEF TypeOK, wakeup, EndWakeup
    <3>2. \A d \in CPUs : exec[d] # Nobody => pc[exec[d]] \notin HasLk
      BY Zenon, <2>1 DEF LkInv, wakeup, HasLk, Interruptible
    <3> QED
      BY Zenon, <2>1, <2>2, <3>1, <3>2 DEF LkInv
  <2>4. CASE visit[c] # NPROC
    <3>1. visit[c] \in Procs /\ visit[c] + 1 \in Procs
      BY ZenonT(40), <2>4 DEF TypeOK, wakeup, EndWakeup
    <3>2. lk' = lk /\ visit'[c] = visit[c] + 1
      BY Zenon, <2>4 DEF TypeOK, wakeup, EndWakeup
    <3> QED
      BY ZenonT(40), <2>1, <2>2, <3>1, <3>2 DEF LkInv, wakeup
  <2> QED
    BY Zenon, <2>3, <2>4
<1>6. WaitLockInv'
  BY Zenon DEF WaitLockInv, wakeup
<1>7. IntrInv'
  <2>1. UNCHANGED <<exec, cproc, pc>> /\ visit[c] # Nobody
    BY Zenon DEF wakeup
  <2>2. \A d \in CPUs \ {c} : intr'[d] = intr[d] /\ visit'[d] = visit[d]
    BY Zenon DEF TypeOK, wakeup, EndWakeup
  <2>3. exec[c] # Nobody => pc[exec[c]] \in (Interruptible \ {"user"}) \cup {"devintr"}
    BY Zenon, <2>1 DEF LkInv
  <2>4. exec[c] = Nobody => cproc[c] = Nobody
    BY Zenon, <2>1 DEF LocksInv
  <2>5. ~intr[c]
    BY Zenon, <2>1 DEF IntrInv
  <2>6. intr'[c] => visit'[c] = Nobody /\ \A p \in Procs : exec[c] = p => pc[p] # "devintr"
    BY ZenonT(40), <2>5 DEF TypeOK, wakeup, EndWakeup
  <2>7. exec[c] # Nobody => exec[c] \in Procs
    BY Zenon DEF TypeOK
  <2> QED
    BY Zenon, <2>1, <2>2, <2>3, <2>4, <2>6, <2>7 DEF IntrInv
<1>8. WaitInv'
  <2>1. UNCHANGED <<pc, chan, items>> /\ visit[c] \in Procs /\ lk = c
    BY Zenon DEF TypeOK, LkInv, wakeup
  <2>2. \A p \in Procs : state'[p] = "SLEEPING" => state[p] = "SLEEPING" /\ p # visit[c]
    BY <1>2, <2>1 DEF TypeOK, OnCpu, OffCpu, LocksInv, LkInv, WaitInv, StateAt, wakeup,
         Interruptible
  <2>3. pc[visit[c]] # "sleep_chan"
    <3> SUFFICES ASSUME pc[visit[c]] = "sleep_chan" PROVE FALSE
      BY Zenon
    <3>1. PICK d \in CPUs : exec[d] = visit[c]
      BY ZenonT(40), <2>1 DEF OffCpu, Parked
    <3>2. \A p \in Procs : exec[d] = p /\ pc[p] = "sleep_chan" => cproc[d] = p /\ plock[p] = d
      BY DEF OnCpu, Unlocked, Interruptible
    <3>3. cproc[d] = visit[c] /\ cproc[c] = visit[c]
      BY ZenonT(40), <2>1, <3>1, <3>2 DEF wakeup
    <3>4. c = d
      BY <2>1, <3>3 DEF LocksInv
    <3> QED
      BY Zenon, <2>1, <3>1, <3>4 DEF LkInv, Interruptible
  <2>4. ASSUME NEW p \in Procs, pc[p] = "sleep_chan" \/ state'[p] = "SLEEPING", items > 0
        PROVE  lk' = c /\ visit'[c] # Nobody /\ visit'[c] <= p
    <3>1. visit[c] <= p /\ p # visit[c]
      BY Zenon, <2>1, <2>2, <2>3, <2>4 DEF WaitInv
    <3>2. visit[c] # NPROC /\ visit[c] + 1 <= p
      <4> DEFINE v == visit[c]
      <4>1. v \in Nat /\ p \in Nat /\ NPROC \in Nat /\ v <= p /\ v # p /\ p <= NPROC
        BY ZenonT(40), <2>1, <3>1
      <4> HIDE DEF v
      <4>2. v # NPROC /\ v + 1 <= p
        BY <4>1
      <4> QED
        BY Zenon, <4>2 DEF v
    <3>3. visit'[c] = visit[c] + 1 /\ lk' = c
      BY Zenon, <2>1, <3>2 DEF TypeOK, wakeup, EndWakeup
    <3> QED
      BY ZenonT(40), <2>1, <3>2, <3>3
  <2> QED
    BY Zenon, <2>1, <2>2, <2>4 DEF WaitInv
<1> QED
  BY Zenon, <1>1, <1>2, <1>3, <1>4, <1>5, <1>6, <1>7, <1>8

(* kill(), which makes a sleeper RUNNABLE under p->lock only, keeps the    *)
(* invariant.                                                              *)
LEMMA Step_kill ==
  ASSUME SchedInv, NEW c \in CPUs, NEW p \in Procs, kill(c, p)
  PROVE  SchedInv'
<1> USE Ranges, SwitchPlaces DEF SchedInv
<1>1. TypeOK'
  BY Zenon DEF TypeOK, States, Interruptible, kill, At, ints
<1>2. OnCpu'
  BY DEF TypeOK, OnCpu, OffCpu, LocksInv, Interruptible, Unlocked, Parked, StateAt, kill,
       At, ints
<1>3. OffCpu'
  BY DEF TypeOK, OnCpu, OffCpu, LocksInv, Interruptible, Unlocked, Parked, StateAt, kill,
       At, ints
<1>4. LocksInv'
  BY DEF TypeOK, OnCpu, OffCpu, LocksInv, LkInv, Interruptible, Unlocked, Parked, StateAt,
       kill, At, ints
<1>5. LkInv'
  BY DEF TypeOK, OnCpu, OffCpu, LocksInv, LkInv, Interruptible, Unlocked, Parked, StateAt,
       HasLk, kill, At, ints
<1>6. WaitLockInv'
  BY Zenon DEF TypeOK, OnCpu, LocksInv, WaitLockInv, kill, At, ints
<1>7. IntrInv'
  BY Zenon DEF TypeOK, OnCpu, LocksInv, LkInv, IntrInv, Interruptible, kill, At, ints
<1>8. WaitInv'
  BY DEF TypeOK, OnCpu, OffCpu, LocksInv, LkInv, WaitInv, Interruptible, Unlocked, Parked,
       StateAt, HasLk, kill, At, ints
<1> QED
  BY Zenon, <1>1, <1>2, <1>3, <1>4, <1>5, <1>6, <1>7, <1>8

(* The invariant holds after userinit() and before the first switch. *)
LEMMA InitInv == Init => SchedInv
  BY SMTT(40), Ranges, SwitchPlaces DEF Init, SchedInv, TypeOK, States, OnCpu, OffCpu, LocksInv, LkInv,
       WaitLockInv, IntrInv, WaitInv, Parked, Interruptible

(* Every step of a CPU keeps the invariant. *)
LEMMA StepInv == SchedInv /\ [Next]_vars => SchedInv'
<1> SUFFICES ASSUME SchedInv, [Next]_vars PROVE SchedInv'
  BY Zenon
<1>1. ASSUME NEW c \in CPUs, KernelStep(c) PROVE SchedInv'
  BY Zenon, <1>1, Step_scheduler_run, Step_scheduler_skip, Step_scheduler_back, Step_sched,
     Step_forkret, Step_yield, Step_yield_tidy, Step_usertrapret, Step_exit, Step_exit_zombie,
     Step_exit_release, Step_acquire_lk, Step_test_true, Step_test_false, Step_test_killed,
     Step_sleep, Step_sleep_locked, Step_sleep_chan, Step_sleep_tidy, Step_wakeup
     DEF KernelStep
<1>2. ASSUME NEW c \in CPUs,
             usertrap(c) \/ timer(c) \/ produce(c) \/ \E p \in Procs : kill(c, p)
      PROVE  SchedInv'
  BY Zenon, <1>2, Step_usertrap, Step_timer, Step_produce, Step_kill
<1>3. CASE UNCHANGED vars
  BY SMTT(40), <1>3 DEF vars, ints, SchedInv, TypeOK, OnCpu, OffCpu, LocksInv, LkInv,
       WaitLockInv, IntrInv, WaitInv
<1> QED
  BY Zenon, <1>1, <1>2, <1>3 DEF Next

(* SchedInv holds in every reachable state of Sched. *)
THEOREM SchedInvariance == Spec => []SchedInv
  BY InitInv, StepInv, PTL DEF Spec

(* The invariant excludes a process on two CPUs: c->proc names it, and no  *)
(* two CPUs have the same c->proc.                                         *)
LEMMA OneCpu == SchedInv => OneCpuPerProcess
  BY SMTT(40), Ranges, SwitchPlaces DEF SchedInv, TypeOK, OnCpu, LocksInv, OneCpuPerProcess, StateAt,
       Unlocked, Interruptible

(* The invariant implies the checks of sched(): p->lock is held, no other  *)
(* lock is, the process is not RUNNING and interrupts are off.             *)
LEMMA Checks ==
  ASSUME SchedInv, NEW c \in CPUs, NEW p \in Procs, NEW l \in DOMAIN SchedFrom, At(c, p, l)
  PROVE  SchedChecks(p, c)
<1>1. plock[p] = c /\ cproc[c] = p /\ state[p] # "RUNNING"
  BY SwitchPlaces DEF SchedInv, OnCpu, At, StateAt, Unlocked, Interruptible
<1>2. {q \in Procs : plock[q] = c} = {p}
  <2>1. \A q \in Procs : plock[q] = c => q = p
    BY SMTT(40), <1>1, Ranges DEF SchedInv, LocksInv
  <2> QED
    BY Zenon, <1>1, <2>1
<1>3. lk # c
  BY Zenon, Ranges, SwitchPlaces DEF SchedInv, LkInv, At, HasLk
<1>4. wait_lock # c
  BY Zenon, Ranges, SwitchPlaces DEF SchedInv, WaitLockInv, At
<1>5. ~intr[c]
  BY Zenon, Ranges, SwitchPlaces DEF SchedInv, IntrInv, At, Interruptible
<1>6. Cardinality({q \in Procs : plock[q] = c}) = 1
  BY Zenon, <1>2, FS_Singleton
<1>7. noff(c) = 1
  BY <1>3, <1>4, <1>6 DEF noff
<1> QED
  BY Zenon, <1>1, <1>5, <1>7 DEF SchedChecks

(* A CPU with interrupts on holds no spinlock: at the places where         *)
(* interrupts can be on, and between two slots in scheduler(), it holds no *)
(* p->lock, no lk and no wait_lock.                                        *)
LEMMA NoLockWithInterrupts ==
  ASSUME SchedInv, NEW c \in CPUs, intr[c]
  PROVE  noff(c) = 0
<1>1. /\ visit[c] = Nobody /\ (exec[c] = Nobody => cproc[c] = Nobody)
      /\ exec[c] # Nobody => exec[c] \in Procs /\ pc[exec[c]] \in Interruptible
  BY Zenon DEF SchedInv, IntrInv, TypeOK
<1>2. \A p \in Procs : plock[p] # c
  <2> SUFFICES ASSUME NEW p \in Procs, plock[p] = c PROVE FALSE
    BY Zenon
  <2>1. cproc[c] = p
    BY Zenon, Ranges DEF SchedInv, LocksInv
  <2>2. exec[c] \in Procs /\ cproc[c] = exec[c] /\ pc[exec[c]] \in Interruptible
    BY Zenon, <1>1, <2>1, Ranges DEF SchedInv, OnCpu
  <2>3. plock[p] = Nobody
    BY <2>1, <2>2 DEF SchedInv, OnCpu, Unlocked
  <2> QED
    BY Zenon, <2>3, Ranges
<1>3. lk # c
  BY Zenon, <1>1, Ranges DEF SchedInv, LkInv, HasLk, Interruptible
<1>4. wait_lock # c
  BY Zenon, <1>1, Ranges DEF SchedInv, WaitLockInv, Interruptible
<1>5. {p \in Procs : plock[p] = c} = {}
  BY Zenon, <1>2
<1> QED
  BY <1>3, <1>4, <1>5, FS_EmptySet DEF noff

(* The invariant implies that a sleeper whose condition holds is ahead of  *)
(* a wakeup() in progress.                                                 *)
LEMMA Wakeups == SchedInv => NoLostWakeup
  BY Zenon DEF SchedInv, WaitInv, NoLostWakeup

(* No process ever runs on two CPUs: scheduler() picks none up before      *)
(* sched() on another CPU has saved its context, and no zombie runs again. *)
THEOREM StacksNotShared == Spec => []OneCpuPerProcess
  BY SchedInvariance, OneCpu, PTL

(* No call of sched() panics ("sched p->lock", "sched locks", "sched       *)
(* running", "sched interruptible"), and a CPU with a spinlock takes no    *)
(* interrupt.                                                              *)
THEOREM SchedChecksHold == Spec => []SchedNeverPanics
<1>1. SchedInv => SchedNeverPanics
  BY Zenon, Checks, NoLockWithInterrupts DEF SchedNeverPanics
<1> QED
  BY SchedInvariance, <1>1, PTL

(* sleep() and wakeup() lose no wakeup, for any number of processes and    *)
(* CPUs: nobody sleeps on a true condition unless a wakeup() is still      *)
(* going to reach it.                                                      *)
THEOREM WakeupsReach == Spec => []NoLostWakeup
  BY SchedInvariance, Wakeups, PTL

(* produce() makes the condition true before it calls wakeup(), and no one *)
(* else gets lk to make it false before the loop of wakeup() is over.      *)
LEMMA SignalStep == SchedInv /\ SignalInv /\ [Next]_vars => SignalInv'
<1> SUFFICES ASSUME SchedInv, SignalInv, [Next]_vars PROVE SignalInv'
  BY Zenon
<1> USE Ranges DEF SchedInv
<1>1. ASSUME NEW c \in CPUs, produce(c) PROVE SignalInv'
  BY <1>1 DEF SignalInv, produce, TypeOK
<1>2. ASSUME NEW c \in CPUs, wakeup(c) PROVE SignalInv'
  BY Zenon, <1>2 DEF SignalInv, wakeup, EndWakeup, TypeOK
<1>3. ASSUME NEW c \in CPUs, test_true(c) PROVE SignalInv'
  <2>1. \A d \in CPUs : visit[d] = Nobody
    BY Zenon, <1>3 DEF test_true, At, LkInv, HasLk, TypeOK
  <2>2. visit' = visit
    BY Zenon, <1>3 DEF test_true
  <2> QED
    BY Zenon, <2>1, <2>2 DEF SignalInv
<1>4. ASSUME UNCHANGED <<visit, items>> PROVE SignalInv'
  BY Zenon, <1>4 DEF SignalInv
<1>5. ASSUME NEW c \in CPUs, KernelStep(c), ~wakeup(c), ~test_true(c)
      PROVE  UNCHANGED <<visit, items>>
  BY Zenon, <1>5 DEF KernelStep, scheduler_run, scheduler_skip, scheduler_back, sched, forkret,
     yield, yield_tidy, usertrapret, exit, exit_zombie, exit_release, acquire_lk, test_false, test_killed, sleep, sleep_locked, sleep_chan, sleep_tidy
<1>6. ASSUME NEW c \in CPUs, usertrap(c) \/ timer(c) \/ \E p \in Procs : kill(c, p)
      PROVE  UNCHANGED <<visit, items>>
  BY Zenon, <1>6 DEF usertrap, timer, kill
<1> QED
  BY Zenon, <1>1, <1>2, <1>3, <1>4, <1>5, <1>6 DEF Next, vars

(* The sleep() of a process, seen from outside, is the step in which it    *)
(* takes p->lock: the condition is false and lk is still held.             *)
LEMMA SleepRefines ==
  ASSUME SchedInv, NEW c \in CPUs, sleep(c)
  PROVE  \E p \in Procs : Mon!Wait(p)
<1> USE Ranges DEF SchedInv
<1>1. PICK p \in Procs : /\ At(c, p, "sleep") /\ pc' = [pc EXCEPT ![p] = "sleep_locked"]
                         /\ UNCHANGED <<state, killed, items, visit>>
  BY Zenon DEF sleep, Goto
<1>2. items = 0 /\ \A d \in CPUs : visit[d] = Nobody
  BY Zenon, <1>1 DEF At, LkInv, HasLk, WaitInv, TypeOK
<1>3. Waiting' = Waiting \cup {p}
  BY Zenon, <1>1, <1>2 DEF Waiting, TypeOK, At
<1> QED
  BY Zenon, <1>1, <1>2, <1>3 DEF Mon!Wait

(* produce() wakes everybody at once, as far as the sleepers can tell.     *)
LEMMA ProduceRefines ==
  ASSUME SchedInv, NEW c \in CPUs, produce(c)
  PROVE  Mon!Produce
<1>1. visit'[c] # Nobody
  BY Zenon, Ranges DEF produce, SchedInv, TypeOK
<1>2. Waiting' = {}
  BY Zenon, <1>1 DEF Waiting
<1> QED
  BY Zenon, <1>2 DEF produce, Mon!Produce

(* The end of wakeup() finds no sleeper it could have missed.              *)
LEMMA WakeupRefines ==
  ASSUME SchedInv, SchedInv', SignalInv, NEW c \in CPUs, wakeup(c)
  PROVE  UNCHANGED Mon!vars
<1>1. UNCHANGED <<items, killed, pc>> /\ visit[c] # Nobody /\ items > 0
  BY Zenon DEF wakeup, SignalInv
<1>2. Waiting = {}
  BY Zenon, <1>1 DEF Waiting
<1>3. Waiting' = {}
  <2> SUFFICES ASSUME NEW p \in Procs, p \in Waiting' PROVE FALSE
    BY Zenon DEF Waiting
  <2>1. /\ pc[p] \in {"sleep_locked", "sleep_chan", "sleep_sched", "sleep_tidy"}
        /\ pc[p] \in {"sleep_sched", "sleep_tidy"} => state'[p] = "SLEEPING"
        /\ \A d \in CPUs : visit'[d] = Nobody
    BY Zenon, <1>1 DEF Waiting
  <2>2. pc[p] # "sleep_locked"
    BY <1>1, Ranges DEF SchedInv, WaitInv
  <2>3. (pc'[p] = "sleep_chan" \/ state'[p] = "SLEEPING") /\ items' > 0
    BY Zenon, <1>1, <2>1, <2>2
  <2> QED
    BY Zenon, <2>1, <2>3 DEF SchedInv, WaitInv
<1> QED
  BY Zenon, <1>1, <1>2, <1>3 DEF Mon!vars

(* kill() takes its victim out of sleep(), if it sleeps; a process on its  *)
(* way to sleep holds its own lock and kill() has to wait for it.          *)
LEMMA KillRefines ==
  ASSUME SchedInv, NEW c \in CPUs, NEW p \in Procs, kill(c, p)
  PROVE  Mon!Kill(p)
<1>1. /\ plock[p] = Nobody /\ UNCHANGED <<items, visit, pc>>
      /\ killed' = [killed EXCEPT ![p] = TRUE]
      /\ state' = IF state[p] = "SLEEPING" THEN [state EXCEPT ![p] = "RUNNABLE"] ELSE state
  BY Zenon DEF kill
<1>2. pc[p] \notin {"sleep_locked", "sleep_chan"}
  BY SMTT(40), <1>1, Ranges DEF SchedInv, OnCpu, OffCpu, Unlocked, Parked, Interruptible
<1>3. Waiting' = Waiting \ {p}
  BY Zenon, <1>1, <1>2 DEF Waiting, SchedInv, TypeOK, States
<1> QED
  BY Zenon, <1>1, <1>3 DEF Mon!Kill

(* Whoever finds the condition true does not sleep.                        *)
LEMMA TestRefines ==
  ASSUME SchedInv, NEW c \in CPUs, test_true(c)
  PROVE  \E p \in Procs : Mon!Consume(p)
<1>1. PICK p \in Procs : /\ At(c, p, "test") /\ pc' = [pc EXCEPT ![p] = "trapret"]
                         /\ items > 0 /\ items' = items - 1
                         /\ UNCHANGED <<state, killed, visit>>
  BY Zenon DEF test_true, Goto
<1>2. Waiting' = Waiting /\ p \notin Waiting
  BY Zenon, <1>1 DEF Waiting, At, SchedInv, TypeOK
<1> QED
  BY Zenon, <1>1, <1>2 DEF Mon!Consume

(* Asleep as far as the others can tell, from a process's place and state. *)
SleepPlaces == {"sleep_locked", "sleep_chan", "sleep_sched", "sleep_tidy"}
Asleep(l, s) == l \in SleepPlaces /\ (l \in {"sleep_sched", "sleep_tidy"} => s = "SLEEPING")

(* A step that moves one process leaves asleep who is asleep, if that      *)
(* process is asleep after it exactly when it was before.                  *)
LEMMA QuietMove ==
  ASSUME TypeOK, NEW p \in Procs, NEW l, pc' = [pc EXCEPT ![p] = l],
         state' = state \/ \E s : state' = [state EXCEPT ![p] = s],
         Asleep(l, state'[p]) <=> Asleep(pc[p], state[p])
  PROVE  \A q \in Procs : Asleep(pc'[q], state'[q]) <=> Asleep(pc[q], state[q])
<1>1. ASSUME NEW q \in Procs \ {p} PROVE pc'[q] = pc[q] /\ state'[q] = state[q]
  BY Zenon DEF TypeOK
<1>2. pc'[p] = l
  BY Zenon DEF TypeOK
<1> QED
  BY Zenon, <1>1, <1>2

(* A step of a process from a place outside sleep() to another such place. *)
FarStep(p, l, s) ==
  /\ pc' = [pc EXCEPT ![p] = l]
  /\ state' = state \/ state' = [state EXCEPT ![p] = s]
  /\ pc[p] \notin SleepPlaces /\ l \notin SleepPlaces

(* Such a step leaves asleep who is asleep, whatever it does to p->state.  *)
LEMMA FarMove ==
  ASSUME TypeOK, NEW p \in Procs, NEW l, NEW s, FarStep(p, l, s)
  PROVE  \A q \in Procs : Asleep(pc'[q], state'[q]) <=> Asleep(pc[q], state[q])
<1>1. ~Asleep(l, state'[p]) /\ ~Asleep(pc[p], state[p])
  BY Zenon DEF Asleep, FarStep
<1> QED
  BY Zenon, <1>1, QuietMove DEF FarStep

(* The other steps of a process on its way into sleep() and out of it, and *)
(* of the scheduler, are invisible.                                        *)
LEMMA QuietRefines ==
  ASSUME SchedInv, NEW c \in CPUs,
         \/ scheduler_run(c) \/ scheduler_skip(c) \/ scheduler_back(c) \/ sched(c)
         \/ forkret(c) \/ timer(c) \/ yield(c) \/ yield_tidy(c) \/ usertrap(c) \/ usertrapret(c)
         \/ exit(c) \/ exit_zombie(c) \/ exit_release(c) \/ acquire_lk(c) \/ test_false(c)
         \/ test_killed(c) \/ sleep_locked(c) \/ sleep_chan(c) \/ sleep_tidy(c)
  PROVE  UNCHANGED Mon!vars
<1>1. UNCHANGED <<items, killed, visit>>
  BY Zenon DEF scheduler_run, scheduler_skip, scheduler_back, sched, forkret, timer, yield,
     yield_tidy, usertrap, usertrapret, exit, exit_zombie, exit_release, acquire_lk, test_false,
     test_killed, sleep_locked, sleep_chan, sleep_tidy
<1>2. TypeOK /\ OnCpu /\ OffCpu /\ LocksInv /\ IntrInv
  BY Zenon DEF SchedInv
<1>3. \A p \in Procs : Asleep(pc'[p], state'[p]) <=> Asleep(pc[p], state[p])
  <2>1. CASE scheduler_run(c)
    <3>1. /\ state[scan[c]] = "RUNNABLE" /\ state' = [state EXCEPT ![scan[c]] = "RUNNING"]
          /\ pc' = pc
      BY Zenon, <2>1 DEF scheduler_run
    <3>2. state \in [Procs -> States]
      BY Zenon, <1>2 DEF TypeOK
    <3>3. ASSUME NEW q \in Procs PROVE state'[q] = "SLEEPING" <=> state[q] = "SLEEPING"
      BY Zenon, <3>1, <3>2
    <3>4. ASSUME NEW q \in Procs PROVE pc'[q] = pc[q]
      BY Zenon, <3>1
    <3> QED
      BY Zenon, <3>3, <3>4 DEF Asleep
  <2>2. CASE scheduler_skip(c) \/ scheduler_back(c)
    BY Zenon, <2>2 DEF scheduler_skip, scheduler_back
  <2>3. CASE sched(c)
    <3>1. PICK p \in Procs, l \in DOMAIN SchedFrom :
             pc[p] = l /\ pc' = [pc EXCEPT ![p] = SchedFrom[l]] /\ state' = state
      BY Zenon, <2>3 DEF sched, At, Goto
    <3>2. Asleep(SchedFrom[l], state'[p]) <=> Asleep(pc[p], state[p])
      BY <3>1 DEF SchedFrom, Asleep, SleepPlaces
    <3> QED
      BY Zenon, <1>2, <3>1, <3>2, QuietMove
  <2>4. CASE forkret(c)
    <3>1. PICK p \in Procs : FarStep(p, "user", "RUNNING")
      BY Zenon, <2>4 DEF forkret, At, Goto, FarStep, SleepPlaces
    <3> QED
      BY Zenon, <1>2, <3>1, FarMove
  <2>5. CASE yield(c)
    <3>1. PICK p \in Procs : FarStep(p, "yield_sched", "RUNNABLE")
      BY Zenon, <2>5 DEF yield, At, Goto, FarStep, SleepPlaces
    <3> QED
      BY Zenon, <1>2, <3>1, FarMove
  <2>6. CASE yield_tidy(c)
    <3>1. PICK p \in Procs : pc[p] = "yield_tidy" /\ pc' = [pc EXCEPT ![p] = back[p]] /\ state' = state
      BY Zenon, <2>6 DEF yield_tidy, At, Goto
    <3>2. back[p] \in Interruptible
      BY Zenon, <1>2 DEF TypeOK
    <3>3. FarStep(p, back[p], "RUNNING")
      BY Zenon, <3>1, <3>2 DEF FarStep, Interruptible, SleepPlaces
    <3> QED
      BY Zenon, <1>2, <3>3, FarMove
  <2>7. CASE timer(c)
    <3>1. PICK p \in Procs : exec[c] = p /\ intr[c] /\ pc' = [pc EXCEPT ![p] = "yield"] /\ state' = state
      BY Zenon, <2>7 DEF timer, Goto
    <3>2. pc[p] \in Interruptible
      BY Zenon, <1>2, <3>1, Ranges DEF IntrInv
    <3>3. FarStep(p, "yield", "RUNNING")
      BY Zenon, <3>1, <3>2 DEF FarStep, Interruptible, SleepPlaces
    <3> QED
      BY Zenon, <1>2, <3>3, FarMove
  <2>8. CASE usertrap(c)
    <3>1. PICK p \in Procs : /\ pc[p] \in {"user"} /\ state' = state
                             /\ pc' = [pc EXCEPT ![p] = IF killed[p] THEN "exit" ELSE "syscall"]
      BY Zenon, <2>8 DEF usertrap, At, Goto
    <3>2. (IF killed[p] THEN "exit" ELSE "syscall") \notin SleepPlaces
      BY ONLY SMT DEF SleepPlaces
    <3>3. FarStep(p, IF killed[p] THEN "exit" ELSE "syscall", "RUNNING")
      BY Zenon, <3>1, <3>2 DEF FarStep, SleepPlaces
    <3> QED
      BY Zenon, <1>2, <3>3, FarMove
  <2>9. CASE usertrapret(c)
    <3>1. PICK p \in Procs : /\ pc[p] \in {"trapret", "devintr"} /\ state' = state
                             /\ pc' = [pc EXCEPT ![p] = IF killed[p] THEN "exit" ELSE "user"]
      BY Zenon, <2>9 DEF usertrapret, At, Goto
    <3>2. (IF killed[p] THEN "exit" ELSE "user") \notin SleepPlaces
      BY ONLY SMT DEF SleepPlaces
    <3>3. FarStep(p, IF killed[p] THEN "exit" ELSE "user", "RUNNING")
      BY Zenon, <3>1, <3>2 DEF FarStep, SleepPlaces
    <3> QED
      BY Zenon, <1>2, <3>3, FarMove
  <2>10. CASE exit(c)
    <3>1. PICK p \in Procs : FarStep(p, "exit_wait", "RUNNING")
      BY Zenon, <2>10 DEF exit, At, Goto, FarStep, SleepPlaces
    <3> QED
      BY Zenon, <1>2, <3>1, FarMove
  <2>11. CASE exit_zombie(c)
    <3>1. PICK p \in Procs : FarStep(p, "exit_locked", "ZOMBIE")
      BY Zenon, <2>11 DEF exit_zombie, At, Goto, FarStep, SleepPlaces
    <3> QED
      BY Zenon, <1>2, <3>1, FarMove
  <2>12. CASE exit_release(c)
    <3>1. PICK p \in Procs : FarStep(p, "exit_sched", "ZOMBIE")
      BY Zenon, <2>12 DEF exit_release, At, Goto, FarStep, SleepPlaces
    <3> QED
      BY Zenon, <1>2, <3>1, FarMove
  <2>13. CASE acquire_lk(c)
    <3>1. PICK p \in Procs : FarStep(p, "test", "RUNNING")
      BY Zenon, <2>13 DEF acquire_lk, At, Goto, FarStep, SleepPlaces
    <3> QED
      BY Zenon, <1>2, <3>1, FarMove
  <2>14. CASE test_false(c)
    <3>1. PICK p \in Procs : FarStep(p, "sleep", "RUNNING")
      BY Zenon, <2>14 DEF test_false, At, Goto, FarStep, SleepPlaces
    <3> QED
      BY Zenon, <1>2, <3>1, FarMove
  <2>15. CASE test_killed(c)
    <3>1. PICK p \in Procs : FarStep(p, "trapret", "RUNNING")
      BY Zenon, <2>15 DEF test_killed, At, Goto, FarStep, SleepPlaces
    <3> QED
      BY Zenon, <1>2, <3>1, FarMove
  <2>16. CASE sleep_locked(c)
    <3>1. PICK p \in Procs : pc[p] = "sleep_locked" /\ pc' = [pc EXCEPT ![p] = "sleep_chan"] /\ state' = state
      BY Zenon, <2>16 DEF sleep_locked, At, Goto
    <3> QED
      BY Zenon, <1>2, <3>1, QuietMove DEF Asleep, SleepPlaces
  <2>17. CASE sleep_chan(c)
    <3>1. PICK p \in Procs : /\ pc[p] = "sleep_chan" /\ pc' = [pc EXCEPT ![p] = "sleep_sched"]
                             /\ state' = [state EXCEPT ![p] = "SLEEPING"]
      BY Zenon, <2>17 DEF sleep_chan, At, Goto
    <3>2. state'[p] = "SLEEPING"
      BY Zenon, <1>2, <3>1 DEF TypeOK
    <3> QED
      BY Zenon, <1>2, <3>1, <3>2, QuietMove DEF Asleep, SleepPlaces
  <2>18. CASE sleep_tidy(c)
    <3>1. PICK p \in Procs : /\ pc[p] = "sleep_tidy" /\ exec[c] = p /\ state' = state
                             /\ pc' = [pc EXCEPT ![p] = "sleep_reacquire"]
      BY Zenon, <2>18 DEF sleep_tidy, At, Goto
    <3>2. state[p] = StateAt(pc[p])
      BY Zenon, <1>2, <3>1 DEF OnCpu
    <3>3. state[p] # "SLEEPING"
      BY <3>1, <3>2 DEF StateAt
    <3> QED
      BY Zenon, <1>2, <3>1, <3>3, QuietMove DEF Asleep, SleepPlaces
  <2> QED
    BY Zenon, <2>1, <2>2, <2>3, <2>4, <2>5, <2>6, <2>7, <2>8, <2>9, <2>10, <2>11, <2>12, <2>13,
       <2>14, <2>15, <2>16, <2>17, <2>18
<1>4. Waiting' = Waiting
  BY ZenonT(40), <1>1, <1>3 DEF Waiting, Asleep, SleepPlaces
<1> QED
  BY Zenon, <1>1, <1>4 DEF Mon!vars

(* Every step of the scheduler, of sleep() and of wakeup() is a step of    *)
(* the monitor or leaves it as it is.                                      *)
LEMMA NextRefines ==
  SchedInv /\ SchedInv' /\ SignalInv /\ [Next]_vars => [Mon!Next]_(Mon!vars)
<1> SUFFICES ASSUME SchedInv, SchedInv', SignalInv, [Next]_vars PROVE [Mon!Next]_(Mon!vars)
  BY Zenon
<1>1. ASSUME NEW c \in CPUs, KernelStep(c) PROVE [Mon!Next]_(Mon!vars)
  BY Zenon, <1>1, SleepRefines, WakeupRefines, TestRefines, QuietRefines DEF KernelStep, Mon!Next
<1>2. ASSUME NEW c \in CPUs, usertrap(c) \/ timer(c) PROVE [Mon!Next]_(Mon!vars)
  BY Zenon, <1>2, QuietRefines
<1>3. ASSUME NEW c \in CPUs, produce(c) PROVE [Mon!Next]_(Mon!vars)
  BY Zenon, <1>3, ProduceRefines DEF Mon!Next
<1>4. ASSUME NEW c \in CPUs, NEW p \in Procs, kill(c, p) PROVE [Mon!Next]_(Mon!vars)
  BY Zenon, <1>4, KillRefines DEF Mon!Next
<1>5. CASE UNCHANGED vars
  BY Zenon, <1>5 DEF vars, Waiting, Mon!vars
<1> QED
  BY Zenon, <1>1, <1>2, <1>3, <1>4, <1>5 DEF Next

(* sleep() and wakeup(), lock by lock and across context switches, are an  *)
(* atomic test-and-wait and an atomic signal-all, for any number of        *)
(* processes and CPUs.                                                     *)
THEOREM SleepWakeupIsMonitor == Spec => ImplementsMonitor
<1>1. Init => Mon!Init /\ SignalInv
  BY Zenon DEF Init, Mon!Init, Waiting, SignalInv
<1>2. ImplementsMonitor <=> Mon!Spec
  BY Zenon DEF ImplementsMonitor
<1>3. Spec => []SignalInv
  BY <1>1, SignalStep, SchedInvariance, PTL DEF Spec
<1> QED
  BY <1>1, <1>2, <1>3, NextRefines, SchedInvariance, PTL DEF Spec, Mon!Spec
=============================================================================
