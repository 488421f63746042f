------------------------------ MODULE SysSleep ------------------------------
(***************************************************************************)
(* sys_sleep() (kernel/sysproc.c) and the clock interrupt (kernel/trap.c)  *)
(* that it waits for.  `ticks' is an unsigned int that wraps around, here  *)
(* at TICK_MOD; the argument is a signed int.  kill() may come at any time *)
(* and takes no tickslock, so the test of `killed' and the sleep after it  *)
(* are two steps, between which the kill() finds nobody asleep.            *)
(***************************************************************************)
EXTENDS Integers

CONSTANTS
  Procs,
  NoProc,
  TICK_MOD,   \* 2^32 in the code
  Args,       \* arguments of sleep()
  MaxLag      \* ticks that may pass before a runnable process runs

(* what is assumed of them, in module Sysproc *)
SleepConstants ==
  /\ NoProc \notin Procs
  /\ TICK_MOD \in Nat /\ MaxLag \in Nat /\ MaxLag < TICK_MOD
  /\ \A n \in Args : n \in Int /\ 2 * n < TICK_MOD /\ n + MaxLag < TICK_MOD

VARIABLES
  ticks, tickslock,
  killed, pc,
  n, ticks0,      \* locals of sys_sleep()
  elapsed,        \* history: ticks since ticks0 was read, at most TICK_MOD
  lag             \* history: ticks since the process last became runnable

vars == <<ticks, tickslock, killed, pc, n, ticks0, elapsed, lag>>
locals == <<n, ticks0, elapsed, lag>>

Goto(p, l) == pc' = [pc EXCEPT ![p] = l]
InCall(p) == pc[p] # "user"

(* sys_sleep() as far as the first acquire(); a killed process exits *)
(* instead (usertrap()). *)
sys_sleep(p, arg) ==
  /\ pc[p] = "user" /\ ~killed[p]
  /\ n' = [n EXCEPT ![p] = IF arg < 0 THEN 0 ELSE arg]
  /\ Goto(p, "acquire")
  /\ UNCHANGED <<ticks, tickslock, killed, ticks0, elapsed, lag>>

sys_sleep_start(p) ==
  /\ pc[p] = "acquire" /\ tickslock = NoProc
  /\ tickslock' = p
  /\ ticks0' = [ticks0 EXCEPT ![p] = ticks]
  /\ Goto(p, "loop")
  /\ UNCHANGED <<ticks, killed, n, elapsed, lag>>

(* mutant: a comparison that does not survive the wrap-around *)
Due_NoWrap(p) == ticks >= ticks0[p] + n[p]

(* the loop's condition is false *)
Due(p) == (ticks - ticks0[p]) % TICK_MOD >= n[p]

(* The call returns, and its locals are gone. *)
Return(p) ==
  /\ Goto(p, "user")
  /\ n' = [n EXCEPT ![p] = 0] /\ ticks0' = [ticks0 EXCEPT ![p] = 0]
  /\ elapsed' = [elapsed EXCEPT ![p] = 0] /\ lag' = [lag EXCEPT ![p] = 0]

(* return 0 *)
sys_sleep_return(p) ==
  /\ pc[p] = "loop" /\ Due(p)
  /\ tickslock' = NoProc
  /\ Return(p)
  /\ UNCHANGED <<ticks, killed>>

(* return -1 *)
sys_sleep_killed(p) ==
  /\ pc[p] = "loop" /\ ~Due(p) /\ killed[p]
  /\ tickslock' = NoProc
  /\ Return(p)
  /\ UNCHANGED <<ticks, killed>>

sys_sleep_decide(p) ==
  /\ pc[p] = "loop" /\ ~Due(p) /\ ~killed[p]
  /\ Goto(p, "sleep")
  /\ UNCHANGED <<ticks, tickslock, killed, locals>>

(* sleep(&ticks, &tickslock), and its acquire() after the wakeup() *)
sleep(p) ==
  /\ pc[p] = "sleep"
  /\ tickslock' = NoProc
  /\ Goto(p, "asleep")
  /\ UNCHANGED <<ticks, killed, locals>>

sleep_reacquire(p) ==
  /\ pc[p] = "woken" /\ tickslock = NoProc
  /\ tickslock' = p
  /\ Goto(p, "loop")
  /\ lag' = [lag EXCEPT ![p] = 0]
  /\ UNCHANGED <<ticks, killed, n, ticks0, elapsed>>

Tick ==
  /\ tickslock = NoProc
  /\ \A p \in Procs : InCall(p) /\ pc[p] # "asleep" => lag[p] < MaxLag
  /\ ticks' = (ticks + 1) % TICK_MOD
  /\ elapsed' = [p \in Procs |->
       elapsed[p] + IF InCall(p) /\ pc[p] # "acquire" /\ elapsed[p] < TICK_MOD THEN 1 ELSE 0]
  /\ lag' = [p \in Procs |-> lag[p] + IF InCall(p) /\ pc[p] # "asleep" THEN 1 ELSE 0]
  /\ UNCHANGED <<tickslock, killed, n, ticks0>>

(* mutant: clockintr() does not call wakeup() *)
clockintr_NoWakeup == Tick /\ UNCHANGED pc

(* clockintr() on CPU 0 *)
clockintr ==
  /\ Tick
  /\ pc' = [p \in Procs |-> IF pc[p] = "asleep" THEN "woken" ELSE pc[p]]

kill(p) ==
  /\ ~killed[p]
  /\ killed' = [killed EXCEPT ![p] = TRUE]
  /\ Goto(p, IF pc[p] = "asleep" THEN "woken" ELSE pc[p])
  /\ UNCHANGED <<ticks, tickslock, locals>>
-----------------------------------------------------------------------------
Init ==
  /\ ticks = 0 /\ tickslock = NoProc
  /\ killed = [p \in Procs |-> FALSE]
  /\ pc = [p \in Procs |-> "user"]
  /\ n = [p \in Procs |-> 0] /\ ticks0 = n /\ elapsed = n /\ lag = n

CallStep(p) ==
  \/ sys_sleep_start(p) \/ sys_sleep_return(p) \/ sys_sleep_killed(p)
  \/ sys_sleep_decide(p) \/ sleep(p) \/ sleep_reacquire(p)

Next ==
  \/ \E p \in Procs : (\E arg \in Args : sys_sleep(p, arg)) \/ CallStep(p) \/ kill(p)
  \/ clockintr

Spec == Init /\ [][Next]_vars
-----------------------------------------------------------------------------
(* Types; tickslock is held exactly in the loop. *)
TypeOK ==
  /\ ticks \in 0..TICK_MOD-1 /\ tickslock \in Procs \cup {NoProc}
  /\ killed \in [Procs -> BOOLEAN]
  /\ pc \in [Procs -> {"user", "acquire", "loop", "sleep", "asleep", "woken"}]
  /\ n \in [Procs -> Nat] /\ elapsed \in [Procs -> Nat]
  /\ ticks0 \in [Procs -> 0..TICK_MOD-1] /\ lag \in [Procs -> 0..MaxLag]
  /\ \A p \in Procs : (tickslock = p) <=> pc[p] \in {"loop", "sleep"}

(* sleep(n) returns 0 only after n ticks have passed, and never outlasts   *)
(* them by more than the time the process waits for a CPU, whenever it     *)
(* starts relative to the wrap-around of `ticks'.                          *)
SleepsAsAsked ==
  \A p \in Procs : InCall(p) =>
    /\ pc[p] = "loop" /\ Due(p) => elapsed[p] >= n[p]
    /\ elapsed[p] <= n[p] + MaxLag

(***************************************************************************)
(* The inductive invariant.  `ticks' is ticks0 and what has elapsed, at    *)
(* most once around; a process that goes to sleep has slept for less than  *)
(* it was asked to, so that one tick and its lag are all it may be late.   *)
(***************************************************************************)
SleepInv ==
  \A p \in Procs :
    /\ n[p] + MaxLag < TICK_MOD
    /\ pc[p] \in {"user", "acquire"} => elapsed[p] = 0
    /\ pc[p] \in {"loop", "sleep", "asleep", "woken"} =>
         ticks = ticks0[p] + elapsed[p] \/ ticks = ticks0[p] + elapsed[p] - TICK_MOD
    /\ pc[p] \in {"sleep", "asleep"} => elapsed[p] < n[p]
    /\ pc[p] = "woken" => elapsed[p] <= n[p] + lag[p]
    /\ elapsed[p] <= n[p] + MaxLag

(* Every sleep() returns, also when the process is killed in the window    *)
(* between the test of `killed' and the sleep: the next tick wakes it.     *)
SleepEnds == \A p \in Procs : InCall(p) ~> ~InCall(p)
=============================================================================
