----------------------------- MODULE PipeProofs -----------------------------
(***************************************************************************)
(* Proofs about pipes for every set of readers and writers, every PIPESIZE *)
(* and every length of the calls: the memory of a pipe is not used after   *)
(* pipeclose() has freed it, and whoever sleeps on a pipe has reason to,   *)
(* or is about to be told.                                                 *)
(***************************************************************************)
EXTENDS Pipe, TLAPS, SequenceTheorems

(* A remainder is what is left over by a multiple, and determines it.      *)
LEMMA ModUnique ==
  ASSUME NEW M \in Nat \ {0}, NEW q \in Int, NEW m \in 0..(M-1)
  PROVE  (q * M + m) % M = m
  BY SMTT(40)

(* Every integer is a multiple and a remainder.                            *)
LEMMA ModExists ==
  ASSUME NEW M \in Nat \ {0}, NEW x \in Int
  PROVE  \E q \in Int, m \in 0..(M-1) : x = q * M + m /\ x % M = m
<1>1. x \div M \in Int /\ x % M \in 0..(M-1) /\ x = M * (x \div M) + (x % M)
  BY SMTT(40)
<1> QED
  BY <1>1

(* One turn of the counter, forward or back, is a subtraction.             *)
LEMMA ModTurn ==
  ASSUME NEW M \in Nat \ {0}, NEW x \in Int
  PROVE  /\ x % M \in 0..(M-1)
         /\ (0 <= x /\ x < M) => x % M = x
         /\ (M <= x /\ x < M + M) => x % M = x - M
         /\ (-M <= x /\ x < 0) => x % M = x + M
<1>1. x % M \in 0..(M-1)
  BY Zenon, ModExists
<1>2. (0 <= x /\ x < M) => x % M = x
  BY SMTT(40)
<1>3. (M <= x /\ x < M + M) => x % M = x - M
  BY SMTT(40)
<1>4. (-M <= x /\ x < 0) => x % M = x + M
  BY SMTT(40)
<1> QED
  BY Zenon, <1>1, <1>2, <1>3, <1>4

(* Where the counter's modulus is a multiple of the size of the ring, the  *)
(* place of an element does not depend on how often its counter wrapped.   *)
LEMMA ModPeriod ==
  ASSUME NEW S \in Nat \ {0}, NEW x \in Int, NEW M \in Int, M % S = 0
  PROVE  (x + M) % S = x % S
<1>1. PICK q \in Int, m \in 0..(S-1) : x = q * S + m /\ x % S = m
  BY Zenon, ModExists
<1>2. PICK k \in Int : M = k * S
  <2>1. PICK k \in Int, o \in 0..(S-1) : M = k * S + o /\ M % S = o
    BY ZenonT(40), ModExists
  <2> QED
    BY <2>1
<1>3. x + M = (q + k) * S + m /\ q + k \in Int
  BY <1>1, <1>2
<1>4. ((q + k) * S + m) % S = m
  BY Zenon, <1>3, ModUnique
<1> QED
  BY Zenon, <1>1, <1>3, <1>4

(* Two of the last S elements are never in the same place.                 *)
LEMMA ModInjective ==
  ASSUME NEW S \in Nat \ {0}, NEW x \in Int, NEW k \in 1..(S-1)
  PROVE  (x + k) % S # x % S
<1>1. PICK q \in Int, m \in 0..(S-1) : x = q * S + m /\ x % S = m
  BY ZenonT(40), ModExists
<1>2. CASE m + k < S
  <2>1. m + k \in 0..(S-1) /\ x + k = q * S + (m + k)
    BY <1>1, <1>2
  <2>2. (q * S + (m + k)) % S = m + k
    BY Zenon, <2>1, ModUnique
  <2> QED
    BY <1>1, <2>1, <2>2
<1>3. CASE m + k >= S
  <2>1. m + k - S \in 0..(S-1) /\ x + k = (q + 1) * S + (m + k - S) /\ q + 1 \in Int
    BY <1>1, <1>3
  <2>2. ((q + 1) * S + (m + k - S)) % S = m + k - S
    BY ZenonT(40), <2>1, ModUnique
  <2>3. (x + k) % S = m + k - S
    BY Zenon, <2>1, <2>2
  <2> QED
    BY <1>1, <2>3
<1> QED
  BY <1>2, <1>3
-----------------------------------------------------------------------------
(* Entering read() or write() keeps the invariant: the caller has a        *)
(* descriptor.                                                             *)
LEMMA Step_call ==
  ASSUME PipeInv, NEW p \in Procs, NEW n \in Lengths, call(p, n)
  PROVE  PipeInv'
<1> USE PipeConstants DEF Procs, PipeInv, call, pipe, Goto
<1>1. EndsInv'
  BY DEF EndsInv, Places, Locked, InWrite, InRead
<1>2. SleepInv'
  BY Zenon DEF EndsInv, SleepInv, Places, Locked, InWrite, InRead, Full, Empty
<1> QED
  BY Zenon, <1>1, <1>2

(* Taking pi->lock keeps the invariant. *)
LEMMA Step_acquire ==
  ASSUME PipeInv, NEW p \in Procs, acquire(p)
  PROVE  PipeInv'
<1> USE PipeConstants DEF Procs, PipeInv, acquire, pipe, Goto
<1>1. EndsInv'
  BY DEF EndsInv, Places, Locked, InWrite, InRead
<1>2. SleepInv'
  BY Zenon DEF EndsInv, SleepInv, Places, Locked, InWrite, InRead, Full, Empty
<1> QED
  BY Zenon, <1>1, <1>2

(* sleep() that releases pi->lock keeps the invariant. *)
LEMMA Step_sleep ==
  ASSUME PipeInv, NEW p \in Procs, sleep(p)
  PROVE  PipeInv'
<1> USE PipeConstants DEF Procs, PipeInv, sleep, pipe, Goto
<1>1. EndsInv'
  BY ZenonT(40) DEF EndsInv, Places, Locked, InWrite, InRead
<1>2. SleepInv'
  BY ZenonT(40) DEF EndsInv, SleepInv, Places, Locked, InWrite, InRead, Full, Empty
<1> QED
  BY Zenon, <1>1, <1>2

(* fileclose() keeps the invariant: the last descriptor of an end goes on  *)
(* to pipeclose().                                                         *)
LEMMA Step_fileclose ==
  ASSUME PipeInv, NEW p \in Procs, fileclose(p)
  PROVE  PipeInv'
<1> USE PipeConstants DEF Procs, PipeInv, fileclose, pipe, Goto
<1>1. EndsInv'
  BY DEF EndsInv, Places, Locked, InWrite, InRead
<1>2. SleepInv'
  BY Zenon DEF EndsInv, SleepInv, Places, Locked, InWrite, InRead, Full, Empty
<1> QED
  BY Zenon, <1>1, <1>2

(* pipeclose() keeps the invariant: it closes its end, wakes all of the    *)
(* other side, and frees the page when both ends are closed.               *)
LEMMA Step_pipeclose ==
  ASSUME PipeInv, NEW p \in Procs, pipeclose(p)
  PROVE  PipeInv'
<1> USE PipeConstants DEF Procs, PipeInv, pipeclose, pipe, wakeup_nread, wakeup_nwrite
<1>1. EndsInv'
  BY ZenonT(40) DEF EndsInv, Places, Locked, InWrite, InRead
<1>2. SleepInv'
  BY DEF EndsInv, SleepInv, Places, Locked, InWrite, InRead, Full, Empty
<1> QED
  BY Zenon, <1>1, <1>2

(* kill() keeps the invariant: who sleeps is woken. *)
LEMMA Step_kill ==
  ASSUME PipeInv, NEW p \in Procs, kill(p)
  PROVE  PipeInv'
<1> USE PipeConstants DEF Procs, PipeInv, kill, pipe, Goto
<1>1. EndsInv'
  BY ZenonT(40) DEF EndsInv, Places, Locked, InWrite, InRead
<1>2. SleepInv'
  BY Zenon DEF EndsInv, SleepInv, Places, Locked, InWrite, InRead, Full, Empty
<1> QED
  BY Zenon, <1>1, <1>2

(* pipewrite() that finds the read end closed, or itself killed, keeps the *)
(* invariant.                                                              *)
LEMMA Step_pipewrite_error ==
  ASSUME PipeInv, NEW p \in Writers, pipewrite_error(p)
  PROVE  PipeInv'
<1> USE PipeConstants DEF Procs, PipeInv, pipewrite_error, pipe, Goto, wakeup_nread
<1>1. EndsInv'
  BY DEF EndsInv, Places, Locked, InWrite, InRead
<1>2. SleepInv'
  BY Zenon DEF EndsInv, SleepInv, Places, Locked, InWrite, InRead, Full, Empty
<1> QED
  BY Zenon, <1>1, <1>2

(* pipewrite() that finds the pipe full, wakes the readers and goes to     *)
(* sleep keeps the invariant.                                              *)
LEMMA Step_pipewrite_full ==
  ASSUME PipeInv, NEW p \in Writers, pipewrite_full(p)
  PROVE  PipeInv'
<1> USE PipeConstants DEF Procs, PipeInv, pipewrite_full, pipe, Goto, wakeup_nread
<1>1. EndsInv'
  BY ZenonT(40) DEF EndsInv, Places, Locked, InWrite, InRead
<1>2. SleepInv'
  BY Zenon DEF EndsInv, SleepInv, Places, Locked, InWrite, InRead, Full, Empty
<1> QED
  BY Zenon, <1>1, <1>2

(* pipewrite() that has written all, wakes the readers and returns keeps   *)
(* the invariant.                                                          *)
LEMMA Step_pipewrite_return ==
  ASSUME PipeInv, NEW p \in Writers, pipewrite_return(p)
  PROVE  PipeInv'
<1> USE PipeConstants DEF Procs, PipeInv, pipewrite_return, pipe, Goto, wakeup_nread
<1>1. EndsInv'
  BY SMTT(40) DEF EndsInv, Places, Locked, InWrite, InRead
<1>2. SleepInv'
  BY ZenonT(40) DEF EndsInv, SleepInv, Places, Locked, InWrite, InRead, Full, Empty
<1> QED
  BY Zenon, <1>1, <1>2

(* pipewrite() that copies a byte keeps the invariant: it will wake the    *)
(* readers before it lets go of the lock.                                  *)
LEMMA Step_pipewrite_byte ==
  ASSUME PipeInv, NEW p \in Writers, NEW b \in Bytes, pipewrite_byte(p, b)
  PROVE  PipeInv'
<1> USE PipeConstants DEF Procs, PipeInv, pipewrite_byte, pipe
<1>1. EndsInv'
  BY Zenon DEF EndsInv, Places, Locked, InWrite, InRead
<1>2. SleepInv'
  BY Zenon DEF EndsInv, SleepInv, Places, Locked, InWrite, InRead, Full, Empty
<1> QED
  BY Zenon, <1>1, <1>2

(* piperead() that finds itself killed keeps the invariant. *)
LEMMA Step_piperead_killed ==
  ASSUME PipeInv, NEW p \in Readers, piperead_killed(p)
  PROVE  PipeInv'
<1> USE PipeConstants DEF Procs, PipeInv, piperead_killed, pipe, Goto, wakeup_nwrite
<1>1. EndsInv'
  BY SMTT(40) DEF EndsInv, Places, Locked, InWrite, InRead
<1>2. SleepInv'
  BY Zenon DEF EndsInv, SleepInv, Places, Locked, InWrite, InRead, Full, Empty
<1> QED
  BY Zenon, <1>1, <1>2

(* piperead() that finds nothing to read and a writer left keeps the       *)
(* invariant.                                                              *)
LEMMA Step_piperead_empty ==
  ASSUME PipeInv, NEW p \in Readers, piperead_empty(p)
  PROVE  PipeInv'
<1> USE PipeConstants DEF Procs, PipeInv, piperead_empty, pipe, Goto, wakeup_nwrite
<1>1. EndsInv'
  BY Zenon DEF EndsInv, Places, Locked, InWrite, InRead
<1>2. SleepInv'
  BY Zenon DEF EndsInv, SleepInv, Places, Locked, InWrite, InRead, Full, Empty
<1> QED
  BY Zenon, <1>1, <1>2

(* piperead() that finds bytes, or no writer left, keeps the invariant. *)
LEMMA Step_piperead_ready ==
  ASSUME PipeInv, NEW p \in Readers, piperead_ready(p)
  PROVE  PipeInv'
<1> USE PipeConstants DEF Procs, PipeInv, piperead_ready, pipe, Goto, wakeup_nwrite
<1>1. EndsInv'
  BY ZenonT(40) DEF EndsInv, Places, Locked, InWrite, InRead
<1>2. SleepInv'
  BY Zenon DEF EndsInv, SleepInv, Places, Locked, InWrite, InRead, Full, Empty
<1> QED
  BY Zenon, <1>1, <1>2

(* piperead() that copies a byte keeps the invariant: it will wake the     *)
(* writers before it lets go of the lock.                                  *)
LEMMA Step_piperead_byte ==
  ASSUME PipeInv, NEW p \in Readers, piperead_byte(p)
  PROVE  PipeInv'
<1> USE PipeConstants DEF Procs, PipeInv, piperead_byte, pipe, Goto, wakeup_nwrite
<1>1. EndsInv'
  BY Zenon DEF EndsInv, Places, Locked, InWrite, InRead
<1>2. SleepInv'
  BY Zenon DEF EndsInv, SleepInv, Places, Locked, InWrite, InRead, Full, Empty
<1> QED
  BY Zenon, <1>1, <1>2

(* piperead() whose copyout() fails keeps the invariant. *)
LEMMA Step_piperead_fault ==
  ASSUME PipeInv, NEW p \in Readers, piperead_fault(p)
  PROVE  PipeInv'
<1> USE PipeConstants DEF Procs, PipeInv, piperead_fault, pipe, Goto, wakeup_nwrite
<1>1. EndsInv'
  BY SMTT(40) DEF EndsInv, Places, Locked, InWrite, InRead
<1>2. SleepInv'
  BY Zenon DEF EndsInv, SleepInv, Places, Locked, InWrite, InRead, Full, Empty
<1> QED
  BY Zenon, <1>1, <1>2

(* piperead() that wakes the writers and returns keeps the invariant. *)
LEMMA Step_piperead_return ==
  ASSUME PipeInv, NEW p \in Readers, piperead_return(p)
  PROVE  PipeInv'
<1> USE PipeConstants DEF Procs, PipeInv, piperead_return, pipe, Goto, wakeup_nwrite
<1>1. EndsInv'
  BY SMTT(40) DEF EndsInv, Places, Locked, InWrite, InRead
<1>2. SleepInv'
  BY Zenon DEF EndsInv, SleepInv, Places, Locked, InWrite, InRead, Full, Empty
<1> QED
  BY Zenon, <1>1, <1>2

(* pipealloc() leaves both ends open and nobody in a call. *)
LEMMA InitInv == Init => PipeInv
  BY Zenon, PipeConstants DEF Init, PipeInv, EndsInv, SleepInv, Procs, Places, Locked, InWrite, InRead

(* Every step of a reader or a writer keeps the invariant. *)
LEMMA StepInv == PipeInv /\ [Next]_vars => PipeInv'
<1> SUFFICES ASSUME PipeInv, [Next]_vars PROVE PipeInv'
  BY Zenon
<1>1. ASSUME NEW p \in Writers, pipewrite(p) PROVE PipeInv'
  BY Zenon, <1>1, Step_pipewrite_error, Step_pipewrite_full, Step_pipewrite_return, Step_pipewrite_byte
  DEF pipewrite
<1>2. ASSUME NEW p \in Readers, piperead(p) PROVE PipeInv'
  BY Zenon, <1>2, Step_piperead_killed, Step_piperead_empty, Step_piperead_ready, Step_piperead_byte,
     Step_piperead_fault, Step_piperead_return
  DEF piperead
<1>3. CASE UNCHANGED vars
  BY Zenon, <1>3 DEF vars, PipeInv, EndsInv, SleepInv, InWrite, InRead, Full, Empty
<1> QED
  BY Zenon, <1>1, <1>2, <1>3, Step_call, Step_acquire, Step_sleep, Step_fileclose, Step_pipeclose,
       Step_kill
  DEF Next, closed

(* PipeInv holds in every reachable state of Pipe. *)
THEOREM PipeInvariance == Spec => []PipeInv
  BY InitInv, StepInv, PTL DEF Spec

(* A freed pipe has both ends closed, and a process in a call has its own  *)
(* end open.                                                               *)
LEMMA FreedIsUnused == PipeInv => NoUseAfterFree
  BY Zenon DEF PipeInv, EndsInv, NoUseAfterFree, Procs, Places, InWrite, InRead

(* While nobody holds pi->lock nobody is between changing the pipe and its *)
(* wakeup().                                                               *)
LEMMA SleepersTold == PipeInv => SleepersAreTold
<1> SUFFICES ASSUME PipeInv, lock = NoProc PROVE SleepersAreTold
  BY Zenon DEF SleepersAreTold, WriterSleepsOnlyIfFull, ReadersAreTold
<1>1. \A p \in Procs : pc[p] \notin Locked
  BY Zenon, PipeConstants DEF PipeInv, EndsInv
<1> QED
  BY Zenon, <1>1 DEF PipeInv, SleepInv, SleepersAreTold, WriterSleepsOnlyIfFull, ReadersAreTold,
       Procs, Locked

(* Nobody is inside piperead(), pipewrite() or pipeclose() of a pipe that  *)
(* has been freed.                                                         *)
THEOREM NoFreedPipeInUse == Spec => []NoUseAfterFree
  BY PipeInvariance, FreedIsUnused, PTL

(* Whenever pi->lock is free a sleeping writer sees a full pipe and a      *)
(* reader left, and a sleeping reader sees an empty one and a writer left, *)
(* unless a writer was killed.                                             *)
THEOREM PipeSleepersAreTold == Spec => []SleepersAreTold
  BY PipeInvariance, SleepersTold, PTL

-----------------------------------------------------------------------------
(* The counters modulo UINT_MOD tell an empty and a full pipe apart, and a *)
(* byte more or less moves Count by one.                                   *)
LEMMA Counting ==
  ASSUME NEW r \in 0..UINT_MOD-1, NEW w \in 0..UINT_MOD-1,
         (w - r) % UINT_MOD \in 0..PIPESIZE
  PROVE  LET d == (w - r) % UINT_MOD IN
         /\ d = 0 <=> r = w
         /\ d = PIPESIZE <=> w = (r + PIPESIZE) % UINT_MOD
         /\ d < PIPESIZE => (((w + 1) % UINT_MOD) - r) % UINT_MOD = d + 1
         /\ d > 0 => (w - ((r + 1) % UINT_MOD)) % UINT_MOD = d - 1
         /\ (w + 1) % UINT_MOD \in 0..UINT_MOD-1 /\ (r + 1) % UINT_MOD \in 0..UINT_MOD-1
         /\ (r + d) % PIPESIZE = w % PIPESIZE
<1> DEFINE M == UINT_MOD
           d == (w - r) % M
<1>1. M \in Nat \ {0} /\ PIPESIZE \in Nat \ {0} /\ M > PIPESIZE /\ M % PIPESIZE = 0
  BY PipeConstants
<1>0. \A x \in Int : /\ (0 <= x /\ x < M) => x % M = x
                     /\ (M <= x /\ x < M + M) => x % M = x - M
                     /\ (-M <= x /\ x < 0) => x % M = x + M
  BY ZenonT(40), <1>1, ModTurn
<1> HIDE DEF M
<1>2. /\ d = IF w >= r THEN w - r ELSE w - r + M
      /\ (w + 1) % M = IF w + 1 < M THEN w + 1 ELSE 0
      /\ (r + 1) % M = IF r + 1 < M THEN r + 1 ELSE 0
      /\ (r + PIPESIZE) % M = IF r + PIPESIZE < M THEN r + PIPESIZE ELSE r + PIPESIZE - M
  <2>0. r \in 0..(M-1) /\ w \in 0..(M-1)
    BY Zenon DEF M
  <2>1. (w - r) % M = IF w >= r THEN w - r ELSE w - r + M
    <3>1. w - r \in Int /\ -M <= w - r /\ w - r < M
      BY <1>1, <2>0
    <3> QED
      BY <1>0, <1>1, <2>0, <3>1
  <2>2. \A y \in 0..(M-1) : (y + 1) % M = IF y + 1 < M THEN y + 1 ELSE 0
    <3> SUFFICES ASSUME NEW y \in 0..(M-1)
                 PROVE  (y + 1) % M = IF y + 1 < M THEN y + 1 ELSE 0
      BY Zenon
    <3>1. y + 1 \in Int /\ 0 <= y + 1 /\ y + 1 < M + M /\ (y + 1 < M \/ y + 1 = M)
      BY <1>1
    <3> QED
      BY <1>0, <1>1, <3>1
  <2>3. (r + PIPESIZE) % M = IF r + PIPESIZE < M THEN r + PIPESIZE ELSE r + PIPESIZE - M
    <3>1. r + PIPESIZE \in Int /\ 0 <= r + PIPESIZE /\ r + PIPESIZE < M + M
      BY <1>1, <2>0
    <3> QED
      BY <1>0, <1>1, <3>1
  <2> QED
    BY Zenon, <2>0, <2>1, <2>2, <2>3
<1>7. /\ d \in 0..PIPESIZE /\ r \in 0..(M-1) /\ w \in 0..(M-1)
      /\ w \in Int /\ r \in Int /\ M \in Int
  BY <1>1 DEF M
<1>9. d = IF w >= r THEN w - r ELSE w - r + M
  BY Zenon, <1>2
<1> HIDE DEF d
<1>3. r + d = w \/ r + d = w + M
  BY <1>1, <1>2
<1>4. (r + d) % PIPESIZE = w % PIPESIZE
  <2>1. (w + M) % PIPESIZE = w % PIPESIZE
    BY ZenonT(40), <1>1, <1>7, ModPeriod
  <2> QED
    BY Zenon, <1>3, <2>1
<1>5. d < PIPESIZE => (((w + 1) % M) - r) % M = d + 1
  <2> SUFFICES ASSUME d < PIPESIZE PROVE (((w + 1) % M) - r) % M = d + 1
    BY Zenon
  <2> DEFINE v == (w + 1) % M
  <2>1. v = IF w + 1 < M THEN w + 1 ELSE 0
    BY Zenon, <1>2
  <2> HIDE DEF v
  <2>2. v \in 0..(M-1) /\ r \in 0..(M-1) /\ w \in 0..(M-1)
    BY <1>1, <2>1 DEF M
  <2>3. v - r \in Int /\ -M <= v - r /\ v - r < M
    BY <1>1, <2>2
  <2>4. (v - r) % M = IF v >= r THEN v - r ELSE v - r + M
    BY <1>0, <1>1, <2>2, <2>3
  <2>5. (v - r) % M = d + 1
    BY ONLY <1>1, <1>9, d < PIPESIZE, <2>1, <2>2, <2>4
  <2> QED
    BY Zenon, <2>5 DEF v
<1>6. d > 0 => (w - ((r + 1) % M)) % M = d - 1
  <2> SUFFICES ASSUME d > 0 PROVE (w - ((r + 1) % M)) % M = d - 1
    BY Zenon
  <2> DEFINE v == (r + 1) % M
  <2>1. v = IF r + 1 < M THEN r + 1 ELSE 0
    BY Zenon, <1>2
  <2> HIDE DEF v
  <2>2. v \in 0..(M-1) /\ r \in 0..(M-1) /\ w \in 0..(M-1)
    BY <1>1, <2>1 DEF M
  <2>3. w - v \in Int /\ -M <= w - v /\ w - v < M
    BY SMTT(40), <1>1, <2>2
  <2>4. (w - v) % M = IF w >= v THEN w - v ELSE w - v + M
    BY <1>0, <1>1, <2>2, <2>3
  <2>5. (w - v) % M = d - 1
    <3>1. CASE r + 1 < M
      BY ONLY SMTT(40), <1>1, <1>7, <1>9, d > 0, <2>1, <2>2, <2>4, <3>1
    <3>2. CASE ~(r + 1 < M)
      <4>1. r = M - 1 /\ v = 0 /\ w >= v /\ w # r
        BY ONLY <1>1, <1>7, <1>9, d > 0, <2>1, <2>2, <3>2
      <4> QED
        BY ONLY SMTT(40), <1>1, <1>7, <1>9, <2>2, <2>4, <4>1
    <3> QED
      BY Zenon, <3>1, <3>2
  <2> QED
    BY Zenon, <2>5 DEF v
<1>8. /\ d = 0 <=> r = w
      /\ d = PIPESIZE <=> w = (r + PIPESIZE) % M
      /\ (w + 1) % M \in 0..(M-1) /\ (r + 1) % M \in 0..(M-1)
  BY SMTT(40), <1>1, <1>2, <1>7
<1> QED
  BY Zenon, <1>4, <1>5, <1>6, <1>8 DEF d, M

(* The counters and the ring in a typed state.                             *)
LEMMA Ring ==
  ASSUME TypeOK
  PROVE  /\ Count \in 0..PIPESIZE /\ Count \in Nat
         /\ Count = 0 <=> Empty
         /\ Count = PIPESIZE <=> Full
         /\ (nread + Count) % PIPESIZE = nwrite % PIPESIZE
         /\ \A i \in Int : i % PIPESIZE \in 0..(PIPESIZE-1)
         /\ nread \in Nat /\ nwrite \in Nat /\ PIPESIZE \in Nat \ {0}
<1>1. nread \in 0..UINT_MOD-1 /\ nwrite \in 0..UINT_MOD-1 /\ Count \in 0..PIPESIZE
  BY Zenon DEF TypeOK
<1>2. Count = (nwrite - nread) % UINT_MOD
  BY Zenon DEF Count
<1>3. /\ Count = 0 <=> nread = nwrite
      /\ Count = PIPESIZE <=> nwrite = (nread + PIPESIZE) % UINT_MOD
      /\ (nread + Count) % PIPESIZE = nwrite % PIPESIZE
  BY ZenonT(40), <1>1, <1>2, Counting
<1>4. PIPESIZE \in Nat \ {0} /\ UINT_MOD \in Nat
  BY Zenon, PipeConstants
<1>5. \A i \in Int : i % PIPESIZE \in 0..(PIPESIZE-1)
  BY Zenon, <1>4, ModTurn
<1>6. nread \in Nat /\ nwrite \in Nat /\ Count \in Nat
  BY SMTT(40), <1>1, <1>4
<1> QED
  BY Zenon, <1>1, <1>3, <1>4, <1>5, <1>6 DEF Empty, Full

(* The bytes in the pipe are a sequence.                                   *)
LEMMA ContentsSeq ==
  ASSUME TypeOK
  PROVE  /\ Contents \in Seq(Bytes) /\ Len(Contents) = Count
         /\ \A i \in 1..Count : Contents[i] = data[(nread + i - 1) % PIPESIZE]
<1>1. \A i \in 1..Count : (nread + i - 1) % PIPESIZE \in 0..(PIPESIZE-1)
  BY Ring
<1>2. Contents \in [1..Count -> Bytes] /\ Count \in Nat
  BY ZenonT(40), <1>1, Ring DEF Contents, TypeOK
<1>3. Contents \in Seq(Bytes)
  BY Zenon, <1>2, SeqDef
<1>4. DOMAIN Contents = 1..Count /\ DOMAIN Contents = 1..Len(Contents) /\ Len(Contents) \in Nat
  BY Zenon, <1>2, <1>3, LenProperties
<1>5. Len(Contents) = Count
  BY <1>2, <1>4
<1> QED
  BY ZenonT(40), <1>3, <1>5 DEF Contents

ContentsOK ==
  /\ Contents \in Seq(Bytes) /\ Len(Contents) = Count
  /\ \A i \in 1..Count : Contents[i] = data[(nread + i - 1) % PIPESIZE]

(* The same, before and after a step.                                      *)
LEMMA ContentsTyped == TypeOK => ContentsOK
  BY Zenon, ContentsSeq DEF ContentsOK

(* A byte put into a pipe that is not full: the counter moves by one.      *)
LEMMA PutCounts ==
  ASSUME TypeOK, ~Full, nwrite' = (nwrite + 1) % UINT_MOD, nread' = nread
  PROVE  Count' = Count + 1 /\ Count < PIPESIZE /\ nwrite' \in 0..UINT_MOD-1
<1>1. nread \in 0..UINT_MOD-1 /\ nwrite \in 0..UINT_MOD-1 /\ Count \in 0..PIPESIZE
  BY Zenon DEF TypeOK
<1>2. Count = (nwrite - nread) % UINT_MOD /\ Count' = (nwrite' - nread') % UINT_MOD
  BY Zenon DEF Count
<1>3. Count < PIPESIZE
  BY <1>1, Ring
<1>4. /\ (((nwrite + 1) % UINT_MOD) - nread) % UINT_MOD = Count + 1
      /\ (nwrite + 1) % UINT_MOD \in 0..UINT_MOD-1
  BY Zenon, <1>1, <1>2, <1>3, Counting
<1> QED
  BY Zenon, <1>2, <1>3, <1>4

(* A byte taken out of a pipe that is not empty.                           *)
LEMMA GetCounts ==
  ASSUME TypeOK, ~Empty, nread' = (nread + 1) % UINT_MOD, nwrite' = nwrite
  PROVE  Count' = Count - 1 /\ Count > 0 /\ nread' \in 0..UINT_MOD-1
<1>1. nread \in 0..UINT_MOD-1 /\ nwrite \in 0..UINT_MOD-1 /\ Count \in 0..PIPESIZE
  BY Zenon DEF TypeOK
<1>2. Count = (nwrite - nread) % UINT_MOD /\ Count' = (nwrite' - nread') % UINT_MOD
  BY Zenon DEF Count
<1>3. Count > 0
  BY SMTT(40), <1>1, Ring
<1>4. /\ (nwrite - ((nread + 1) % UINT_MOD)) % UINT_MOD = Count - 1
      /\ (nread + 1) % UINT_MOD \in 0..UINT_MOD-1
  BY Zenon, <1>1, <1>2, <1>3, Counting
<1> QED
  BY Zenon, <1>2, <1>3, <1>4

(* What a step does to the ring: nothing, a byte more, or a byte less.     *)
LEMMA RingSteps ==
  ASSUME PipeInv, TypeOK, Next
  PROVE  \/ UNCHANGED <<data, nread, nwrite, ch>>
         \/ \E p \in Writers, b \in Bytes : pipewrite_byte(p, b)
         \/ \E p \in Readers : piperead_byte(p) \/ piperead_fault(p)
  BY ZenonT(40) DEF Next, call, acquire, sleep, fileclose, pipeclose, kill, pipewrite, piperead, closed,
     pipewrite_error, pipewrite_full, pipewrite_return, piperead_killed, piperead_empty,
     piperead_ready, piperead_return, vars, pipe

(* The types of the pipe and of the calls in progress are preserved.       *)
LEMMA TypeStep == PipeInv /\ PipeInv' /\ TypeOK /\ [Next]_vars => TypeOK'
<1> SUFFICES ASSUME PipeInv, PipeInv', TypeOK, [Next]_vars PROVE TypeOK'
  BY Zenon
<1>1. /\ readopen' \in BOOLEAN /\ writeopen' \in BOOLEAN /\ open' \subseteq Procs
      /\ killed' \in [Procs -> BOOLEAN] /\ pc' \in [Procs -> Places]
      /\ \A p \in Procs : lock' = p <=> pc'[p] \in Locked
  BY Zenon DEF PipeInv, EndsInv
<1>2. freed' \in BOOLEAN
  <2>1. freed' = freed \/ freed' \in BOOLEAN
    BY ZenonT(40) DEF Next, call, acquire, sleep, fileclose, pipeclose, kill, pipewrite, piperead, closed,
       pipewrite_error, pipewrite_full, pipewrite_return, pipewrite_byte, piperead_killed,
       piperead_empty, piperead_ready, piperead_byte, piperead_fault, piperead_return, vars
  <2> QED
    BY Zenon, <2>1 DEF TypeOK
<1>3. left' \in [Procs -> Nat]
  <2>1. ASSUME NEW p \in Procs, NEW n \in Nat, left' = [left EXCEPT ![p] = n]
        PROVE  left' \in [Procs -> Nat]
    BY Zenon, <2>1 DEF TypeOK
  <2>2. ASSUME NEW p \in Procs, left[p] > 0, left' = [left EXCEPT ![p] = @ - 1]
        PROVE  left' \in [Procs -> Nat]
    <3>1. left[p] - 1 \in Nat /\ left' = [left EXCEPT ![p] = left[p] - 1]
      BY <2>2 DEF TypeOK
    <3> QED
      BY ZenonT(40), <2>1, <3>1
  <2>3. CASE UNCHANGED left
    BY Zenon, <2>3 DEF TypeOK
  <2>4. /\ \A p \in Writers : p \in Procs
        /\ \A p \in Readers : p \in Procs
        /\ \A n \in Lengths : n \in Nat
        /\ 0 \in Nat
    BY Zenon, PipeConstants DEF Procs
  <2>5. ASSUME NEW p \in Procs,
               \/ \E n \in Lengths : call(p, n)
               \/ acquire(p) \/ sleep(p) \/ fileclose(p) \/ pipeclose(p) \/ kill(p)
        PROVE  left' \in [Procs -> Nat]
    BY Zenon, <2>1, <2>3, <2>4, <2>5 DEF call, acquire, sleep, fileclose, pipeclose, kill
  <2>6. ASSUME NEW p \in Writers, pipewrite(p) PROVE left' \in [Procs -> Nat]
    <3>1. CASE \E b \in Bytes : pipewrite_byte(p, b)
      BY ZenonT(40), <2>2, <2>4, <3>1 DEF pipewrite_byte
    <3>2. CASE pipewrite_error(p) \/ pipewrite_full(p) \/ pipewrite_return(p)
      BY Zenon, <2>1, <2>3, <2>4, <3>2 DEF pipewrite_error, pipewrite_full, pipewrite_return
    <3> QED
      BY Zenon, <2>6, <3>1, <3>2 DEF pipewrite
  <2>7. ASSUME NEW p \in Readers, piperead(p) PROVE left' \in [Procs -> Nat]
    <3>1. CASE piperead_byte(p)
      BY ZenonT(40), <2>2, <2>4, <3>1 DEF piperead_byte
    <3>2. CASE piperead_killed(p) \/ piperead_empty(p) \/ piperead_ready(p)
               \/ piperead_fault(p) \/ piperead_return(p)
      BY Zenon, <2>1, <2>3, <2>4, <3>2 DEF piperead_killed, piperead_empty, piperead_ready,
         piperead_fault, piperead_return
    <3> QED
      BY Zenon, <2>7, <3>1, <3>2 DEF piperead
  <2> QED
    BY Zenon, <2>3, <2>5, <2>6, <2>7 DEF Next, closed, vars
<1> DEFINE RingOK ==
      /\ data' \in [0..PIPESIZE-1 -> Bytes] /\ ch' \in [Readers -> Bytes]
      /\ nread' \in 0..UINT_MOD-1 /\ nwrite' \in 0..UINT_MOD-1 /\ Count' \in 0..PIPESIZE
<1>4. RingOK
  <2>1. CASE UNCHANGED <<data, nread, nwrite, ch>>
    BY Zenon, <2>1 DEF TypeOK, Count
  <2>2. ASSUME NEW p \in Writers, NEW b \in Bytes, pipewrite_byte(p, b)
        PROVE  RingOK
    <3>1. /\ ~Full /\ nwrite' = (nwrite + 1) % UINT_MOD /\ UNCHANGED <<nread, ch>>
          /\ data' = [data EXCEPT ![nwrite % PIPESIZE] = b]
      BY Zenon, <2>2 DEF pipewrite_byte
    <3>2. Count' \in 0..PIPESIZE /\ nwrite' \in 0..UINT_MOD-1
      BY SMTT(40), <3>1, PutCounts, Ring
    <3> QED
      BY ZenonT(40), <3>1, <3>2 DEF TypeOK
  <2>3. ASSUME NEW p \in Readers, piperead_byte(p) \/ piperead_fault(p)
        PROVE  RingOK
    <3>1. /\ ~Empty /\ nread' = (nread + 1) % UINT_MOD /\ UNCHANGED <<nwrite, data>>
          /\ ch' = [ch EXCEPT ![p] = data[nread % PIPESIZE]]
      BY Zenon, <2>3 DEF piperead_byte, piperead_fault
    <3>2. Count' \in 0..PIPESIZE /\ nread' \in 0..UINT_MOD-1
      BY <3>1, GetCounts, Ring
    <3>3. data[nread % PIPESIZE] \in Bytes
      BY Ring DEF TypeOK
    <3> QED
      BY Zenon, <3>1, <3>2, <3>3 DEF TypeOK
  <2>4. CASE UNCHANGED vars
    BY Zenon, <2>1, <2>4 DEF vars
  <2>5. CASE Next
    <3>1. \/ UNCHANGED <<data, nread, nwrite, ch>>
          \/ \E p \in Writers, b \in Bytes : pipewrite_byte(p, b)
          \/ \E p \in Readers : piperead_byte(p) \/ piperead_fault(p)
      BY Zenon, <2>5, RingSteps
    <3> HIDE DEF RingOK
    <3> QED
      BY Zenon, <2>1, <2>2, <2>3, <3>1
  <2> QED
    BY Zenon, <2>4, <2>5
<1> QED
  BY Zenon, <1>1, <1>2, <1>3, <1>4 DEF TypeOK

(* A written byte goes behind the bytes in the pipe, and into none of      *)
(* their places, however the counter wraps.                                *)
LEMMA PutRefines ==
  ASSUME PipeInv, TypeOK, TypeOK', NEW p \in Writers, NEW b \in Bytes, pipewrite_byte(p, b)
  PROVE  Stream!Put(b)
<1>1. /\ pc[p] = "w_loop" /\ readopen /\ ~Full
      /\ data' = [data EXCEPT ![nwrite % PIPESIZE] = b]
      /\ nwrite' = (nwrite + 1) % UINT_MOD
      /\ UNCHANGED <<nread, readopen, writeopen, ch>>
  BY Zenon DEF pipewrite_byte
<1>2. writeopen
  BY Zenon, <1>1 DEF PipeInv, EndsInv, InWrite, Procs
<1>3. Count' = Count + 1 /\ Count < PIPESIZE /\ Count \in Nat
  BY Zenon, <1>1, PutCounts, Ring
<1>4. /\ Contents \in Seq(Bytes) /\ Len(Contents) = Count
      /\ \A i \in 1..Count : Contents[i] = data[(nread + i - 1) % PIPESIZE]
  BY Zenon, ContentsSeq
<1>5. /\ Contents' \in Seq(Bytes) /\ Len(Contents') = Count + 1
      /\ \A i \in 1..(Count + 1) : Contents'[i] = data'[(nread + i - 1) % PIPESIZE]
  <2>1. ContentsOK'
    BY ContentsTyped, PTL
  <2> QED
    BY Zenon, <1>1, <1>3, <2>1 DEF ContentsOK
<1>6. Contents'[Count + 1] = b
  <2>1. (nread + (Count + 1) - 1) % PIPESIZE = nwrite % PIPESIZE
    <3>1. nread + (Count + 1) - 1 = nread + Count
      BY Ring
    <3> QED
      BY Zenon, <3>1, Ring
  <2>2. nwrite % PIPESIZE \in 0..(PIPESIZE-1)
    BY SMTT(40), Ring
  <2>3. data'[nwrite % PIPESIZE] = b
    BY Zenon, <1>1, <2>2 DEF TypeOK
  <2> QED
    BY SMTT(40), <1>3, <1>5, <2>1, <2>3
<1>7. ASSUME NEW i \in 1..Count PROVE Contents'[i] = Contents[i]
  <2>1. (nread + i - 1) % PIPESIZE # nwrite % PIPESIZE
    <3>1. /\ nread + i - 1 \in Int /\ Count + 1 - i \in 1..(PIPESIZE - 1)
          /\ (nread + i - 1) + (Count + 1 - i) = nread + Count
      BY SMTT(40), <1>3, Ring
    <3>2. ((nread + i - 1) + (Count + 1 - i)) % PIPESIZE # (nread + i - 1) % PIPESIZE
      BY ZenonT(40), <3>1, Ring, ModInjective
    <3> QED
      BY Zenon, <3>1, <3>2, Ring
  <2>2. (nread + i - 1) % PIPESIZE \in 0..(PIPESIZE-1)
    BY SMTT(40), <1>3, Ring
  <2>3. data'[(nread + i - 1) % PIPESIZE] = data[(nread + i - 1) % PIPESIZE]
    BY Zenon, <1>1, <2>1, <2>2 DEF TypeOK
  <2> QED
    BY <1>3, <1>4, <1>5, <2>3
<1>8. Contents' = Append(Contents, b)
  <2>1. /\ Append(Contents, b) \in Seq(Bytes) /\ Len(Append(Contents, b)) = Count + 1
        /\ \A i \in 1..Count : Append(Contents, b)[i] = Contents[i]
        /\ Append(Contents, b)[Count + 1] = b
    BY <1>4, AppendProperties
  <2>2. \A i \in 1..(Count + 1) : Contents'[i] = Append(Contents, b)[i]
    BY <1>3, <1>6, <1>7, <2>1
  <2> QED
    BY Zenon, <1>5, <2>1, <2>2, SeqEqual
<1> QED
  BY Zenon, <1>1, <1>2, <1>3, <1>4, <1>8 DEF Stream!Put

(* A read byte is the oldest one in the pipe.                              *)
LEMMA GetRefines ==
  ASSUME PipeInv, TypeOK, TypeOK', NEW p \in Readers, piperead_byte(p) \/ piperead_fault(p)
  PROVE  Stream!Get(p)
<1>1. /\ pc[p] = "r_copy" /\ ~Empty
      /\ ch' = [ch EXCEPT ![p] = data[nread % PIPESIZE]]
      /\ nread' = (nread + 1) % UINT_MOD
      /\ UNCHANGED <<data, nwrite, readopen, writeopen>>
  BY Zenon DEF piperead_byte, piperead_fault
<1>2. readopen
  BY Zenon, <1>1 DEF PipeInv, EndsInv, InRead, Procs
<1>3. Count' = Count - 1 /\ Count > 0 /\ Count \in Nat
  BY Zenon, <1>1, GetCounts, Ring
<1>4. /\ Contents \in Seq(Bytes) /\ Len(Contents) = Count
      /\ \A i \in 1..Count : Contents[i] = data[(nread + i - 1) % PIPESIZE]
  BY Zenon, ContentsSeq
<1>5. /\ Contents' \in Seq(Bytes) /\ Len(Contents') = Count - 1
      /\ \A i \in 1..(Count - 1) : Contents'[i] = data[(nread' + i - 1) % PIPESIZE]
  <2>1. ContentsOK'
    BY ContentsTyped, PTL
  <2> QED
    BY Zenon, <1>1, <1>3, <2>1 DEF ContentsOK
<1>6. Contents # <<>> /\ Head(Contents) = data[nread % PIPESIZE]
  <2>1. Contents # <<>>
    BY <1>3, <1>4, EmptySeq
  <2>2. Head(Contents) = Contents[1]
    BY <1>4, <2>1
  <2>3. nread + 1 - 1 = nread
    BY SMTT(40), Ring
  <2> QED
    BY SMTT(40), <1>3, <1>4, <2>1, <2>2, <2>3
<1>7. ASSUME NEW i \in 1..(Count - 1) PROVE Contents'[i] = Contents[i + 1]
  <2>1. (nread' + i - 1) % PIPESIZE = (nread + (i + 1) - 1) % PIPESIZE
    <3>1. nread' = IF nread + 1 < UINT_MOD THEN nread + 1 ELSE 0
      <4>1. nread \in 0..UINT_MOD-1 /\ UINT_MOD \in Nat \ {0} /\ nread + 1 \in Int
        BY PipeConstants DEF TypeOK
      <4>2. CASE nread + 1 < UINT_MOD
        <5>1. (nread + 1) % UINT_MOD = nread + 1
          <6>1. \A x \in Int : 0 <= x /\ x < UINT_MOD => x % UINT_MOD = x
            BY ZenonT(40), <4>1, ModTurn
          <6> QED
            BY SMTT(40), <4>1, <4>2, <6>1
        <5>2. nread' = nread + 1
          BY Zenon, <1>1, <5>1
        <5> QED
          BY Zenon, <4>1, <4>2, <5>2
      <4>3. CASE ~(nread + 1 < UINT_MOD)
        <5>1. nread + 1 = UINT_MOD
          BY <4>1, <4>3
        <5>2. UINT_MOD % UINT_MOD = UINT_MOD - UINT_MOD
          BY <4>1, ModTurn
        <5> QED
          BY <1>1, <4>1, <4>3, <5>1, <5>2
      <4> QED
        BY Zenon, <4>2, <4>3
    <3>2. CASE nread + 1 < UINT_MOD
      <4>1. nread' + i - 1 = nread + (i + 1) - 1
        BY <1>3, <3>1, <3>2, Ring
      <4> QED
        BY Zenon, <4>1
    <3>3. CASE ~(nread + 1 < UINT_MOD)
      <4>1. /\ nread' + i - 1 = i - 1 /\ i - 1 \in Int /\ UINT_MOD \in Int
            /\ nread + (i + 1) - 1 = (i - 1) + UINT_MOD
        BY SMTT(40), <1>3, <3>1, <3>3, PipeConstants DEF TypeOK
      <4>2. ((i - 1) + UINT_MOD) % PIPESIZE = (i - 1) % PIPESIZE
        BY ZenonT(40), <4>1, ModPeriod, PipeConstants
      <4> QED
        BY Zenon, <4>1, <4>2
    <3> QED
      BY Zenon, <3>2, <3>3
  <2>2. i + 1 \in 1..Count
    BY SMTT(40), <1>3
  <2>3. Contents[i + 1] = data[(nread + (i + 1) - 1) % PIPESIZE]
    BY Zenon, <1>4, <2>2
  <2> QED
    BY Zenon, <1>5, <2>1, <2>3
<1>8. Contents' = Tail(Contents)
  <2>1. /\ Tail(Contents) \in Seq(Bytes) /\ Len(Tail(Contents)) = Count - 1
        /\ \A i \in 1..(Count - 1) : Tail(Contents)[i] = Contents[i + 1]
    BY <1>4, <1>6, HeadTailProperties
  <2> QED
    BY Zenon, <1>5, <1>7, <2>1, SeqEqual
<1> QED
  BY ZenonT(40), <1>1, <1>2, <1>6, <1>8 DEF Stream!Get

(* pipeclose() shuts the end of its caller, which was open.                *)
LEMMA CloseRefines ==
  ASSUME PipeInv, TypeOK, NEW p \in Procs, pipeclose(p)
  PROVE  Stream!CloseWriter \/ Stream!CloseReader
<1>1. UNCHANGED <<Contents, ch>>
  BY Zenon DEF pipeclose, Contents, Count
<1>2. CASE p \in Writers
  <2>1. writeopen /\ writeopen' = FALSE /\ readopen' = readopen
    BY ZenonT(40), <1>2, PipeConstants DEF pipeclose, PipeInv, EndsInv, Procs
  <2> QED
    BY Zenon, <1>1, <2>1 DEF Stream!CloseWriter
<1>3. CASE p \in Readers
  <2>1. readopen /\ readopen' = FALSE /\ writeopen' = writeopen
    BY ZenonT(40), <1>3, PipeConstants DEF pipeclose, PipeInv, EndsInv, Procs
  <2> QED
    BY Zenon, <1>1, <2>1 DEF Stream!CloseReader
<1> QED
  BY Zenon, <1>2, <1>3 DEF Procs

(* Every other step leaves the bytes and the ends alone.                   *)
LEMMA QuietPipe ==
  ASSUME Next,
         \A p \in Writers, b \in Bytes : ~pipewrite_byte(p, b),
         \A p \in Readers : ~piperead_byte(p) /\ ~piperead_fault(p),
         \A p \in Procs : ~pipeclose(p)
  PROVE  UNCHANGED <<Contents, ch, readopen, writeopen>>
<1>1. UNCHANGED <<data, nread, nwrite, ch, readopen, writeopen>>
  BY Zenon DEF Next, call, acquire, sleep, fileclose, kill, pipewrite, piperead, closed,
     pipewrite_error, pipewrite_full, pipewrite_return, piperead_killed, piperead_empty,
     piperead_ready, piperead_return, vars, pipe
<1> QED
  BY Zenon, <1>1 DEF Contents, Count

(* Each step of the pipe is a step of the byte stream, or none.            *)
LEMMA NextRefines ==
  PipeInv /\ TypeOK /\ TypeOK' /\ [Next]_vars => [Stream!Next]_(Stream!vars)
<1> SUFFICES ASSUME PipeInv, TypeOK, TypeOK', [Next]_vars
             PROVE  Stream!Next \/ UNCHANGED Stream!vars
  BY Zenon
<1>1. CASE UNCHANGED vars
  BY Zenon, <1>1 DEF vars, Stream!vars, Contents, Count
<1>2. CASE \E p \in Writers, b \in Bytes : pipewrite_byte(p, b)
  BY Zenon, <1>2, PutRefines DEF Stream!Next
<1>3. CASE \E p \in Readers : piperead_byte(p) \/ piperead_fault(p)
  BY Zenon, <1>3, GetRefines DEF Stream!Next
<1>4. CASE \E p \in Procs : pipeclose(p)
  BY Zenon, <1>4, CloseRefines DEF Stream!Next
<1>5. CASE Next /\ ~<1>2!1 /\ ~<1>3!1 /\ ~<1>4!1
  BY Zenon, <1>5, QuietPipe DEF Stream!vars
<1> QED
  BY Zenon, <1>1, <1>2, <1>3, <1>4, <1>5

(* A new pipe is empty and has both its ends.                              *)
LEMMA InitRefines == Init => TypeOK /\ Stream!Init
<1> SUFFICES ASSUME Init PROVE TypeOK /\ Stream!Init
  BY Zenon
<1>1. 0 % UINT_MOD = 0 /\ UINT_MOD \in Nat \ {0}
  <2>1. UINT_MOD \in Nat \ {0}
    BY PipeConstants
  <2>2. 0 \in Int /\ 0 <= 0 /\ 0 < UINT_MOD
    BY <2>1
  <2> QED
    BY Zenon, <2>1, <2>2, ModTurn
<1>2. Count = 0
  <2>1. nwrite - nread = 0
    BY SMTT(40) DEF Init
  <2> QED
    BY Zenon, <1>1, <2>1 DEF Count
<1>3. TypeOK
  <2>1. data \in [0..PIPESIZE-1 -> Bytes] /\ ch \in [Readers -> Bytes]
    BY Zenon DEF Init
  <2>2. nread \in 0..UINT_MOD-1 /\ nwrite \in 0..UINT_MOD-1 /\ Count \in 0..PIPESIZE
    BY <1>1, <1>2, PipeConstants DEF Init
  <2>3. /\ killed \in [Procs -> BOOLEAN] /\ left \in [Procs -> Nat] /\ pc \in [Procs -> Places]
        /\ open \subseteq Procs
    BY Zenon DEF Init, Places
  <2>4. \A p \in Procs : lock = p <=> pc[p] \in Locked
    BY Zenon, PipeConstants DEF Init, Locked
  <2> QED
    BY ZenonT(40), <2>1, <2>2, <2>3, <2>4 DEF TypeOK, Init
<1>4. Contents = <<>>
  <2>1. Contents \in Seq(Bytes) /\ Len(Contents) = 0
    BY Zenon, <1>2, <1>3, ContentsSeq
  <2> QED
    BY Zenon, <2>1, EmptySeq
<1> QED
  BY Zenon, <1>3, <1>4 DEF Init, Stream!Init

(* The fields of the pipe keep their types, the counters are never more    *)
(* than PIPESIZE apart although pipewrite() and piperead() let them wrap,  *)
(* and the lock is held exactly in the critical sections.                  *)
THEOREM PipeTypes == Spec => []TypeOK
<1>1. Init => TypeOK
  BY Zenon, InitRefines
<1> QED
  BY <1>1, TypeStep, PipeInvariance, PTL DEF Spec

(* The circular buffer of pipewrite() and piperead() is a first-in         *)
(* first-out stream for every PIPESIZE that divides the counters' modulus, *)
(* and any number of readers and writers, killed or not.                   *)
THEOREM PipeIsByteStream == Spec => ImplementsByteStream
<1>1. ImplementsByteStream <=> Stream!Spec
  BY Zenon DEF ImplementsByteStream
<1>2. Init => Stream!Init
  BY Zenon, InitRefines
<1> QED
  BY <1>1, <1>2, NextRefines, PipeTypes, PipeInvariance, PTL DEF Spec, Stream!Spec
=============================================================================
