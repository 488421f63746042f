-------------------------------- MODULE Pipe --------------------------------
(***************************************************************************)
(* kernel/pipe.c: one pipe, the processes that hold its ends, and the      *)
(* kill() calls and failing user addresses that may hit them in mid-call.  *)
(*                                                                         *)
(* pi->lock is held from acquire() to release() or sleep(); each pass of   *)
(* a loop under it is a step, since kill() does not need that lock.  Going *)
(* to sleep releases the lock in one step with falling asleep (module      *)
(* Sched).  nread and nwrite are unsigned ints and wrap around, here at    *)
(* UINT_MOD.                                                               *)
(***************************************************************************)
EXTENDS Integers, Sequences, FiniteSets

CONSTANTS
  Readers, Writers,  \* processes with a descriptor for the end
  Bytes,
  PIPESIZE,
  UINT_MOD,          \* 2^32 in the code
  NoProc,            \* nobody holds the lock
  Lengths,           \* the n of read() and write(), for model checking
  Victims            \* processes that kill() may be called on

Procs == Readers \cup Writers

ASSUME PipeConstants ==
  /\ Readers \cap Writers = {} /\ Victims \subseteq Procs /\ NoProc \notin Procs
  /\ PIPESIZE \in Nat \ {0} /\ UINT_MOD \in Nat /\ Lengths \subseteq Nat
  /\ UINT_MOD % PIPESIZE = 0 /\ UINT_MOD > PIPESIZE

VARIABLES
  data, nread, nwrite, readopen, writeopen, lock,  \* struct pipe
  freed,           \* kfree() has been called on it
  open,            \* processes that have not closed their descriptor
  killed, pc,
  left,            \* n - i of the call in progress
  ch               \* piperead()'s ch

pipe == <<data, nread, nwrite, readopen, writeopen>>
vars == <<data, nread, nwrite, readopen, writeopen, lock, freed, open, killed, pc, left, ch>>

Empty == nread = nwrite
(* mutant: the sum is computed in a wider type and does not wrap *)
Full_NoWrap == nwrite = nread + PIPESIZE

Full == nwrite = (nread + PIPESIZE) % UINT_MOD

Goto(p, l) == pc' = [pc EXCEPT ![p] = l]

(* wakeup(&pi->nread) and wakeup(&pi->nwrite), applied to the places f *)
wakeup_nread(f) == [p \in Procs |-> IF f[p] = "r_asleep" THEN "r_acquire" ELSE f[p]]
wakeup_nwrite(f) == [p \in Procs |-> IF f[p] = "w_asleep" THEN "w_acquire" ELSE f[p]]
-----------------------------------------------------------------------------
(* write() and read() on the descriptor reach pipewrite() and piperead();  *)
(* usertrap() lets no killed process start a system call.                  *)
call(p, n) ==
  /\ pc[p] = "user" /\ p \in open /\ ~killed[p]
  /\ left' = [left EXCEPT ![p] = n]
  /\ Goto(p, IF p \in Writers THEN "w_acquire" ELSE "r_acquire")
  /\ UNCHANGED <<pipe, lock, freed, open, killed, ch>>

(* acquire(&pi->lock), at the start of a call or in sleep() after a wakeup *)
acquire(p) ==
  /\ pc[p] \in {"w_acquire", "r_acquire"}
  /\ lock = NoProc
  /\ lock' = p
  /\ Goto(p, IF pc[p] = "w_acquire" THEN "w_loop" ELSE "r_loop")
  /\ UNCHANGED <<pipe, freed, open, killed, left, ch>>

(* sleep(chan, &pi->lock) *)
sleep(p) ==
  /\ pc[p] \in {"w_sleep", "r_sleep"}
  /\ lock' = NoProc
  /\ Goto(p, IF pc[p] = "w_sleep" THEN "w_asleep" ELSE "r_asleep")
  /\ UNCHANGED <<pipe, freed, open, killed, left, ch>>

(* mutant: a write() without a reader is tried again *)
pipewrite_error_Retry(p) ==
  /\ pc[p] = "w_loop" /\ left[p] > 0
  /\ ~readopen \/ killed[p]
  /\ lock' = NoProc
  /\ Goto(p, IF killed[p] THEN "user" ELSE "w_acquire")
  /\ UNCHANGED <<pipe, freed, open, killed, left, ch>>

(* A pass of pipewrite()'s loop, by its outcome. *)
pipewrite_error(p) ==
  /\ pc[p] = "w_loop" /\ left[p] > 0
  /\ ~readopen \/ killed[p]
  /\ lock' = NoProc
  /\ Goto(p, "user")
  /\ left' = [left EXCEPT ![p] = 0]
  /\ UNCHANGED <<pipe, freed, open, killed, ch>>
(* mutant: the writer goes to sleep without waking the readers *)
pipewrite_full_NoWakeup(p) ==
  /\ pc[p] = "w_loop" /\ left[p] > 0
  /\ readopen /\ ~killed[p]
  /\ Full
  /\ Goto(p, "w_sleep")
  /\ UNCHANGED <<pipe, lock, freed, open, killed, left, ch>>

pipewrite_full(p) ==
  /\ pc[p] = "w_loop" /\ left[p] > 0
  /\ readopen /\ ~killed[p]
  /\ Full
  /\ pc' = [wakeup_nread(pc) EXCEPT ![p] = "w_sleep"]
  /\ UNCHANGED <<pipe, lock, freed, open, killed, left, ch>>

pipewrite_byte(p, b) ==
  /\ pc[p] = "w_loop" /\ left[p] > 0
  /\ readopen /\ ~killed[p]
  /\ ~Full
  /\ data' = [data EXCEPT ![nwrite % PIPESIZE] = b]
  /\ nwrite' = (nwrite + 1) % UINT_MOD
  /\ left' = [left EXCEPT ![p] = @ - 1]
  /\ UNCHANGED <<nread, readopen, writeopen, lock, freed, open, killed, pc, ch>>

(* All n bytes are written, or copyin() failed. *)
pipewrite_return(p) ==
  /\ pc[p] = "w_loop"
  /\ left[p] = 0 \/ (readopen /\ ~killed[p] /\ ~Full)
  /\ lock' = NoProc
  /\ pc' = [wakeup_nread(pc) EXCEPT ![p] = "user"]
  /\ left' = [left EXCEPT ![p] = 0]
  /\ UNCHANGED <<pipe, freed, open, killed, ch>>

(* piperead()'s waiting loop, by its outcome *)
piperead_killed(p) ==
  /\ pc[p] = "r_loop"
  /\ Empty /\ writeopen /\ killed[p]
  /\ lock' = NoProc
  /\ Goto(p, "user")
  /\ left' = [left EXCEPT ![p] = 0]
  /\ UNCHANGED <<pipe, freed, open, killed, ch>>

piperead_empty(p) ==
  /\ pc[p] = "r_loop"
  /\ Empty /\ writeopen /\ ~killed[p]
  /\ Goto(p, "r_sleep")
  /\ UNCHANGED <<pipe, lock, freed, open, killed, left, ch>>

piperead_ready(p) ==
  /\ pc[p] = "r_loop"
  /\ ~Empty \/ ~writeopen
  /\ Goto(p, "r_copy")
  /\ UNCHANGED <<pipe, lock, freed, open, killed, left, ch>>
(* mutant: data[++pi->nread % PIPESIZE] *)
piperead_byte_PreIncrement(p) ==
  /\ pc[p] = "r_copy" /\ left[p] > 0 /\ ~Empty
  /\ ch' = [ch EXCEPT ![p] = data[(nread + 1) % PIPESIZE]]
  /\ nread' = (nread + 1) % UINT_MOD
  /\ left' = [left EXCEPT ![p] = @ - 1]
  /\ UNCHANGED <<data, nwrite, readopen, writeopen, lock, freed, open, killed, pc>>

(* A pass of the copying loop: copyout() succeeds ... *)
piperead_byte(p) ==
  /\ pc[p] = "r_copy" /\ left[p] > 0 /\ ~Empty
  /\ ch' = [ch EXCEPT ![p] = data[nread % PIPESIZE]]
  /\ nread' = (nread + 1) % UINT_MOD
  /\ left' = [left EXCEPT ![p] = @ - 1]
  /\ UNCHANGED <<data, nwrite, readopen, writeopen, lock, freed, open, killed, pc>>
(* mutant: the failed copyout() returns at once, as pipewrite()'s errors do *)
piperead_fault_NoWakeup(p) ==
  /\ pc[p] = "r_copy" /\ left[p] > 0 /\ ~Empty
  /\ ch' = [ch EXCEPT ![p] = data[nread % PIPESIZE]]
  /\ nread' = (nread + 1) % UINT_MOD
  /\ lock' = NoProc
  /\ Goto(p, "user")
  /\ left' = [left EXCEPT ![p] = 0]
  /\ UNCHANGED <<data, nwrite, readopen, writeopen, freed, open, killed>>

(* ... or fails, when the byte has already left the pipe, ... *)
piperead_fault(p) ==
  /\ pc[p] = "r_copy" /\ left[p] > 0 /\ ~Empty
  /\ ch' = [ch EXCEPT ![p] = data[nread % PIPESIZE]]
  /\ nread' = (nread + 1) % UINT_MOD
  /\ lock' = NoProc
  /\ pc' = [wakeup_nwrite(pc) EXCEPT ![p] = "user"]
  /\ left' = [left EXCEPT ![p] = 0]
  /\ UNCHANGED <<data, nwrite, readopen, writeopen, freed, open, killed>>

(* ... or there is no more to copy. *)
piperead_return(p) ==
  /\ pc[p] = "r_copy"
  /\ left[p] = 0 \/ Empty
  /\ lock' = NoProc
  /\ pc' = [wakeup_nwrite(pc) EXCEPT ![p] = "user"]
  /\ left' = [left EXCEPT ![p] = 0]
  /\ UNCHANGED <<pipe, freed, open, killed, ch>>
-----------------------------------------------------------------------------
(* mutant: every close() of a descriptor closes the pipe's end *)
fileclose_NoRefcount(p) ==
  /\ pc[p] = "user" /\ p \in open
  /\ open' = open \ {p}
  /\ Goto(p, "pipeclose")
  /\ UNCHANGED <<pipe, lock, freed, killed, left, ch>>

(* fileclose() drops the reference of the descriptor; the last one of an   *)
(* end goes on to pipeclose().                                             *)
fileclose(p) ==
  /\ pc[p] = "user" /\ p \in open
  /\ open' = open \ {p}
  /\ Goto(p, IF (p \in Writers /\ open' \cap Writers = {}) \/
                (p \in Readers /\ open' \cap Readers = {})
             THEN "pipeclose" ELSE "user")
  /\ UNCHANGED <<pipe, lock, freed, killed, left, ch>>
pipeclose(p) ==
  /\ pc[p] = "pipeclose"
  /\ lock = NoProc
  /\ writeopen' = (writeopen /\ p \notin Writers)
  /\ readopen' = (readopen /\ p \notin Readers)
  /\ pc' = [(IF p \in Writers THEN wakeup_nread(pc) ELSE wakeup_nwrite(pc))
              EXCEPT ![p] = "user"]
  /\ freed' = (~readopen' /\ ~writeopen')
  /\ UNCHANGED <<data, nread, nwrite, lock, open, killed, left, ch>>

(* kill(): it makes a sleeping victim runnable, and holds no pipe's lock.  *)
kill(p) ==
  /\ p \in Victims /\ ~killed[p]
  /\ killed' = [killed EXCEPT ![p] = TRUE]
  /\ Goto(p, CASE pc[p] = "w_asleep" -> "w_acquire"
               [] pc[p] = "r_asleep" -> "r_acquire"
               [] OTHER -> pc[p])
  /\ UNCHANGED <<pipe, lock, freed, open, left, ch>>
-----------------------------------------------------------------------------
(* pipealloc(), and a fork() that gave every process its end; kalloc()     *)
(* fills the page with one byte.                                           *)
Init ==
  /\ \E b \in Bytes : data = [i \in 0..PIPESIZE-1 |-> b]
  /\ nread = 0 /\ nwrite = 0
  /\ readopen = TRUE /\ writeopen = TRUE
  /\ lock = NoProc
  /\ freed = FALSE
  /\ open = Procs
  /\ killed = [p \in Procs |-> FALSE]
  /\ pc = [p \in Procs |-> "user"]
  /\ left = [p \in Procs |-> 0]
  /\ ch \in [Readers -> Bytes]

(* Every process has closed its descriptor and the page is free again. *)
closed ==
  /\ freed /\ \A p \in Procs : pc[p] = "user"
  /\ UNCHANGED vars

pipewrite(p) ==
  \/ pipewrite_error(p) \/ pipewrite_full(p) \/ pipewrite_return(p)
  \/ \E b \in Bytes : pipewrite_byte(p, b)

piperead(p) ==
  \/ piperead_killed(p) \/ piperead_empty(p) \/ piperead_ready(p)
  \/ piperead_byte(p) \/ piperead_fault(p) \/ piperead_return(p)

Next ==
  \/ \E p \in Procs :
       \/ \E n \in Lengths : call(p, n)
       \/ acquire(p) \/ sleep(p)
       \/ fileclose(p) \/ pipeclose(p)
       \/ kill(p)
  \/ \E p \in Writers : pipewrite(p)
  \/ \E p \in Readers : piperead(p)
  \/ closed

Spec == Init /\ [][Next]_vars

(* The scheduler runs every runnable process (module Sched), and a         *)
(* spinning acquire() gets a lock that is released again and again.        *)
KernelStep(p) ==
  \/ acquire(p) \/ sleep(p) \/ pipeclose(p)
  \/ (p \in Writers /\ pipewrite(p)) \/ (p \in Readers /\ piperead(p))

FairSpec == Spec /\ \A p \in Procs : SF_vars(KernelStep(p))
-----------------------------------------------------------------------------
Places == {"user", "w_acquire", "w_loop", "w_sleep", "w_asleep",
           "r_acquire", "r_loop", "r_sleep", "r_asleep", "r_copy", "pipeclose"}
Locked == {"w_loop", "w_sleep", "r_loop", "r_sleep", "r_copy"}
InWrite(p) == pc[p] \in {"w_acquire", "w_loop", "w_sleep", "w_asleep"}
InRead(p) == pc[p] \in {"r_acquire", "r_loop", "r_sleep", "r_asleep", "r_copy"}

(* Bytes in the pipe, in unsigned arithmetic. *)
Count == (nwrite - nread) % UINT_MOD

(* Types of the pipe's fields; the two counters are never more than        *)
(* PIPESIZE apart, across their wrap-around, and the lock is held exactly  *)
(* inside the critical sections of pipewrite() and piperead().             *)
TypeOK ==
  /\ data \in [0..PIPESIZE-1 -> Bytes]
  /\ nread \in 0..UINT_MOD-1 /\ nwrite \in 0..UINT_MOD-1
  /\ Count \in 0..PIPESIZE
  /\ readopen \in BOOLEAN /\ writeopen \in BOOLEAN /\ freed \in BOOLEAN
  /\ open \subseteq Procs
  /\ killed \in [Procs -> BOOLEAN]
  /\ left \in [Procs -> Nat]
  /\ ch \in [Readers -> Bytes]
  /\ pc \in [Procs -> Places]
  /\ \A p \in Procs : lock = p <=> pc[p] \in Locked

(* The bytes in the pipe, oldest first. *)
Contents == [i \in 1..Count |-> data[(nread + i - 1) % PIPESIZE]]

Stream == INSTANCE ByteStream WITH queue <- Contents, got <- ch, Capacity <- PIPESIZE

(* The circular buffer with its wrapping counters is a bounded FIFO: a     *)
(* byte read is the oldest byte written and not yet read, whatever         *)
(* processes share the ends, and no byte is accepted when nobody can read. *)
ImplementsByteStream == Stream!Spec

(* A page that pipeclose() has freed is in no process's hands: nobody is   *)
(* in pipewrite(), piperead() or pipeclose() on it.                        *)
NoUseAfterFree == freed => \A p \in Procs : pc[p] = "user"

(* The comment-marked condition of pipewrite()'s sleep holds for as long   *)
(* as the writer sleeps and the lock is free: the pipe is full and has a   *)
(* reader.                                                                 *)
WriterSleepsOnlyIfFull ==
  lock = NoProc => \A p \in Writers : pc[p] = "w_asleep" => Full /\ readopen

(* The same for piperead(): a reader sleeps on only while the pipe is      *)
(* empty and a writer has it open.                                         *)
ReaderSleepsOnlyIfEmpty ==
  lock = NoProc => \A p \in Readers : pc[p] = "r_asleep" => Empty /\ writeopen

(* What pipewrite() achieves of it: readers are told of every byte and of  *)
(* the last writer's close() as long as no writer was killed in a call,    *)
(* and of the close() even then.                                           *)
ReadersAreTold ==
  lock = NoProc =>
    \A p \in Readers : pc[p] = "r_asleep" =>
      writeopen /\ (Empty \/ \E w \in Writers : killed[w])

(* Nobody sleeps on a pipe beside what they wait for. *)
SleepersAreTold == WriterSleepsOnlyIfFull /\ ReadersAreTold

(***************************************************************************)
(* The inductive invariant: whoever is in a call has the pipe open, an end *)
(* that is closed has no descriptor left, and a sleeper waits for what it  *)
(* should or the process at the pipe's lock is going to wake it.           *)
(***************************************************************************)
EndsInv ==
  /\ readopen \in BOOLEAN /\ writeopen \in BOOLEAN /\ killed \in [Procs -> BOOLEAN]
  /\ open \subseteq Procs /\ pc \in [Procs -> Places] /\ lock \in Procs \cup {NoProc}
  /\ \A p \in Procs : lock = p <=> pc[p] \in Locked
  /\ \A p \in Writers : InWrite(p) \/ pc[p] \in {"user", "pipeclose"}
  /\ \A p \in Readers : InRead(p) \/ pc[p] \in {"user", "pipeclose"}
  /\ \A p \in Procs : InWrite(p) \/ InRead(p) => p \in open
  /\ \A p, q \in Writers : pc[p] = "pipeclose" => writeopen /\ q \notin open /\ (pc[q] = "pipeclose" => q = p)
  /\ \A p, q \in Readers : pc[p] = "pipeclose" => readopen /\ q \notin open /\ (pc[q] = "pipeclose" => q = p)
  /\ \A p \in Writers : p \in open => writeopen
  /\ \A p \in Readers : p \in open => readopen
  /\ freed => ~readopen /\ ~writeopen

SleepInv ==
  /\ \A p \in Writers : pc[p] \in {"w_sleep", "w_asleep"} =>
       readopen /\ (Full \/ \E q \in Readers : pc[q] = "r_copy")
  /\ \A p \in Readers : pc[p] \in {"r_sleep", "r_asleep"} =>
       writeopen /\ (Empty \/ \E q \in Writers : killed[q] \/ pc[q] = "w_loop")

PipeInv == EndsInv /\ SleepInv

(* pipeclose() ends the calls of the other side: once no writer is left    *)
(* every read() returns, and once no reader is left every write() does.    *)
CloseEndsCalls ==
  /\ \A p \in Readers : (~writeopen /\ InRead(p)) ~> (pc[p] = "user")
  /\ \A p \in Writers : (~readopen /\ InWrite(p)) ~> (pc[p] = "user")
=============================================================================
