-------------------------------- MODULE Log --------------------------------
(***************************************************************************)
(* The redo log of kernel/log.c: group commit over the buffer cache, with  *)
(* a power failure possible between any two disk writes.                   *)
(*                                                                         *)
(* The disk is `home' (the blocks of the file system), `logblk' (the data  *)
(* blocks of the log) and `head' (the header block; the sequence stands    *)
(* for n and block[0..n-1]).  Everything else is memory and is lost in a   *)
(* crash.  Of the buffer cache the module keeps what the log relies on:    *)
(* the cached copy of each home block, the pins log_write() puts on it,    *)
(* and the sleep-lock of the one buffer a process is changing.  The log's  *)
(* own blocks are written through (bwrite) every time they are changed,    *)
(* so their cached copies never differ from the disk and are left out.     *)
(* A write of one block is atomic, as the code assumes.                    *)
(***************************************************************************)
EXTENDS Integers, Sequences, FiniteSets

CONSTANTS
  Procs,        \* processes that make file-system calls
  Blocks,       \* home blocks
  Vals,         \* contents of a block
  NotCached,    \* the cache holds no copy of the block
  NoBuf,        \* the process holds no buffer
  MAXOPBLOCKS,  \* param.h: max # of blocks any FS op writes
  LOGSIZE,      \* param.h: entries of struct logheader
  NLOG,         \* sb.nlog: blocks of the on-disk log, its header included
  MaxWrites     \* blocks an operation really adds to the log, at most

ASSUME LogConstants ==
  /\ MAXOPBLOCKS \in Nat \ {0} /\ LOGSIZE \in Nat /\ NLOG \in Nat \ {0}
  /\ MAXOPBLOCKS <= LOGSIZE
  /\ MaxWrites \in 0..MAXOPBLOCKS
  /\ NotCached \notin Vals /\ NoBuf \notin Blocks
  /\ IsFiniteSet(Procs)

VARIABLES
  home, logblk, head,       \* the disk
  cache, pins,              \* bio.c: cached data and pins of each home block
  lh,                       \* log.lh: block[0..n-1]
  outstanding, committing,  \* log.outstanding, log.committing
  pc, buf, left,            \* per process: place, buffer held, blocks left to add
  tail,                     \* loop index of write_log() and install_trans()
  phase                     \* "run", "panic", or the stage of recovery

disk == <<home, logblk, head>>
vars == <<home, logblk, head, cache, pins, lh, outstanding, committing,
          pc, buf, left, tail, phase>>

LogSlots == 1..(NLOG - 1)
InLog(b, s) == \E i \in DOMAIN s : s[i] = b
Sleeping(p) == pc[p] = "sleep"

(***************************************************************************)
(* begin_op(): one pass through the loop, under log.lock.  wakeup(&log)    *)
(* sends every sleeper back to the top of it.                              *)
(***************************************************************************)
(* mutant: begin_op() does not wait for a running commit *)
MayBegin_NoCommitTest ==
  Len(lh) + (outstanding + 1) * MAXOPBLOCKS <= LOGSIZE

(* mutant: the new operation itself is not counted in the reservation *)
MayBegin_OffByOne ==
  /\ ~committing
  /\ Len(lh) + outstanding * MAXOPBLOCKS <= LOGSIZE

MayBegin ==
  /\ ~committing
  /\ Len(lh) + (outstanding + 1) * MAXOPBLOCKS <= LOGSIZE

wakeup(f) == [p \in Procs |-> IF f[p] = "sleep" THEN "begin" ELSE f[p]]

begin_op(p) ==
  /\ phase = "run"
  /\ pc[p] \in {"idle", "begin"}
  /\ MayBegin
  /\ outstanding' = outstanding + 1
  /\ pc' = [pc EXCEPT ![p] = "op"]
  /\ left' = [left EXCEPT ![p] = MaxWrites]
  /\ UNCHANGED <<disk, cache, pins, lh, committing, buf, tail, phase>>

begin_op_sleep(p) ==
  /\ phase = "run"
  /\ pc[p] \in {"idle", "begin"}
  /\ ~MayBegin
  /\ pc' = [pc EXCEPT ![p] = "sleep"]
  /\ UNCHANGED <<disk, cache, pins, lh, outstanding, committing, buf, left,
                 tail, phase>>

(***************************************************************************)
(* bread(), then the operation changes b->data; the buffer stays locked    *)
(* until the brelse() after log_write().  A block that is in the log       *)
(* already may be changed any number of times more (absorption).           *)
(***************************************************************************)
modify(p, b, v) ==
  /\ phase = "run"
  /\ pc[p] = "op"
  /\ left[p] > 0 \/ InLog(b, lh)
  /\ \A q \in Procs : buf[q] # b
  /\ cache' = [cache EXCEPT ![b] = v]
  /\ buf' = [buf EXCEPT ![p] = b]
  /\ pc' = [pc EXCEPT ![p] = "log_write"]
  /\ UNCHANGED <<disk, pins, lh, outstanding, committing, left, tail, phase>>

TooBig == Len(lh) >= LOGSIZE \/ Len(lh) >= NLOG - 1

panic ==
  /\ phase' = "panic"
  /\ UNCHANGED <<disk, cache, pins, lh, outstanding, committing, pc, buf,
                 left, tail>>

(* mutant: an absorbed write pins the block again *)
log_write_PinAlways(p) ==
  /\ phase = "run"
  /\ pc[p] = "log_write"
  /\ ~TooBig
  /\ lh' = IF InLog(buf[p], lh) THEN lh ELSE Append(lh, buf[p])
  /\ pins' = [pins EXCEPT ![buf[p]] = @ + 1]
  /\ buf' = [buf EXCEPT ![p] = NoBuf]
  /\ left' = [left EXCEPT ![p] = IF InLog(buf[p], lh) THEN @ ELSE @ - 1]
  /\ pc' = [pc EXCEPT ![p] = "op"]
  /\ UNCHANGED <<disk, cache, outstanding, committing, tail, phase>>

log_write(p) ==
  /\ phase = "run"
  /\ pc[p] = "log_write"
  /\ IF TooBig \/ outstanding < 1
       THEN panic
       ELSE /\ lh' = IF InLog(buf[p], lh) THEN lh ELSE Append(lh, buf[p])
            /\ pins' = [pins EXCEPT ![buf[p]] =
                          IF InLog(buf[p], lh) THEN @ ELSE @ + 1]
            /\ buf' = [buf EXCEPT ![p] = NoBuf]
            /\ left' = [left EXCEPT ![p] = IF InLog(buf[p], lh) THEN @ ELSE @ - 1]
            /\ pc' = [pc EXCEPT ![p] = "op"]
            /\ UNCHANGED <<disk, cache, outstanding, committing, tail, phase>>

(***************************************************************************)
(* end_op(): the last operation out runs commit(), which does nothing      *)
(* when no block was logged.                                               *)
(***************************************************************************)
(* mutant: the count is decremented again on the way to commit() *)
end_op_Twice(p) ==
  /\ phase = "run"
  /\ pc[p] = "op"
  /\ ~committing
  /\ outstanding = 1
  /\ outstanding' = outstanding - 2
  /\ committing' = TRUE
  /\ tail' = 1
  /\ pc' = [pc EXCEPT ![p] = IF lh = <<>> THEN "done" ELSE "write_log"]
  /\ UNCHANGED <<disk, cache, pins, lh, buf, left, phase>>

end_op(p) ==
  /\ phase = "run"
  /\ pc[p] = "op"
  /\ IF committing
       THEN panic
       ELSE /\ outstanding' = outstanding - 1
            /\ IF outstanding = 1
                 THEN /\ committing' = TRUE
                      /\ tail' = 1
                      /\ pc' = [pc EXCEPT ![p] =
                                  IF lh = <<>> THEN "done" ELSE "write_log"]
                 ELSE /\ pc' = wakeup([pc EXCEPT ![p] = "idle"])
                      /\ UNCHANGED <<committing, tail>>
            /\ UNCHANGED <<disk, cache, pins, lh, buf, left, phase>>

(***************************************************************************)
(* commit(), without log.lock: one action for each disk write.             *)
(***************************************************************************)
View(b) == IF cache[b] = NotCached THEN home[b] ELSE cache[b]

NextTail(p, this, next) ==
  /\ pc' = [pc EXCEPT ![p] = IF tail = Len(lh) THEN next ELSE this]
  /\ tail' = IF tail = Len(lh) THEN 1 ELSE tail + 1

write_log(p) ==
  /\ phase = "run"
  /\ pc[p] = "write_log"
  /\ \A q \in Procs : buf[q] # lh[tail]
  /\ cache' = [cache EXCEPT ![lh[tail]] = View(lh[tail])]
  /\ logblk' = [logblk EXCEPT ![tail] = View(lh[tail])]
  /\ NextTail(p, "write_log", "write_head")
  /\ UNCHANGED <<home, head, pins, lh, outstanding, committing, buf, left, phase>>

(* mutant: the header is erased before the blocks are installed *)
write_head_NoInstall(p) ==
  /\ phase = "run"
  /\ pc[p] = "write_head"
  /\ head' = lh
  /\ pc' = [pc EXCEPT ![p] = "clear"]
  /\ UNCHANGED <<home, logblk, cache, pins, lh, outstanding, committing, buf,
                 left, tail, phase>>

write_head(p) ==
  /\ phase = "run"
  /\ pc[p] = "write_head"
  /\ head' = lh
  /\ pc' = [pc EXCEPT ![p] = "install"]
  /\ UNCHANGED <<home, logblk, cache, pins, lh, outstanding, committing, buf,
                 left, tail, phase>>

CopyToHome(b) ==
  /\ \A q \in Procs : buf[q] # b
  /\ home' = [home EXCEPT ![b] = logblk[tail]]
  /\ cache' = [cache EXCEPT ![b] = logblk[tail]]

install_trans(p) ==
  /\ phase = "run"
  /\ pc[p] = "install"
  /\ CopyToHome(lh[tail])
  /\ pins' = [pins EXCEPT ![lh[tail]] = @ - 1]
  /\ NextTail(p, "install", "clear")
  /\ UNCHANGED <<logblk, head, lh, outstanding, committing, buf, left, phase>>

(* mutant: the header on the disk is not erased *)
clear_head_MemoryOnly(p) ==
  /\ phase = "run"
  /\ pc[p] = "clear"
  /\ lh' = <<>>
  /\ pc' = [pc EXCEPT ![p] = "done"]
  /\ UNCHANGED <<disk, cache, pins, outstanding, committing, buf, left, tail,
                 phase>>

clear_head(p) ==
  /\ phase = "run"
  /\ pc[p] = "clear"
  /\ lh' = <<>>
  /\ head' = <<>>
  /\ pc' = [pc EXCEPT ![p] = "done"]
  /\ UNCHANGED <<home, logblk, cache, pins, outstanding, committing, buf, left,
                 tail, phase>>

(* mutant: the end of a commit wakes nobody *)
end_commit_NoWakeup(p) ==
  /\ phase = "run"
  /\ pc[p] = "done"
  /\ committing' = FALSE
  /\ pc' = [pc EXCEPT ![p] = "idle"]
  /\ UNCHANGED <<disk, cache, pins, lh, outstanding, buf, left, tail, phase>>

end_commit(p) ==
  /\ phase = "run"
  /\ pc[p] = "done"
  /\ committing' = FALSE
  /\ pc' = wakeup([pc EXCEPT ![p] = "idle"])
  /\ UNCHANGED <<disk, cache, pins, lh, outstanding, buf, left, tail, phase>>

(***************************************************************************)
(* bget() may reuse the buffer of any block that is neither pinned nor     *)
(* held; its contents are dropped, not written.                            *)
(***************************************************************************)
(* mutant: a pinned buffer is recycled *)
bget_recycle_IgnorePins(b) ==
  /\ phase # "panic"
  /\ cache[b] # NotCached
  /\ \A p \in Procs : buf[p] # b
  /\ cache' = [cache EXCEPT ![b] = NotCached]
  /\ UNCHANGED <<disk, pins, lh, outstanding, committing, pc, buf, left, tail,
                 phase>>

bget_recycle(b) ==
  /\ phase # "panic"
  /\ cache[b] # NotCached
  /\ pins[b] = 0
  /\ \A p \in Procs : buf[p] # b
  /\ cache' = [cache EXCEPT ![b] = NotCached]
  /\ UNCHANGED <<disk, pins, lh, outstanding, committing, pc, buf, left, tail,
                 phase>>

(***************************************************************************)
(* Power failure (or the reboot after a panic): memory is lost.            *)
(***************************************************************************)
crash ==
  /\ cache' = [b \in Blocks |-> NotCached]
  /\ pins' = [b \in Blocks |-> 0]
  /\ lh' = <<>>
  /\ outstanding' = 0
  /\ committing' = FALSE
  /\ pc' = [p \in Procs |-> "idle"]
  /\ buf' = [p \in Procs |-> NoBuf]
  /\ left' = [p \in Procs |-> 0]
  /\ tail' = 1
  /\ phase' = "boot"
  /\ UNCHANGED disk

(***************************************************************************)
(* initlog() and recover_from_log(), in the first process, before any      *)
(* system call runs: read_head(), install_trans(1), clear the header.      *)
(***************************************************************************)
read_head ==
  /\ phase = "boot"
  /\ lh' = head
  /\ phase' = IF head = <<>> THEN "recover_clear" ELSE "recover"
  /\ UNCHANGED <<disk, cache, pins, outstanding, committing, pc, buf, left, tail>>

recover_install ==
  /\ phase = "recover"
  /\ CopyToHome(lh[tail])
  /\ tail' = IF tail = Len(lh) THEN 1 ELSE tail + 1
  /\ phase' = IF tail = Len(lh) THEN "recover_clear" ELSE "recover"
  /\ UNCHANGED <<logblk, head, pins, lh, outstanding, committing, pc, buf, left>>

recover_clear ==
  /\ phase = "recover_clear"
  /\ lh' = <<>>
  /\ head' = <<>>
  /\ phase' = "run"
  /\ UNCHANGED <<home, logblk, cache, pins, outstanding, committing, pc, buf,
                 left, tail>>

Init ==
  /\ \E v \in Vals : home = [b \in Blocks |-> v] /\ logblk = [i \in LogSlots |-> v]
  /\ head = <<>>
  /\ cache = [b \in Blocks |-> NotCached]
  /\ pins = [b \in Blocks |-> 0]
  /\ lh = <<>>
  /\ outstanding = 0
  /\ committing = FALSE
  /\ pc = [p \in Procs |-> "idle"]
  /\ buf = [p \in Procs |-> NoBuf]
  /\ left = [p \in Procs |-> 0]
  /\ tail = 1
  /\ phase = "boot"

CommitStep(p) ==
  write_log(p) \/ write_head(p) \/ install_trans(p) \/ clear_head(p) \/ end_commit(p)

Next ==
  \/ \E p \in Procs :
       \/ begin_op(p) \/ begin_op_sleep(p) \/ log_write(p) \/ end_op(p)
       \/ CommitStep(p)
       \/ \E b \in Blocks, v \in Vals : modify(p, b, v)
  \/ \E b \in Blocks : bget_recycle(b)
  \/ crash \/ read_head \/ recover_install \/ recover_clear

Spec == Init /\ [][Next]_vars

(***************************************************************************)
(* Every process that is not asleep is scheduled and every operation ends: *)
(* the operations of the file system make finitely many changes (hence SF  *)
(* for end_op(), which each change puts off) and disk requests are         *)
(* answered.  Nothing is assumed of crash or of who begins an operation.   *)
(***************************************************************************)
FairSpec ==
  /\ Spec
  /\ \A p \in Procs : WF_vars(log_write(p)) /\ SF_vars(end_op(p))
                      /\ WF_vars(CommitStep(p))
  /\ WF_vars(read_head \/ recover_install \/ recover_clear)
-----------------------------------------------------------------------------
Active == {p \in Procs : pc[p] \in {"op", "log_write"}}
CommitPcs == {"write_log", "write_head", "install", "clear", "done"}

(* Types of the state of struct log, of the cached copies and of the disk. *)
TypeOK ==
  /\ home \in [Blocks -> Vals]
  /\ logblk \in [LogSlots -> Vals]
  /\ head \in Seq(Blocks) /\ lh \in Seq(Blocks)
  /\ cache \in [Blocks -> Vals \cup {NotCached}]
  /\ pins \in [Blocks -> Int]
  /\ outstanding \in Nat /\ committing \in BOOLEAN
  /\ pc \in [Procs -> {"idle", "begin", "sleep", "op", "log_write"} \cup CommitPcs]
  /\ buf \in [Procs -> Blocks \cup {NoBuf}]
  /\ left \in [Procs -> 0..MaxWrites]
  /\ tail \in Nat \ {0}
  /\ phase \in {"run", "panic", "boot", "recover", "recover_clear"}

(* The logging system only commits when there are no FS system calls       *)
(* active, and one process at a time commits: while some process is in     *)
(* commit(), no operation is between its begin_op() and its end_op().      *)
CommitExcludesOps ==
  \A p \in Procs : pc[p] \in CommitPcs =>
    /\ Active = {}
    /\ \A q \in Procs \ {p} : pc[q] \notin CommitPcs

(* begin_op()'s reservation is enough for operations that leave some of it *)
(* unused: log_write() never finds the log full (it does not ask first     *)
(* whether the block is to be absorbed), and end_op() never meets a commit.*)
NoPanic == phase # "panic"

(* A process asleep in begin_op() always has someone left who will call    *)
(* wakeup(&log): an operation in progress or the committer.                *)
SleeperHasWaker ==
  phase = "run" =>
    \A p \in Procs : Sleeping(p) => \E q \in Procs : q \in Active \/ pc[q] \in CommitPcs

(* The i-th logged block has still to be copied home.                      *)
Due(i) == \A p \in Procs : (pc[p] = "install" => i >= tail) /\ pc[p] # "clear"

(* log_write()'s pins: a block is pinned once while it is logged and not   *)
(* yet installed, and not otherwise, so install_trans() drops exactly the  *)
(* pins log_write() took and recovery none.                                *)
PinsMatchLog ==
  phase = "run" =>
    \A b \in Blocks : pins[b] =
      IF \E i \in DOMAIN lh : lh[i] = b /\ Due(i) THEN 1 ELSE 0

(***************************************************************************)
(* The refinement: a committed header turns the log's blocks into part of  *)
(* the stable disk; a running system reads the cache, or the disk beneath. *)
(***************************************************************************)
Recovered(b) ==
  IF InLog(b, head) THEN logblk[CHOOSE i \in DOMAIN head : head[i] = b] ELSE home[b]

Stable == [b \in Blocks |-> Recovered(b)]
Pending == IF phase \in {"run", "panic"} THEN [b \in Blocks |-> View(b)] ELSE Stable

Atomic == INSTANCE TransDisk WITH stable <- Stable, pending <- Pending, active <- Active

(* The log implements the transactional disk: whatever the interleaving    *)
(* of operations and wherever the power fails, in commit or in recovery,   *)
(* the disk that recovery rebuilds holds whole groups of operations.       *)
ImplementsTransDisk == Atomic!Spec

(* Once the last end_op() has returned, everything written so far          *)
(* survives a crash.                                                       *)
QuiescentDurable ==
  (phase = "run" /\ Active = {} /\ ~committing) => Stable = Pending

(* A process that sleeps in begin_op() is woken up again.                  *)
SleeperWakes == \A p \in Procs : Sleeping(p) ~> ~Sleeping(p)

(* Unless the power keeps failing, a header left on the disk by a commit   *)
(* or found there at boot is cleared again: recovery and commit finish.    *)
HeaderCleared == []<>(phase = "boot") \/ []<>(head = <<>>)

(* Every begin_op() that waits, for space or for a commit, goes on, and    *)
(* every commit and recovery that starts finishes.                         *)
WaitsEnd == SleeperWakes /\ HeaderCleared

(***************************************************************************)
(* The inductive invariant.  `Tokens' has one element for each block that  *)
(* an operation in progress may still add to the log; Spare is what each   *)
(* operation leaves unused of the space begin_op() has promised it.  An    *)
(* operation that begins beside another finds twice that to spare; one     *)
(* that begins alone finds the log empty.                                  *)
(***************************************************************************)
Spare == MAXOPBLOCKS - MaxWrites
Fits(n) == n <= MaxWrites \/ n + 2 * Spare <= LOGSIZE
TokensOf(A, l) == {t \in A \X (1..MaxWrites) : t[2] <= l[t[1]]}
Tokens == TokensOf(Active, left)

CommitInv ==
  /\ outstanding = Cardinality(Active)
  /\ committing => Active = {} /\ \E p \in Procs : pc[p] \in CommitPcs
  /\ \A p, q \in Procs : pc[p] \in CommitPcs =>
       committing /\ (pc[q] \in CommitPcs => p = q)
  /\ phase \in {"run", "panic"} => (committing \/ Active # {} \/ lh = <<>>)
  /\ phase \notin {"run", "panic"} => \A p \in Procs : pc[p] = "idle"

ProcInv ==
  \A p \in Procs :
    /\ pc[p] = "log_write" <=> buf[p] # NoBuf
    /\ pc[p] = "log_write" => left[p] > 0 \/ InLog(buf[p], lh)
    /\ pc[p] \in {"write_log", "install"} => tail <= Len(lh)
    /\ pc[p] = "write_head" => lh # <<>> /\ tail = 1
    /\ pc[p] = "clear" => tail = 1
    /\ pc[p] = "done" => lh = <<>> /\ tail = 1

RoomInv ==
  /\ Len(head) < NLOG /\ Len(lh) < NLOG
  /\ Len(head) <= LOGSIZE
  /\ Len(lh) + Cardinality(Tokens) <= LOGSIZE
  /\ Active # {} => Fits(Len(lh) + Cardinality(Tokens))
  /\ phase = "boot" => tail = 1
  /\ phase = "recover" => tail <= Len(lh)

(* What keeps the three safety theorems inductive: who is in commit(), the *)
(* buffer and the write budget of each process, and the reservation that   *)
(* begin_op() makes, which covers the blocks still to be logged.           *)
LogInv == TypeOK /\ CommitInv /\ ProcInv /\ RoomInv /\ SleeperHasWaker

(***************************************************************************)
(* The inductive invariant about the data.  A logged block is due until    *)
(* install_trans() has copied it home; only due blocks, and blocks held    *)
(* between their change and log_write(), may differ from the disk.         *)
(***************************************************************************)
NoDuplicates(s) == \A i, j \in DOMAIN s : s[i] = s[j] => i = j
Copied(i) == \E p \in Procs : \/ pc[p] = "write_log" /\ i < tail
                             \/ pc[p] \in {"write_head", "install"}

HeaderInv ==
  /\ NoDuplicates(lh) /\ NoDuplicates(head)
  /\ phase = "run" =>
       head = IF \E p \in Procs : pc[p] \in {"install", "clear"} THEN lh ELSE <<>>
  /\ phase \in {"recover", "recover_clear"} => lh = head

CacheInv ==
  phase = "run" =>
    /\ \A b \in Blocks :
         \/ cache[b] \in {NotCached, home[b]}
         \/ \E i \in DOMAIN lh : lh[i] = b /\ Due(i)
         \/ \E p \in Procs : buf[p] = b
    /\ \A i \in DOMAIN lh : Due(i) => cache[lh[i]] # NotCached
    /\ \A p \in Procs : buf[p] # NoBuf => cache[buf[p]] # NotCached

CopyInv ==
  phase = "run" =>
    \A i \in DOMAIN lh :
      IF Due(i) THEN Copied(i) => cache[lh[i]] = logblk[i]
                ELSE home[lh[i]] = logblk[i]

RecoverInv ==
  phase \in {"boot", "recover", "recover_clear"} =>
    /\ \A b \in Blocks : pins[b] = 0 /\ cache[b] \in {NotCached, home[b]}
    /\ \A i \in DOMAIN lh :
         phase = "recover_clear" \/ (phase = "recover" /\ i < tail)
           => home[lh[i]] = logblk[i]

DataInv == HeaderInv /\ PinsMatchLog /\ CacheInv /\ CopyInv /\ RecoverInv
=============================================================================
