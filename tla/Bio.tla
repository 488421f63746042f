-------------------------------- MODULE Bio --------------------------------
(***************************************************************************)
(* The buffer cache, kernel/bio.c, with the sleep-lock of every buffer     *)
(* (kernel/sleeplock.c).  virtio_disk_rw() is what module Disk promises    *)
(* of it: one copy, some time between the call and the return.  Contents   *)
(* are abstracted to whether a copy of a block is the latest one.          *)
(*                                                                         *)
(* Clients keep the contract of bio.c and log.c: a buffer is changed       *)
(* between bread() and brelse(), and whoever changes it writes it or pins  *)
(* it before brelse(); a pin is removed once the block has been written.   *)
(***************************************************************************)
EXTENDS Integers, Sequences, FiniteSets, Functions

CONSTANTS
  Procs, Bufs, Blocks,
  NoProc, NoBuf, NoBlock,   \* model values
  MaxPins                   \* blocks the log keeps pinned, for model checking

ASSUME BioConstants ==
  /\ IsFiniteSet(Procs) /\ IsFiniteSet(Bufs) /\ Bufs # {}
  /\ NoProc \notin Procs /\ NoBuf \notin Bufs /\ NoBlock \notin Blocks

VARIABLES
  pc,        \* where each process is
  bp,        \* the buffer each process works on
  buf,       \* struct buf: blockno, refcnt, valid, lock; latest
  disk,      \* per block: is the copy on the disk the latest one?
  lru,       \* bcache.head: the buffers, most recently used first
  pinned,    \* blocks with a bpin() not yet undone
  panicked   \* bget() found no buffer

vars == <<pc, bp, buf, disk, lru, pinned, panicked>>

(* binit() *)
Init ==
  /\ pc = [p \in Procs |-> "idle"] /\ bp = [p \in Procs |-> NoBuf]
  /\ buf = [b \in Bufs |-> [blockno |-> NoBlock, refcnt |-> 0, valid |-> FALSE,
                            lock |-> NoProc, latest |-> FALSE]]
  /\ disk = [n \in Blocks |-> TRUE]
  /\ lru = CHOOSE order \in Bijection(1..Cardinality(Bufs), Bufs) : TRUE
  /\ pinned = {} /\ panicked = FALSE

(* mutant: a block whose buffer nobody uses is not found *)
Cached_InUse(n) == {b \in Bufs : buf[b].blockno = n /\ buf[b].refcnt > 0}

Cached(n) == {b \in Bufs : buf[b].blockno = n}

Unused == {i \in DOMAIN lru : buf[lru[i]].refcnt = 0}

(* bget() of a cached block: a reference, then the buffer's lock. *)
bget_hit(p, n) ==
  /\ pc[p] = "idle"
  /\ \E b \in Cached(n) :
       /\ bp' = [bp EXCEPT ![p] = b]
       /\ buf' = [buf EXCEPT ![b].refcnt = @ + 1]
  /\ pc' = [pc EXCEPT ![p] = "acquiresleep"]
  /\ UNCHANGED <<disk, lru, pinned, panicked>>

(* mutant: takes the least recently used buffer without looking at refcnt *)
Recycled_AnyBuf == Len(lru)

Recycled == CHOOSE i \in Unused : \A j \in Unused : j <= i

(* bget() of another block: the least recently used buffer that is unused. *)
bget_recycle(p, n) ==
  LET b == lru[Recycled] IN
  /\ pc[p] = "idle"
  /\ Cached(n) = {} /\ Unused # {}
  /\ bp' = [bp EXCEPT ![p] = b]
  /\ buf' = [buf EXCEPT ![b].blockno = n, ![b].valid = FALSE, ![b].latest = FALSE,
                         ![b].refcnt = 1]
  /\ pc' = [pc EXCEPT ![p] = "acquiresleep"]
  /\ UNCHANGED <<disk, lru, pinned, panicked>>

bget_panic(p, n) ==
  /\ pc[p] = "idle"
  /\ Cached(n) = {} /\ Unused = {}
  /\ panicked' = TRUE
  /\ UNCHANGED <<pc, bp, buf, disk, lru, pinned>>

(* acquiresleep(), and bread() goes on to virtio_disk_rw() if the buffer   *)
(* does not hold its block yet.                                            *)
acquiresleep(p) ==
  LET b == bp[p] IN
  /\ pc[p] = "acquiresleep" /\ buf[b].lock = NoProc
  /\ buf' = [buf EXCEPT ![b].lock = p]
  /\ pc' = [pc EXCEPT ![p] = IF buf[b].valid THEN "held" ELSE "reading"]
  /\ UNCHANGED <<bp, disk, lru, pinned, panicked>>

acquiresleep_sleep(p) ==
  /\ pc[p] = "acquiresleep" /\ buf[bp[p]].lock # NoProc
  /\ pc' = [pc EXCEPT ![p] = "lock_sleep"]
  /\ UNCHANGED <<bp, buf, disk, lru, pinned, panicked>>

(* bread() of a block that was not cached *)
bread(p) ==
  LET b == bp[p] IN
  /\ pc[p] = "reading"
  /\ buf' = [buf EXCEPT ![b].latest = disk[buf[b].blockno], ![b].valid = TRUE]
  /\ pc' = [pc EXCEPT ![p] = "held"]
  /\ UNCHANGED <<bp, disk, lru, pinned, panicked>>

(* New contents of the buffer p holds make all other copies old. *)
Changed(p) ==
  [b \in Bufs |-> IF buf[b].blockno = buf[bp[p]].blockno
                  THEN [buf[b] EXCEPT !.latest = (b = bp[p])] ELSE buf[b]]
DiskOld(p) == [disk EXCEPT ![buf[bp[p]].blockno] = FALSE]

(* A client changes its buffer and calls bwrite(), which returns when the  *)
(* block has been written.                                                 *)
bwrite(p) ==
  /\ pc[p] = "held"
  /\ buf' = Changed(p)
  /\ disk' = DiskOld(p)
  /\ pc' = [pc EXCEPT ![p] = "writing"]
  /\ UNCHANGED <<bp, lru, pinned, panicked>>

bwrite_done(p) ==
  /\ pc[p] = "writing"
  /\ disk' = [disk EXCEPT ![buf[bp[p]].blockno] = buf[bp[p]].latest]
  /\ pc' = [pc EXCEPT ![p] = "held"]
  /\ UNCHANGED <<bp, buf, lru, pinned, panicked>>

(* log_write() of a block that is new to the log: the change stays in      *)
(* memory, and the buffer in the cache.                                    *)
bpin(p) ==
  LET b == bp[p] IN
  /\ pc[p] = "held"
  /\ buf[b].blockno \notin pinned /\ Cardinality(pinned) < MaxPins
  /\ buf' = [Changed(p) EXCEPT ![b].refcnt = @ + 1]
  /\ disk' = DiskOld(p)
  /\ pinned' = pinned \cup {buf[b].blockno}
  /\ UNCHANGED <<pc, bp, lru, panicked>>

(* log_write() of a block that is in the log: it is pinned already. *)
log_absorb(p) ==
  /\ pc[p] = "held" /\ buf[bp[p]].blockno \in pinned
  /\ buf' = Changed(p)
  /\ disk' = DiskOld(p)
  /\ UNCHANGED <<pc, bp, lru, pinned, panicked>>

(* install_trans(): the block has been written to its home. *)
bunpin(p) ==
  LET b == bp[p] IN
  /\ pc[p] = "held"
  /\ buf[b].blockno \in pinned /\ disk[buf[b].blockno]
  /\ buf' = [buf EXCEPT ![b].refcnt = @ - 1]
  /\ pinned' = pinned \ {buf[b].blockno}
  /\ UNCHANGED <<pc, bp, disk, lru, panicked>>

(* mutant: does not wake the processes that wait for the lock *)
releasesleep_NoWakeup(p) ==
  /\ buf' = [buf EXCEPT ![bp[p]].lock = NoProc]
  /\ pc' = [pc EXCEPT ![p] = "brelse"]

releasesleep(p) ==
  /\ buf' = [buf EXCEPT ![bp[p]].lock = NoProc]
  /\ pc' = [q \in Procs |-> IF q = p THEN "brelse"
                            ELSE IF pc[q] = "lock_sleep" /\ bp[q] = bp[p] THEN "acquiresleep"
                            ELSE pc[q]]

(* brelse() gives up the lock first ... *)
brelse(p) ==
  /\ pc[p] = "held"
  /\ releasesleep(p)
  /\ UNCHANGED <<bp, disk, lru, pinned, panicked>>

(* mutant: a buffer that others wait for keeps the releaser's reference *)
Unref_IfLast(b) ==
  [buf EXCEPT ![b].refcnt = IF @ = 1 THEN 0 ELSE @]

Unref(b) == [buf EXCEPT ![b].refcnt = @ - 1]

(* mutant: the buffer is not taken out of the list first *)
ToFront_Twice(b) == <<b>> \o lru

(* The buffers before b move up by one, and b is the first. *)
Place(b) == CHOOSE i \in DOMAIN lru : lru[i] = b
ToFront(b) ==
  [i \in DOMAIN lru |-> IF i = 1 THEN b ELSE IF i <= Place(b) THEN lru[i - 1] ELSE lru[i]]

(* ... and then the reference; an unused buffer moves to the front. *)
brelse_unref(p) ==
  LET b == bp[p] IN
  /\ pc[p] = "brelse"
  /\ buf' = Unref(b)
  /\ lru' = IF buf'[b].refcnt = 0 THEN ToFront(b) ELSE lru
  /\ pc' = [pc EXCEPT ![p] = "idle"] /\ bp' = [bp EXCEPT ![p] = NoBuf]
  /\ UNCHANGED <<disk, pinned, panicked>>

(* What a process does once bget() has a buffer for it. *)
CallStep(p) ==
  \/ acquiresleep(p) \/ acquiresleep_sleep(p) \/ bread(p) \/ bwrite_done(p)
  \/ brelse(p) \/ brelse_unref(p)

(* The machine stops after a panic. *)
halted == panicked /\ UNCHANGED vars

Next ==
  \/ /\ ~panicked
     /\ \E p \in Procs :
          \/ \E n \in Blocks : bget_hit(p, n) \/ bget_recycle(p, n) \/ bget_panic(p, n)
          \/ CallStep(p) \/ bwrite(p) \/ bpin(p) \/ log_absorb(p) \/ bunpin(p)
  \/ halted

Spec == Init /\ [][Next]_vars
-----------------------------------------------------------------------------
Holding == {"held", "reading", "writing"}
Places == Holding \cup {"idle", "acquiresleep", "lock_sleep", "brelse"}
Buffers == [blockno : Blocks \cup {NoBlock}, refcnt : Nat, valid : BOOLEAN,
            lock : Procs \cup {NoProc}, latest : BOOLEAN]

TypeOK ==
  /\ pc \in [Procs -> Places]
  /\ bp \in [Procs -> Bufs \cup {NoBuf}] /\ \A p \in Procs : pc[p] = "idle" <=> bp[p] = NoBuf
  /\ buf \in [Bufs -> Buffers]
  /\ disk \in [Blocks -> BOOLEAN]
  /\ lru \in Surjection(1..Cardinality(Bufs), Bufs)
  /\ pinned \subseteq Blocks /\ panicked \in BOOLEAN

(* A block is never in two buffers, so that its buffer's lock is the       *)
(* block's lock: bget() looks for it and recycles under one bcache.lock.   *)
OneBufferPerBlock ==
  \A b, c \in Bufs : b # c /\ buf[b].blockno = buf[c].blockno => buf[b].blockno = NoBlock

(* A process that bread() gave a buffer to is the only one that has it and *)
(* sees the latest contents, whether they came from the disk, from another *)
(* process's bwrite() or from a change that is pinned and on no disk yet.  *)
ReadsLatest ==
  \A p \in Procs : pc[p] = "held" =>
    /\ buf[bp[p]].valid /\ buf[bp[p]].latest
    /\ \A q \in Procs \ {p} : pc[q] \in Holding => bp[q] # bp[p]

Users(b) == {p \in Procs : bp[p] = b}

(* refcnt counts the processes between bget() and the end of brelse() and  *)
(* the pin, so bget() panics only when every buffer is really in use.      *)
RefcntIsUsers ==
  \A b \in Bufs :
    buf[b].refcnt = Cardinality(Users(b)) + (IF buf[b].blockno \in pinned THEN 1 ELSE 0)

(* A process sleeps in acquiresleep() only while some process has the      *)
(* lock and will wake it: no wakeup of releasesleep() is lost between the  *)
(* test of the lock and the sleep, and no woken process is forgotten when  *)
(* another one gets the lock before it.                                    *)
SleepersAreWoken ==
  \A p \in Procs : pc[p] = "lock_sleep" =>
    \E q \in Procs \ {p} : bp[q] = bp[p] /\ pc[q] \in Holding /\ buf[bp[p]].lock = q

(* What the users of the cache rely on: a block has one buffer, its holder *)
(* sees the latest contents, a buffer in use is not recycled, and nobody   *)
(* waits for one in vain.                                                  *)
CacheSound == TypeOK /\ OneBufferPerBlock /\ ReadsLatest /\ RefcntIsUsers /\ SleepersAreWoken

(***************************************************************************)
(* The inductive invariant.  A buffer's lock goes with the place of the    *)
(* process that has it.  A valid buffer has the latest contents of its     *)
(* block; when the disk has not, a valid buffer that cannot be recycled    *)
(* has them: it is pinned or being written.                                *)
(***************************************************************************)
LockInv ==
  /\ \A p \in Procs : pc[p] \in Holding => buf[bp[p]].lock = p
  /\ \A b \in Bufs : buf[b].lock # NoProc =>
       pc[buf[b].lock] \in Holding /\ bp[buf[b].lock] = b

Writer(p, b) == bp[p] = b /\ pc[p] = "writing"

CopyInv ==
  /\ \A b \in Bufs : buf[b].valid => buf[b].latest
  /\ \A p \in Procs :
       /\ pc[p] # "idle" => buf[bp[p]].blockno \in Blocks
       /\ pc[p] \in Holding => (buf[bp[p]].valid <=> pc[p] # "reading")
  /\ \A n \in Blocks : ~disk[n] =>
       \E b \in Bufs :
         /\ buf[b].blockno = n /\ buf[b].valid
         /\ n \in pinned \/ \E p \in Procs : Writer(p, b)
  /\ \A n \in pinned : \E b \in Bufs : buf[b].blockno = n

BioInv == CacheSound /\ LockInv /\ CopyInv
=============================================================================
