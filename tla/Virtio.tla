------------------------------- MODULE Virtio -------------------------------
(***************************************************************************)
(* The virtio disk driver, kernel/virtio_disk.c, between processes that    *)
(* call virtio_disk_rw(), the device, and virtio_disk_intr().              *)
(*                                                                         *)
(* A request is a chain of three descriptors, named by its first one; its  *)
(* buffer and its block are named by the process that holds their lock,    *)
(* and contents are abstracted as in module Disk.                          *)
(* A ring entry is set to Stale when its reader has consumed it.  The      *)
(* device finishes requests in any order and reports no errors.            *)
(***************************************************************************)
EXTENDS Integers, FiniteSets, FiniteSetsExt

CONSTANTS
  Procs,
  NoProc,            \* model value
  NUM,               \* descriptors, and entries of each ring; at least 3
  IDX_MOD            \* the rings' indices are counted modulo this, a multiple of NUM (2^16)

VARIABLES
  pc,        \* where each process is
  writing,   \* the `write' argument of virtio_disk_rw()
  data,      \* b->data is the latest version of the block
  pending,   \* b->disk
  disk,      \* the block on the disk is
  free,      \* descriptors that are free
  info,      \* chains in use: the three descriptors, struct buf, write
  avail, avail_idx,   \* ring of requests, written by the driver
  dev_idx, doing,     \* the device: entries it has taken, requests in progress
  used, used_end,     \* ring of completions; used->idx
  used_idx,           \* completions the driver has looked at
  irq,       \* the device raises its interrupt line
  vdisk      \* disk.vdisk_lock: its holder, "intr" for the handler

bufs == <<writing, data, pending, disk>>
rings == <<avail, avail_idx, dev_idx, doing, used, used_end, used_idx, irq>>
vars == <<pc, bufs, free, info, rings, vdisk>>

Descs == 0..NUM-1
Stale == NUM

(* mutant: the index does not wrap *)
Inc_NoWrap(i) == i + 1

Inc(i) == (i + 1) % IDX_MOD

(* virtio_disk_init() leaves all descriptors free and the rings empty. *)
Init ==
  /\ pc = [p \in Procs |-> "idle"]
  /\ writing = [p \in Procs |-> FALSE] /\ pending = [p \in Procs |-> FALSE]
  /\ data = [p \in Procs |-> TRUE] /\ disk = [p \in Procs |-> TRUE]
  /\ free = Descs /\ info = <<>>
  /\ avail = [d \in Descs |-> Stale] /\ avail_idx = 0
  /\ used = [d \in Descs |-> Stale] /\ used_end = 0
  /\ dev_idx = 0 /\ doing = {} /\ used_idx = 0
  /\ irq = FALSE /\ vdisk = NoProc

(* bread() calls virtio_disk_rw() for a recycled buffer, bwrite() for one  *)
(* with new contents.                                                      *)
call_rw(p) ==
  /\ pc[p] = "idle"
  /\ \E w \in BOOLEAN :
       /\ writing' = [writing EXCEPT ![p] = w]
       /\ data' = [data EXCEPT ![p] = w]
       /\ disk' = [disk EXCEPT ![p] = ~w]
  /\ pc' = [pc EXCEPT ![p] = "rw"]
  /\ UNCHANGED <<pending, free, info, rings, vdisk>>

(* wakeup(&disk.free[0]) *)
WakeFree(f) == [p \in Procs |-> IF f[p] = "desc_sleep" THEN "rw" ELSE f[p]]

(* alloc_desc() takes the first free descriptor, alloc3_desc() three. *)
alloc3_desc == {d \in free : Cardinality({e \in free : e < d}) < 3}

(* mutant: only the first of the three alloc_desc() is looked at *)
Enough_First == free # {}

Enough == Cardinality(free) >= 3

(* virtio_disk_rw() up to the available ring: the chain is formatted and   *)
(* its head is in the ring, but avail->idx does not yet cover it.          *)
virtio_disk_rw_format(p) ==
  LET idx == alloc3_desc  head == Min(idx) IN
  /\ pc[p] = "rw" /\ vdisk = NoProc /\ Enough
  /\ free' = free \ idx
  /\ info' = [h \in DOMAIN info \cup {head} |->
                IF h = head THEN [descs |-> idx, b |-> p, write |-> writing[p]] ELSE info[h]]
  /\ pending' = [pending EXCEPT ![p] = TRUE]
  /\ avail' = [avail EXCEPT ![avail_idx % NUM] = head]
  /\ vdisk' = p
  /\ pc' = [pc EXCEPT ![p] = "rw_notify"]
  /\ UNCHANGED <<writing, data, disk, avail_idx, dev_idx, doing, used, used_end, used_idx, irq>>

(* Not enough descriptors: those already taken are freed, which wakes the  *)
(* other sleepers, and the process sleeps.                                 *)
virtio_disk_rw_full(p) ==
  /\ pc[p] = "rw" /\ vdisk = NoProc /\ ~Enough
  /\ pc' = [(IF free = {} THEN pc ELSE WakeFree(pc)) EXCEPT ![p] = "desc_sleep"]
  /\ UNCHANGED <<bufs, free, info, rings, vdisk>>

(* The index moves on, the device is notified, and the process sleeps      *)
(* until b->disk is cleared.                                               *)
virtio_disk_rw_notify(p) ==
  /\ pc[p] = "rw_notify"
  /\ avail_idx' = Inc(avail_idx)
  /\ vdisk' = NoProc
  /\ pc' = [pc EXCEPT ![p] = "rw_sleep"]
  /\ UNCHANGED <<bufs, free, info, avail, dev_idx, doing, used, used_end, used_idx, irq>>

ChainOf(p) == CHOOSE h \in DOMAIN info : info[h].b = p

(* mutant: the descriptors are freed without the wakeup in free_desc() *)
free_chain_NoWakeup(p) ==
  /\ free' = free \cup info[ChainOf(p)].descs
  /\ pc' = [pc EXCEPT ![p] = "idle"]

(* free_chain(), whose free_desc() wakes the processes that wait for a     *)
(* descriptor; virtio_disk_rw() returns.                                   *)
free_chain(p) ==
  /\ free' = free \cup info[ChainOf(p)].descs
  /\ pc' = [WakeFree(pc) EXCEPT ![p] = "idle"]

virtio_disk_rw_done(p) ==
  /\ pc[p] = "rw_done" /\ vdisk = NoProc /\ ~pending[p]
  /\ free_chain(p)
  /\ info' = [h \in DOMAIN info \ {ChainOf(p)} |-> info[h]]
  /\ writing' = [writing EXCEPT ![p] = FALSE]
  /\ UNCHANGED <<data, pending, disk, rings, vdisk>>

(* virtio_disk_intr() takes the lock and acknowledges the interrupt, ... *)
virtio_disk_intr ==
  /\ irq /\ vdisk = NoProc
  /\ vdisk' = "intr"
  /\ irq' = FALSE
  /\ UNCHANGED <<pc, bufs, free, info, avail, avail_idx, dev_idx, doing, used, used_end, used_idx>>

UsedMore == used_idx # used_end

(* ... walks the used ring, which the device may be extending, ... *)
virtio_disk_intr_loop ==
  LET b == info[used[used_idx % NUM]].b IN
  /\ vdisk = "intr" /\ UsedMore
  /\ pending' = [pending EXCEPT ![b] = FALSE]
  /\ pc' = [p \in Procs |-> IF pc[p] = "rw_sleep" /\ p = b THEN "rw_done" ELSE pc[p]]
  /\ used' = [used EXCEPT ![used_idx % NUM] = Stale]
  /\ used_idx' = Inc(used_idx)
  /\ UNCHANGED <<writing, data, disk, free, info, avail, avail_idx, dev_idx, doing, used_end,
                 irq, vdisk>>

(* ... and returns. *)
virtio_disk_intr_end ==
  /\ vdisk = "intr" /\ ~UsedMore
  /\ vdisk' = NoProc
  /\ UNCHANGED <<pc, bufs, free, info, rings>>

(* The device takes the next request from the available ring ... *)
device_fetch ==
  /\ dev_idx # avail_idx
  /\ doing' = doing \cup {avail[dev_idx % NUM]}
  /\ avail' = [avail EXCEPT ![dev_idx % NUM] = Stale]
  /\ dev_idx' = Inc(dev_idx)
  /\ UNCHANGED <<pc, bufs, free, info, avail_idx, used, used_end, used_idx, irq, vdisk>>

(* ... and, for any request in progress, copies the block, puts the        *)
(* request into the used ring and raises its interrupt.                    *)
device_complete(h) ==
  LET r == info[h] IN
  /\ disk' = IF r.write THEN [disk EXCEPT ![r.b] = data[r.b]] ELSE disk
  /\ data' = IF r.write THEN data ELSE [data EXCEPT ![r.b] = disk[r.b]]
  /\ doing' = doing \ {h}
  /\ used' = [used EXCEPT ![used_end % NUM] = h]
  /\ used_end' = Inc(used_end)
  /\ irq' = TRUE
  /\ UNCHANGED <<pc, writing, pending, free, info, avail, avail_idx, dev_idx, used_idx, vdisk>>

DriverStep(p) ==
  \/ virtio_disk_rw_format(p) \/ virtio_disk_rw_full(p) \/ virtio_disk_rw_notify(p)
  \/ virtio_disk_rw_done(p)

HandlerStep == virtio_disk_intr \/ virtio_disk_intr_loop \/ virtio_disk_intr_end

DeviceStep == device_fetch \/ \E h \in doing : device_complete(h)

Next == (\E p \in Procs : call_rw(p) \/ DriverStep(p)) \/ HandlerStep \/ DeviceStep
-----------------------------------------------------------------------------
TypeOK ==
  /\ pc \in [Procs -> {"idle", "rw", "desc_sleep", "rw_notify", "rw_sleep", "rw_done"}]
  /\ writing \in [Procs -> BOOLEAN] /\ pending \in [Procs -> BOOLEAN]
  /\ data \in [Procs -> BOOLEAN] /\ disk \in [Procs -> BOOLEAN]
  /\ free \subseteq Descs /\ DOMAIN info \subseteq Descs
  /\ {avail_idx, dev_idx, used_end, used_idx} \subseteq 0..IDX_MOD-1

(* The entries of a ring from index i up to, not including, index j. *)
Entries(ring, i, j) == {ring[(i + k) % NUM] : k \in 0..(((j - i) % IDX_MOD) - 1)}

(* A request is in one place only: the available ring, the device or the   *)
(* used ring; it is a chain of three descriptors that are not free and     *)
(* belong to no other chain, so that free_desc() never panics; and a       *)
(* buffer the driver has let go of is in none of them, even though the     *)
(* device may extend the used ring while the handler walks it.             *)
RingsMatchChains ==
  LET waiting == Entries(avail, dev_idx, avail_idx)
      finished == Entries(used, used_idx, used_end)
  IN /\ waiting \cup doing \cup finished \subseteq DOMAIN info
     /\ waiting \cap doing = {} /\ doing \cap finished = {} /\ waiting \cap finished = {}
     /\ \A h \in DOMAIN info :
          /\ info[h].descs \cap free = {} /\ Cardinality(info[h].descs) = 3
          /\ h \in waiting \cup doing \cup finished => pending[info[h].b]
     /\ \A g, h \in DOMAIN info : g # h => info[g].descs \cap info[h].descs = {}

(* The driver, its interrupt handler and the device implement module Disk: *)
(* each call moves the right block the right way once before it returns,   *)
(* and calls keep returning, also when they compete for descriptors.  All  *)
(* the while the rings and the chains agree.                               *)
Copied(p) ==
  /\ pc[p] \in {"rw_sleep", "rw_done"}
  /\ ChainOf(p) \notin doing \cup Entries(avail, dev_idx, avail_idx)
Abs == INSTANCE Disk WITH
  call <- [p \in Procs |-> IF pc[p] = "idle" THEN "idle"
                           ELSE IF Copied(p) THEN "copied"
                           ELSE IF writing[p] THEN "write" ELSE "read"]
ImplementsDisk == Abs!Spec /\ [](TypeOK /\ RingsMatchChains)
=============================================================================
