----------------------------- MODULE MCDevices -----------------------------
(***************************************************************************)
(* The buffer cache, the disk driver and the serial port for TLC.  In a    *)
(* behaviour one of them moves and the others stay as they are             *)
(* initialised; of the disk, the cache relies on what the driver is shown  *)
(* to implement (ImplementsDisk).                                          *)
(***************************************************************************)
EXTENDS Bio

CONSTANTS
  DiskProcs, NUM, IDX_MOD,                               \* Virtio
  Writers, Intr, Printer, UART_TX_BUF_SIZE, MaxChars     \* Uart

VARIABLES
  part,     \* the one that moves
  v_pc, writing, data, pending, v_disk, free, info, avail, avail_idx, dev_idx, doing,
  used, used_end, used_idx, irq, vdisk,
  u_pc, sent, uart_tx_buf, uart_tx_w, uart_tx_r, u_lock, fifo, u_irq, out

vvars == <<v_pc, writing, data, pending, v_disk, free, info, avail, avail_idx, dev_idx, doing,
           used, used_end, used_idx, irq, vdisk>>
uvars == <<u_pc, sent, uart_tx_buf, uart_tx_w, uart_tx_r, u_lock, fifo, u_irq, out>>
allvars == <<part, vars, vvars, uvars>>

V == INSTANCE Virtio WITH Procs <- DiskProcs, pc <- v_pc, disk <- v_disk
U == INSTANCE Uart WITH pc <- u_pc, lock <- u_lock, irq <- u_irq

OfBio(A) == part = "bio" /\ A /\ UNCHANGED <<part, vvars, uvars>>
OfVirtio(A) == part = "virtio" /\ A /\ UNCHANGED <<part, vars, uvars>>
OfUart(A) == part = "uart" /\ A /\ UNCHANGED <<part, vars, vvars>>

MCInit == part \in {"bio", "virtio", "uart"} /\ Init /\ V!Init /\ U!Init

(* Nobody has to write; whoever does is done in the end (OutputComplete).  *)
MCNext ==
  \/ OfBio(Next)
  \/ OfVirtio(V!Next)
  \/ OfUart(U!Next) \/ OfUart(UNCHANGED uvars)

(* Runnable processes run and get a spinlock in the end, interrupts that   *)
(* are raised are taken, and the devices do what they are asked; nobody    *)
(* has to call virtio_disk_rw() or uartputc().                             *)
CallOf(p) ==
  \/ OfVirtio(V!DriverStep(p))
  \/ OfUart(p \in Writers /\ U!WriterStep(p))
HandlerStep == OfVirtio(V!HandlerStep) \/ OfUart(U!Handler)
DeviceStep == OfVirtio(V!device_fetch) \/ OfUart(U!uart_send \/ U!PrinterStep)

Fairness ==
  /\ \A p \in DiskProcs : SF_allvars(CallOf(p))
  /\ SF_allvars(HandlerStep)
  /\ WF_allvars(DeviceStep)
  /\ \A p \in DiskProcs : WF_allvars(OfVirtio(\E h \in doing : info[h].b = p /\ V!device_complete(h)))

MCSpec == MCInit /\ [][MCNext]_allvars /\ Fairness
-----------------------------------------------------------------------------
(* The disk driver copies the right block once per call, its requests are  *)
(* in one ring, or with the device, and their descriptors are their own    *)
(* (virtio_disk_rw(), virtio_disk_intr()), and calls keep returning.       *)
ImplementsDisk == V!ImplementsDisk

(* No character is lost, doubled or overtaken in uart.c, and all output    *)
(* that it has accepted is sent.                                           *)
OutputComplete ==
  /\ [](part = "uart" => U!OutputInOrder)
  /\ part = "uart" => U!OutputFinishes
=============================================================================
