-------------------------------- MODULE Disk --------------------------------
(***************************************************************************)
(* What virtio_disk_rw() promises its caller: between the call and the     *)
(* return the block is copied once, from the caller's buffer to the disk   *)
(* or from the disk to the buffer, and calls keep returning.               *)
(*                                                                         *)
(* Every caller has a buffer and a block of its own: bread() and bwrite()  *)
(* hold the sleep-lock of the only buffer of the block (module Bio).       *)
(* Contents are abstracted to whether a copy is the latest one: a call to  *)
(* write comes with a new version of the block in the buffer, a call to    *)
(* read with a buffer that was recycled from another block.                *)
(***************************************************************************)
CONSTANT Procs

VARIABLES
  call,   \* per process: what it asked for and whether it has been done
  data,   \* does its buffer hold the latest version?
  disk    \* does its block on the disk?

vars == <<call, data, disk>>

Init ==
  /\ call = [p \in Procs |-> "idle"]
  /\ data = [p \in Procs |-> TRUE] /\ disk = [p \in Procs |-> TRUE]

Read(p) ==
  /\ call[p] = "idle"
  /\ call' = [call EXCEPT ![p] = "read"]
  /\ data' = [data EXCEPT ![p] = FALSE]
  /\ UNCHANGED disk

Write(p) ==
  /\ call[p] = "idle"
  /\ call' = [call EXCEPT ![p] = "write"]
  /\ disk' = [disk EXCEPT ![p] = FALSE]
  /\ UNCHANGED data

Copy(p) ==
  /\ \/ call[p] = "read" /\ data' = [data EXCEPT ![p] = disk[p]] /\ UNCHANGED disk
     \/ call[p] = "write" /\ disk' = [disk EXCEPT ![p] = data[p]] /\ UNCHANGED data
  /\ call' = [call EXCEPT ![p] = "copied"]

Return(p) ==
  /\ call[p] = "copied"
  /\ call' = [call EXCEPT ![p] = "idle"]
  /\ UNCHANGED <<data, disk>>

Next == \E p \in Procs : Read(p) \/ Write(p) \/ Copy(p) \/ Return(p)

(* A call may be overtaken for ever, but some outstanding call is always   *)
(* served, and a call that has been served returns.                        *)
Spec ==
  /\ Init /\ [][Next]_vars
  /\ WF_vars(\E p \in Procs : Copy(p)) /\ \A p \in Procs : WF_vars(Return(p))
=============================================================================
