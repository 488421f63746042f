----------------------------- MODULE TransDisk -----------------------------
(***************************************************************************)
(* What the logging layer promises to the file system: a disk on which a   *)
(* group of operations takes effect all at once or not at all.  `pending'  *)
(* is the contents that running system calls read and write, `stable' the  *)
(* contents that survive a power failure.  `stable' only ever changes to   *)
(* become `pending', and only while no operation is in progress, so it     *)
(* never holds a part of an operation.                                     *)
(***************************************************************************)
CONSTANTS Procs, Blocks, Vals

VARIABLES stable, pending, active

vars == <<stable, pending, active>>

Init ==
  /\ stable \in [Blocks -> Vals]
  /\ pending = stable
  /\ active = {}

Begin(p) ==
  /\ p \notin active
  /\ active' = active \cup {p}
  /\ UNCHANGED <<stable, pending>>

Write(p, b, v) ==
  /\ p \in active
  /\ pending' = [pending EXCEPT ![b] = v]
  /\ UNCHANGED <<stable, active>>

End(p) ==
  /\ p \in active
  /\ active' = active \ {p}
  /\ UNCHANGED <<stable, pending>>

Commit ==
  /\ active = {}
  /\ stable' = pending
  /\ UNCHANGED <<pending, active>>

Crash ==
  /\ pending' = stable
  /\ active' = {}
  /\ UNCHANGED stable

Next ==
  \/ \E p \in Procs : Begin(p) \/ End(p)
  \/ \E p \in Procs, b \in Blocks, v \in Vals : Write(p, b, v)
  \/ Commit
  \/ Crash

Spec == Init /\ [][Next]_vars
=============================================================================
