------------------------------ MODULE Monitor ------------------------------
(***************************************************************************)
(* What sleep() and wakeup() promise to the code that uses them: testing a *)
(* condition under a lock and going to sleep is one step, and so is making *)
(* the condition true and waking every sleeper.  `items' is the condition  *)
(* that is waited for, `waiting' the set of sleepers.  A process whose     *)
(* `killed' flag is set may still go to sleep (it tested the flag before   *)
(* it was set), but kill() takes a process that already sleeps out of the  *)
(* set.                                                                    *)
(***************************************************************************)
EXTENDS Naturals

CONSTANTS Procs, MaxItems

VARIABLES items, waiting, killed

vars == <<items, waiting, killed>>

Init ==
  /\ items = 0
  /\ waiting = {}
  /\ killed = [p \in Procs |-> FALSE]

Consume(p) ==
  /\ p \notin waiting
  /\ items > 0
  /\ items' = items - 1
  /\ UNCHANGED <<waiting, killed>>

Wait(p) ==
  /\ items = 0
  /\ waiting' = waiting \cup {p}
  /\ UNCHANGED <<items, killed>>

Produce ==
  /\ items < MaxItems
  /\ items' = items + 1
  /\ waiting' = {}
  /\ UNCHANGED killed

Kill(p) ==
  /\ killed' = [killed EXCEPT ![p] = TRUE]
  /\ waiting' = waiting \ {p}
  /\ UNCHANGED items

Next ==
  \/ Produce
  \/ \E p \in Procs : Consume(p) \/ Wait(p) \/ Kill(p)

Spec == Init /\ [][Next]_vars
=============================================================================
