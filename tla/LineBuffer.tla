----------------------------- MODULE LineBuffer -----------------------------
(***************************************************************************)
(* What the console's input ring promises: complete lines are read in the  *)
(* order they were typed, erasing reaches only the line being edited, and  *)
(* a character is refused only when SIZE characters wait.                  *)
(***************************************************************************)
EXTENDS Naturals, Sequences

CONSTANT SIZE

VARIABLES
  complete,   \* characters that may be read
  editing     \* the line being edited

Init == complete = <<>> /\ editing = <<>>

Type(c) ==
  LET line == Append(editing, c) IN
  /\ Len(complete) + Len(editing) < SIZE
  /\ IF c = "a" /\ Len(complete) + Len(line) < SIZE
     THEN editing' = line /\ UNCHANGED complete
     ELSE editing' = <<>> /\ complete' = complete \o line

Backspace ==
  /\ editing # <<>>
  /\ editing' = SubSeq(editing, 1, Len(editing) - 1) /\ UNCHANGED complete

Kill == editing' = <<>> /\ UNCHANGED complete

Read == complete # <<>> /\ complete' = Tail(complete) /\ UNCHANGED editing

Next == (\E c \in {"a", "nl", "^D"} : Type(c)) \/ Backspace \/ Kill \/ Read

Spec == Init /\ [][Next]_<<complete, editing>>
=============================================================================
