------------------------------ MODULE Console ------------------------------
(***************************************************************************)
(* Console input, kernel/console.c: consoleintr() puts typed characters    *)
(* into a ring with three indices, consoleread() takes lines out of it.    *)
(* A character is an ordinary one, a newline or a control character.       *)
(***************************************************************************)
EXTENDS Integers, Sequences, FiniteSetsExt

CONSTANTS
  Readers, NoProc,     \* processes; a model value
  INPUT_BUF_SIZE,
  IDX_MOD,             \* the indices are uints: counted modulo this (2^32)
  Counts               \* what readers ask for

VARIABLES
  buf, r, w, e,        \* cons.buf, cons.r, cons.w, cons.e
  lock,                \* holder of cons.lock
  pc, n, target,       \* of consoleread(), per reader
  killed

ring == <<buf, r, w, e>>
vars == <<ring, lock, pc, n, target, killed>>

Typed == {"a", "nl", "^D", "^U", "^H", "^P"}

(* consoleinit(); cons is zeroed memory *)
Init ==
  /\ buf = [i \in 0..INPUT_BUF_SIZE-1 |-> "a"] /\ r = 0 /\ w = 0 /\ e = 0
  /\ lock = NoProc
  /\ pc = [p \in Readers |-> "idle"]
  /\ n = [p \in Readers |-> 0] /\ target = [p \in Readers |-> 0]
  /\ killed = [p \in Readers |-> FALSE]

Inc(i) == (i + 1) % IDX_MOD
Dec(i) == (i - 1) % IDX_MOD
At(i) == buf[i % INPUT_BUF_SIZE]
Diff(i, j) == (i - j) % IDX_MOD

(* Control-U erases back to w, or to behind the last newline. *)
Killed == Min({k \in 0..Diff(e, w) : k = Diff(e, w) \/ At(e - k - 1) = "nl"})
KillLine == (e - Killed) % IDX_MOD

(* mutant: backspace also erases characters of a line that is complete *)
Erase_Unchecked == Dec(e)

Erase == IF e # w THEN Dec(e) ELSE e

LineDone(c, e1) == c \in {"nl", "^D"} \/ Diff(e1, r) = INPUT_BUF_SIZE

(* mutant: the characters are there but the reader is not woken *)
consoleintr_wakeup_Lost == pc

(* wakeup(&cons.r) *)
consoleintr_wakeup == [p \in Readers |-> IF pc[p] = "sleep" THEN "woken" ELSE pc[p]]

(* consoleintr(), for one character from uartgetc() *)
consoleintr(c) ==
  /\ lock = NoProc
  /\ \/ c = "^P" /\ UNCHANGED <<ring, pc>>
     \/ c = "^U" /\ e' = KillLine /\ UNCHANGED <<buf, r, w, pc>>
     \/ c = "^H" /\ e' = Erase /\ UNCHANGED <<buf, r, w, pc>>
     \/ /\ c \in {"a", "nl", "^D"} /\ Diff(e, r) < INPUT_BUF_SIZE
        /\ buf' = [buf EXCEPT ![e % INPUT_BUF_SIZE] = c]
        /\ e' = Inc(e)
        /\ IF LineDone(c, Inc(e)) THEN w' = Inc(e) /\ pc' = consoleintr_wakeup
                                  ELSE UNCHANGED <<w, pc>>
        /\ UNCHANGED r
     \/ c \in {"a", "nl", "^D"} /\ Diff(e, r) >= INPUT_BUF_SIZE /\ UNCHANGED <<ring, pc>>
  /\ UNCHANGED <<lock, n, target, killed>>

(* consoleread() takes the lock, at the start or back from sleep(). *)
consoleread(p, k) ==
  /\ pc[p] = "idle" /\ ~killed[p] /\ lock = NoProc
  /\ n' = [n EXCEPT ![p] = k] /\ target' = [target EXCEPT ![p] = k]
  /\ lock' = p /\ pc' = [pc EXCEPT ![p] = "loop"]
  /\ UNCHANGED <<ring, killed>>

consoleread_woken(p) ==
  /\ pc[p] = "woken" /\ lock = NoProc
  /\ lock' = p /\ pc' = [pc EXCEPT ![p] = "loop"]
  /\ UNCHANGED <<ring, n, target, killed>>

(* The call returns; n and target are its locals. *)
Return(p) ==
  /\ lock' = NoProc /\ pc' = [pc EXCEPT ![p] = "idle"]
  /\ n' = [n EXCEPT ![p] = 0] /\ target' = [target EXCEPT ![p] = 0]

(* Nothing to read: give up if killed, or sleep.  kill() takes no          *)
(* cons.lock and may come between the test and the sleep.                  *)
consoleread_wait(p) ==
  /\ pc[p] = "loop" /\ n[p] > 0 /\ r = w
  /\ \/ ~killed[p] /\ pc' = [pc EXCEPT ![p] = "decided"] /\ UNCHANGED <<lock, n, target>>
     \/ killed[p] /\ Return(p)
  /\ UNCHANGED <<ring, killed>>

consoleread_sleep(p) ==
  /\ pc[p] = "decided"
  /\ lock' = NoProc /\ pc' = [pc EXCEPT ![p] = "sleep"]
  /\ UNCHANGED <<ring, n, target, killed>>

(* mutant: a ^D in the middle of a read is dropped *)
KeepEof_Never(p) == FALSE

KeepEof(p) == n[p] < target[p]

(* One character: an end-of-file ends the read, and stays for the next one *)
(* if this read has characters; else the character is copied, which may    *)
(* fail, and a newline ends the read.                                      *)
consoleread_char(p) ==
  LET c == At(r) IN
  /\ pc[p] = "loop" /\ n[p] > 0 /\ r # w
  /\ r' = IF c = "^D" /\ KeepEof(p) THEN r ELSE Inc(r)
  /\ \/ c = "^D" /\ Return(p)
     \/ c = "nl" /\ Return(p)
     \/ c = "a" /\ n' = [n EXCEPT ![p] = @ - 1] /\ UNCHANGED <<lock, pc, target>>
     \/ c = "a" /\ Return(p)   \* either_copyout() failed
  /\ UNCHANGED <<buf, w, e, killed>>

consoleread_done(p) ==
  /\ pc[p] = "loop" /\ n[p] = 0
  /\ Return(p)
  /\ UNCHANGED <<ring, killed>>

(* kill() sets the flag and makes a sleeping process runnable. *)
kill(p) ==
  /\ ~killed[p]
  /\ killed' = [killed EXCEPT ![p] = TRUE]
  /\ pc' = [pc EXCEPT ![p] = IF @ = "sleep" THEN "woken" ELSE @]
  /\ UNCHANGED <<ring, lock, n, target>>

ReaderStep(p) ==
  \/ consoleread_woken(p) \/ consoleread_wait(p) \/ consoleread_sleep(p)
  \/ consoleread_char(p) \/ consoleread_done(p)

Next ==
  \/ \E c \in Typed : consoleintr(c)
  \/ \E p \in Readers : ReaderStep(p) \/ kill(p) \/ \E k \in Counts : consoleread(p, k)

Spec == Init /\ [][Next]_vars
-----------------------------------------------------------------------------
(* What the ring needs of its sizes: the indices wrap at a multiple of it. *)
ConsoleConstants ==
  /\ INPUT_BUF_SIZE \in Nat \ {0} /\ IDX_MOD \in Nat \ {0}
  /\ IDX_MOD % INPUT_BUF_SIZE = 0 /\ IDX_MOD > INPUT_BUF_SIZE
  /\ NoProc \notin Readers /\ Counts \subseteq Nat

(* A reader sleeps only while no complete line is there, and a full ring   *)
(* is never stuck: all of it can be read.                                  *)
SleepsOnlyWithoutLine ==
  /\ \A p \in Readers : pc[p] = "sleep" => r = w
  /\ Diff(e, r) = INPUT_BUF_SIZE => w = e

(* An end-of-file is taken out of the ring only by a read that returns     *)
(* nothing else, so that its caller sees a result of 0 bytes.              *)
EofIsARead ==
  [][\A p \in Readers : (r' # r /\ At(r) = "^D" /\ lock = p) => n[p] = target[p]]_vars

(* The three wrapping indices implement two queues: the characters of      *)
(* complete lines and the line being edited; and a read ends at an         *)
(* end-of-file.                                                            *)
Slice(i, j) == [k \in 1..Diff(j, i) |-> At(i + k - 1)]
Lines == INSTANCE LineBuffer WITH
  complete <- Slice(r, w), editing <- Slice(w, e), SIZE <- INPUT_BUF_SIZE
ImplementsLineBuffer == Lines!Spec /\ EofIsARead

(***************************************************************************)
(* The inductive invariant: r, w and e follow each other within one turn   *)
(* of the ring, the line being edited has no newline and no end-of-file,   *)
(* cons.lock is held inside the loop of consoleread(), and a reader that   *)
(* has decided to sleep has seen no line.                                  *)
(***************************************************************************)
TypeOK ==
  /\ buf \in [0..INPUT_BUF_SIZE-1 -> {"a", "nl", "^D"}]
  /\ r \in 0..IDX_MOD-1 /\ w \in 0..IDX_MOD-1 /\ e \in 0..IDX_MOD-1
  /\ lock \in Readers \cup {NoProc}
  /\ pc \in [Readers -> {"idle", "loop", "decided", "sleep", "woken"}]
  /\ n \in [Readers -> Nat] /\ target \in [Readers -> Nat]
  /\ killed \in [Readers -> BOOLEAN]

RingInv ==
  /\ Diff(w, r) + Diff(e, w) <= INPUT_BUF_SIZE
  /\ Diff(w, r) + Diff(e, w) = INPUT_BUF_SIZE => e = w
  /\ \A k \in 1..Diff(e, w) : Slice(w, e)[k] = "a"

ReadInv ==
  /\ \A p \in Readers : lock = p <=> pc[p] \in {"loop", "decided"}
  /\ \A p \in Readers : pc[p] \in {"decided", "sleep"} => r = w
  /\ \A p \in Readers : n[p] <= target[p]

ConsInv == TypeOK /\ RingInv /\ ReadInv
=============================================================================
