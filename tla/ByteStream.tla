----------------------------- MODULE ByteStream -----------------------------
(***************************************************************************)
(* What a pipe promises: a bounded first-in first-out stream of bytes.     *)
(* Bytes are taken out in the order they were put in, each one once, and   *)
(* nothing is put in once the reading side is closed.                      *)
(***************************************************************************)
EXTENDS Sequences, Naturals

CONSTANTS Readers, Bytes, Capacity

VARIABLES queue, got, readopen, writeopen

vars == <<queue, got, readopen, writeopen>>

Init ==
  /\ queue = <<>>
  /\ got \in [Readers -> Bytes]
  /\ readopen = TRUE
  /\ writeopen = TRUE

Put(b) ==
  /\ readopen /\ writeopen
  /\ Len(queue) < Capacity
  /\ queue' = Append(queue, b)
  /\ UNCHANGED <<got, readopen, writeopen>>

Get(r) ==
  /\ readopen
  /\ queue # <<>>
  /\ got' = [got EXCEPT ![r] = Head(queue)]
  /\ queue' = Tail(queue)
  /\ UNCHANGED <<readopen, writeopen>>

CloseWriter == writeopen /\ writeopen' = FALSE /\ UNCHANGED <<queue, got, readopen>>
CloseReader == readopen /\ readopen' = FALSE /\ UNCHANGED <<queue, got, writeopen>>

Next ==
  \/ \E b \in Bytes : Put(b)
  \/ \E r \in Readers : Get(r)
  \/ CloseWriter \/ CloseReader

Spec == Init /\ [][Next]_vars
=============================================================================
