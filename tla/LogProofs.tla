----------------------------- MODULE LogProofs -----------------------------
(***************************************************************************)
(* Proofs about the redo log for every number of processes and blocks and  *)
(* every size of the log: typing, the exclusion of commits and operations, *)
(* that begin_op()'s reservation keeps log_write() from finding the log    *)
(* full, and that a sleeper in begin_op() has a waker.                     *)
(***************************************************************************)
EXTENDS Log, TLAPS, FiniteSetTheorems

(* Facts about the headers, which are sequences of block numbers.          *)
LEMMA EmptySeq ==
  ASSUME NEW S
  PROVE  << >> \in Seq(S) /\ Len(<< >>) = 0
OBVIOUS

LEMMA LenProperties ==
  ASSUME NEW S, NEW s \in Seq(S)
  PROVE  Len(s) \in Nat /\ s \in [1..Len(s) -> S] /\ DOMAIN s = 1..Len(s)
OBVIOUS

LEMMA ElementOfSeq ==
  ASSUME NEW S, NEW s \in Seq(S), NEW i \in 1..Len(s)
  PROVE  s[i] \in S
OBVIOUS

LEMMA AppendProperties ==
  ASSUME NEW S, NEW s \in Seq(S), NEW x \in S
  PROVE  /\ Append(s, x) \in Seq(S) /\ Len(Append(s, x)) = Len(s) + 1
         /\ \A i \in 1..Len(s) : Append(s, x)[i] = s[i]
         /\ Append(s, x)[Len(s) + 1] = x
OBVIOUS

(* The sets counted by the invariant are finite, and an operation holds    *)
(* MaxWrites tokens at most.                                             *)
LEMMA FiniteCounts ==
  ASSUME NEW A \in SUBSET Procs, NEW l
  PROVE  /\ IsFiniteSet(A) /\ Cardinality(A) \in Nat
         /\ IsFiniteSet(TokensOf(A, l)) /\ Cardinality(TokensOf(A, l)) \in Nat
         /\ Cardinality(TokensOf(A, l)) <= Cardinality(A) * MaxWrites
<1>1. IsFiniteSet(A) /\ Cardinality(A) \in Nat
  BY Zenon, FS_Subset, FS_CardinalityType, LogConstants
<1>2. IsFiniteSet(1..MaxWrites) /\ Cardinality(1..MaxWrites) = MaxWrites
  BY FS_Interval, LogConstants
<1>3. /\ IsFiniteSet(A \X (1..MaxWrites))
      /\ Cardinality(A \X (1..MaxWrites)) = Cardinality(A) * MaxWrites
  BY ZenonT(40), <1>1, <1>2, FS_Product
<1>4. TokensOf(A, l) \in SUBSET (A \X (1..MaxWrites))
  BY Zenon DEF TokensOf
<1>5. /\ IsFiniteSet(TokensOf(A, l))
      /\ Cardinality(TokensOf(A, l)) <= Cardinality(A \X (1..MaxWrites))
  BY Zenon, <1>3, <1>4, FS_Subset
<1> QED
  BY Zenon, <1>1, <1>3, <1>5, FS_CardinalityType

(* What an operation that begins beside another leaves unused.             *)
LEMMA SpareTwice ==
  ASSUME NEW k \in Nat, k >= 2
  PROVE  k * MaxWrites + 2 * Spare <= k * MAXOPBLOCKS
<1>1. Spare \in Nat /\ MaxWrites \in Nat /\ MAXOPBLOCKS = MaxWrites + Spare
  BY LogConstants DEF Spare
<1>2. k * MAXOPBLOCKS = k * MaxWrites + k * Spare
  BY <1>1
<1>3. k * Spare = 2 * Spare + (k - 2) * Spare /\ (k - 2) * Spare >= 0
  BY <1>1
<1> QED
  BY <1>1, <1>2, <1>3

(* What fits into the log still fits when there is less of it.             *)
LEMMA FitsLess ==
  ASSUME NEW m \in Nat, NEW n \in Nat, m <= n, Fits(n)
  PROVE  Fits(m)
<1>1. Spare \in Nat /\ MaxWrites \in Nat /\ LOGSIZE \in Nat
  BY LogConstants DEF Spare
<1> QED
  BY <1>1 DEF Fits

(* An operation in progress is one of the processes.                       *)
LEMMA ActiveProcs == Active \in SUBSET Procs /\ Active' \in SUBSET Procs
  BY Zenon DEF Active

(* One more operation in progress, or one fewer, moves the count by one.   *)
LEMMA CountActive ==
  ASSUME NEW S, IsFiniteSet(S), NEW x
  PROVE  /\ x \notin S => Cardinality(S \cup {x}) = Cardinality(S) + 1
         /\ x \in S => Cardinality(S \ {x}) = Cardinality(S) - 1
  BY Zenon, FS_AddElement, FS_RemoveElement

(* The initial state: a formatted disk, and a machine about to recover.    *)
LEMMA InitInv == Init => LogInv
<1> SUFFICES ASSUME Init PROVE LogInv
  BY Zenon
<1>1. Active = {} /\ Tokens = {}
  BY Zenon DEF Init, Active, Tokens, TokensOf
<1>2. Cardinality({}) = 0
  BY Zenon, FS_EmptySet
<1>3. TypeOK
  <2>1. home \in [Blocks -> Vals] /\ logblk \in [LogSlots -> Vals]
    BY Zenon DEF Init
  <2>2. head \in Seq(Blocks) /\ lh \in Seq(Blocks)
    BY Zenon, EmptySeq DEF Init
  <2>3. committing \in BOOLEAN
    BY ZenonT(40) DEF Init
  <2> QED
    BY <2>1, <2>2, <2>3, LogConstants DEF Init, TypeOK, CommitPcs
<1>4. CommitInv
  BY Zenon, <1>1, <1>2 DEF Init, CommitInv, CommitPcs
<1>5. ProcInv /\ RoomInv /\ SleeperHasWaker
  BY <1>1, <1>2, LogConstants, EmptySeq DEF Init, ProcInv, RoomInv, SleeperHasWaker
<1> QED
  BY Zenon, <1>3, <1>4, <1>5 DEF LogInv

(* An admitted operation: begin_op() has checked that MAXOPBLOCKS blocks   *)
(* for it and for each operation in progress still fit into the log.       *)
LEMMA BeginStep ==
  ASSUME LogInv, NEW p \in Procs, begin_op(p)
  PROVE  LogInv'
<1> USE DEF LogInv, begin_op, disk
<1>1. TypeOK'
  BY LogConstants DEF TypeOK, CommitPcs
<1>2. Active' = Active \cup {p} /\ p \notin Active
  BY Zenon DEF Active, TypeOK, CommitPcs
<1>3. outstanding' = Cardinality(Active')
  BY Zenon, <1>2, CountActive, FiniteCounts, ActiveProcs DEF CommitInv
<1>4. CommitInv'
  BY Zenon, <1>2, <1>3 DEF CommitInv, CommitPcs, TypeOK, MayBegin
<1>5. ProcInv'
  BY Zenon DEF ProcInv, TypeOK, MayBegin, CommitInv, CommitPcs
<1>6. /\ Cardinality(Tokens') \in Nat
      /\ Cardinality(Tokens') <= outstanding' * MaxWrites
  BY Zenon, <1>3, FiniteCounts, ActiveProcs DEF Tokens
<1>7. Len(lh) \in Nat /\ Len(head) \in Nat
  BY Zenon, LenProperties DEF TypeOK
<1>8. /\ Len(lh') + Cardinality(Tokens') <= LOGSIZE
      /\ Fits(Len(lh') + Cardinality(Tokens'))
  <2>0. /\ MaxWrites \in Nat /\ MAXOPBLOCKS \in Nat /\ LOGSIZE \in Nat /\ Spare \in Nat
        /\ MaxWrites <= MAXOPBLOCKS /\ MAXOPBLOCKS <= LOGSIZE
    BY LogConstants DEF Spare
  <2>1. /\ outstanding \in Nat /\ outstanding' = outstanding + 1 /\ lh' = lh
        /\ Len(lh) + (outstanding + 1) * MAXOPBLOCKS <= LOGSIZE
    BY Zenon DEF MayBegin, TypeOK
  <2>2. CASE outstanding = 0
    <3>1. lh = <<>>
      BY Zenon, <2>2, FS_EmptySet, FiniteCounts, ActiveProcs DEF CommitInv, MayBegin
    <3>2. Len(lh') = 0
      BY Zenon, <2>1, <3>1, EmptySeq
    <3> QED
      BY ONLY <1>6, <2>0, <2>1, <2>2, <3>2 DEF Fits
  <2>3. CASE outstanding # 0
    <3>1. outstanding' * MaxWrites + 2 * Spare <= outstanding' * MAXOPBLOCKS
      BY <2>1, <2>3, SpareTwice
    <3>2. /\ outstanding' * MAXOPBLOCKS \in Nat /\ outstanding' * MaxWrites \in Nat
          /\ Len(lh) + outstanding' * MAXOPBLOCKS <= LOGSIZE
      BY <2>0, <2>1
    <3> QED
      BY ONLY <1>6, <1>7, <2>0, <2>1, <3>1, <3>2 DEF Fits
  <2> QED
    BY Zenon, <2>2, <2>3
<1>9. RoomInv'
  BY Zenon, <1>8 DEF RoomInv
<1>10. SleeperHasWaker'
  BY Zenon DEF SleeperHasWaker, Sleeping, Active, TypeOK, CommitPcs
<1> QED
  BY Zenon, <1>1, <1>4, <1>5, <1>9, <1>10

(* begin_op() goes to sleep: an idle log would have admitted it.           *)
LEMMA SleepStep ==
  ASSUME LogInv, NEW p \in Procs, begin_op_sleep(p)
  PROVE  LogInv'
<1> USE DEF LogInv, begin_op_sleep, disk
<1>1. TypeOK'
  BY Zenon DEF TypeOK, CommitPcs
<1>2. Active' = Active /\ Tokens' = Tokens
  BY ZenonT(40) DEF Active, Tokens, TypeOK
<1>3. CommitInv'
  BY ZenonT(40), <1>2 DEF CommitInv, CommitPcs, TypeOK
<1>4. ProcInv'
  BY Zenon DEF ProcInv, TypeOK
<1>5. RoomInv'
  BY Zenon, <1>2 DEF RoomInv
<1>6. committing \/ Active # {}
  <2> SUFFICES ASSUME ~committing, Active = {} PROVE FALSE
    BY Zenon DEF TypeOK
  <2>1. lh = <<>> /\ outstanding = 0
    BY Zenon, FS_EmptySet DEF CommitInv
  <2> QED
    BY <2>1, EmptySeq, LogConstants DEF MayBegin
<1>7. \E q \in Procs : q \in Active \/ pc[q] \in CommitPcs
  BY Zenon, <1>6 DEF CommitInv, Active
<1>8. SleeperHasWaker'
  <2>1. \E q \in Procs : q \in Active' \/ pc'[q] \in CommitPcs
    BY Zenon, <1>2, <1>7 DEF TypeOK, CommitPcs
  <2> QED
    BY Zenon, <2>1 DEF SleeperHasWaker
<1> QED
  BY Zenon, <1>1, <1>3, <1>4, <1>5, <1>8

(* An operation changes a buffer; the log does not move.                   *)
LEMMA ModifyStep ==
  ASSUME LogInv, NEW p \in Procs, NEW b \in Blocks, NEW v \in Vals, modify(p, b, v)
  PROVE  LogInv'
<1> USE DEF LogInv, modify, disk
<1>1. TypeOK'
  BY Zenon DEF TypeOK, CommitPcs
<1>2. Active' = Active /\ Tokens' = Tokens
  BY ZenonT(40) DEF Active, Tokens, TypeOK
<1>3. CommitInv'
  BY ZenonT(40), <1>2 DEF CommitInv, CommitPcs, TypeOK
<1>4. ProcInv'
  BY Zenon, LogConstants DEF ProcInv, TypeOK
<1>5. RoomInv'
  BY Zenon, <1>2 DEF RoomInv
<1>6. SleeperHasWaker'
  BY ZenonT(40), <1>2 DEF SleeperHasWaker, Sleeping, TypeOK, CommitPcs
<1> QED
  BY Zenon, <1>1, <1>3, <1>4, <1>5, <1>6

(* A panic changes nothing but the phase.                                  *)
LEMMA PanicStep ==
  ASSUME LogInv, phase = "run", panic
  PROVE  LogInv'
<1> USE DEF LogInv, panic, disk
<1>1. TypeOK'
  BY Zenon DEF TypeOK
<1>2. Active' = Active /\ Tokens' = Tokens
  BY Zenon DEF Active, Tokens
<1> QED
  BY Zenon, <1>1, <1>2 DEF CommitInv, ProcInv, RoomInv, SleeperHasWaker

(* log_write(): the block it may append takes the place of a token.        *)
LEMMA LogWriteStep ==
  ASSUME LogInv, NEW p \in Procs, log_write(p)
  PROVE  LogInv'
<1> USE DEF LogInv
<1>1. CASE TooBig \/ outstanding < 1
  BY Zenon, <1>1, PanicStep DEF log_write
<1>2. CASE ~(TooBig \/ outstanding < 1)
  <2> USE <1>2 DEF log_write, disk
  <2>0. buf[p] \in Blocks /\ left[p] \in 0..MaxWrites /\ p \in Active
    BY LogConstants DEF TypeOK, ProcInv, Active
  <2>1. /\ Len(lh) \in Nat /\ Len(head) \in Nat
        /\ Len(lh) < LOGSIZE /\ Len(lh) < NLOG - 1
    BY LenProperties, LogConstants DEF TypeOK, TooBig
  <2>2. Active' = Active /\ ~committing
    BY Zenon, <2>0 DEF Active, TypeOK, CommitInv
  <2>3. Cardinality(Tokens) \in Nat /\ Cardinality(Tokens') \in Nat
    BY ZenonT(40), FiniteCounts, ActiveProcs DEF Tokens
  <2>4. /\ lh' \in Seq(Blocks) /\ left' \in [Procs -> 0..MaxWrites]
        /\ Len(lh') \in Nat /\ Len(lh') < NLOG
        /\ Len(lh') + Cardinality(Tokens') <= Len(lh) + Cardinality(Tokens)
        /\ \A q \in Procs : left'[q] = left[q] \/ q = p
        /\ \A b \in Blocks : InLog(b, lh) => InLog(b, lh')
    <3>1. CASE InLog(buf[p], lh)
      <4>1. lh' = lh /\ left' = left
        BY <3>1 DEF TypeOK
      <4>2. Tokens' = Tokens
        BY Zenon, <2>2, <4>1 DEF Tokens
      <4> QED
        BY <2>1, <2>3, <4>1, <4>2, LogConstants DEF TypeOK
    <3>2. CASE ~InLog(buf[p], lh)
      <4>0. left[p] \in 1..MaxWrites
        BY <2>0, <3>2 DEF ProcInv
      <4>1. lh' = Append(lh, buf[p]) /\ left' = [left EXCEPT ![p] = left[p] - 1]
        BY Zenon, <3>2
      <4>2. /\ lh' \in Seq(Blocks) /\ Len(lh') = Len(lh) + 1
            /\ \A i \in 1..Len(lh) : lh'[i] = lh[i]
        <5>1. lh \in Seq(Blocks)
          BY Zenon DEF TypeOK
        <5> QED
          BY ONLY <2>0, <4>1, <5>1, AppendProperties
      <4>3. \A b \in Blocks : InLog(b, lh) => InLog(b, lh')
        <5>1. DOMAIN lh = 1..Len(lh) /\ DOMAIN lh' = 1..Len(lh')
          BY Zenon, <4>2, LenProperties DEF TypeOK
        <5> QED
          BY ONLY <2>1, <4>2, <5>1 DEF InLog
      <4>4. left' \in [Procs -> 0..MaxWrites]
        <5>1. left[p] - 1 \in 0..MaxWrites
          BY <4>0, LogConstants
        <5> QED
          BY Zenon, <4>1, <5>1 DEF TypeOK
      <4>5. /\ Tokens' = Tokens \ {<<p, left[p]>>}
            /\ <<p, left[p]>> \in Tokens
        BY <2>0, <2>2, <4>0, <4>1, LogConstants DEF Tokens, TokensOf, TypeOK, Active
      <4>6. Cardinality(Tokens') = Cardinality(Tokens) - 1
        BY ZenonT(40), <4>5, FiniteCounts, ActiveProcs, CountActive DEF Tokens
      <4>7. \A q \in Procs : left'[q] = left[q] \/ q = p
        BY Zenon, <4>1 DEF TypeOK
      <4> QED
        BY <2>1, <2>3, <4>2, <4>3, <4>4, <4>6, <4>7, LogConstants
    <3> QED
      BY Zenon, <3>1, <3>2
  <2>5. TypeOK'
    <3>1. pins' \in [Blocks -> Int]
      BY <2>0 DEF TypeOK
    <3> QED
      BY ZenonT(40), <2>4, <3>1 DEF TypeOK, CommitPcs
  <2>6. CommitInv'
    BY ZenonT(40), <2>0, <2>2 DEF CommitInv, CommitPcs, TypeOK
  <2>7. ProcInv'
    <3> SUFFICES ASSUME NEW q \in Procs
                 PROVE  /\ pc'[q] = "log_write" <=> buf'[q] # NoBuf
                        /\ pc'[q] = "log_write" => left'[q] > 0 \/ InLog(buf'[q], lh')
                        /\ pc'[q] \notin CommitPcs
      BY Zenon DEF ProcInv, CommitPcs
    <3>1. CASE q = p
      BY Zenon, <3>1 DEF TypeOK, CommitPcs
    <3>2. CASE q # p
      <4>1. pc'[q] = pc[q] /\ buf'[q] = buf[q] /\ left'[q] = left[q]
        BY Zenon, <2>4, <3>2 DEF TypeOK
      <4>2. pc[q] \notin CommitPcs
        BY Zenon, <2>2 DEF CommitInv
      <4>3. /\ pc[q] = "log_write" <=> buf[q] # NoBuf
            /\ pc[q] = "log_write" => left[q] > 0 \/ InLog(buf[q], lh)
            /\ buf[q] # NoBuf => buf[q] \in Blocks
        BY Zenon DEF ProcInv, TypeOK
      <4> QED
        BY ONLY Zenon, <2>4, <4>1, <4>2, <4>3
    <3> QED
      BY Zenon, <3>1, <3>2
  <2>8. Len(lh) + Cardinality(Tokens) <= LOGSIZE /\ Fits(Len(lh) + Cardinality(Tokens))
    BY Zenon, <2>0 DEF RoomInv
  <2>9. RoomInv'
    <3>1. /\ Len(lh) + Cardinality(Tokens) \in Nat
          /\ Len(lh') + Cardinality(Tokens') \in Nat
          /\ Len(lh') + Cardinality(Tokens') <= LOGSIZE
      BY ONLY <2>1, <2>3, <2>4, <2>8, LogConstants
    <3>2. Fits(Len(lh') + Cardinality(Tokens'))
      BY Zenon, <2>4, <2>8, <3>1, FitsLess
    <3> QED
      BY Zenon, <2>4, <3>1, <3>2 DEF RoomInv
  <2>10. SleeperHasWaker'
    BY ZenonT(40), <2>2 DEF SleeperHasWaker, Sleeping, TypeOK, CommitPcs
  <2> QED
    BY Zenon, <2>5, <2>6, <2>7, <2>9, <2>10
<1> QED
  BY Zenon, <1>1, <1>2

(* end_op(): with the last operation gone the log is handed to commit().   *)
LEMMA EndStep ==
  ASSUME LogInv, NEW p \in Procs, end_op(p)
  PROVE  LogInv'
<1> USE DEF LogInv
<1>1. p \in Active /\ ~committing /\ phase = "run"
  BY Zenon DEF Active, CommitInv, end_op
<1>2. /\ outstanding' = outstanding - 1
      /\ UNCHANGED <<home, logblk, head, cache, pins, lh, buf, left, phase>>
  BY Zenon, <1>1 DEF end_op, disk
<1>3. /\ pc' \in [Procs -> {"idle", "begin", "sleep", "op", "log_write"} \cup CommitPcs]
      /\ committing' \in BOOLEAN
      /\ tail' \in Nat \ {0}
  <2>1. CASE outstanding = 1
    <3>1. /\ committing' = TRUE /\ tail' = 1
          /\ pc' = [pc EXCEPT ![p] = IF lh = <<>> THEN "done" ELSE "write_log"]
      BY Zenon, <1>1, <2>1 DEF end_op
    <3> QED
      BY <3>1 DEF TypeOK, CommitPcs
  <2>2. CASE outstanding # 1
    <3>1. /\ pc' = wakeup([pc EXCEPT ![p] = "idle"])
          /\ UNCHANGED <<committing, tail>>
      BY Zenon, <1>1, <2>2 DEF end_op
    <3> QED
      BY Zenon, <3>1 DEF TypeOK, wakeup
  <2> QED
    BY Zenon, <2>1, <2>2
<1>4. Active' = Active \ {p}
  BY Zenon, <1>1 DEF Active, end_op, wakeup, TypeOK, CommitPcs
<1>5. outstanding' = Cardinality(Active') /\ outstanding \in Nat /\ outstanding' \in Nat
  BY ZenonT(40), <1>1, <1>2, <1>4, CountActive, FiniteCounts, ActiveProcs DEF CommitInv
<1>6. TypeOK'
  BY Zenon, <1>2, <1>3, <1>5 DEF TypeOK
<1>7. RoomInv'
  <2>1. Tokens' \in SUBSET Tokens
    BY Zenon, <1>2, <1>4 DEF Tokens, TokensOf
  <2>2. Cardinality(Tokens') <= Cardinality(Tokens)
    BY ZenonT(40), <2>1, FS_Subset, FiniteCounts, ActiveProcs DEF Tokens
  <2>3. /\ Cardinality(Tokens') \in Nat /\ Cardinality(Tokens) \in Nat
        /\ Len(lh) \in Nat
    BY ZenonT(40), FiniteCounts, ActiveProcs, LenProperties DEF Tokens, TypeOK
  <2>4. Len(lh) + Cardinality(Tokens) <= LOGSIZE /\ Fits(Len(lh) + Cardinality(Tokens))
    BY Zenon, <1>1 DEF RoomInv
  <2>5. /\ Len(lh) + Cardinality(Tokens) \in Nat
        /\ Len(lh) + Cardinality(Tokens') \in Nat
        /\ Len(lh) + Cardinality(Tokens') <= Len(lh) + Cardinality(Tokens)
        /\ Len(lh) + Cardinality(Tokens') <= LOGSIZE
    BY ONLY <2>2, <2>3, <2>4, LogConstants
  <2>6. Fits(Len(lh) + Cardinality(Tokens'))
    BY Zenon, <2>4, <2>5, FitsLess
  <2> QED
    BY Zenon, <1>1, <1>2, <2>5, <2>6 DEF RoomInv
<1>8. CASE outstanding = 1
  <2>1. Active' = {}
    <3>1. IsFiniteSet(Active') /\ Cardinality(Active') = 0
      BY <1>2, <1>5, <1>8, FiniteCounts, ActiveProcs
    <3> QED
      BY Zenon, <3>1, FS_EmptySet
  <2>2. /\ committing' = TRUE /\ tail' = 1
        /\ pc' = [pc EXCEPT ![p] = IF lh = <<>> THEN "done" ELSE "write_log"]
    BY Zenon, <1>1, <1>8 DEF end_op
  <2>3. pc'[p] \in CommitPcs
    BY Zenon, <2>2 DEF CommitPcs, TypeOK
  <2>4. CommitInv'
    BY Zenon, <1>1, <1>2, <1>5, <2>1, <2>2, <2>3 DEF CommitInv, TypeOK
  <2>5. lh # <<>> => Len(lh) \in Nat \ {0}
    BY EmptySeq DEF TypeOK
  <2>6. ProcInv'
    BY <1>1, <2>2, <2>5 DEF ProcInv, end_op, CommitInv, CommitPcs
  <2>7. SleeperHasWaker'
    BY Zenon, <2>3 DEF SleeperHasWaker
  <2> QED
    BY Zenon, <1>6, <1>7, <2>4, <2>6, <2>7
<1>9. CASE outstanding # 1
  <2>1. /\ pc' = wakeup([pc EXCEPT ![p] = "idle"])
        /\ UNCHANGED <<committing, tail>>
    BY Zenon, <1>1, <1>9 DEF end_op
  <2>2. Active' # {}
    BY <1>2, <1>5, <1>9, FS_EmptySet
  <2>3. CommitInv'
    BY <1>1, <1>2, <1>5, <2>1, <2>2 DEF CommitInv, CommitPcs, wakeup
  <2>4. ProcInv'
    BY <1>2, <2>1 DEF ProcInv, end_op, CommitInv, CommitPcs, wakeup
  <2>5. SleeperHasWaker'
    BY Zenon, <2>1 DEF SleeperHasWaker, Sleeping, TypeOK, wakeup
  <2> QED
    BY Zenon, <1>6, <1>7, <2>3, <2>4, <2>5
<1> QED
  BY Zenon, <1>8, <1>9

(* The disk writes of commit().  The committer is alone: no operation is   *)
(* in progress and no other process is in commit(), so the loop index and  *)
(* the in-memory header are its own.                                       *)
LEMMA CommitSteps ==
  ASSUME LogInv, NEW p \in Procs,
         write_log(p) \/ write_head(p) \/ install_trans(p) \/ clear_head(p)
  PROVE  LogInv'
<1> USE DEF LogInv
<1>1. /\ phase = "run" /\ pc[p] \in CommitPcs \ {"done"} /\ committing
      /\ \A q \in Procs \ {p} : pc[q] \notin CommitPcs
      /\ Active = {}
  BY Zenon DEF write_log, write_head, install_trans, clear_head, CommitInv, CommitPcs
<1>2. /\ Len(lh) \in Nat /\ Len(head) \in Nat
      /\ \A i \in 1..Len(lh) : lh[i] \in Blocks
  BY Zenon, LenProperties, ElementOfSeq DEF TypeOK
<1>3. UNCHANGED <<outstanding, committing, buf, left, phase>>
  BY Zenon DEF write_log, write_head, install_trans, clear_head
<1>4. \E c \in CommitPcs : pc' = [pc EXCEPT ![p] = c]
  BY Zenon DEF write_log, write_head, install_trans, clear_head, NextTail, CommitPcs
<1>5. Active' = {} /\ Tokens = {} /\ Tokens' = {}
  BY <1>1, <1>4 DEF Active, Tokens, TokensOf, TypeOK, CommitPcs
<1>6. TypeOK'
  <2>1. /\ head' \in Seq(Blocks) /\ lh' \in Seq(Blocks)
        /\ tail' \in Nat \ {0}
    <3>1. /\ lh' = lh \/ lh' = <<>>
          /\ head' = head \/ head' = lh \/ head' = <<>>
      BY Zenon DEF write_log, write_head, install_trans, clear_head
    <3>2. tail' = tail \/ tail' = 1 \/ tail' = tail + 1
      BY Zenon DEF write_log, write_head, install_trans, clear_head, NextTail
    <3>3. head \in Seq(Blocks) /\ lh \in Seq(Blocks) /\ <<>> \in Seq(Blocks)
      BY Zenon, EmptySeq DEF TypeOK
    <3>4. tail' \in Nat \ {0}
      BY <3>2 DEF TypeOK
    <3> QED
      BY ZenonT(40), <3>1, <3>3, <3>4
  <2>2. /\ home' \in [Blocks -> Vals] /\ logblk' \in [LogSlots -> Vals]
        /\ cache' \in [Blocks -> Vals \cup {NotCached}]
        /\ pins' \in [Blocks -> Int]
    <3>1. CASE write_log(p)
      <4>1. tail \in 1..Len(lh) /\ lh[tail] \in Blocks
        BY <1>2, <3>1 DEF write_log, ProcInv, TypeOK
      <4>2. View(lh[tail]) \in Vals
        BY Zenon, <4>1 DEF View, TypeOK
      <4> QED
        BY ZenonT(40), <3>1, <4>1, <4>2 DEF write_log, TypeOK
    <3>2. CASE install_trans(p)
      <4>1. tail \in 1..Len(lh) /\ lh[tail] \in Blocks
        BY <1>2, <3>2 DEF install_trans, ProcInv, TypeOK
      <4>2. logblk[tail] \in Vals
        <5>1. Len(lh) < NLOG /\ NLOG \in Nat /\ Len(lh) \in Nat
          BY Zenon, <1>2, LogConstants DEF RoomInv
        <5>2. tail \in LogSlots
          BY ONLY <4>1, <5>1 DEF LogSlots
        <5> QED
          BY Zenon, <5>2 DEF TypeOK
      <4>3. /\ home' = [home EXCEPT ![lh[tail]] = logblk[tail]]
            /\ cache' = [cache EXCEPT ![lh[tail]] = logblk[tail]]
            /\ logblk' = logblk /\ pins' \in [Blocks -> Int]
        BY <3>2, <4>1 DEF install_trans, CopyToHome, TypeOK
      <4> QED
        BY Zenon, <4>1, <4>2, <4>3 DEF TypeOK
    <3>3. CASE write_head(p) \/ clear_head(p)
      BY Zenon, <3>3 DEF write_head, clear_head, TypeOK
    <3> QED
      BY Zenon, <3>1, <3>2, <3>3
  <2> QED
    BY <1>3, <1>4, <2>1, <2>2 DEF TypeOK, CommitPcs
<1>7. CommitInv'
  <2>1. pc'[p] \in CommitPcs /\ \A q \in Procs \ {p} : pc'[q] \notin CommitPcs
    BY Zenon, <1>1, <1>4 DEF TypeOK
  <2>2. outstanding' = Cardinality(Active')
    BY Zenon, <1>1, <1>3, <1>5 DEF CommitInv
  <2> QED
    BY ZenonT(40), <1>1, <1>3, <1>5, <2>1, <2>2 DEF CommitInv
<1>8. ProcInv'
  <2>1. buf'[p] = NoBuf
    BY Zenon, <1>1, <1>3 DEF ProcInv, CommitPcs
  <2>2. /\ pc'[p] \in {"write_log", "install"} => tail' <= Len(lh')
        /\ pc'[p] = "write_head" => lh' # <<>> /\ tail' = 1
        /\ pc'[p] = "clear" => tail' = 1
        /\ pc'[p] = "done" => lh' = <<>> /\ tail' = 1
    <3>1. CASE write_log(p)
      BY <3>1 DEF write_log, NextTail, TypeOK, ProcInv
    <3>2. CASE install_trans(p)
      BY <3>2 DEF install_trans, NextTail, TypeOK, ProcInv
    <3>3. CASE write_head(p)
      BY <1>2, <3>3, EmptySeq DEF write_head, ProcInv
    <3>4. CASE clear_head(p)
      BY Zenon, <1>2, <3>4, EmptySeq DEF clear_head, TypeOK, ProcInv
    <3> QED
      BY Zenon, <3>1, <3>2, <3>3, <3>4
  <2>3. pc'[p] \in CommitPcs /\ \A q \in Procs \ {p} : pc'[q] = pc[q] /\ pc[q] \notin CommitPcs
    BY Zenon, <1>1, <1>4 DEF TypeOK
  <2>4. \A q \in Procs : buf'[q] = NoBuf /\ pc'[q] # "log_write"
    <3>1. \A q \in Procs : pc[q] # "log_write" /\ buf[q] = NoBuf
      BY Zenon, <1>1 DEF Active, ProcInv
    <3> QED
      BY Zenon, <1>3, <2>3, <3>1 DEF CommitPcs
  <2> QED
    BY Zenon, <2>2, <2>3, <2>4 DEF ProcInv, CommitPcs
<1>9. RoomInv'
  <2>1. /\ lh' = lh \/ lh' = <<>>
        /\ head' = head \/ head' = lh \/ head' = <<>>
    BY Zenon DEF write_log, write_head, install_trans, clear_head
  <2>2. Cardinality(Tokens) = 0 /\ Cardinality(Tokens') = 0 /\ Len(<<>>) = 0
    BY Zenon, <1>5, FS_EmptySet, EmptySeq
  <2>3. /\ Len(head') < NLOG /\ Len(lh') < NLOG /\ Len(head') <= LOGSIZE
        /\ Len(lh') + Cardinality(Tokens') <= LOGSIZE
    <3>1. /\ Len(head) < NLOG /\ Len(lh) < NLOG /\ Len(head) <= LOGSIZE
          /\ Len(lh) + Cardinality(Tokens) <= LOGSIZE
      BY Zenon DEF RoomInv
    <3> QED
      BY ONLY <1>2, <2>1, <2>2, <3>1, LogConstants
  <2> QED
    BY Zenon, <1>1, <1>3, <1>5, <2>3 DEF RoomInv
<1>10. SleeperHasWaker'
  BY ZenonT(40), <1>4 DEF SleeperHasWaker, TypeOK
<1> QED
  BY Zenon, <1>6, <1>7, <1>8, <1>9, <1>10

(* The committer lets operations in again; the log is empty.               *)
LEMMA EndCommitStep ==
  ASSUME LogInv, NEW p \in Procs, end_commit(p)
  PROVE  LogInv'
<1> USE DEF LogInv, end_commit, disk
<1>1. Active = {} /\ committing /\ \A q \in Procs \ {p} : pc[q] \notin CommitPcs
  BY Zenon DEF CommitInv, CommitPcs
<1>2. /\ pc' \in [Procs -> {"idle", "begin", "sleep", "op", "log_write"} \cup CommitPcs]
      /\ \A q \in Procs : pc'[q] \notin CommitPcs \cup {"op", "log_write", "sleep"}
      /\ committing' \in BOOLEAN
  BY ZenonT(40), <1>1 DEF wakeup, TypeOK, CommitPcs, Active
<1>3. Active' = {}
  BY ZenonT(40), <1>2 DEF Active
<1>4. TypeOK'
  BY ZenonT(40), <1>2 DEF TypeOK
<1>5. Tokens = {} /\ Tokens' = {}
  BY Zenon, <1>1, <1>3 DEF Tokens, TokensOf
<1>6. CommitInv'
  BY ZenonT(40), <1>1, <1>2, <1>3 DEF CommitInv, ProcInv
<1>7. ProcInv' /\ RoomInv' /\ SleeperHasWaker'
  BY ZenonT(40), <1>1, <1>2, <1>5 DEF ProcInv, RoomInv, SleeperHasWaker, Sleeping, CommitPcs, Active
<1> QED
  BY Zenon, <1>4, <1>6, <1>7

(* Recycling a buffer only changes the cache.                              *)
LEMMA RecycleStep ==
  ASSUME LogInv, NEW b \in Blocks, bget_recycle(b)
  PROVE  LogInv'
<1> USE DEF LogInv, bget_recycle, disk
<1>1. TypeOK'
  BY Zenon DEF TypeOK
<1>2. Active' = Active /\ Tokens' = Tokens
  BY ZenonT(40) DEF Active, Tokens
<1> QED
  BY Zenon, <1>1, <1>2 DEF CommitInv, ProcInv, RoomInv, SleeperHasWaker, Sleeping

(* After a crash only the disk is left, and its header still fits.         *)
LEMMA CrashStep ==
  ASSUME LogInv, crash
  PROVE  LogInv'
<1> USE DEF LogInv, crash, disk
<1>1. Active' = {} /\ Tokens' = {}
  BY Zenon DEF Active, Tokens, TokensOf
<1>2. Cardinality({}) = 0 /\ Len(<<>>) = 0 /\ <<>> \in Seq(Blocks)
  BY Zenon, FS_EmptySet, EmptySeq
<1>3. committing' \in BOOLEAN
  BY Zenon
<1>4. TypeOK'
  BY <1>2, <1>3, LogConstants DEF TypeOK, CommitPcs
<1>5. CommitInv'
  BY Zenon, <1>1, <1>2 DEF CommitInv, CommitPcs
<1>6. ProcInv' /\ SleeperHasWaker'
  BY Zenon DEF ProcInv, SleeperHasWaker
<1>7. RoomInv'
  BY <1>1, <1>2, LogConstants DEF RoomInv
<1> QED
  BY Zenon, <1>4, <1>5, <1>6, <1>7

(* Recovery: every process is idle, the header read back fits into the log.*)
LEMMA RecoverySteps ==
  ASSUME LogInv, read_head \/ recover_install \/ recover_clear
  PROVE  LogInv'
<1> USE DEF LogInv
<1>1. \A p \in Procs : pc[p] = "idle"
  BY Zenon DEF CommitInv, read_head, recover_install, recover_clear
<1>2. UNCHANGED <<pc, buf, left, outstanding, committing, pins, logblk>>
  BY Zenon DEF read_head, recover_install, recover_clear, disk
<1>3. Active = {} /\ Active' = {} /\ Tokens' = {}
  BY Zenon, <1>1, <1>2 DEF Active, Tokens, TokensOf
<1>4. Cardinality({}) = 0 /\ Len(<<>>) = 0 /\ <<>> \in Seq(Blocks)
  BY Zenon, FS_EmptySet, EmptySeq
<1>5. /\ Len(lh) \in Nat /\ Len(head) \in Nat
      /\ head # <<>> => Len(head) \in Nat \ {0}
      /\ \A i \in 1..Len(lh) : lh[i] \in Blocks
  BY SMTT(40), LenProperties, ElementOfSeq, EmptySeq DEF TypeOK
<1>6. CommitInv'
  BY Zenon, <1>1, <1>2, <1>3 DEF CommitInv, CommitPcs, recover_clear, read_head, recover_install
<1>7. ProcInv' /\ SleeperHasWaker'
  BY Zenon, <1>1, <1>2 DEF ProcInv, SleeperHasWaker, Sleeping
<1>8. CASE read_head
  <2>1. TypeOK'
    BY Zenon, <1>8 DEF read_head, TypeOK, disk
  <2>2. RoomInv'
    BY <1>3, <1>4, <1>5, <1>8, LogConstants DEF read_head, RoomInv, disk
  <2> QED
    BY Zenon, <1>6, <1>7, <2>1, <2>2
<1>9. CASE recover_install
  <2>1. tail \in 1..Len(lh) /\ lh[tail] \in Blocks
    BY <1>5, <1>9 DEF recover_install, RoomInv, TypeOK
  <2>2. logblk[tail] \in Vals
    <3>1. Len(lh) < NLOG /\ NLOG \in Nat /\ Len(lh) \in Nat
      BY Zenon, <1>5, LogConstants DEF RoomInv
    <3>2. tail \in LogSlots
      BY ONLY <2>1, <3>1 DEF LogSlots
    <3>3. logblk \in [LogSlots -> Vals]
      BY Zenon DEF TypeOK
    <3> QED
      BY ONLY Zenon, <3>2, <3>3
  <2>3. TypeOK'
    <3>1. home' \in [Blocks -> Vals] /\ cache' \in [Blocks -> Vals \cup {NotCached}]
      BY Zenon, <1>9, <2>1, <2>2 DEF recover_install, CopyToHome, TypeOK
    <3>2. tail' \in Nat \ {0} /\ phase' \in {"recover", "recover_clear"}
      BY SMTT(40), <1>9, <2>1 DEF recover_install, TypeOK
    <3> QED
      BY Zenon, <1>9, <3>1, <3>2 DEF recover_install, TypeOK, CommitPcs
  <2>4. RoomInv'
    BY <1>2, <1>5, <1>9, <2>1 DEF recover_install, RoomInv, Active, Tokens
  <2> QED
    BY Zenon, <1>6, <1>7, <2>3, <2>4
<1>10. CASE recover_clear
  <2>1. TypeOK'
    BY Zenon, <1>4, <1>10 DEF recover_clear, TypeOK
  <2>2. RoomInv'
    BY <1>3, <1>4, <1>10, LogConstants DEF recover_clear, RoomInv
  <2> QED
    BY Zenon, <1>6, <1>7, <2>1, <2>2
<1> QED
  BY Zenon, <1>8, <1>9, <1>10

(* LogInv is inductive.                                                    *)
LEMMA NextInv == LogInv /\ [Next]_vars => LogInv'
<1> SUFFICES ASSUME LogInv, [Next]_vars PROVE LogInv'
  BY Zenon
<1>1. ASSUME NEW p \in Procs, begin_op(p) \/ begin_op_sleep(p) \/ log_write(p) \/ end_op(p)
      PROVE LogInv'
  BY Zenon, <1>1, BeginStep, SleepStep, LogWriteStep, EndStep
<1>2. ASSUME NEW p \in Procs, CommitStep(p) PROVE LogInv'
  BY Zenon, <1>2, CommitSteps, EndCommitStep DEF CommitStep
<1>3. ASSUME NEW p \in Procs, NEW b \in Blocks, NEW v \in Vals, modify(p, b, v)
      PROVE LogInv'
  BY Zenon, <1>3, ModifyStep
<1>4. ASSUME NEW b \in Blocks, bget_recycle(b) PROVE LogInv'
  BY Zenon, <1>4, RecycleStep
<1>5. CASE crash
  BY Zenon, <1>5, CrashStep
<1>6. CASE read_head \/ recover_install \/ recover_clear
  BY Zenon, <1>6, RecoverySteps
<1>7. CASE UNCHANGED vars
  BY <1>7 DEF vars, LogInv, TypeOK, CommitInv, ProcInv, RoomInv, SleeperHasWaker, Sleeping,
     Active, Tokens
<1> QED
  BY Zenon, <1>1, <1>2, <1>3, <1>4, <1>5, <1>6, <1>7 DEF Next

(* LogInv holds in every state of every run of the log.                    *)
THEOREM Invariance == Spec => []LogInv
  BY InitInv, NextInv, PTL DEF Spec

(* Every state of the log is well typed; in particular no log or header    *)
(* index leaves its array.                                                 *)
THEOREM TypeCorrect == Spec => []TypeOK
<1>1. LogInv => TypeOK
  BY Zenon DEF LogInv
<1> QED
  BY <1>1, Invariance, PTL

(* log.c:13: a commit never runs while an operation is in progress, nor    *)
(* beside another commit.                                                  *)
THEOREM CommitExclusion == Spec => []CommitExcludesOps
<1>1. LogInv => CommitExcludesOps
  BY Zenon DEF LogInv, CommitInv, CommitExcludesOps
<1> QED
  BY <1>1, Invariance, PTL

(* A process asleep in begin_op() has someone left to wake it.             *)
THEOREM SleepersHaveWakers == Spec => []SleeperHasWaker
<1>1. LogInv => SleeperHasWaker
  BY Zenon DEF LogInv
<1> QED
  BY <1>1, Invariance, PTL

(* In a log laid out as mkfs lays it out (NLOG = LOGSIZE, mkfs.c:25) or    *)
(* larger, operations that add fewer than MAXOPBLOCKS blocks each never    *)
(* make log_write() panic, however many run together and however often     *)
(* they change a block again, and end_op() never meets a commit.  The      *)
(* sizes of param.h (10, 30) meet the assumptions; that MAXOPBLOCKS blocks *)
(* themselves are too many there is what the run log_mkfs shows.           *)
THEOREM ReservationSuffices ==
  ASSUME MaxWrites < MAXOPBLOCKS, MAXOPBLOCKS < LOGSIZE, LOGSIZE <= NLOG
  PROVE  Spec => []NoPanic
<1>1. Init => NoPanic
  BY Zenon DEF Init, NoPanic
<1>2. LogInv /\ NoPanic /\ [Next]_vars => NoPanic'
  <2> SUFFICES ASSUME LogInv, NoPanic, [Next]_vars PROVE NoPanic'
    BY Zenon
  <2> USE DEF NoPanic
  <2>1. ASSUME NEW p \in Procs, log_write(p) PROVE NoPanic'
    <3>1. p \in Active
      BY Zenon, <2>1 DEF log_write, Active
    <3>2. /\ Cardinality(Tokens) \in Nat
          /\ IsFiniteSet(Active) /\ Cardinality(Active) \in Nat
      BY ZenonT(40), FiniteCounts, ActiveProcs DEF Tokens
    <3>3. Cardinality(Active) > 0
      BY <3>1, <3>2, FS_EmptySet
    <3>4. /\ Len(lh) \in Nat /\ Fits(Len(lh) + Cardinality(Tokens))
          /\ outstanding = Cardinality(Active)
      BY Zenon, <3>1, LenProperties DEF LogInv, TypeOK, RoomInv, CommitInv
    <3>5. ~TooBig /\ outstanding >= 1
      BY ONLY <3>2, <3>3, <3>4, LogConstants, MaxWrites < MAXOPBLOCKS,
         MAXOPBLOCKS < LOGSIZE, LOGSIZE <= NLOG DEF TooBig, Fits, Spare
    <3> QED
      BY <2>1, <3>5, <3>4, <3>2 DEF log_write
  <2>2. ASSUME NEW p \in Procs, end_op(p) PROVE NoPanic'
    BY Zenon, <2>2 DEF end_op, LogInv, CommitInv, Active
  <2>3. ASSUME NEW p \in Procs, begin_op(p) \/ begin_op_sleep(p) PROVE NoPanic'
    BY Zenon, <2>3 DEF begin_op, begin_op_sleep
  <2>4. ASSUME NEW p \in Procs, CommitStep(p) PROVE NoPanic'
    BY Zenon, <2>4 DEF CommitStep, write_log, write_head, install_trans, clear_head, end_commit
  <2>5. ASSUME NEW p \in Procs, NEW b \in Blocks, NEW v \in Vals,
               modify(p, b, v)
        PROVE NoPanic'
    BY Zenon, <2>5 DEF modify
  <2>6. CASE crash \/ read_head \/ recover_install \/ recover_clear
    BY Zenon, <2>6 DEF crash, read_head, recover_install, recover_clear
  <2>7. ASSUME NEW b \in Blocks, bget_recycle(b) PROVE NoPanic'
    BY Zenon, <2>7 DEF bget_recycle
  <2>8. CASE UNCHANGED vars
    BY Zenon, <2>8 DEF vars
  <2> QED
    BY Zenon, <2>1, <2>2, <2>3, <2>4, <2>5, <2>6, <2>7, <2>8 DEF Next
<1> QED
  BY <1>1, <1>2, Invariance, PTL DEF Spec
=============================================================================
