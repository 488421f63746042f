--------------------------- MODULE LogRefinement ---------------------------
(***************************************************************************)
(* The log implements the transactional disk, for every number of          *)
(* processes and blocks and every size of the log.  DataInv relates the    *)
(* cache, the pins, the log's blocks and the header at each place of       *)
(* commit() and of recovery; it is inductive relative to LogInv.           *)
(***************************************************************************)
EXTENDS LogProofs

(* The values that mark no copy and no buffer are no data and no block.    *)
LEMMA Markers == NotCached \notin Vals /\ NoBuf \notin Blocks
  BY Zenon, LogConstants

(* The types of the memory and of the control state, out of LogInv.        *)
LEMMA MemoryTyped ==
  ASSUME LogInv
  PROVE  /\ home \in [Blocks -> Vals] /\ logblk \in [LogSlots -> Vals]
         /\ cache \in [Blocks -> Vals \cup {NotCached}] /\ pins \in [Blocks -> Int]
         /\ buf \in [Procs -> Blocks \cup {NoBuf}]
  BY Zenon DEF LogInv, TypeOK

LEMMA PlaceTyped ==
  ASSUME LogInv
  PROVE  /\ DOMAIN pc = Procs /\ tail \in Nat \ {0}
         /\ pc = [p \in Procs |-> pc[p]]
  BY Zenon DEF LogInv, TypeOK

(* While nobody commits every logged block is due and none is copied.      *)
LEMMA NoCommitter ==
  ASSUME LogInv, ~committing
  PROVE  /\ \A p \in Procs : pc[p] \notin CommitPcs
         /\ \A i : Due(i) /\ ~Copied(i)
  BY Zenon DEF LogInv, CommitInv, CommitPcs, Due, Copied

(* The committer alone decides which blocks are due and which are copied,  *)
(* and nobody holds a buffer beside it.                                    *)
LEMMA Committer ==
  ASSUME LogInv, NEW p \in Procs, pc[p] \in CommitPcs
  PROVE  /\ \A q \in Procs : buf[q] = NoBuf
         /\ Active = {}
         /\ \A q \in Procs \ {p} : pc[q] \notin CommitPcs
         /\ \A i : Due(i) <=> (pc[p] = "install" => i >= tail) /\ pc[p] # "clear"
         /\ \A i : Copied(i) <=> \/ pc[p] = "write_log" /\ i < tail
                                 \/ pc[p] \in {"write_head", "install"}
<1>1. Active = {} /\ \A q \in Procs \ {p} : pc[q] \notin CommitPcs
  BY Zenon DEF LogInv, CommitInv
<1>2. \A q \in Procs : buf[q] = NoBuf
  BY Zenon, <1>1 DEF LogInv, ProcInv, Active
<1> QED
  BY Zenon, <1>1, <1>2 DEF Due, Copied, CommitPcs

(* The blocks of a header are blocks, at the places 1 to Len.              *)
LEMMA HeaderBlocks ==
  ASSUME TypeOK
  PROVE  /\ DOMAIN lh = 1..Len(lh) /\ Len(lh) \in Nat
         /\ \A i \in DOMAIN lh : lh[i] \in Blocks
         /\ \A i \in DOMAIN head : head[i] \in Blocks
  BY Zenon, LenProperties, ElementOfSeq DEF TypeOK

(* A formatted disk is consistent.                                         *)
LEMMA InitData == Init => DataInv
<1> SUFFICES ASSUME Init PROVE DataInv
  BY Zenon
<1>1. DOMAIN <<>> = {}
  BY EmptySeq
<1> QED
  BY Zenon, <1>1 DEF Init, DataInv, HeaderInv, NoDuplicates, PinsMatchLog, CacheInv, CopyInv,
     RecoverInv

(* begin_op() admits an operation or sleeps: the data stays as it is.      *)
LEMMA BeginData ==
  ASSUME LogInv, DataInv, NEW p \in Procs, begin_op(p) \/ begin_op_sleep(p)
  PROVE  DataInv'
<1>1. /\ UNCHANGED <<home, logblk, head, cache, pins, lh, buf, tail, phase>>
      /\ phase = "run"
      /\ \E c \in {"op", "sleep"} : pc' = [pc EXCEPT ![p] = c]
      /\ pc[p] \in {"idle", "begin"}
  BY Zenon DEF begin_op, begin_op_sleep, disk
<1>2. /\ \A i : Due(i)' <=> Due(i)
      /\ \A i : Copied(i)' <=> Copied(i)
      /\ \A q \in Procs : pc'[q] \in {"install", "clear"} <=> pc[q] \in {"install", "clear"}
  BY ZenonT(40), <1>1 DEF Due, Copied, LogInv, TypeOK
<1> QED
  BY ZenonT(40), <1>1, <1>2 DEF DataInv, HeaderInv, PinsMatchLog, CacheInv, CopyInv, RecoverInv

(* An operation changes a buffer and holds it; no commit is running.       *)
LEMMA ModifyData ==
  ASSUME LogInv, DataInv, NEW p \in Procs, NEW b \in Blocks, NEW v \in Vals, modify(p, b, v)
  PROVE  DataInv'
<1>1. /\ UNCHANGED <<home, logblk, head, pins, lh, tail, phase>>
      /\ phase = "run" /\ pc[p] = "op"
      /\ pc' = [pc EXCEPT ![p] = "log_write"]
      /\ cache' = [cache EXCEPT ![b] = v]
      /\ buf' = [buf EXCEPT ![p] = b]
  BY Zenon DEF modify, disk
<1>2. p \in Active /\ ~committing
  BY Zenon, <1>1 DEF LogInv, CommitInv, Active
<1>3. /\ \A i : Due(i) /\ ~Copied(i) /\ Due(i)' /\ ~Copied(i)'
      /\ \A q \in Procs : pc[q] \notin CommitPcs /\ pc'[q] \notin CommitPcs
  BY <1>1, <1>2, NoCommitter DEF Due, Copied, CommitPcs
<1>4. buf[p] = NoBuf /\ v # NotCached
  BY Zenon, <1>1, LogConstants DEF LogInv, ProcInv
<1>5. HeaderInv' /\ PinsMatchLog' /\ CopyInv' /\ RecoverInv'
  BY Zenon, <1>1, <1>3 DEF DataInv, HeaderInv, PinsMatchLog, CopyInv, RecoverInv, CommitPcs
<1>6. CacheInv'
  <2>1. ASSUME NEW c \in Blocks
        PROVE  \/ cache'[c] \in {NotCached, home'[c]}
               \/ \E i \in DOMAIN lh' : lh'[i] = c /\ Due(i)'
               \/ \E q \in Procs : buf'[q] = c
    <3>1. CASE c = b
      BY Zenon, <1>1, <3>1, MemoryTyped
    <3>2. CASE c # b
      <4>1. \A q \in Procs : buf[q] = c => buf'[q] = c
        BY Zenon, <1>1, <1>4, LogConstants DEF LogInv, TypeOK
      <4>2. cache'[c] = cache[c]
        BY Zenon, <1>1, <3>2 DEF LogInv, TypeOK
      <4> QED
        BY Zenon, <1>1, <1>3, <4>1, <4>2 DEF DataInv, CacheInv
    <3> QED
      BY Zenon, <3>1, <3>2
  <2>2. \A i \in DOMAIN lh' : Due(i)' => cache'[lh'[i]] # NotCached
    BY <1>1, <1>3, <1>4 DEF DataInv, CacheInv
  <2>3. \A q \in Procs : buf'[q] # NoBuf => cache'[buf'[q]] # NotCached
    BY Zenon, <1>1, <1>4 DEF DataInv, CacheInv, LogInv, TypeOK
  <2> QED
    BY Zenon, <2>1, <2>2, <2>3 DEF CacheInv
<1> QED
  BY Zenon, <1>5, <1>6 DEF DataInv

(* log_write() hands the held block over to the log, pinned once.          *)
LEMMA LogWriteData ==
  ASSUME LogInv, DataInv, NEW p \in Procs, log_write(p)
  PROVE  DataInv'
<1>1. CASE TooBig \/ outstanding < 1
  BY Zenon, <1>1 DEF log_write, panic, disk, DataInv, HeaderInv, PinsMatchLog, CacheInv, CopyInv,
     RecoverInv
<1>2. CASE ~(TooBig \/ outstanding < 1)
  <2>1. /\ UNCHANGED <<home, logblk, head, cache, tail, phase>>
        /\ phase = "run" /\ pc[p] = "log_write"
        /\ pc' = [pc EXCEPT ![p] = "op"]
        /\ buf' = [buf EXCEPT ![p] = NoBuf]
        /\ lh' = IF InLog(buf[p], lh) THEN lh ELSE Append(lh, buf[p])
        /\ pins' = [pins EXCEPT ![buf[p]] = IF InLog(buf[p], lh) THEN @ ELSE @ + 1]
    BY Zenon, <1>2 DEF log_write, disk
  <2>2. p \in Active /\ ~committing /\ buf[p] \in Blocks /\ buf[p] # NoBuf
    BY Zenon, <2>1 DEF LogInv, CommitInv, Active, ProcInv, TypeOK
  <2>3. /\ \A i : Due(i) /\ ~Copied(i) /\ Due(i)' /\ ~Copied(i)'
        /\ \A q \in Procs : pc[q] \notin CommitPcs /\ pc'[q] \notin CommitPcs
    BY <2>1, <2>2, NoCommitter DEF Due, Copied, CommitPcs
  <2>4. head = <<>> /\ head' = <<>>
    BY Zenon, <2>1, <2>3 DEF DataInv, HeaderInv, CommitPcs
  <2>5. CASE InLog(buf[p], lh)
    <3>1. lh' = lh /\ pins' = pins
      BY Zenon, <2>1, <2>2, <2>5, MemoryTyped
    <3>2. HeaderInv' /\ PinsMatchLog' /\ CopyInv' /\ RecoverInv'
      BY SMTT(40), <2>1, <2>3, <3>1 DEF DataInv, HeaderInv, PinsMatchLog, CopyInv, RecoverInv, CommitPcs
    <3>3. CacheInv'
      BY ZenonT(40), <2>1, <2>2, <2>3, <2>5, <3>1, HeaderBlocks
         DEF DataInv, CacheInv, LogInv, TypeOK, InLog
    <3> QED
      BY Zenon, <3>2, <3>3 DEF DataInv
  <2>6. CASE ~InLog(buf[p], lh)
    <3>1. /\ lh' = Append(lh, buf[p])
          /\ DOMAIN lh = 1..Len(lh) /\ Len(lh) \in Nat
          /\ DOMAIN lh' = 1..(Len(lh) + 1)
          /\ \A i \in 1..Len(lh) : lh'[i] = lh[i] /\ lh[i] \in Blocks
          /\ lh'[Len(lh) + 1] = buf[p]
          /\ \A i \in 1..Len(lh) : lh[i] # buf[p]
      <4>1. lh \in Seq(Blocks) /\ buf[p] \in Blocks
        BY Zenon, <2>2 DEF LogInv, TypeOK
      <4>2. /\ Append(lh, buf[p]) \in Seq(Blocks)
            /\ Len(Append(lh, buf[p])) = Len(lh) + 1
            /\ \A i \in 1..Len(lh) : Append(lh, buf[p])[i] = lh[i]
            /\ Append(lh, buf[p])[Len(lh) + 1] = buf[p]
        BY <4>1, AppendProperties
      <4>3. lh' = Append(lh, buf[p])
        BY Zenon, <2>1, <2>6
      <4>4. DOMAIN lh = 1..Len(lh) /\ Len(lh) \in Nat /\ DOMAIN lh' = 1..Len(lh')
        BY Zenon, <4>1, <4>2, <4>3, LenProperties
      <4> QED
        BY Zenon, <2>6, <4>1, <4>2, <4>3, <4>4, ElementOfSeq DEF InLog
    <3>2. HeaderInv'
      BY <2>1, <2>3, <3>1 DEF DataInv, HeaderInv, NoDuplicates, CommitPcs
    <3>3. PinsMatchLog'
      <4>1. pins[buf[p]] = 0
        BY Zenon, <2>1, <2>2, <2>3, <3>1 DEF DataInv, PinsMatchLog
      <4>2. pins' = [pins EXCEPT ![buf[p]] = 1]
        BY <2>1, <2>2, <2>6, <4>1
      <4>3. \A b \in Blocks :
              (\E i \in DOMAIN lh' : lh'[i] = b) <=> b = buf[p] \/ \E i \in DOMAIN lh : lh[i] = b
        BY <3>1
      <4>4. \A b \in Blocks : pins[b] = IF \E i \in DOMAIN lh : lh[i] = b THEN 1 ELSE 0
        BY Zenon, <2>1, <2>3 DEF DataInv, PinsMatchLog
      <4>5. \A b \in Blocks : pins'[b] = IF \E i \in DOMAIN lh' : lh'[i] = b THEN 1 ELSE 0
        BY Zenon, <4>2, <4>3, <4>4, MemoryTyped
      <4> QED
        BY Zenon, <2>3, <4>5 DEF PinsMatchLog
    <3>4. CacheInv'
      <4>1. \A b \in Blocks :
         \/ cache[b] \in {NotCached, home[b]}
         \/ \E i \in DOMAIN lh' : lh'[i] = b
         \/ \E q \in Procs : buf'[q] = b
        <5>1. /\ \E i \in DOMAIN lh' : lh'[i] = buf[p]
              /\ \A b \in Blocks : (\E i \in DOMAIN lh : lh[i] = b)
                                  => \E i \in DOMAIN lh' : lh'[i] = b
          BY <3>1
        <5>2. \A q \in Procs : q = p \/ buf'[q] = buf[q]
          BY Zenon, <2>1 DEF LogInv, TypeOK
        <5> QED
          BY <2>1, <5>1, <5>2 DEF DataInv, CacheInv
      <4>2. \A i \in DOMAIN lh' : cache[lh'[i]] # NotCached
        BY <2>1, <2>2, <2>3 DEF DataInv, CacheInv
      <4>3. \A q \in Procs : buf'[q] # NoBuf => cache[buf'[q]] # NotCached
        BY Zenon, <2>1 DEF DataInv, CacheInv, LogInv, TypeOK
      <4> QED
        BY Zenon, <2>1, <2>3, <4>1, <4>2, <4>3 DEF CacheInv
    <3>5. CopyInv' /\ RecoverInv'
      BY Zenon, <2>1, <2>3 DEF CopyInv, RecoverInv
    <3> QED
      BY Zenon, <3>2, <3>3, <3>4, <3>5 DEF DataInv
  <2> QED
    BY Zenon, <2>5, <2>6
<1> QED
  BY Zenon, <1>1, <1>2

(* end_op(): nothing is copied yet when commit() starts.                   *)
LEMMA EndData ==
  ASSUME LogInv, DataInv, NEW p \in Procs, end_op(p)
  PROVE  DataInv'
<1>1. phase = "run" /\ pc[p] = "op" /\ p \in Active /\ ~committing
  BY Zenon DEF end_op, LogInv, CommitInv, Active
<1>2. UNCHANGED <<home, logblk, head, cache, pins, lh, buf, phase>>
  BY Zenon, <1>1 DEF end_op, disk
<1>3. \A q \in Procs : /\ pc'[q] \notin {"write_head", "install", "clear"}
                       /\ pc'[q] = "write_log" => tail' = 1
  <2>1. CASE outstanding = 1
    BY Zenon, <1>1, <2>1, NoCommitter, PlaceTyped DEF end_op, CommitPcs
  <2>2. CASE outstanding # 1
    BY ZenonT(40), <1>1, <2>2, NoCommitter DEF end_op, LogInv, TypeOK, CommitPcs, wakeup
  <2> QED
    BY Zenon, <2>1, <2>2
<1>4. \A i \in DOMAIN lh : Due(i) /\ ~Copied(i) /\ Due(i)' /\ ~Copied(i)'
  BY <1>1, <1>3, NoCommitter, HeaderBlocks DEF Due, Copied, LogInv
<1>5. head = <<>>
  BY Zenon, <1>1, NoCommitter DEF DataInv, HeaderInv, CommitPcs
<1> QED
  BY <1>2, <1>3, <1>4, <1>5 DEF DataInv, HeaderInv, PinsMatchLog, CacheInv, CopyInv,
     RecoverInv

(* The place of a loop of commit() is a block of the log.                  *)
LEMMA LoopPlace ==
  ASSUME LogInv,
         \/ \E p \in Procs : pc[p] \in {"write_log", "install"}
         \/ phase = "recover"
  PROVE  tail \in DOMAIN lh /\ tail \in LogSlots /\ lh[tail] \in Blocks
<1>1. DOMAIN lh = 1..Len(lh) /\ Len(lh) \in Nat /\ \A i \in DOMAIN lh : lh[i] \in Blocks
  BY Zenon, HeaderBlocks DEF LogInv
<1>2. tail <= Len(lh) /\ tail \in Nat \ {0} /\ Len(lh) < NLOG
  BY Zenon DEF LogInv, ProcInv, RoomInv, TypeOK
<1> QED
  BY <1>1, <1>2, LogConstants DEF LogSlots

(* write_log(): one more block of the log equals its cached copy.          *)
LEMMA WriteLogData ==
  ASSUME LogInv, DataInv, NEW p \in Procs, write_log(p)
  PROVE  DataInv' /\ cache' = cache /\ head = <<>>
<1>1. phase = "run" /\ pc[p] = "write_log" /\ pc[p] \in CommitPcs
  BY Zenon DEF write_log, CommitPcs
<1>2. tail \in DOMAIN lh /\ tail \in LogSlots /\ lh[tail] \in Blocks
  BY Zenon, <1>1, LoopPlace
<1>3. /\ \A i : Due(i)
      /\ \A i : Copied(i) <=> i < tail
      /\ \A q \in Procs \ {p} : pc[q] \notin CommitPcs
  BY Zenon, <1>1, Committer
<1>4. cache' = cache /\ View(lh[tail]) = cache[lh[tail]]
  BY Zenon, <1>2, <1>3, MemoryTyped DEF DataInv, CacheInv, write_log, View
<1>5. /\ UNCHANGED <<home, head, pins, lh, buf, phase>>
      /\ logblk' = [logblk EXCEPT ![tail] = cache[lh[tail]]]
      /\ pc' = [pc EXCEPT ![p] = IF tail = Len(lh) THEN "write_head" ELSE "write_log"]
      /\ tail' = IF tail = Len(lh) THEN 1 ELSE tail + 1
  BY Zenon, <1>4 DEF write_log, NextTail
<1>6. \A q \in Procs : /\ pc[q] \notin {"install", "clear"}
                       /\ pc'[q] \notin {"install", "clear"}
  BY <1>1, <1>3, <1>5 DEF CommitPcs
<1>7. \A i : Due(i)'
  BY Zenon, <1>6 DEF Due
<1>8. \A i \in DOMAIN lh : Copied(i)' => i <= tail
  BY <1>1, <1>3, <1>5, HeaderBlocks, PlaceTyped DEF Copied, CommitPcs
<1>9. CopyInv'
  <2> SUFFICES ASSUME NEW i \in DOMAIN lh, i <= tail
               PROVE  cache[lh[i]] = logblk'[i]
    BY Zenon, <1>4, <1>5, <1>7, <1>8 DEF CopyInv
  <2>1. CASE i = tail
    BY Zenon, <1>2, <1>5, <2>1, MemoryTyped
  <2>2. CASE i # tail
    <3>1. i < tail
      BY <2>2, HeaderBlocks DEF LogInv, TypeOK
    <3>2. logblk'[i] = logblk[i]
      <4>1. Len(lh) < NLOG /\ i \in 1..Len(lh) /\ Len(lh) \in Nat
        BY Zenon, HeaderBlocks DEF LogInv, RoomInv
      <4>2. i \in LogSlots
        BY SMTT(40), <4>1, LogConstants DEF LogSlots
      <4> QED
        BY <1>5, <2>2
    <3> QED
      BY Zenon, <1>1, <1>3, <3>1, <3>2 DEF DataInv, CopyInv
  <2> QED
    BY Zenon, <2>1, <2>2
<1>10. HeaderInv' /\ PinsMatchLog' /\ CacheInv' /\ RecoverInv' /\ head = <<>>
  BY Zenon, <1>1, <1>3, <1>4, <1>5, <1>6, <1>7 DEF DataInv, HeaderInv, PinsMatchLog, CacheInv,
     RecoverInv
<1> QED
  BY Zenon, <1>4, <1>9, <1>10 DEF DataInv

(* write_head(): all blocks are copied and due when the header goes out.   *)
LEMMA WriteHeadData ==
  ASSUME LogInv, DataInv, NEW p \in Procs, write_head(p)
  PROVE  DataInv' /\ \A i \in DOMAIN lh : cache[lh[i]] = logblk[i]
<1>1. phase = "run" /\ pc[p] = "write_head" /\ pc[p] \in CommitPcs /\ tail = 1
  BY Zenon DEF write_head, CommitPcs, LogInv, ProcInv
<1>2. /\ \A i : Due(i) /\ Copied(i)
      /\ \A q \in Procs \ {p} : pc[q] \notin CommitPcs
  BY Zenon, <1>1, Committer
<1>3. /\ UNCHANGED <<home, logblk, cache, pins, lh, buf, tail, phase>>
      /\ head' = lh /\ pc' = [pc EXCEPT ![p] = "install"]
  BY Zenon DEF write_head
<1>4. \A i \in DOMAIN lh : Due(i)'
  BY <1>1, <1>2, <1>3, HeaderBlocks DEF Due, CommitPcs
<1>5. pc'[p] = "install"
  BY Zenon, <1>3 DEF LogInv, TypeOK
<1>6. \A i \in DOMAIN lh : cache[lh[i]] = logblk[i]
  BY Zenon, <1>1, <1>2 DEF DataInv, CopyInv
<1>7. HeaderInv' /\ PinsMatchLog' /\ CacheInv' /\ CopyInv' /\ RecoverInv'
  <2>1. HeaderInv'
    BY Zenon, <1>1, <1>3, <1>5 DEF DataInv, HeaderInv, NoDuplicates
  <2>2. PinsMatchLog'
    BY Zenon, <1>2, <1>3, <1>4 DEF DataInv, PinsMatchLog
  <2>3. CacheInv'
    BY Zenon, <1>2, <1>3, <1>4 DEF DataInv, CacheInv
  <2>4. CopyInv' /\ RecoverInv'
    BY Zenon, <1>1, <1>3, <1>4, <1>6 DEF CopyInv, RecoverInv
  <2> QED
    BY Zenon, <2>1, <2>2, <2>3, <2>4
<1> QED
  BY Zenon, <1>6, <1>7 DEF DataInv

(* install_trans() in commit(): one more block is home and unpinned.       *)
LEMMA InstallData ==
  ASSUME LogInv, DataInv, NEW p \in Procs, install_trans(p)
  PROVE  DataInv' /\ head = lh /\ cache[lh[tail]] = logblk[tail] /\ logblk[tail] # NotCached
<1>1. phase = "run" /\ pc[p] = "install" /\ pc[p] \in CommitPcs
  BY Zenon DEF install_trans, CommitPcs
<1>2. tail \in DOMAIN lh /\ tail \in LogSlots /\ lh[tail] \in Blocks
  BY Zenon, <1>1, LoopPlace
<1>3. /\ \A i : Due(i) <=> i >= tail
      /\ \A i : Copied(i)
      /\ \A q \in Procs \ {p} : pc[q] \notin CommitPcs
      /\ \A q \in Procs : buf[q] = NoBuf
  BY Zenon, <1>1, Committer
<1>4. head = lh
  BY Zenon, <1>1 DEF DataInv, HeaderInv
<1>5. tail >= tail
  BY DEF LogInv, TypeOK
<1>6. logblk[tail] \in Vals /\ logblk[tail] # NotCached
  BY <1>2, LogConstants DEF LogInv, TypeOK
<1>7. cache[lh[tail]] = logblk[tail]
  BY Zenon, <1>1, <1>2, <1>3, <1>5 DEF DataInv, CopyInv
<1>8. pins[lh[tail]] = 1
  BY Zenon, <1>1, <1>2, <1>3, <1>5 DEF DataInv, PinsMatchLog
<1>9. /\ UNCHANGED <<logblk, head, lh, buf, phase>>
      /\ home' = [home EXCEPT ![lh[tail]] = logblk[tail]]
      /\ cache' = [cache EXCEPT ![lh[tail]] = logblk[tail]]
      /\ pins' = [pins EXCEPT ![lh[tail]] = 0]
      /\ pc' = [pc EXCEPT ![p] = IF tail = Len(lh) THEN "clear" ELSE "install"]
      /\ tail' = IF tail = Len(lh) THEN 1 ELSE tail + 1
  BY <1>8 DEF install_trans, NextTail, CopyToHome
<1>10. \A i \in DOMAIN lh : Due(i)' <=> i > tail
  <2>1. \A i \in DOMAIN lh : i \in Nat /\ i <= Len(lh)
    BY HeaderBlocks DEF LogInv
  <2>2. tail \in Nat
    BY Zenon DEF LogInv, TypeOK
  <2>3. CASE tail = Len(lh)
    <3>1. pc'[p] = "clear"
      BY Zenon, <1>9, <2>3, MemoryTyped, PlaceTyped
    <3> QED
      BY <2>1, <2>2, <2>3, <3>1 DEF Due
  <2>4. CASE tail # Len(lh)
    <3>1. tail' = tail + 1 /\ pc' = pc
      BY Zenon, <1>1, <1>9, <2>4, MemoryTyped, PlaceTyped
    <3> QED
      BY <1>1, <1>3, <2>1, <2>2, <3>1 DEF Due, CommitPcs
  <2> QED
    BY Zenon, <2>3, <2>4
<1>11. \A i \in DOMAIN lh : /\ lh[i] \in Blocks /\ lh[i] = lh[tail] => i = tail
                            /\ i > tail <=> i >= tail /\ i # tail
  BY <1>2, HeaderBlocks DEF DataInv, HeaderInv, NoDuplicates
<1>12. \E q \in Procs : pc'[q] \in {"install", "clear"}
  BY Zenon, <1>9 DEF LogInv, TypeOK
<1>13. HeaderInv' /\ RecoverInv'
  BY <1>1, <1>9 DEF DataInv, HeaderInv, RecoverInv
<1>14. PinsMatchLog'
  <2> SUFFICES ASSUME NEW b \in Blocks
               PROVE  pins'[b] = IF \E i \in DOMAIN lh : lh[i] = b /\ i > tail THEN 1 ELSE 0
    BY Zenon, <1>9, <1>10 DEF PinsMatchLog
  <2>1. CASE b = lh[tail]
    BY Zenon, <1>9, <1>11, <2>1, MemoryTyped
  <2>2. CASE b # lh[tail]
    <3>1. pins'[b] = pins[b]
      BY <1>9, <2>2
    <3>2. pins[b] = IF \E i \in DOMAIN lh : lh[i] = b /\ i >= tail THEN 1 ELSE 0
      BY Zenon, <1>1, <1>3 DEF DataInv, PinsMatchLog
    <3>3. (\E i \in DOMAIN lh : lh[i] = b /\ i >= tail)
            <=> \E i \in DOMAIN lh : lh[i] = b /\ i > tail
      BY Zenon, <1>11, <2>2
    <3> QED
      BY Zenon, <3>1, <3>2, <3>3
  <2> QED
    BY Zenon, <2>1, <2>2
<1>15. CacheInv'
  <2>1. ASSUME NEW b \in Blocks
        PROVE  \/ cache'[b] \in {NotCached, home'[b]}
               \/ \E i \in DOMAIN lh : lh[i] = b /\ i > tail
    <3>1. CASE b = lh[tail]
      BY Zenon, <1>9, <3>1, MemoryTyped
    <3>2. CASE b # lh[tail]
      <4>1. cache'[b] = cache[b] /\ home'[b] = home[b]
        BY <1>9, <3>2
      <4>2. \/ cache[b] \in {NotCached, home[b]}
            \/ \E i \in DOMAIN lh : lh[i] = b /\ i >= tail
        BY Zenon, <1>1, <1>3, Markers DEF DataInv, CacheInv
      <4> QED
        BY Zenon, <1>11, <3>2, <4>1, <4>2
    <3> QED
      BY Zenon, <3>1, <3>2
  <2>2. \A i \in DOMAIN lh : i > tail => cache'[lh[i]] # NotCached
    BY <1>1, <1>3, <1>9, <1>11, MemoryTyped DEF DataInv, CacheInv
  <2> QED
    BY Zenon, <1>3, <1>9, <1>10, <2>1, <2>2 DEF CacheInv
<1>16. CopyInv'
  <2> SUFFICES ASSUME NEW i \in DOMAIN lh
               PROVE  IF i > tail THEN cache'[lh[i]] = logblk[i] ELSE home'[lh[i]] = logblk[i]
    BY Zenon, <1>9, <1>10 DEF CopyInv
  <2>1. CASE i = tail
    BY Zenon, <1>2, <1>9, <2>1, MemoryTyped
  <2>2. CASE i # tail
    <3>1. /\ cache'[lh[i]] = cache[lh[i]] /\ home'[lh[i]] = home[lh[i]]
          /\ i > tail <=> i >= tail
      BY <1>9, <1>11, <2>2, MemoryTyped
    <3> QED
      BY Zenon, <1>1, <1>3, <3>1 DEF DataInv, CopyInv
  <2> QED
    BY Zenon, <2>1, <2>2
<1> QED
  BY Zenon, <1>4, <1>6, <1>7, <1>13, <1>14, <1>15, <1>16 DEF DataInv

(* The header is erased when every block of it is home.                    *)
LEMMA ClearData ==
  ASSUME LogInv, DataInv, NEW p \in Procs, clear_head(p)
  PROVE  DataInv' /\ head = lh /\ \A i \in DOMAIN lh : home[lh[i]] = logblk[i]
<1>1. phase = "run" /\ pc[p] = "clear" /\ pc[p] \in CommitPcs
  BY Zenon DEF clear_head, CommitPcs
<1>2. /\ \A i : ~Due(i)
      /\ \A q \in Procs \ {p} : pc[q] \notin CommitPcs
      /\ \A q \in Procs : buf[q] = NoBuf
  BY Zenon, <1>1, Committer
<1>3. /\ UNCHANGED <<home, logblk, cache, pins, buf, phase>>
      /\ lh' = <<>> /\ head' = <<>> /\ pc' = [pc EXCEPT ![p] = "done"]
  BY Zenon DEF clear_head
<1>4. DOMAIN <<>> = {}
  BY EmptySeq
<1>5. \A b \in Blocks : pins[b] = 0 /\ cache[b] \in {NotCached, home[b]}
  BY ZenonT(40), <1>1, <1>2, Markers DEF DataInv, PinsMatchLog, CacheInv
<1>6. head = lh /\ \A i \in DOMAIN lh : home[lh[i]] = logblk[i]
  BY Zenon, <1>1, <1>2 DEF DataInv, HeaderInv, CopyInv
<1> QED
  BY <1>2, <1>3, <1>6 DEF DataInv, HeaderInv, NoDuplicates, PinsMatchLog, CacheInv,
     CopyInv, RecoverInv

(* The end of a commit leaves an empty log behind.                         *)
LEMMA EndCommitData ==
  ASSUME LogInv, DataInv, NEW p \in Procs, end_commit(p)
  PROVE  DataInv'
<1>1. phase = "run" /\ pc[p] = "done" /\ pc[p] \in CommitPcs /\ lh = <<>>
  BY Zenon DEF end_commit, CommitPcs, LogInv, ProcInv
<1>2. /\ UNCHANGED <<home, logblk, head, cache, pins, lh, buf, tail, phase>>
      /\ pc' = wakeup([pc EXCEPT ![p] = "idle"])
  BY Zenon DEF end_commit, disk
<1>3. \A q \in Procs : pc'[q] \notin {"install", "clear"} /\ pc[q] \notin {"install", "clear"}
  BY <1>1, <1>2, Committer DEF wakeup, CommitPcs
<1>4. DOMAIN lh = {}
  BY <1>1, EmptySeq
<1> QED
  BY <1>2, <1>4 DEF DataInv, HeaderInv, PinsMatchLog, CacheInv, CopyInv, RecoverInv

(* A buffer that bget() may reuse holds what the disk holds.               *)
LEMMA RecycleData ==
  ASSUME LogInv, DataInv, NEW b \in Blocks, bget_recycle(b)
  PROVE  DataInv' /\ cache[b] = home[b]
<1>1. /\ UNCHANGED <<home, logblk, head, pins, lh, buf, tail, pc, phase>>
      /\ phase # "panic" /\ cache[b] # NotCached /\ pins[b] = 0
      /\ \A p \in Procs : buf[p] # b
      /\ cache' = [cache EXCEPT ![b] = NotCached]
  BY Zenon DEF bget_recycle, disk
<1>2. /\ \A i : Due(i)' <=> Due(i)
      /\ \A i : Copied(i)' <=> Copied(i)
  BY Zenon, <1>1 DEF Due, Copied
<1>3. phase = "run" => \A i \in DOMAIN lh : Due(i) => lh[i] # b
  BY SMTT(40), <1>1 DEF DataInv, PinsMatchLog
<1>4. cache[b] = home[b]
  BY Zenon, <1>1, <1>3 DEF DataInv, CacheInv, RecoverInv, LogInv, TypeOK
<1>5. \A c \in Blocks : cache'[c] = IF c = b THEN NotCached ELSE cache[c]
  BY Zenon, <1>1 DEF LogInv, TypeOK
<1>6. HeaderInv' /\ PinsMatchLog'
  BY Zenon, <1>1, <1>2 DEF DataInv, HeaderInv, PinsMatchLog
<1>7. CacheInv'
  <2> SUFFICES ASSUME phase = "run" PROVE CacheInv'
    BY Zenon, <1>1 DEF CacheInv
  <2>1. ASSUME NEW c \in Blocks
        PROVE  \/ cache'[c] \in {NotCached, home[c]}
               \/ \E i \in DOMAIN lh : lh[i] = c /\ Due(i)
               \/ \E p \in Procs : buf[p] = c
    BY Zenon, <1>5 DEF DataInv, CacheInv
  <2>2. \A i \in DOMAIN lh : Due(i) => cache'[lh[i]] # NotCached
    BY Zenon, <1>3, <1>5, HeaderBlocks DEF DataInv, CacheInv, LogInv
  <2>3. \A p \in Procs : buf[p] # NoBuf => cache'[buf[p]] # NotCached
    BY <1>1 DEF DataInv, CacheInv
  <2> QED
    BY Zenon, <1>1, <1>2, <2>1, <2>2, <2>3 DEF CacheInv
<1>8. CopyInv'
  BY <1>1, <1>2, <1>3, HeaderBlocks DEF DataInv, CopyInv
<1>9. RecoverInv'
  BY ZenonT(40), <1>1, <1>2, <1>5 DEF DataInv, RecoverInv
<1> QED
  BY Zenon, <1>4, <1>6, <1>7, <1>8, <1>9 DEF DataInv

(* After a crash the cache is empty and nothing is pinned.                 *)
LEMMA CrashData ==
  ASSUME LogInv, DataInv, crash
  PROVE  DataInv'
<1>1. DOMAIN <<>> = {}
  BY EmptySeq
<1> QED
  BY ZenonT(40), <1>1 DEF crash, disk, DataInv, HeaderInv, NoDuplicates, PinsMatchLog, CacheInv, CopyInv,
     RecoverInv

(* read_head(): nothing is installed yet.                                  *)
LEMMA ReadHeadData ==
  ASSUME LogInv, DataInv, read_head
  PROVE  DataInv'
<1>1. /\ UNCHANGED <<home, logblk, head, cache, pins, tail>>
      /\ phase = "boot" /\ lh' = head /\ tail = 1
      /\ phase' = IF head = <<>> THEN "recover_clear" ELSE "recover"
  BY Zenon DEF read_head, disk, LogInv, RoomInv
<1>2. DOMAIN <<>> = {}
  BY EmptySeq
<1>3. \A i \in DOMAIN head : i \in Nat \ {0}
  BY LenProperties DEF LogInv, TypeOK
<1> QED
  BY <1>1, <1>3 DEF DataInv, HeaderInv, PinsMatchLog, CacheInv, CopyInv, RecoverInv

(* install_trans() in recovery: one more block of the header is home.      *)
LEMMA RecoverInstallData ==
  ASSUME LogInv, DataInv, recover_install
  PROVE  DataInv' /\ head = lh
<1>1. phase = "recover" /\ head = lh
  BY Zenon DEF recover_install, DataInv, HeaderInv
<1>2. tail \in DOMAIN lh /\ tail \in LogSlots /\ lh[tail] \in Blocks
  BY Zenon, <1>1, LoopPlace
<1>3. /\ UNCHANGED <<logblk, head, pins, lh>>
      /\ home' = [home EXCEPT ![lh[tail]] = logblk[tail]]
      /\ cache' = [cache EXCEPT ![lh[tail]] = logblk[tail]]
      /\ tail' = IF tail = Len(lh) THEN 1 ELSE tail + 1
      /\ phase' = IF tail = Len(lh) THEN "recover_clear" ELSE "recover"
  BY Zenon DEF recover_install, CopyToHome
<1>4. \A b \in Blocks : cache'[b] \in {NotCached, home'[b]}
  BY Zenon, <1>1, <1>3, MemoryTyped DEF DataInv, RecoverInv
<1>5. \A i \in DOMAIN lh : /\ phase' = "recover" /\ i < tail' => i <= tail
                           /\ phase' = "recover_clear" => i <= tail
  BY <1>3 DEF LogInv, TypeOK
<1>6. ASSUME NEW i \in DOMAIN lh, i <= tail
      PROVE  home'[lh[i]] = logblk[i]
  <2>1. CASE i = tail
    BY Zenon, <1>2, <1>3, <2>1, MemoryTyped
  <2>2. CASE i # tail
    <3>1. i < tail /\ lh[i] # lh[tail] /\ lh[i] \in Blocks
      BY <1>2, <1>6, <2>2, HeaderBlocks DEF DataInv, HeaderInv, NoDuplicates, LogInv
    <3>2. home'[lh[i]] = home[lh[i]]
      BY <1>3, <3>1
    <3> QED
      BY Zenon, <1>1, <3>1, <3>2 DEF DataInv, RecoverInv
  <2> QED
    BY Zenon, <2>1, <2>2
<1>7. RecoverInv'
  BY ZenonT(40), <1>1, <1>3, <1>4, <1>5, <1>6 DEF DataInv, RecoverInv
<1>8. HeaderInv' /\ PinsMatchLog' /\ CacheInv' /\ CopyInv'
  BY Zenon, <1>1, <1>3 DEF DataInv, HeaderInv, PinsMatchLog, CacheInv, CopyInv
<1> QED
  BY Zenon, <1>1, <1>7, <1>8 DEF DataInv

(* The end of recovery: no process has run yet and every block is home.    *)
LEMMA RecoverClearData ==
  ASSUME LogInv, DataInv, recover_clear
  PROVE  /\ DataInv' /\ head = lh
         /\ \A i \in DOMAIN lh : home[lh[i]] = logblk[i]
         /\ \A b \in Blocks : cache[b] \in {NotCached, home[b]}
<1>1. /\ UNCHANGED <<home, logblk, cache, pins, pc, buf>>
      /\ phase = "recover_clear" /\ lh' = <<>> /\ head' = <<>> /\ phase' = "run"
  BY Zenon DEF recover_clear
<1>2. \A p \in Procs : pc[p] = "idle" /\ buf[p] = NoBuf
  BY Zenon, <1>1 DEF LogInv, CommitInv, ProcInv
<1>3. DOMAIN <<>> = {}
  BY EmptySeq
<1>4. /\ head = lh
      /\ \A i \in DOMAIN lh : home[lh[i]] = logblk[i]
      /\ \A b \in Blocks : pins[b] = 0 /\ cache[b] \in {NotCached, home[b]}
  BY Zenon, <1>1 DEF DataInv, HeaderInv, RecoverInv
<1> QED
  BY <1>1, <1>2 DEF DataInv, HeaderInv, NoDuplicates, PinsMatchLog, CacheInv, CopyInv,
     RecoverInv

(* DataInv is inductive relative to LogInv.                                *)
LEMMA NextData == LogInv /\ DataInv /\ [Next]_vars => DataInv'
<1> SUFFICES ASSUME LogInv, DataInv, [Next]_vars PROVE DataInv'
  BY Zenon
<1>1. ASSUME NEW p \in Procs, begin_op(p) \/ begin_op_sleep(p) \/ log_write(p) \/ end_op(p)
      PROVE DataInv'
  BY Zenon, <1>1, BeginData, LogWriteData, EndData
<1>2. ASSUME NEW p \in Procs, CommitStep(p) PROVE DataInv'
  BY Zenon, <1>2, WriteLogData, WriteHeadData, InstallData, ClearData, EndCommitData DEF
     CommitStep
<1>3. ASSUME NEW p \in Procs, NEW b \in Blocks, NEW v \in Vals, modify(p, b, v)
      PROVE DataInv'
  BY Zenon, <1>3, ModifyData
<1>4. ASSUME NEW b \in Blocks, bget_recycle(b) PROVE DataInv'
  BY Zenon, <1>4, RecycleData
<1>5. CASE crash \/ read_head \/ recover_install \/ recover_clear
  BY Zenon, <1>5, CrashData, ReadHeadData, RecoverInstallData, RecoverClearData
<1>6. CASE UNCHANGED vars
  BY <1>6 DEF vars, DataInv, HeaderInv, PinsMatchLog, CacheInv, CopyInv, RecoverInv, Due,
     Copied
<1> QED
  BY Zenon, <1>1, <1>2, <1>3, <1>4, <1>5, <1>6 DEF Next

(* In a header without duplicates a block has one place.                   *)
LEMMA PlaceInHeader ==
  ASSUME NEW s, NoDuplicates(s), NEW i \in DOMAIN s
  PROVE  (CHOOSE j \in DOMAIN s : s[j] = s[i]) = i
  BY Zenon DEF NoDuplicates

(* What recovery makes of the disk: the log's copy of the blocks of the    *)
(* header, the home location of the others.                                *)
LEMMA StableDisk ==
  ASSUME TypeOK, NoDuplicates(head)
  PROVE  /\ \A i \in DOMAIN head : Stable[head[i]] = logblk[i]
         /\ \A b \in Blocks : ~InLog(b, head) => Stable[b] = home[b]
<1>1. \A i \in DOMAIN head : /\ head[i] \in Blocks
                             /\ InLog(head[i], head)
                             /\ (CHOOSE j \in DOMAIN head : head[j] = head[i]) = i
  BY Zenon, PlaceInHeader, HeaderBlocks DEF InLog
<1>2. \A i \in DOMAIN head : Stable[head[i]] = logblk[i]
  BY Zenon, <1>1 DEF Stable, Recovered
<1>3. \A b \in Blocks : ~InLog(b, head) => Stable[b] = home[b]
  BY Zenon DEF Stable, Recovered
<1> QED
  BY Zenon, <1>2, <1>3

(* The disk that recovery would rebuild stays the same when no disk block  *)
(* changes, and when the header stays empty and the home blocks do.        *)
LEMMA StableKept ==
  ASSUME UNCHANGED <<home, head>>, UNCHANGED logblk \/ head = <<>>
  PROVE  Stable' = Stable
<1>1. \A b : InLog(b, <<>>) <=> FALSE
  BY EmptySeq DEF InLog
<1>2. \A b \in Blocks : Recovered(b)' = Recovered(b)
  BY <1>1 DEF Recovered
<1> QED
  BY Zenon, <1>2 DEF Stable

(* begin_op() that admits an operation begins one.                         *)
LEMMA BeginRefines ==
  ASSUME LogInv, NEW p \in Procs, begin_op(p)
  PROVE  Atomic!Begin(p)
<1>1. UNCHANGED <<home, logblk, head, cache, phase>>
  BY Zenon DEF begin_op, disk
<1>2. Stable' = Stable
  BY Zenon, <1>1, StableKept
<1>3. Pending' = Pending
  BY Zenon, <1>1, <1>2 DEF Pending, View
<1>4. Active' = Active \cup {p} /\ p \notin Active
  BY Zenon DEF Active, LogInv, TypeOK, CommitPcs, begin_op
<1> QED
  BY Zenon, <1>2, <1>3, <1>4 DEF Atomic!Begin

(* A change of a buffer is a write of the running operation.               *)
LEMMA ModifyRefines ==
  ASSUME LogInv, NEW p \in Procs, NEW b \in Blocks, NEW v \in Vals, modify(p, b, v)
  PROVE  Atomic!Write(p, b, v)
<1>1. /\ UNCHANGED <<home, logblk, head, phase>>
      /\ phase = "run" /\ pc[p] = "op"
      /\ cache' = [cache EXCEPT ![b] = v]
      /\ v # NotCached
  BY Zenon, LogConstants DEF modify, disk
<1>2. Stable' = Stable
  BY Zenon, <1>1, StableKept
<1>3. Active' = Active /\ p \in Active
  BY Zenon, <1>1 DEF Active, modify, LogInv, TypeOK
<1>4. Pending' = [Pending EXCEPT ![b] = v]
  <2>1. \A c \in Blocks : View(c)' = IF c = b THEN v ELSE View(c)
    BY Zenon, <1>1 DEF View, LogInv, TypeOK
  <2>2. Pending = [c \in Blocks |-> View(c)] /\ Pending' = [c \in Blocks |-> View(c)']
    BY Zenon, <1>1 DEF Pending
  <2> QED
    BY Zenon, <2>1, <2>2
<1> QED
  BY Zenon, <1>2, <1>3, <1>4 DEF Atomic!Write

(* end_op() ends an operation; a panic leaves the disk to the next boot.   *)
LEMMA EndRefines ==
  ASSUME LogInv, NEW p \in Procs, end_op(p)
  PROVE  Atomic!End(p)
<1>1. phase = "run" /\ pc[p] = "op" /\ p \in Active /\ ~committing
  BY Zenon DEF end_op, LogInv, CommitInv, Active
<1>2. UNCHANGED <<home, logblk, head, cache, phase>>
  BY Zenon, <1>1 DEF end_op, disk
<1>3. Stable' = Stable
  BY Zenon, <1>2, StableKept
<1>4. Pending' = Pending
  BY Zenon, <1>2, <1>3 DEF Pending, View
<1>5. Active' = Active \ {p}
  BY Zenon, <1>1 DEF Active, end_op, wakeup, LogInv, TypeOK, CommitPcs
<1> QED
  BY Zenon, <1>1, <1>3, <1>4, <1>5 DEF Atomic!End

(* The header's write is the moment a group of operations becomes stable.  *)
LEMMA WriteHeadRefines ==
  ASSUME LogInv, DataInv, NEW p \in Procs, write_head(p)
  PROVE  Atomic!Commit
<1>1. /\ UNCHANGED <<home, logblk, cache, lh, phase>>
      /\ phase = "run" /\ head' = lh /\ pc' = [pc EXCEPT ![p] = "install"]
      /\ pc[p] = "write_head" /\ pc[p] \in CommitPcs
  BY Zenon DEF write_head, CommitPcs
<1>2. /\ \A i \in DOMAIN lh : cache[lh[i]] = logblk[i] /\ lh[i] \in Blocks
      /\ \A i \in DOMAIN lh : cache[lh[i]] # NotCached
      /\ \A b \in Blocks : InLog(b, lh) \/ cache[b] \in {NotCached, home[b]}
      /\ NoDuplicates(lh)
  <2>1. \A i : Due(i)
    BY Zenon, <1>1, Committer
  <2>2. \A q \in Procs : buf[q] = NoBuf
    BY Zenon, <1>1, Committer
  <2>3. \A i \in DOMAIN lh : cache[lh[i]] = logblk[i] /\ lh[i] \in Blocks
    <3>1. TypeOK
      BY Zenon DEF LogInv
    <3> QED
      BY Zenon, <3>1, WriteHeadData, HeaderBlocks
  <2>4. NoDuplicates(lh) /\ CacheInv /\ phase = "run"
    BY Zenon, <1>1 DEF DataInv, HeaderInv
  <2>5. \A i \in DOMAIN lh : cache[lh[i]] # NotCached
    BY ONLY Zenon, <2>1, <2>4 DEF CacheInv
  <2>6. \A b \in Blocks : b # NoBuf
    BY Zenon, LogConstants
  <2>7. ASSUME NEW b \in Blocks PROVE InLog(b, lh) \/ cache[b] \in {NotCached, home[b]}
    BY ONLY Zenon, b \in Blocks, <2>2, <2>4, <2>6 DEF CacheInv, InLog
  <2> QED
    BY Zenon, <2>3, <2>4, <2>5, <2>7
<1>3. Active = {} /\ Active' = {}
  BY <1>1, Committer DEF Active
<1>4. ASSUME NEW b \in Blocks PROVE Recovered(b)' = View(b)
  <2>1. CASE InLog(b, lh)
    <3>1. PICK i \in DOMAIN lh : lh[i] = b
      BY Zenon, <2>1 DEF InLog
    <3>2. (CHOOSE j \in DOMAIN lh : lh[j] = b) = i
      BY SMTT(40), <1>2, <3>1, PlaceInHeader
    <3>3. Recovered(b)' = logblk[i]
      BY ZenonT(40), <1>1, <2>1, <3>2 DEF Recovered
    <3> QED
      BY Zenon, <1>2, <3>1, <3>3 DEF View
  <2>2. CASE ~InLog(b, lh)
    BY Zenon, <1>1, <1>2, <2>2 DEF Recovered, View
  <2> QED
    BY Zenon, <2>1, <2>2
<1>5. Pending = [b \in Blocks |-> View(b)] /\ Pending' = Pending
  BY Zenon, <1>1 DEF Pending, View
<1>6. Stable' = Pending
  BY Zenon, <1>4, <1>5 DEF Stable
<1> QED
  BY Zenon, <1>3, <1>5, <1>6 DEF Atomic!Commit

(* A step of Log that neither begins, ends nor commits anything leaves the *)
(* abstract disk as it is.                                                 *)
LEMMA StutterRefines ==
  ASSUME LogInv, UNCHANGED <<home, logblk, head, cache>>, Active' = Active,
         phase = phase' \/ (phase = "run" /\ phase' = "panic")
           \/ (phase \notin {"run", "panic"} /\ phase' \notin {"run", "panic"})
  PROVE  UNCHANGED Atomic!vars
<1>1. Stable' = Stable
  BY Zenon, StableKept
<1>2. Pending' = Pending
  BY Zenon, <1>1 DEF Pending, View
<1> QED
  BY Zenon, <1>1, <1>2 DEF Atomic!vars

(* write_log() writes to a part of the disk that no header names.          *)
LEMMA WriteLogRefines ==
  ASSUME LogInv, DataInv, NEW p \in Procs, write_log(p)
  PROVE  UNCHANGED Atomic!vars
<1>1. UNCHANGED <<home, head, cache, phase>> /\ phase = "run" /\ head = <<>>
  BY Zenon, WriteLogData DEF write_log
<1>2. Stable' = Stable
  BY Zenon, <1>1, StableKept
<1>3. Pending' = Pending
  BY Zenon, <1>1 DEF Pending, View
<1>4. Active' = Active
  BY Zenon DEF write_log, NextTail, Active, LogInv, TypeOK
<1> QED
  BY Zenon, <1>2, <1>3, <1>4 DEF Atomic!vars

(* Copying a block of the header home changes nothing that recovery would  *)
(* not change in the same way.                                             *)
LEMMA CopyHome ==
  ASSUME TypeOK, head = lh, NoDuplicates(head), tail \in DOMAIN lh, CopyToHome(lh[tail]),
         UNCHANGED <<head, logblk>>
  PROVE  Stable' = Stable
<1>1. lh[tail] \in Blocks /\ InLog(lh[tail], head)
  BY Zenon, HeaderBlocks DEF InLog
<1>2. \A b \in Blocks : InLog(b, head) \/ home'[b] = home[b]
  BY <1>1 DEF CopyToHome
<1>3. \A b \in Blocks : Recovered(b)' = Recovered(b)
  BY SMTT(40), <1>2 DEF Recovered
<1> QED
  BY Zenon, <1>3 DEF Stable

(* install_trans() in commit() copies what is cached already.              *)
LEMMA InstallRefines ==
  ASSUME LogInv, DataInv, NEW p \in Procs, install_trans(p)
  PROVE  UNCHANGED Atomic!vars
<1>1. /\ phase = "run" /\ UNCHANGED <<logblk, head, phase>> /\ CopyToHome(lh[tail])
      /\ pc[p] = "install"
  BY Zenon DEF install_trans
<1>2. /\ head = lh /\ cache[lh[tail]] = logblk[tail] /\ logblk[tail] # NotCached
      /\ tail \in DOMAIN lh /\ lh[tail] \in Blocks
  BY Zenon, <1>1, InstallData, LoopPlace
<1>3. Stable' = Stable
  BY Zenon, <1>1, <1>2, CopyHome DEF LogInv, DataInv, HeaderInv
<1>4. \A b \in Blocks : View(b)' = View(b)
  BY <1>1, <1>2 DEF View, CopyToHome
<1>5. Pending' = Pending
  BY Zenon, <1>1, <1>4 DEF Pending
<1>6. Active' = Active
  BY DEF install_trans, NextTail, Active
<1> QED
  BY Zenon, <1>3, <1>5, <1>6 DEF Atomic!vars

(* A header may be erased once its blocks are home.                        *)
LEMMA EraseHeader ==
  ASSUME TypeOK, NoDuplicates(head), \A i \in DOMAIN head : home[head[i]] = logblk[i],
         UNCHANGED home, head' = <<>>
  PROVE  Stable' = home /\ Stable = home
<1>1. \A b : InLog(b, <<>>) <=> FALSE
  BY EmptySeq DEF InLog
<1>2. \A b \in Blocks : Recovered(b)' = home[b]
  BY Zenon, <1>1 DEF Recovered
<1>3. \A b \in Blocks : Stable[b] = home[b]
  BY StableDisk DEF InLog
<1>4. home = [b \in Blocks |-> home[b]] /\ Stable = [b \in Blocks |-> Stable[b]]
  BY Zenon DEF TypeOK, Stable
<1> QED
  BY Zenon, <1>2, <1>3, <1>4 DEF Stable

(* The end of a commit: the group stays as stable as it was.               *)
LEMMA ClearRefines ==
  ASSUME LogInv, DataInv, NEW p \in Procs, clear_head(p)
  PROVE  UNCHANGED Atomic!vars
<1>1. phase = "run" /\ UNCHANGED <<home, logblk, cache, phase>> /\ head' = <<>>
  BY Zenon DEF clear_head
<1>2. Stable' = Stable
  BY Zenon, <1>1, ClearData, EraseHeader DEF LogInv, DataInv, HeaderInv
<1>3. Pending' = Pending
  BY Zenon, <1>1 DEF Pending, View
<1>4. Active' = Active
  BY Zenon DEF clear_head, Active, LogInv, TypeOK
<1> QED
  BY Zenon, <1>2, <1>3, <1>4 DEF Atomic!vars

(* The end of recovery: what system calls now read is what is stable.      *)
LEMMA RecoverClearRefines ==
  ASSUME LogInv, DataInv, recover_clear
  PROVE  UNCHANGED Atomic!vars
<1>1. /\ phase = "recover_clear" /\ phase' = "run"
      /\ UNCHANGED <<home, logblk, cache, pc>> /\ head' = <<>>
  BY Zenon DEF recover_clear
<1>2. Stable' = home /\ Stable = home
  BY Zenon, <1>1, RecoverClearData, EraseHeader DEF LogInv, DataInv, HeaderInv
<1>3. \A b \in Blocks : View(b)' = home[b]
  BY Zenon, <1>1, RecoverClearData DEF View
<1>4. Pending = home /\ Pending' = home
  <2>1. home = [b \in Blocks |-> home[b]]
    BY Zenon DEF LogInv, TypeOK
  <2> QED
    BY Zenon, <1>1, <1>2, <1>3, <2>1 DEF Pending
<1>5. Active' = Active
  BY Zenon, <1>1 DEF Active
<1> QED
  BY Zenon, <1>2, <1>4, <1>5 DEF Atomic!vars

(* Recycling a clean buffer is invisible.                                  *)
LEMMA RecycleRefines ==
  ASSUME LogInv, DataInv, NEW b \in Blocks, bget_recycle(b)
  PROVE  UNCHANGED Atomic!vars
<1>1. /\ UNCHANGED <<home, logblk, head, phase, pc>>
      /\ cache' = [cache EXCEPT ![b] = NotCached]
      /\ cache[b] = home[b]
  BY ZenonT(40), RecycleData DEF bget_recycle, disk
<1>2. Stable' = Stable
  BY Zenon, <1>1, StableKept
<1>3. \A c \in Blocks : View(c)' = View(c)
  BY Zenon, <1>1 DEF View, LogInv, TypeOK
<1>4. Pending' = Pending
  BY Zenon, <1>1, <1>2, <1>3 DEF Pending
<1>5. Active' = Active
  BY Zenon, <1>1 DEF Active
<1> QED
  BY Zenon, <1>2, <1>4, <1>5 DEF Atomic!vars

(* A crash takes the running contents back to the stable ones; so does the *)
(* reboot after a panic or in the middle of recovery.                      *)
LEMMA CrashRefines == crash => Atomic!Crash
<1> SUFFICES ASSUME crash PROVE Atomic!Crash
  BY Zenon
<1>1. Stable' = Stable
  BY Zenon, StableKept DEF crash, disk
<1>2. Pending' = Stable' /\ Active' = {}
  BY Zenon DEF crash, Pending, Active
<1> QED
  BY Zenon, <1>1, <1>2 DEF Atomic!Crash

(* read_head() and install_trans() in recovery change no contents that a   *)
(* recovery from the start would not rebuild.                              *)
LEMMA RecoveryRefines ==
  ASSUME LogInv, DataInv, read_head \/ recover_install
  PROVE  UNCHANGED Atomic!vars
<1>1. /\ UNCHANGED <<head, logblk, pc>>
      /\ phase \notin {"run", "panic"} /\ phase' \notin {"run", "panic"}
  BY Zenon DEF read_head, recover_install, disk
<1>2. CASE read_head
  BY Zenon, <1>1, <1>2, StableKept DEF read_head, disk, Atomic!vars, Pending, Active
<1>3. CASE recover_install
  <2>1. head = lh /\ tail \in DOMAIN lh /\ CopyToHome(lh[tail])
    BY Zenon, <1>3, RecoverInstallData, LoopPlace DEF recover_install
  <2>2. Stable' = Stable
    BY Zenon, <1>1, <2>1, CopyHome DEF LogInv, DataInv, HeaderInv
  <2> QED
    BY Zenon, <1>1, <2>2 DEF Atomic!vars, Pending, Active
<1> QED
  BY Zenon, <1>2, <1>3

(* The remaining steps move processes, pins and the header in memory.      *)
LEMMA QuietRefines ==
  ASSUME LogInv, NEW p \in Procs, begin_op_sleep(p) \/ log_write(p) \/ end_commit(p)
  PROVE  UNCHANGED Atomic!vars
<1>1. CASE begin_op_sleep(p)
  <2>1. Active' = Active
    BY Zenon, <1>1 DEF begin_op_sleep, Active, LogInv, TypeOK
  <2> QED
    BY Zenon, <1>1, <2>1, StutterRefines DEF begin_op_sleep, disk
<1>2. CASE log_write(p)
  <2>1. Active' = Active
    BY Zenon, <1>2, PlaceTyped DEF log_write, panic, Active
  <2>2. UNCHANGED <<home, logblk, head, cache>>
    BY Zenon, <1>2 DEF log_write, panic, disk
  <2>3. phase = "run" /\ (phase' = phase \/ phase' = "panic")
    BY Zenon, <1>2 DEF log_write, panic
  <2> QED
    BY Zenon, <2>1, <2>2, <2>3, StutterRefines
<1>3. CASE end_commit(p)
  <2>1. Active' = Active
    BY Zenon, <1>3 DEF end_commit, wakeup, Active, LogInv, TypeOK
  <2> QED
    BY Zenon, <1>3, <2>1, StutterRefines DEF end_commit, disk
<1> QED
  BY Zenon, <1>1, <1>2, <1>3

(* The first state is a disk with some contents and no operation.          *)
LEMMA InitRefines == Init => Atomic!Init
<1> SUFFICES ASSUME Init PROVE Atomic!Init
  BY Zenon
<1>1. head = <<>> /\ phase = "boot" /\ home \in [Blocks -> Vals]
  BY Zenon DEF Init
<1>2. \A b : InLog(b, <<>>) <=> FALSE
  BY EmptySeq DEF InLog
<1>3. Stable = [b \in Blocks |-> home[b]]
  BY Zenon, <1>1, <1>2 DEF Stable, Recovered
<1>4. Pending = Stable /\ Active = {}
  BY Zenon, <1>1 DEF Pending, Active, Init
<1> QED
  BY Zenon, <1>1, <1>3, <1>4 DEF Atomic!Init

(* Every step of the log is a step of the transactional disk or leaves it  *)
(* as it is.                                                               *)
LEMMA NextRefines == LogInv /\ DataInv /\ [Next]_vars => [Atomic!Next]_(Atomic!vars)
<1> SUFFICES ASSUME LogInv, DataInv, [Next]_vars PROVE [Atomic!Next]_(Atomic!vars)
  BY Zenon
<1>1. ASSUME NEW p \in Procs, begin_op(p) \/ end_op(p)
      PROVE  Atomic!Next
  BY Zenon, <1>1, BeginRefines, EndRefines DEF Atomic!Next
<1>2. ASSUME NEW p \in Procs, begin_op_sleep(p) \/ log_write(p)
      PROVE  UNCHANGED Atomic!vars
  BY Zenon, <1>2, QuietRefines
<1>3. ASSUME NEW p \in Procs, CommitStep(p)
      PROVE  Atomic!Commit \/ UNCHANGED Atomic!vars
  BY Zenon, <1>3, WriteLogRefines, WriteHeadRefines, InstallRefines, ClearRefines, QuietRefines
     DEF CommitStep
<1>4. ASSUME NEW p \in Procs, NEW b \in Blocks, NEW v \in Vals, modify(p, b, v)
      PROVE  Atomic!Next
  BY Zenon, <1>4, ModifyRefines DEF Atomic!Next
<1>5. ASSUME NEW b \in Blocks, bget_recycle(b) PROVE UNCHANGED Atomic!vars
  BY Zenon, <1>5, RecycleRefines
<1>6. CASE crash
  BY Zenon, <1>6, CrashRefines DEF Atomic!Next
<1>7. CASE read_head \/ recover_install \/ recover_clear
  BY Zenon, <1>7, RecoveryRefines, RecoverClearRefines
<1>8. CASE UNCHANGED vars
  <2>1. UNCHANGED <<home, logblk, head, cache, phase>> /\ Active' = Active
    BY Zenon, <1>8 DEF vars, Active
  <2> QED
    BY Zenon, <2>1, StutterRefines
<1> QED
  BY Zenon, <1>1, <1>2, <1>3, <1>4, <1>5, <1>6, <1>7, <1>8 DEF Next, Atomic!Next

(* The data's invariant holds in every state of every run of the log.      *)
THEOREM DataInvariance == Spec => []DataInv
  BY InitData, NextData, Invariance, PTL DEF Spec

(* A block is pinned in the cache exactly while it is logged and not yet   *)
(* installed: install_trans() drops the pins log_write() took, once.       *)
THEOREM PinsAreExact == Spec => []PinsMatchLog
<1>1. DataInv => PinsMatchLog
  BY Zenon DEF DataInv
<1> QED
  BY <1>1, DataInvariance, PTL

(* When the last end_op() has returned, a power failure loses nothing: the *)
(* disk that recovery rebuilds is the one system calls see.                *)
THEOREM DurableWhenQuiet == Spec => []QuiescentDurable
<1>1. LogInv /\ DataInv => QuiescentDurable
  <2> SUFFICES ASSUME LogInv, DataInv, phase = "run", Active = {}, ~committing
               PROVE  Stable = Pending
    BY Zenon DEF QuiescentDurable
  <2>1. lh = <<>> /\ \A p \in Procs : pc[p] \notin CommitPcs /\ buf[p] = NoBuf
    BY ZenonT(40), NoCommitter DEF LogInv, CommitInv, ProcInv, Active
  <2>2. head = <<>>
    BY Zenon, <2>1 DEF DataInv, HeaderInv, CommitPcs
  <2>3. DOMAIN <<>> = {} /\ \A b : InLog(b, <<>>) <=> FALSE
    BY SMTT(40), EmptySeq DEF InLog
  <2>4. \A b \in Blocks : cache[b] \in {NotCached, home[b]}
    <3>1. CacheInv
      BY Zenon DEF DataInv
    <3>2. \A p \in Procs, b \in Blocks : buf[p] # b
      BY Zenon, <2>1, Markers
    <3> QED
      BY <2>1, <3>1, <3>2 DEF CacheInv
  <2>5. \A b \in Blocks : Recovered(b) = View(b)
    BY Zenon, <2>2, <2>3, <2>4 DEF Recovered, View
  <2> QED
    BY Zenon, <2>5 DEF Stable, Pending
<1> QED
  BY <1>1, Invariance, DataInvariance, PTL

(* log.c implements a disk on which groups of operations take effect all   *)
(* at once or not at all, wherever the power fails, in commit() and in     *)
(* recovery, and however the operations interleave.                        *)
THEOREM LogIsTransactional == Spec => ImplementsTransDisk
<1>1. ImplementsTransDisk <=> Atomic!Spec
  BY Zenon DEF ImplementsTransDisk
<1> QED
  BY <1>1, InitRefines, NextRefines, Invariance, DataInvariance, PTL DEF Spec, Atomic!Spec
=============================================================================
