----------------------------- MODULE BioProofs -----------------------------
(***************************************************************************)
(* Proofs about the buffer cache for all finite sets of processes and      *)
(* buffers, any set of blocks and any number of pins: a block is in one    *)
(* buffer, whoever holds the buffer sees the latest contents, refcnt       *)
(* counts the users, and nobody sleeps for a lock that is free.            *)
(***************************************************************************)
EXTENDS Bio, FiniteSetTheorems, TLAPS

(* What the model values are not. *)
LEMMA Markers ==
  /\ NoProc \notin Procs /\ NoBuf \notin Bufs /\ NoBlock \notin Blocks
  /\ IsFiniteSet(Procs) /\ IsFiniteSet(Bufs) /\ Cardinality(Bufs) \in Nat
BY Zenon, BioConstants, FS_CardinalityType

(* The number of a buffer's users is a number, and 0 when there is none. *)
LEMMA UserCount ==
  ASSUME NEW b
  PROVE  /\ IsFiniteSet(Users(b)) /\ Cardinality(Users(b)) \in Nat
         /\ Cardinality(Users(b)) = 0 <=> \A p \in Procs : bp[p] # b
<1>1. IsFiniteSet(Users(b))
  BY Zenon, Markers, FS_Subset DEF Users
<1>2. Cardinality(Users(b)) \in Nat
  BY Zenon, <1>1, FS_CardinalityType
<1>3. Cardinality(Users(b)) = 0 <=> Users(b) = {}
  BY Zenon, <1>1, FS_EmptySet
<1> QED
  BY Zenon, <1>1, <1>2, <1>3 DEF Users

(* bget() adds one user to the buffer it returns. *)
LEMMA UserAdded ==
  ASSUME bp \in [Procs -> Bufs \cup {NoBuf}], NEW p \in Procs, NEW b \in Bufs,
         bp[p] = NoBuf, bp' = [bp EXCEPT ![p] = b]
  PROVE  \A c \in Bufs : Cardinality(Users(c)') = Cardinality(Users(c)) + IF c = b THEN 1 ELSE 0
<1> SUFFICES ASSUME NEW c \in Bufs
             PROVE  Cardinality(Users(c)') = Cardinality(Users(c)) + IF c = b THEN 1 ELSE 0
  BY Zenon
<1>1. Users(c)' = IF c = b THEN Users(c) \cup {p} ELSE Users(c)
  BY Zenon, Markers DEF Users
<1>2. p \notin Users(c)
  BY Zenon, Markers DEF Users
<1>3. Cardinality(Users(c) \cup {p}) = Cardinality(Users(c)) + 1
  BY ZenonT(40), <1>2, UserCount, FS_AddElement
<1>4. Cardinality(Users(c)) \in Nat
  BY Zenon, UserCount
<1> QED
  BY <1>1, <1>3, <1>4

(* brelse() removes one. *)
LEMMA UserRemoved ==
  ASSUME bp \in [Procs -> Bufs \cup {NoBuf}], NEW p \in Procs, NEW b \in Bufs,
         bp[p] = b, bp' = [bp EXCEPT ![p] = NoBuf]
  PROVE  \A c \in Bufs : Cardinality(Users(c)') = Cardinality(Users(c)) - IF c = b THEN 1 ELSE 0
<1> SUFFICES ASSUME NEW c \in Bufs
             PROVE  Cardinality(Users(c)') = Cardinality(Users(c)) - IF c = b THEN 1 ELSE 0
  BY Zenon
<1>1. Users(c)' = IF c = b THEN Users(c) \ {p} ELSE Users(c)
  BY Zenon, Markers DEF Users
<1>2. c = b => p \in Users(c)
  BY Zenon DEF Users
<1>3. c = b => Cardinality(Users(c) \ {p}) = Cardinality(Users(c)) - 1
  BY ZenonT(40), <1>2, UserCount, FS_RemoveElement
<1>4. Cardinality(Users(c)) \in Nat
  BY Zenon, UserCount
<1> QED
  BY <1>1, <1>3, <1>4

(* binit() puts every buffer into the list. *)
LEMMA AllListed ==
  ASSUME Init
  PROVE  lru \in Surjection(1..Cardinality(Bufs), Bufs)
<1>1. ExistsBijection(1..Cardinality(Bufs), Bufs)
  BY Zenon, Markers, FS_CardinalityType
<1>2. lru \in Bijection(1..Cardinality(Bufs), Bufs)
  BY Zenon, <1>1 DEF Init, ExistsBijection
<1> QED
  BY Zenon, <1>2 DEF Bijection

(* The loop of bget() from the end of the list finds the last unused       *)
(* buffer, if there is one.                                                *)
LEMMA LastUnused ==
  ASSUME TypeOK, Unused # {}
  PROVE  Recycled \in Unused
<1> DEFINE n == Cardinality(Bufs)
           Back == {n - i : i \in Unused}
           Less == {ss \in Nat \X Nat : ss[1] < ss[2]}
<1>1. n \in Nat /\ Unused \subseteq 1..n
  BY Zenon, Markers DEF TypeOK, Surjection, Unused
<1>2. Back \subseteq Nat /\ Back # {}
  <2> HIDE DEF n
  <2>1. \A i \in Unused : n - i \in Nat
    BY <1>1
  <2> QED
    BY ZenonT(40), <2>1 DEF Back
<1>3. IsWellFoundedOn(Less, Nat)
  BY ONLY Zenon, NatLessThanWellFounded DEF OpToRel
<1>4. PICK x \in Back : \A y \in Back : ~(<<y, x>> \in Less)
  <2> HIDE DEF Less, Back
  <2> QED
    BY ZenonT(40), <1>2, <1>3, WFMin
<1>5. PICK i \in Unused : x = n - i
  BY Zenon
<1>6. ASSUME NEW j \in Unused, j > i PROVE FALSE
  <2>1. n - j \in Back /\ n - j < x /\ x \in Nat /\ n - j \in Nat
    BY <1>1, <1>2, <1>5, <1>6
  <2> QED
    BY ZenonT(40), <1>4, <2>1
<1>7. \A j \in Unused : j <= i
  BY <1>1, <1>6
<1> QED
  BY Zenon, <1>7 DEF Recycled

(* brelse() keeps every buffer in the list when it moves one to the front. *)
LEMMA StaysListed ==
  ASSUME TypeOK, NEW b \in Bufs
  PROVE  ToFront(b) \in Surjection(1..Cardinality(Bufs), Bufs)
<1> DEFINE n == Cardinality(Bufs)
           k == Place(b)
           f == ToFront(b)
<1>1. n \in Nat /\ lru \in [1..n -> Bufs]
  BY Zenon, Markers DEF TypeOK, Surjection
<1>2. \A c \in Bufs : \E i \in 1..n : lru[i] = c
  BY Zenon DEF TypeOK, Surjection
<1>3. k \in 1..n /\ lru[k] = b
  BY Zenon, <1>1, <1>2 DEF Place
<1> HIDE DEF k
<1>4. f = [i \in 1..n |-> IF i = 1 THEN b ELSE IF i <= k THEN lru[i - 1] ELSE lru[i]]
  BY Zenon, <1>1 DEF ToFront, k
<1> HIDE DEF f, n
<1>5. f \in [1..n -> Bufs]
  BY <1>1, <1>3, <1>4
<1>6. ASSUME NEW c \in Bufs PROVE \E i \in 1..n : f[i] = c
  <2>1. PICK j \in 1..n : lru[j] = c
    BY Zenon, <1>2
  <2>2. CASE j = k
    BY <1>1, <1>3, <1>4, <2>1, <2>2
  <2>3. CASE j < k
    <3>1. j + 1 \in 1..n /\ f[j + 1] = lru[j]
      BY <1>1, <1>3, <1>4, <2>3
    <3> QED
      BY Zenon, <2>1, <3>1
  <2>4. CASE j > k
    BY <1>1, <1>3, <1>4, <2>1, <2>4
  <2> QED
    BY <1>1, <1>3, <2>2, <2>3, <2>4
<1> QED
  BY Zenon, <1>5, <1>6 DEF f, n, Surjection

(* binit() makes an empty cache. *)
LEMMA InitInv == Init => BioInv
<1> SUFFICES ASSUME Init PROVE BioInv
  BY Zenon
<1>1. \A b \in Bufs : /\ buf[b].blockno = NoBlock /\ buf[b].refcnt = 0
                      /\ buf[b].valid = FALSE /\ buf[b].lock = NoProc
  BY Zenon DEF Init
<1>2. \A p \in Procs : pc[p] = "idle" /\ bp[p] = NoBuf
  BY Zenon DEF Init
<1>3. TypeOK
  BY ZenonT(40), AllListed DEF Init, TypeOK, Places, Buffers
<1>4. OneBufferPerBlock /\ ReadsLatest /\ SleepersAreWoken
  BY Zenon, <1>1, <1>2 DEF OneBufferPerBlock, ReadsLatest, SleepersAreWoken
<1>5. RefcntIsUsers
  <2>1. \A b \in Bufs : Cardinality(Users(b)) = 0
    BY Zenon, <1>2, UserCount, Markers
  <2> QED
    BY <1>1, <2>1 DEF RefcntIsUsers, Init
<1>6. LockInv /\ CopyInv
  BY Zenon, <1>1, <1>2 DEF LockInv, CopyInv, Holding, Init
<1> QED
  BY Zenon, <1>3, <1>4, <1>5, <1>6 DEF BioInv, CacheSound

(* What a new lock, or a new reference count, of one buffer changes. *)
SameBut(f, g, b, l, n) ==
  \A c \in Bufs :
    /\ g[c].blockno = f[c].blockno /\ g[c].valid = f[c].valid /\ g[c].latest = f[c].latest
    /\ g[c].lock = IF c = b THEN l ELSE f[c].lock
    /\ g[c].refcnt = IF c = b THEN n ELSE f[c].refcnt

LEMMA LockSet ==
  ASSUME NEW f \in [Bufs -> Buffers], NEW b \in Bufs, NEW l \in Procs \cup {NoProc}, NEW g,
         g = [f EXCEPT ![b].lock = l]
  PROVE  g \in [Bufs -> Buffers] /\ SameBut(f, g, b, l, f[b].refcnt)
<1> DEFINE r == [f[b] EXCEPT !.lock = l]
<1>1. /\ r \in Buffers /\ r.blockno = f[b].blockno /\ r.refcnt = f[b].refcnt
      /\ r.valid = f[b].valid /\ r.latest = f[b].latest /\ r.lock = l
  BY Zenon DEF Buffers
<1>2. g = [f EXCEPT ![b] = r]
  BY Zenon
<1> HIDE DEF r
<1>3. g \in [Bufs -> Buffers] /\ \A c \in Bufs : g[c] = IF c = b THEN r ELSE f[c]
  BY Zenon, <1>1, <1>2
<1> QED
  BY <1>1, <1>3 DEF SameBut

LEMMA RefSet ==
  ASSUME NEW f \in [Bufs -> Buffers], NEW b \in Bufs, NEW n \in Nat, NEW g,
         g = [f EXCEPT ![b].refcnt = n]
  PROVE  g \in [Bufs -> Buffers] /\ SameBut(f, g, b, f[b].lock, n)
<1> DEFINE r == [f[b] EXCEPT !.refcnt = n]
<1>1. /\ r \in Buffers /\ r.blockno = f[b].blockno /\ r.lock = f[b].lock
      /\ r.valid = f[b].valid /\ r.latest = f[b].latest /\ r.refcnt = n
  BY Zenon DEF Buffers
<1>2. g = [f EXCEPT ![b] = r]
  BY Zenon
<1> HIDE DEF r
<1>3. g \in [Bufs -> Buffers] /\ \A c \in Bufs : g[c] = IF c = b THEN r ELSE f[c]
  BY Zenon, <1>1, <1>2
<1> QED
  BY <1>1, <1>3 DEF SameBut

(* A process inside a call works on a buffer that has a block. *)
LEMMA InCall ==
  ASSUME BioInv, NEW p \in Procs, pc[p] # "idle"
  PROVE  bp[p] \in Bufs /\ buf[bp[p]].blockno \in Blocks /\ bp[p] # NoBuf
BY Zenon, Markers DEF BioInv, CacheSound, TypeOK, CopyInv

(* A lock is free, or has a process that holds it. *)
LEMMA Holder ==
  ASSUME BioInv, NEW b \in Bufs, buf[b].lock # NoProc
  PROVE  buf[b].lock \in Procs /\ pc[buf[b].lock] \in Holding /\ bp[buf[b].lock] = b
BY DEF BioInv, CacheSound, TypeOK, LockInv, Buffers

(* The holder of a buffer's lock is alone with it. *)
LEMMA Alone ==
  ASSUME BioInv, NEW p \in Procs, pc[p] \in Holding
  PROVE  /\ buf[bp[p]].lock = p
         /\ \A q \in Procs : q # p /\ pc[q] \in Holding => bp[q] # bp[p]
BY Zenon DEF BioInv, LockInv

(* acquiresleep() keeps the invariant: nobody has the lock. *)
LEMMA Step_acquiresleep ==
  ASSUME BioInv, NEW p \in Procs, acquiresleep(p)
  PROVE  BioInv'
<1> DEFINE b == bp[p]
<1>1. b \in Bufs /\ buf[b].blockno \in Blocks /\ b # NoBuf /\ buf[b].lock = NoProc
  BY Zenon, InCall DEF acquiresleep
<1>2. /\ buf' \in [Bufs -> Buffers]
      /\ \A c \in Bufs :
           /\ buf'[c].blockno = buf[c].blockno /\ buf'[c].refcnt = buf[c].refcnt
           /\ buf'[c].valid = buf[c].valid /\ buf'[c].latest = buf[c].latest
           /\ buf'[c].lock = IF c = b THEN p ELSE buf[c].lock
  <2>1. buf \in [Bufs -> Buffers] /\ buf' = [buf EXCEPT ![b].lock = p]
    BY Zenon DEF BioInv, CacheSound, TypeOK, acquiresleep
  <2> QED
    BY <1>1, <2>1, LockSet DEF SameBut
<1>3. /\ pc' \in [Procs -> Places] /\ pc[p] = "acquiresleep"
      /\ pc'[p] = IF buf[b].valid THEN "held" ELSE "reading"
      /\ \A q \in Procs : q # p => pc'[q] = pc[q]
  BY Zenon DEF BioInv, CacheSound, TypeOK, acquiresleep, Places, Holding
<1>4. UNCHANGED <<bp, disk, lru, pinned, panicked>>
  BY Zenon DEF acquiresleep
<1>5. \A q \in Procs : pc[q] \in Holding => bp[q] # b
  BY <1>1, Markers DEF BioInv, LockInv
<1> HIDE DEF b
<1>6. TypeOK'
  BY <1>1, <1>2, <1>3, <1>4 DEF BioInv, CacheSound, TypeOK, b
<1>7. OneBufferPerBlock'
  BY <1>2 DEF BioInv, CacheSound, OneBufferPerBlock
<1>8. ReadsLatest'
  BY <1>1, <1>2, <1>3, <1>4, <1>5 DEF BioInv, CacheSound, TypeOK, ReadsLatest, CopyInv, Holding, b
<1>9. RefcntIsUsers'
  BY <1>2, <1>4 DEF BioInv, CacheSound, RefcntIsUsers, Users
<1>10. SleepersAreWoken'
  BY SMTT(40), <1>1, <1>2, <1>3, <1>4, <1>5 DEF BioInv, CacheSound, TypeOK, SleepersAreWoken, Holding, b
<1>11. LockInv'
  <2>1. \A q \in Procs : pc'[q] \in Holding => buf'[bp[q]].lock = q
    BY <1>1, <1>2, <1>3, <1>5 DEF BioInv, CacheSound, TypeOK, LockInv, Holding, b
  <2>2. \A c \in Bufs : buf'[c].lock # NoProc =>
          buf'[c].lock \in Procs /\ pc'[buf'[c].lock] \in Holding /\ bp[buf'[c].lock] = c
    BY SMTT(40), <1>1, <1>2, <1>3 DEF BioInv, CacheSound, TypeOK, LockInv, Holding, b, Buffers
  <2> QED
    BY Zenon, <1>4, <2>1, <2>2 DEF LockInv
<1>12. CopyInv'
  BY <1>1, <1>2, <1>3, <1>4 DEF BioInv, CacheSound, TypeOK, CopyInv, Holding, Writer, b
<1> QED
  BY Zenon, <1>6, <1>7, <1>8, <1>9, <1>10, <1>11, <1>12 DEF BioInv, CacheSound

(* acquiresleep() keeps it when it sleeps: the lock's holder wakes it. *)
LEMMA Step_acquiresleep_sleep ==
  ASSUME BioInv, NEW p \in Procs, acquiresleep_sleep(p)
  PROVE  BioInv'
<1> DEFINE b == bp[p]
           q == buf[b].lock
<1>1. b \in Bufs /\ b # NoBuf /\ q # NoProc
  BY Zenon, InCall DEF acquiresleep_sleep
<1>2. /\ pc' \in [Procs -> Places] /\ pc[p] = "acquiresleep" /\ pc'[p] = "lock_sleep"
      /\ \A r \in Procs : r # p => pc'[r] = pc[r]
  BY Zenon DEF BioInv, CacheSound, TypeOK, acquiresleep_sleep, Places, Holding
<1>3. UNCHANGED <<bp, buf, disk, lru, pinned, panicked>>
  BY Zenon DEF acquiresleep_sleep
<1>4. q \in Procs /\ q # p /\ pc[q] \in Holding /\ bp[q] = b
  BY <1>1, <1>2 DEF BioInv, CacheSound, TypeOK, LockInv, Buffers, Holding
<1> HIDE DEF b, q
<1>5. TypeOK'
  BY Zenon, <1>1, <1>2, <1>3 DEF BioInv, CacheSound, TypeOK, b
<1>6. OneBufferPerBlock' /\ RefcntIsUsers'
  BY Zenon, <1>3 DEF BioInv, CacheSound, OneBufferPerBlock, RefcntIsUsers, Users
<1>7. ReadsLatest'
  BY Zenon, <1>2, <1>3 DEF BioInv, CacheSound, ReadsLatest, Holding
<1>8. SleepersAreWoken'
  <2>1. buf[bp[p]].lock = q /\ bp[q] = bp[p]
    BY Zenon, <1>4 DEF b, q
  <2> QED
    BY <1>2, <1>3, <1>4, <2>1 DEF BioInv, CacheSound, SleepersAreWoken, Holding
<1>9. LockInv'
  BY <1>2, <1>3 DEF BioInv, CacheSound, TypeOK, LockInv, Holding, Buffers
<1>10. CopyInv'
  BY <1>2, <1>3 DEF BioInv, CopyInv, Holding, Writer
<1> QED
  BY Zenon, <1>5, <1>6, <1>7, <1>8, <1>9, <1>10 DEF BioInv, CacheSound

(* bget() of a cached block keeps the invariant: it adds a user. *)
LEMMA Step_bget_hit ==
  ASSUME BioInv, NEW p \in Procs, NEW n \in Blocks, bget_hit(p, n)
  PROVE  BioInv'
<1>1. PICK b \in Bufs : /\ buf[b].blockno = n
                        /\ bp' = [bp EXCEPT ![p] = b]
                        /\ buf' = [buf EXCEPT ![b].refcnt = @ + 1]
  BY ZenonT(40) DEF bget_hit, Cached
<1>2. /\ buf' \in [Bufs -> Buffers]
      /\ \A c \in Bufs :
           /\ buf'[c].blockno = buf[c].blockno /\ buf'[c].lock = buf[c].lock
           /\ buf'[c].valid = buf[c].valid /\ buf'[c].latest = buf[c].latest
           /\ buf'[c].refcnt = buf[c].refcnt + IF c = b THEN 1 ELSE 0
  <2>1. buf \in [Bufs -> Buffers] /\ \A c \in Bufs : buf[c].refcnt \in Nat
    BY Zenon DEF BioInv, CacheSound, TypeOK, Buffers
  <2>2. buf[b].refcnt + 1 \in Nat /\ buf' = [buf EXCEPT ![b].refcnt = buf[b].refcnt + 1]
    BY <1>1, <2>1
  <2> QED
    BY <2>1, <2>2, RefSet DEF SameBut
<1>3. /\ pc' \in [Procs -> Places] /\ pc[p] = "idle" /\ pc'[p] = "acquiresleep"
      /\ \A q \in Procs : q # p => pc'[q] = pc[q]
  BY Zenon DEF BioInv, CacheSound, TypeOK, bget_hit, Places
<1>4. /\ bp' \in [Procs -> Bufs \cup {NoBuf}] /\ bp[p] = NoBuf /\ bp'[p] = b /\ b # NoBuf
      /\ \A q \in Procs : q # p => bp'[q] = bp[q]
  BY Zenon, <1>1, <1>3, Markers DEF BioInv, CacheSound, TypeOK
<1>5. UNCHANGED <<disk, lru, pinned, panicked>>
  BY Zenon DEF bget_hit
<1>6. TypeOK'
  BY <1>2, <1>3, <1>4, <1>5 DEF BioInv, CacheSound, TypeOK
<1>7. OneBufferPerBlock'
  BY <1>2 DEF BioInv, CacheSound, OneBufferPerBlock
<1>8. ReadsLatest'
  BY <1>2, <1>3, <1>4 DEF BioInv, CacheSound, TypeOK, ReadsLatest, Holding
<1>9. RefcntIsUsers'
  <2>1. \A c \in Bufs : Cardinality(Users(c)') = Cardinality(Users(c)) + IF c = b THEN 1 ELSE 0
    BY ZenonT(40), <1>1, <1>4, UserAdded DEF BioInv, CacheSound, TypeOK
  <2>2. \A c \in Bufs : Cardinality(Users(c)) \in Nat
    BY Zenon, UserCount
  <2> QED
    BY <1>2, <1>5, <2>1, <2>2 DEF BioInv, CacheSound, RefcntIsUsers
<1>10. SleepersAreWoken'
  BY <1>2, <1>3, <1>4 DEF BioInv, CacheSound, TypeOK, SleepersAreWoken, Holding
<1>11. LockInv'
  <2>1. \A q \in Procs : pc'[q] \in Holding => buf'[bp'[q]].lock = q
    BY <1>2, <1>3, <1>4, InCall DEF BioInv, LockInv, Holding
  <2>2. \A c \in Bufs : buf'[c].lock # NoProc =>
          pc'[buf'[c].lock] \in Holding /\ bp'[buf'[c].lock] = c
    BY <1>2, <1>3, <1>4, Holder DEF Holding
  <2> QED
    BY Zenon, <2>1, <2>2 DEF LockInv
<1>12. CopyInv'
  BY <1>1, <1>2, <1>3, <1>4, <1>5 DEF BioInv, CacheSound, TypeOK, CopyInv, Holding, Writer
<1> QED
  BY Zenon, <1>6, <1>7, <1>8, <1>9, <1>10, <1>11, <1>12 DEF BioInv, CacheSound

(* A buffer with refcnt 0 has no user, is not locked and not pinned. *)
LEMMA Free ==
  ASSUME BioInv, NEW b \in Bufs, buf[b].refcnt = 0
  PROVE  /\ \A p \in Procs : bp[p] # b
         /\ buf[b].lock = NoProc /\ buf[b].blockno \notin pinned
<1>1. Cardinality(Users(b)) \in Nat
  BY Zenon, UserCount
<1>2. Cardinality(Users(b)) = 0 /\ buf[b].blockno \notin pinned
  BY <1>1 DEF BioInv, CacheSound, RefcntIsUsers
<1>3. \A p \in Procs : bp[p] # b
  BY Zenon, <1>2, UserCount
<1> QED
  BY <1>2, <1>3 DEF BioInv, CacheSound, TypeOK, LockInv, Buffers

(* bget() of another block keeps it: the buffer it takes is not the only   *)
(* place with the latest contents of the block that it held.               *)
LEMMA Step_bget_recycle ==
  ASSUME BioInv, NEW p \in Procs, NEW n \in Blocks, bget_recycle(p, n)
  PROVE  BioInv'
<1> DEFINE b == lru[Recycled]
<1>1. b \in Bufs /\ buf[b].refcnt = 0
  <2>1. Recycled \in Unused
    BY Zenon, LastUnused DEF bget_recycle, BioInv, CacheSound
  <2>2. lru \in [1..Cardinality(Bufs) -> Bufs]
    BY Zenon DEF BioInv, CacheSound, TypeOK, Surjection
  <2> QED
    BY Zenon, <2>1, <2>2 DEF Unused
<1>2. \A c \in Bufs : buf[c].blockno # n
  BY Zenon DEF bget_recycle, Cached
<1>3. /\ buf' \in [Bufs -> Buffers]
      /\ buf'[b].blockno = n /\ ~buf'[b].valid /\ buf'[b].refcnt = 1 /\ buf'[b].lock = buf[b].lock
      /\ \A c \in Bufs : c # b => buf'[c] = buf[c]
  <2> DEFINE r == [buf[b] EXCEPT !.blockno = n, !.valid = FALSE, !.latest = FALSE, !.refcnt = 1]
  <2>1. buf \in [Bufs -> Buffers]
    BY Zenon DEF BioInv, CacheSound, TypeOK
  <2>2. /\ r \in Buffers /\ r.blockno = n /\ ~r.valid /\ r.refcnt = 1
        /\ r.lock = buf[b].lock
    BY ZenonT(40), <1>1, <2>1 DEF Buffers
  <2>3. buf' = [buf EXCEPT ![b] = r]
    BY ZenonT(40), <1>1, <2>1 DEF bget_recycle
  <2> HIDE DEF r, b
  <2> QED
    BY Zenon, <1>1, <2>1, <2>2, <2>3
<1>4. bp' = [bp EXCEPT ![p] = b] /\ UNCHANGED <<disk, lru, pinned, panicked>>
  BY Zenon DEF bget_recycle
<1>5. /\ pc' \in [Procs -> Places] /\ pc[p] = "idle" /\ pc'[p] = "acquiresleep"
      /\ \A q \in Procs : q # p => pc'[q] = pc[q]
  BY Zenon DEF BioInv, CacheSound, TypeOK, bget_recycle, Places
<1> HIDE DEF b
<1>6. /\ bp' \in [Procs -> Bufs \cup {NoBuf}] /\ bp[p] = NoBuf /\ bp'[p] = b /\ b # NoBuf
      /\ \A q \in Procs : q # p => bp'[q] = bp[q]
  BY Zenon, <1>1, <1>4, <1>5, Markers DEF BioInv, CacheSound, TypeOK
<1>7. /\ \A q \in Procs : bp[q] # b
      /\ buf[b].lock = NoProc /\ buf[b].blockno \notin pinned /\ n \notin pinned
  BY Zenon, <1>1, <1>2, Free DEF BioInv, CopyInv
<1>8. TypeOK'
  BY <1>3, <1>4, <1>5, <1>6 DEF BioInv, CacheSound, TypeOK
<1>9. OneBufferPerBlock'
  BY <1>2, <1>3 DEF BioInv, CacheSound, OneBufferPerBlock
<1>10. ReadsLatest'
  BY SMTT(40), <1>3, <1>5, <1>6, <1>7 DEF BioInv, CacheSound, TypeOK, ReadsLatest, Holding
<1>11. RefcntIsUsers'
  <2>1. \A c \in Bufs : Cardinality(Users(c)') = Cardinality(Users(c)) + IF c = b THEN 1 ELSE 0
    BY ZenonT(40), <1>1, <1>4, <1>6, UserAdded DEF BioInv, CacheSound, TypeOK
  <2>2. \A c \in Bufs : Cardinality(Users(c)) \in Nat
    BY Zenon, UserCount
  <2>3. Cardinality(Users(b)) = 0
    BY Zenon, <1>7, UserCount
  <2> QED
    BY <1>1, <1>3, <1>4, <1>7, <2>1, <2>2, <2>3 DEF BioInv, CacheSound, RefcntIsUsers
<1>12. SleepersAreWoken'
  BY <1>3, <1>5, <1>6, <1>7 DEF BioInv, CacheSound, TypeOK, SleepersAreWoken, Holding
<1>13. LockInv'
  <2>1. \A q \in Procs : pc'[q] \in Holding => buf'[bp'[q]].lock = q
    BY SMTT(40), <1>3, <1>5, <1>6, <1>7, InCall DEF BioInv, LockInv, Holding
  <2>2. \A c \in Bufs : buf'[c].lock # NoProc =>
          pc'[buf'[c].lock] \in Holding /\ bp'[buf'[c].lock] = c
    BY <1>3, <1>5, <1>6, <1>7, Holder DEF Holding
  <2> QED
    BY Zenon, <2>1, <2>2 DEF LockInv
<1>14. CopyInv'
  BY SMTT(40), <1>1, <1>2, <1>3, <1>4, <1>5, <1>6, <1>7 DEF BioInv, CacheSound, TypeOK, CopyInv, Holding, Writer
<1> QED
  BY Zenon, <1>8, <1>9, <1>10, <1>11, <1>12, <1>13, <1>14 DEF BioInv, CacheSound

(* bread() keeps it: when no valid buffer has the block, the disk has the  *)
(* latest contents.                                                        *)
LEMMA Step_bread ==
  ASSUME BioInv, NEW p \in Procs, bread(p)
  PROVE  BioInv'
<1> DEFINE b == bp[p]
           n == buf[b].blockno
<1>1. b \in Bufs /\ n \in Blocks /\ pc[p] = "reading" /\ ~buf[b].valid
  BY Zenon, InCall DEF bread, BioInv, CopyInv, Holding
<1>2. disk[n] = TRUE
  <2>1. disk[n] \in BOOLEAN
    BY Zenon, <1>1 DEF BioInv, CacheSound, TypeOK
  <2>2. ASSUME ~disk[n] PROVE FALSE
    <3>1. PICK c \in Bufs : buf[c].blockno = n /\ buf[c].valid
      BY Zenon, <1>1, <2>2 DEF BioInv, CopyInv
    <3>2. c = b
      BY Zenon, <1>1, <3>1, Markers DEF BioInv, CacheSound, OneBufferPerBlock
    <3> QED
      BY Zenon, <1>1, <3>1, <3>2
  <2> QED
    BY Zenon, <2>1, <2>2
<1>3. /\ buf' \in [Bufs -> Buffers]
      /\ \A c \in Bufs :
           /\ buf'[c].blockno = buf[c].blockno /\ buf'[c].refcnt = buf[c].refcnt
           /\ buf'[c].lock = buf[c].lock
      /\ buf'[b].valid /\ buf'[b].latest
      /\ \A c \in Bufs : c # b => buf'[c] = buf[c]
  <2> DEFINE r == [buf[b] EXCEPT !.latest = TRUE, !.valid = TRUE]
  <2>1. buf \in [Bufs -> Buffers]
    BY Zenon DEF BioInv, CacheSound, TypeOK
  <2>2. /\ r \in Buffers /\ r.blockno = n /\ r.valid /\ r.latest
        /\ r.lock = buf[b].lock /\ r.refcnt = buf[b].refcnt
    BY ZenonT(40), <1>1, <2>1 DEF Buffers
  <2>3. buf' = [buf EXCEPT ![b] = r]
    BY ZenonT(40), <1>1, <1>2, <2>1 DEF bread
  <2> HIDE DEF r, b
  <2> QED
    BY Zenon, <1>1, <2>1, <2>2, <2>3
<1>4. /\ pc' \in [Procs -> Places] /\ pc'[p] = "held"
      /\ \A q \in Procs : q # p => pc'[q] = pc[q]
  BY Zenon DEF BioInv, CacheSound, TypeOK, bread, Places, Holding
<1>5. UNCHANGED <<bp, disk, lru, pinned, panicked>>
  BY Zenon DEF bread
<1>6. \A q \in Procs : q # p /\ pc[q] \in Holding => bp[q] # b
  BY Zenon, <1>1, Alone DEF Holding
<1> HIDE DEF b, n
<1>7. TypeOK'
  BY <1>1, <1>3, <1>4, <1>5 DEF BioInv, CacheSound, TypeOK
<1>8. OneBufferPerBlock'
  BY <1>3 DEF BioInv, CacheSound, OneBufferPerBlock
<1>9. ReadsLatest'
  BY <1>1, <1>3, <1>4, <1>5, <1>6, InCall DEF BioInv, CacheSound, ReadsLatest, Holding, b
<1>10. RefcntIsUsers'
  BY Zenon, <1>3, <1>5 DEF BioInv, CacheSound, RefcntIsUsers, Users
<1>11. SleepersAreWoken'
  BY <1>1, <1>3, <1>4, <1>5, InCall DEF BioInv, CacheSound, SleepersAreWoken, Holding
<1>12. LockInv'
  <2>1. \A q \in Procs : pc'[q] \in Holding => buf'[bp'[q]].lock = q
    BY <1>1, <1>3, <1>4, <1>5, InCall DEF BioInv, LockInv, Holding
  <2>2. \A c \in Bufs : buf'[c].lock # NoProc =>
          pc'[buf'[c].lock] \in Holding /\ bp'[buf'[c].lock] = c
    BY SMTT(40), <1>3, <1>4, <1>5, Holder DEF Holding
  <2> QED
    BY Zenon, <2>1, <2>2 DEF LockInv
<1>13. CopyInv'
  BY <1>1, <1>3, <1>4, <1>5, <1>6, InCall DEF BioInv, CopyInv, Holding, Writer, b
<1> QED
  BY Zenon, <1>7, <1>8, <1>9, <1>10, <1>11, <1>12, <1>13 DEF BioInv, CacheSound

(* The copy that a client changes is the latest one, and the only one in   *)
(* the cache.                                                              *)
LEMMA ChangedInPlace ==
  ASSUME BioInv, NEW p \in Procs, pc[p] = "held"
  PROVE  Changed(p) = buf
<1> DEFINE b == bp[p]
<1>1. b \in Bufs /\ buf[b].blockno \in Blocks
  BY Zenon, InCall
<1>2. buf \in [Bufs -> Buffers] /\ buf[b].latest = TRUE
  BY Zenon, <1>1 DEF BioInv, CacheSound, TypeOK, ReadsLatest, Buffers
<1>3. \A c \in Bufs : buf[c].blockno = buf[b].blockno => c = b
  BY Zenon, <1>1, Markers DEF BioInv, CacheSound, OneBufferPerBlock
<1>4. [buf[b] EXCEPT !.latest = TRUE] = buf[b]
  BY ZenonT(40), <1>1, <1>2 DEF Buffers
<1> QED
  BY ZenonT(40), <1>1, <1>2, <1>3, <1>4 DEF Changed

(* Contents that the disk does not have are in a valid buffer that cannot  *)
(* be recycled.                                                            *)
Kept ==
  \A n \in Blocks : ~disk[n] =>
    \E b \in Bufs :
      /\ buf[b].blockno = n /\ buf[b].valid
      /\ n \in pinned \/ \E p \in Procs : Writer(p, b)

(* The holder of a buffer changes or writes it; the rest of the invariant  *)
(* is about other things.                                                  *)
LEMMA HolderWrites ==
  ASSUME BioInv, NEW p \in Procs, pc[p] \in {"held", "writing"},
         NEW l \in {"held", "writing"}, pc' = [pc EXCEPT ![p] = l],
         UNCHANGED <<bp, buf, lru, pinned, panicked>>, disk' \in [Blocks -> BOOLEAN], Kept'
  PROVE  BioInv'
<1>1. /\ pc' \in [Procs -> Places] /\ pc'[p] = l
      /\ \A q \in Procs : q # p => pc'[q] = pc[q]
  BY Zenon DEF BioInv, CacheSound, TypeOK, Places, Holding
<1>2. bp[p] \in Bufs /\ buf[bp[p]].valid /\ buf[bp[p]].latest
  BY Zenon, InCall DEF BioInv, CopyInv, Holding
<1>3. \A q \in Procs : q # p /\ pc[q] \in Holding => bp[q] # bp[p]
  BY Zenon, Alone DEF Holding
<1>4. TypeOK'
  BY Zenon, <1>1 DEF BioInv, CacheSound, TypeOK
<1>5. OneBufferPerBlock' /\ RefcntIsUsers'
  BY Zenon DEF BioInv, CacheSound, OneBufferPerBlock, RefcntIsUsers, Users
<1>6. ReadsLatest'
  BY <1>1, <1>2, <1>3 DEF BioInv, CacheSound, ReadsLatest, Holding
<1>7. SleepersAreWoken'
  BY SMTT(40), <1>1 DEF BioInv, CacheSound, SleepersAreWoken, Holding
<1>8. LockInv'
  BY <1>1 DEF BioInv, LockInv, Holding
<1>9. CopyInv'
  BY <1>1 DEF BioInv, CopyInv, Holding, Kept
<1> QED
  BY Zenon, <1>4, <1>5, <1>6, <1>7, <1>8, <1>9 DEF BioInv, CacheSound

(* bwrite() and log_write() of a logged block keep it: the change is in a  *)
(* buffer that is being written, or pinned.                                *)
LEMMA Step_bwrite ==
  ASSUME BioInv, NEW p \in Procs, bwrite(p) \/ log_absorb(p)
  PROVE  BioInv'
<1> DEFINE b == bp[p]
           n == buf[b].blockno
           l == pc'[p]
<1>1. b \in Bufs /\ n \in Blocks /\ pc[p] = "held" /\ buf[b].valid
  BY Zenon, InCall DEF bwrite, log_absorb, BioInv, CopyInv, Holding
<1>2. UNCHANGED <<bp, buf, lru, pinned, panicked>> /\ disk' = [disk EXCEPT ![n] = FALSE]
  BY Zenon, <1>1, ChangedInPlace DEF bwrite, log_absorb, DiskOld
<1>3. l \in {"held", "writing"} /\ pc' = [pc EXCEPT ![p] = l] /\ (n \in pinned \/ l = "writing")
  BY Zenon, <1>1 DEF bwrite, log_absorb, BioInv, CacheSound, TypeOK
<1>4. disk' \in [Blocks -> BOOLEAN]
  BY Zenon, <1>1, <1>2 DEF BioInv, CacheSound, TypeOK
<1> HIDE DEF l, n
<1>5. Kept'
  <2> SUFFICES ASSUME NEW m \in Blocks, ~disk'[m]
               PROVE  \E c \in Bufs :
                        /\ buf[c].blockno = m /\ buf[c].valid
                        /\ m \in pinned \/ \E q \in Procs : bp[q] = c /\ pc'[q] = "writing"
    BY <1>2 DEF Kept, Writer
  <2>1. CASE m = n
    BY Zenon, <1>1, <1>3, <2>1 DEF n, l
  <2>2. CASE m # n
    <3>1. ~disk[m]
      BY Zenon, <1>2, <2>2 DEF BioInv, CacheSound, TypeOK
    <3>2. PICK c \in Bufs : /\ buf[c].blockno = m /\ buf[c].valid
                            /\ m \in pinned \/ \E q \in Procs : bp[q] = c /\ pc[q] = "writing"
      BY Zenon, <3>1 DEF BioInv, CopyInv, Writer
    <3>3. \A q \in Procs : pc[q] = "writing" => pc'[q] = "writing"
      BY Zenon, <1>1, <1>3 DEF BioInv, CacheSound, TypeOK
    <3> QED
      BY Zenon, <3>2, <3>3
  <2> QED
    BY Zenon, <2>1, <2>2
<1> QED
  BY ZenonT(40), <1>1, <1>2, <1>3, <1>4, <1>5, HolderWrites

(* The end of bwrite() keeps it: the disk has the contents of the buffer. *)
LEMMA Step_bwrite_done ==
  ASSUME BioInv, NEW p \in Procs, bwrite_done(p)
  PROVE  BioInv'
<1> DEFINE b == bp[p]
           n == buf[b].blockno
<1>1. b \in Bufs /\ n \in Blocks /\ pc[p] = "writing" /\ buf[b].latest = TRUE
  BY Zenon, InCall DEF bwrite_done, BioInv, CacheSound, TypeOK, CopyInv, Holding, Buffers
<1>2. /\ UNCHANGED <<bp, buf, lru, pinned, panicked>> /\ disk' = [disk EXCEPT ![n] = TRUE]
      /\ pc' = [pc EXCEPT ![p] = "held"]
  BY ZenonT(40), <1>1 DEF bwrite_done
<1>3. disk' \in [Blocks -> BOOLEAN]
  BY Zenon, <1>1, <1>2 DEF BioInv, CacheSound, TypeOK
<1> HIDE DEF n
<1>4. Kept'
  <2> SUFFICES ASSUME NEW m \in Blocks, ~disk'[m]
               PROVE  \E c \in Bufs :
                        /\ buf[c].blockno = m /\ buf[c].valid
                        /\ m \in pinned \/ \E q \in Procs : bp[q] = c /\ pc'[q] = "writing"
    BY <1>2 DEF Kept, Writer
  <2>1. ~disk[m] /\ m # n
    BY Zenon, <1>1, <1>2 DEF BioInv, CacheSound, TypeOK
  <2>2. PICK c \in Bufs : /\ buf[c].blockno = m /\ buf[c].valid
                          /\ m \in pinned \/ \E q \in Procs : bp[q] = c /\ pc[q] = "writing"
    BY Zenon, <2>1 DEF BioInv, CopyInv, Writer
  <2>3. \A q \in Procs : pc[q] = "writing" /\ bp[q] = c => pc'[q] = "writing"
    BY Zenon, <1>2, <2>1, <2>2 DEF BioInv, CacheSound, TypeOK, n
  <2> QED
    BY Zenon, <2>2, <2>3
<1> QED
  BY ZenonT(40), <1>1, <1>2, <1>3, <1>4, HolderWrites

(* log_write() of a new block keeps it: the pin is counted in refcnt. *)
LEMMA Step_bpin ==
  ASSUME BioInv, NEW p \in Procs, bpin(p)
  PROVE  BioInv'
<1> DEFINE b == bp[p]
           n == buf[b].blockno
<1>1. b \in Bufs /\ n \in Blocks /\ pc[p] = "held" /\ buf[b].valid /\ n \notin pinned
  BY Zenon, InCall DEF bpin, BioInv, CopyInv, Holding
<1>2. UNCHANGED <<pc, bp, lru, panicked>> /\ disk' \in [Blocks -> BOOLEAN] /\ pinned' = pinned \cup {n}
      /\ \A m \in Blocks : m # n => disk'[m] = disk[m]
  BY Zenon, <1>1 DEF bpin, DiskOld, BioInv, CacheSound, TypeOK
<1>3. /\ buf' \in [Bufs -> Buffers]
      /\ \A c \in Bufs :
           /\ buf'[c].blockno = buf[c].blockno /\ buf'[c].lock = buf[c].lock
           /\ buf'[c].valid = buf[c].valid /\ buf'[c].latest = buf[c].latest
           /\ buf'[c].refcnt = buf[c].refcnt + IF c = b THEN 1 ELSE 0
  <2>1. buf \in [Bufs -> Buffers] /\ \A c \in Bufs : buf[c].refcnt \in Nat
    BY Zenon DEF BioInv, CacheSound, TypeOK, Buffers
  <2>2. buf[b].refcnt + 1 \in Nat
    BY SMTT(40), <1>1, <2>1
  <2>3. buf' = [buf EXCEPT ![b].refcnt = buf[b].refcnt + 1]
    BY ZenonT(40), <1>1, <2>1, ChangedInPlace DEF bpin
  <2> QED
    BY <1>1, <2>1, <2>2, <2>3, RefSet DEF SameBut
<1> HIDE DEF b, n
<1>4. \A c \in Bufs : c # b => buf[c].blockno # n
  BY Zenon, <1>1, Markers DEF BioInv, CacheSound, OneBufferPerBlock, n
<1>5. TypeOK'
  BY Zenon, <1>1, <1>2, <1>3 DEF BioInv, CacheSound, TypeOK
<1>6. OneBufferPerBlock'
  BY <1>3 DEF BioInv, CacheSound, OneBufferPerBlock
<1>7. ReadsLatest'
  BY Zenon, <1>2, <1>3, InCall DEF BioInv, CacheSound, ReadsLatest, Holding
<1>8. RefcntIsUsers'
  <2>1. \A c \in Bufs : Cardinality(Users(c)) \in Nat /\ Users(c)' = Users(c)
    BY ZenonT(40), <1>2, UserCount DEF Users
  <2> QED
    BY <1>1, <1>2, <1>3, <1>4, <2>1 DEF BioInv, CacheSound, RefcntIsUsers, n
<1>9. SleepersAreWoken'
  BY <1>2, <1>3, InCall DEF BioInv, CacheSound, SleepersAreWoken, Holding
<1>10. LockInv'
  BY SMTT(40), <1>2, <1>3, InCall DEF BioInv, LockInv, Holding
<1>11. CopyInv'
  <2>1. Kept'
    BY SMTT(40), <1>1, <1>2, <1>3 DEF BioInv, CopyInv, Kept, Writer, n
  <2> QED
    BY SMTT(40), <1>1, <1>2, <1>3, <2>1, InCall DEF BioInv, CopyInv, Kept, Holding, n
<1> QED
  BY Zenon, <1>5, <1>6, <1>7, <1>8, <1>9, <1>10, <1>11 DEF BioInv, CacheSound

(* bunpin() keeps it: the disk has the block, which need not stay cached. *)
LEMMA Step_bunpin ==
  ASSUME BioInv, NEW p \in Procs, bunpin(p)
  PROVE  BioInv'
<1> DEFINE b == bp[p]
           n == buf[b].blockno
<1>1. b \in Bufs /\ n \in Blocks /\ pc[p] = "held" /\ buf[b].valid /\ n \in pinned /\ disk[n]
  BY Zenon, InCall DEF bunpin, BioInv, CopyInv, Holding
<1>2. UNCHANGED <<pc, bp, lru, panicked>> /\ disk' \in [Blocks -> BOOLEAN] /\ pinned' = pinned \ {n}
      /\ \A m \in Blocks : m # n => disk'[m] = disk[m]
  BY Zenon, <1>1 DEF bunpin, DiskOld, BioInv, CacheSound, TypeOK
<1>3. /\ buf' \in [Bufs -> Buffers]
      /\ \A c \in Bufs :
           /\ buf'[c].blockno = buf[c].blockno /\ buf'[c].lock = buf[c].lock
           /\ buf'[c].valid = buf[c].valid /\ buf'[c].latest = buf[c].latest
           /\ buf'[c].refcnt = buf[c].refcnt - IF c = b THEN 1 ELSE 0
  <2>1. buf \in [Bufs -> Buffers] /\ \A c \in Bufs : buf[c].refcnt \in Nat
    BY Zenon DEF BioInv, CacheSound, TypeOK, Buffers
  <2>2. buf[b].refcnt - 1 \in Nat
    <3>1. Cardinality(Users(b)) \in Nat
      BY Zenon, UserCount
    <3> QED
      BY <1>1, <2>1, <3>1 DEF BioInv, CacheSound, RefcntIsUsers
  <2>3. buf' = [buf EXCEPT ![b].refcnt = buf[b].refcnt - 1]
    BY Zenon, <1>1, <2>1 DEF bunpin
  <2> QED
    BY <1>1, <2>1, <2>2, <2>3, RefSet DEF SameBut
<1> HIDE DEF b, n
<1>4. \A c \in Bufs : c # b => buf[c].blockno # n
  BY Zenon, <1>1, Markers DEF BioInv, CacheSound, OneBufferPerBlock, n
<1>5. TypeOK'
  BY Zenon, <1>1, <1>2, <1>3 DEF BioInv, CacheSound, TypeOK
<1>6. OneBufferPerBlock'
  BY SMTT(40), <1>3 DEF BioInv, CacheSound, OneBufferPerBlock
<1>7. ReadsLatest'
  BY ZenonT(40), <1>2, <1>3, InCall DEF BioInv, CacheSound, ReadsLatest, Holding
<1>8. RefcntIsUsers'
  <2>1. \A c \in Bufs : Cardinality(Users(c)) \in Nat /\ Users(c)' = Users(c)
    BY ZenonT(40), <1>2, UserCount DEF Users
  <2> QED
    BY SMTT(40), <1>1, <1>2, <1>3, <1>4, <2>1 DEF BioInv, CacheSound, RefcntIsUsers, n
<1>9. SleepersAreWoken'
  BY <1>2, <1>3, InCall DEF BioInv, CacheSound, SleepersAreWoken, Holding
<1>10. LockInv'
  BY <1>2, <1>3, InCall DEF BioInv, LockInv, Holding
<1>11. CopyInv'
  <2>1. Kept'
    <3>1. disk' = disk
      BY Zenon DEF bunpin
    <3> QED
      BY <1>1, <1>2, <1>3, <3>1 DEF BioInv, CopyInv, Kept, Writer, n
  <2>2. \A q \in Procs :
          /\ pc'[q] # "idle" => buf'[bp'[q]].blockno \in Blocks
          /\ pc'[q] \in Holding => (buf'[bp'[q]].valid <=> pc'[q] # "reading")
    BY Zenon, <1>2, <1>3, InCall DEF BioInv, CopyInv, Holding
  <2>3. /\ \A c \in Bufs : buf'[c].valid => buf'[c].latest
        /\ \A m \in pinned' : \E c \in Bufs : buf'[c].blockno = m
    BY SMTT(40), <1>2, <1>3 DEF BioInv, CopyInv
  <2> QED
    BY Zenon, <2>1, <2>2, <2>3 DEF CopyInv, Kept
<1> QED
  BY Zenon, <1>5, <1>6, <1>7, <1>8, <1>9, <1>10, <1>11 DEF BioInv, CacheSound

(* brelse() keeps it when it gives up the lock: whoever waits is awake. *)
LEMMA Step_brelse ==
  ASSUME BioInv, NEW p \in Procs, brelse(p)
  PROVE  BioInv'
<1> DEFINE b == bp[p]
<1>1. b \in Bufs /\ b # NoBuf /\ pc[p] = "held"
  BY Zenon, InCall DEF brelse
<1>2. /\ buf' \in [Bufs -> Buffers]
      /\ \A c \in Bufs :
           /\ buf'[c].blockno = buf[c].blockno /\ buf'[c].refcnt = buf[c].refcnt
           /\ buf'[c].valid = buf[c].valid /\ buf'[c].latest = buf[c].latest
           /\ buf'[c].lock = IF c = b THEN NoProc ELSE buf[c].lock
  <2>1. buf \in [Bufs -> Buffers] /\ buf' = [buf EXCEPT ![b].lock = NoProc]
    BY Zenon DEF BioInv, CacheSound, TypeOK, brelse, releasesleep
  <2> QED
    BY SMTT(40), <1>1, <2>1, LockSet DEF SameBut
<1>3. /\ pc' \in [Procs -> Places] /\ pc'[p] = "brelse"
      /\ \A q \in Procs : q # p =>
           pc'[q] = IF pc[q] = "lock_sleep" /\ bp[q] = b THEN "acquiresleep" ELSE pc[q]
  BY Zenon DEF BioInv, CacheSound, TypeOK, brelse, releasesleep, Places
<1>4. UNCHANGED <<bp, disk, lru, pinned, panicked>>
  BY Zenon DEF brelse
<1>5. \A q \in Procs : q # p /\ pc[q] \in Holding => bp[q] # b
  BY Zenon, <1>1, Alone DEF Holding
<1> HIDE DEF b
<1>6. \A q \in Procs : q # p /\ pc[q] \in Holding => pc'[q] = pc[q]
  BY Zenon, <1>3 DEF Holding
<1>7. \A q \in Procs : pc'[q] \in Holding => q # p /\ pc'[q] = pc[q]
  BY Zenon, <1>3 DEF Holding
<1>8. TypeOK'
  BY <1>1, <1>2, <1>3, <1>4 DEF BioInv, CacheSound, TypeOK, b
<1>9. OneBufferPerBlock'
  BY SMTT(40), <1>2 DEF BioInv, CacheSound, OneBufferPerBlock
<1>10. ReadsLatest'
  BY <1>2, <1>4, <1>7, InCall DEF BioInv, CacheSound, ReadsLatest, Holding
<1>11. RefcntIsUsers'
  BY ZenonT(40), <1>2, <1>4 DEF BioInv, CacheSound, RefcntIsUsers, Users
<1>12. SleepersAreWoken'
  <2> SUFFICES ASSUME NEW q \in Procs, pc'[q] = "lock_sleep"
               PROVE  \E r \in Procs \ {q} :
                        bp[r] = bp[q] /\ pc'[r] \in Holding /\ buf'[bp[q]].lock = r
    BY Zenon, <1>4 DEF SleepersAreWoken
  <2>1. pc[q] = "lock_sleep" /\ bp[q] # b /\ q # p
    BY Zenon, <1>3
  <2>2. PICK r \in Procs \ {q} : bp[r] = bp[q] /\ pc[r] \in Holding /\ buf[bp[q]].lock = r
    BY Zenon, <2>1 DEF BioInv, CacheSound, SleepersAreWoken
  <2>3. r # p /\ bp[q] \in Bufs
    BY Zenon, <2>1, <2>2, InCall DEF b
  <2> QED
    BY Zenon, <1>2, <1>6, <2>1, <2>2, <2>3
<1>13. LockInv'
  <2>1. \A q \in Procs : pc'[q] \in Holding => buf'[bp[q]].lock = q
    BY ZenonT(40), <1>2, <1>5, <1>7, InCall DEF BioInv, LockInv, Holding
  <2>2. \A c \in Bufs : buf'[c].lock # NoProc =>
          pc'[buf'[c].lock] \in Holding /\ bp[buf'[c].lock] = c
    BY SMTT(40), <1>2, <1>6, Holder DEF b
  <2> QED
    BY Zenon, <1>4, <2>1, <2>2 DEF LockInv
<1>14. CopyInv'
  <2>1. \A q \in Procs : (pc'[q] = "writing" <=> pc[q] = "writing") /\ (pc'[q] # "idle" => pc[q] # "idle")
    BY Zenon, <1>1, <1>3
  <2>2. Kept'
    BY SMTT(40), <1>2, <1>4, <2>1 DEF BioInv, CopyInv, Kept, Writer
  <2>3. \A q \in Procs : /\ pc'[q] # "idle" => buf'[bp[q]].blockno \in Blocks
                         /\ pc'[q] \in Holding => (buf'[bp[q]].valid <=> pc'[q] # "reading")
    BY SMTT(40), <1>2, <1>7, <2>1, InCall DEF BioInv, CopyInv, Holding
  <2>4. \A c \in Bufs : buf'[c].valid => buf'[c].latest
    BY Zenon, <1>2 DEF BioInv, CopyInv
  <2>5. \A n \in pinned : \E c \in Bufs : buf'[c].blockno = n
    BY <1>2 DEF BioInv, CopyInv
  <2>6. bp' = bp /\ pinned' = pinned
    BY Zenon, <1>4
  <2> QED
    BY Zenon, <2>2, <2>3, <2>4, <2>5, <2>6 DEF CopyInv, Kept
<1> QED
  BY Zenon, <1>8, <1>9, <1>10, <1>11, <1>12, <1>13, <1>14 DEF BioInv, CacheSound

(* The rest of brelse() keeps it: a user less, and the same buffers in the *)
(* list.                                                                   *)
LEMMA Step_brelse_unref ==
  ASSUME BioInv, NEW p \in Procs, brelse_unref(p)
  PROVE  BioInv'
<1> DEFINE b == bp[p]
<1>1. b \in Bufs /\ b # NoBuf /\ pc[p] = "brelse"
  BY Zenon, InCall DEF brelse_unref
<1>2. \A c \in Bufs : Cardinality(Users(c)) \in Nat
  BY Zenon, UserCount
<1>3. /\ buf' \in [Bufs -> Buffers]
      /\ \A c \in Bufs :
           /\ buf'[c].blockno = buf[c].blockno /\ buf'[c].lock = buf[c].lock
           /\ buf'[c].valid = buf[c].valid /\ buf'[c].latest = buf[c].latest
           /\ buf'[c].refcnt = buf[c].refcnt - IF c = b THEN 1 ELSE 0
  <2>1. buf \in [Bufs -> Buffers] /\ \A c \in Bufs : buf[c].refcnt \in Nat
    BY Zenon DEF BioInv, CacheSound, TypeOK, Buffers
  <2>2. buf[b].refcnt - 1 \in Nat
    <3>1. Cardinality(Users(b)) # 0
      BY Zenon, UserCount
    <3> QED
      BY <1>1, <1>2, <2>1, <3>1 DEF BioInv, CacheSound, RefcntIsUsers
  <2>3. buf' = [buf EXCEPT ![b].refcnt = buf[b].refcnt - 1]
    BY Zenon, <1>1, <2>1 DEF brelse_unref, Unref
  <2> QED
    BY <1>1, <2>1, <2>2, <2>3, RefSet DEF SameBut
<1>4. bp' = [bp EXCEPT ![p] = NoBuf] /\ UNCHANGED <<disk, pinned, panicked>>
  BY Zenon DEF brelse_unref
<1>5. /\ pc' \in [Procs -> Places] /\ pc'[p] = "idle"
      /\ \A q \in Procs : q # p => pc'[q] = pc[q]
  BY Zenon DEF BioInv, CacheSound, TypeOK, brelse_unref, Places
<1>6. lru' \in Surjection(1..Cardinality(Bufs), Bufs)
  <2>1. lru' = lru \/ lru' = ToFront(b)
    BY Zenon DEF brelse_unref
  <2> QED
    BY Zenon, <1>1, <2>1, StaysListed DEF BioInv, CacheSound, TypeOK
<1> HIDE DEF b
<1>7. /\ bp' \in [Procs -> Bufs \cup {NoBuf}] /\ bp'[p] = NoBuf
      /\ \A q \in Procs : q # p => bp'[q] = bp[q]
  BY Zenon, <1>4 DEF BioInv, CacheSound, TypeOK
<1>8. TypeOK'
  BY ZenonT(40), <1>3, <1>4, <1>5, <1>6, <1>7 DEF BioInv, CacheSound, TypeOK
<1>9. OneBufferPerBlock'
  BY <1>3 DEF BioInv, CacheSound, OneBufferPerBlock
<1>10. ReadsLatest'
  BY SMTT(40), <1>1, <1>3, <1>5, <1>7, InCall DEF BioInv, CacheSound, ReadsLatest, Holding
<1>11. RefcntIsUsers'
  <2>1. \A c \in Bufs : Cardinality(Users(c)') = Cardinality(Users(c)) - IF c = b THEN 1 ELSE 0
    BY ZenonT(40), <1>1, <1>4, UserRemoved DEF BioInv, CacheSound, TypeOK, b
  <2> QED
    BY <1>2, <1>3, <1>4, <2>1 DEF BioInv, CacheSound, RefcntIsUsers
<1>12. SleepersAreWoken'
  BY <1>1, <1>3, <1>5, <1>7, InCall DEF BioInv, CacheSound, SleepersAreWoken, Holding
<1>13. LockInv'
  <2>1. \A q \in Procs : pc'[q] \in Holding => buf'[bp'[q]].lock = q
    BY SMTT(40), <1>3, <1>5, <1>7, InCall DEF BioInv, LockInv, Holding
  <2>2. \A c \in Bufs : buf'[c].lock # NoProc =>
          pc'[buf'[c].lock] \in Holding /\ bp'[buf'[c].lock] = c
    BY SMTT(40), <1>1, <1>3, <1>5, <1>7, Holder DEF Holding
  <2> QED
    BY Zenon, <2>1, <2>2 DEF LockInv
<1>14. CopyInv'
  <2>1. Kept'
    BY SMTT(40), <1>1, <1>3, <1>4, <1>5, <1>7 DEF BioInv, CopyInv, Kept, Writer
  <2>2. \A q \in Procs :
          /\ pc'[q] # "idle" => buf'[bp'[q]].blockno \in Blocks
          /\ pc'[q] \in Holding => (buf'[bp'[q]].valid <=> pc'[q] # "reading")
    BY SMTT(40), <1>3, <1>5, <1>7, InCall DEF BioInv, CopyInv, Holding
  <2>3. /\ \A c \in Bufs : buf'[c].valid => buf'[c].latest
        /\ \A n \in pinned' : \E c \in Bufs : buf'[c].blockno = n
    BY SMTT(40), <1>3, <1>4 DEF BioInv, CopyInv
  <2> QED
    BY Zenon, <2>1, <2>2, <2>3 DEF CopyInv, Kept
<1> QED
  BY Zenon, <1>8, <1>9, <1>10, <1>11, <1>12, <1>13, <1>14 DEF BioInv, CacheSound

(* A step that changes nothing but the panic keeps it. *)
LEMMA Step_still ==
  ASSUME BioInv, UNCHANGED <<pc, bp, buf, disk, lru, pinned>>, panicked' \in BOOLEAN
  PROVE  BioInv'
<1>1. TypeOK'
  BY Zenon DEF BioInv, CacheSound, TypeOK
<1>2. OneBufferPerBlock' /\ ReadsLatest' /\ RefcntIsUsers' /\ SleepersAreWoken'
  BY SMTT(40) DEF BioInv, CacheSound, OneBufferPerBlock, ReadsLatest, RefcntIsUsers, SleepersAreWoken, Users
<1>3. LockInv' /\ CopyInv'
  BY DEF BioInv, LockInv, CopyInv, Writer
<1> QED
  BY Zenon, <1>1, <1>2, <1>3 DEF BioInv, CacheSound

(* Every step of bio.c and its clients keeps the invariant. *)
LEMMA StepInv == BioInv /\ [Next]_vars => BioInv'
<1> SUFFICES ASSUME BioInv, [Next]_vars PROVE BioInv'
  BY Zenon
<1>1. ASSUME NEW p \in Procs, NEW n \in Blocks, bget_hit(p, n) \/ bget_recycle(p, n) PROVE BioInv'
  BY Zenon, <1>1, Step_bget_hit, Step_bget_recycle
<1>2. ASSUME NEW p \in Procs, NEW n \in Blocks, bget_panic(p, n) PROVE BioInv'
  BY Zenon, <1>2, Step_still DEF bget_panic
<1>3. ASSUME NEW p \in Procs, CallStep(p) PROVE BioInv'
  BY Zenon, <1>3, Step_acquiresleep, Step_acquiresleep_sleep, Step_bread, Step_bwrite_done,
     Step_brelse, Step_brelse_unref DEF CallStep
<1>4. ASSUME NEW p \in Procs, bwrite(p) \/ bpin(p) \/ log_absorb(p) \/ bunpin(p) PROVE BioInv'
  BY Zenon, <1>4, Step_bwrite, Step_bpin, Step_bunpin
<1>5. CASE halted \/ UNCHANGED vars
  BY Zenon, <1>5, Step_still DEF halted, vars, BioInv, CacheSound, TypeOK
<1> QED
  BY Zenon, <1>1, <1>2, <1>3, <1>4, <1>5 DEF Next

(* The invariant holds in every reachable state of the cache. *)
THEOREM BioInvariance == Spec => []BioInv
  BY InitInv, StepInv, PTL DEF Spec

(* The cache is sound in every reachable state, whatever its size and      *)
(* however bread(), bwrite(), brelse() and the log's pins interleave: a    *)
(* block is in one buffer, its holder sees the latest contents, refcnt     *)
(* counts the users, and every sleeper for a buffer has a holder to wake   *)
(* it.                                                                     *)
THEOREM CacheIsSound == Spec => []CacheSound
<1>1. BioInv => CacheSound
  BY Zenon DEF BioInv
<1> QED
  BY <1>1, BioInvariance, PTL
=============================================================================
