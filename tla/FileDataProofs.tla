--------------------------- MODULE FileDataProofs ---------------------------
(***************************************************************************)
(* Proofs about the contents of files: balloc(), bmap() and itrunc() keep  *)
(* every block with one owner, and writei() under filewrite() puts bytes   *)
(* where they belong and nowhere else.                                     *)
(*                                                                         *)
(* The argument goes through the block map, the function from inodes and   *)
(* their entries to block numbers, because a byte of a file depends on blk *)
(* only through it.  A block is entered where there was none (Enter), or   *)
(* nothing is (EnterNothing); bmap() is one or two such look-ups           *)
(* (LookUpDirect, LookUpIndirect, Bmap).  Both ways a block is written,    *)
(* and a full disk, are then one kind of step (WriteStep), which preserves *)
(* the invariant (WriteStepInv) and changes no byte outside of the chunk   *)
(* (WriteStepLands).                                                       *)
(***************************************************************************)
EXTENDS FileData, TLAPS

-----------------------------------------------------------------------------
(* Numbers. *)

(* Block and offset in the block of a byte, and back. *)
LEMMA Split ==
  ASSUME NEW k \in Nat
  PROVE  /\ k \div BSIZE \in Nat /\ k % BSIZE \in 0..BSIZE-1
         /\ k = BSIZE * (k \div BSIZE) + (k % BSIZE)
BY DataConstants

(* The byte at offset r of block bn has that block and that offset. *)
LEMMA Join ==
  ASSUME NEW k \in Nat, NEW bn \in Nat, NEW r \in 0..BSIZE-1, k = BSIZE * bn + r
  PROVE  k \div BSIZE = bn /\ k % BSIZE = r
BY DataConstants

(* The blocks of a file that is not larger than it may be. *)
LEMMA BlockInFile ==
  ASSUME NEW k \in Nat, k < MAXFILE * BSIZE
  PROVE  k \div BSIZE \in 0..MAXFILE-1
<1> DEFINE bn == k \div BSIZE
<1> HIDE DEF bn
<1>1. /\ bn \in Nat /\ k >= BSIZE * bn /\ MAXFILE \in Nat /\ BSIZE \in Nat \ {0}
  BY Split, DataConstants DEF MAXFILE, NINDIRECT, bn
<1>2. bn < MAXFILE
  <2> SUFFICES ASSUME bn >= MAXFILE PROVE FALSE
    BY <1>1
  <2>1. BSIZE * bn >= BSIZE * MAXFILE
    BY <1>1
  <2>2. BSIZE * MAXFILE = MAXFILE * BSIZE
    BY <1>1
  <2> QED
    BY <1>1, <2>1, <2>2
<1> QED
  BY <1>1, <1>2 DEF bn

(* The bytes of one block that are between two offsets of the file are the *)
(* bytes between the offsets in the block.                                 *)
LEMMA SameBlock ==
  ASSUME NEW o \in Nat, NEW m \in Nat, m <= BSIZE - (o % BSIZE), NEW k \in Nat
  PROVE  k \in o..o+m-1 <=> k \div BSIZE = o \div BSIZE /\ k % BSIZE \in Bytes(o, m)
<1> DEFINE q == o \div BSIZE
           r == o % BSIZE
<1> HIDE DEF q, r
<1>1. /\ BSIZE \in Nat \ {0} /\ q \in Nat /\ r \in 0..BSIZE-1 /\ o = BSIZE * q + r
  BY Zenon, Split, DataConstants DEF q, r
<1>2. /\ k \div BSIZE \in Nat /\ k % BSIZE \in 0..BSIZE-1 /\ k = BSIZE * (k \div BSIZE) + (k % BSIZE)
  BY Zenon, Split
<1>3. ASSUME k \in o..o+m-1 PROVE k \div BSIZE = q /\ k % BSIZE = k - o + r
  <2>1. o \in Nat /\ m <= BSIZE - r /\ k \in o..o+m-1
    BY Zenon, <1>3 DEF r
  <2>2. k - o + r \in 0..BSIZE-1 /\ k = BSIZE * q + (k - o + r)
    BY <1>1, <2>1
  <2> QED
    BY <1>1, <2>2, Join
<1>4. k \div BSIZE = q => k - o = (k % BSIZE) - r
  BY <1>1, <1>2
<1> QED
  BY <1>1, <1>2, <1>3, <1>4 DEF Bytes

-----------------------------------------------------------------------------
(***************************************************************************)
(* The block map: all the entries of all the inodes.  The invariant is     *)
(* about this map, and bmap() changes it at one entry at a time.           *)
(***************************************************************************)
Rows == [0..BSIZE-1 -> Procs \cup Int]
InodeTable == [Inodes -> [addrs : [0..NDIRECT -> 0..NBLOCKS], size : 0..MAXFILE*BSIZE]]
Maps == [Inodes -> [Entries -> 0..NBLOCKS]]

(* the map with b at an entry, and the disk with block b zeroed, or with b *)
(* in an indirect block                                                    *)
SetEntry(M, f, x, b) == [M EXCEPT ![f][x] = b]
Zeroed(k, b) == [k EXCEPT ![b] = Zeroes]
Linked(k, top, j, b) == [k EXCEPT ![top][j] = b]

(* The entries of an inode: bmap() looks a block of the file up in a       *)
(* direct entry or in one of the indirect block, never in the entry that   *)
(* names the indirect block itself.                                        *)
LEMMA EntrySet ==
  /\ Entries = 0..NDIRECT+BSIZE /\ NDIRECT \in Entries /\ MAXFILE = NDIRECT + BSIZE
  /\ NDIRECT \in Nat /\ BSIZE \in Nat \ {0} /\ NBLOCKS \in Nat
  /\ \A bn \in 0..MAXFILE-1 : EntryOf(bn) \in Entries /\ EntryOf(bn) # NDIRECT
  /\ \A x \in Entries : x <= NDIRECT => x \in 0..NDIRECT
  /\ \A x \in Entries : ~(x <= NDIRECT) => x - NDIRECT - 1 \in 0..BSIZE-1
  /\ \A j \in 0..BSIZE-1 : NDIRECT + 1 + j \in Entries
BY DataConstants DEF Entries, NINDIRECT, MAXFILE, EntryOf

(* The entries are numbers of blocks or 0. *)
LEMMA MapType ==
  ASSUME NEW i, NEW k, NEW u \in SUBSET DataBlocks, Owns(BlockMap(i, k), u)
  PROVE  BlockMap(i, k) \in Maps
<1> DEFINE M == BlockMap(i, k)
<1> HIDE DEF M
<1>1. \A f \in Inodes, x \in Entries : M[f][x] \in 0..NBLOCKS
  <2>1. \A b \in u \cup {0} : b \in 0..NBLOCKS
    BY EntrySet DEF DataBlocks
  <2> QED
    BY <2>1 DEF Owns, M
<1> QED
  BY <1>1 DEF BlockMap, Maps, M

(* The entry of the indirect block. *)
LEMMA TopEntry ==
  ASSUME NEW i, NEW k, NEW g \in Inodes
  PROVE  BlockMap(i, k)[g][NDIRECT] = i[g].addrs[NDIRECT]
<1>1. NDIRECT \in Entries /\ NDIRECT <= NDIRECT
  BY EntrySet
<1>2. BlockMap(i, k)[g][NDIRECT] = Entry(i[g], k, NDIRECT)
  BY <1>1 DEF BlockMap
<1> QED
  BY <1>1, <1>2 DEF Entry

(* A free block is entered where there was none. *)
LEMMA Enter ==
  ASSUME NEW M \in Maps, NEW u \in SUBSET DataBlocks, Owns(M, u),
         NEW b \in DataBlocks \ u, NEW f \in Inodes, NEW x \in Entries, M[f][x] = 0
  PROVE  Owns(SetEntry(M, f, x, b), u \cup {b})
<1> DEFINE N == SetEntry(M, f, x, b)
<1> HIDE DEF N
<1>1. \A g \in Inodes, y \in Entries : N[g][y] = IF g = f /\ y = x THEN b ELSE M[g][y]
  BY DEF Maps, SetEntry, N
<1>2. b # 0 /\ b \notin u /\ 0 \notin u
  BY DEF DataBlocks
<1>3. \A g \in Inodes, y \in Entries : M[g][y] # b
  BY <1>2 DEF Owns
<1>4. \A c \in u \cup {b} : \E g \in Inodes, y \in Entries : N[g][y] = c
  <2> SUFFICES ASSUME NEW c \in u \cup {b} PROVE \E g \in Inodes, y \in Entries : N[g][y] = c
    OBVIOUS
  <2>1. CASE c = b
    BY <1>1, <2>1
  <2>2. CASE c # b
    <3>1. PICK g \in Inodes, y \in Entries : M[g][y] = c
      BY <2>2 DEF Owns
    <3>2. ~(g = f /\ y = x)
      BY <3>1, <2>2, <1>2
    <3> QED
      BY Zenon, <1>1, <3>1, <3>2
  <2> QED
    BY <2>1, <2>2
<1>5. \A g \in Inodes, y \in Entries : N[g][y] \in u \cup {b} \cup {0}
  BY <1>1 DEF Owns
<1>6. \A g, h \in Inodes, y, z \in Entries : N[g][y] # 0 /\ N[g][y] = N[h][z] => g = h /\ y = z
  BY <1>1, <1>3 DEF Owns
<1> QED
  BY <1>4, <1>5, <1>6 DEF Owns, N

(* balloc() for an entry of the inode itself. *)
InDirect(i, k, u, b, f, x, j) ==
  /\ i \in InodeTable /\ k \in [DataBlocks -> Rows] /\ u \in SUBSET DataBlocks
  /\ Owns(BlockMap(i, k), u) /\ b \in DataBlocks \ u
  /\ f \in Inodes /\ x \in 0..NDIRECT /\ i[f].addrs[x] = 0
  /\ j \in InodeTable /\ j[f].addrs = [i[f].addrs EXCEPT ![x] = b]
  /\ \A g \in Inodes : g # f => j[g].addrs = i[g].addrs

(* balloc()'s block becomes a direct block, or the indirect block: being   *)
(* zeroed it adds no entry of its own.                                     *)
LEMMA EnterDirect ==
  ASSUME NEW i, NEW k, NEW u, NEW b, NEW f, NEW x, NEW j, InDirect(i, k, u, b, f, x, j)
  PROVE  BlockMap(j, Zeroed(k, b)) = SetEntry(BlockMap(i, k), f, x, b)
<1> USE DEF InDirect
<1> DEFINE M == BlockMap(i, k)
           l == Zeroed(k, b)
<1> HIDE DEF M, l
<1>1. \A g \in Inodes, y \in Entries : M[g][y] = Entry(i[g], k, y)
  BY DEF BlockMap, M
<1>2. /\ M \in Maps /\ x \in Entries /\ b # 0 /\ \A g \in Inodes : b # i[g].addrs[NDIRECT]
  <2>1. M \in Maps
    BY MapType DEF M
  <2>2. x \in Entries /\ b # 0
    BY EntrySet DEF DataBlocks
  <2>3. \A g \in Inodes : M[g][NDIRECT] = i[g].addrs[NDIRECT]
    BY TopEntry DEF M
  <2> QED
    BY <2>1, <2>2, <2>3, EntrySet DEF Owns, M
<1>3. \A r \in 0..BSIZE-1 : l[b][r] = 0
  BY DEF Zeroes, Zeroed, l
<1>4. \A c \in DataBlocks : c # b => l[c] = k[c]
  BY DEF Zeroed, l
<1>5. \A y \in 0..NDIRECT : j[f].addrs[y] = IF y = x THEN b ELSE i[f].addrs[y]
  BY Zenon DEF InodeTable
<1>6. ASSUME NEW g \in Inodes, NEW y \in Entries
      PROVE  Entry(j[g], l, y) = IF g = f /\ y = x THEN b ELSE M[g][y]
  <2>1. CASE y <= NDIRECT
    <3>1. y \in 0..NDIRECT
      BY <2>1, EntrySet
    <3>2. Entry(j[g], l, y) = j[g].addrs[y] /\ Entry(i[g], k, y) = i[g].addrs[y]
      BY <2>1 DEF Entry
    <3>3. j[g].addrs[y] = IF g = f /\ y = x THEN b ELSE i[g].addrs[y]
      BY Zenon, <1>5, <3>1
    <3> QED
      BY <1>1, <3>2, <3>3
  <2>2. CASE ~(y <= NDIRECT)
    <3>1. y # x /\ y - NDIRECT - 1 \in 0..BSIZE-1 /\ NDIRECT \in 0..NDIRECT
      BY <2>2, EntrySet
    <3>2. CASE g = f /\ x = NDIRECT
      <4>1. j[g].addrs[NDIRECT] = b /\ i[g].addrs[NDIRECT] = 0
        BY Zenon, <1>5, <3>1, <3>2
      <4>2. Entry(j[g], l, y) = 0
        BY Zenon, <1>2, <1>3, <2>2, <3>1, <4>1 DEF Entry
      <4>3. M[g][y] = 0
        BY Zenon, <1>1, <2>2, <4>1 DEF Entry
      <4> QED
        BY <3>1, <4>2, <4>3
    <3>3. CASE ~(g = f /\ x = NDIRECT)
      <4>1. j[g].addrs[NDIRECT] = i[g].addrs[NDIRECT]
        BY Zenon, <1>5, <3>1, <3>3
      <4>2. i[g].addrs[NDIRECT] # 0 => i[g].addrs[NDIRECT] \in DataBlocks
        BY SMTT(40), <3>1 DEF InodeTable, DataBlocks
      <4>3. i[g].addrs[NDIRECT] # 0 => l[i[g].addrs[NDIRECT]] = k[i[g].addrs[NDIRECT]]
        BY Zenon, <1>2, <1>4, <4>2
      <4> QED
        BY <1>1, <2>2, <3>1, <4>1, <4>3 DEF Entry
    <3> QED
      BY Zenon, <3>2, <3>3
  <2> QED
    BY <2>1, <2>2
<1>7. SetEntry(M, f, x, b) = [g \in Inodes |-> [y \in Entries |-> IF g = f /\ y = x THEN b ELSE M[g][y]]]
  BY ZenonT(40), <1>2 DEF Maps, SetEntry
<1>8. BlockMap(j, l) = [g \in Inodes |-> [y \in Entries |-> IF g = f /\ y = x THEN b ELSE M[g][y]]]
  BY <1>6 DEF BlockMap
<1> QED
  BY <1>7, <1>8 DEF l, M

(* balloc() for an entry of the indirect block. *)
InIndirect(i, k, u, b, f, top, j) ==
  /\ i \in InodeTable /\ k \in [DataBlocks -> Rows] /\ u \in SUBSET DataBlocks
  /\ Owns(BlockMap(i, k), u) /\ b \in DataBlocks \ u
  /\ f \in Inodes /\ top \in DataBlocks /\ i[f].addrs[NDIRECT] = top
  /\ j \in 0..BSIZE-1 /\ k[top][j] = 0

(* balloc()'s block is entered in the indirect block. *)
LEMMA EnterIndirect ==
  ASSUME NEW i, NEW k, NEW u, NEW b, NEW f, NEW top, NEW j, InIndirect(i, k, u, b, f, top, j)
  PROVE  BlockMap(i, Linked(Zeroed(k, b), top, j, b)) = SetEntry(BlockMap(i, k), f, NDIRECT + 1 + j, b)
<1> USE DEF InIndirect
<1> DEFINE M == BlockMap(i, k)
           x == NDIRECT + 1 + j
           l == Linked(Zeroed(k, b), top, j, b)
<1> HIDE DEF M, x, l
<1>1. \A g \in Inodes, y \in Entries : M[g][y] = Entry(i[g], k, y)
  BY DEF BlockMap, M
<1>2. \A g \in Inodes : M[g][NDIRECT] = i[g].addrs[NDIRECT]
  BY TopEntry DEF M
<1>3. /\ M \in Maps /\ x \in Entries /\ top # 0
      /\ \A g \in Inodes : b # i[g].addrs[NDIRECT] /\ (g # f => i[g].addrs[NDIRECT] # top)
  <2>1. M \in Maps
    BY MapType DEF M
  <2>2. x \in Entries /\ b # 0 /\ top # 0
    BY EntrySet DEF DataBlocks, x
  <2>3. ASSUME NEW g \in Inodes PROVE b # i[g].addrs[NDIRECT]
    <3>1. M[g][NDIRECT] \in u \cup {0}
      BY EntrySet DEF Owns, M
    <3> QED
      BY <1>2, <2>2, <3>1
  <2>4. ASSUME NEW g \in Inodes, g # f PROVE i[g].addrs[NDIRECT] # top
    BY <1>2, <2>2, <2>4, EntrySet DEF Owns, M
  <2> QED
    BY Zenon, <2>1, <2>2, <2>3, <2>4
<1>4. \A r \in 0..BSIZE-1 : l[top][r] = IF r = j THEN b ELSE k[top][r]
  <2>1. b # top
    BY <1>3
  <2> QED
    BY Zenon, <2>1 DEF Rows, Zeroed, Linked, l
<1>5. \A c \in DataBlocks : c # b /\ c # top => l[c] = k[c]
  BY Zenon DEF Zeroed, Linked, l
<1>6. ASSUME NEW g \in Inodes, NEW y \in Entries
      PROVE  Entry(i[g], l, y) = IF g = f /\ y = x THEN b ELSE M[g][y]
  <2>1. CASE y <= NDIRECT
    <3>1. y # x
      BY <2>1, EntrySet DEF x
    <3> QED
      BY Zenon, <1>1, <2>1, <3>1 DEF Entry
  <2>2. CASE ~(y <= NDIRECT)
    <3> DEFINE r == y - NDIRECT - 1
    <3> HIDE DEF r
    <3>1. r \in 0..BSIZE-1 /\ (r = j <=> y = x) /\ NDIRECT \in 0..NDIRECT
      BY SMTT(40), <2>2, EntrySet DEF x, r
    <3>2. /\ Entry(i[g], l, y) = IF i[g].addrs[NDIRECT] = 0 THEN 0 ELSE l[i[g].addrs[NDIRECT]][r]
          /\ M[g][y] = IF i[g].addrs[NDIRECT] = 0 THEN 0 ELSE k[i[g].addrs[NDIRECT]][r]
      BY Zenon, <1>1, <2>2 DEF Entry, r
    <3>3. CASE g = f
      BY Zenon, <1>3, <1>4, <3>1, <3>2, <3>3
    <3>4. CASE g # f
      <4>1. i[g].addrs[NDIRECT] # 0 => i[g].addrs[NDIRECT] \in DataBlocks
        BY <3>1 DEF InodeTable, DataBlocks
      <4> QED
        BY Zenon, <1>3, <1>5, <3>2, <3>4, <4>1
    <3> QED
      BY <3>3, <3>4
  <2> QED
    BY <2>1, <2>2
<1>7. SetEntry(M, f, x, b) = [g \in Inodes |-> [y \in Entries |-> IF g = f /\ y = x THEN b ELSE M[g][y]]]
  BY Zenon, <1>3 DEF Maps, SetEntry
<1>8. BlockMap(i, l) = [g \in Inodes |-> [y \in Entries |-> IF g = f /\ y = x THEN b ELSE M[g][y]]]
  BY <1>6 DEF BlockMap
<1> QED
  BY <1>7, <1>8 DEF l, M, x

(* Bytes are written into a block that is not an indirect one. *)
InData(i, k, u, f, x, b, j, l) ==
  /\ i \in InodeTable /\ u \in SUBSET DataBlocks /\ Owns(BlockMap(i, k), u)
  /\ f \in Inodes /\ x \in Entries /\ x # NDIRECT /\ b # 0 /\ BlockMap(i, k)[f][x] = b
  /\ \A c \in DataBlocks : c # b => l[c] = k[c]
  /\ \A g \in Inodes : j[g].addrs = i[g].addrs

(* A write into a block of the file, a change of a size or of a free block *)
(* leaves the block map as it is.                                          *)
LEMMA EnterNothing ==
  ASSUME NEW i, NEW k, NEW u, NEW f, NEW x, NEW b, NEW j, NEW l, InData(i, k, u, f, x, b, j, l)
  PROVE  BlockMap(j, l) = BlockMap(i, k)
<1> USE DEF InData
<1> DEFINE M == BlockMap(i, k)
<1> HIDE DEF M
<1>1. \A g \in Inodes, y \in Entries : M[g][y] = Entry(i[g], k, y)
  BY DEF BlockMap, M
<1>2. \A g \in Inodes : M[g][NDIRECT] = i[g].addrs[NDIRECT]
  BY TopEntry DEF M
<1>3. \A g \in Inodes : i[g].addrs[NDIRECT] # b
  <2>1. b # 0 /\ M[f][x] = b
    BY DEF M
  <2> QED
    BY <1>2, <2>1, EntrySet DEF Owns, M
<1>4. \A c \in DataBlocks : c # b => l[c] = k[c]
  OBVIOUS
<1>5. ASSUME NEW g \in Inodes, NEW y \in Entries
      PROVE  Entry(j[g], l, y) = M[g][y]
  <2>1. NDIRECT \in 0..NDIRECT /\ j[g].addrs = i[g].addrs
    BY EntrySet
  <2>2. i[g].addrs[NDIRECT] # 0 => i[g].addrs[NDIRECT] \in DataBlocks
    BY <2>1 DEF InodeTable, DataBlocks
  <2>3. i[g].addrs[NDIRECT] # 0 => l[i[g].addrs[NDIRECT]] = k[i[g].addrs[NDIRECT]]
    BY Zenon, <1>3, <1>4, <2>2
  <2> QED
    BY <1>1, <2>1, <2>3 DEF Entry
<1> QED
  BY <1>1, <1>5 DEF BlockMap

-----------------------------------------------------------------------------
(* bmap() *)

(* balloc() finds a free block, if there is one. *)
LEMMA Balloc ==
  ASSUME NEW u \in SUBSET DataBlocks, NEW k, NEW d, d = [used |-> u, blk |-> k]
  PROVE  \/ FreeBlock(d) = 0 /\ balloc(d) = d
         \/ /\ FreeBlock(d) \in DataBlocks \ u
            /\ balloc(d) = [used |-> u \cup {FreeBlock(d)}, blk |-> Zeroed(k, FreeBlock(d))]
<1>1. d.used = u /\ d.blk = k
  OBVIOUS
<1> DEFINE free == First(DataBlocks \ d.used)
<1>2. CASE free = {}
  <2>1. FreeBlock(d) = 0
    BY Zenon, <1>2 DEF FreeBlock
  <2> QED
    BY Zenon, <2>1 DEF balloc
<1>3. CASE free # {}
  <2>1. FreeBlock(d) \in free
    BY Zenon, <1>3 DEF FreeBlock
  <2>2. FreeBlock(d) \in DataBlocks \ u
    BY Zenon, <1>1, <2>1 DEF First
  <2>3. FreeBlock(d) # 0
    BY <2>2 DEF DataBlocks
  <2> QED
    BY Zenon, <1>1, <2>2, <2>3 DEF balloc, Zeroed
<1> QED
  BY <1>2, <1>3

(* Zeroed blocks and stale ones are contents of blocks. *)
LEMMA ZeroRow ==
  Zeroes \in Rows /\ Stale \in Rows
BY DEF Rows, Zeroes, Stale

(* bmap() looks up, or enters, an address in the inode. *)
DirectLookUp(i, k, u, f, x, d, top, e, j) ==
  /\ i \in InodeTable /\ k \in [DataBlocks -> Rows] /\ u \in SUBSET DataBlocks
  /\ Owns(BlockMap(i, k), u) /\ f \in Inodes /\ x \in 0..NDIRECT
  /\ d = [used |-> u, blk |-> k]
  /\ top = IF i[f].addrs[x] # 0 THEN i[f].addrs[x] ELSE FreeBlock(d)
  /\ e = IF i[f].addrs[x] # 0 THEN d ELSE balloc(d)
  /\ j = [i EXCEPT ![f].addrs = [i[f].addrs EXCEPT ![x] = top]]

DirectFound(i, k, u, f, x, top, e, j) ==
  /\ top \in 0..NBLOCKS /\ e = [used |-> e.used, blk |-> e.blk]
  /\ j \in InodeTable /\ e.blk \in [DataBlocks -> Rows] /\ e.used \in SUBSET DataBlocks
  /\ BlockMap(j, e.blk) = SetEntry(BlockMap(i, k), f, x, top) /\ Owns(BlockMap(j, e.blk), e.used)
  /\ BlockMap(i, k)[f][x] # 0 => top = BlockMap(i, k)[f][x]
  /\ \A c \in u : e.blk[c] = k[c] /\ c \in e.used
  /\ \A g \in Inodes : j[g].size = i[g].size /\ (g # f => j[g] = i[g])
  /\ j[f].addrs = [i[f].addrs EXCEPT ![x] = top]

(* The first look-up of bmap(): in addrs[], with a new block if there is   *)
(* none and the disk has one.                                              *)
LEMMA LookUpDirect ==
  ASSUME NEW i, NEW k, NEW u, NEW f, NEW x, NEW d, NEW top, NEW e, NEW j,
         DirectLookUp(i, k, u, f, x, d, top, e, j)
  PROVE  DirectFound(i, k, u, f, x, top, e, j)
<1> USE DEF DirectLookUp, DirectFound
<1> DEFINE M == BlockMap(i, k)
<1> HIDE DEF M
<1>1. M \in Maps
  BY MapType DEF M
<1>2. x \in Entries /\ x <= NDIRECT
  BY EntrySet
<1>3. M[f][x] = i[f].addrs[x]
  BY Zenon, <1>2 DEF BlockMap, Entry, M
<1>4. i[f].addrs \in [0..NDIRECT -> 0..NBLOCKS] /\ i[f].addrs[x] \in 0..NBLOCKS
  BY Zenon DEF InodeTable
<1>5. top \in 0..NBLOCKS => /\ j \in InodeTable /\ j[f].addrs = [i[f].addrs EXCEPT ![x] = top]
                           /\ \A g \in Inodes : j[g].size = i[g].size /\ (g # f => j[g] = i[g])
  <2> SUFFICES ASSUME top \in 0..NBLOCKS
               PROVE  /\ j \in InodeTable /\ j[f].addrs = [i[f].addrs EXCEPT ![x] = top]
                      /\ \A g \in Inodes : j[g].size = i[g].size /\ (g # f => j[g] = i[g])
    BY Zenon
  <2> DEFINE a == [i[f].addrs EXCEPT ![x] = top]
  <2> HIDE DEF a
  <2>1. a \in [0..NDIRECT -> 0..NBLOCKS]
    BY Zenon, <1>4 DEF a
  <2> DEFINE r == [i[f] EXCEPT !.addrs = a]
  <2> HIDE DEF r
  <2>2. j = [i EXCEPT ![f] = r]
    BY Zenon DEF a, r
  <2>3. r \in [addrs : [0..NDIRECT -> 0..NBLOCKS], size : 0..MAXFILE*BSIZE] /\ r.addrs = a /\ r.size = i[f].size
    BY Zenon, <2>1 DEF InodeTable, r
  <2>4. j \in InodeTable /\ j[f] = r /\ \A g \in Inodes : g # f => j[g] = i[g]
    BY ZenonT(40), <2>2, <2>3 DEF InodeTable
  <2> QED
    BY Zenon, <2>3, <2>4 DEF a
<1>6. CASE i[f].addrs[x] # 0 \/ FreeBlock(d) = 0
  <2>1. top = i[f].addrs[x] /\ e = d
    <3>1. CASE i[f].addrs[x] # 0
      BY <3>1
    <3>2. CASE i[f].addrs[x] = 0 /\ FreeBlock(d) = 0
      <4>1. FreeBlock(d) \notin DataBlocks
        BY <3>2 DEF DataBlocks
      <4> QED
        BY SMTT(40), <3>2, <4>1, Balloc
    <3> QED
      BY Zenon, <1>6, <3>1, <3>2
  <2>2. j \in InodeTable /\ \A g \in Inodes : j[g].addrs = i[g].addrs
    <3>1. [i[f].addrs EXCEPT ![x] = top] = i[f].addrs
      BY Zenon, <1>4, <2>1
    <3> QED
      BY <1>4, <1>5, <2>1
  <2>3. BlockMap(j, k) = M
    <3>1. \A g \in Inodes, y \in Entries : Entry(j[g], k, y) = Entry(i[g], k, y)
      BY ONLY <2>2 DEF Entry
    <3> QED
      BY Zenon, <3>1 DEF BlockMap, M
  <2>4. SetEntry(M, f, x, top) = M
    BY Zenon, <1>1, <1>2, <1>3, <2>1 DEF Maps, SetEntry
  <2>5. e.blk = k /\ e.used = u /\ e = [used |-> e.used, blk |-> e.blk]
    BY <2>1
  <2>6. top \in 0..NBLOCKS
    BY Zenon, <1>4, <2>1
  <2>7. \A c \in u : e.blk[c] = k[c] /\ c \in e.used
    BY Zenon, <2>5
  <2> QED
    BY Zenon, <1>3, <1>5, <2>3, <2>4, <2>5, <2>6, <2>7 DEF M
<1>7. CASE ~(i[f].addrs[x] # 0 \/ FreeBlock(d) = 0)
  <2>1. /\ top = FreeBlock(d) /\ top \in DataBlocks \ u
        /\ e = [used |-> u \cup {top}, blk |-> Zeroed(k, top)]
    <3>1. top = FreeBlock(d) /\ e = balloc(d) /\ FreeBlock(d) # 0
      BY Zenon, <1>7
    <3>2. d = [used |-> u, blk |-> k]
      BY Zenon
    <3> QED
      BY ONLY u \in SUBSET DataBlocks, <3>1, <3>2, Balloc
  <2>2. e.used = u \cup {top} /\ e.blk = Zeroed(k, top) /\ e = [used |-> e.used, blk |-> e.blk]
    BY ONLY <2>1
  <2>3. top \in 0..NBLOCKS
    BY <2>1 DEF DataBlocks
  <2>4. BlockMap(j, e.blk) = SetEntry(M, f, x, top)
    <3>1. i[f].addrs[x] = 0 /\ j \in InodeTable /\ j[f].addrs = [i[f].addrs EXCEPT ![x] = top]
      BY Zenon, <1>5, <1>7, <2>3
    <3>2. \A g \in Inodes : g # f => j[g].addrs = i[g].addrs
      OBVIOUS
    <3>3. top \in DataBlocks \ u
      BY Zenon, <2>1
    <3>4. InDirect(i, k, u, top, f, x, j)
      BY Zenon, <3>1, <3>2, <3>3 DEF InDirect
    <3>5. BlockMap(j, Zeroed(k, top)) = SetEntry(BlockMap(i, k), f, x, top)
      BY ONLY <3>4, EnterDirect
    <3> QED
      BY Zenon, <2>2, <3>5 DEF M
  <2>5. Owns(SetEntry(M, f, x, top), u \cup {top})
    BY <1>1, <1>2, <1>3, <2>1, Enter DEF M
  <2>6. e.blk \in [DataBlocks -> Rows] /\ e.used \in SUBSET DataBlocks
    BY <2>1, ZeroRow DEF Zeroed
  <2>7. \A c \in u : e.blk[c] = k[c] /\ c \in e.used
    BY <2>1 DEF Zeroed
  <2> QED
    BY Zenon, <1>3, <1>5, <1>7, <2>2, <2>3, <2>4, <2>5, <2>6, <2>7 DEF M
<1> QED
  BY Zenon, <1>6, <1>7

(* bmap() looks up, or enters, an address in the indirect block. *)
IndirectLookUp(i, k, u, f, top, j, d, leaf, e, l) ==
  /\ i \in InodeTable /\ k \in [DataBlocks -> Rows] /\ u \in SUBSET DataBlocks
  /\ Owns(BlockMap(i, k), u) /\ f \in Inodes
  /\ top \in DataBlocks /\ i[f].addrs[NDIRECT] = top /\ j \in 0..BSIZE-1
  /\ d = [used |-> u, blk |-> k]
  /\ leaf = IF k[top][j] # 0 THEN k[top][j] ELSE FreeBlock(d)
  /\ e = IF k[top][j] # 0 THEN d ELSE balloc(d)
  /\ l = Linked(e.blk, top, j, leaf)

IndirectFound(i, k, u, f, top, j, leaf, e, l) ==
  /\ l \in [DataBlocks -> Rows] /\ e.used \in SUBSET DataBlocks
  /\ BlockMap(i, l) = SetEntry(BlockMap(i, k), f, NDIRECT + 1 + j, leaf)
  /\ Owns(BlockMap(i, l), e.used)
  /\ BlockMap(i, k)[f][NDIRECT + 1 + j] # 0 => leaf = BlockMap(i, k)[f][NDIRECT + 1 + j]
  /\ \A c \in u : c # top => l[c] = k[c]
  /\ e = [used |-> e.used, blk |-> e.blk]

(* The second look-up of bmap(): in the indirect block, with a new block   *)
(* if there is none and the disk has one.                                  *)
LEMMA LookUpIndirect ==
  ASSUME NEW i, NEW k, NEW u, NEW f, NEW top, NEW j, NEW d, NEW leaf, NEW e, NEW l,
         IndirectLookUp(i, k, u, f, top, j, d, leaf, e, l)
  PROVE  IndirectFound(i, k, u, f, top, j, leaf, e, l)
<1> USE DEF IndirectLookUp, IndirectFound
<1> DEFINE M == BlockMap(i, k)
           x == NDIRECT + 1 + j
<1> HIDE DEF M, x
<1>1. M \in Maps
  BY Zenon, MapType DEF M
<1>2. x \in Entries /\ ~(x <= NDIRECT) /\ x - NDIRECT - 1 = j /\ top # 0
  BY EntrySet DEF DataBlocks, x
<1>3. M[f][x] = k[top][j]
  BY Zenon, <1>2 DEF BlockMap, Entry, M
<1>4. M[f][x] \in 0..NBLOCKS
  BY Zenon, <1>1, <1>2 DEF Maps
<1>5. CASE k[top][j] # 0 \/ FreeBlock(d) = 0
  <2>1. leaf = k[top][j] /\ e = d
    <3>1. CASE k[top][j] # 0
      BY Zenon, <3>1
    <3>2. CASE k[top][j] = 0 /\ FreeBlock(d) = 0
      <4>1. FreeBlock(d) \notin DataBlocks
        BY <3>2 DEF DataBlocks
      <4> QED
        BY <3>2, <4>1, Balloc
    <3> QED
      BY Zenon, <1>5, <3>2
  <2>2. e.blk = k /\ e.used = u /\ e = [used |-> e.used, blk |-> e.blk]
    BY <2>1
  <2>3. Linked(k, top, j, leaf) = k
    BY Zenon, <2>1 DEF Linked, Rows
  <2>4. SetEntry(M, f, x, leaf) = M
    BY Zenon, <1>1, <1>2, <1>3, <2>1 DEF Maps, SetEntry
  <2>5. l = k
    BY Zenon, <2>2, <2>3
  <2> QED
    BY Zenon, <1>3, <2>2, <2>4, <2>5 DEF M, x
<1>6. CASE ~(k[top][j] # 0 \/ FreeBlock(d) = 0)
  <2>1. /\ leaf = FreeBlock(d) /\ leaf \in DataBlocks \ u
        /\ e = [used |-> u \cup {leaf}, blk |-> Zeroed(k, leaf)]
    <3>1. leaf = FreeBlock(d) /\ e = balloc(d) /\ FreeBlock(d) # 0
      BY Zenon, <1>6
    <3>2. d = [used |-> u, blk |-> k]
      BY Zenon
    <3> QED
      BY ONLY u \in SUBSET DataBlocks, <3>1, <3>2, Balloc
  <2>2. /\ e.used = u \cup {leaf} /\ e.blk = Zeroed(k, leaf)
        /\ e = [used |-> e.used, blk |-> e.blk]
    BY ONLY <2>1
  <2>3. BlockMap(i, l) = SetEntry(M, f, x, leaf)
    <3>1. InIndirect(i, k, u, leaf, f, top, j)
      BY Zenon, <1>6, <2>1 DEF InIndirect
    <3>2. l = Linked(Zeroed(k, leaf), top, j, leaf)
      BY Zenon, <2>2
    <3> QED
      BY ONLY <3>1, <3>2, EnterIndirect DEF M, x
  <2>4. Owns(SetEntry(M, f, x, leaf), u \cup {leaf})
    BY <1>1, <1>2, <1>3, <2>1, Enter DEF M
  <2>5. /\ l \in [DataBlocks -> Rows] /\ u \cup {leaf} \in SUBSET DataBlocks
        /\ \A c \in u : c # top => l[c] = k[c]
    <3> DEFINE m == Zeroed(k, leaf)
    <3> HIDE DEF m
    <3>1. m \in [DataBlocks -> Rows] /\ \A c \in u : m[c] = k[c]
      BY Zenon, <2>1, ZeroRow DEF Zeroed, m
    <3>2. leaf \in Int /\ leaf \in DataBlocks
      BY <2>1 DEF DataBlocks
    <3>3. /\ Linked(m, top, j, leaf) \in [DataBlocks -> Rows]
          /\ \A c \in u : c # top => Linked(m, top, j, leaf)[c] = m[c]
      BY Zenon, <3>1, <3>2 DEF Linked, Rows
    <3>4. l = Linked(m, top, j, leaf)
      BY Zenon, <2>2 DEF m
    <3> QED
      BY Zenon, <3>1, <3>2, <3>3, <3>4
  <2> QED
    BY Zenon, <1>3, <1>6, <2>2, <2>3, <2>4, <2>5 DEF M, x
<1> QED
  BY Zenon, <1>5, <1>6

(***************************************************************************)
(* What bmap() for block bn of file f leaves: inodes j, blocks l and bitmap*)
(* v.  It moves no block, and changes no block with contents.              *)
(***************************************************************************)
Mapped(f, bn, j, l, v, addr) ==
  LET M == BlockMap(ip, blk)  N == BlockMap(j, l) IN
  /\ j \in InodeTable /\ l \in [DataBlocks -> Rows] /\ v \in SUBSET DataBlocks /\ Owns(N, v)
  /\ \A g \in Inodes : j[g].size = ip[g].size /\ (g # f => N[g] = M[g])
  /\ \A g \in Inodes, y \in Entries : M[g][y] # 0 => N[g][y] = M[g][y]
  /\ \A g \in Inodes, y \in Entries : M[g][y] # 0 /\ y # NDIRECT => l[M[g][y]] = blk[M[g][y]]
  /\ addr = N[f][EntryOf(bn)]

(* Setting one entry leaves the others alone. *)
LEMMA SetEntryAt ==
  ASSUME NEW M \in Maps, NEW f \in Inodes, NEW x \in Entries, NEW b, NEW N, N = SetEntry(M, f, x, b)
  PROVE  /\ \A g \in Inodes : g # f => N[g] = M[g]
         /\ \A y \in Entries : y # x => N[f][y] = M[f][y]
         /\ N[f][x] = b
BY DEF Maps, SetEntry

(* What bmap() promises: the block map stays as it is but for entries that *)
(* were empty, each block still has one owner, no byte of any file         *)
(* changes, and the number it returns is that of block bn, or 0 when the   *)
(* disk is full.                                                           *)
LEMMA Bmap ==
  ASSUME TypeOK, OneOwner, NEW f \in Inodes, NEW bn \in 0..MAXFILE-1,
         NEW map, map = bmap(ip[f], bn)
  PROVE  Mapped(f, bn, [ip EXCEPT ![f].addrs = map.addrs], map.disk.blk, map.disk.used, map.addr)
<1> DEFINE a == ip[f].addrs
           at == min(bn, NDIRECT)
           top == IF a[at] # 0 THEN a[at] ELSE FreeBlock(Disk)
           d1 == IF a[at] # 0 THEN Disk ELSE balloc(Disk)
           j == bn - NDIRECT
           entry == d1.blk[top][j]
           leaf == IF entry # 0 THEN entry ELSE FreeBlock(d1)
           d2 == IF entry # 0 THEN d1 ELSE balloc(d1)
           addrs == [a EXCEPT ![at] = top]
           inodes == [ip EXCEPT ![f].addrs = addrs]
           l == Linked(d2.blk, top, j, leaf)
           M == BlockMap(ip, blk)
           N == BlockMap(inodes, d1.blk)
<1> HIDE DEF a, at, top, d1, j, entry, leaf, d2, addrs, inodes, l, M, N
<1>1. at = (IF bn < NDIRECT THEN bn ELSE NDIRECT) /\ at \in 0..NDIRECT /\ at \in Entries
  BY EntrySet DEF min, at
<1>2. ip \in InodeTable /\ blk \in [DataBlocks -> Rows] /\ used \in SUBSET DataBlocks /\ Owns(M, used)
  BY DEF OneOwner, TypeOK, InodeTable, Rows, M
<1>3. DirectFound(ip, blk, used, f, at, top, d1, inodes)
  <2>1. DirectLookUp(ip, blk, used, f, at, Disk, top, d1, inodes)
    BY Zenon, <1>1, <1>2 DEF DirectLookUp, Disk, M, a, top, d1, addrs, inodes
  <2> QED
    BY ONLY Zenon, <2>1, LookUpDirect
<1>4. M \in Maps
  BY Zenon, <1>2, MapType DEF M
<1>5. N = SetEntry(M, f, at, top)
  BY Zenon, <1>3 DEF DirectFound, M, N
<1>6. /\ \A g \in Inodes : g # f => N[g] = M[g]
      /\ \A y \in Entries : y # at => N[f][y] = M[f][y]
      /\ N[f][at] = top
  BY ONLY f \in Inodes, <1>1, <1>4, <1>5, SetEntryAt
<1>7. M[f][at] # 0 => top = M[f][at]
  BY Zenon, <1>3 DEF DirectFound, M
<1>8. \A g \in Inodes, y \in Entries : M[g][y] # 0 => /\ N[g][y] = M[g][y]
                                                    /\ M[g][y] \in used
                                                    /\ d1.blk[M[g][y]] = blk[M[g][y]]
  <2>1. \A c \in used : d1.blk[c] = blk[c]
    BY Zenon, <1>3 DEF DirectFound
  <2>2. \A g \in Inodes, y \in Entries : M[g][y] # 0 => M[g][y] \in used
    BY Zenon, <1>2 DEF Owns
  <2> QED
    BY Zenon, <1>6, <1>7, <2>1, <2>2
<1>9. CASE bn < NDIRECT \/ top = 0
  <2>1. map = [disk |-> d1, addrs |-> addrs, addr |-> top]
    BY Zenon, <1>9 DEF bmap, a, at, top, d1, addrs
  <2>2. map.addrs = addrs /\ map.disk = d1 /\ map.addr = top
    BY ONLY Zenon, <2>1
  <2>3. top = N[f][EntryOf(bn)]
    <3>1. CASE bn < NDIRECT
      BY Zenon, <1>1, <1>6, <3>1 DEF EntryOf
    <3>2. CASE ~(bn < NDIRECT) /\ top = 0
      <4>1. at = NDIRECT /\ EntryOf(bn) = bn + 1 /\ bn + 1 \in Entries /\ ~(bn + 1 <= NDIRECT)
        BY <1>1, <3>2, EntrySet DEF EntryOf
      <4>2. inodes[f].addrs[NDIRECT] = 0
        BY ZenonT(40), <1>6, <3>2, <4>1, TopEntry DEF N
      <4>3. N[f][bn + 1] = 0
        BY ZenonT(40), <4>1, <4>2 DEF BlockMap, Entry, N
      <4> QED
        BY Zenon, <3>2, <4>1, <4>3
    <3> QED
      BY Zenon, <1>9, <3>1, <3>2
  <2>4. /\ inodes \in InodeTable /\ d1.blk \in [DataBlocks -> Rows] /\ d1.used \in SUBSET DataBlocks
        /\ Owns(N, d1.used) /\ \A g \in Inodes : inodes[g].size = ip[g].size
    BY ZenonT(40), <1>3 DEF DirectFound, N
  <2>5. Mapped(f, bn, inodes, d1.blk, d1.used, top)
    BY <1>6, <1>8, <2>3, <2>4 DEF Mapped, M, N
  <2> QED
    BY Zenon, <2>2, <2>5 DEF inodes
<1>10. CASE ~(bn < NDIRECT \/ top = 0)
  <2> DEFINE L == BlockMap(inodes, l)
             x == NDIRECT + 1 + j
  <2> HIDE DEF L, x
  <2>1. map = [disk |-> [d2 EXCEPT !.blk[top][j] = leaf], addrs |-> addrs, addr |-> leaf]
    BY Zenon, <1>10 DEF bmap, a, at, top, d1, j, entry, leaf, d2, addrs
  <2>2. at = NDIRECT /\ j \in 0..BSIZE-1 /\ EntryOf(bn) = x /\ x \in Entries /\ x # NDIRECT
    BY <1>1, <1>10, EntrySet DEF EntryOf, j, x
  <2>3. /\ inodes \in InodeTable /\ d1.blk \in [DataBlocks -> Rows] /\ d1.used \in SUBSET DataBlocks
        /\ Owns(N, d1.used) /\ d1 = [used |-> d1.used, blk |-> d1.blk] /\ top \in DataBlocks
        /\ \A g \in Inodes : inodes[g].size = ip[g].size
        /\ \A c \in used : c \in d1.used
    <3>1. top \in 0..NBLOCKS /\ top # 0
      BY Zenon, <1>3, <1>10 DEF DirectFound
    <3>2. top \in DataBlocks
      BY <3>1, EntrySet DEF DataBlocks
    <3> QED
      BY Zenon, <1>3, <3>2 DEF DirectFound, N
  <2>4. inodes[f].addrs[NDIRECT] = top
    <3>1. N[f][NDIRECT] = inodes[f].addrs[NDIRECT]
      BY Zenon, TopEntry DEF N
    <3> QED
      BY Zenon, <1>6, <2>2, <3>1
  <2>5. IndirectFound(inodes, d1.blk, d1.used, f, top, j, leaf, d2, l)
    <3>1. IndirectLookUp(inodes, d1.blk, d1.used, f, top, j, d1, leaf, d2, l)
      BY Zenon, <2>2, <2>3, <2>4 DEF IndirectLookUp, entry, leaf, d2, l, N
    <3> QED
      BY ONLY Zenon, <3>1, LookUpIndirect
  <2>6. map.addrs = addrs /\ map.disk.blk = l /\ map.disk.used = d2.used /\ map.addr = leaf
    <3>1. d2 = [used |-> d2.used, blk |-> d2.blk]
      BY Zenon, <2>5 DEF IndirectFound
    <3> QED
      BY ONLY Zenon, <2>1, <3>1 DEF l, Linked
  <2>7. N \in Maps
    BY Zenon, <2>3, MapType DEF N
  <2>8. L = SetEntry(N, f, x, leaf) /\ (N[f][x] # 0 => leaf = N[f][x])
    BY Zenon, <2>5 DEF IndirectFound, N, L, x
  <2>9. /\ \A g \in Inodes : g # f => L[g] = N[g]
        /\ \A y \in Entries : y # x => L[f][y] = N[f][y]
        /\ L[f][x] = leaf
    BY <2>2, <2>7, <2>8, SetEntryAt
  <2>10. /\ l \in [DataBlocks -> Rows] /\ d2.used \in SUBSET DataBlocks /\ Owns(L, d2.used)
         /\ \A c \in d1.used : c # top => l[c] = d1.blk[c]
    BY Zenon, <2>5 DEF IndirectFound, L
  <2>11. \A g \in Inodes, y \in Entries : M[g][y] # 0 => L[g][y] = M[g][y]
    BY <1>8, <2>8, <2>9
  <2>12. \A g \in Inodes, y \in Entries : M[g][y] # 0 /\ y # NDIRECT => l[M[g][y]] = blk[M[g][y]]
    <3> SUFFICES ASSUME NEW g \in Inodes, NEW y \in Entries, M[g][y] # 0, y # NDIRECT
                 PROVE  l[M[g][y]] = blk[M[g][y]]
      BY Zenon
    <3>1. N[g][y] = M[g][y] /\ M[g][y] \in d1.used /\ d1.blk[M[g][y]] = blk[M[g][y]]
      BY Zenon, <1>8, <2>3
    <3>2. M[g][y] # top
      <4>1. N[f][NDIRECT] = top
        BY Zenon, <1>6, <2>2
      <4> QED
        BY SMTT(40), <2>3, <3>1, <4>1, EntrySet DEF Owns
    <3> QED
      BY Zenon, <2>10, <3>1, <3>2
  <2>13. Mapped(f, bn, inodes, l, d2.used, leaf)
    <3>1. /\ leaf = L[f][EntryOf(bn)]
          /\ \A g \in Inodes : inodes[g].size = ip[g].size /\ (g # f => L[g] = M[g])
      BY Zenon, <1>6, <2>2, <2>3, <2>9
    <3> QED
      BY Zenon, <2>3, <2>10, <2>11, <2>12, <3>1 DEF Mapped, M, L
  <2> QED
    BY <2>6, <2>13 DEF inodes
<1> QED
  BY <1>9, <1>10

-----------------------------------------------------------------------------
(***************************************************************************)
(* Bytes.  After m bytes of process p at offset o of file f, the inodes,   *)
(* blocks and bitmap are j, k and u: those bytes have changed, and no other*)
(* byte of that file or of another one has.                                *)
(***************************************************************************)
Positions == 0..(MAXFILE * BSIZE)-1

Wrote(f, o, m, p, j, k, u) ==
  /\ k \in [DataBlocks -> Rows] /\ u \in SUBSET DataBlocks /\ Owns(BlockMap(j, k), u)
  /\ \A g \in Inodes, pos \in Positions : BlockOf(ip[g], blk, pos \div BSIZE) # 0 =>
       /\ BlockOf(j[g], k, pos \div BSIZE) # 0
       /\ ByteAt(j[g], k, pos) = IF g = f /\ pos \in o..o+m-1 THEN p ELSE ByteAt(ip[g], blk, pos)
  /\ Written(j[f], k, o, o + m, p)

(* Block bn of a file, in the block map. *)
LEMMA BlockOfEntry ==
  ASSUME NEW i, NEW k, NEW f \in Inodes, NEW bn \in 0..MAXFILE-1
  PROVE  BlockOf(i[f], k, bn) = BlockMap(i, k)[f][EntryOf(bn)]
BY EntrySet DEF BlockOf, BlockMap

(* Two blocks of a file are in two entries. *)
LEMMA EntryOfInjective ==
  ASSUME NEW m \in 0..MAXFILE-1, NEW n \in 0..MAXFILE-1
  PROVE  EntryOf(m) = EntryOf(n) <=> m = n
BY EntrySet DEF EntryOf

(* The block of a byte that a file may have is one that bmap() knows. *)
LEMMA PositionSplit ==
  ASSUME NEW pos \in Positions
  PROVE  pos \in Nat /\ pos \div BSIZE \in 0..MAXFILE-1 /\ pos % BSIZE \in 0..BSIZE-1
<1>1. pos \in Nat /\ pos < MAXFILE * BSIZE
  BY DataConstants DEF Positions, MAXFILE, NINDIRECT
<1> QED
  BY <1>1, BlockInFile, Split

(* The disk is full: bmap() may have added an indirect block, but no byte. *)
LEMMA WroteNothing ==
  ASSUME TypeOK, OneOwner, NEW f \in Inodes, NEW o \in Nat, NEW bn \in 0..MAXFILE-1, NEW p \in Procs,
         NEW i, NEW j, NEW k, NEW u, NEW addr, Mapped(f, bn, i, k, u, addr),
         j \in InodeTable, \A g \in Inodes : j[g].addrs = i[g].addrs
  PROVE  Wrote(f, o, 0, p, j, k, u)
<1> DEFINE M == BlockMap(ip, blk)
           N == BlockMap(i, k)
<1> HIDE DEF M, N
<1>1. BlockMap(j, k) = N
  <2>1. \A g \in Inodes, y \in Entries : Entry(j[g], k, y) = Entry(i[g], k, y)
    BY Zenon DEF Entry
  <2> QED
    BY Zenon, <2>1 DEF BlockMap, N
<1>2. /\ k \in [DataBlocks -> Rows] /\ u \in SUBSET DataBlocks /\ Owns(N, u)
      /\ \A g \in Inodes, y \in Entries : M[g][y] # 0 => N[g][y] = M[g][y]
      /\ \A g \in Inodes, y \in Entries : M[g][y] # 0 /\ y # NDIRECT => k[M[g][y]] = blk[M[g][y]]
  BY Zenon DEF Mapped, M, N
<1>3. ASSUME NEW g \in Inodes, NEW pos \in Positions, BlockOf(ip[g], blk, pos \div BSIZE) # 0
      PROVE  BlockOf(j[g], k, pos \div BSIZE) # 0 /\ ByteAt(j[g], k, pos) = ByteAt(ip[g], blk, pos)
  <2> DEFINE y == EntryOf(pos \div BSIZE)
  <2> HIDE DEF y
  <2>1. pos \div BSIZE \in 0..MAXFILE-1 /\ y \in Entries /\ y # NDIRECT
    BY ZenonT(40), PositionSplit, EntrySet DEF y
  <2>2. BlockOf(ip[g], blk, pos \div BSIZE) = M[g][y] /\ BlockOf(j[g], k, pos \div BSIZE) = N[g][y]
    BY <1>1, <2>1, BlockOfEntry DEF M, y
  <2>3. N[g][y] = M[g][y] /\ N[g][y] # 0 /\ k[M[g][y]] = blk[M[g][y]]
    BY Zenon, <1>2, <1>3, <2>1, <2>2
  <2> QED
    BY Zenon, <2>2, <2>3 DEF ByteAt
<1>4. o..o+0-1 = {}
  OBVIOUS
<1> QED
  BY <1>1, <1>2, <1>3, <1>4 DEF Wrote, Written

(* writei() copies m bytes into the block that bmap() has found. *)
LEMMA WroteBytes ==
  ASSUME TypeOK, OneOwner, NEW f \in Inodes, NEW o \in Positions, NEW m \in Nat, m <= BSIZE - (o % BSIZE),
         NEW p \in Procs, NEW i, NEW j, NEW k, NEW u, NEW addr, Mapped(f, o \div BSIZE, i, k, u, addr),
         addr # 0, j \in InodeTable, \A g \in Inodes : j[g].addrs = i[g].addrs
  PROVE  Wrote(f, o, m, p, j, Put(k, addr, o, m, p), u)
<1> DEFINE M == BlockMap(ip, blk)
           N == BlockMap(i, k)
           l == Put(k, addr, o, m, p)
           x == EntryOf(o \div BSIZE)
<1> HIDE DEF M, N, l, x
<1>1. /\ i \in InodeTable /\ k \in [DataBlocks -> Rows] /\ u \in SUBSET DataBlocks /\ Owns(N, u)
      /\ \A g \in Inodes, y \in Entries : M[g][y] # 0 => N[g][y] = M[g][y]
      /\ \A g \in Inodes, y \in Entries : M[g][y] # 0 /\ y # NDIRECT => k[M[g][y]] = blk[M[g][y]]
      /\ addr = N[f][x]
  BY DEF Mapped, M, N, x
<1>2. o \in Nat /\ o \div BSIZE \in 0..MAXFILE-1 /\ x \in Entries /\ x # NDIRECT
  BY PositionSplit, EntrySet DEF x
<1>3. addr \in DataBlocks
  <2>1. N[f][x] \in u \cup {0}
    BY Zenon, <1>1, <1>2 DEF Owns
  <2> QED
    BY <1>1, <2>1
<1>4. /\ l \in [DataBlocks -> Rows] /\ \A c \in DataBlocks : c # addr => l[c] = k[c]
      /\ \A b \in 0..BSIZE-1 : l[addr][b] = IF b \in Bytes(o, m) THEN p ELSE k[addr][b]
  <2> DEFINE row == [b \in 0..BSIZE-1 |-> IF b \in Bytes(o, m) THEN p ELSE k[addr][b]]
  <2> HIDE DEF row
  <2>1. row \in Rows
    BY ZenonT(40), <1>1, <1>3 DEF Rows, row
  <2>2. l = [k EXCEPT ![addr] = row]
    BY Zenon, <1>1, <1>3 DEF Put, l, row
  <2>3. \A b \in 0..BSIZE-1 : row[b] = IF b \in Bytes(o, m) THEN p ELSE k[addr][b]
    BY DEF row
  <2> QED
    BY ZenonT(40), <1>1, <1>3, <2>1, <2>2, <2>3
<1>5. BlockMap(j, l) = N
  <2>1. InData(i, k, u, f, x, addr, j, l)
    BY Zenon, <1>1, <1>2, <1>4 DEF InData, N
  <2> QED
    BY ONLY <2>1, EnterNothing DEF N
<1>6. ASSUME NEW g \in Inodes, NEW pos \in Positions
      PROVE  /\ BlockOf(j[g], l, pos \div BSIZE) = N[g][EntryOf(pos \div BSIZE)]
             /\ BlockOf(ip[g], blk, pos \div BSIZE) = M[g][EntryOf(pos \div BSIZE)]
             /\ EntryOf(pos \div BSIZE) \in Entries /\ EntryOf(pos \div BSIZE) # NDIRECT
             /\ pos % BSIZE \in 0..BSIZE-1
  <2>1. pos \div BSIZE \in 0..MAXFILE-1 /\ pos % BSIZE \in 0..BSIZE-1
    BY PositionSplit
  <2>2. EntryOf(pos \div BSIZE) \in Entries /\ EntryOf(pos \div BSIZE) # NDIRECT
    BY <2>1, EntrySet
  <2> QED
    BY <1>5, <2>1, <2>2, BlockOfEntry DEF M
<1>7. ASSUME NEW pos \in Positions
      PROVE  pos \in o..o+m-1 <=> EntryOf(pos \div BSIZE) = x /\ pos % BSIZE \in Bytes(o, m)
  <2>1. pos \in o..o+m-1 <=> pos \div BSIZE = o \div BSIZE /\ pos % BSIZE \in Bytes(o, m)
    BY <1>2, PositionSplit, SameBlock
  <2>2. EntryOf(pos \div BSIZE) = x <=> pos \div BSIZE = o \div BSIZE
    BY <1>2, PositionSplit, EntryOfInjective DEF x
  <2> QED
    BY <2>1, <2>2
<1>8. ASSUME NEW g \in Inodes, NEW pos \in Positions, BlockOf(ip[g], blk, pos \div BSIZE) # 0
      PROVE  /\ BlockOf(j[g], l, pos \div BSIZE) # 0
             /\ ByteAt(j[g], l, pos) = IF g = f /\ pos \in o..o+m-1 THEN p ELSE ByteAt(ip[g], blk, pos)
  <2> DEFINE y == EntryOf(pos \div BSIZE)
             r == pos % BSIZE
  <2> HIDE DEF y, r
  <2>1. /\ BlockOf(j[g], l, pos \div BSIZE) = N[g][y] /\ BlockOf(ip[g], blk, pos \div BSIZE) = M[g][y]
        /\ y \in Entries /\ y # NDIRECT /\ r \in 0..BSIZE-1
    BY <1>6 DEF y, r
  <2>2. ByteAt(j[g], l, pos) = l[N[g][y]][r] /\ ByteAt(ip[g], blk, pos) = blk[M[g][y]][r]
    BY Zenon, <2>1 DEF ByteAt, r
  <2>3. pos \in o..o+m-1 <=> y = x /\ r \in Bytes(o, m)
    BY Zenon, <1>7 DEF y, r
  <2>4. N[g][y] = M[g][y] /\ N[g][y] # 0 /\ k[M[g][y]] = blk[M[g][y]]
    BY ZenonT(40), <1>1, <1>8, <2>1
  <2>5. N[g][y] \in DataBlocks
    <3>1. N[g][y] \in u \cup {0}
      BY ZenonT(40), <1>1, <2>1 DEF Owns
    <3> QED
      BY ZenonT(40), <1>1, <2>4, <3>1
  <2>6. CASE N[g][y] = addr
    <3>1. \A a, b \in Inodes, s, t \in Entries : N[a][s] # 0 /\ N[a][s] = N[b][t] => a = b /\ s = t
      BY Zenon, <1>1 DEF Owns
    <3>2. N[f][x] = addr /\ x \in Entries
      BY Zenon, <1>1, <1>2
    <3>3. g = f /\ y = x
      <4>1. N[g][y] = N[f][x] /\ N[g][y] # 0 /\ y \in Entries /\ x \in Entries
        BY Zenon, <2>1, <2>4, <2>6, <3>2
      <4> QED
        BY SMTT(40), <3>1, <4>1
    <3> QED
      BY SMTT(40), <1>4, <2>1, <2>2, <2>3, <2>4, <2>6, <3>3
  <2>7. CASE N[g][y] # addr
    <3>1. ~(g = f /\ y = x)
      BY <1>1, <2>7
    <3> QED
      BY ZenonT(40), <1>4, <2>1, <2>2, <2>3, <2>4, <2>5, <2>7, <3>1
  <2> QED
    BY <2>6, <2>7
<1>9. o..o+m-1 \subseteq Positions
  <2> SUFFICES ASSUME NEW pos \in o..o+m-1 PROVE pos \in Positions
    OBVIOUS
  <2>1. pos \in Nat /\ pos \div BSIZE = o \div BSIZE
    BY <1>2, SameBlock
  <2>2. pos < MAXFILE * BSIZE
    <3> DEFINE q == o \div BSIZE
    <3> HIDE DEF q
    <3>1. q \in Nat /\ q <= MAXFILE - 1 /\ MAXFILE \in Nat /\ BSIZE \in Nat
      BY <1>2, EntrySet DEF q
    <3>2. pos < BSIZE * q + BSIZE
      <4>1. pos = BSIZE * q + (pos % BSIZE) /\ pos % BSIZE \in 0..BSIZE-1
        BY <2>1, Split DEF q
      <4> QED
        BY <2>1, <3>1, <4>1
    <3>3. BSIZE * q + BSIZE <= MAXFILE * BSIZE
      <4>1. BSIZE * (q + 1) <= BSIZE * MAXFILE
        BY <3>1
      <4> QED
        BY <3>1, <4>1
    <3>4. BSIZE * q \in Nat /\ MAXFILE * BSIZE \in Nat
      BY <3>1
    <3> QED
      BY <2>1, <3>1, <3>2, <3>3, <3>4
  <2>3. MAXFILE * BSIZE \in Nat
    BY EntrySet
  <2> QED
    BY <2>1, <2>2, <2>3 DEF Positions
<1>10. ASSUME NEW pos \in o..o+m-1
       PROVE  BlockOf(j[f], l, pos \div BSIZE) # 0 /\ ByteAt(j[f], l, pos) = p
  <2> DEFINE r == pos % BSIZE
  <2> HIDE DEF r
  <2>1. EntryOf(pos \div BSIZE) = x /\ r \in Bytes(o, m) /\ r \in 0..BSIZE-1
    BY Zenon, <1>6, <1>7, <1>9 DEF r
  <2>2. BlockOf(j[f], l, pos \div BSIZE) = addr
    BY Zenon, <1>1, <1>6, <1>9, <2>1
  <2> QED
    BY Zenon, <1>4, <2>1, <2>2 DEF ByteAt, r
<1>11. Written(j[f], l, o, o + m, p)
  <2>1. o + m - 1 = (o + m) - 1
    BY <1>2
  <2> QED
    BY Zenon, <1>10, <2>1 DEF Written
<1> QED
  BY ZenonT(40), <1>1, <1>4, <1>5, <1>8, <1>11 DEF Wrote, l

-----------------------------------------------------------------------------
(***************************************************************************)
(* A step of process p in writei() on file f that writes m bytes at offset *)
(* o, and ends the chunk or goes on with it.                               *)
(***************************************************************************)
Calls == {NoCall} \cup [f : Inodes, n : Nat, i : Nat, n1 : Nat, tot : Nat]

WriteStep(p, f, o, m) ==
  LET c == call[p]  d == call'[p]  size == ip[f].size IN
  /\ DataInv /\ p \in Procs /\ InWritei(p) /\ f \in Inodes /\ c.f = f /\ o = off[f] + c.tot
  /\ m \in Nat /\ c.tot + m <= c.n1
  /\ ip' \in InodeTable /\ Wrote(f, o, m, p, ip', blk', used')
  /\ off' \in [Inodes -> Nat] /\ off'[f] \in off[f]..o+m /\ off'[f] <= ip'[f].size
  /\ ip'[f].size >= size /\ (ip'[f].size = size \/ ip'[f].size <= o + m)
  /\ \A g \in Inodes : g # f => off'[g] = off[g] /\ ip'[g].size = ip[g].size
  /\ call' \in [Procs -> Calls] /\ \A q \in Procs : q # p => call'[q] = call[q]
  /\ \/ d = NoCall
     \/ d # NoCall /\ d.n1 = 0 /\ d.i <= d.n
     \/ /\ d # NoCall /\ d.f = f /\ d.n = c.n /\ d.i = c.i /\ d.n1 = c.n1 /\ d.tot = c.tot + m
        /\ c.tot + m < c.n1 /\ off'[f] = off[f]

(* The types of what a step like that reads. *)
LEMMA WriteStepTypes ==
  ASSUME NEW p, NEW f, NEW o, NEW m, WriteStep(p, f, o, m)
  PROVE  /\ p \in Procs /\ f \in Inodes /\ call[p] # NoCall /\ InChunk(p) /\ call[p].f = f
         /\ call[p].tot \in Nat /\ call[p].n1 \in Nat /\ call[p].i \in Nat /\ call[p].n \in Nat
         /\ off[f] \in Nat /\ o = off[f] + call[p].tot /\ m \in Nat /\ call[p].tot + m <= call[p].n1
         /\ off[f] <= ip[f].size /\ off[f] + call[p].n1 <= MAXFILE * BSIZE
         /\ Written(ip[f], blk, off[f], o, p)
         /\ \A g \in Inodes : ip[g].size \in 0..MAXFILE*BSIZE /\ ip'[g].size \in 0..MAXFILE*BSIZE
         /\ \A q \in Procs : q # p /\ InChunk(q) => call[q].f # f
         /\ MAXFILE * BSIZE \in Nat
<1>1. /\ TypeOK /\ WriteInv /\ p \in Procs /\ f \in Inodes /\ call[p] # NoCall /\ InChunk(p) /\ call[p].f = f
      /\ o = off[f] + call[p].tot /\ m \in Nat /\ call[p].tot + m <= call[p].n1 /\ ip' \in InodeTable
  BY Zenon DEF WriteStep, InWritei, InChunk, DataInv
<1>2. call[p] \in [f : Inodes, n : Nat, i : Nat, n1 : Nat, tot : Nat]
  BY <1>1 DEF TypeOK
<1>3. off[f] \in Nat /\ \A g \in Inodes : ip[g].size \in 0..MAXFILE*BSIZE /\ ip'[g].size \in 0..MAXFILE*BSIZE
  BY SMTT(40), <1>1 DEF TypeOK, InodeTable
<1>4. /\ off[f] <= ip[f].size /\ off[f] + call[p].n1 <= MAXFILE * BSIZE
      /\ Written(ip[f], blk, off[f], o, p)
  BY Zenon, <1>1 DEF WriteInv
<1>5. \A q \in Procs : q # p /\ InChunk(q) => call[q].f # f
  BY Zenon, <1>1 DEF WriteInv
<1>6. MAXFILE * BSIZE \in Nat
  BY EntrySet
<1> QED
  BY Zenon, <1>1, <1>2, <1>3, <1>4, <1>5, <1>6

(* All that the chunk has written so far, and now, is there. *)
LEMMA ChunkWritten ==
  ASSUME NEW p, NEW f, NEW o, NEW m, WriteStep(p, f, o, m)
  PROVE  Written(ip'[f], blk', off[f], o + m, p)
<1> SUFFICES ASSUME NEW pos \in off[f]..(o + m)-1
             PROVE  BlockOf(ip'[f], blk', pos \div BSIZE) # 0 /\ ByteAt(ip'[f], blk', pos) = p
  BY Zenon DEF Written
<1>1. Wrote(f, o, m, p, ip', blk', used')
  BY Zenon DEF WriteStep
<1>0. /\ off[f] \in Nat /\ call[p].tot \in Nat /\ call[p].n1 \in Nat /\ m \in Nat
      /\ o = off[f] + call[p].tot /\ call[p].tot + m <= call[p].n1
      /\ off[f] + call[p].n1 <= MAXFILE * BSIZE /\ MAXFILE * BSIZE \in Nat
  BY Zenon, WriteStepTypes
<1>2. pos \in Nat /\ pos \in Positions
  BY <1>0 DEF Positions
<1>3. CASE pos < o
  <2>1. pos \in off[f]..o-1
    BY <1>0, <1>3
  <2>2. BlockOf(ip[f], blk, pos \div BSIZE) # 0 /\ ByteAt(ip[f], blk, pos) = p
    BY ZenonT(40), <2>1, WriteStepTypes DEF Written
  <2> QED
    BY ZenonT(40), <1>1, <1>2, <2>2, WriteStepTypes DEF Wrote
<1>4. CASE ~(pos < o)
  <2>1. pos \in o..(o + m)-1
    BY <1>0, <1>2, <1>4
  <2> QED
    BY SMTT(40), <1>1, <2>1 DEF Wrote, Written
<1> QED
  BY <1>3, <1>4

(* The size of a file grows only over bytes that have been written. *)
LEMMA SizeCovered ==
  ASSUME NEW p, NEW f, NEW o, NEW m, WriteStep(p, f, o, m),
         NEW g \in Inodes, NEW pos \in 0..ip'[g].size-1
  PROVE  \/ pos \in 0..ip[g].size-1
         \/ g = f /\ pos \in off[f]..(o + m)-1
<1>1. /\ off[f] \in Nat /\ o \in Nat /\ m \in Nat /\ off[f] <= ip[f].size
      /\ ip[g].size \in Nat /\ ip'[g].size \in Nat /\ ip[f].size \in Nat
  <2>1. /\ ip[f].size \in 0..MAXFILE*BSIZE /\ ip[g].size \in 0..MAXFILE*BSIZE
        /\ ip'[g].size \in 0..MAXFILE*BSIZE
    BY Zenon, WriteStepTypes
  <2>2. /\ off[f] \in Nat /\ call[p].tot \in Nat /\ o = off[f] + call[p].tot /\ m \in Nat
        /\ off[f] <= ip[f].size
    BY Zenon, WriteStepTypes
  <2> QED
    BY <2>1, <2>2
<1>2. /\ g # f => ip'[g].size = ip[g].size
      /\ ip'[f].size = ip[f].size \/ ip'[f].size <= o + m
  BY Zenon DEF WriteStep
<1> QED
  BY SMTT(40), <1>1, <1>2

(* The invariant is preserved. *)
LEMMA WriteStepInv ==
  ASSUME NEW p, NEW f, NEW o, NEW m, WriteStep(p, f, o, m)
  PROVE  DataInv'
<1>1. /\ blk' \in [DataBlocks -> Rows] /\ used' \in SUBSET DataBlocks /\ Owns(BlockMap(ip', blk'), used')
      /\ ip' \in InodeTable /\ off' \in [Inodes -> Nat] /\ call' \in [Procs -> Calls]
  BY ZenonT(40) DEF WriteStep, Wrote
<1>2. TypeOK'
  BY SMTT(40), <1>1 DEF TypeOK, Rows, InodeTable, Calls
<1>3. OneOwner'
  BY SMTT(40), <1>1 DEF OneOwner
<1>4. \A g \in Inodes, pos \in Positions : BlockOf(ip[g], blk, pos \div BSIZE) # 0 =>
        /\ BlockOf(ip'[g], blk', pos \div BSIZE) # 0
        /\ g # f => ByteAt(ip'[g], blk', pos) = ByteAt(ip[g], blk, pos)
  BY ZenonT(40) DEF WriteStep, Wrote
<1>5. NoHoles'
  <2> SUFFICES ASSUME NEW g \in Inodes, NEW pos \in 0..ip'[g].size-1
               PROVE  BlockOf(ip'[g], blk', pos \div BSIZE) # 0
    BY DEF NoHoles
  <2>1. CASE pos \in 0..ip[g].size-1
    <3>1. BlockOf(ip[g], blk, pos \div BSIZE) # 0
      BY Zenon, <2>1 DEF WriteStep, DataInv, NoHoles
    <3>2. pos \in Positions
      <4>1. ip[g].size \in 0..MAXFILE*BSIZE /\ MAXFILE * BSIZE \in Nat
        BY Zenon, WriteStepTypes
      <4> QED
        BY <2>1, <4>1 DEF Positions
    <3> QED
      BY SMTT(40), <1>4, <3>1, <3>2
  <2>2. CASE g = f /\ pos \in off[f]..(o + m)-1
    BY <2>2, ChunkWritten DEF Written
  <2> QED
    BY SMTT(40), <2>1, <2>2, SizeCovered
<1>6. ASSUME NEW q \in Procs, q # p, InChunk(q)
      PROVE  /\ call'[q] = call[q] /\ call[q].f # f /\ call[q].f \in Inodes
             /\ off'[call[q].f] = off[call[q].f] /\ ip'[call[q].f].size = ip[call[q].f].size
             /\ call[q].tot \in Nat /\ off[call[q].f] \in Nat
             /\ call[q].tot < call[q].n1 /\ call[q].n1 \in Nat
             /\ off[call[q].f] <= ip[call[q].f].size /\ off[call[q].f] + call[q].n1 <= MAXFILE * BSIZE
             /\ Written(ip[call[q].f], blk, off[call[q].f], off[call[q].f] + call[q].tot, q)
  <2>1. call[q] \in [f : Inodes, n : Nat, i : Nat, n1 : Nat, tot : Nat]
    BY ZenonT(40), <1>6 DEF WriteStep, DataInv, TypeOK, InChunk
  <2>2. call'[q] = call[q] /\ call[q].f # f
    <3>1. call'[q] = call[q]
      BY Zenon, <1>6 DEF WriteStep
    <3>2. call[q].f # f
      BY Zenon, <1>6, WriteStepTypes
    <3> QED
      BY <3>1, <3>2
  <2>3. off'[call[q].f] = off[call[q].f] /\ ip'[call[q].f].size = ip[call[q].f].size /\ off[call[q].f] \in Nat
    BY ZenonT(40), <2>1, <2>2 DEF WriteStep, DataInv, TypeOK
  <2>4. /\ call[q].tot < call[q].n1
        /\ off[call[q].f] <= ip[call[q].f].size /\ off[call[q].f] + call[q].n1 <= MAXFILE * BSIZE
        /\ Written(ip[call[q].f], blk, off[call[q].f], off[call[q].f] + call[q].tot, q)
    BY ZenonT(40), <1>6 DEF WriteStep, DataInv, WriteInv
  <2> QED
    BY ZenonT(40), <2>1, <2>2, <2>3, <2>4
<1>7. \/ call'[p] = NoCall
      \/ call'[p] # NoCall /\ call'[p].n1 = 0 /\ call'[p].i <= call'[p].n /\ ~InChunk(p)'
      \/ /\ call'[p] # NoCall /\ call'[p].f = f /\ call'[p].n = call[p].n /\ call'[p].i = call[p].i
         /\ call'[p].n1 = call[p].n1 /\ call'[p].tot = call[p].tot + m
         /\ call[p].tot + m < call[p].n1 /\ off'[f] = off[f]
  <2>1. call'[p].n1 = 0 => ~InChunk(p)'
    BY DEF InChunk
  <2> QED
    BY Zenon, <2>1 DEF WriteStep
<1>8. \A q \in Procs : call'[q] # NoCall => call'[q].i + call'[q].n1 <= call'[q].n
  <2> SUFFICES ASSUME NEW q \in Procs, call'[q] # NoCall PROVE call'[q].i + call'[q].n1 <= call'[q].n
    OBVIOUS
  <2>1. \A r \in Procs : call[r] # NoCall => call[r].i + call[r].n1 <= call[r].n
    BY Zenon DEF WriteStep, DataInv, WriteInv
  <2>2. CASE q # p
    BY ZenonT(40), <2>1, <2>2 DEF WriteStep
  <2>3. CASE q = p
    <3>1. call'[p] \in [f : Inodes, n : Nat, i : Nat, n1 : Nat, tot : Nat]
      BY Zenon, <1>1, <2>3, WriteStepTypes DEF Calls
    <3>2. /\ call[p].i \in Nat /\ call[p].n1 \in Nat /\ call[p].n \in Nat
          /\ call[p].i + call[p].n1 <= call[p].n
      BY Zenon, <2>1, WriteStepTypes
    <3>3. \/ call'[p].n1 = 0 /\ call'[p].i <= call'[p].n
          \/ call'[p].n = call[p].n /\ call'[p].i = call[p].i /\ call'[p].n1 = call[p].n1
      BY Zenon, <1>7, <2>3
    <3>4. call'[p].i \in Nat /\ call'[p].n \in Nat
      BY <3>1
    <3> QED
      BY <2>3, <3>2, <3>3, <3>4
  <2> QED
    BY <2>2, <2>3
<1>9. \A q \in Procs : InChunk(q)' => InChunk(q)
  <2> SUFFICES ASSUME NEW q \in Procs, InChunk(q)' PROVE InChunk(q)
    OBVIOUS
  <2>1. CASE q = p
    BY Zenon, <2>1, WriteStepTypes
  <2>2. CASE q # p
    BY Zenon, <2>2 DEF WriteStep, InChunk
  <2> QED
    BY <2>1, <2>2
<1>10. InChunk(p)' => /\ call'[p].f = f /\ call'[p].n1 = call[p].n1 /\ call'[p].tot = call[p].tot + m
                      /\ call[p].tot + m < call[p].n1 /\ off'[f] = off[f]
  BY Zenon, <1>7 DEF InChunk
<1>11. \A q, r \in Procs : InChunk(q)' /\ InChunk(r)' /\ call'[q].f = call'[r].f => q = r
  <2>1. \A q, r \in Procs : InChunk(q) /\ InChunk(r) /\ call[q].f = call[r].f => q = r
    BY ZenonT(40) DEF WriteStep, DataInv, WriteInv
  <2>2. ASSUME NEW q \in Procs, InChunk(q)' PROVE call'[q].f = call[q].f
    <3>1. CASE q = p
      BY ZenonT(40), <1>10, <2>2, <3>1, WriteStepTypes
    <3>2. CASE q # p
      BY Zenon, <1>6, <1>9, <2>2, <3>2
    <3> QED
      BY Zenon, <3>1, <3>2
  <2> QED
    BY Zenon, <1>9, <2>1, <2>2
<1>12. ASSUME NEW q \in Procs, InChunk(q)'
       PROVE  LET c == call'[q]  a == off'[c.f] IN
              /\ c.tot < c.n1 /\ a <= ip'[c.f].size /\ a + c.n1 <= MAXFILE * BSIZE
              /\ Written(ip'[c.f], blk', a, a + c.tot, q)
  <2>1. CASE q = p
    <3>1. /\ call'[p].f = f /\ call'[p].n1 = call[p].n1 /\ call'[p].tot = call[p].tot + m
          /\ call[p].tot + m < call[p].n1 /\ off'[f] = off[f]
      BY ZenonT(40), <1>10, <1>12, <2>1
    <3>2. off[f] <= ip'[f].size /\ off[f] + call[p].n1 <= MAXFILE * BSIZE /\ off[f] + (call[p].tot + m) = o + m
      <4>1. off'[f] <= ip'[f].size
        BY Zenon DEF WriteStep
      <4>2. off[f] + call[p].n1 <= MAXFILE * BSIZE
        BY Zenon, WriteStepTypes
      <4>3. o = off[f] + call[p].tot /\ off[f] \in Nat /\ call[p].tot \in Nat /\ m \in Nat
        BY Zenon, WriteStepTypes
      <4>4. off[f] + (call[p].tot + m) = o + m
        BY <4>3
      <4> QED
        BY Zenon, <3>1, <4>1, <4>2, <4>4
    <3>3. Written(ip'[f], blk', off[f], off[f] + (call[p].tot + m), p)
      BY Zenon, <3>2, ChunkWritten
    <3> QED
      BY Zenon, <2>1, <3>1, <3>2, <3>3
  <2>2. CASE q # p
    <3> DEFINE g == call[q].f
               a == off[g]
               e == off[g] + call[q].tot
    <3> HIDE DEF g, a, e
    <3>1. /\ call'[q] = call[q] /\ g # f /\ g \in Inodes /\ off'[g] = a /\ ip'[g].size = ip[g].size
          /\ call[q].tot \in Nat /\ a \in Nat /\ call[q].tot < call[q].n1 /\ call[q].n1 \in Nat
          /\ a <= ip[g].size /\ a + call[q].n1 <= MAXFILE * BSIZE
          /\ Written(ip[g], blk, a, e, q)
      BY Zenon, <1>6, <1>9, <1>12, <2>2 DEF g, a, e
    <3>2. ASSUME NEW pos \in a..e-1
          PROVE  BlockOf(ip'[g], blk', pos \div BSIZE) # 0 /\ ByteAt(ip'[g], blk', pos) = q
      <4>1. pos \in Positions
        <5>1. MAXFILE * BSIZE \in Nat
          BY Zenon, WriteStepTypes
        <5> QED
          BY <3>1, <5>1 DEF Positions, e, a
      <4>2. BlockOf(ip[g], blk, pos \div BSIZE) # 0 /\ ByteAt(ip[g], blk, pos) = q
        BY Zenon, <3>1 DEF Written
      <4> QED
        BY ZenonT(40), <1>4, <3>1, <4>1, <4>2
    <3>3. Written(ip'[g], blk', a, e, q)
      BY <3>2 DEF Written
    <3> QED
      BY Zenon, <3>1, <3>3 DEF g, a, e
  <2> QED
    BY Zenon, <2>1, <2>2
<1>13. WriteInv'
  BY Zenon, <1>8, <1>11, <1>12 DEF WriteInv
<1> QED
  BY <1>2, <1>3, <1>5, <1>13 DEF DataInv

(* The bytes of the chunk are the only ones that have changed. *)
LEMMA WriteStepLands ==
  ASSUME NEW p, NEW f, NEW o, NEW m, WriteStep(p, f, o, m), NEW g \in Inodes
  PROVE  ContentsStep(g)
<1> DEFINE c == Contents(g)
           d == Contents(g)'
<1> HIDE DEF c, d
<1>1. \A pos \in 0..ip[g].size-1 : c[pos] = ByteAt(ip[g], blk, pos)
  BY DEF Contents, c
<1>2. \A pos \in 0..ip'[g].size-1 : d[pos] = ByteAt(ip'[g], blk', pos)
  BY DEF Contents, d
<1>3. DOMAIN c = 0..ip[g].size-1 /\ DOMAIN d = 0..ip'[g].size-1
  BY SMTT(40) DEF Contents, c, d
<1>4. ASSUME NEW pos \in 0..ip[g].size-1
      PROVE  ByteAt(ip'[g], blk', pos) = IF g = f /\ pos \in o..o+m-1 THEN p ELSE ByteAt(ip[g], blk, pos)
  <2>1. pos \in Positions
    <3>1. ip[g].size \in 0..MAXFILE*BSIZE /\ MAXFILE * BSIZE \in Nat
      BY Zenon, WriteStepTypes
    <3> QED
      BY <3>1 DEF Positions
  <2>2. BlockOf(ip[g], blk, pos \div BSIZE) # 0
    BY Zenon DEF WriteStep, DataInv, NoHoles
  <2> QED
    BY ZenonT(40), <2>1, <2>2 DEF WriteStep, Wrote
<1>5. CASE g # f
  <2>1. ip'[g].size = ip[g].size
    BY Zenon, <1>5 DEF WriteStep
  <2>2. d = c
    BY SMTT(40), <1>4, <1>5, <2>1 DEF Contents, c, d
  <2> QED
    BY <2>2 DEF ContentsStep, c, d
<1>6. CASE g = f
  <2>1. ip[f].size \in Nat /\ ip'[f].size \in Nat /\ ip'[f].size >= ip[f].size
    <3>1. f \in Inodes /\ ip'[f].size >= ip[f].size
      BY Zenon DEF WriteStep
    <3>2. ip[f].size \in 0..MAXFILE*BSIZE /\ ip'[f].size \in 0..MAXFILE*BSIZE
      BY Zenon, <3>1, WriteStepTypes
    <3> QED
      BY <3>1, <3>2
  <2>2. ASSUME NEW pos \in off[f]..(o + m)-1
        PROVE  ByteAt(ip'[f], blk', pos) = p
    BY SMTT(40), ChunkWritten DEF Written
  <2>3. /\ off[f] \in Nat /\ o \in Nat /\ m \in Nat /\ off[f] <= o /\ o + m <= off[f] + call[p].n1
        /\ off'[f] \in off[f]..o+m /\ off'[f] <= ip'[f].size /\ call[p].n1 \in Nat
    <3>1. off'[f] \in off[f]..o+m /\ off'[f] <= ip'[f].size
      BY Zenon DEF WriteStep
    <3>2. /\ off[f] \in Nat /\ call[p].tot \in Nat /\ m \in Nat /\ call[p].n1 \in Nat
          /\ o = off[f] + call[p].tot /\ call[p].tot + m <= call[p].n1
      BY Zenon, WriteStepTypes
    <3> QED
      BY <3>1, <3>2
  <2>4. DOMAIN c \subseteq DOMAIN d
    BY SMTT(40), <1>3, <1>6, <2>1
  <2>5. ASSUME NEW pos \in DOMAIN d
        PROVE  \/ pos \in DOMAIN c /\ d[pos] = c[pos]
               \/ pos \in off[f]..off[f]+call[p].n1-1 /\ d[pos] = p
    <3>1. pos \in 0..ip'[g].size-1 /\ d[pos] = ByteAt(ip'[g], blk', pos)
      BY <1>2, <1>3
    <3>2. CASE pos \in 0..ip[g].size-1
      <4>1. c[pos] = ByteAt(ip[g], blk, pos) /\ pos \in DOMAIN c
        BY Zenon, <1>1, <1>3, <3>2
      <4>2. CASE pos \in o..o+m-1
        <5>1. pos \in off[f]..off[f]+call[p].n1-1
          BY <2>3, <4>2
        <5> QED
          BY Zenon, <1>4, <1>6, <3>1, <3>2, <4>2, <5>1
      <4>3. CASE pos \notin o..o+m-1
        BY Zenon, <1>4, <3>1, <3>2, <4>1, <4>3
      <4> QED
        BY Zenon, <4>2, <4>3
    <3>3. CASE g = f /\ pos \in off[f]..(o + m)-1
      <4>1. pos \in off[f]..off[f]+call[p].n1-1
        BY <2>3, <3>3
      <4> QED
        BY Zenon, <2>2, <3>1, <3>3, <4>1
    <3> QED
      BY ZenonT(40), <3>1, <3>2, <3>3, SizeCovered
  <2>6. ASSUME NEW pos \in off[f]..off'[f]-1
        PROVE  d[pos] = p
    <3>1. pos \in off[f]..(o + m)-1 /\ pos \in 0..ip'[f].size-1
      BY <2>1, <2>3
    <3> QED
      BY Zenon, <1>2, <1>6, <2>2, <3>1
  <2>7. Lands(p, f, c, d)
    BY Zenon, <2>4, <2>5, <2>6 DEF Lands
  <2>8. p \in Procs /\ InWritei(p) /\ call[p].f = g
    BY Zenon, <1>6 DEF WriteStep
  <2> QED
    BY ZenonT(40), <1>6, <2>7, <2>8 DEF ContentsStep, c, d
<1> QED
  BY Zenon, <1>5, <1>6

(* The chunk of process p ends after tot bytes; i is the inode table after *)
(* bmap().                                                                 *)
Finishes(p, f, tot, i) ==
  /\ DataInv /\ p \in Procs /\ InWritei(p) /\ call[p].f = f
  /\ tot \in Nat /\ tot <= call[p].n1
  /\ i \in InodeTable /\ \A g \in Inodes : i[g].size = ip[g].size
  /\ Finish(p, call[p], tot, i)

(* What a process in writei() has in hand. *)
LEMMA InWriteiTypes ==
  ASSUME DataInv, NEW p \in Procs, InWritei(p)
  PROVE  /\ call[p] \in [f : Inodes, n : Nat, i : Nat, n1 : Nat, tot : Nat] /\ call[p] # NoCall
         /\ call[p].f \in Inodes /\ off[call[p].f] \in Nat /\ call[p].tot \in Nat /\ call[p].n1 \in Nat
         /\ call[p].i \in Nat /\ call[p].n \in Nat /\ call[p].i + call[p].n1 <= call[p].n
         /\ call[p].tot < call[p].n1
         /\ off[call[p].f] <= ip[call[p].f].size /\ off[call[p].f] + call[p].n1 <= MAXFILE * BSIZE
         /\ off[call[p].f] + call[p].tot \in Positions
         /\ MAXFILE * BSIZE \in Nat
<1>1. call[p] \in [f : Inodes, n : Nat, i : Nat, n1 : Nat, tot : Nat] /\ call[p] # NoCall
  BY DEF DataInv, TypeOK, InWritei
<1>2. off[call[p].f] \in Nat
  BY Zenon, <1>1 DEF DataInv, TypeOK
<1>3. InChunk(p) /\ call[p].tot < call[p].n1
  BY ZenonT(40) DEF InWritei, InChunk
<1>4. /\ call[p].i + call[p].n1 <= call[p].n
      /\ off[call[p].f] <= ip[call[p].f].size /\ off[call[p].f] + call[p].n1 <= MAXFILE * BSIZE
  BY Zenon, <1>1, <1>3 DEF DataInv, WriteInv
<1>5. MAXFILE * BSIZE \in Nat
  BY EntrySet
<1>6. off[call[p].f] + call[p].tot \in Positions
  BY <1>1, <1>2, <1>3, <1>4, <1>5 DEF Positions
<1> QED
  BY Zenon, <1>1, <1>2, <1>3, <1>4, <1>5, <1>6

(* What the end of writei() and of a round of filewrite() does to inode,   *)
(* offset and call.                                                        *)
LEMMA FinishResult ==
  ASSUME NEW p, NEW f, NEW tot, NEW i, Finishes(p, f, tot, i)
  PROVE  /\ ip' \in InodeTable /\ \A g \in Inodes : ip'[g].addrs = i[g].addrs
         /\ off' \in [Inodes -> Nat] /\ off'[f] = off[f] + tot
         /\ ip'[f].size = IF ip[f].size <= off[f] + tot THEN off[f] + tot ELSE ip[f].size
         /\ \A g \in Inodes : g # f => off'[g] = off[g] /\ ip'[g].size = ip[g].size
         /\ call' \in [Procs -> Calls] /\ \A q \in Procs : q # p => call'[q] = call[q]
         /\ call'[p] = NoCall \/ (call'[p] # NoCall /\ call'[p].n1 = 0 /\ call'[p].i <= call'[p].n)
<1> DEFINE c == call[p]
           end == off[f] + tot
           s == IF end > i[f].size THEN end ELSE i[f].size
<1> HIDE DEF c, end, s
<1>1. /\ p \in Procs /\ f \in Inodes /\ c \in [f : Inodes, n : Nat, i : Nat, n1 : Nat, tot : Nat] /\ c.f = f
      /\ off[f] \in Nat /\ tot \in Nat /\ tot <= c.n1 /\ c.i + c.n1 <= c.n
      /\ off[f] + c.n1 <= MAXFILE * BSIZE /\ MAXFILE * BSIZE \in Nat
      /\ c.i \in Nat /\ c.n \in Nat /\ c.n1 \in Nat
  BY Zenon, InWriteiTypes DEF Finishes, c
<1>2. /\ ip' = [i EXCEPT ![f].size = s] /\ off' = [off EXCEPT ![f] = end]
      /\ call' = [call EXCEPT ![p] = IF tot # c.n1 \/ c.i + tot = c.n THEN NoCall
                                     ELSE [c EXCEPT !.i = @ + tot, !.n1 = 0, !.tot = 0]]
  BY Zenon, <1>1 DEF Finishes, Finish, c, end, s
<1>3. /\ i \in InodeTable /\ \A g \in Inodes : i[g].size = ip[g].size
      /\ off \in [Inodes -> Nat] /\ call \in [Procs -> Calls]
  BY SMTT(40) DEF Finishes, DataInv, TypeOK, Calls
<1>4. end \in Nat /\ i[f].size \in 0..MAXFILE*BSIZE
  BY <1>1, <1>3 DEF InodeTable, end
<1>5. s = (IF ip[f].size <= end THEN end ELSE ip[f].size) /\ s \in 0..MAXFILE*BSIZE
  <2>1. i[f].size = ip[f].size /\ i[f].size \in Int /\ end \in Int
    BY <1>1, <1>3, <1>4
  <2>2. s = IF ip[f].size <= end THEN end ELSE ip[f].size
    BY <2>1 DEF s
  <2>3. end <= MAXFILE * BSIZE
    BY <1>1 DEF end
  <2> QED
    BY <1>4, <2>1, <2>2, <2>3
<1>6. /\ ip' \in InodeTable /\ ip'[f].size = s /\ \A g \in Inodes : ip'[g].addrs = i[g].addrs
      /\ \A g \in Inodes : g # f => ip'[g] = i[g]
  <2> DEFINE r == [i[f] EXCEPT !.size = s]
  <2> HIDE DEF r
  <2>1. r \in [addrs : [0..NDIRECT -> 0..NBLOCKS], size : 0..MAXFILE*BSIZE] /\ r.size = s /\ r.addrs = i[f].addrs
    BY ZenonT(40), <1>1, <1>3, <1>5 DEF InodeTable, r
  <2>2. ip' = [i EXCEPT ![f] = r]
    BY Zenon, <1>2 DEF r
  <2>3. ip'[f] = r /\ ip' \in InodeTable /\ \A g \in Inodes : g # f => ip'[g] = i[g]
    BY Zenon, <1>1, <1>3, <2>1, <2>2 DEF InodeTable
  <2> QED
    BY Zenon, <2>1, <2>3
<1>7. off' \in [Inodes -> Nat] /\ off'[f] = end /\ \A g \in Inodes : g # f => off'[g] = off[g]
  BY Zenon, <1>1, <1>2, <1>3, <1>4
<1>8. /\ call' \in [Procs -> Calls] /\ \A q \in Procs : q # p => call'[q] = call[q]
      /\ call'[p] = NoCall \/ (call'[p] # NoCall /\ call'[p].n1 = 0 /\ call'[p].i <= call'[p].n)
  <2> DEFINE r == [c EXCEPT !.i = @ + tot, !.n1 = 0, !.tot = 0]
             d == IF tot # c.n1 \/ c.i + tot = c.n THEN NoCall ELSE r
  <2> HIDE DEF r, d
  <2>1. call' = [call EXCEPT ![p] = d]
    BY <1>2 DEF r, d
  <2>2. r.n1 = 0 /\ r.i = c.i + tot /\ r.n = c.n /\ r \in [f : Inodes, n : Nat, i : Nat, n1 : Nat, tot : Nat]
    <3>1. c.i + tot \in Nat /\ 0 \in Nat
      BY <1>1
    <3> QED
      BY Zenon, <1>1, <3>1 DEF r
  <2>3. r # NoCall
    BY <2>2, DataConstants
  <2>4. d \in Calls /\ (d = NoCall \/ (d # NoCall /\ d.n1 = 0 /\ d.i <= d.n))
    BY Zenon, <1>1, <2>2, <2>3 DEF Calls, d
  <2> QED
    BY Zenon, <1>1, <1>3, <2>1, <2>4
<1> QED
  BY Zenon, <1>3, <1>5, <1>6, <1>7, <1>8 DEF end

(* A chunk that ends is a write step. *)
LEMMA FinishIsWriteStep ==
  ASSUME NEW p, NEW f, NEW tot, NEW i, Finishes(p, f, tot, i), NEW o, o = off[f] + call[p].tot,
         NEW m \in Nat, call[p].tot + m <= call[p].n1, tot <= call[p].tot + m,
         Wrote(f, o, m, p, ip', blk', used')
  PROVE  WriteStep(p, f, o, m)
<1>0. Finishes(p, f, tot, i)
  BY Zenon
<1>1. /\ ip' \in InodeTable /\ off' \in [Inodes -> Nat] /\ off'[f] = off[f] + tot
      /\ ip'[f].size = IF ip[f].size <= off[f] + tot THEN off[f] + tot ELSE ip[f].size
      /\ \A g \in Inodes : g # f => off'[g] = off[g] /\ ip'[g].size = ip[g].size
      /\ call' \in [Procs -> Calls] /\ \A q \in Procs : q # p => call'[q] = call[q]
      /\ call'[p] = NoCall \/ (call'[p] # NoCall /\ call'[p].n1 = 0 /\ call'[p].i <= call'[p].n)
  BY ONLY SMTT(40), <1>0, FinishResult
<1>2. /\ DataInv /\ p \in Procs /\ InWritei(p) /\ call[p].f = f /\ tot \in Nat
  BY DEF Finishes
<1>3. /\ f \in Inodes /\ off[f] \in Nat /\ call[p].tot \in Nat /\ ip[f].size \in Nat
  BY SMTT(40), <1>2, InWriteiTypes DEF DataInv, TypeOK
<1>4. /\ off'[f] \in off[f]..o+m /\ off'[f] <= ip'[f].size /\ ip'[f].size >= ip[f].size
      /\ ip'[f].size = ip[f].size \/ ip'[f].size <= o + m
  <2>1. /\ off'[f] = off[f] + tot /\ tot \in Nat
        /\ ip'[f].size = IF ip[f].size <= off[f] + tot THEN off[f] + tot ELSE ip[f].size
    BY ZenonT(40), <1>1, <1>2
  <2>2. o = off[f] + call[p].tot /\ m \in Nat /\ tot <= call[p].tot + m
    BY Zenon
  <2> QED
    BY ONLY <1>3, <2>1, <2>2
<1> QED
  BY Zenon, <1>1, <1>2, <1>3, <1>4 DEF WriteStep

(* writei() with a block: it copies all it can, or the copy fails. *)
LEMMA WriteBlockIsWriteStep ==
  ASSUME DataInv, NEW p \in Procs, write_block(p)
  PROVE  \E m \in Nat : WriteStep(p, call[p].f, off[call[p].f] + call[p].tot, m)
<1> DEFINE c == call[p]
           f == c.f
           o == off[f] + c.tot
           m == min(c.n1 - c.tot, BSIZE - (o % BSIZE))
           map == bmap(ip[f], o \div BSIZE)
           inodes == [ip EXCEPT ![f].addrs = map.addrs]
<1> HIDE DEF c, f, o, m, map, inodes
<1>1. /\ c \in [f : Inodes, n : Nat, i : Nat, n1 : Nat, tot : Nat] /\ c # NoCall
      /\ f \in Inodes /\ off[f] \in Nat /\ c.tot \in Nat /\ c.n1 \in Nat /\ c.tot < c.n1
      /\ o \in Positions /\ InWritei(p)
  BY Zenon, InWriteiTypes DEF write_block, c, f, o
<1>2. o \in Nat /\ o \div BSIZE \in 0..MAXFILE-1 /\ o % BSIZE \in 0..BSIZE-1
  BY <1>1, PositionSplit
<1>3. m \in Nat /\ m <= BSIZE - (o % BSIZE) /\ c.tot + m <= c.n1
  <2> DEFINE r == o % BSIZE
  <2> HIDE DEF r
  <2>1. c.n1 - c.tot \in Int /\ BSIZE - r \in Int
    BY <1>1, <1>2, EntrySet DEF r
  <2>2. m = IF c.n1 - c.tot < BSIZE - r THEN c.n1 - c.tot ELSE BSIZE - r
    BY Zenon DEF min, m, r
  <2>3. r \in 0..BSIZE-1
    BY <1>2 DEF r
  <2>4. m \in Nat /\ m <= BSIZE - r /\ c.tot + m <= c.n1
    BY SMTT(40), <1>1, <2>2, <2>3, EntrySet
  <2> QED
    BY <2>4 DEF r
<1>4. Mapped(f, o \div BSIZE, inodes, map.disk.blk, map.disk.used, map.addr)
  <2>1. TypeOK /\ OneOwner
    BY DEF DataInv
  <2> QED
    BY Zenon, <1>1, <1>2, <2>1, Bmap DEF map, inodes
<1>5. inodes \in InodeTable /\ \A g \in Inodes : inodes[g].size = ip[g].size
  BY Zenon, <1>4 DEF Mapped
<1>6. /\ map.addr # 0 /\ used' = map.disk.used
      /\ \/ /\ blk' = Put(map.disk.blk, map.addr, o, m, p)
            /\ IF c.tot + m = c.n1 THEN Finish(p, c, c.n1, inodes)
               ELSE /\ call' = [call EXCEPT ![p].tot = @ + m]
                    /\ ip' = inodes /\ UNCHANGED off
         \/ \E k \in 0..m-1 : blk' = Put(map.disk.blk, map.addr, o, k, p) /\ Finish(p, c, c.tot, inodes)
  BY ZenonT(40) DEF write_block, c, f, o, m, map, inodes
<1>7. ASSUME NEW k \in Nat, k <= m, blk' = Put(map.disk.blk, map.addr, o, k, p),
             ip' \in InodeTable, \A g \in Inodes : ip'[g].addrs = inodes[g].addrs
      PROVE  Wrote(f, o, k, p, ip', blk', used')
  <2>1. TypeOK /\ OneOwner
    BY DEF DataInv
  <2>2. k <= BSIZE - (o % BSIZE)
    BY <1>2, <1>3, <1>7, EntrySet
  <2>3. Wrote(f, o, k, p, ip', Put(map.disk.blk, map.addr, o, k, p), map.disk.used)
    BY <1>1, <1>4, <1>6, <1>7, <2>1, <2>2, WroteBytes
  <2> QED
    BY ZenonT(40), <1>6, <1>7, <2>3
<1>8. ASSUME NEW tot, tot \in Nat, tot <= c.n1, Finish(p, c, tot, inodes), NEW k \in Nat, k <= m, tot <= c.tot + k,
             blk' = Put(map.disk.blk, map.addr, o, k, p)
      PROVE  WriteStep(p, f, o, k)
  <2>1. Finishes(p, f, tot, inodes)
    BY Zenon, <1>1, <1>5, <1>8 DEF Finishes, c, f
  <2>2. ip' \in InodeTable /\ \A g \in Inodes : ip'[g].addrs = inodes[g].addrs
    BY ONLY SMTT(40), <2>1, FinishResult
  <2>3. Wrote(f, o, k, p, ip', blk', used')
    BY Zenon, <1>7, <1>8, <2>2
  <2>4. c.tot + k <= c.n1
    BY <1>1, <1>3, <1>8
  <2> QED
    BY ZenonT(40), <1>8, <2>1, <2>3, <2>4, FinishIsWriteStep DEF c, o
<1>9. CASE blk' = Put(map.disk.blk, map.addr, o, m, p) /\ c.tot + m = c.n1 /\ Finish(p, c, c.n1, inodes)
  <2>1. c.n1 \in Nat /\ c.n1 <= c.n1 /\ m <= m /\ c.n1 <= c.tot + m
    BY <1>1, <1>3, <1>9
  <2>2. WriteStep(p, f, o, m)
    BY Zenon, <1>3, <1>8, <1>9, <2>1
  <2> QED
    BY <1>3, <2>2 DEF c, f, o
<1>10. ASSUME NEW k \in 0..m-1, blk' = Put(map.disk.blk, map.addr, o, k, p), Finish(p, c, c.tot, inodes)
       PROVE  WriteStep(p, f, o, k) /\ k \in Nat
  <2>1. c.tot \in Nat /\ c.tot <= c.n1 /\ k \in Nat /\ k <= m /\ c.tot <= c.tot + k
    BY <1>1, <1>3, <1>10
  <2> QED
    BY <1>8, <1>10, <2>1
<1>11. CASE /\ blk' = Put(map.disk.blk, map.addr, o, m, p) /\ c.tot + m # c.n1
            /\ call' = [call EXCEPT ![p].tot = @ + m] /\ ip' = inodes /\ UNCHANGED off
  <2> DEFINE d == [c EXCEPT !.tot = @ + m]
  <2> HIDE DEF d
  <2>1. Wrote(f, o, m, p, ip', blk', used')
    <3>1. m <= m /\ ip' \in InodeTable /\ \A g \in Inodes : ip'[g].addrs = inodes[g].addrs
      <4>1. ip' = inodes
        BY <1>11
      <4> QED
        BY <1>3, <1>5, <4>1
    <3> QED
      BY <1>3, <1>7, <1>11, <3>1
  <2>2. c.tot + m \in Nat /\ c.tot + m < c.n1
    BY <1>1, <1>3, <1>11
  <2>3. /\ d \in [f : Inodes, n : Nat, i : Nat, n1 : Nat, tot : Nat]
        /\ d.f = f /\ d.n = c.n /\ d.i = c.i /\ d.n1 = c.n1 /\ d.tot = c.tot + m
    BY Zenon, <1>1, <2>2 DEF f, d
  <2>4. d # NoCall
    BY <2>3, DataConstants
  <2>5. call \in [Procs -> Calls] /\ off \in [Inodes -> Nat] /\ ip[f].size \in Nat
    BY <1>1 DEF DataInv, TypeOK, Calls
  <2>6. call' = [call EXCEPT ![p] = d]
    BY Zenon, <1>11 DEF c, d
  <2>7. call' \in [Procs -> Calls] /\ call'[p] = d /\ \A q \in Procs : q # p => call'[q] = call[q]
    <3>1. d \in Calls
      BY SMTT(40), <2>3 DEF Calls
    <3> QED
      BY Zenon, <2>5, <2>6, <3>1
  <2>8. /\ ip' \in InodeTable /\ \A g \in Inodes : ip'[g].size = ip[g].size
        /\ off' \in [Inodes -> Nat] /\ off' = off
    BY Zenon, <1>5, <1>11, <2>5
  <2>9. off'[f] \in off[f]..o+m /\ off'[f] <= ip'[f].size
    <3>1. off[f] <= ip[f].size
      BY Zenon, <1>1, InWriteiTypes DEF c, f
    <3>2. off[f] <= o + m
      BY <1>1, <1>3 DEF o
    <3> QED
      BY <1>1, <1>2, <1>3, <2>8, <3>1, <3>2
  <2>10. WriteStep(p, f, o, m)
    <3>1. ip'[f].size >= ip[f].size /\ ip'[f].size = ip[f].size
      <4>1. ip'[f].size = ip[f].size
        BY ZenonT(40), <1>1, <2>8
      <4>2. ip'[f].size \in Nat
        BY <1>1, <2>8, EntrySet DEF InodeTable
      <4> QED
        BY ONLY SMTT(40), <4>1, <4>2
    <3> QED
      BY Zenon, <1>1, <1>3, <2>1, <2>2, <2>3, <2>4, <2>7, <2>8, <2>9, <3>1 DEF WriteStep, c, f, o
  <2> QED
    BY Zenon, <1>3, <2>10 DEF c, f, o
<1> QED
  <2>1. \E k \in Nat : WriteStep(p, f, o, k)
    BY Zenon, <1>6, <1>9, <1>10, <1>11 DEF c, f, o
  <2> QED
    BY <2>1 DEF c, f, o

(* writei() without a block ends. *)
LEMMA WriteFullIsWriteStep ==
  ASSUME DataInv, NEW p \in Procs, write_full(p)
  PROVE  WriteStep(p, call[p].f, off[call[p].f] + call[p].tot, 0)
<1> DEFINE c == call[p]
           f == c.f
           o == off[f] + c.tot
           map == bmap(ip[f], o \div BSIZE)
           inodes == [ip EXCEPT ![f].addrs = map.addrs]
<1> HIDE DEF c, f, o, map, inodes
<1>1. /\ f \in Inodes /\ off[f] \in Nat /\ c.tot \in Nat /\ c.n1 \in Nat /\ c.tot < c.n1
      /\ o \in Positions /\ InWritei(p)
  BY Zenon, InWriteiTypes DEF write_full, c, f, o
<1>2. o \in Nat /\ o \div BSIZE \in 0..MAXFILE-1
  BY <1>1, PositionSplit
<1>3. TypeOK /\ OneOwner
  BY DEF DataInv
<1>4. Mapped(f, o \div BSIZE, inodes, map.disk.blk, map.disk.used, map.addr)
  BY Zenon, <1>1, <1>2, <1>3, Bmap DEF f, map, inodes
<1>5. inodes \in InodeTable /\ \A g \in Inodes : inodes[g].size = ip[g].size
  BY Zenon, <1>4 DEF Mapped
<1>6. used' = map.disk.used /\ blk' = map.disk.blk /\ Finish(p, c, c.tot, inodes)
  BY Zenon DEF write_full, c, f, o, map, inodes
<1>7. Finishes(p, f, c.tot, inodes)
  <2>1. c.tot <= c.n1
    BY SMTT(40), <1>1
  <2>2. p \in Procs /\ DataInv
    BY Zenon
  <2> QED
    BY Zenon, <1>1, <1>5, <1>6, <2>1, <2>2 DEF Finishes, c, f
<1>8. ip' \in InodeTable /\ \A g \in Inodes : ip'[g].addrs = inodes[g].addrs
  BY ONLY SMTT(40), <1>7, FinishResult
<1>9. Wrote(f, o, 0, p, ip', blk', used')
  BY Zenon, <1>1, <1>2, <1>3, <1>4, <1>6, <1>8, WroteNothing
<1>10. c.tot + 0 <= c.n1 /\ c.tot <= c.tot + 0
  BY SMTT(40), <1>1
<1> QED
  BY Zenon, <1>7, <1>9, <1>10, FinishIsWriteStep DEF c, f, o

-----------------------------------------------------------------------------
(* The other steps. *)

(* itrunc() takes the blocks of one file out of the map. *)
LEMMA StepTrunc ==
  ASSUME DataInv, NEW f \in Inodes, itrunc(f)
  PROVE  DataInv' /\ \A g \in Inodes : ContentsStep(g)
<1> DEFINE M == BlockMap(ip, blk)
           N == BlockMap(ip', blk')
<1> HIDE DEF M, N
<1>1. /\ ip \in InodeTable /\ blk \in [DataBlocks -> Rows] /\ used \in SUBSET DataBlocks /\ Owns(M, used)
      /\ off \in [Inodes -> Nat] /\ call \in [Procs -> Calls]
  BY DEF DataInv, TypeOK, OneOwner, InodeTable, Rows, Calls, M
<1>2. /\ used' = used \ Owned(ip[f]) /\ ip' = [ip EXCEPT ![f] = Empty] /\ off' = off /\ call' = call
      /\ blk' = [b \in DataBlocks |-> IF b \in used' THEN blk[b] ELSE Stale]
  BY DEF itrunc
<1>3. \A g \in Inodes, x \in Entries : M[g][x] = Entry(ip[g], blk, x)
  BY DEF BlockMap, M
<1>4. Owned(ip[f]) = {M[f][x] : x \in Entries}
  BY <1>3 DEF Owned
<1>5. Empty \in [addrs : [0..NDIRECT -> 0..NBLOCKS], size : 0..MAXFILE*BSIZE] /\ Empty.size = 0
      /\ \A x \in 0..NDIRECT : Empty.addrs[x] = 0
  <2>1. 0 \in 0..NBLOCKS /\ 0 \in 0..MAXFILE*BSIZE
    BY EntrySet
  <2> QED
    BY <2>1 DEF Empty
<1>6. ip' \in InodeTable /\ ip'[f] = Empty /\ \A g \in Inodes : g # f => ip'[g] = ip[g]
  BY Zenon, <1>1, <1>2, <1>5 DEF InodeTable
<1>7. blk' \in [DataBlocks -> Rows] /\ used' \in SUBSET DataBlocks /\ \A b \in used' : blk'[b] = blk[b]
  BY Zenon, <1>1, <1>2, ZeroRow
<1>8. \A g \in Inodes, x \in Entries : g # f /\ M[g][x] # 0 => M[g][x] \in used'
  BY SMTT(40), <1>1, <1>2, <1>4 DEF Owns
<1>9. \A g \in Inodes, x \in Entries : N[g][x] = IF g = f THEN 0 ELSE M[g][x]
  <2> SUFFICES ASSUME NEW g \in Inodes, NEW x \in Entries
               PROVE  Entry(ip'[g], blk', x) = IF g = f THEN 0 ELSE Entry(ip[g], blk, x)
    BY DEF BlockMap, M, N
  <2>1. NDIRECT \in 0..NDIRECT /\ (x <= NDIRECT => x \in 0..NDIRECT)
    BY EntrySet
  <2>2. CASE g = f
    BY Zenon, <1>5, <1>6, <2>1, <2>2 DEF Entry
  <2>3. CASE g # f
    <3>1. M[g][NDIRECT] = ip[g].addrs[NDIRECT]
      BY TopEntry DEF M
    <3>2. ip[g].addrs[NDIRECT] # 0 => blk'[ip[g].addrs[NDIRECT]] = blk[ip[g].addrs[NDIRECT]]
      BY Zenon, <1>7, <1>8, <2>3, <3>1, EntrySet
    <3> QED
      BY Zenon, <1>6, <2>3, <3>2 DEF Entry
  <2> QED
    BY <2>2, <2>3
<1>10. Owns(N, used')
  <2>1. \A g \in Inodes, x \in Entries : N[g][x] \in used' \cup {0}
    BY Zenon, <1>8, <1>9
  <2>2. \A b \in used' : \E g \in Inodes, x \in Entries : N[g][x] = b
    <3> SUFFICES ASSUME NEW b \in used' PROVE \E g \in Inodes, x \in Entries : N[g][x] = b
      OBVIOUS
    <3>1. b \in used /\ \A x \in Entries : M[f][x] # b
      BY Zenon, <1>2, <1>4
    <3>2. PICK g \in Inodes, x \in Entries : M[g][x] = b
      BY Zenon, <1>1, <3>1 DEF Owns
    <3> QED
      BY Zenon, <1>9, <3>1, <3>2
  <2>3. \A g, h \in Inodes, x, y \in Entries : N[g][x] # 0 /\ N[g][x] = N[h][y] => g = h /\ x = y
    BY <1>1, <1>9 DEF Owns
  <2> QED
    BY Zenon, <2>1, <2>2, <2>3 DEF Owns
<1>11. TypeOK' /\ OneOwner'
  BY Zenon, <1>1, <1>2, <1>6, <1>7, <1>10 DEF TypeOK, OneOwner, InodeTable, Rows, Calls, N
<1>12. ASSUME NEW g \in Inodes, g # f, NEW pos \in Positions, BlockOf(ip[g], blk, pos \div BSIZE) # 0
       PROVE  /\ BlockOf(ip'[g], blk', pos \div BSIZE) # 0
              /\ ByteAt(ip'[g], blk', pos) = ByteAt(ip[g], blk, pos)
  <2> DEFINE y == EntryOf(pos \div BSIZE)
  <2> HIDE DEF y
  <2>1. pos \div BSIZE \in 0..MAXFILE-1 /\ y \in Entries
    BY ZenonT(40), PositionSplit, EntrySet DEF y
  <2>2. BlockOf(ip[g], blk, pos \div BSIZE) = M[g][y] /\ BlockOf(ip'[g], blk', pos \div BSIZE) = N[g][y]
    BY <2>1, BlockOfEntry DEF M, N, y
  <2>3. N[g][y] = M[g][y] /\ M[g][y] # 0 /\ blk'[M[g][y]] = blk[M[g][y]]
    BY Zenon, <1>7, <1>8, <1>9, <1>12, <2>1, <2>2
  <2> QED
    BY ZenonT(40), <2>2, <2>3 DEF ByteAt
<1>13. \A g \in Inodes : ip[g].size \in 0..MAXFILE*BSIZE /\ 0..ip[g].size-1 \subseteq Positions
  BY SMTT(40), <1>1, EntrySet DEF InodeTable, Positions
<1>14. NoHoles'
  <2> SUFFICES ASSUME NEW g \in Inodes, NEW pos \in 0..ip'[g].size-1
               PROVE  BlockOf(ip'[g], blk', pos \div BSIZE) # 0
    BY Zenon DEF NoHoles
  <2>1. g # f /\ pos \in 0..ip[g].size-1
    BY SMTT(40), <1>5, <1>6
  <2>2. BlockOf(ip[g], blk, pos \div BSIZE) # 0
    BY Zenon, <2>1 DEF DataInv, NoHoles
  <2> QED
    BY Zenon, <1>12, <1>13, <2>1, <2>2
<1>15. \A p \in Procs : InChunk(p) => call[p].f # f
  BY DEF itrunc, Writing, InChunk
<1>16. WriteInv'
  <2> SUFFICES ASSUME NEW p \in Procs, InChunk(p)
               PROVE  LET c == call[p]  o == off[c.f] IN
                      /\ c.tot < c.n1 /\ o <= ip'[c.f].size /\ o + c.n1 <= MAXFILE * BSIZE
                      /\ Written(ip'[c.f], blk', o, o + c.tot, p)
    BY Zenon, <1>2 DEF DataInv, WriteInv, InChunk
  <2> DEFINE g == call[p].f
             o == off[g]
  <2> HIDE DEF g, o
  <2>1. /\ call[p] \in [f : Inodes, n : Nat, i : Nat, n1 : Nat, tot : Nat] /\ g # f /\ g \in Inodes
        /\ call[p].tot \in Nat /\ call[p].n1 \in Nat /\ o \in Nat
    BY ZenonT(40), <1>1, <1>15 DEF InChunk, Calls, g, o
  <2>2. /\ call[p].tot < call[p].n1 /\ o <= ip[g].size /\ o + call[p].n1 <= MAXFILE * BSIZE
        /\ Written(ip[g], blk, o, o + call[p].tot, p)
    BY ZenonT(40) DEF DataInv, WriteInv, g, o
  <2>3. ip'[g].size = ip[g].size
    BY ZenonT(40), <1>6, <2>1
  <2>4. \A pos \in o..(o + call[p].tot)-1 : pos \in Positions
    <3>1. MAXFILE * BSIZE \in Nat
      BY EntrySet
    <3> QED
      BY <2>1, <2>2, <3>1 DEF Positions
  <2>5. Written(ip'[g], blk', o, o + call[p].tot, p)
    BY Zenon, <1>12, <2>1, <2>2, <2>4 DEF Written
  <2> QED
    BY Zenon, <2>2, <2>3, <2>5 DEF g, o
<1>17. ASSUME NEW g \in Inodes PROVE ContentsStep(g)
  <2>1. CASE g = f
    BY Zenon, <1>5, <1>6, <2>1 DEF ContentsStep
  <2>2. CASE g # f
    <3>1. ip'[g].size = ip[g].size
      BY Zenon, <1>6, <2>2
    <3>2. \A pos \in 0..ip[g].size-1 : ByteAt(ip'[g], blk', pos) = ByteAt(ip[g], blk, pos)
      BY Zenon, <1>12, <1>13, <2>2 DEF DataInv, NoHoles
    <3>3. Contents(g)' = Contents(g)
      BY Zenon, <3>1, <3>2 DEF Contents
    <3> QED
      BY Zenon, <3>3 DEF ContentsStep
  <2> QED
    BY Zenon, <2>1, <2>2
<1> QED
  BY Zenon, <1>11, <1>14, <1>16, <1>17 DEF DataInv

(* Steps that leave the disk and the inodes alone. *)
LEMMA SameDisk ==
  ASSUME DataInv, UNCHANGED <<used, blk, ip>>, off' \in [Inodes -> Nat], call' \in [Procs -> Calls], WriteInv'
  PROVE  DataInv' /\ \A g \in Inodes : ContentsStep(g)
<1>1. TypeOK'
  BY Zenon DEF DataInv, TypeOK, Calls
<1>2. OneOwner' /\ NoHoles'
  BY Zenon DEF DataInv, OneOwner, NoHoles
<1>3. \A g \in Inodes : Contents(g)' = Contents(g)
  BY DEF Contents
<1> QED
  BY ZenonT(40), <1>1, <1>2, <1>3 DEF DataInv, ContentsStep

(* What an offset that moves has to respect. *)
LEMMA OffsetMoves ==
  ASSUME DataInv, NEW f \in Inodes, NEW o \in Nat, off' = [off EXCEPT ![f] = o],
         \A p \in Procs : InChunk(p) => call[p].f # f, UNCHANGED <<used, blk, ip, call>>
  PROVE  DataInv' /\ \A g \in Inodes : ContentsStep(g)
<1>1. off \in [Inodes -> Nat] /\ call \in [Procs -> Calls]
  BY DEF DataInv, TypeOK, Calls
<1>2. off' \in [Inodes -> Nat] /\ call' \in [Procs -> Calls] /\ \A g \in Inodes : g # f => off'[g] = off[g]
  BY Zenon, <1>1
<1>3. ASSUME NEW p \in Procs, InChunk(p) PROVE off'[call[p].f] = off[call[p].f]
  <2>1. call[p].f \in Inodes /\ call[p].f # f
    BY Zenon, <1>1, <1>3 DEF InChunk, Calls
  <2> QED
    BY <1>2, <2>1
<1>4. WriteInv'
  <2>1. call' = call /\ ip' = ip /\ blk' = blk
    OBVIOUS
  <2>2. \A p \in Procs : InChunk(p)' <=> InChunk(p)
    BY <2>1 DEF InChunk
  <2>3. ASSUME NEW p \in Procs, InChunk(p)'
        PROVE  LET c == call'[p]  a == off'[c.f] IN
               /\ c.tot < c.n1 /\ a <= ip'[c.f].size /\ a + c.n1 <= MAXFILE * BSIZE
               /\ Written(ip'[c.f], blk', a, a + c.tot, p)
    <3>1. InChunk(p) /\ off'[call[p].f] = off[call[p].f]
      BY Zenon, <1>3, <2>2, <2>3
    <3>2. LET c == call[p]  a == off[c.f] IN
          /\ c.tot < c.n1 /\ a <= ip[c.f].size /\ a + c.n1 <= MAXFILE * BSIZE
          /\ Written(ip[c.f], blk, a, a + c.tot, p)
      BY Zenon, <3>1 DEF DataInv, WriteInv
    <3> QED
      BY Zenon, <2>1, <3>1, <3>2
  <2>4. /\ \A p \in Procs : call[p] # NoCall => call[p].i + call[p].n1 <= call[p].n
        /\ \A p, q \in Procs : InChunk(p) /\ InChunk(q) /\ call[p].f = call[q].f => p = q
    BY Zenon DEF DataInv, WriteInv
  <2> QED
    BY Zenon, <2>1, <2>2, <2>3, <2>4 DEF WriteInv
<1> QED
  BY Zenon, <1>2, <1>4, SameDisk

(* Closing and opening a file sets its offset back when nobody writes to   *)
(* it.                                                                     *)
LEMMA StepReopen ==
  ASSUME DataInv, NEW f \in Inodes, reopen(f)
  PROVE  DataInv' /\ \A g \in Inodes : ContentsStep(g)
BY Zenon, OffsetMoves DEF reopen, InChunk

(* fileread() moves the offset, with the inode locked. *)
LEMMA StepRead ==
  ASSUME DataInv, NEW p \in Procs, NEW f \in Inodes, NEW n \in ReadCounts, fileread(p, f, n)
  PROVE  DataInv' /\ \A g \in Inodes : ContentsStep(g)
<1> DEFINE r == readi(ip[f].size, off[f], n)
<1> HIDE DEF r
<1>1. /\ r > 0 /\ off' = [off EXCEPT ![f] = off[f] + r] /\ ~Writing(f)
      /\ UNCHANGED <<used, blk, ip, call>>
  BY DEF fileread, r
<1>2. off[f] \in Nat /\ ip[f].size \in Nat /\ n \in Nat
  BY DataConstants DEF DataInv, TypeOK
<1>3. r \in Int
  BY <1>2 DEF readi, r
<1>4. off[f] + r \in Nat
  BY <1>1, <1>2, <1>3
<1>5. \A q \in Procs : InChunk(q) => call[q].f # f
  BY SMTT(40), <1>1 DEF Writing, InChunk
<1> QED
  BY Zenon, <1>1, <1>4, <1>5, OffsetMoves

(* A call that is outside of a chunk, or begins one. *)
LEMMA CallMoves ==
  ASSUME DataInv, NEW p \in Procs, NEW c \in Calls, call' = [call EXCEPT ![p] = c],
         c # NoCall => c.i + c.n1 <= c.n,
         c # NoCall /\ c.n1 > 0 =>
           /\ c.tot = 0 /\ off[c.f] <= ip[c.f].size /\ off[c.f] + c.n1 <= MAXFILE * BSIZE
           /\ \A q \in Procs : InChunk(q) => call[q].f # c.f,
         UNCHANGED <<used, blk, ip, off>>
  PROVE  DataInv' /\ \A g \in Inodes : ContentsStep(g)
<1>1. off \in [Inodes -> Nat] /\ call \in [Procs -> Calls] /\ WriteInv
  BY DEF DataInv, TypeOK, Calls
<1>2. /\ call' \in [Procs -> Calls] /\ call'[p] = c /\ \A q \in Procs : q # p => call'[q] = call[q]
      /\ off' \in [Inodes -> Nat] /\ off' = off /\ ip' = ip /\ blk' = blk
  BY SMTT(40), <1>1
<1>3. /\ InChunk(p)' <=> c # NoCall /\ c.n1 > 0
      /\ \A q \in Procs : q # p => (InChunk(q)' <=> InChunk(q))
  BY <1>2 DEF InChunk
<1>4. \A q \in Procs : call'[q] # NoCall => call'[q].i + call'[q].n1 <= call'[q].n
  BY Zenon, <1>1, <1>2 DEF WriteInv
<1>5. \A q, r \in Procs : InChunk(q)' /\ InChunk(r)' /\ call'[q].f = call'[r].f => q = r
  BY Zenon, <1>1, <1>2, <1>3 DEF WriteInv
<1>6. ASSUME NEW q \in Procs, InChunk(q)'
      PROVE  LET d == call'[q]  a == off'[d.f] IN
             /\ d.tot < d.n1 /\ a <= ip'[d.f].size /\ a + d.n1 <= MAXFILE * BSIZE
             /\ Written(ip'[d.f], blk', a, a + d.tot, q)
  <2>1. CASE q = p
    <3>1. /\ c # NoCall /\ c.n1 > 0 /\ c.tot = 0 /\ c \in [f : Inodes, n : Nat, i : Nat, n1 : Nat, tot : Nat]
          /\ off[c.f] <= ip[c.f].size /\ off[c.f] + c.n1 <= MAXFILE * BSIZE /\ off[c.f] \in Nat /\ c.n1 \in Nat
      BY Zenon, <1>1, <1>3, <1>6, <2>1 DEF Calls
    <3>2. off[c.f]..(off[c.f] + c.tot)-1 = {} /\ c.tot < c.n1
      BY <3>1
    <3>3. Written(ip[c.f], blk, off[c.f], off[c.f] + c.tot, p)
      BY <3>2 DEF Written
    <3> QED
      BY Zenon, <1>2, <2>1, <3>1, <3>2, <3>3
  <2>2. CASE q # p
    BY Zenon, <1>1, <1>2, <1>3, <1>6, <2>2 DEF WriteInv
  <2> QED
    BY Zenon, <2>1, <2>2
<1>7. WriteInv'
  BY Zenon, <1>4, <1>5, <1>6 DEF WriteInv
<1> QED
  BY Zenon, <1>2, <1>7, SameDisk

(* filewrite() begins outside of writei(). *)
LEMMA StepFilewrite ==
  ASSUME DataInv, NEW p \in Procs, NEW f \in Inodes, NEW n \in WriteCounts, filewrite(p, f, n)
  PROVE  DataInv' /\ \A g \in Inodes : ContentsStep(g)
<1> DEFINE c == [f |-> f, n |-> n, i |-> 0, n1 |-> 0, tot |-> 0]
<1> HIDE DEF c
<1>1. n \in Nat
  BY Zenon, DataConstants
<1>2. c \in Calls /\ c.i + c.n1 <= c.n /\ ~(c.n1 > 0)
  BY <1>1 DEF Calls, c
<1>3. call' = [call EXCEPT ![p] = c] /\ UNCHANGED <<used, blk, ip, off>>
  BY Zenon DEF filewrite, c
<1> QED
  BY Zenon, <1>2, <1>3, CallMoves

(* The test off + n < off catches the sum that wraps around. *)
LEMMA WrapTest ==
  ASSUME NEW u \in Nat \ {0}, NEW o \in 0..u-1, NEW n \in 0..u-1, (o + n) % u >= o
  PROVE  (o + n) % u = o + n
<1>1. CASE o + n < u
  BY <1>1
<1>2. CASE o + n >= u
  <2>1. (o + n) % u = o + n - u
    BY <1>2
  <2> QED
    BY <2>1
<1> QED
  BY <1>1, <1>2

(* writei() begins when nobody else has the inode locked, with the checks  *)
(* that keep its chunk inside the largest file and adjacent to what is     *)
(* there.                                                                  *)
LEMMA StepWritei ==
  ASSUME DataInv, NEW p \in Procs, writei(p)
  PROVE  DataInv' /\ \A g \in Inodes : ContentsStep(g)
<1> DEFINE c == call[p]
           n1 == min(c.n - c.i, MaxChunk)
           d == [c EXCEPT !.n1 = n1, !.tot = 0]
           e == IF MayWrite(off[c.f], n1, ip[c.f].size) THEN d ELSE NoCall
<1> HIDE DEF c, n1, d, e
<1>1. /\ c # NoCall /\ c.n1 = 0 /\ ~Writing(c.f) /\ call' = [call EXCEPT ![p] = e]
      /\ UNCHANGED <<used, blk, ip, off>>
  BY Zenon DEF writei, c, n1, d, e
<1>2. c \in [f : Inodes, n : Nat, i : Nat, n1 : Nat, tot : Nat] /\ c.i + c.n1 <= c.n
  BY Zenon, <1>1 DEF DataInv, TypeOK, WriteInv, c
<1>3. n1 \in Nat /\ n1 <= MaxChunk /\ MaxChunk \in Nat /\ c.i + n1 <= c.n
  <2>1. MaxChunk \in Nat
    <3>1. (MAXOPBLOCKS - 1 - 1 - 2) \div 2 \in Nat
      BY DataConstants
    <3> QED
      BY <3>1, EntrySet DEF MaxChunk
  <2>2. c.n - c.i \in Nat
    BY <1>1, <1>2
  <2>3. n1 = IF c.n - c.i < MaxChunk THEN c.n - c.i ELSE MaxChunk
    BY Zenon DEF min, n1
  <2> QED
    BY <1>2, <2>1, <2>2, <2>3
<1>4. /\ d \in [f : Inodes, n : Nat, i : Nat, n1 : Nat, tot : Nat]
      /\ d.f = c.f /\ d.n = c.n /\ d.i = c.i /\ d.n1 = n1 /\ d.tot = 0
  <2>1. 0 \in Nat
    BY SMTT(40)
  <2> QED
    BY Zenon, <1>2, <1>3, <2>1 DEF d
<1>5. e \in Calls
  BY <1>4 DEF Calls, e
<1>6. e # NoCall => /\ e = d /\ off[c.f] <= ip[c.f].size /\ off[c.f] + n1 <= MAXFILE * BSIZE
  <2>1. /\ off[c.f] \in Nat /\ ip[c.f].size \in 0..MAXFILE*BSIZE
        /\ MAXFILE * BSIZE \in Nat /\ UINT \in Nat \ {0}
    <3>1. off[c.f] \in Nat /\ ip[c.f].size \in 0..MAXFILE*BSIZE
      BY <1>2 DEF DataInv, TypeOK
    <3>2. MAXFILE * BSIZE \in Nat
      BY EntrySet
    <3> QED
      BY Zenon, <3>1, <3>2, DataConstants
  <2>2. ASSUME MayWrite(off[c.f], n1, ip[c.f].size)
        PROVE  off[c.f] <= ip[c.f].size /\ off[c.f] + n1 <= MAXFILE * BSIZE
    <3>1. /\ off[c.f] <= ip[c.f].size /\ (off[c.f] + n1) % UINT >= off[c.f]
          /\ (off[c.f] + n1) % UINT <= MAXFILE * BSIZE
      BY Zenon, <2>2 DEF MayWrite
    <3> QED
      BY ONLY <1>3, <2>1, <3>1, UnsignedConstants, WrapTest
  <2> QED
    BY Zenon, <2>2 DEF e
<1>7. \A q \in Procs : InChunk(q) => call[q].f # c.f
  BY <1>1 DEF Writing, InChunk
<1>8. e # NoCall => e.i + e.n1 <= e.n
  BY Zenon, <1>3, <1>4, <1>6
<1>9. e # NoCall /\ e.n1 > 0 => /\ e.tot = 0 /\ off[e.f] <= ip[e.f].size /\ off[e.f] + e.n1 <= MAXFILE * BSIZE
                              /\ \A q \in Procs : InChunk(q) => call[q].f # e.f
  BY <1>4, <1>6, <1>7
<1> QED
  BY Zenon, <1>1, <1>5, <1>8, <1>9, CallMoves

-----------------------------------------------------------------------------
(* An empty file system satisfies the invariant. *)
LEMMA DataInit ==
  Init => DataInv
<1> SUFFICES ASSUME Init PROVE DataInv
  OBVIOUS
<1> USE DEF Init
<1>1. /\ Empty \in [addrs : [0..NDIRECT -> 0..NBLOCKS], size : 0..MAXFILE*BSIZE] /\ Empty.size = 0
      /\ \A x \in 0..NDIRECT : Empty.addrs[x] = 0
  <2>1. 0 \in 0..NBLOCKS /\ 0 \in 0..MAXFILE*BSIZE
    BY EntrySet
  <2> QED
    BY <2>1 DEF Empty
<1>2. TypeOK
  BY <1>1, ZeroRow DEF TypeOK, Rows
<1>3. \A f \in Inodes, x \in Entries : BlockMap(ip, blk)[f][x] = 0
  <2>1. \A x \in Entries : Entry(Empty, blk, x) = 0
    BY SMTT(40), <1>1, EntrySet DEF Entry
  <2> QED
    BY SMTT(40), <2>1 DEF BlockMap
<1>4. OneOwner
  BY <1>3 DEF OneOwner, Owns
<1>5. NoHoles
  BY <1>1 DEF NoHoles
<1>6. WriteInv
  BY DEF WriteInv, InChunk
<1> QED
  BY <1>2, <1>4, <1>5, <1>6 DEF DataInv

(* Every step preserves the invariant and does to the contents of files    *)
(* only what it may.                                                       *)
LEMMA DataNext ==
  ASSUME DataInv, [Next]_vars
  PROVE  DataInv' /\ \A g \in Inodes : ContentsStep(g)
<1>1. CASE UNCHANGED vars
  <2>1. UNCHANGED <<used, blk, ip, off, call>>
    BY <1>1 DEF vars
  <2>2. off' \in [Inodes -> Nat] /\ call' \in [Procs -> Calls]
    BY Zenon, <2>1 DEF DataInv, TypeOK, Calls
  <2>3. WriteInv'
    BY Zenon, <2>1 DEF DataInv, WriteInv, InChunk
  <2> QED
    BY Zenon, <2>1, <2>2, <2>3, SameDisk
<1>2. ASSUME NEW f \in Inodes, itrunc(f) \/ reopen(f)
      PROVE  DataInv' /\ \A g \in Inodes : ContentsStep(g)
  BY Zenon, <1>2, StepTrunc, StepReopen
<1>3. ASSUME NEW p \in Procs, NEW f \in Inodes, \E n \in ReadCounts : fileread(p, f, n)
      PROVE  DataInv' /\ \A g \in Inodes : ContentsStep(g)
  BY <1>3, StepRead
<1>4. ASSUME NEW p \in Procs, NEW f \in Inodes, \E n \in WriteCounts : filewrite(p, f, n)
      PROVE  DataInv' /\ \A g \in Inodes : ContentsStep(g)
  BY <1>4, StepFilewrite
<1>5. ASSUME NEW p \in Procs, writei(p)
      PROVE  DataInv' /\ \A g \in Inodes : ContentsStep(g)
  BY <1>5, StepWritei
<1>6. ASSUME NEW p \in Procs, write_block(p) \/ write_full(p)
      PROVE  DataInv' /\ \A g \in Inodes : ContentsStep(g)
  <2>1. PICK m \in Nat : WriteStep(p, call[p].f, off[call[p].f] + call[p].tot, m)
    BY Zenon, <1>6, WriteBlockIsWriteStep, WriteFullIsWriteStep
  <2> QED
    BY Zenon, <2>1, WriteStepInv, WriteStepLands
<1> QED
  BY Zenon, <1>1, <1>2, <1>3, <1>4, <1>5, <1>6 DEF Next

(* The bitmap and the entries count the same blocks. *)
LEMMA OwnedOnce ==
  ASSUME DataInv
  PROVE  BlocksOwnedOnce
<1> DEFINE E(q) == Entry(ip[q[1]], blk, q[2])
           taken == {q \in Inodes \X Entries : E(q) # 0}
           M == BlockMap(ip, blk)
<1> HIDE DEF E, taken, M
<1>1. Owns(M, used) /\ used \in SUBSET DataBlocks
  BY DEF DataInv, OneOwner, TypeOK, M
<1>2. \A q \in Inodes \X Entries : q[1] \in Inodes /\ q[2] \in Entries /\ E(q) = M[q[1]][q[2]] /\ q = <<q[1], q[2]>>
  BY DEF BlockMap, E, M
<1>3. \A f \in Inodes, x \in Entries : <<f, x>> \in Inodes \X Entries /\ E(<<f, x>>) = M[f][x]
  BY DEF BlockMap, E, M
<1>4. 0 \notin used
  BY <1>1 DEF DataBlocks
<1>5. \A q \in taken : E(q) \in used
  BY <1>1, <1>2 DEF Owns, taken
<1>6. \A b \in used : \E q \in taken : E(q) = b
  <2> SUFFICES ASSUME NEW b \in used PROVE \E q \in taken : E(q) = b
    OBVIOUS
  <2>1. PICK f \in Inodes, x \in Entries : M[f][x] = b
    BY <1>1 DEF Owns
  <2>2. <<f, x>> \in taken /\ E(<<f, x>>) = b
    BY Zenon, <1>3, <1>4, <2>1 DEF taken
  <2> QED
    BY <2>2
<1>7. \A q, r \in taken : E(q) = E(r) => q = r
  <2> SUFFICES ASSUME NEW q \in taken, NEW r \in taken, E(q) = E(r) PROVE q = r
    OBVIOUS
  <2>1. q[1] = r[1] /\ q[2] = r[2]
    BY <1>1, <1>2 DEF Owns, taken
  <2> QED
    BY SMTT(40), <1>2, <2>1 DEF taken
<1>8. used = {E(q) : q \in taken}
  BY <1>5, <1>6
<1> QED
  BY Zenon, <1>7, <1>8 DEF BlocksOwnedOnce, E, taken

(***************************************************************************)
(* The inductive invariant holds in every reachable state, for every disk, *)
(* block size, number of direct blocks and set of processes: bmap(), which *)
(* balloc() may leave without a block half way, itrunc() and writei()      *)
(* preserve the single owner of every block, the absence of holes, and     *)
(* what a chunk in progress has written.                                   *)
(***************************************************************************)
THEOREM FileDataInvariance ==
  Spec => []DataInv
<1>1. DataInv /\ [Next]_vars => DataInv'
  BY DataNext
<1> QED
  BY <1>1, DataInit, PTL DEF Spec

(***************************************************************************)
(* The bitmap marks exactly the blocks that the inodes and the indirect    *)
(* blocks name, each is named once, and no file has a hole below its size: *)
(* balloc() never hands out a block that is in use, a write that fails     *)
(* half way leaks none, and readi() never makes bmap() allocate outside of *)
(* a transaction.                                                          *)
(***************************************************************************)
THEOREM BlocksAreInPlace ==
  Spec => []BlocksInPlace
<1>1. DataInv => BlocksInPlace
  BY OwnedOnce DEF BlocksInPlace, DataInv
<1> QED
  BY <1>1, FileDataInvariance, PTL

(***************************************************************************)
(* A step changes the contents of a file only if it empties it or is one   *)
(* of a process in writei() on it; then only bytes of its chunk change, to *)
(* the bytes it was given, and the offset passes over bytes only once they *)
(* are written.  Through whatever blocks bmap() adds, no other file and no *)
(* byte before the offset is touched.                                      *)
(***************************************************************************)
THEOREM WritesAreExact ==
  Spec => WritesLand
<1>1. DataInv /\ [Next]_vars => [\A f \in Inodes : ContentsStep(f)]_vars
  BY DataNext
<1> QED
  BY <1>1, FileDataInvariance, PTL DEF Spec, WritesLand
=============================================================================
