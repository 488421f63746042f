------------------------------ MODULE FileData ------------------------------
(***************************************************************************)
(* File contents: the block bitmap, bmap(), itrunc(), readi() and writei() *)
(* of kernel/fs.c, under fileread() and filewrite() of kernel/file.c.      *)
(* Processes share one open file, hence one offset, per inode.  A process  *)
(* writes bytes that carry its name.  Transactions are in module Log.      *)
(***************************************************************************)
EXTENDS Integers

CONSTANTS
  Procs, Inodes, NoCall,   \* NoCall is a model value
  NBLOCKS,                 \* data blocks of the disk
  BSIZE,                   \* bytes, or block numbers, per block
  NDIRECT, MAXOPBLOCKS,
  UINT,                    \* the range of an unsigned int
  ReadCounts, WriteCounts  \* sizes that read() and write() are given; a write of
                           \* no bytes does nothing

ASSUME DataConstants ==
  /\ NoCall \notin [f : Inodes, n : Nat, i : Nat, n1 : Nat, tot : Nat]
  /\ NBLOCKS \in Nat /\ NDIRECT \in Nat /\ BSIZE \in Nat \ {0}
  /\ MAXOPBLOCKS \in Nat /\ MAXOPBLOCKS >= 6 /\ UINT \in Nat \ {0}
  /\ ReadCounts \subseteq Nat /\ WriteCounts \subseteq Nat \ {0}

VARIABLES
  used,     \* the bitmap: blocks in use
  blk,      \* contents of every block: bytes, or the numbers in an indirect one;
            \* Stale, whatever was there last, in a block that is free
  ip,       \* struct inode: addrs and size
  off,      \* offset of the open file of every inode
  call      \* per process: its filewrite() and the writei() in it

vars == <<used, blk, ip, off, call>>

min(a, b) == IF a < b THEN a ELSE b

DataBlocks == 1..NBLOCKS
NINDIRECT == BSIZE
MAXFILE == NDIRECT + NINDIRECT
Zeroes == [b \in 0..BSIZE-1 |-> 0]
Stale == [b \in 0..BSIZE-1 |-> -1]
Empty == [addrs |-> [b \in 0..NDIRECT |-> 0], size |-> 0]

Init ==
  /\ used = {} /\ blk = [b \in DataBlocks |-> Stale]
  /\ ip = [f \in Inodes |-> Empty]
  /\ off = [f \in Inodes |-> 0]
  /\ call = [p \in Procs |-> NoCall]

(* balloc() takes the first free block, if there is one, and zeroes it. *)
Disk == [used |-> used, blk |-> blk]
First(S) == {b \in S : \A c \in S : b <= c}
FreeBlock(d) == LET free == First(DataBlocks \ d.used) IN
                IF free = {} THEN 0 ELSE CHOOSE b \in free : TRUE
balloc(d) == LET b == FreeBlock(d) IN
             IF b = 0 THEN d ELSE [used |-> d.used \cup {b}, blk |-> [d.blk EXCEPT ![b] = Zeroes]]

(* bmap(): the disk and the addresses of inode i afterwards, with the      *)
(* block number, 0 if the disk is full.                                    *)
bmap(i, bn) ==
  LET a == i.addrs  at == min(bn, NDIRECT)
      top == IF a[at] # 0 THEN a[at] ELSE FreeBlock(Disk)
      d1 == IF a[at] # 0 THEN Disk ELSE balloc(Disk)
      j == bn - NDIRECT
      entry == d1.blk[top][j]
      leaf == IF entry # 0 THEN entry ELSE FreeBlock(d1)
      d2 == IF entry # 0 THEN d1 ELSE balloc(d1)
      addrs == [a EXCEPT ![at] = top]
  IN IF bn < NDIRECT \/ top = 0
     THEN [disk |-> d1, addrs |-> addrs, addr |-> top]
     ELSE [disk |-> [d2 EXCEPT !.blk[top][j] = leaf], addrs |-> addrs, addr |-> leaf]

(* An inode's entries: its addresses, and the numbers in its indirect      *)
(* block, if it has one.  k[b] is the contents of block b.                 *)
Entries == 0..NDIRECT+NINDIRECT
Entry(i, k, x) == IF x <= NDIRECT THEN i.addrs[x]
                  ELSE IF i.addrs[NDIRECT] = 0 THEN 0 ELSE k[i.addrs[NDIRECT]][x - NDIRECT - 1]

(* the entry for block bn of a file, the block there, and a byte of the file *)
EntryOf(bn) == IF bn < NDIRECT THEN bn ELSE bn + 1
BlockOf(i, k, bn) == Entry(i, k, EntryOf(bn))
ByteAt(i, k, pos) == k[BlockOf(i, k, pos \div BSIZE)][pos % BSIZE]

(* mutant: the indirect block itself is not freed *)
Owned_ButIndirect(i) == {Entry(i, blk, x) : x \in Entries \ {NDIRECT}}

(* the blocks itrunc() frees *)
Owned(i) == {Entry(i, blk, x) : x \in Entries}

Writing(f) == \E p \in Procs : call[p] # NoCall /\ call[p].f = f /\ call[p].n1 > 0

(* itrunc(), by an open() with O_TRUNC or when the inode is freed *)
itrunc(f) ==
  /\ ~Writing(f)
  /\ used' = used \ Owned(ip[f])
  /\ blk' = [b \in DataBlocks |-> IF b \in used' THEN blk[b] ELSE Stale]
  /\ ip' = [ip EXCEPT ![f] = Empty]
  /\ UNCHANGED <<off, call>>

(* The file is closed and opened again. *)
reopen(f) ==
  /\ \A p \in Procs : call[p] # NoCall => call[p].f # f
  /\ off[f] # 0 /\ off' = [off EXCEPT ![f] = 0]
  /\ UNCHANGED <<used, blk, ip, call>>

(* The number of bytes that readi() returns: n is cut off at the end of    *)
(* the file.                                                               *)
readi(size, o, n) ==
  LET end == (o + n) % UINT
  IN IF o > size \/ end < o THEN 0 ELSE IF end > size THEN size - o ELSE n

(* fileread() of n bytes; when nothing is read, or copying to the user     *)
(* fails, the offset stays.                                                *)
fileread(p, f, n) ==
  LET o == off[f]  r == readi(ip[f].size, o, n)
  IN /\ call[p] = NoCall /\ ~Writing(f)
     /\ r > 0 /\ off' = [off EXCEPT ![f] = o + r]
     /\ UNCHANGED <<used, blk, ip, call>>

-----------------------------------------------------------------------------
(* A writing process: f, n and i of filewrite(), n1 and tot of its         *)
(* writei(); n1 is 0 when it is not in writei() and has no lock.           *)
filewrite(p, f, n) ==
  /\ call[p] = NoCall
  /\ call' = [call EXCEPT ![p] = [f |-> f, n |-> n, i |-> 0, n1 |-> 0, tot |-> 0]]
  /\ UNCHANGED <<used, blk, ip, off>>

MaxChunk == ((MAXOPBLOCKS - 1 - 1 - 2) \div 2) * BSIZE

(* Offsets in a file, and what writei() is asked for, are unsigned ints. *)
ASSUME UnsignedConstants == MAXFILE * BSIZE < UINT /\ MaxChunk < UINT

(* mutant: a write may start beyond the end of the file *)
MayWrite_Hole(o, n1, size) == o + n1 <= MAXFILE * BSIZE

(* off + n is an unsigned int, and may wrap around *)
MayWrite(o, n1, size) ==
  LET end == (o + n1) % UINT IN o <= size /\ end >= o /\ end <= MAXFILE * BSIZE

(* ilock() and the checks of writei() *)
writei(p) ==
  LET c == call[p]  n1 == min(c.n - c.i, MaxChunk) IN
  /\ c # NoCall /\ c.n1 = 0 /\ ~Writing(c.f)
  /\ call' = [call EXCEPT ![p] = IF MayWrite(off[c.f], n1, ip[c.f].size)
                                 THEN [c EXCEPT !.n1 = n1, !.tot = 0] ELSE NoCall]
  /\ UNCHANGED <<used, blk, ip, off>>

InWritei(p) == call[p] # NoCall /\ call[p].n1 > 0 /\ call[p].tot < call[p].n1

(* mutant: the offset in the block is forgotten *)
Bytes_FromZero(o, m) == 0..m-1

(* m bytes at offset o, in their block *)
Bytes(o, m) == (o % BSIZE)..((o % BSIZE) + m - 1)
Put(k, addr, o, m, p) ==
  [k EXCEPT ![addr] = [b \in 0..BSIZE-1 |-> IF b \in Bytes(o, m) THEN p ELSE @[b]]]

(* The end of writei() and of the round of filewrite(): size and offset    *)
(* move by what was written; an incomplete round is the last one.          *)
Finish(p, c, tot, i) ==
  LET end == off[c.f] + tot IN
  /\ ip' = [i EXCEPT ![c.f].size = IF end > @ THEN end ELSE @]
  /\ off' = [off EXCEPT ![c.f] = end]
  /\ call' = [call EXCEPT ![p] = IF tot # c.n1 \/ c.i + tot = c.n THEN NoCall
                                 ELSE [c EXCEPT !.i = @ + tot, !.n1 = 0, !.tot = 0]]

(* One block: bmap(), the copy from the user, log_write().  A copy that    *)
(* fails leaves its first k bytes in the buffer.                           *)
write_block(p) ==
  LET c == call[p]  o == off[c.f] + c.tot
      m == min(c.n1 - c.tot, BSIZE - (o % BSIZE))
      map == bmap(ip[c.f], o \div BSIZE)
      inodes == [ip EXCEPT ![c.f].addrs = map.addrs]
      After(k) == Put(map.disk.blk, map.addr, o, k, p)
  IN /\ InWritei(p) /\ map.addr # 0
     /\ used' = map.disk.used
     /\ \/ /\ blk' = After(m)
           /\ IF c.tot + m = c.n1 THEN Finish(p, c, c.n1, inodes)
              ELSE /\ call' = [call EXCEPT ![p].tot = @ + m]
                   /\ ip' = inodes /\ UNCHANGED off
        \/ \E k \in 0..m-1 : blk' = After(k) /\ Finish(p, c, c.tot, inodes)

(* No block: writei() ends with what it has written. *)
write_full(p) ==
  LET c == call[p]  map == bmap(ip[c.f], (off[c.f] + c.tot) \div BSIZE) IN
  /\ InWritei(p) /\ map.addr = 0
  /\ used' = map.disk.used /\ blk' = map.disk.blk
  /\ Finish(p, c, c.tot, [ip EXCEPT ![c.f].addrs = map.addrs])

Next ==
  \/ \E f \in Inodes : itrunc(f) \/ reopen(f)
  \/ \E p \in Procs :
       \/ \E f \in Inodes : \/ \E n \in ReadCounts : fileread(p, f, n)
                            \/ \E n \in WriteCounts : filewrite(p, f, n)
       \/ writei(p) \/ write_block(p) \/ write_full(p)

Spec == Init /\ [][Next]_vars
-----------------------------------------------------------------------------
(* No block is used in two places, by one file or by two, and the bitmap   *)
(* marks exactly the blocks that some inode or indirect block names: a     *)
(* write that fails half way, at the indirect block say, leaks none and    *)
(* itrunc() never frees a free block.                                      *)
BlocksOwnedOnce ==
  LET E(q) == Entry(ip[q[1]], blk, q[2])
      taken == {q \in Inodes \X Entries : E(q) # 0}
  IN used = {E(q) : q \in taken} /\ \A q, r \in taken : E(q) = E(r) => q = r

(* Every block below the size of a file is there, so readi(), which        *)
(* fileread() calls outside of a transaction, never has to allocate one.   *)
NoHoles == \A f \in Inodes : \A pos \in 0..ip[f].size-1 : BlockOf(ip[f], blk, pos \div BSIZE) # 0

Contents(f) == [pos \in 0..ip[f].size-1 |-> ByteAt(ip[f], blk, pos)]
Lands(p, f, c, d) ==
  LET o == off[f]  t == call[p] IN
  /\ DOMAIN c \subseteq DOMAIN d
  /\ \A pos \in DOMAIN d :
       \/ pos \in DOMAIN c /\ d[pos] = c[pos]
       \/ pos \in o..o+t.n1-1 /\ d[pos] = p
  /\ \A pos \in o..off'[f]-1 : d[pos] = p

(* What a step does to the contents of a file: nothing, or empty it, or,   *)
(* by a process in writei() on it, put that process's bytes between the    *)
(* offset and the end of the chunk.  When the offset moves on, all the     *)
(* bytes it passes have been written.  Other files are never touched.      *)
ContentsStep(f) ==
  LET c == Contents(f)  d == Contents(f)' IN
  \/ d = c \/ ip'[f].size = 0
  \/ \E p \in Procs : InWritei(p) /\ call[p].f = f /\ Lands(p, f, c, d)
WritesLand == [][\A f \in Inodes : ContentsStep(f)]_vars

(* Types *)
TypeOK ==
  /\ used \subseteq DataBlocks
  /\ blk \in [DataBlocks -> [0..BSIZE-1 -> Procs \cup Int]]
  /\ ip \in [Inodes -> [addrs : [0..NDIRECT -> 0..NBLOCKS], size : 0..MAXFILE*BSIZE]]
  /\ off \in [Inodes -> Nat]
  /\ call \in [Procs -> {NoCall} \cup [f : Inodes, n : Nat, i : Nat, n1 : Nat, tot : Nat]]

(***************************************************************************)
(* The inductive invariant.  An entry of an inode or of its indirect block *)
(* is 0 or a block in use, and no two entries are equal; a process in      *)
(* writei() is the only one on its file, and what it has written so far is *)
(* behind the offset, whether or not the size includes it already.         *)
(***************************************************************************)
BlockMap(i, k) == [f \in Inodes |-> [x \in Entries |-> Entry(i[f], k, x)]]
Owns(M, u) ==
  /\ \A f \in Inodes, x \in Entries : M[f][x] \in u \cup {0}
  /\ \A b \in u : \E f \in Inodes, x \in Entries : M[f][x] = b
  /\ \A f, g \in Inodes, x, y \in Entries : M[f][x] # 0 /\ M[f][x] = M[g][y] => f = g /\ x = y
OneOwner == Owns(BlockMap(ip, blk), used)

(* all the bytes from lo to hi-1 of a file are there, and are p's *)
Written(i, k, lo, hi, p) ==
  \A pos \in lo..hi-1 : BlockOf(i, k, pos \div BSIZE) # 0 /\ ByteAt(i, k, pos) = p

InChunk(p) == call[p] # NoCall /\ call[p].n1 > 0
WriteInv ==
  /\ \A p \in Procs : call[p] # NoCall => call[p].i + call[p].n1 <= call[p].n
  /\ \A p, q \in Procs : InChunk(p) /\ InChunk(q) /\ call[p].f = call[q].f => p = q
  /\ \A p \in Procs : InChunk(p) =>
       LET c == call[p]  o == off[c.f] IN
       /\ c.tot < c.n1 /\ o <= ip[c.f].size /\ o + c.n1 <= MAXFILE * BSIZE
       /\ Written(ip[c.f], blk, o, o + c.tot, p)

DataInv == TypeOK /\ OneOwner /\ NoHoles /\ WriteInv

(* Blocks are where bmap() looks for them: each has one owner, and none is *)
(* missing below the size of a file.                                       *)
BlocksInPlace == BlocksOwnedOnce /\ NoHoles
=============================================================================
