-------------------------------- MODULE Mkfs --------------------------------
(***************************************************************************)
(* mkfs/mkfs.c: the file system image that is made of a list of files.     *)
(* Sizes count the units in which the image is laid out: a directory entry *)
(* and a block number take one unit, a file is a sequence of units.        *)
(***************************************************************************)
EXTENDS Integers, Sequences, FiniteSets, FiniteSetsExt

CONSTANTS FSSIZE, BSIZE, NDIRECT, NINODES, IPB, BPB, LOGSIZE

NINDIRECT == BSIZE
MAXFILE == NDIRECT + NINDIRECT
ROOTINO == 1

nbitmap == (FSSIZE \div BPB) + 1
ninodeblocks == (NINODES \div IPB) + 1
nlog == LOGSIZE
nmeta == 2 + nlog + ninodeblocks + nbitmap
Superblock == [size |-> FSSIZE, nblocks |-> FSSIZE - nmeta, ninodes |-> NINODES, nlog |-> nlog,
               logstart |-> 2, inodestart |-> 2 + nlog, bmapstart |-> 2 + nlog + ninodeblocks]

Zeroes == [i \in 0..(BSIZE - 1) |-> 0]

(* inode: one per inode allocated, in order; disk: the blocks written;     *)
(* dead: an assertion has failed                                           *)
Empty == [freeblock |-> nmeta, inode |-> <<>>, disk |-> [b \in nmeta..(2 * FSSIZE) |-> Zeroes],
          bitmap |-> {}, dead |-> FALSE]

ialloc(img, type) ==
  [img EXCEPT !.inode = Append(@, [type |-> type, nlink |-> 1, size |-> 0,
                                   addrs |-> [i \in 0..NDIRECT |-> 0]])]

(* the next free block becomes block number i of the inode *)
Direct(img, inum, i) ==
  IF img.inode[inum].addrs[i] # 0 THEN img
  ELSE [img EXCEPT !.inode[inum].addrs[i] = img.freeblock, !.freeblock = @ + 1]

Indirect(img, ind, i) ==
  IF img.disk[ind][i] # 0 THEN img
  ELSE [img EXCEPT !.disk[ind][i] = img.freeblock, !.freeblock = @ + 1]

Reach(img, inum, fbn) ==
  IF fbn < NDIRECT THEN Direct(img, inum, fbn)
  ELSE LET m == Direct(img, inum, NDIRECT)
       IN Indirect(m, m.inode[inum].addrs[NDIRECT], fbn - NDIRECT)

Lookup(img, inum, fbn) ==
  LET a == img.inode[inum].addrs IN
  IF fbn < NDIRECT THEN a[fbn] ELSE img.disk[a[NDIRECT]][fbn - NDIRECT]

RECURSIVE iappend(_, _, _)
iappend(img, inum, data) ==
  LET off == img.inode[inum].size fbn == off \div BSIZE
      n1 == Min({Len(data), ((fbn + 1) * BSIZE) - off})
      m == Reach(img, inum, fbn) x == Lookup(m, inum, fbn) o == off % BSIZE
  IN IF data = <<>> \/ img.dead THEN img
     ELSE IF fbn >= MAXFILE THEN [img EXCEPT !.dead = TRUE]
     ELSE iappend([m EXCEPT !.disk[x] = [i \in 0..(BSIZE - 1) |->
                                           IF i \in o..(o + n1 - 1) THEN data[i - o + 1] ELSE @[i]],
                            !.inode[inum].size = off + n1],
                  inum, SubSeq(data, n1 + 1, Len(data)))

(* a file is read and appended in pieces of at most BSIZE *)
RECURSIVE AppendFile(_, _, _)
AppendFile(img, inum, data) ==
  IF data = <<>> THEN img
  ELSE AppendFile(iappend(img, inum, SubSeq(data, 1, Min({BSIZE, Len(data)}))), inum,
                  SubSeq(data, BSIZE + 1, Len(data)))

RECURSIVE AddFiles(_, _)
AddFiles(img, files) ==
  IF files = <<>> THEN img
  ELSE LET m == ialloc(img, "T_FILE") inum == Len(m.inode)
           d == iappend(m, ROOTINO, <<inum>>)
       IN AddFiles(AppendFile(d, inum, Head(files)), Tail(files))

(* mutant: the last block handed out is left free *)
balloc_OffByOne(img, used) == [img EXCEPT !.bitmap = 0..(used - 2), !.dead = @ \/ used >= BPB]

balloc(img, used) == [img EXCEPT !.bitmap = 0..(used - 1), !.dead = @ \/ used >= BPB]

(* mutant: the size is rounded down *)
RoundUp_Down(off) == (off \div BSIZE) * BSIZE

RoundUp(off) == ((off \div BSIZE) + 1) * BSIZE

main(files) ==
  LET root == iappend(iappend(ialloc(Empty, "T_DIR"), ROOTINO, <<ROOTINO>>), ROOTINO, <<ROOTINO>>)
      m == AddFiles(root, files)
  IN balloc([m EXCEPT !.inode[ROOTINO].size = RoundUp(@)], m.freeblock)
-----------------------------------------------------------------------------
FileBlocks(img, inum) ==
  LET a == img.inode[inum].addrs IN
  {a[i] : i \in DOMAIN a} \cup (IF a[NDIRECT] = 0 THEN {} ELSE {img.disk[a[NDIRECT]][i] : i \in 0..(BSIZE - 1)})
Owned(img, inum) == FileBlocks(img, inum) \ {0}
Backed(img, inum, fbn) ==
  (fbn >= NDIRECT => img.inode[inum].addrs[NDIRECT] # 0) /\ Lookup(img, inum, fbn) # 0
Content(img, inum, size) == [i \in 1..size |-> img.disk[Lookup(img, inum, (i - 1) \div BSIZE)][(i - 1) % BSIZE]]

(* An image mkfs finishes is one the kernel can mount: the areas of the    *)
(* superblock follow each other and hold all inodes and all bits, a block  *)
(* is marked in the bitmap exactly if it is part of the metadata or of one *)
(* file, and of one only.                                                  *)
BitmapExact(files) ==
  LET img == main(files) inums == DOMAIN img.inode sb == Superblock IN
  ~ img.dead /\ img.freeblock <= FSSIZE =>
    /\ sb.logstart + sb.nlog = sb.inodestart
    /\ sb.inodestart + (NINODES \div IPB) < sb.bmapstart /\ sb.bmapstart + ((FSSIZE - 1) \div BPB) < nmeta
    /\ img.bitmap = (0..(nmeta - 1)) \cup UNION {Owned(img, i) : i \in inums}
    /\ \A i, j \in inums : i # j => Owned(img, i) \cap Owned(img, j) = {}

(* The root directory lists every file in order and every file reads back  *)
(* as it was.  The padded size of the root directory is backed by blocks,  *)
(* but for the one case in which its entries fill their blocks: then it    *)
(* claims a block it does not have.                                        *)
FilesReadBack(files) ==
  LET img == main(files) entries == Len(files) + 2 root == img.inode[ROOTINO].size IN
  ~ img.dead /\ img.freeblock <= FSSIZE =>
    /\ root >= entries
    /\ Content(img, ROOTINO, entries) = <<ROOTINO, ROOTINO>> \o [i \in DOMAIN files |-> i + 1]
    /\ \A i \in DOMAIN files : img.inode[i + 1].size = Len(files[i]) /\ Content(img, i + 1, Len(files[i])) = files[i]
    /\ entries % BSIZE # 0 => \A fbn \in 0..((root \div BSIZE) - 1) : Backed(img, ROOTINO, fbn)
    /\ entries % BSIZE = 0 /\ root \div BSIZE <= MAXFILE => ~ Backed(img, ROOTINO, (root \div BSIZE) - 1)

(* The image is one the kernel can use: consistent, and with the files.    *)
ImageExact(files) == BitmapExact(files) /\ FilesReadBack(files)
=============================================================================
