------------------------------- MODULE Inode -------------------------------
(***************************************************************************)
(* In-memory and on-disk inodes, directories and path names: the upper     *)
(* half of kernel/fs.c, for processes that run the calls of module         *)
(* SysFile.  File contents are in module FileData, transactions in Log.    *)
(*                                                                         *)
(* iget() keeps one entry of the inode table per inode number, so in-memory*)
(* inodes are named by their number.  A process keeps its references in    *)
(* registers that are 0 when it has none.  A stretch of code that waits    *)
(* for nothing once it has its lock is one step.                           *)
(***************************************************************************)
EXTENDS Integers, FiniteSets, Sequences, FiniteSetsExt

CONSTANTS
  Procs, NoProc,    \* NoProc is a model value
  NINODES,          \* inodes on the disk
  Names             \* file names, without "." and ".."

VARIABLES
  dinode,     \* struct dinode: type, nlink; directory entries, parent ("..")
  inode,      \* struct inode: ref, valid, lock, and its copy of type and nlink
  th,         \* per process: where it is, the call, and its registers
  lost        \* inodes whose entry was in a directory when that was freed

ROOTINO == 1
Inums == 1..NINODES
NoDir == [n \in Names |-> 0]
Free == [type |-> "none", nlink |-> 0, ents |-> NoDir, parent |-> 0]
NoInode == [ref |-> 0, valid |-> FALSE, lock |-> NoProc, type |-> "none", nlink |-> 0]

(* The registers: ip, dp and old are references the call holds, put is one *)
(* that iput() is giving up, after which the call goes on at k.  above     *)
(* remembers that ip is what ".." of a removed directory named.            *)
Idle == [pc |-> "idle", op |-> "none", path |-> <<>>, parent |-> FALSE, above |-> FALSE,
         ip |-> 0, dp |-> 0, old |-> 0, put |-> 0, k |-> "idle"]

(* mkfs has made a root directory. *)
InodeInit ==
  /\ dinode = [i \in Inums |-> IF i = ROOTINO
                 THEN [Free EXCEPT !.type = "dir", !.nlink = 1, !.parent = ROOTINO] ELSE Free]
  /\ lost = {}

At(p, l) == th[p].pc = l

(* iget() of a number, in a table tab that has room for every inode *)
iget(tab, i) == [tab EXCEPT ![i].ref = @ + 1]

(* ilock(): the in-memory copy is read when it is not valid.  A free inode *)
(* is a panic: see panic in SysFile.                                       *)
CanLock(i) == inode[i].lock = NoProc
Load(i) ==
  IF inode[i].valid THEN inode[i]
  ELSE [inode[i] EXCEPT !.valid = TRUE, !.type = dinode[i].type, !.nlink = dinode[i].nlink]
NoType(i) == ~inode[i].valid /\ dinode[i].type = "none"
(* ip->nlink changes by d in memory and, with iupdate(), on the disk. *)
Nlink(i, d) == Load(i).nlink + d

(* dirlookup(): 0 if there is no such entry *)
dirlookup(d, n) == CASE n = "." -> d [] n = ".." -> dinode[d].parent [] OTHER -> dinode[d].ents[n]
(* The entry looked up is the ".." of a removed directory. *)
Above(d, n) == n = ".." /\ Load(d).nlink = 0
-----------------------------------------------------------------------------
Goto(p, l) == th' = [th EXCEPT ![p].pc = l]

(* iput() of register r, after which the call continues at label k *)
Put(t, r, k) == [t EXCEPT !.put = t[r], ![r] = 0, !.pc = "iput", !.k = k]

(* A call that fails returns -1; link() undoes its count first. *)
Fail(t) == IF t.old # 0 THEN "link_bad" ELSE "idle"

(* mutant: frees an inode without links although others have it *)
Last_AnyRef(i) == inode[i].valid /\ inode[i].nlink = 0

(* the last reference to an inode that has no links *)
Last(i) == inode[i].ref = 1 /\ inode[i].valid /\ inode[i].nlink = 0

(* iput() takes itable.lock; the last reference to an inode without links  *)
(* frees it.  acquiresleep() with that spinlock held must not sleep.       *)
iput_last(p) ==
  LET i == th[p].put IN
  /\ At(p, "iput") /\ Last(i) /\ CanLock(i)
  /\ inode' = [inode EXCEPT ![i].lock = p]
  /\ Goto(p, "iput_free")
  /\ UNCHANGED <<dinode, lost>>

(* itrunc(), type 0 and iupdate(), without itable.lock *)
iput_free(p) ==
  LET i == th[p].put
      named == {dinode[i].ents[n] : n \in Names} \ {0}
  IN /\ At(p, "iput_free")
     /\ dinode' = [dinode EXCEPT ![i] = Free]
     /\ lost' = lost \cup named
     /\ Goto(p, "iput_done")
     /\ UNCHANGED <<inode>>

(* mutant: the copy of the freed inode stays valid *)
iput_done_Valid(p) ==
  /\ At(p, "iput_done")
  /\ inode' = [inode EXCEPT ![th[p].put].type = "none", ![th[p].put].lock = NoProc]
  /\ Goto(p, "iput_unref")
  /\ UNCHANGED <<dinode, lost>>

(* ip->valid = 0 and releasesleep() *)
iput_done(p) ==
  /\ At(p, "iput_done")
  /\ inode' = [inode EXCEPT ![th[p].put] = [NoInode EXCEPT !.ref = inode[th[p].put].ref]]
  /\ Goto(p, "iput_unref")
  /\ UNCHANGED <<dinode, lost>>

(* mutant: frees the inode although others may have found it meanwhile *)
Unref_ToZero(i) == [inode EXCEPT ![i].ref = 0]

(* ref--; an entry without references may be recycled, its copy is void.   *)
Unref(i) == [inode EXCEPT ![i] = IF @.ref = 1 THEN NoInode ELSE [@ EXCEPT !.ref = @ - 1]]

iput(p) ==
  LET i == th[p].put IN
  /\ (At(p, "iput") /\ ~Last(i)) \/ At(p, "iput_unref")
  /\ inode' = Unref(i)
  /\ th' = [th EXCEPT ![p] = IF @.k = "idle" THEN Idle ELSE [@ EXCEPT !.put = 0, !.pc = th[p].k, !.k = "idle"]]
  /\ UNCHANGED <<dinode, lost>>

iputStep(p) == iput_last(p) \/ iput_free(p) \/ iput_done(p) \/ iput(p)

(* namex() with ip at the start of t.path: namei() returns ip at the end   *)
(* of the path, nameiparent() fails there.                                 *)
Walk(t) == IF t.path # <<>> THEN [t EXCEPT !.pc = "namex"]
           ELSE IF t.parent THEN Put(t, "ip", Fail(t)) ELSE [t EXCEPT !.pc = "found"]

(* One round of namex(): ip must be a directory; the last name is left to  *)
(* the caller of nameiparent(), else the inode it names is the next ip.    *)
namex(p) ==
  LET t == th[p]  i == t.ip  next == dirlookup(i, Head(t.path))
      copied == [inode EXCEPT ![i] = Load(i)]
      dir == Load(i).type = "dir"
      stop == t.parent /\ Len(t.path) = 1
  IN /\ At(p, "namex") /\ CanLock(i) /\ ~NoType(i)
     /\ UNCHANGED <<dinode, lost>>
     /\ \/ /\ dir /\ stop
           /\ inode' = copied
           /\ th' = [th EXCEPT ![p].pc = "found", ![p].ip = 0, ![p].dp = i]
        \/ /\ ~dir \/ (~stop /\ next = 0)
           /\ inode' = copied
           /\ th' = [th EXCEPT ![p] = Put(t, "ip", Fail(t))]
        \/ /\ dir /\ ~stop /\ next # 0
           /\ inode' = iget(copied, next)
           /\ th' = [th EXCEPT ![p] = LET rest == Walk([t EXCEPT !.ip = next, !.path = Tail(t.path),
                                                     !.above = Above(i, Head(t.path))])
                                    IN [rest EXCEPT !.put = i, !.pc = "iput", !.k = rest.pc]]
=============================================================================
