------------------------------ MODULE SysFile ------------------------------
(***************************************************************************)
(* The file system calls of kernel/sysfile.c and the open files of         *)
(* kernel/file.c, on the inodes of module Inode.  Pipes are in module      *)
(* Pipe, reads and writes of files in FileData.                            *)
(***************************************************************************)
EXTENDS Inode

CONSTANTS
  NFILE, NOFILE,   \* entries of the file table; descriptors per process
  InitProc,        \* the first process, which never exits
  MaxLinks         \* bound of the model: no link() once a file has so many links

VARIABLES
  cwd,       \* p->cwd; 0 when the process does not exist
  ofile,     \* p->ofile[]: numbers of open files, 0 if none
  file       \* ftable: ref and ip of every open file

vars == <<dinode, inode, th, lost, cwd, ofile, file>>
files == <<cwd, ofile, file>>

Files == 1..NFILE
Fds == 1..NOFILE

Init ==
  /\ InodeInit
  /\ inode = [i \in Inums |-> IF i = ROOTINO THEN [NoInode EXCEPT !.ref = 1] ELSE NoInode]
  /\ th = [p \in Procs |-> Idle]
  /\ cwd = [p \in Procs |-> IF p = InitProc THEN ROOTINO ELSE 0]
  /\ ofile = [p \in Procs |-> [d \in Fds |-> 0]]
  /\ file = [f \in Files |-> [ref |-> 0, ip |-> 0]]

(* A path says whether it starts at the root or at the current directory,  *)
(* and lists its names.  namex() takes a reference to where it starts.     *)
Start(p, path, t) ==
  LET i == IF path.abs THEN ROOTINO ELSE cwd[p] IN
  /\ inode' = iget(inode, i)
  /\ th' = [th EXCEPT ![p] = Walk([t EXCEPT !.path = path.names, !.ip = i])]

(* A process calls open(), open() with O_CREATE, mkdir(), mknod(),         *)
(* unlink(), chdir() or link().                                            *)
syscall(p, op, path) ==
  /\ At(p, "idle") /\ cwd[p] # 0
  /\ op = "link" => \A i \in Inums : dinode[i].type \in {"file", "dev"} => dinode[i].nlink < MaxLinks
  /\ Start(p, path, [Idle EXCEPT !.op = op,
                       !.parent = op \in {"creat", "mkdir", "mknod", "unlink"}])
  /\ UNCHANGED <<dinode, lost, files>>

Found(p, ops) == At(p, "found") /\ th[p].op \in ops

(* What filealloc(), fdalloc() and ialloc() choose the first of *)
filealloc == {f \in Files : file[f].ref = 0}
fdalloc(p) == {d \in Fds : ofile[p][d] = 0}
ialloc == {i \in Inums : dinode[i].type = "none"}

(* The end of open(), for the locked inode in register r: filealloc() and  *)
(* fdalloc(); the new file takes over the reference.  It is given up if    *)
(* there is no room, or for a device whose major number is out of range.   *)
OpenFile(p, t, r, tab) ==
  LET i == t[r]
  IN /\ inode' = tab
     /\ \/ /\ filealloc # {} /\ fdalloc(p) # {}
           /\ file' = [file EXCEPT ![Min(filealloc)] = [ref |-> 1, ip |-> i]]
           /\ ofile' = [ofile EXCEPT ![p][Min(fdalloc(p))] = Min(filealloc)]
           /\ th' = [th EXCEPT ![p] = Idle]
        \/ /\ filealloc = {} \/ fdalloc(p) = {} \/ Load(i).type = "dev"
           /\ th' = [th EXCEPT ![p] = Put(t, r, Fail(th[p]))]
           /\ UNCHANGED <<file, ofile>>
     /\ UNCHANGED <<dinode, lost, cwd>>

(* open() of a name that exists; a directory only for reading *)
sys_open(p) ==
  LET i == th[p].ip  copied == [inode EXCEPT ![i] = Load(i)] IN
  /\ Found(p, {"open"}) /\ CanLock(i) /\ ~NoType(i)
  /\ \/ OpenFile(p, th[p], "ip", copied)
     \/ /\ Load(i).type = "dir"   \* and omode is not O_RDONLY
        /\ inode' = copied /\ th' = [th EXCEPT ![p] = Put(@, "ip", Fail(th[p]))]
        /\ UNCHANGED <<dinode, lost, files>>

(* create(): look in the directory; an inode that is there is taken, else  *)
(* ialloc() finds a free one and the directory stays locked.               *)
create(p) ==
  LET t == th[p]  d == t.dp  next == dirlookup(d, Head(t.path))
      type == CASE t.op = "mkdir" -> "dir" [] t.op = "mknod" -> "dev" [] OTHER -> "file"
      copied == [inode EXCEPT ![d] = Load(d)]
  IN /\ Found(p, {"creat", "mkdir", "mknod"}) /\ CanLock(d) /\ ~NoType(d)
     /\ UNCHANGED <<lost, files>>
     /\ \/ /\ next # 0
           /\ inode' = iget(copied, next)
           /\ th' = [th EXCEPT ![p] = [Put(t, "dp", "exists") EXCEPT !.ip = next, !.above = Above(d, Head(t.path))]]
           /\ UNCHANGED dinode
        \/ /\ next = 0 /\ ialloc = {}
           /\ inode' = copied /\ th' = [th EXCEPT ![p] = Put(t, "dp", Fail(t))]
           /\ UNCHANGED dinode
        \/ /\ next = 0 /\ ialloc # {}
           /\ dinode' = [dinode EXCEPT ![Min(ialloc)] = [Free EXCEPT !.type = type]]
           /\ inode' = iget([copied EXCEPT ![d].lock = p], Min(ialloc))
           /\ th' = [th EXCEPT ![p].ip = Min(ialloc), ![p].pc = "create_new"]

(* The name exists: open() takes a file or a device, the others fail. *)
create_exists(p) ==
  LET i == th[p].ip  copied == [inode EXCEPT ![i] = Load(i)] IN
  /\ At(p, "exists") /\ CanLock(i) /\ ~NoType(i)
  /\ IF th[p].op = "creat" /\ Load(i).type # "dir"
     THEN OpenFile(p, th[p], "ip", copied)
     ELSE /\ inode' = copied /\ th' = [th EXCEPT ![p] = Put(@, "ip", Fail(th[p]))]
          /\ UNCHANGED <<dinode, lost, files>>

(* dirlink(dp, name), and dp->nlink++ for the ".." of a directory *)
LinkDir(d, n, i) ==
  [dinode EXCEPT ![d].ents[n] = i, ![d].nlink = IF dinode[i].type = "dir" THEN @ + 1 ELSE @]

(* The new inode is locked, gets its link, "." and "..", and its name; the *)
(* directory is released and put.  Then open() goes on with the inode      *)
(* locked, mkdir() and mknod() release it.                                 *)
create_new(p) ==
  LET t == th[p]  d == t.dp  i == t.ip
      made == [LinkDir(d, Head(t.path), i) EXCEPT ![i].nlink = 1, ![i].parent = d]
  IN /\ At(p, "create_new") /\ CanLock(i) /\ ~NoType(i)
     /\ dinode' = made
     /\ inode' = [inode EXCEPT ![i] = [Load(i) EXCEPT !.nlink = 1, !.lock = p],
                               ![d].lock = NoProc, ![d].nlink = made[d].nlink]
     /\ th' = [th EXCEPT ![p] = Put(t, "dp", "created")]
     /\ UNCHANGED <<lost, files>>

created(p) ==
  LET i == th[p].ip  unlocked == [inode EXCEPT ![i].lock = NoProc] IN
  /\ At(p, "created")
  /\ IF th[p].op = "creat" THEN OpenFile(p, th[p], "ip", unlocked)
     ELSE /\ inode' = unlocked /\ th' = [th EXCEPT ![p] = Put(@, "ip", "idle")]
          /\ UNCHANGED <<dinode, lost, files>>

(* dirlink() fails for want of a disk block: the new inode loses its link, *)
(* its directory is still locked while iput() frees it.                    *)
create_fail(p) ==
  LET i == th[p].ip IN
  /\ At(p, "create_new") /\ CanLock(i) /\ ~NoType(i)
  /\ dinode' = [dinode EXCEPT ![i].nlink = 0]
  /\ inode' = [inode EXCEPT ![i] = [Load(i) EXCEPT !.nlink = 0]]
  /\ th' = [th EXCEPT ![p] = Put(@, "ip", "unlock_dp")]
  /\ UNCHANGED <<lost, files>>

(* iunlockput(dp) at the end of a call that failed *)
unlock_dp(p) ==
  /\ At(p, "unlock_dp")
  /\ inode' = [inode EXCEPT ![th[p].dp].lock = NoProc]
  /\ th' = [th EXCEPT ![p] = Put(@, "dp", Fail(th[p]))]
  /\ UNCHANGED <<dinode, lost, files>>

(* unlink(): the directory is locked and the name looked up, ... *)
sys_unlink(p) ==
  LET t == th[p]  d == t.dp  n == Head(t.path)  i == dirlookup(d, n)
      copied == [inode EXCEPT ![d] = Load(d)]
  IN /\ Found(p, {"unlink"}) /\ CanLock(d) /\ ~NoType(d)
     /\ IF n \in {".", ".."} \/ i = 0
        THEN /\ inode' = copied /\ th' = [th EXCEPT ![p] = Put(t, "dp", Fail(th[p]))]
        ELSE /\ inode' = iget([copied EXCEPT ![d].lock = p], i)
             /\ th' = [th EXCEPT ![p].ip = i, ![p].pc = "unlink_lock"]
     /\ UNCHANGED <<dinode, lost, files>>

isdirempty(i) == dinode[i].ents = NoDir

(* mutant: the directory loses a link whatever is removed *)
DirLinks_Always(d, i) == inode[d].nlink - 1

(* dp->nlink-- for the ".." of a directory that is removed *)
DirLinks(d, i) == IF Load(i).type = "dir" THEN inode[d].nlink - 1 ELSE inode[d].nlink

(* ... its inode is locked too; a directory must be empty; the entry goes, *)
(* and the directory is released and put ...                               *)
unlink_lock(p) ==
  LET t == th[p]  d == t.dp  i == t.ip  dir == Load(i).type = "dir"
      dlinks == DirLinks(d, i)
  IN /\ At(p, "unlink_lock") /\ CanLock(i) /\ ~NoType(i) /\ Load(i).nlink >= 1
     /\ UNCHANGED <<lost, files>>
     /\ \/ /\ dir /\ ~isdirempty(i)
           /\ inode' = [inode EXCEPT ![i] = Load(i)]
           /\ th' = [th EXCEPT ![p] = Put(t, "ip", "unlock_dp")]
           /\ UNCHANGED dinode
        \/ /\ ~(dir /\ ~isdirempty(i))
           /\ dinode' = [dinode EXCEPT ![d].ents[Head(t.path)] = 0, ![d].nlink = dlinks]
           /\ inode' = [inode EXCEPT ![d].lock = NoProc, ![d].nlink = dlinks,
                                     ![i] = [Load(i) EXCEPT !.lock = p]]
           /\ th' = [th EXCEPT ![p] = Put(t, "dp", "unlink_count")]

(* ... and then the inode's count goes down. *)
unlink_count(p) ==
  LET i == th[p].ip IN
  /\ At(p, "unlink_count")
  /\ dinode' = [dinode EXCEPT ![i].nlink = Nlink(i, -1)]
  /\ inode' = [inode EXCEPT ![i].nlink = Nlink(i, -1), ![i].lock = NoProc]
  /\ th' = [th EXCEPT ![p] = Put(@, "ip", "idle")]
  /\ UNCHANGED <<lost, files>>

(* link(): the count goes up before the new name is there ... *)
sys_link(p) ==
  LET t == th[p]  i == t.ip  more == Nlink(i, 1) IN
  /\ Found(p, {"link"}) /\ t.old = 0 /\ CanLock(i) /\ ~NoType(i)
  /\ UNCHANGED <<lost, files>>
  /\ IF Load(i).type = "dir"
     THEN /\ inode' = [inode EXCEPT ![i] = Load(i)]
          /\ th' = [th EXCEPT ![p] = Put(t, "ip", Fail(th[p]))]
          /\ UNCHANGED dinode
     ELSE /\ dinode' = [dinode EXCEPT ![i].nlink = more]
          /\ inode' = [inode EXCEPT ![i] = [Load(i) EXCEPT !.nlink = more]]
          /\ th' = [th EXCEPT ![p] = [t EXCEPT !.old = i, !.ip = 0, !.parent = TRUE, !.pc = "link_new"]]

link_new(p, new) ==
  /\ At(p, "link_new")
  /\ \E path \in new : Start(p, path, th[p])
  /\ UNCHANGED <<dinode, lost, files>>

(* ... dirlink() adds the name, or finds that it exists, and puts what it  *)
(* found, or that there is no room for it ...                              *)
link_entry(p) ==
  LET t == th[p]  d == t.dp  n == Head(t.path)  i == dirlookup(d, n)
      copied == [inode EXCEPT ![d] = Load(d)]
  IN /\ Found(p, {"link"}) /\ t.old # 0 /\ CanLock(d) /\ ~NoType(d)
     /\ UNCHANGED <<lost, files>>
     /\ \/ /\ i = 0
           /\ inode' = copied /\ dinode' = [dinode EXCEPT ![d].ents[n] = t.old]
           /\ th' = [th EXCEPT ![p] = Put(t, "dp", "link_put")]
        \/ /\ i = 0
           /\ inode' = copied /\ th' = [th EXCEPT ![p] = Put(t, "dp", Fail(t))]
           /\ UNCHANGED dinode
        \/ /\ i # 0
           /\ inode' = iget([copied EXCEPT ![d].lock = p], i)
           /\ th' = [th EXCEPT ![p] = Put([t EXCEPT !.ip = i], "ip", "unlock_dp")]
           /\ UNCHANGED dinode

link_put(p) ==
  /\ At(p, "link_put")
  /\ th' = [th EXCEPT ![p] = Put(@, "old", "idle")]
  /\ UNCHANGED <<dinode, inode, lost, files>>

(* ... in which case the count goes down again. *)
link_bad(p) ==
  LET i == th[p].old IN
  /\ At(p, "link_bad") /\ CanLock(i) /\ ~NoType(i)
  /\ dinode' = [dinode EXCEPT ![i].nlink = Nlink(i, -1)]
  /\ inode' = [inode EXCEPT ![i] = [Load(i) EXCEPT !.nlink = Nlink(i, -1)]]
  /\ th' = [th EXCEPT ![p] = Put(@, "old", "idle")]
  /\ UNCHANGED <<lost, files>>

(* chdir(): the old directory is put, then replaced.  (In between p->cwd   *)
(* still points to it, but is not used.)                                   *)
sys_chdir(p) ==
  LET i == th[p].ip IN
  /\ Found(p, {"chdir"}) /\ CanLock(i) /\ ~NoType(i)
  /\ inode' = [inode EXCEPT ![i] = Load(i)]
  /\ IF Load(i).type = "dir"
     THEN /\ th' = [th EXCEPT ![p] = [@ EXCEPT !.put = cwd[p], !.pc = "iput", !.k = "chdir_set"]]
          /\ cwd' = [cwd EXCEPT ![p] = 0]
     ELSE th' = [th EXCEPT ![p] = Put(@, "ip", Fail(th[p]))] /\ UNCHANGED cwd
  /\ UNCHANGED <<dinode, lost, ofile, file>>

chdir_set(p) ==
  /\ At(p, "chdir_set")
  /\ cwd' = [cwd EXCEPT ![p] = th[p].ip]
  /\ th' = [th EXCEPT ![p] = Idle]
  /\ UNCHANGED <<dinode, inode, lost, ofile, file>>
-----------------------------------------------------------------------------
(* fileclose(), the last reference with iput(), and on to label k *)
Close(p, d, t, k) ==
  LET f == ofile[p][d] IN
  /\ ofile' = [ofile EXCEPT ![p][d] = 0]
  /\ IF file[f].ref > 1
     THEN /\ file' = [file EXCEPT ![f].ref = @ - 1]
          /\ th' = [th EXCEPT ![p] = [t EXCEPT !.pc = k]]
     ELSE /\ file' = [file EXCEPT ![f] = [ref |-> 0, ip |-> 0]]
          /\ th' = [th EXCEPT ![p] = [t EXCEPT !.put = file[f].ip, !.pc = "iput", !.k = k]]
  /\ UNCHANGED <<dinode, inode, lost, cwd>>

sys_close(p, d) ==
  /\ At(p, "idle") /\ ofile[p][d] # 0
  /\ Close(p, d, Idle, "idle")

(* mutant: dup() does not count its descriptor *)
filedup_Uncounted(f) == file

filedup(f) == [file EXCEPT ![f].ref = @ + 1]

(* dup(): fdalloc() and filedup() *)
sys_dup(p, d) ==
  LET f == ofile[p][d] IN
  /\ At(p, "idle") /\ f # 0 /\ fdalloc(p) # {}
  /\ ofile' = [ofile EXCEPT ![p][Min(fdalloc(p))] = f]
  /\ file' = filedup(f)
  /\ UNCHANGED <<dinode, inode, th, lost, cwd>>

(* fork(): the child shares the open files and the directory. *)
fork(p, q) ==
  /\ At(p, "idle") /\ cwd[p] # 0 /\ th[q].pc = "idle" /\ cwd[q] = 0
  /\ ofile' = [ofile EXCEPT ![q] = ofile[p]]
  /\ file' = [f \in Files |->
                [file[f] EXCEPT !.ref = @ + Cardinality({d \in Fds : ofile[p][d] = f})]]
  /\ cwd' = [cwd EXCEPT ![q] = cwd[p]]
  /\ inode' = iget(inode, cwd[p])
  /\ UNCHANGED <<dinode, th, lost>>

(* exit() closes the files one after the other and puts the directory.     *)
exit(p) ==
  /\ p # InitProc /\ (At(p, "exit") \/ (At(p, "idle") /\ cwd[p] # 0))
  /\ LET ds == {d \in Fds : ofile[p][d] # 0} IN
     IF ds # {} THEN Close(p, Min(ds), Idle, "exit")
     ELSE /\ th' = [th EXCEPT ![p] = [Idle EXCEPT !.put = cwd[p], !.pc = "iput"]]
          /\ cwd' = [cwd EXCEPT ![p] = 0]
          /\ UNCHANGED <<dinode, inode, lost, ofile, file>>

(* ilock() of a free inode: panic(), in which the process stays. *)
LockTarget(t) == CASE t.pc = "link_bad" -> t.old
                   [] t.pc \in {"found", "namex", "exists", "create_new", "unlink_lock"} ->
                        IF t.ip # 0 THEN t.ip ELSE t.dp
                   [] OTHER -> 0
Panics(p) == LET i == LockTarget(th[p]) IN i # 0 /\ CanLock(i) /\ NoType(i)
panic(p) == Panics(p) /\ UNCHANGED vars

CallStep(p, new) ==
  \/ (iputStep(p) \/ namex(p)) /\ UNCHANGED files
  \/ sys_open(p)
  \/ create(p) \/ create_exists(p) \/ create_new(p) \/ created(p) \/ create_fail(p) \/ unlock_dp(p)
  \/ sys_unlink(p) \/ unlink_lock(p) \/ unlink_count(p)
  \/ sys_link(p) \/ link_new(p, new) \/ link_entry(p) \/ link_put(p) \/ link_bad(p)
  \/ sys_chdir(p) \/ chdir_set(p) \/ panic(p)

(* Processes that make the given calls; new are second arguments of link() *)
FsNext(calls, new) ==
  \E p \in Procs :
    \/ \E c \in calls : syscall(p, c[1], c[2])
    \/ CallStep(p, new)
    \/ \E d \in Fds : sys_close(p, d) \/ sys_dup(p, d)
    \/ \E q \in Procs : fork(p, q)
    \/ exit(p)
-----------------------------------------------------------------------------
Registers == {"ip", "dp", "old", "put"}

(* ip->ref is the number of references that processes hold to the inode:   *)
(* current directories, open files and the variables of running calls.  No *)
(* error path of a call leaks a reference or drops one twice.              *)
RefsCounted ==
  \A i \in Inums :
    inode[i].ref = Cardinality({p \in Procs : cwd[p] = i})
                   + Cardinality({f \in Files : file[f].ip = i})
                   + Cardinality({<<p, r>> \in Procs \X Registers : th[p][r] = i})

(* f->ref is the number of descriptors of the file, in all processes. *)
FilesCounted ==
  \A f \in Files :
    file[f].ref = Cardinality({<<p, d>> \in Procs \X Fds : ofile[p][d] = f})

Quiet == \A p \in Procs : th[p].pc = "idle"
Entries(i) == {<<d, n>> \in Inums \X Names : dinode[d].ents[n] = i}
Subdirs(i) == {d \in Inums \ {i} : dinode[d].type = "dir" /\ dinode[d].parent = i
                                   /\ d \notin lost /\ Entries(d) # {}}

(* Between calls, which is when the log may commit: every directory entry  *)
(* names an allocated inode, every link count is the number of entries and *)
(* subdirectories, and a valid copy in memory agrees with the disk.        *)
(* Inodes that were created in a directory that had been removed, and lost *)
(* their entry with it, are set apart.                                     *)
LinksCounted ==
  Quiet => \A i \in Inums :
    /\ Entries(i) # {} => dinode[i].type # "none"
    /\ i \notin lost /\ dinode[i].type # "none" =>
         dinode[i].nlink = Cardinality(Entries(i)) + Cardinality(Subdirs(i))
                           + (IF i = ROOTINO THEN 1 ELSE 0)
    /\ inode[i].valid => inode[i].type = dinode[i].type /\ inode[i].nlink = dinode[i].nlink

(* The one panic that a call can reach is ilock()'s "no type", on an inode *)
(* that namex() or create() has found in the ".." of a directory that was  *)
(* removed before.  However calls interleave, an inode found under a name is    *)
(* not freed before it is locked, the directory that nameiparent() has     *)
(* released is still one when it is locked again, unlink() finds no inode  *)
(* without links, and iput() never sleeps with itable.lock held.           *)
PanicsOnlyAbove ==
  \A p \in Procs :
    LET t == th[p]  i == LockTarget(t) IN
    /\ Panics(p) => t.above /\ t.pc \in {"namex", "found", "exists"} /\ t.ip # 0
    /\ t.pc = "found" /\ t.ip = 0 => ~(CanLock(i) /\ Load(i).type # "dir")
    /\ t.pc = "unlink_lock" => ~(CanLock(i) /\ Load(i).nlink < 1)
    /\ t.pc = "iput" => ~(Last(t.put) /\ ~CanLock(t.put))

(* Between calls, an inode that has neither a link nor a reference is      *)
(* free: iput() says it frees the inode if "that was the last reference    *)
(* and the inode has no links to it".                                      *)
FreedWhenUnlinked ==
  Quiet => \A i \in Inums :
    dinode[i].type # "none" /\ dinode[i].nlink = 0 => inode[i].ref > 0

(* Type invariant *)
TypeOK ==
  /\ \A i \in Inums : /\ dinode[i].type \in {"none", "dir", "file", "dev"}
                      /\ dinode[i].nlink >= 0 /\ inode[i].nlink >= 0 /\ inode[i].ref >= 0
                      /\ inode[i].lock \in Procs \cup {NoProc}
                      /\ dinode[i].parent \in {0} \cup Inums
                      /\ dinode[i].ents \in [Names -> {0} \cup Inums]
  /\ lost \subseteq Inums
  /\ \A p \in Procs : \A r \in Registers : th[p][r] \in {0} \cup Inums
  /\ cwd \in [Procs -> {0} \cup Inums]
  /\ ofile \in [Procs -> [Fds -> {0} \cup Files]]
  /\ \A f \in Files : file[f].ref >= 0 /\ file[f].ip \in {0} \cup Inums

(* All counts of the file system agree with what they count: references to *)
(* inodes and open files at any time, links between calls.                 *)
CountsExact == TypeOK /\ RefsCounted /\ FilesCounted /\ LinksCounted
=============================================================================
