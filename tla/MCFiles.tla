------------------------------ MODULE MCFiles ------------------------------
(***************************************************************************)
(* The file system for TLC: the contents of files, the calls on inodes,    *)
(* directories and descriptors, the image that mkfs makes, and the string  *)
(* functions that names and paths depend on.  In a behaviour one of them   *)
(* moves, or is given an input, and the others stay as they are            *)
(* initialised.                                                            *)
(***************************************************************************)
EXTENDS FileData, Sequences, FiniteSets

CONSTANTS
  Parts,                                                                     \* those that may move
  NoProc, InitProc, NINODES, Names, NFILE, NOFILE, MaxLinks, Workloads,      \* SysFile
  FSSIZE, DISKINODES, IPB, BPB, LOGSIZE, MkfsSizes,                          \* Mkfs
  DIRSIZ                                                                     \* Str

VARIABLES
  part,        \* the one that moves
  workload,    \* the calls that the processes of SysFile make, with their paths
  dinode, inode, th, lost, cwd, ofile, file,
  given        \* what mkfs, or a string function, is given

fsvars == <<dinode, inode, th, lost, cwd, ofile, file>>
allvars == <<part, workload, given, vars, fsvars>>

F == INSTANCE SysFile
M == INSTANCE Mkfs WITH NINODES <- DISKINODES
S == INSTANCE Str

(* Workloads: nodes under two names; open files and devices; files that    *)
(* are created by open(); directories that are removed while somebody is   *)
(* in them; a directory in a directory, and the way up from it; a          *)
(* directory that is opened; a node that is no directory.                  *)
Abs(names) == [abs |-> TRUE, names |-> names]
Rel(names) == [abs |-> FALSE, names |-> names]
LinkCalls == {"mknod", "unlink", "link"} \X {Abs(<<>>), Abs(<<"x">>), Abs(<<"y">>)}
OpenCalls == {"mknod", "unlink", "open"} \X {Abs(<<"x">>)}
CreatCalls == {"creat", "unlink"} \X {Abs(<<"x">>)}
DirCalls == {"mkdir", "chdir", "unlink"} \X {Abs(<<"x">>), Rel(<<"x">>)}
TreeCalls == {"mkdir", "chdir", "unlink"} \X {Abs(<<"x">>), Abs(<<"x", "y">>)}
             \cup {<<"chdir", Rel(<<"..">>)>>}
RootCalls == {"open"} \X {Abs(<<>>)}
NodeCalls == {"mknod", "chdir"} \X {Abs(<<"x">>)}
MCCreat == {CreatCalls}
MCWorkloads == {LinkCalls, OpenCalls, CreatCalls, DirCalls, TreeCalls, RootCalls, NodeCalls}

(* up to four files, every unit of which is different; and the arguments   *)
(* of the string functions                                                 *)
UpTo(A, m) == UNION {[1..k -> A] : k \in 0..m}
MkfsInputs == {[i \in DOMAIN l |-> [k \in 1..l[i] |-> 10 * i + k]] : l \in UpTo(MkfsSizes, 4)}
Moves == {m \in [dst : 1..4, src : 1..4, n : 0..4] : m.dst + m.n <= 5 /\ m.src + m.n <= 5}
Strings == UpTo({1, 2}, DIRSIZ + 1)
Paths == UpTo({1, 2, S!Slash}, 5)

MCInit ==
  /\ part \in Parts
  /\ Init /\ F!Init
  /\ \/ part \in {"data", "fs"} /\ given = <<>>
     \/ part = "mkfs" /\ given \in MkfsInputs
     \/ part = "memmove" /\ given \in Moves
     \/ part = "names" /\ given \in Strings \X Strings
     \/ part = "safestrcpy" /\ given \in Strings \X (0..4)
     \/ part = "path" /\ given \in Paths
  /\ workload \in IF part = "fs" THEN Workloads ELSE {RootCalls}

MCNext ==
  /\ UNCHANGED <<part, workload, given>>
  /\ \/ part = "data" /\ Next /\ UNCHANGED fsvars
     \/ part = "fs" /\ F!FsNext(workload, {c[2] : c \in workload}) /\ UNCHANGED vars
     \/ part \notin {"data", "fs"} /\ UNCHANGED <<vars, fsvars>>

MCSpec == MCInit /\ [][MCNext]_allvars
-----------------------------------------------------------------------------
(* ip->ref counts the references that processes and open files hold, f->ref*)
(* the descriptors of an open file, and nlink the directory entries.       *)
CountsExact == part = "fs" => F!CountsExact

(* No call reaches a panic of fs.c or sysfile.c, but for ilock()'s of an   *)
(* inode that ".." of a removed directory names.                           *)
PanicsOnlyAbove == part = "fs" => F!PanicsOnlyAbove

(* iput() of the last reference frees an inode without a name (fs.c). *)
FreedWhenUnlinked == part = "fs" => F!FreedWhenUnlinked

(* mkfs marks the blocks it has used, uses none twice, and what it stores  *)
(* can be read back by the kernel's bmap().                                *)
ImageExact == part = "mkfs" => M!ImageExact(given)

(* memmove() copies overlapping bytes; namecmp() finds the name that       *)
(* strncpy() stored; safestrcpy() ends the string inside its buffer; and   *)
(* skipelem() takes a path apart at its slashes.                           *)
StringsExact ==
  /\ part = "memmove" => S!MemmoveExact(<<1, 2, 3, 4>>, given.dst, given.src, given.n)
  /\ part = "names" => S!NamesAgree(given[1], given[2])
  /\ part = "safestrcpy" => S!SafestrcpyFits(<<7, 7, 7, 7>>, given[1], given[2])
  /\ part = "path" => S!PathElements(given)
=============================================================================
