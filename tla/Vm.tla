--------------------------------- MODULE Vm ---------------------------------
(***************************************************************************)
(* Physical pages and user address spaces: kernel/kalloc.c, the user part  *)
(* of kernel/vm.c, kernel/exec.c, and the calls of kernel/proc.c that      *)
(* allocate and free memory.                                               *)
(*                                                                         *)
(* A page table is the set of its table pages and its leaf entries, with   *)
(* FAN instead of 512 entries to a table, so that three levels map FAN^3   *)
(* pages.  Address spaces are private to their process and meet only in    *)
(* the free list, so a call is one step; where it runs out of memory is up *)
(* to the pages that pipes hold at the time.  Pages are counted and not    *)
(* named: a page that is lost, or freed while in use, shows in the sum.    *)
(***************************************************************************)
EXTENDS Integers, FiniteSets, SequencesExt, FiniteSetsExt

CONSTANTS
  NPROC,       \* processes, numbered from 1
  NPAGES,      \* pages between the end of the kernel and PHYSTOP
  PGSIZE, FAN,
  NFILE,       \* entries of the file table there are for pipes
  Deltas,      \* arguments of sbrk()
  Programs     \* what exec() may load: the end address of every segment

VARIABLES
  free,        \* pages in kmem.freelist
  proc,        \* per process: in use?, tables, leaves, sz
  pipes,       \* pages of pipes
  pfiles,      \* entries of the file table that are ends of pipes
  panicked,
  failed       \* the last call returned -1

vars == <<free, proc, pipes, pfiles, panicked, failed>>

Procs == 1..NPROC
Users == {p \in Procs : proc[p].used}

PGROUNDUP(a) == (a + PGSIZE - 1) \div PGSIZE   \* as a page number
TRAMPOLINE == FAN^3 - 1
TRAPFRAME == FAN^3 - 2

(* The leaves are functions from page numbers to their flags PTE_U, PTE_W. *)
Unused == [used |-> FALSE, tables |-> {}, leaves |-> <<>>, sz |-> 0]

-----------------------------------------------------------------------------
(* Calls work on the free list and one page table; ok is their result and  *)
(* at the page at which they failed.                                       *)
Mem(f, pt) == [free |-> f, tables |-> pt.tables, leaves |-> pt.leaves,
               ok |-> TRUE, at |-> 0, panic |-> FALSE]

Fail(m, a) == [m EXCEPT !.ok = FALSE, !.at = a]

With(f, x, v) == [y \in DOMAIN f \cup {x} |-> IF y = x THEN v ELSE f[y]]

(* kalloc() and kfree() of n pages *)
kalloc(m) == IF m.free = 0 THEN [m EXCEPT !.ok = FALSE] ELSE [m EXCEPT !.free = @ - 1]
kfree(m, n) == [m EXCEPT !.free = @ + n]

(* walk(): the table pages on the way to a leaf, allocated when missing;   *)
(* those allocated before one is missing stay.                             *)
walk_level(m, t) ==
  IF ~m.ok \/ t \in m.tables THEN m
  ELSE [kalloc(m) EXCEPT !.tables = IF m.free = 0 THEN @ ELSE @ \cup {t}]

walk(m, a) == walk_level(walk_level(m, <<1, a \div FAN^2>>), <<0, a \div FAN>>)

(* mappages(), for one page *)
mappages(m, a, u, w) ==
  LET t == walk(m, a) IN
  IF ~t.ok THEN t
  ELSE [t EXCEPT !.panic = @ \/ a \in DOMAIN t.leaves,
                 !.leaves = With(@, a, [u |-> u, w |-> w])]

(* uvmunmap(), for the pages lo..hi-1 *)
uvmunmap(m, lo, hi, do_free) ==
  LET gone == lo..hi-1 IN
  IF ~(gone \subseteq DOMAIN m.leaves) THEN [m EXCEPT !.panic = TRUE]
  ELSE [kfree(m, IF do_free THEN Cardinality(gone) ELSE 0) EXCEPT
                 !.leaves = [a \in DOMAIN @ \ gone |-> @[a]]]

(* uvmcreate() *)
uvmcreate(f) ==
  LET m == kalloc(Mem(f, Unused)) IN IF m.ok THEN [m EXCEPT !.tables = {<<2, 0>>}] ELSE m

(* A new page, mapped at a; it is given back if there is no table for it.  *)
MapNew(m, a, u, w) ==
  IF ~m.ok THEN m
  ELSE IF m.free = 0 THEN Fail(m, a)
  ELSE LET t == mappages(kalloc(m), a, u, w)
       IN IF t.ok THEN t ELSE Fail(kfree(t, 1), a)

Numbers(lo, hi) == [i \in 1..hi - lo |-> lo + i - 1]   \* lo, ..., hi - 1

(* mutant: the page that newsz ends in goes as well *)
uvmdealloc_RoundDown(m, oldsz, newsz) ==
  IF newsz < oldsz THEN uvmunmap(m, newsz \div PGSIZE, PGROUNDUP(oldsz), TRUE) ELSE m

(* uvmdealloc() *)
uvmdealloc(m, oldsz, newsz) ==
  IF newsz < oldsz /\ PGROUNDUP(newsz) < PGROUNDUP(oldsz)
  THEN uvmunmap(m, PGROUNDUP(newsz), PGROUNDUP(oldsz), TRUE) ELSE m

(* mutant: on failure the pages allocated so far stay mapped *)
uvmalloc_Leak(m, oldsz, newsz, w) ==
  FoldLeft(LAMBDA s, a : MapNew(s, a, TRUE, w), m, Numbers(PGROUNDUP(oldsz), PGROUNDUP(newsz)))

(* uvmalloc() *)
uvmalloc(m, oldsz, newsz, w) ==
  LET first == PGROUNDUP(oldsz)
      t == FoldLeft(LAMBDA s, a : MapNew(s, a, TRUE, w), m, Numbers(first, PGROUNDUP(newsz)))
  IN IF t.ok THEN t ELSE uvmunmap(t, first, t.at, TRUE)

(* mutant: unmaps the page that could not be copied too *)
uvmcopy_err_OffByOne(t) == uvmunmap(t, 0, t.at + 1, TRUE)

uvmcopy_err(t) == uvmunmap(t, 0, t.at, TRUE)

(* uvmcopy() into an empty table: the same leaves with pages of their own *)
uvmcopy(m, old, sz) ==
  LET t == FoldLeft(LAMBDA s, a : MapNew(s, a, old[a].u, old[a].w), m, Numbers(0, PGROUNDUP(sz)))
  IN IF t.ok THEN t ELSE uvmcopy_err(t)

(* mutant: the page-table pages are forgotten *)
freewalk_Leak(m) == [m EXCEPT !.panic = @ \/ m.leaves # <<>>, !.tables = {}]

freewalk(m) ==
  [kfree(m, Cardinality(m.tables)) EXCEPT
     !.panic = @ \/ m.leaves # <<>>, !.tables = {}]

uvmfree(m, sz) == freewalk(uvmunmap(m, 0, PGROUNDUP(sz), TRUE))

proc_freepagetable(m, sz) ==
  uvmfree(uvmunmap(m, TRAPFRAME, TRAMPOLINE + 1, FALSE), sz)

(* proc_pagetable(): a failure frees what there is of the table. *)
proc_pagetable(f) ==
  LET m == uvmcreate(f)
      t == mappages(m, TRAMPOLINE, FALSE, FALSE)
      s == mappages(t, TRAPFRAME, FALSE, TRUE)
  IN IF ~m.ok THEN m
     ELSE IF ~t.ok THEN Fail(uvmfree(t, 0), 0)
     ELSE IF ~s.ok THEN Fail(uvmfree(uvmunmap(s, TRAMPOLINE, TRAMPOLINE + 1, FALSE), 0), 0)
     ELSE s
-----------------------------------------------------------------------------
Apply(m) ==
  /\ free' = m.free
  /\ panicked' = m.panic

Image(p, m, sz) ==
  [proc EXCEPT ![p].tables = m.tables, ![p].leaves = m.leaves, ![p].sz = sz]

(* sbrk(): growproc(), where a size below zero wraps around to one that    *)
(* uvmdealloc() takes for no change.  Bound of the model: there is more    *)
(* address space below the trapframe than memory, so sbrk() never grows    *)
(* into the trapframe.                                                     *)
growproc(p, n) ==
  LET old == proc[p].sz
      m == Mem(free, proc[p])
      t == IF n > 0 THEN uvmalloc(m, old, old + n, TRUE)
           ELSE IF old + n < 0 THEN m ELSE uvmdealloc(m, old, old + n)
      sz == IF ~t.ok \/ old + n < 0 THEN old ELSE old + n
  IN /\ p \in Users
     /\ PGROUNDUP(old + n) <= TRAPFRAME
     /\ Apply(t) /\ failed' = ~t.ok
     /\ proc' = Image(p, t, sz)
     /\ UNCHANGED <<pipes, pfiles>>

(* allocproc() and the memory part of fork(); a failure ends in freeproc() *)
(* of the new process, whose sz is still 0.                                *)
fork_copy(p, np, m) ==
  \/ /\ ~m.ok
     /\ Apply(kfree(proc_freepagetable(m, 0), 1))
     /\ failed' = TRUE /\ UNCHANGED proc
  \/ /\ m.ok
     /\ Apply(m) /\ failed' = FALSE
     /\ proc' = [proc EXCEPT ![np] = [used |-> TRUE, tables |-> m.tables,
                                      leaves |-> m.leaves, sz |-> proc[p].sz]]

fork(p, np) ==
  LET t == proc_pagetable(free - 1)   \* after the trapframe
  IN /\ p \in Users /\ np \in Procs \ Users
     /\ UNCHANGED <<pipes, pfiles>>
     /\ \/ /\ free = 0
           /\ failed' = TRUE /\ UNCHANGED <<free, proc, panicked>>
        \/ /\ free > 0 /\ ~t.ok
           /\ Apply(kfree(t, 1))
           /\ failed' = TRUE /\ UNCHANGED proc
        \/ /\ free > 0 /\ t.ok
           /\ fork_copy(p, np, uvmcopy(t, proc[p].leaves, proc[p].sz))

(* The loop of exec() over the program headers: the image grows to the end *)
(* of each segment that ends above it.  bad is the number of the header    *)
(* that cannot be loaded, 0 if all can.                                    *)
LoadSegments(m, ends, bad) ==
  FoldLeft(LAMBDA s, i :
             IF ~s.mem.ok THEN s
             ELSE LET t == uvmalloc(s.mem, s.sz, ends[i], TRUE) IN
                  IF ~t.ok THEN [mem |-> t, sz |-> s.sz]
                  ELSE [mem |-> [t EXCEPT !.ok = i # bad], sz |-> Max({s.sz, ends[i]})],
           [mem |-> m, sz |-> 0], Numbers(1, Len(ends) + 1))

(* uvmclear() *)
uvmclear(m, a) == [m EXCEPT !.leaves[a].u = FALSE]

(* exec() builds the new image, with a guard page below the stack, beside  *)
(* the old one and switches at the end.  bad says what goes wrong with the *)
(* file: the number of a segment, or of the arguments after the last one.  *)
exec_bad(m, sz) ==
  /\ Apply(proc_freepagetable(m, sz))
  /\ failed' = TRUE /\ UNCHANGED proc

exec_stack(p, args_ok, base, m) ==
  LET sz == base + 2 * PGSIZE
      new == uvmclear(m, PGROUNDUP(base))
      old == proc_freepagetable(Mem(m.free, proc[p]), proc[p].sz)
  IN \/ ~m.ok /\ exec_bad(m, base)
     \/ m.ok /\ ~args_ok /\ exec_bad(new, sz)
     \/ /\ m.ok /\ args_ok
        /\ Apply([old EXCEPT !.panic = @ \/ m.panic])
        /\ failed' = FALSE /\ proc' = Image(p, new, sz)

exec_load(p, args_ok, loaded) ==
  LET base == PGROUNDUP(loaded.sz) * PGSIZE IN
  \/ ~loaded.mem.ok /\ exec_bad(loaded.mem, loaded.sz)
  \/ /\ loaded.mem.ok
     /\ exec_stack(p, args_ok, base, uvmalloc(loaded.mem, base, base + 2 * PGSIZE, TRUE))

exec(p, ends, bad) ==
  LET t == proc_pagetable(free) IN
  /\ p \in Users
  /\ UNCHANGED <<pipes, pfiles>>
  /\ \/ ~t.ok /\ Apply(t) /\ failed' = TRUE /\ UNCHANGED proc
     \/ t.ok /\ exec_load(p, bad <= Len(ends), LoadSegments(t, ends, bad))

(* wait() frees a process that has exited. *)
freeproc(p) ==
  LET m == proc_freepagetable(Mem(free + 1, proc[p]), proc[p].sz) IN
  /\ p \in Users \ {1}
  /\ Apply(m) /\ failed' = FALSE
  /\ proc' = [proc EXCEPT ![p] = Unused]
  /\ UNCHANGED <<pipes, pfiles>>

(* pipealloc(): two files and a page.  At bad: the files that it has taken *)
(* are closed again; there is never a page to give back.                   *)
pipealloc ==
  /\ UNCHANGED <<proc, panicked>>
  /\ \/ /\ pfiles + 2 <= NFILE /\ free > 0
        /\ pipes' = pipes + 1 /\ pfiles' = pfiles + 2 /\ free' = free - 1
        /\ failed' = FALSE
     \/ /\ pfiles + 2 > NFILE \/ free = 0
        /\ failed' = TRUE /\ UNCHANGED <<pipes, pfiles, free>>

(* pipeclose(): of a pipe with both ends open one is closed; with the last *)
(* end of a pipe goes its page.                                            *)
pipeclose ==
  /\ failed' = FALSE /\ UNCHANGED <<proc, panicked>>
  /\ \/ /\ pfiles > pipes
        /\ pfiles' = pfiles - 1 /\ UNCHANGED <<pipes, free>>
     \/ /\ pfiles < 2 * pipes
        /\ pfiles' = pfiles - 1 /\ pipes' = pipes - 1 /\ free' = free + 1

(* kinit(), and userinit() with uvmfirst() *)
Init ==
  LET m == MapNew(proc_pagetable(NPAGES - 1), 0, TRUE, TRUE) IN
  /\ free = m.free
  /\ proc = [p \in Procs |-> IF p > 1 THEN Unused
               ELSE [used |-> TRUE, tables |-> m.tables, leaves |-> m.leaves, sz |-> PGSIZE]]
  /\ pipes = 0 /\ pfiles = 0 /\ panicked = FALSE /\ failed = FALSE

Next ==
  /\ ~panicked
  /\ \/ \E p \in Procs : \/ \E n \in Deltas : growproc(p, n)
                         \/ \E np \in Procs : fork(p, np)
                         \/ \E ends \in Programs : \E bad \in 0..Len(ends) + 1 : exec(p, ends, bad)
                         \/ freeproc(p)
     \/ pipealloc \/ pipeclose
-----------------------------------------------------------------------------
(* uvmunmap() and freewalk() never panic: what is to be unmapped is mapped *)
(* and nothing else is left when the tables are freed.                     *)
NoVmPanic == ~panicked

(* Every page is either free or has exactly one use: a trapframe, a page   *)
(* table, a user page or a pipe that has an end open.  Failing calls       *)
(* neither lose a page nor free one that is in use.                        *)
PagesAccounted ==
  LET UserPages(p) == DOMAIN proc[p].leaves \ {TRAPFRAME, TRAMPOLINE}
      Uses(p) == IF p \in Users THEN 1 + Cardinality(proc[p].tables) + Cardinality(UserPages(p)) ELSE 0
  IN /\ free + pipes + MapThenSumSet(Uses, Procs) = NPAGES
     /\ pfiles \in pipes..2 * pipes

(* A process has the pages below its sz mapped and no others: what the     *)
(* panics of uvmcopy() and uvmunmap() rely on.                             *)
ImageIsSize ==
  \A p \in Users :
    DOMAIN proc[p].leaves = (0..PGROUNDUP(proc[p].sz) - 1) \cup {TRAPFRAME, TRAMPOLINE}

(* sbrk(), fork(), exec() and pipe() that return -1 leave every image as   *)
(* it was, and cost no memory but page-table pages that sbrk() keeps.      *)
FailureChangesNothing ==
  [][failed' =>
       /\ \A p \in Procs : proc'[p].leaves = proc[p].leaves /\ proc'[p].sz = proc[p].sz
       /\ free' + Cardinality(UNION {{p} \X proc'[p].tables : p \in Procs})
            = free + Cardinality(UNION {{p} \X proc[p].tables : p \in Procs})
    ]_vars

(* The accounts of memory agree: no call panics, the free list and the     *)
(* pages in use add up, and each image is what its sz says.                *)
MemoryAccounted == NoVmPanic /\ PagesAccounted /\ ImageIsSize
=============================================================================
