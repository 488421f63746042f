# A TLA+ model of xv6-riscv with `sleep` and `pingpong`

The repository is xv6, a small Unix-like kernel for multiprocessor RISC-V, with
two user programs added, `user/sleep.c` and `user/pingpong.c` (sources under
`src/Sleep e pingpong/`). This directory models it in TLA+: each module follows
the C code it names, TLC checks it on small instances, and TLAPS proves the
central results about eight of its parts for every instance. `PROJECT.json` maps
definitions to source lines and lists runs, mutants, hazards, findings and
theorems.

## The system and its modules

What is hard about this code: several CPUs take spinlocks in different orders; a
process gives up its CPU in the middle of a kernel call; `kill()` sets a flag
without the lock its victim waits under; the power may fail between any two disk
writes, also during recovery; counters and ring indices wrap; `copyin`,
`copyout` and every allocation may fail half-way.

| Part | Source | Module | Abstract specification | State and steps |
|---|---|---|---|---|
| log | `kernel/log.c` | `Log` | `TransDisk` | disk (`home`, `logblk`, `head`) and memory lost by `crash`; one step per disk write of `commit()` and of recovery; unpinned buffers vanish at any time (`bget_recycle`) |
| buffer cache, sleep-locks | `kernel/bio.c`, `kernel/sleeplock.c` | `Bio` | | buffers with `refcnt`, `valid`, lock and LRU order; whether a copy is the latest stands for contents |
| disk driver | `kernel/virtio_disk.c` | `Virtio` | `Disk` | descriptors, available and used rings, interrupt handler, a device that completes in any order |
| scheduler, spinlocks, traps | `kernel/proc.c`, `kernel/spinlock.c`, `kernel/trap.c` | `Sched` | `Monitor` | every lock operation and context switch of `scheduler`, `sched`, `yield`, `sleep`, `wakeup`, `kill` and the end of `exit` on several CPUs; interrupts on or off, with `push_off`, `pop_off` and `intena`; timer interrupts in user space and in the kernel |
| processes | `kernel/proc.c` | `Proc` | | `fork`, `exit`, `wait`, `reparent`, `kill` over the process table |
| clock and `sleep()` | `kernel/trap.c`, `kernel/sysproc.c` | `SysSleep`, beside `Proc` in `Sysproc` | | `clockintr` and `sys_sleep` with a `ticks` that wraps |
| pipes | `kernel/pipe.c` | `Pipe` | `ByteStream` | a step per loop pass of `pipewrite` and `piperead`, `pipeclose`, counters that wrap |
| inodes, directories, paths | `kernel/fs.c` | `Inode` | | inode table, `ilock`, `iput` with its unlocked middle, `namex`, `dirlookup`, `dirlink` |
| file system calls, open files | `kernel/sysfile.c`, `kernel/file.c` | `SysFile` | | `open`, `link`, `unlink`, `mkdir`, `chdir`, `dup`, `close`, and what `fork` and `exit` do to descriptors |
| file contents | `kernel/fs.c`, `kernel/file.c` | `FileData` | | bitmap, `bmap`, `itrunc`, `readi`, `writei`, `filewrite` in chunks |
| console input | `kernel/console.c` | `Console` | `LineBuffer` | `consoleintr`, `consoleread` over a ring with three wrapping indices |
| console output | `kernel/console.c`, `kernel/uart.c` | `Uart` | | transmit ring, interrupt, FIFO of the device, messages that bypass the ring |
| memory, `exec` | `kernel/kalloc.c`, `kernel/vm.c`, `kernel/exec.c` | `Vm` | | pages counted, three-level page tables, pipes with their two files, a failure at every allocation |
| copies to and from the user | `kernel/vm.c`, `kernel/syscall.c` | `UserMem` | reference definitions in the module | `copyout`, `copyin`, `copyinstr`, `fetchaddr` as functions |
| strings, path elements | `kernel/string.c`, `kernel/fs.c`, `user/ulib.c` | `Str` | reference definitions in the module | functions |
| image maker | `mkfs/mkfs.c` | `Mkfs` | reference definition | the image as a function of the files |
| user programs | `user/pingpong.c`, `sleep.c`, `sh.c`, `init.c`, `grep.c`, `umalloc.c` | `PingPong`, `Sleep`, `ShRun`, `ShParse`, `Grep`, `Malloc` | references in the modules | processes statement by statement; parser, matcher, `atoi` as functions |

How they fit: `Proc`, `Pipe`, `SysSleep` and `Console` take from `Sched` that
testing a condition under a lock and sleeping is atomic, and so is `wakeup()`
under that lock; `kill()` takes no such lock and is a separate step everywhere.
`Bio` takes from `Virtio` that a disk request is one copy between call and
return. `Log` has its own cache with pins, of which `Bio` shows the buffers.
`FileData` takes from both that a block reads as it was last written.
`PingPong` and `ShRun` use pipes and processes as `Pipe` and `Proc` show them.

`MC...` modules instantiate the parts for TLC; where one run holds several parts
they do not interact, a variable says which part a behaviour belongs to, and
each property is about its own part. Definitions carry the names of the C
functions, with a suffix when a function is split where other CPUs can
interleave. Definitions marked *mutant* are slips that the properties must
catch: substituted for the definition they vary, each makes TLC report its
property (`PROJECT.json`, "mutants").

## Runs

| Run | Instance | Shows |
|---|---|---|
| `log` | 2 processes, 3 blocks, operations that reserve 2 blocks and log 1, a log of 4 blocks with its header, crashes | `LogInv` (commits exclude operations, the reservation, sleepers have wakers), `NoPanic`, `PinsMatchLog`, `QuiescentDurable`, refinement of `TransDisk`, `WaitsEnd`: nobody sleeps for ever and headers are cleared |
| `kernel` | 2 processes on 3 CPUs; 2 address spaces and pipes on 18 pages; all page tables of 3 pages of 2 bytes | `OneCpuPerProcess`, `SchedNeverPanics`, `NoLostWakeup`, refinement of `Monitor`; `MemoryAccounted`, `FailureChangesNothing`; `CopiesExact` |
| `proc` | 4 slots, pids to 4, kill of 2; 2 sleepers, `ticks` mod 5 | `FamilyInOrder`, `ReapedAfterSwtch`, `OrphansReaped`; `SleepsAsAsked`, `SleepEnds` |
| `pipe` | 1 reader, 2 writers, ring of 2, counters mod 4, calls of 0 and 3 bytes, a reader and a writer may be killed | `NoUseAfterFree`, `SleepersAreTold`, refinement of `ByteStream`, `CloseEndsCalls` |
| `files` | 2 processes, 3 inodes, 2 names, paths of up to 2 names and `..`, 1 open file; 2 files on 3 blocks of 2; images of up to 4 files; all strings up to one longer than a name | `CountsExact`, `PanicsOnlyAbove`; `BlocksInPlace`, `WritesLand`; `ImageExact`; `StringsExact` |
| `devices` | cache of 2 buffers for 3 blocks and 3 processes; 3 disk requests on 7 descriptors, indices mod 7; 2 writers, an interrupt handler and kernel messages on a ring of 2 | `CacheSound`; refinement of `Disk`; `OutputComplete`: all characters arrive, in order |
| `programs` | a console ring of 3 with indices mod 6 and 2 readers; `pingpong` with both processes killable; operands of `sleep`; pipelines of up to 3 with failing calls, and a process table full when init restarts the shell; all short command lines, patterns and texts; a heap of 8 units | `SleepsOnlyWithoutLine`, refinement of `LineBuffer`; `PongIsAReply`, `Terminates`; `SleepsForOperand`; `ShellReturns`; `ParsesAsWritten`; `GrepExact`; `HeapSound` |
| `log_mkfs`, `sched_kill`, `proc_kill0`, `pipe_kill`, `fs_leak` | see below | **violated** by what the code does |

**Bounds.** Sizes are constants, given the smallest values at which the limits
are reached: two operations that together fill the reservation (`begin_op()`
that admits one more makes `log_write()` panic), a third CPU that looks for work
while a process goes to sleep on one and is woken from another, a chain
init-parent-child-grandchild, a write longer than the ring, one buffer less than
blocks in use, descriptors for two requests and one to spare, counters and
indices that wrap within a call. `MaxPid` bounds forks, `MaxItems` the condition
processes wait for, `MaxLag` the ticks a runnable process waits for a CPU,
`MaxPins` and `MaxLinks` what they say, `MaxChars` the characters written;
`Lengths`, `Counts`, `ReadCounts`, `WriteCounts` list the lengths of calls.
`Workloads` and `Sessions` list the calls and command lines a process may make;
one workload makes, enters and removes `/x` and `/x/y` and changes to `..`, so
that `namex()` goes from one directory to the next while others remove them.
Two readers of one pipe, and kills of init, are in no instance. Only `MCPrograms`
turns deadlock checking off: programs end.

**Fairness.** A runnable process is scheduled again (round-robin in
`scheduler()`), and a spinlock that becomes free again and again is eventually
obtained: strong fairness of a process's steps in the kernel. For the locks it
is an assumption about the hardware, since xv6's spinlocks are not queued. The
timer ticks; the devices finish what they started; init calls `wait` again and
again (`user/init.c`). Nothing is assumed of crashes, kills, or of users making
calls. A killed process that is blocked is not assumed to leave its wait,
because `kill()` can miss it.

## Disagreements found

Each is a run whose property is violated by what the code does; details and
quotations are in `PROJECT.json`, "findings".

1. `log_mkfs`: `mkfs` makes the log `LOGSIZE` blocks long with its header, one
   less than `begin_op` reserves up to, so that operations which use all of their
   `MAXOPBLOCKS` overflow it. The calls of this kernel stay below, which hides it
   (`ReservationSuffices`, below).
2. `sched_kill`: `kill()` between a process's test of `killed` and its `sleep()`
   does not wake it. `sys_sleep` is safe from it: the next tick wakes the process
   (`SleepEnds`).
3. `proc_kill0`: `kill(0)` marks an unused slot, and its next owner is born
   killed.
4. `pipe_kill`: a writer killed in mid-write leaves bytes in a pipe without
   waking the readers.
5. `fs_leak`: between `iput()`'s freeing of an inode and its last decrement the
   number may be allocated and unlinked again, and is then never freed.

`pingpong.c` does not look at the result of `read()`: when its child is killed
the parent meets an end of file and reports a pong all the same. Nothing in the
repository says otherwise, so `PongIsAReply` exempts that case.

## Proofs

The theorems hold for every value of the constants that satisfies the named
assumptions, which TLC evaluates on the instances. None of the properties is
inductive alone; each inductive invariant below was checked by TLC first. A proof
has one lemma per action.

**The log** (`LogProofs`, `LogRefinement`; `LogConstants`: finite sets, sizes,
`MaxWrites <= MAXOPBLOCKS`, the contract of `param.h`).
`Invariance`: `[]LogInv`. It adds to the properties that `outstanding` counts
the processes inside an operation and that at most one process commits, only
when none is (`CommitInv`); each process's buffer and loop index (`ProcInv`);
and the reservation (`RoomInv`): the blocks already logged and those that running
operations may still add together fit `LOGSIZE`. The latter are the elements of a
finite set, `Tokens`, so that beginning an operation adds `MaxWrites` elements, a
`log_write` of a new block removes one while it appends it, and one of a block
already in the log does neither. `begin_op()` counts `MAXOPBLOCKS` and not
`MaxWrites`, so after it either one operation runs on an empty log or the sum is
at least `2 * (MAXOPBLOCKS - MaxWrites)` below `LOGSIZE` (`Fits`): once for the
operation that begins, once for one that is running already.
From it follow `TypeCorrect`, `CommitExclusion`, `SleepersHaveWakers` and
`ReservationSuffices`: `[]NoPanic` if `MaxWrites < MAXOPBLOCKS < LOGSIZE <= NLOG`.
`param.h` has 10 and 30 and `mkfs` makes `nlog = LOGSIZE`; the operation that logs
most is a chunk of `filewrite()`, whose bytes lie in at most four blocks, with the
inode, the indirect block and the bitmap: seven. With `MaxWrites = MAXOPBLOCKS` it
is false (finding 1).
`DataInvariance`: `[]DataInv`, inductive relative to `LogInv`, relates cache,
pins, log blocks, home blocks and header at each place of `commit()` and of
recovery: which blocks of the log are still due to be installed (`Due`), which
are copied already (`Copied`), and that a cached copy differs from the home block
only if it is due or in an operation's hands. From it follow `PinsAreExact`,
`DurableWhenQuiet` and `LogIsTransactional`, the refinement of `TransDisk`: the
header's write is the step `Commit`, a crash the step `Crash`, the other disk
writes change nothing, because what recovery would rebuild stays the same.

**Buffer cache** (`BioProofs`; `BioConstants`: processes and buffers are finite
sets, there is a buffer, and the markers are none of them; no bound on the pins).
`BioInv` adds to `CacheSound` that a buffer's lock goes with the place of its
holder (`LockInv`) and where contents are (`CopyInv`): a valid buffer has the
latest contents of its block, and while the disk has not, such a buffer is there
and is pinned or being written. Without the last part a recycled buffer could be
read back from a disk that is behind. Users are counted as a finite set, so that
`bget()` adds one element and `brelse()` removes one. From it: `CacheIsSound`.

**File contents** (`FileDataProofs`; `DataConstants`: a block holds at least one
byte, `MAXOPBLOCKS` leaves `filewrite()` a chunk of at least one block, a write
asks for at least one byte; `UnsignedConstants`: the largest file and the largest
chunk are below the range of an unsigned int, in which `off + n` is computed; any
disk, files and processes). `DataInv` has three
parts. `OneOwner`: in the block map, the entries of all inodes and of their
indirect blocks, an entry is 0 or a block in use, a block in use stands in an
entry, and in one only. `NoHoles`: the blocks below a file's size are there.
`WriteInv`: a process in `writei()` has its file to itself, its chunk fits and
begins at or before the end of the file, and what it has written so far is in the
blocks; without the last the size could grow over bytes that nobody wrote when a
later block of the chunk finds the disk full. The bytes of a file depend on the
blocks only through the block map, so a block's single owner is also why no other
file changes. `bmap()` is one look-up or two, each of which leaves the map alone
or enters a free, zeroed block where there was 0 (`Enter`, `LookUpDirect`,
`LookUpIndirect`, `Bmap`). A copied block, a copy that fails and a full disk are
one kind of step (`WriteStep`), which preserves the invariant and changes only
bytes of its chunk. From it: `BlocksAreInPlace` and the action property
`WritesAreExact`.

**Scheduler** (`SchedProofs`; `NPROC`, `NCPU` positive). `SchedInv` says for
every place which locks are held, what `c->proc` and `p->state` are (`OnCpu`,
`OffCpu`, `LocksInv`, `LkInv`, `WaitLockInv`), that interrupts are on only where
no lock is held (`IntrInv`), and that whoever is asleep, or cannot avoid it any
more, saw the condition false or has a `wakeup()` on its way (`WaitInv`).
From it: `StacksNotShared`, `SchedChecksHold`, `WakeupsReach`, and
`SleepWakeupIsMonitor`, the refinement of `Monitor`, in which a sleep happens at
the release of the condition's lock and a wakeup of one process at its visit.

**Pipes** (`PipeProofs`; `PipeConstants`: the counters' modulus is a larger
multiple of `PIPESIZE`). `PipeInv`: whoever is in a call has its
end open, a closed end has no descriptor left, and a sleeper waits for what it
should or the process at the pipe's lock will wake it. From it:
`NoFreedPipeInUse`, `PipeSleepersAreTold`. `PipeTypes` adds that the counters are
at most `PIPESIZE` apart and the lock is held in the critical sections, and
`PipeIsByteStream` is the refinement of `ByteStream`.

**Console input** (`ConsoleProofs`; `ConsoleConstants`: the indices' modulus is a
larger multiple of the ring's size). `ConsInv`: `r`, `w`, `e` follow each other
within one turn, a full ring is a complete line, the line being edited holds no
line end (so that `^U` erases exactly it), the lock is held in the loop of
`consoleread()`, and who is asleep or about to has seen no line. From it:
`NoSleepBesideALine`, `EndOfFileEndsARead` and `ConsoleIsLineBuffer`, the
refinement of `LineBuffer`. It rests on facts about remainders and about windows
of a ring: a window grows, shrinks, and is the same seen from a counter that has
wrapped.

**`sleep()`** (`ProcProofs`; the constants of module `Sysproc`). `SleepInv`: `ticks` is `ticks0` and what has
elapsed, at most once around. `SleepIsAsLongAsAsked`: `[]SleepsAsAsked`, provided
(`SleepConstants`) a sleep is shorter than half a turn of `ticks` and with the
lag than one turn.

**Processes** (`ProcProofs`; a table of at least one slot). `ProcInv`: pids given
out are below `nextpid`, a process's place goes with its state, a slot being
filled by `fork()` belongs to one parent, a process past `reparent()` has no
children, and the parent of a process about to become a zombie is awake or will
look again. From it: `FamilyStaysInOrder` and the action property
`ReapedOnlyAfterSwtch`.

**Only model-checked.** All liveness (`WaitsEnd`, `SleepEnds`, `OrphansReaped`,
`CloseEndsCalls`, `Terminates`, and the liveness in `ImplementsDisk`,
`OutputComplete`, `ShellReturns`): the prover handles neither fairness nor
`ENABLED`. What recursive functions compute (`CopiesExact`, `StringsExact`,
`ImageExact`, `ParsesAsWritten`, `GrepExact`, `SleepsForOperand`), and
`MemoryAccounted` and `HeapSound`, which follow page tables and a free list
through recursion: they need induction over data. `CountsExact`, `PanicsOnlyAbove`,
`FailureChangesNothing`, `PongIsAReply`: no proof has been written. The invariant
behind `CountsExact` would say, for every place of every system call, which
references the process has in hand.

## Not modelled, and remarks

* Assembly, boot, page-table switches, the PLIC, memory ordering, virtio
  negotiation, formatting in `printf`, and the test programs. `ShRun` leaves out
  the built-in `cd`; `SysFile` leaves out `fstat` and the descriptors of `sys_pipe`;
  a full inode table (`iget`'s panic) is left out. `Malloc` keeps to sizes that
  `sbrk()`'s `int` argument (`umalloc.c:54`) does not truncate.
* When the shell has exited and init's own `fork()` fails (`init.c:29-32`), because
  background processes took the shell's slot, init exits and the kernel panics:
  `ShRun` has this, and `ShellReturns` says that there is no other way to lose the
  prompt. An `exec("sh")` that fails leaves init where it was, and is no step.
* A removed directory that is still a current directory keeps its `..`, which
  may name an inode freed since: `chdir a/b`, `unlink a/b`, `unlink a`,
  `chdir ..` ends in `ilock`'s panic (`fs.c:314`). The run `files` reaches it, and
  `PanicsOnlyAbove` says that only a look-up of the `..` of a removed directory
  does. `mkdir ..` is not among the calls: in a directory that another process is
  still making there is no `..` yet, and it would make an ordinary entry of that
  name, which the model's directories do not have. Creating a file in a removed
  directory leaks its inode.
* When copying from the user fails, `writei()` releases the block without
  `log_write()` (`fs.c:522-524`); the bytes already copied stay in the buffer
  only until `bget()` recycles it. `FileData` has no cache and keeps them, so
  `WritesLand` says nothing of their return to the old ones.
* `mkfs` rounds the root directory's size up to a block (`mkfs.c:165-168`), as
  `Mkfs` does, and tests neither `FSSIZE` nor `NINODES`.
* `atoi` has no overflow test; `Sleep` wraps as the build does, and
  `SleepsForOperand` is about operands that fit.
