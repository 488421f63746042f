------------------------------- MODULE ShRun -------------------------------
(***************************************************************************)
(* How the shell of user/sh.c runs a command: runcmd() with its forks,     *)
(* pipes, descriptors and waits, main()'s loop, and user/init.c, which     *)
(* starts the shell again.  The system calls are atomic; the kernel's own  *)
(* interleavings are those of Pipe and Proc.                               *)
(***************************************************************************)
EXTENDS Integers, Sequences, FiniteSets, FiniteSetsExt

CONSTANTS
  NPROC,      \* processes there can be, init not counted
  NPIPE,      \* pipes there can be
  PIPESIZE,   \* items a pipe holds
  Sessions    \* cmds, what the user types: trees as ShParse builds them;
              \* others, the slots that processes of no concern here have

VARIABLES
  typed,    \* this session
  shell,    \* init's pid: 0 before fork(), -1 when init has exited
  proc,     \* per process: pc, cmd, its descriptors fd, the pipe p[] and its parent
  pipe,     \* items in every pipe
  out,      \* items written to the console since the command was typed
  clean     \* nothing but this command has run, and no call has failed

vars == <<typed, shell, proc, pipe, out, clean>>

Pids == 1..NPROC
Pipes == 1..NPIPE
Closed == <<"closed", 0>>
Tty == <<"tty", 0>>
File == <<"file", 0>>
R(i) == <<"r", i>>
W(i) == <<"w", i>>

None == [type |-> "NONE"]
Free == [pc |-> "free", cmd |-> None, fd |-> [d \in 0..4 |-> Closed], p |-> 0, parent |-> 0]
Shell == [Free EXCEPT !.pc = "prompt", !.fd = [d \in 0..4 |-> IF d < 3 THEN Tty ELSE Closed]]

Init ==
  /\ typed \in Sessions
  /\ shell = 1
  /\ proc = [q \in Pids |-> IF q = 1 THEN Shell
                          ELSE IF q > NPROC - typed.others THEN [Free EXCEPT !.pc = "other"] ELSE Free]
  /\ pipe = [i \in Pipes |-> 0] /\ out = 0 /\ clean = TRUE

Unused == {q \in Pids : proc[q].pc = "free"}
Alone(q) == \A r \in Pids \ {q} : proc[r].pc \in {"free", "other"}
Open(end) == \E q \in Pids, d \in 0..4 : proc[q].fd[d] = end
close(fd, d) == [fd EXCEPT ![d] = Closed]
dup(fd, d) == [fd EXCEPT ![Min({e \in 0..4 : fd[e] = Closed})] = fd[d]]

(* exit(): the descriptors are closed, the children go to init, whose      *)
(* wait() takes no notice of those that are done.                          *)
Exited(q) ==
  [r \in Pids |->
     IF r = q THEN IF proc[q].parent = 0 /\ q # shell THEN Free ELSE [Free EXCEPT !.pc = "zombie", !.parent = proc[q].parent]
     ELSE IF proc[r].parent # q THEN proc[r]
     ELSE IF proc[r].pc = "zombie" THEN Free ELSE [proc[r] EXCEPT !.parent = 0]]
exit(q) == proc' = Exited(q) /\ UNCHANGED <<pipe, out>>

(* fork() and pipe() fail when there is none left, or no memory for it;    *)
(* the latter happens at most once in a command, for model checking.       *)
MayFail(spare) == spare = {} \/ clean

(* fork1(): the child runs c from pc; panic() if there is no child.        *)
fork1(q, c, childpc, nextpc) ==
  \/ /\ Unused # {}
     /\ proc' = [proc EXCEPT ![q].pc = nextpc,
                   ![Min(Unused)] = [proc[q] EXCEPT !.pc = childpc, !.cmd = c, !.parent = q]]
     /\ UNCHANGED <<pipe, out, clean>>
  \/ MayFail(Unused) /\ clean' = FALSE /\ exit(q)

(* wait(0): any child that is done; who calls it here has one. *)
wait(q, new) ==
  /\ \E r \in Pids : /\ proc[r].parent = q /\ proc[r].pc = "zombie"
                     /\ proc' = [proc EXCEPT ![q] = new, ![r] = Free]
  /\ UNCHANGED <<pipe, out, clean>>

Become(q, new) == proc' = [proc EXCEPT ![q] = new] /\ UNCHANGED <<pipe, out, clean>>

(* main(): a command is read and run in a child; the end of the input, or  *)
(* a fork() that fails, ends the shell.                                    *)
main(q) ==
  \/ /\ proc[q].pc = "prompt"
     /\ \E c \in typed.cmds :
          \/ /\ Unused # {}
             /\ proc' = [proc EXCEPT ![q].pc = "shwait", ![q].cmd = c,
                           ![Min(Unused)] = [proc[q] EXCEPT !.pc = "run", !.cmd = c, !.parent = q]]
             /\ out' = 0 /\ clean' = Alone(q) /\ UNCHANGED pipe
          \/ MayFail(Unused) /\ clean' = FALSE /\ exit(q)
  \/ proc[q].pc = "prompt" /\ clean' = FALSE /\ exit(q)
  \/ proc[q].pc = "shwait" /\ wait(q, [proc[q] EXCEPT !.pc = "prompt"])

(* init.c waits for the shell and starts it again.  When fork() fails init *)
(* exits, and the kernel panics.  When exec() fails the child exits at     *)
(* once, and init is where it was.                                         *)
init ==
  /\ UNCHANGED <<pipe, out, clean>>
  /\ \/ /\ shell > 0 /\ proc[shell].pc = "zombie"
        /\ shell' = 0 /\ proc' = [proc EXCEPT ![shell] = Free]
     \/ /\ shell = 0 /\ Unused # {}
        /\ shell' = Min(Unused) /\ proc' = [proc EXCEPT ![Min(Unused)] = Shell]
     \/ shell = 0 /\ Unused = {} /\ shell' = -1 /\ UNCHANGED proc

panicked == shell = -1 /\ UNCHANGED <<shell, proc, pipe, out, clean>>

run_exec(q) ==
  LET c == proc[q].cmd IN
  /\ c.type = "EXEC"
  /\ IF c.argv = <<>> \/ Head(c.argv) = "bad" THEN exit(q) /\ UNCHANGED clean
     ELSE Become(q, [proc[q] EXCEPT !.pc = Head(c.argv)])

run_redir(q) ==
  LET c == proc[q].cmd d == IF c.mode = "<" THEN 0 ELSE 1 IN
  /\ c.type = "REDIR"
  /\ IF c.file = "bad" THEN exit(q) /\ UNCHANGED clean
     ELSE Become(q, [proc[q] EXCEPT !.fd[d] = File, !.cmd = c.cmd])

run_list(q) == proc[q].cmd.type = "LIST" /\ fork1(q, proc[q].cmd.left, "run", "list")
list_right(q) ==
  /\ proc[q].pc = "list"
  /\ wait(q, [proc[q] EXCEPT !.pc = "run", !.cmd = proc[q].cmd.right])

run_back(q) ==
  /\ proc[q].cmd.type = "BACK" /\ clean' = FALSE
  /\ \/ /\ Unused # {}
        /\ proc' = [proc EXCEPT ![q].pc = "exit",
                      ![Min(Unused)] = [proc[q] EXCEPT !.cmd = @.cmd, !.parent = q]]
        /\ UNCHANGED <<pipe, out>>
     \/ MayFail(Unused) /\ exit(q)

run_pipe(q) ==
  LET spare == {i \in Pipes : ~ Open(R(i)) /\ ~ Open(W(i))} i == Min(spare) IN
  /\ proc[q].cmd.type = "PIPE"
  /\ \/ /\ spare # {}
        /\ pipe' = [pipe EXCEPT ![i] = 0]
        /\ proc' = [proc EXCEPT ![q].pc = "pipe_left", ![q].p = i, ![q].fd[3] = R(i), ![q].fd[4] = W(i)]
        /\ UNCHANGED <<out, clean>>
     \/ MayFail(spare) /\ clean' = FALSE /\ exit(q)

(* mutant: the children keep the ends they were given *)
ClosePipe_Child(fd) == fd

ClosePipe(fd) == close(close(fd, 3), 4)

(* The children of a pipe put their end at 1 or 0 and drop the others. *)
left(q) ==
  /\ proc[q].pc = "left"
  /\ Become(q, [proc[q] EXCEPT !.pc = "run", !.fd = ClosePipe(dup(close(@, 1), 4))])
right(q) ==
  /\ proc[q].pc = "right"
  /\ Become(q, [proc[q] EXCEPT !.pc = "run", !.fd = ClosePipe(dup(close(@, 0), 3))])

(* mutant: the parent waits with the pipe still open *)
pipe_close_Kept(q) ==
  /\ proc[q].pc = "pipe_close"
  /\ Become(q, [proc[q] EXCEPT !.pc = "wait2"])

pipe_close(q) ==
  /\ proc[q].pc = "pipe_close"
  /\ Become(q, [proc[q] EXCEPT !.pc = "wait2", !.fd = close(close(@, 3), 4)])

(* mutant: the parent waits for one of its two children only *)
pipe_wait_Once(q) == proc[q].pc = "wait2" /\ wait(q, [proc[q] EXCEPT !.pc = "exit"])

pipe_wait(q) ==
  \/ proc[q].pc = "wait2" /\ wait(q, [proc[q] EXCEPT !.pc = "wait1"])
  \/ proc[q].pc = "wait1" /\ wait(q, [proc[q] EXCEPT !.pc = "exit"])

runcmd(q) ==
  \/ proc[q].pc = "run" /\ (run_exec(q) \/ run_redir(q) \/ run_list(q) \/ run_back(q) \/ run_pipe(q))
  \/ proc[q].pc = "pipe_left" /\ fork1(q, proc[q].cmd.left, "left", "pipe_right")
  \/ proc[q].pc = "pipe_right" /\ fork1(q, proc[q].cmd.right, "right", "pipe_close")
  \/ list_right(q) \/ left(q) \/ right(q) \/ pipe_close(q) \/ pipe_wait(q)
  \/ proc[q].pc = "exit" /\ exit(q) /\ UNCHANGED clean

(* The programs: gen writes one item to descriptor 1; cat copies 0 to 1    *)
(* until the end of its input; both stop when a write fails.               *)
Write(q, nextpc) ==
  LET end == proc[q].fd[1] i == end[2] IN
  CASE end = W(i) /\ ~ Open(R(i)) -> exit(q) /\ UNCHANGED clean
    [] end = W(i) /\ Open(R(i)) ->
         /\ pipe[i] < PIPESIZE /\ pipe' = [pipe EXCEPT ![i] = @ + 1]
         /\ proc' = [proc EXCEPT ![q].pc = nextpc] /\ UNCHANGED <<out, clean>>
    [] OTHER ->
         /\ out' = IF end = Tty THEN out + 1 ELSE out
         /\ proc' = [proc EXCEPT ![q].pc = nextpc] /\ UNCHANGED <<pipe, clean>>
Read(q) ==
  LET end == proc[q].fd[0] i == end[2] IN
  IF end = R(i) /\ (pipe[i] > 0 \/ Open(W(i)))
  THEN /\ pipe[i] > 0 /\ pipe' = [pipe EXCEPT ![i] = @ - 1]
       /\ proc' = [proc EXCEPT ![q].pc = "cat_write"] /\ UNCHANGED <<out, clean>>
  ELSE exit(q) /\ UNCHANGED clean
program(q) ==
  \/ proc[q].pc = "gen" /\ Write(q, "exit")
  \/ proc[q].pc = "cat" /\ Read(q)
  \/ proc[q].pc = "cat_write" /\ Write(q, "cat")

Step(q) == main(q) \/ runcmd(q) \/ program(q)
Run == shell # -1 /\ (init \/ \E q \in Pids : Step(q) /\ UNCHANGED shell) /\ UNCHANGED typed
Next == Run \/ (panicked /\ UNCHANGED typed)
-----------------------------------------------------------------------------
Programs == {"gen", "cat", "cat_write"}

(* A program that the shell has started, and the shell at its prompt, hold *)
(* only descriptors 0, 1 and 2: every copy of a pipe's ends that fork()    *)
(* made has been closed, else a reader would never see the end of input.   *)
NoStrayEnds ==
  \A q \in Pids : proc[q].pc \in Programs \cup {"prompt"} => proc[q].fd[3] = Closed /\ proc[q].fd[4] = Closed

RECURSIVE Output(_, _)
Output(c, in) ==
  CASE c.type = "EXEC" -> IF c.argv = <<"gen">> THEN 1 ELSE IF c.argv = <<"cat">> THEN in ELSE 0
    [] c.type = "REDIR" -> IF c.file = "bad" \/ c.mode # "<" THEN 0 ELSE Output(c.cmd, 0)
    [] c.type = "LIST" -> Output(c.left, in) + Output(c.right, 0)
    [] c.type = "PIPE" -> Output(c.right, Output(c.left, in))
    [] OTHER -> 0

(* When the prompt is back after a foreground command that no failed call  *)
(* cut short, everything the command prints has been printed: main() and   *)
(* runcmd() have waited for every process of a pipeline or a list.         *)
PromptAfterOutput ==
  shell > 0 /\ proc[shell].pc = "prompt" /\ clean =>
    out = Output(proc[shell].cmd, 0) /\ Alone(shell)

(* The prompt always comes back, whatever the command, with background     *)
(* commands running and with processes or pipes used up, unless the shell  *)
(* has exited and init's own fork() fails because others have taken every  *)
(* slot of the process table, the freed one included.                      *)
ShellReturns == []<>(shell = -1 \/ (shell > 0 /\ proc[shell].pc = "prompt"))
=============================================================================
