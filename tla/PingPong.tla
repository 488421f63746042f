------------------------------ MODULE PingPong ------------------------------
(***************************************************************************)
(* user/pingpong.c: a parent and a child that exchange one byte over two   *)
(* pipes.  A pipe is what module Pipe implements (a byte stream with two   *)
(* closable ends) and fork(), exit() and wait() are those of module Proc,  *)
(* each here one step.  Any of the system calls that allocate may fail,    *)
(* and the victims named in the constant may be killed at any time.        *)
(*                                                                         *)
(* The source calls printf() with a descriptor first and wait() without an *)
(* argument, which user/user.h does not declare; they are modelled as what *)
(* they are written to do, output on that descriptor and wait(0).          *)
(***************************************************************************)
EXTENDS Integers, Sequences

CONSTANT Victims  \* those of the two processes that somebody may kill

Procs == {"parent", "child"}
Ends == {"pipe1[0]", "pipe1[1]", "pipe2[0]", "pipe2[1]"}
Reading == [pipe1 |-> "pipe1[0]", pipe2 |-> "pipe2[0]"]
Writing == [pipe1 |-> "pipe1[1]", pipe2 |-> "pipe2[1]"]
Pipes == DOMAIN Reading

VARIABLES
  holders,  \* processes with the end open
  bytes,    \* number of bytes in each pipe
  status,   \* "unborn", "running", "zombie" or "reaped"
  pc,       \* index of the statement each process is at
  killed,
  got,      \* history: how many bytes the last read() of the process returned
  output    \* history: the lines printed

vars == <<holders, bytes, status, pc, killed, got, output>>

(* The statements of main(), in program order, for the two processes. *)
ParentCode == <<"pipe pipe1", "pipe pipe2", "fork",
  "close pipe1[0]", "close pipe2[1]", "write pipe1", "read pipe2", "print pong",
  "close pipe1[1]", "close pipe2[0]", "wait", "exit">>
(* mutant: the child answers before it reports *)
ChildCode_WriteFirst == <<
  "close pipe1[1]", "close pipe2[0]", "read pipe1", "write pipe2", "print ping",
  "close pipe1[0]", "close pipe2[1]", "exit">>

ChildCode == <<
  "close pipe1[1]", "close pipe2[0]", "read pipe1", "print ping", "write pipe2",
  "close pipe1[0]", "close pipe2[1]", "exit">>
Code == [parent |-> ParentCode, child |-> ChildCode]

At(p, statement) == status[p] = "running" /\ Code[p][pc[p]] = statement
Go(p, statement) == ~killed[p] /\ At(p, statement)
Step(p) == pc' = [pc EXCEPT ![p] = @ + 1]

(* exit(): the kernel closes what is still open. *)
Exit(p) ==
  /\ status' = [status EXCEPT ![p] = "zombie"]
  /\ holders' = [e \in Ends |-> holders[e] \ {p}]
  /\ UNCHANGED <<bytes, pc, killed, got, output>>

exit(p) == Go(p, "exit") /\ Exit(p)

pipe(p, k) ==
  /\ Go(p, "pipe " \o k)
  /\ Step(p)
  /\ holders' = [holders EXCEPT ![Reading[k]] = {p}, ![Writing[k]] = {p}]
  /\ UNCHANGED <<bytes, status, killed, got, output>>

(* pipe() or fork() fails: a message on descriptor 2, and exit(1). *)
fail(p) ==
  /\ \E s \in {"pipe pipe1", "pipe pipe2", "fork"} : Go(p, s)
  /\ Exit(p)

fork(p) ==
  /\ Go(p, "fork")
  /\ Step(p)
  /\ status' = [status EXCEPT !["child"] = "running"]
  /\ holders' = [e \in Ends |-> holders[e] \cup {"child"}]
  /\ UNCHANGED <<bytes, killed, got, output>>

(* mutant: the parent keeps the writing end of the pipe it reads from *)
close_KeepsOwnWriter(p, e) ==
  /\ Go(p, "close " \o e)
  /\ Step(p)
  /\ holders' = IF p = "parent" /\ e = "pipe2[1]" THEN holders
                ELSE [holders EXCEPT ![e] = @ \ {p}]
  /\ UNCHANGED <<bytes, status, killed, got, output>>

close(p, e) ==
  /\ Go(p, "close " \o e)
  /\ Step(p)
  /\ holders' = [holders EXCEPT ![e] = @ \ {p}]
  /\ UNCHANGED <<bytes, status, killed, got, output>>

(* write() of one byte; its result, -1 without a reader, is not looked at. *)
write(p, k) ==
  /\ Go(p, "write " \o k)
  /\ Step(p)
  /\ bytes' = [bytes EXCEPT ![k] = IF holders[Reading[k]] = {} THEN @ ELSE @ + 1]
  /\ UNCHANGED <<holders, status, killed, got, output>>

(* read() waits for a byte or for the end of file; its result is not *)
(* looked at either. *)
MayRead(k) == bytes[k] > 0 \/ holders[Writing[k]] = {}

read(p, k) ==
  /\ Go(p, "read " \o k)
  /\ MayRead(k)
  /\ Step(p)
  /\ got' = [got EXCEPT ![p] = IF bytes[k] > 0 THEN 1 ELSE 0]
  /\ bytes' = [bytes EXCEPT ![k] = IF @ > 0 THEN @ - 1 ELSE @]
  /\ UNCHANGED <<holders, status, killed, output>>

print(p, line) ==
  /\ Go(p, "print " \o line)
  /\ Step(p)
  /\ output' = Append(output, line)
  /\ UNCHANGED <<holders, bytes, status, killed, got>>

wait(p) ==
  /\ Go(p, "wait")
  /\ status["child"] = "zombie"
  /\ status' = [status EXCEPT !["child"] = "reaped"]
  /\ Step(p)
  /\ UNCHANGED <<holders, bytes, killed, got, output>>

kill(p) ==
  /\ p \in Victims
  /\ status[p] = "running" /\ ~killed[p]
  /\ killed' = [killed EXCEPT ![p] = TRUE]
  /\ UNCHANGED <<holders, bytes, status, pc, got, output>>

(* A killed process exits on its way to or from the kernel. *)
die(p) == status[p] = "running" /\ killed[p] /\ Exit(p)

Init ==
  /\ holders = [e \in Ends |-> {}]
  /\ bytes = [k \in Pipes |-> 0]
  /\ status = [parent |-> "running", child |-> "unborn"]
  /\ pc = [p \in Procs |-> 1]
  /\ killed = [p \in Procs |-> FALSE]
  /\ got = [p \in Procs |-> 0]
  /\ output = <<>>

Main(p) ==
  \/ exit(p) \/ fork(p) \/ wait(p)
  \/ \E k \in Pipes : pipe(p, k) \/ write(p, k) \/ read(p, k)
  \/ \E e \in Ends : close(p, e)
  \/ \E line \in {"ping", "pong"} : print(p, line)

Gone(p) == status[p] # "running"
finished == (\A p \in Procs : Gone(p)) /\ UNCHANGED vars

Next == (\E p \in Procs : Main(p) \/ fail(p) \/ kill(p) \/ die(p)) \/ finished

Spec == Init /\ [][Next]_vars

(* A killed process that is falling asleep may stay asleep: kill() makes   *)
(* only a process that already sleeps runnable (module Pipe).              *)
Blocked(p) ==
  \/ \E k \in Pipes : At(p, "read " \o k) /\ ~MayRead(k)
  \/ At(p, "wait") /\ status["child"] = "running"
-----------------------------------------------------------------------------
(* Types: the two pipes, the two processes, at most one byte in a pipe. *)
TypeOK ==
  /\ holders \in [Ends -> SUBSET Procs]
  /\ bytes \in [Pipes -> 0..1]
  /\ status \in [Procs -> {"unborn", "running", "zombie", "reaped"}]
  /\ \A p \in Procs : pc[p] \in 1..Len(Code[p])
  /\ killed \in [Procs -> BOOLEAN] /\ got \in [Procs -> 0..1]
  /\ output \in {<<>>, <<"ping">>, <<"pong">>, <<"ping", "pong">>}

(* "received pong" is printed for a byte that came back, after the child   *)
(* has received the ping and said so; only a killed child leaves main()'s  *)
(* unchecked read() with an end of file instead.                           *)
PongIsAReply ==
  [][\A p \in Procs : print(p, "pong") /\ ~killed["child"] =>
        got[p] = 1 /\ output = <<"ping">>]_vars

(* Nobody waits for ever, whoever is killed and wherever: each side closes *)
(* the end it does not use, so that a dead peer is an end of file.         *)
Terminates == <>(\A p \in Procs : Gone(p))
=============================================================================
