----------------------------- MODULE MCPrograms -----------------------------
(***************************************************************************)
(* The console that a user types at and the programs for TLC: sleep.c,     *)
(* pingpong.c, sh.c with its parser, grep.c and umalloc.c.  In a behaviour *)
(* one of them moves, or is given an input, and the others stay as they    *)
(* are initialised.                                                        *)
(***************************************************************************)
EXTENDS Console

CONSTANTS
  RADIX, INT_MAX,                        \* Sleep
  Victims,                               \* PingPong
  NPROC, NPIPE, PIPESIZE, Sessions,      \* ShRun
  MAXARGS, MaxLine,                      \* ShParse; longest of the short lines
  BUFSIZE,                               \* Grep
  HDR, MINCORE, MAXBRK, Sizes            \* Malloc

VARIABLES
  part,      \* the one that moves
  holders, bytes, status, p_pc, p_killed, got, output,
  typed, shell, proc, pipe, out, clean,
  input, g_buf, lines,
  heap, live,
  given      \* what a program is given

pvars == <<holders, bytes, status, p_pc, p_killed, got, output>>
rvars == <<typed, shell, proc, pipe, out, clean>>
gvars == <<input, g_buf, lines>>
hvars == <<heap, live>>
allvars == <<part, given, vars, pvars, rvars, gvars, hvars>>

SL == INSTANCE Sleep
P == INSTANCE PingPong WITH pc <- p_pc, killed <- p_killed
R == INSTANCE ShRun
L == INSTANCE ShParse
G == INSTANCE Grep WITH buf <- g_buf, output <- lines
H == INSTANCE Malloc

ASSUME ConsoleSizes == ConsoleConstants
-----------------------------------------------------------------------------
UpTo(S, m) == UNION {[1..k -> S] : k \in 0..m}

(* Three processes in a row; one in the background of a pipeline; a list   *)
(* into a pipe, and into a file; what cannot be opened or executed; and a  *)
(* background pipeline when it and the shell have three slots.             *)
Exec(argv) == [type |-> "EXEC", argv |-> argv]
Pipe(left, right) == [type |-> "PIPE", left |-> left, right |-> right]
List(left, right) == [type |-> "LIST", left |-> left, right |-> right]
Back(cmd) == [type |-> "BACK", cmd |-> cmd]
Redir(mode, file, cmd) == [type |-> "REDIR", mode |-> mode, file |-> file, cmd |-> cmd]
Gen == Exec(<<"gen">>)
Cat == Exec(<<"cat">>)
Session(cmds, others) == [cmds |-> cmds, others |-> others]
MCSessions == {
  Session({Pipe(Gen, Pipe(Cat, Cat))}, 0),
  Session({Back(Cat), Pipe(Gen, Cat)}, 0),
  Session({Pipe(List(Gen, Gen), Cat), List(Redir(">", "f", Gen), Gen)}, 0),
  Session({Pipe(Redir("<", "bad", Cat), Exec(<<"bad">>)), Pipe(Gen, Redir("<", "f", Cat)), Exec(<<>>)}, 0),
  Session({Back(Pipe(Gen, Cat))}, NPROC - 3)}

(* All short command lines, and some longer ones. *)
CommandLines == UpTo({"a", " ", "|", ";", "&", "<", ">", "(", ")"}, MaxLine) \cup {
  <<"a", "b", " ", "c", "|", "(", "d", ";", "e", ")", ">", ">", "f">>,
  <<"<", "f", " ", "a", "<", "g", " ", "b", "&", "&", ";", "c">>,
  <<"(", "a", "|", "b", ")", "<", "c", ";", "d">>,
  <<"a", "|", "b", ";", "c">>, <<"a", "|", "b", "&">>, <<"a", "|", "b", "|", "c">>}

(* Patterns with short texts for the matcher; and texts that do not fit    *)
(* the buffer of grep().                                                   *)
Patterns == UpTo({"a", ".", "*", "^", "$"}, 4) \X UpTo({"a", "b"}, 3)
Texts == UpTo({"a", "b", "nl"}, 6)
Operands == {<<>>} \cup {<<s>> : s \in UpTo({-1, 0, 1, 2}, 5)}

MCInit ==
  /\ Init /\ P!Init /\ R!Init /\ H!Init /\ g_buf = <<>> /\ lines = <<>>
  /\ \/ part \in {"console", "pingpong", "shrun", "malloc"} /\ given = <<>> /\ input = <<>>
     \/ part = "sleep" /\ given \in Operands /\ input = <<>>
     \/ part = "shparse" /\ given \in CommandLines /\ input = <<>>
     \/ part = "match" /\ given \in Patterns /\ input = <<>>
     \/ part = "grep" /\ given \in Texts /\ input = given
  /\ part = "shrun" \/ typed = CHOOSE s \in Sessions : TRUE

Of(who, A, others) == part = who /\ A /\ UNCHANGED <<part, given, others>>
OfConsole(A) == Of("console", A, <<pvars, rvars, gvars, hvars>>)
OfPingPong(A) == Of("pingpong", A, <<vars, rvars, gvars, hvars>>)
OfShell(A) == Of("shrun", A, <<vars, pvars, gvars, hvars>>)

MCNext ==
  \/ OfConsole(Next)
  \/ OfPingPong(P!Next)
  \/ OfShell(R!Next)
  \/ Of("grep", G!grep(<<"a">>), <<vars, pvars, rvars, hvars>>)
  \/ Of("malloc", H!Next, <<vars, pvars, rvars, gvars>>)

(* The processes of pingpong.c and of the shell go on as long as any of    *)
(* them can; the user need not type.                                       *)
ProgramStep ==
  \/ OfPingPong(\E p \in P!Procs : P!Main(p) \/ (~P!Blocked(p) /\ P!die(p)))
  \/ OfShell(R!Run)

MCSpec == MCInit /\ [][MCNext]_allvars /\ WF_allvars(ProgramStep)
-----------------------------------------------------------------------------
(* sleep.c sleeps for the number it is given, or refuses it. *)
SleepsForOperand == part = "sleep" => SL!SleepsForOperand(given)

(* "received pong" in pingpong.c answers a ping. *)
PongIsAReply == P!PongIsAReply

(* Both processes of pingpong.c end, whoever is killed. *)
Terminates == part = "pingpong" => P!Terminates

(* sh.c comes back to its prompt, unless it has exited and init's own      *)
(* fork() fails; after a foreground command it does so when all its output *)
(* is printed; and only the commands of a pipeline hold its ends when they *)
(* run.                                                                    *)
ShellReturns ==
  /\ part = "shrun" => R!ShellReturns
  /\ [](part = "shrun" => R!NoStrayEnds /\ R!PromptAfterOutput)

(* The parser of sh.c splits a line by the precedence of its operators,    *)
(* and every word of it gets to the command as it was typed.               *)
ParsesAsWritten == part = "shparse" => L!ParsesAsWritten(given)

(* match() of grep.c decides the language of its patterns, and grep() sees *)
(* every line whole, wherever read() cuts the text.                        *)
GrepExact ==
  /\ part = "match" => G!MatcherExact(given[1], given[2])
  /\ part = "grep" => G!LinesWhole(<<"a">>, given)

(* The blocks that malloc() has given out do not overlap, and the free     *)
(* list of umalloc.c is in order of addresses, and coalesced.              *)
HeapSound == part = "malloc" => H!HeapSound
=============================================================================
