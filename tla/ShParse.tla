------------------------------ MODULE ShParse ------------------------------
(***************************************************************************)
(* The command parser of user/sh.c.  A line is a sequence of characters,   *)
(* a position s is an index into it, and every parsing function returns    *)
(* the tree and the position it left in *ps.  A word is the pair (q, eq)   *)
(* of positions until nulterminate() has ended it in place.                *)
(***************************************************************************)
EXTENDS Integers, Sequences, FiniteSets, FiniteSetsExt

CONSTANT MAXARGS    \* arguments of a command, the ending null included

NUL == "NUL"
Whitespace == {" "}
Symbols == {"<", "|", ">", "&", ";", "(", ")"}

None == [type |-> "NONE"]
execcmd(argv) == [type |-> "EXEC", argv |-> argv]
redircmd(cmd, file, mode) == [type |-> "REDIR", cmd |-> cmd, file |-> file, mode |-> mode]
pipecmd(left, right) == [type |-> "PIPE", left |-> left, right |-> right]
listcmd(left, right) == [type |-> "LIST", left |-> left, right |-> right]
backcmd(cmd) == [type |-> "BACK", cmd |-> cmd]

Char(L, s) == IF s \in 1..Len(L) THEN L[s] ELSE NUL

(* panic() ends the shell's child: every caller gives up, too. *)
Panic == [s |-> 0, cmd |-> None]

RECURSIVE SkipBlanks(_, _)
SkipBlanks(L, s) == IF Char(L, s) \in Whitespace THEN SkipBlanks(L, s + 1) ELSE s

RECURSIVE WordEnd(_, _)
WordEnd(L, s) == IF Char(L, s) \in Whitespace \cup Symbols \cup {NUL} THEN s ELSE WordEnd(L, s + 1)

TokenAt(L, s, c, append) ==
  LET eq == CASE c = NUL -> s
              [] c \in Symbols -> IF append THEN s + 2 ELSE s + 1
              [] OTHER -> WordEnd(L, s)
  IN [tok |-> IF append THEN "+" ELSE IF c \in Symbols \cup {NUL} THEN c ELSE "a",
      word |-> <<s, eq>>, s |-> SkipBlanks(L, eq)]

gettoken(L, s0) ==
  LET s == SkipBlanks(L, s0)
  IN TokenAt(L, s, Char(L, s), Char(L, s) = ">" /\ Char(L, s + 1) = ">")

peek(L, s, toks) == Char(L, SkipBlanks(L, s)) \in toks

(* A parsing function hands its result on to the next: (s, cmd), or (s,    *)
(* redirs) for the redirections at s, or the panic "missing file".         *)
RECURSIVE parseredirs(_, _, _)
Redir(L, t, f, redirs) ==
  IF f.tok # "a" THEN Panic ELSE parseredirs(L, f.s, Append(redirs, <<f.word, t.tok>>))
parseredirs(L, s, redirs) ==
  IF ~ peek(L, s, {"<", ">"}) THEN [s |-> s, redirs |-> redirs]
  ELSE Redir(L, gettoken(L, s), gettoken(L, gettoken(L, s).s), redirs)

RECURSIVE Redirected(_, _)
Redirected(cmd, redirs) ==
  IF redirs = <<>> THEN cmd
  ELSE Redirected(redircmd(cmd, Head(redirs)[1], Head(redirs)[2]), Tail(redirs))

(* the loop of parseexec(), with r what was read and the redirections *)
RECURSIVE parseargs(_, _, _)
Arg(L, t, r, argv) ==
  IF t.tok # "a" \/ Len(argv) + 1 >= MAXARGS THEN Panic
  ELSE parseargs(L, parseredirs(L, t.s, r.redirs), Append(argv, t.word))
parseargs(L, r, argv) ==
  IF r = Panic THEN Panic
  ELSE IF peek(L, r.s, {"|", ")", "&", ";"}) \/ peek(L, r.s, {NUL})
  THEN [s |-> r.s, cmd |-> Redirected(execcmd(argv), r.redirs)]
  ELSE Arg(L, gettoken(L, r.s), r, argv)

RECURSIVE parseline(_, _), parsepipe(_, _), parseback(_, _, _)

BlockEnd(cmd, r) ==
  IF r = Panic THEN Panic ELSE [s |-> r.s, cmd |-> Redirected(cmd, r.redirs)]
Block(L, l) ==
  IF l = Panic THEN Panic
  ELSE IF ~ peek(L, l.s, {")"}) THEN Panic
  ELSE BlockEnd(l.cmd, parseredirs(L, gettoken(L, l.s).s, <<>>))
parseblock(L, s) == Block(L, parseline(L, gettoken(L, s).s))

parseexec(L, s) ==
  IF peek(L, s, {"("}) THEN parseblock(L, s)
  ELSE parseargs(L, parseredirs(L, s, <<>>), <<>>)

(* mutant: a whole line may stand to the right of | *)
PipeRight_Line(L, s) == parseline(L, s)

PipeRight(L, s) == parsepipe(L, s)

PipeEnd(left, right) ==
  IF right = Panic THEN Panic ELSE [s |-> right.s, cmd |-> pipecmd(left.cmd, right.cmd)]
PipeLeft(L, left) ==
  IF left = Panic THEN Panic
  ELSE IF ~ peek(L, left.s, {"|"}) THEN left
  ELSE PipeEnd(left, PipeRight(L, gettoken(L, left.s).s))
parsepipe(L, s) == PipeLeft(L, parseexec(L, s))

(* the loop of parseline(): any number of & *)
parseback(L, s, cmd) ==
  IF peek(L, s, {"&"}) THEN parseback(L, gettoken(L, s).s, backcmd(cmd)) ELSE [s |-> s, cmd |-> cmd]

ListEnd(left, right) ==
  IF right = Panic THEN Panic ELSE [s |-> right.s, cmd |-> listcmd(left.cmd, right.cmd)]
ListLeft(L, left) ==
  IF ~ peek(L, left.s, {";"}) THEN left
  ELSE ListEnd(left, parseline(L, gettoken(L, left.s).s))
Line(L, p) ==
  IF p = Panic THEN Panic ELSE ListLeft(L, parseback(L, p.s, p.cmd))
parseline(L, s) == Line(L, parsepipe(L, s))

(* nulterminate(): the positions that are set to NUL, and the tree with    *)
(* the strings its words are from then on.                                 *)
RECURSIVE Ends(_)
Ends(cmd) ==
  CASE cmd.type = "EXEC" -> {cmd.argv[i][2] : i \in DOMAIN cmd.argv}
    [] cmd.type = "REDIR" -> Ends(cmd.cmd) \cup {cmd.file[2]}
    [] cmd.type = "BACK" -> Ends(cmd.cmd)
    [] OTHER -> Ends(cmd.left) \cup Ends(cmd.right)

String(L, ends, word) == SubSeq(L, word[1], Min({e \in ends \cup {Len(L) + 1} : e >= word[1]}) - 1)

RECURSIVE Named(_, _, _)
Named(L, ends, cmd) ==
  CASE cmd.type = "EXEC" -> execcmd([i \in DOMAIN cmd.argv |-> String(L, ends, cmd.argv[i])])
    [] cmd.type = "REDIR" -> redircmd(Named(L, ends, cmd.cmd), String(L, ends, cmd.file), cmd.mode)
    [] cmd.type = "BACK" -> backcmd(Named(L, ends, cmd.cmd))
    [] OTHER -> [cmd EXCEPT !.left = Named(L, ends, @), !.right = Named(L, ends, @)]

(* mutant: only the words of the last command are ended *)
nulterminate_Last(L, cmd) ==
  Named(L, IF cmd.type = "PIPE" THEN Ends(cmd.right) ELSE Ends(cmd), cmd)

nulterminate(L, cmd) == Named(L, Ends(cmd), cmd)

(* None is a line that is refused: a panic, or leftovers. *)
Parsed(L, l) ==
  IF l = Panic THEN None
  ELSE IF SkipBlanks(L, l.s) # Len(L) + 1 THEN None ELSE nulterminate(L, l.cmd)
parsecmd(L) == Parsed(L, parseline(L, 1))
-----------------------------------------------------------------------------
(* positions of character c outside parentheses *)
Top(L, c) ==
  {i \in DOMAIN L : L[i] = c /\ Cardinality({j \in 1..i : L[j] = "("}) =
                                Cardinality({j \in 1..i : L[j] = ")"})}
Inked(L) == {i \in DOMAIN L : L[i] # " "}

(* An accepted line is split at its first ; outside parentheses, then a    *)
(* final & is taken off, then it is split at its first |, then a pair of   *)
(* parentheses around it is removed: the precedence that parseline(),      *)
(* parsepipe(), parseexec() and parseblock() implement by recursion.       *)
SplitsByPrecedence(L) ==
  LET t == parsecmd(L)
      Cut(i) == <<parsecmd(SubSeq(L, 1, i - 1)), parsecmd(SubSeq(L, i + 1, Len(L)))>>
      last == Max(Inked(L) \cup {0}) first == Min(Inked(L) \cup {1})
      semi == Min(Top(L, ";")) bar == Min(Top(L, "|"))
  IN t # None =>
     CASE Top(L, ";") # {} -> t = listcmd(Cut(semi)[1], Cut(semi)[2])
       [] Top(L, ";") = {} /\ last \in Top(L, "&") -> t = backcmd(Cut(last)[1])
       [] Top(L, ";") = {} /\ last \notin Top(L, "&") /\ Top(L, "|") # {} ->
            t = pipecmd(Cut(bar)[1], Cut(bar)[2])
       [] OTHER -> Char(L, first) = "(" /\ Char(L, last) = ")" =>
                   t = parsecmd(SubSeq(L, first + 1, last - 1))

RECURSIVE Words(_)
Words(t) ==
  CASE t.type = "EXEC" -> t.argv
    [] t.type = "REDIR" -> Words(t.cmd)
    [] t.type = "BACK" -> Words(t.cmd)
    [] OTHER -> Words(t.left) \o Words(t.right)
RECURSIVE Files(_)
Files(t) ==
  CASE t.type = "EXEC" -> {}
    [] t.type = "REDIR" -> Files(t.cmd) \cup {t.file}
    [] t.type = "BACK" -> Files(t.cmd)
    [] OTHER -> Files(t.left) \cup Files(t.right)

WordAt(L, i) == L[i] \notin Whitespace \cup Symbols /\ Char(L, i - 1) \in Whitespace \cup Symbols \cup {NUL}
FileAt(L, i) ==
  \E j \in 1..(i - 1) : L[j] \in {"<", ">"} /\ \A k \in (j + 1)..(i - 1) : L[k] = " "
Written(L, starts) ==
  LET nth == [n \in 1..Cardinality(starts) |->
                CHOOSE i \in starts : Cardinality({j \in starts : j <= i}) = n]
  IN [n \in DOMAIN nth |-> SubSeq(L, nth[n], WordEnd(L, nth[n]) - 1)]

(* The arguments of the commands of an accepted line are its words in      *)
(* order, and its files are the words after < and >: no word is lost, cut  *)
(* short or run into what follows it, although nulterminate() writes into  *)
(* the line the words are in.                                              *)
NoWordLost(L) ==
  LET t == parsecmd(L) starts == {i \in DOMAIN L : WordAt(L, i)}
      files == {i \in starts : FileAt(L, i)}
      names == Written(L, files)
  IN t # None => Words(t) = Written(L, starts \ files) /\ Files(t) = {names[n] : n \in DOMAIN names}

(* A command line is understood as it is written.                          *)
ParsesAsWritten(L) == SplitsByPrecedence(L) /\ NoWordLost(L)
=============================================================================
