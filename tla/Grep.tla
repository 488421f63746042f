-------------------------------- MODULE Grep --------------------------------
(***************************************************************************)
(* user/grep.c: the line buffer of grep(), filled by reads that return any *)
(* number of bytes, and the pattern matcher.  Characters are strings of    *)
(* length one; "nl" is the newline.                                        *)
(***************************************************************************)
EXTENDS Integers, Sequences, FiniteSets, FiniteSetsExt, SequencesExt

CONSTANT BUFSIZE     \* sizeof(buf)

VARIABLES
  input,    \* what is still to be read from fd
  buf,      \* buf[0..m-1]
  output    \* the lines written

grepvars == <<input, buf, output>>
-----------------------------------------------------------------------------
RECURSIVE matchhere(_, _)
RECURSIVE matchstar(_, _, _)

matchhere(re, text) ==
  CASE re = <<>> -> TRUE
    [] Len(re) >= 2 /\ re[2] = "*" -> matchstar(re[1], SubSeq(re, 3, Len(re)), text)
    [] re = <<"$">> -> text = <<>>
    [] OTHER -> /\ text # <<>> /\ re[1] \in {".", text[1]}
                /\ matchhere(Tail(re), Tail(text))

(* mutant: a starred character must occur at least once *)
matchstar_Once(c, re, text) ==
  /\ text # <<>> /\ c \in {".", text[1]}
  /\ matchhere(re, Tail(text)) \/ matchstar(c, re, Tail(text))

matchstar(c, re, text) ==
  \/ matchhere(re, text)
  \/ text # <<>> /\ c \in {".", text[1]} /\ matchstar(c, re, Tail(text))

RECURSIVE matchany(_, _)
matchany(re, text) == matchhere(re, text) \/ (text # <<>> /\ matchany(re, Tail(text)))

match(re, text) ==
  IF re # <<>> /\ re[1] = "^" THEN matchhere(Tail(re), text) ELSE matchany(re, text)
-----------------------------------------------------------------------------
(* one line of the inner loop; the line stays in the buffer if it is the   *)
(* unfinished one                                                          *)
RECURSIVE Lines(_, _)
Lines(re, b) ==
  IF "nl" \notin Range(b) THEN [rest |-> b, out |-> <<>>]
  ELSE LET q == SelectInSeq(b, LAMBDA c : c = "nl")
           l == SubSeq(b, 1, q - 1)
           more == Lines(re, SubSeq(b, q + 1, Len(b)))
       IN [rest |-> more.rest, out |-> IF match(re, l) THEN <<l>> \o more.out ELSE more.out]

(* mutant: what is left of the last line is dropped *)
Rest_Dropped(re, b) == <<>>

Rest(re, b) == Lines(re, b).rest

(* One iteration: a read of 1 to sizeof(buf)-m-1 bytes, then the lines.    *)
grep(re) ==
  /\ input # <<>> /\ BUFSIZE - Len(buf) - 1 > 0
  /\ \E n \in 1..Min({Len(input), BUFSIZE - Len(buf) - 1}) :
       LET b == buf \o SubSeq(input, 1, n) IN
       /\ input' = SubSeq(input, n + 1, Len(input))
       /\ buf' = Rest(re, b)
       /\ output' = output \o Lines(re, b).out
-----------------------------------------------------------------------------
(* The reference: a pattern is a list of atoms, each plain or starred,     *)
(* between two anchors; Ends is the set of positions of the text where a   *)
(* match that starts in Starts can end.                                    *)
RECURSIVE Atoms(_)
Atoms(re) ==
  IF re = <<>> THEN <<>>
  ELSE IF Len(re) >= 2 /\ re[2] = "*" THEN <<[c |-> re[1], star |-> TRUE]>> \o Atoms(SubSeq(re, 3, Len(re)))
  ELSE IF re = <<"$">> THEN <<[c |-> "end", star |-> FALSE]>>
  ELSE <<[c |-> re[1], star |-> FALSE]>> \o Atoms(Tail(re))

MatchEnds(atoms, text, starts) ==
  LET Is(a, i) == a.c \in {".", text[i + 1]}
      After(from, a) ==
        CASE a.c = "end" -> from \cap {Len(text)}
          [] a.c # "end" /\ a.star -> {j \in 0..Len(text) : \E i \in from : i <= j /\ \A k \in i..(j - 1) : Is(a, k)}
          [] OTHER -> {i + 1 : i \in {k \in from : k < Len(text) /\ Is(a, k)}}
  IN FoldLeft(After, starts, atoms)

Matches(re, text) ==
  IF re # <<>> /\ re[1] = "^" THEN MatchEnds(Atoms(Tail(re)), text, {0}) # {}
  ELSE MatchEnds(Atoms(re), text, 0..Len(text)) # {}

(* The backtracking matcher accepts exactly the texts in which the pattern *)
(* occurs: anchors, dots and stars, at the start, at the end and on empty  *)
(* texts included.                                                         *)
MatcherExact(re, text) == match(re, text) <=> Matches(re, text)

Cut(s) ==
  LET ends == {i \in DOMAIN s : s[i] = "nl"}
      end == [n \in 0..Cardinality(ends) |->
                IF n = 0 THEN 0 ELSE CHOOSE i \in ends : Cardinality({j \in ends : j <= i}) = n]
  IN [n \in 1..Cardinality(ends) |-> SubSeq(s, end[n - 1] + 1, end[n] - 1)]
Expected(re, s) == SelectSeq(Cut(s), LAMBDA l : Matches(re, l))

(* However the reads cut the input up, grep() has printed the matching     *)
(* lines among those it has read, in order and whole; it stops early only  *)
(* at a line that does not fit into buf.                                   *)
LinesWhole(re, text) ==
  /\ output = Expected(re, SubSeq(text, 1, Len(text) - Len(input)))
  /\ (\A l \in Range(Cut(text \o <<"nl">>)) : Len(l) < BUFSIZE - 1) /\ input # <<>> =>
       BUFSIZE - Len(buf) - 1 > 0
=============================================================================
