-------------------------------- MODULE Str --------------------------------
(***************************************************************************)
(* The copying and comparing functions of kernel/string.c and user/ulib.c, *)
(* and the names and paths that kernel/fs.c makes with them.  Characters   *)
(* are numbers, 0 ends a string; a string is a sequence without its 0.     *)
(***************************************************************************)
EXTENDS Integers, Sequences, FiniteSets, FiniteSetsExt, SequencesExt

CONSTANT DIRSIZ

At(s, i) == IF i \in DOMAIN s THEN s[i] ELSE 0

(* memory after the bytes are copied one by one, in the order given *)
RECURSIVE CopyBytes(_, _, _, _)
CopyBytes(mem, dst, src, order) ==
  IF order = <<>> THEN mem
  ELSE CopyBytes([mem EXCEPT ![dst + Head(order)] = mem[src + Head(order)]], dst, src, Tail(order))

Up(n) == [i \in 1..n |-> i - 1]
Down(n) == [i \in 1..n |-> n - i]

(* mutant: never backwards *)
Overlaps_Never(dst, src, n) == FALSE

Overlaps(dst, src, n) == src < dst /\ src + n > dst

memmove(mem, dst, src, n) == CopyBytes(mem, dst, src, IF Overlaps(dst, src, n) THEN Down(n) ELSE Up(n))

(* the one of the user library *)
user_memmove(mem, dst, src, n) == CopyBytes(mem, dst, src, IF src > dst THEN Up(n) ELSE Down(n))

RECURSIVE strncmp(_, _, _)
strncmp(p, q, n) ==
  IF n > 0 /\ At(p, 1) # 0 /\ At(p, 1) = At(q, 1)
  THEN strncmp(Tail(p), Tail(q), n - 1)
  ELSE IF n = 0 THEN 0 ELSE At(p, 1) - At(q, 1)

(* the n bytes that strncpy() writes *)
strncpy(t, n) == [i \in 1..n |-> At(t, i)]

(* mutant: the last byte is not reserved for the null *)
CopyMax_All(n) == n

CopyMax(n) == n - 1

(* the bytes of s after safestrcpy(s, t, n): k bytes are copied, t's null  *)
(* among them if there is room, and a null is written behind them          *)
safestrcpy(s, t, n) ==
  LET k == Min({Len(t) + 1, CopyMax(n)}) IN
  IF n <= 0 THEN s
  ELSE [i \in DOMAIN s |-> IF i <= k THEN At(t, i) ELSE IF i = k + 1 THEN 0 ELSE s[i]]

(* mutant: names are compared to their end *)
namecmp_Whole(s, t) == strncmp(s, t, DIRSIZ + 1)

namecmp(s, t) == strncmp(s, t, DIRSIZ)

Slash == 9
RECURSIVE SkipSlashes(_)
SkipSlashes(path) == IF At(path, 1) = Slash THEN SkipSlashes(Tail(path)) ELSE path

ElemLen(path) == Min({i \in 1..(Len(path) + 1) : At(path, i) \in {Slash, 0}}) - 1

(* mutant: one slash after the element is skipped *)
AfterElem_OneSlash(path) == IF path = <<>> THEN path ELSE Tail(path)

AfterElem(path) == SkipSlashes(path)

(* skipelem(): the name and the rest of the path; no name at the end *)
skipelem(path) ==
  LET p == SkipSlashes(path) len == ElemLen(p) IN
  [found |-> p # <<>>, name |-> SubSeq(p, 1, Min({len, DIRSIZ})),
   rest |-> AfterElem(SubSeq(p, len + 1, Len(p)))]

(* the names that namex() looks up, the last of which it leaves to the     *)
(* caller of nameiparent(): it is the one after which the path is empty    *)
RECURSIVE Elements(_)
Elements(path) ==
  LET e == skipelem(path) IN
  IF ~ e.found THEN <<>> ELSE <<[name |-> e.name, last |-> e.rest = <<>>]>> \o Elements(e.rest)
-----------------------------------------------------------------------------
(* Both memmove() functions copy the bytes that were there, overlapping or *)
(* not, and change nothing else.                                           *)
MemmoveExact(mem, dst, src, n) ==
  LET moved == [a \in DOMAIN mem |-> IF a \in dst..(dst + n - 1) THEN mem[src + (a - dst)] ELSE mem[a]]
  IN memmove(mem, dst, src, n) = moved /\ user_memmove(mem, dst, src, n) = moved

Short(s) == SubSeq(s, 1, Min({Len(s), DIRSIZ}))
Less(s, t) ==
  \E i \in 1..(Len(t)) : At(s, i) < t[i] /\ \A j \in 1..(i - 1) : At(s, j) = t[j]

(* A name stored with strncpy() is found again by namecmp(): names are the *)
(* same entry exactly if they agree up to DIRSIZ, with or without an       *)
(* ending null in the entry; and strncmp() orders as a dictionary does.    *)
NamesAgree(s, t) ==
  LET entry == strncpy(s, DIRSIZ)
      stored == SubSeq(entry, 1, Min({i \in 1..(DIRSIZ + 1) : At(entry, i) = 0}) - 1)
      garbage == <<1>>    \* an entry of DIRSIZ characters has no null of its own
  IN /\ namecmp(t, IF Len(stored) = DIRSIZ THEN stored \o garbage ELSE stored) = 0 <=> Short(s) = Short(t)
     /\ strncmp(s, t, DIRSIZ) < 0 <=> Less(Short(s), Short(t))

(* What safestrcpy() leaves is ended by a null inside the n bytes, is a    *)
(* prefix of the string, and all of it if it fits.  The bytes beyond n     *)
(* stay, and so do those beyond the second null that a short string gets.  *)
SafestrcpyFits(s, t, n) ==
  LET r == safestrcpy(s, t, n) end == Min({i \in DOMAIN r : r[i] = 0} \cup {Len(s) + 1}) IN
  n > 0 => /\ end <= n /\ IsPrefix(SubSeq(r, 1, end - 1), t)
           /\ Len(t) < n => end = Len(t) + 1
           /\ \A i \in DOMAIN s : i > n \/ i > Len(t) + 2 => r[i] = s[i]

(* The elements of a path are the maximal runs without a slash, cut to     *)
(* DIRSIZ, and only the last one is taken for the last: trailing slashes   *)
(* do not hide it from nameiparent().                                      *)
PathElements(path) ==
  LET starts == {i \in DOMAIN path : path[i] # Slash /\ At(path, i - 1) \in {Slash, 0}}
      e == Elements(path)
      Start(n) == CHOOSE i \in starts : Cardinality({j \in starts : j <= i}) = n
  IN /\ Len(e) = Cardinality(starts)
     /\ \A n \in DOMAIN e :
          LET run == SubSeq(path, Start(n), Len(path)) IN
          e[n] = [name |-> Short(SubSeq(run, 1, ElemLen(run))), last |-> n = Len(e)]
=============================================================================
