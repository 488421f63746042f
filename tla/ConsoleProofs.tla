---------------------------- MODULE ConsoleProofs ----------------------------
(***************************************************************************)
(* Proofs about console input for every size of the ring, every modulus of *)
(* its indices that is a larger multiple of the size, and every set of     *)
(* readers: consoleread() does not sleep beside a complete line, and the   *)
(* ring with its three wrapping indices is the line buffer of module       *)
(* LineBuffer.                                                             *)
(***************************************************************************)
EXTENDS Console, TLAPS, SequenceTheorems

(* A remainder is what is left over by a multiple, and determines it.      *)
LEMMA ModUnique ==
  ASSUME NEW M \in Nat \ {0}, NEW q \in Int, NEW m \in 0..(M-1)
  PROVE  (q * M + m) % M = m
  BY SMTT(40)

(* Every integer is a multiple and a remainder.                            *)
LEMMA ModExists ==
  ASSUME NEW M \in Nat \ {0}, NEW x \in Int
  PROVE  \E q \in Int, m \in 0..(M-1) : x = q * M + m /\ x % M = m
<1>1. x \div M \in Int /\ x % M \in 0..(M-1) /\ x = M * (x \div M) + (x % M)
  BY SMTT(40)
<1> QED
  BY <1>1

(* One turn of the counter, forward or back, is a subtraction.             *)
LEMMA ModTurn ==
  ASSUME NEW M \in Nat \ {0}, NEW x \in Int
  PROVE  /\ x % M \in 0..(M-1)
         /\ (0 <= x /\ x < M) => x % M = x
         /\ (M <= x /\ x < M + M) => x % M = x - M
         /\ (-M <= x /\ x < 0) => x % M = x + M
<1>1. x % M \in 0..(M-1)
  BY Zenon, ModExists
<1>2. (0 <= x /\ x < M) => x % M = x
  BY SMTT(40)
<1>3. (M <= x /\ x < M + M) => x % M = x - M
  BY SMTT(40)
<1>4. (-M <= x /\ x < 0) => x % M = x + M
  BY SMTT(40)
<1> QED
  BY Zenon, <1>1, <1>2, <1>3, <1>4

(* Where the counter's modulus is a multiple of the size of the ring, the  *)
(* place of an element does not depend on how often its counter wrapped.   *)
LEMMA ModPeriod ==
  ASSUME NEW S \in Nat \ {0}, NEW x \in Int, NEW M \in Int, M % S = 0
  PROVE  (x + M) % S = x % S
<1>1. PICK q \in Int, m \in 0..(S-1) : x = q * S + m /\ x % S = m
  BY Zenon, ModExists
<1>2. PICK k \in Int : M = k * S
  <2>1. PICK k \in Int, o \in 0..(S-1) : M = k * S + o /\ M % S = o
    BY ZenonT(40), ModExists
  <2> QED
    BY <2>1
<1>3. x + M = (q + k) * S + m /\ q + k \in Int
  BY <1>1, <1>2
<1>4. ((q + k) * S + m) % S = m
  BY Zenon, <1>3, ModUnique
<1> QED
  BY Zenon, <1>1, <1>3, <1>4

(* Two of the last S elements are never in the same place.                 *)
LEMMA ModInjective ==
  ASSUME NEW S \in Nat \ {0}, NEW x \in Int, NEW k \in 1..(S-1)
  PROVE  (x + k) % S # x % S
<1>1. PICK q \in Int, m \in 0..(S-1) : x = q * S + m /\ x % S = m
  BY ZenonT(40), ModExists
<1>2. CASE m + k < S
  <2>1. m + k \in 0..(S-1) /\ x + k = q * S + (m + k)
    BY <1>1, <1>2
  <2>2. (q * S + (m + k)) % S = m + k
    BY Zenon, <2>1, ModUnique
  <2> QED
    BY <1>1, <2>1, <2>2
<1>3. CASE m + k >= S
  <2>1. m + k - S \in 0..(S-1) /\ x + k = (q + 1) * S + (m + k - S) /\ q + 1 \in Int
    BY <1>1, <1>3
  <2>2. ((q + 1) * S + (m + k - S)) % S = m + k - S
    BY ZenonT(40), <2>1, ModUnique
  <2>3. (x + k) % S = m + k - S
    BY Zenon, <2>1, <2>2
  <2> QED
    BY <1>1, <2>3
<1> QED
  BY <1>2, <1>3

(* Differences, increments and decrements of counters modulo M.            *)
LEMMA Wrap ==
  ASSUME NEW M \in Nat \ {0}
  PROVE  /\ \A i, j \in 0..(M-1) : (i - j) % M = IF i >= j THEN i - j ELSE i - j + M
         /\ \A i \in 0..(M-1) : (i + 1) % M = IF i + 1 < M THEN i + 1 ELSE 0
         /\ \A i \in 0..(M-1) : (i - 1) % M = IF i >= 1 THEN i - 1 ELSE M - 1
<1>0. \A x \in Int : /\ (0 <= x /\ x < M) => x % M = x
                     /\ (M <= x /\ x < M + M) => x % M = x - M
                     /\ (-M <= x /\ x < 0) => x % M = x + M
  BY ZenonT(40), ModTurn
<1>1. ASSUME NEW i \in 0..(M-1), NEW j \in 0..(M-1)
      PROVE  (i - j) % M = IF i >= j THEN i - j ELSE i - j + M
  <2>1. i - j \in Int /\ -M <= i - j /\ i - j < M
    OBVIOUS
  <2> QED
    BY <1>0, <2>1
<1>2. ASSUME NEW i \in 0..(M-1)
      PROVE  (i + 1) % M = IF i + 1 < M THEN i + 1 ELSE 0
  <2>1. i + 1 \in Int /\ 0 <= i + 1 /\ i + 1 < M + M /\ (i + 1 < M \/ i + 1 = M)
    OBVIOUS
  <2> QED
    BY <1>0, <2>1
<1>3. ASSUME NEW i \in 0..(M-1)
      PROVE  (i - 1) % M = IF i >= 1 THEN i - 1 ELSE M - 1
  <2>1. i - 1 \in Int /\ -M <= i - 1 /\ i - 1 < M
    OBVIOUS
  <2> QED
    BY <1>0, <2>1
<1> QED
  BY Zenon, <1>1, <1>2, <1>3
-----------------------------------------------------------------------------
(* d elements of the ring f of size S, from the place of counter i on.     *)
Window(f, i, d, S) == [k \in 1..d |-> f[(i + k - 1) % S]]

(* They are a sequence over V.                                             *)
WindowOK(V, f, i, d, S) ==
  /\ Window(f, i, d, S) \in Seq(V)
  /\ Len(Window(f, i, d, S)) = d
  /\ \A k \in 1..d : Window(f, i, d, S)[k] = f[(i + k - 1) % S]

(* A window of a ring of elements of V is a sequence over V.               *)
LEMMA WindowSeq ==
  ASSUME NEW S \in Nat \ {0}, NEW V, NEW f \in [0..S-1 -> V]
  PROVE  \A i \in Int, d \in Nat : WindowOK(V, f, i, d, S)
<1> TAKE i \in Int, d \in Nat
<1>1. \A k \in 1..d : (i + k - 1) % S \in 0..(S-1)
  BY SMTT(40), ModTurn
<1>2. Window(f, i, d, S) \in [1..d -> V]
  BY Zenon, <1>1 DEF Window
<1>3. Window(f, i, d, S) \in Seq(V)
  BY Zenon, <1>2, SeqDef
<1>4. /\ DOMAIN Window(f, i, d, S) = 1..d
      /\ DOMAIN Window(f, i, d, S) = 1..Len(Window(f, i, d, S))
      /\ Len(Window(f, i, d, S)) \in Nat
  BY Zenon, <1>2, <1>3, LenProperties
<1>5. Len(Window(f, i, d, S)) = d
  BY <1>4
<1> QED
  BY Zenon, <1>3, <1>5 DEF WindowOK, Window

(* A window of no elements.                                                *)
LEMMA WindowEmpty ==
  ASSUME NEW S \in Nat \ {0}, NEW V, NEW f \in [0..S-1 -> V], NEW i \in Int
  PROVE  Window(f, i, 0, S) = <<>>
<1>1. WindowOK(V, f, i, 0, S)
  BY Zenon, WindowSeq
<1>2. Window(f, i, 0, S) \in Seq(V) /\ Len(Window(f, i, 0, S)) = 0
  BY Zenon, <1>1 DEF WindowOK
<1> QED
  BY Zenon, <1>2, EmptySeq

(* A counter that has wrapped points at the same elements.                 *)
Shifts(f, i, j, d, S, M) ==
  Window(f, i, d, S) = Window(f, j, d, S)

LEMMA WindowShift ==
  ASSUME NEW S \in Nat \ {0}, NEW f, NEW i \in Int, NEW j \in Int, NEW d \in Nat,
         NEW M \in Int, M % S = 0, i = j \/ i = j + M \/ j = i + M
  PROVE  Shifts(f, i, j, d, S, M)
<1>1. ASSUME NEW k \in 1..d PROVE (i + k - 1) % S = (j + k - 1) % S
  <2>1. i + k - 1 \in Int /\ j + k - 1 \in Int
    OBVIOUS
  <2>2. CASE i = j + M
    <3>1. ((j + k - 1) + M) % S = (j + k - 1) % S
      BY Zenon, <2>1, ModPeriod
    <3>2. (j + k - 1) + M = i + k - 1
      BY <2>2
    <3> QED
      BY Zenon, <3>1, <3>2
  <2>3. CASE j = i + M
    <3>1. ((i + k - 1) + M) % S = (i + k - 1) % S
      BY Zenon, <2>1, ModPeriod
    <3>2. (i + k - 1) + M = j + k - 1
      BY <2>3
    <3> QED
      BY Zenon, <3>1, <3>2
  <2> QED
    BY Zenon, <2>2, <2>3
<1> QED
  BY Zenon, <1>1 DEF Window, Shifts

(* Taking the first element: the window starts one later.                  *)
HasTail(V, f, i, d, S) ==
  /\ Window(f, i, d, S) # <<>>
  /\ Tail(Window(f, i, d, S)) = Window(f, i + 1, d - 1, S)

LEMMA WindowTail ==
  ASSUME NEW S \in Nat \ {0}, NEW V, NEW f \in [0..S-1 -> V], NEW i \in Int,
         NEW d \in Nat \ {0}
  PROVE  HasTail(V, f, i, d, S)
<1> DEFINE s == Window(f, i, d, S)
           t == Window(f, i + 1, d - 1, S)
<1>0. \A j \in Int, b \in Nat : WindowOK(V, f, j, b, S)
  BY Zenon, WindowSeq
<1>1. s \in Seq(V) /\ Len(s) = d /\ \A k \in 1..d : s[k] = f[(i + k - 1) % S]
  BY Zenon, <1>0 DEF WindowOK
<1>2. /\ t \in Seq(V) /\ Len(t) = d - 1
      /\ \A k \in 1..(d-1) : t[k] = f[((i + 1) + k - 1) % S]
  <2>1. i + 1 \in Int /\ d - 1 \in Nat
    OBVIOUS
  <2> QED
    BY Zenon, <1>0, <2>1 DEF WindowOK
<1> HIDE DEF s, t
<1>3. s # <<>>
  BY Zenon, <1>1, EmptySeq
<1>4. /\ Tail(s) \in Seq(V) /\ Len(Tail(s)) = d - 1
      /\ \A k \in 1..(d-1) : Tail(s)[k] = s[k + 1]
  BY Zenon, <1>1, <1>3, HeadTailProperties
<1>5. ASSUME NEW k \in 1..(d-1) PROVE Tail(s)[k] = t[k]
  <2>1. k + 1 \in 1..d /\ i + (k + 1) - 1 = (i + 1) + k - 1
    OBVIOUS
  <2>2. s[k + 1] = f[(i + (k + 1) - 1) % S]
    BY Zenon, <1>1, <2>1
  <2> QED
    BY Zenon, <1>2, <1>4, <2>1, <2>2
<1>6. Tail(s) = t
  BY Zenon, <1>2, <1>4, <1>5, SeqEqual
<1> QED
  BY Zenon, <1>3, <1>6 DEF s, t, HasTail

(* A shorter window is a prefix.                                           *)
HasPrefix(V, f, i, d, m, S) ==
  SubSeq(Window(f, i, d, S), 1, m) = Window(f, i, m, S)

LEMMA WindowPrefix ==
  ASSUME NEW S \in Nat \ {0}, NEW V, NEW f \in [0..S-1 -> V], NEW i \in Int,
         NEW d \in Nat, NEW m \in 0..d
  PROVE  HasPrefix(V, f, i, d, m, S)
<1> DEFINE s == Window(f, i, d, S)
           t == Window(f, i, m, S)
<1>0. \A j \in Int, b \in Nat : WindowOK(V, f, j, b, S)
  BY Zenon, WindowSeq
<1>1. s \in Seq(V) /\ Len(s) = d /\ \A k \in 1..d : s[k] = f[(i + k - 1) % S]
  BY Zenon, <1>0 DEF WindowOK
<1>2. m \in Nat /\ t \in Seq(V) /\ Len(t) = m /\ \A k \in 1..m : t[k] = f[(i + k - 1) % S]
  <2>1. m \in Nat
    OBVIOUS
  <2> QED
    BY Zenon, <1>0, <2>1 DEF WindowOK
<1> HIDE DEF s, t
<1>3. \A k \in 1..m : s[k] \in V
  BY <1>1, ElementOfSeq
<1>4. /\ SubSeq(s, 1, m) \in Seq(V) /\ Len(SubSeq(s, 1, m)) = m
      /\ \A k \in 1..m : SubSeq(s, 1, m)[k] = s[k]
  <2>1. /\ SubSeq(s, 1, m) \in Seq(V)
        /\ Len(SubSeq(s, 1, m)) = IF 1 <= m THEN m - 1 + 1 ELSE 0
        /\ \A k \in 1..(m - 1 + 1) : SubSeq(s, 1, m)[k] = s[1 + k - 1]
    BY <1>2, <1>3, SubSeqProperties
  <2>2. m - 1 + 1 = m /\ \A k \in 1..m : 1 + k - 1 = k
    BY <1>2
  <2> QED
    BY <1>2, <2>1, <2>2
<1>5. SubSeq(s, 1, m) = t
  BY <1>1, <1>2, <1>4, SeqEqual
<1> QED
  BY Zenon, <1>5 DEF s, t, HasPrefix

(* Storing behind a window does not touch it.                              *)
Keeps(f, g, i, d, x, S) ==
  Window(g, i, d, S) = Window(f, i, d, S)

LEMMA WindowKeep ==
  ASSUME NEW S \in Nat \ {0}, NEW f, NEW g, NEW i \in Int, NEW d \in Nat,
         NEW x \in Int, x >= i + d, x < i + S,
         \A y \in 0..(S-1) : y # x % S => g[y] = f[y]
  PROVE  Keeps(f, g, i, d, x, S)
<1>1. ASSUME NEW k \in 1..d
      PROVE  g[(i + k - 1) % S] = f[(i + k - 1) % S]
  <2>1. i + k - 1 \in Int /\ x - (i + k - 1) \in 1..(S-1) /\ (i + k - 1) + (x - (i + k - 1)) = x
    OBVIOUS
  <2>2. ((i + k - 1) + (x - (i + k - 1))) % S # (i + k - 1) % S
    BY ZenonT(40), <2>1, ModInjective
  <2>3. (i + k - 1) % S \in 0..(S-1)
    BY Zenon, <2>1, ModTurn
  <2> QED
    BY <2>1, <2>2, <2>3
<1> QED
  BY Zenon, <1>1 DEF Window, Keeps

(* Storing at the end of a window that does not fill the ring appends.     *)
Puts(V, f, i, d, S, c) ==
  Window([f EXCEPT ![(i + d) % S] = c], i, d + 1, S) = Append(Window(f, i, d, S), c)

LEMMA WindowPut ==
  ASSUME NEW S \in Nat \ {0}, NEW V, NEW f \in [0..S-1 -> V], NEW i \in Int, NEW d \in Nat,
         d < S, NEW c \in V
  PROVE  Puts(V, f, i, d, S, c)
<1> DEFINE g == [f EXCEPT ![(i + d) % S] = c]
           s == Window(f, i, d, S)
           t == Window(g, i, d + 1, S)
<1>1. s \in Seq(V) /\ Len(s) = d /\ \A k \in 1..d : s[k] = f[(i + k - 1) % S]
  <2>1. \A j \in Int, b \in Nat : WindowOK(V, f, j, b, S)
    BY Zenon, WindowSeq
  <2>2. WindowOK(V, f, i, d, S)
    BY Zenon, <2>1
  <2> QED
    BY Zenon, <2>2 DEF WindowOK
<1>2. g \in [0..S-1 -> V] /\ g[(i + d) % S] = c
  <2>1. (i + d) % S \in 0..(S-1)
    <3>1. i + d \in Int
      OBVIOUS
    <3> QED
      BY Zenon, <3>1, ModTurn
  <2> QED
    BY Zenon, <2>1
<1>3. Window(g, i, d, S) = s
  <2> DEFINE x == i + d
  <2>1. x \in Int /\ x >= i + d /\ x < i + S
    OBVIOUS
  <2>2. \A y \in 0..(S-1) : y # x % S => g[y] = f[y]
    BY Zenon
  <2> HIDE DEF x, g
  <2>3. Keeps(f, g, i, d, x, S)
    BY Zenon, <2>1, <2>2, WindowKeep
  <2> QED
    BY Zenon, <2>3 DEF Keeps
<1> HIDE DEF g
<1>0. \A j \in Int, b \in Nat : WindowOK(V, g, j, b, S)
  BY Zenon, <1>2, WindowSeq
<1>4. \A k \in 1..d : s[k] = g[(i + k - 1) % S]
  <2>1. \A k \in 1..d : Window(g, i, d, S)[k] = g[(i + k - 1) % S]
    BY Zenon DEF Window
  <2> QED
    BY Zenon, <1>3, <2>1
<1>5. t \in Seq(V) /\ Len(t) = d + 1 /\ \A k \in 1..(d+1) : t[k] = g[(i + k - 1) % S]
  <2>1. d + 1 \in Nat
    OBVIOUS
  <2> QED
    BY Zenon, <1>0, <2>1 DEF WindowOK
<1> HIDE DEF s, t
<1>6. /\ Append(s, c) \in Seq(V) /\ Len(Append(s, c)) = d + 1
      /\ \A k \in 1..d : Append(s, c)[k] = s[k]
      /\ Append(s, c)[d + 1] = c
  BY <1>1, AppendProperties
<1>7. ASSUME NEW k \in 1..(d+1) PROVE t[k] = Append(s, c)[k]
  <2>1. CASE k = d + 1
    <3>1. i + (d + 1) - 1 = i + d
      OBVIOUS
    <3> QED
      BY Zenon, <1>2, <1>5, <1>6, <2>1, <3>1
  <2>2. CASE k # d + 1
    <3>1. k \in 1..d
      BY <2>2
    <3> QED
      BY Zenon, <1>4, <1>5, <1>6, <3>1
  <2> QED
    BY Zenon, <2>1, <2>2
<1>8. t = Append(s, c)
  BY Zenon, <1>5, <1>6, <1>7, SeqEqual
<1> QED
  BY Zenon, <1>8 DEF g, s, t, Puts

(* Two windows that follow each other are one.                             *)
Joins(V, f, i, d, m, S) ==
  Window(f, i, d, S) \o Window(f, i + d, m, S) = Window(f, i, d + m, S)

LEMMA WindowJoin ==
  ASSUME NEW S \in Nat \ {0}, NEW V, NEW f \in [0..S-1 -> V], NEW i \in Int,
         NEW d \in Nat, NEW m \in Nat
  PROVE  Joins(V, f, i, d, m, S)
<1> DEFINE s == Window(f, i, d, S)
           t == Window(f, i + d, m, S)
           u == Window(f, i, d + m, S)
<1>0. \A j \in Int, b \in Nat : WindowOK(V, f, j, b, S)
  BY Zenon, WindowSeq
<1>1. s \in Seq(V) /\ Len(s) = d /\ \A k \in 1..d : s[k] = f[(i + k - 1) % S]
  BY Zenon, <1>0 DEF WindowOK
<1>2. /\ t \in Seq(V) /\ Len(t) = m
      /\ \A k \in 1..m : t[k] = f[((i + d) + k - 1) % S]
  <2>1. i + d \in Int
    OBVIOUS
  <2> QED
    BY Zenon, <1>0, <2>1 DEF WindowOK
<1>3. u \in Seq(V) /\ Len(u) = d + m /\ \A k \in 1..(d + m) : u[k] = f[(i + k - 1) % S]
  <2>1. d + m \in Nat
    OBVIOUS
  <2> QED
    BY Zenon, <1>0, <2>1 DEF WindowOK
<1> HIDE DEF s, t, u
<1>4. /\ s \o t \in Seq(V) /\ Len(s \o t) = d + m
      /\ \A k \in 1..(d + m) : (s \o t)[k] = IF k <= d THEN s[k] ELSE t[k - d]
  BY <1>1, <1>2, ConcatProperties
<1>5. ASSUME NEW k \in 1..(d + m) PROVE (s \o t)[k] = u[k]
  <2>1. CASE k <= d
    <3>1. k \in 1..d
      BY <2>1
    <3>2. (s \o t)[k] = s[k]
      BY Zenon, <1>4, <2>1
    <3> QED
      BY Zenon, <1>1, <1>3, <3>1, <3>2
  <2>2. CASE ~(k <= d)
    <3>1. k - d \in 1..m /\ (i + d) + (k - d) - 1 = i + k - 1
      BY <2>2
    <3>2. t[k - d] = f[((i + d) + (k - d) - 1) % S]
      BY Zenon, <1>2, <3>1
    <3> QED
      BY Zenon, <1>3, <1>4, <2>2, <3>1, <3>2
  <2> QED
    BY Zenon, <2>1, <2>2
<1>6. s \o t = u
  BY Zenon, <1>3, <1>4, <1>5, SeqEqual
<1> QED
  BY Zenon, <1>6 DEF s, t, u, Joins

(* A character behind a sequence, and behind its second part.              *)
AppendsBehind(V, s, t, c) ==
  Append(s \o t, c) = s \o Append(t, c)

LEMMA AppendConcat ==
  ASSUME NEW V, NEW s \in Seq(V), NEW t \in Seq(V), NEW c \in V
  PROVE  AppendsBehind(V, s, t, c)
<1>1. /\ s \o t \in Seq(V) /\ Len(s \o t) = Len(s) + Len(t)
      /\ \A i \in 1..Len(s) + Len(t) :
           (s \o t)[i] = IF i <= Len(s) THEN s[i] ELSE t[i - Len(s)]
  BY Zenon, ConcatProperties
<1>2. /\ Append(t, c) \in Seq(V) /\ Len(Append(t, c)) = Len(t) + 1
      /\ \A i \in 1..Len(t) : Append(t, c)[i] = t[i]
      /\ Append(t, c)[Len(t) + 1] = c
  BY AppendProperties
<1>3. /\ Append(s \o t, c) \in Seq(V) /\ Len(Append(s \o t, c)) = Len(s) + Len(t) + 1
      /\ \A i \in 1..(Len(s) + Len(t)) : Append(s \o t, c)[i] = (s \o t)[i]
      /\ Append(s \o t, c)[Len(s) + Len(t) + 1] = c
  BY <1>1, AppendProperties
<1>4. /\ s \o Append(t, c) \in Seq(V) /\ Len(s \o Append(t, c)) = Len(s) + (Len(t) + 1)
      /\ \A i \in 1..Len(s) + (Len(t) + 1) :
           (s \o Append(t, c))[i] = IF i <= Len(s) THEN s[i] ELSE Append(t, c)[i - Len(s)]
  BY <1>2, ConcatProperties
<1>5. Len(s) \in Nat /\ Len(t) \in Nat
  BY Zenon, LenProperties
<1>6. ASSUME NEW i \in 1..(Len(s) + Len(t) + 1)
      PROVE  Append(s \o t, c)[i] = (s \o Append(t, c))[i]
  <2>1. CASE i <= Len(s)
    BY <1>1, <1>3, <1>4, <1>5, <2>1
  <2>2. CASE i > Len(s) /\ i <= Len(s) + Len(t)
    <3>1. i - Len(s) \in 1..Len(t) /\ ~(i <= Len(s)) /\ i \in 1..(Len(s) + Len(t))
      BY <1>5, <2>2
    <3> QED
      BY <1>1, <1>2, <1>3, <1>4, <1>5, <3>1
  <2>3. CASE i = Len(s) + Len(t) + 1
    <3>1. i - Len(s) = Len(t) + 1 /\ ~(i <= Len(s)) /\ i \in 1..(Len(s) + (Len(t) + 1))
      BY <1>5, <2>3
    <3> QED
      BY Zenon, <1>2, <1>3, <1>4, <2>3, <3>1
  <2> QED
    BY <1>5, <2>1, <2>2, <2>3
<1>7. Len(s) + (Len(t) + 1) = Len(s) + Len(t) + 1
  BY <1>5
<1> DEFINE u == Append(s \o t, c)
           v == s \o Append(t, c)
<1>8. u \in Seq(V) /\ v \in Seq(V) /\ Len(u) = Len(v) /\ \A i \in 1..Len(u) : u[i] = v[i]
  BY Zenon, <1>3, <1>4, <1>6, <1>7
<1>9. u = v
  <2> HIDE DEF u, v
  <2> QED
    BY ONLY Zenon, <1>8, SeqEqual
<1> QED
  BY ONLY Zenon, <1>9 DEF AppendsBehind

(***************************************************************************)
(* A ring with a window of a elements from i, behind it one of d from j,   *)
(* and behind that a free place k; the counters i, j and k may have        *)
(* wrapped at M.  What storing c at k makes of the two windows.            *)
(***************************************************************************)
StoreOK(V, f, g, i, j, k, a, d, S, M, c) ==
  /\ Window(g, i, a, S) = Window(f, i, a, S)
  /\ Window(g, j, d + 1, S) = Append(Window(f, j, d, S), c)
  /\ Window(g, i, a + d + 1, S) = Window(f, i, a, S) \o Append(Window(f, j, d, S), c)

LEMMA RingStore ==
  ASSUME NEW S \in Nat \ {0}, NEW M \in Int, M % S = 0, NEW V, NEW f \in [0..S-1 -> V],
         NEW i \in Int, NEW j \in Int, NEW k \in Int, NEW a \in Nat, NEW d \in Nat,
         a + d < S, j = i + a \/ i + a = j + M, k = j + d \/ j + d = k + M,
         k = i + a + d \/ i + a + d = k + M, NEW c \in V, NEW g,
         g = [f EXCEPT ![k % S] = c]
  PROVE  StoreOK(V, f, g, i, j, k, a, d, S, M, c)
<1>1. (j + d) % S = k % S /\ (i + a + d) % S = k % S
  <2>1. (k + M) % S = k % S
    BY Zenon, ModPeriod
  <2> QED
    BY Zenon, <2>1
<1>2. k % S \in 0..(S-1)
  BY Zenon, ModTurn
<1>3. Window(g, i, a, S) = Window(f, i, a, S)
  <2> DEFINE x == i + a + d
  <2>1. x \in Int /\ x >= i + a /\ x < i + S
    OBVIOUS
  <2>2. \A y \in 0..(S-1) : y # x % S => g[y] = f[y]
    BY Zenon, <1>1, <1>2
  <2> HIDE DEF x
  <2>3. Keeps(f, g, i, a, x, S)
    BY ONLY Zenon, S \in Nat \ {0}, i \in Int, a \in Nat, <2>1, <2>2, WindowKeep
  <2> QED
    BY ONLY Zenon, <2>3 DEF Keeps
<1>4. Window(g, j, d + 1, S) = Append(Window(f, j, d, S), c)
  <2>1. d < S
    OBVIOUS
  <2>2. Window([f EXCEPT ![(j + d) % S] = c], j, d + 1, S) = Append(Window(f, j, d, S), c)
    <3>1. Puts(V, f, j, d, S, c)
      BY ONLY Zenon, S \in Nat \ {0}, f \in [0..S-1 -> V], j \in Int, d \in Nat, c \in V, <2>1, WindowPut
    <3> QED
      BY ONLY Zenon, <3>1 DEF Puts
  <2>3. [f EXCEPT ![(j + d) % S] = c] = g
    BY Zenon, <1>1
  <2> QED
    BY ONLY Zenon, <2>2, <2>3
<1>5. Window(g, i, a + d + 1, S) = Append(Window(f, i, a + d, S), c)
  <2> DEFINE b == a + d
  <2>1. b \in Nat /\ b < S /\ (i + b) % S = k % S
    <3>1. i + b = i + a + d
      OBVIOUS
    <3> QED
      BY <1>1, <3>1
  <2>2. [f EXCEPT ![(i + b) % S] = c] = g
    BY Zenon, <2>1
  <2> HIDE DEF b
  <2>3. Window([f EXCEPT ![(i + b) % S] = c], i, b + 1, S) = Append(Window(f, i, b, S), c)
    <3>1. Puts(V, f, i, b, S, c)
      BY ONLY Zenon, S \in Nat \ {0}, f \in [0..S-1 -> V], i \in Int, c \in V, <2>1, WindowPut
    <3> QED
      BY ONLY Zenon, <3>1 DEF Puts
  <2>4. Window(g, i, b + 1, S) = Append(Window(f, i, b, S), c)
    BY ONLY Zenon, <2>2, <2>3
  <2> QED
    BY ONLY Zenon, <2>4 DEF b
<1>6. Window(f, i, a + d, S) = Window(f, i, a, S) \o Window(f, j, d, S)
  <2> DEFINE x == i + a
  <2>1. Window(f, i, a, S) \o Window(f, i + a, d, S) = Window(f, i, a + d, S)
    <3>1. Joins(V, f, i, a, d, S)
      BY ONLY Zenon, S \in Nat \ {0}, f \in [0..S-1 -> V], i \in Int, a \in Nat, d \in Nat, WindowJoin
    <3> QED
      BY ONLY Zenon, <3>1 DEF Joins
  <2>2. x \in Int /\ (x = j \/ x = j + M)
    OBVIOUS
  <2> HIDE DEF x
  <2>3. Window(f, x, d, S) = Window(f, j, d, S)
    <3>1. Shifts(f, x, j, d, S, M)
      BY ONLY Zenon, S \in Nat \ {0}, j \in Int, d \in Nat, M \in Int, M % S = 0, <2>2, WindowShift
    <3> QED
      BY ONLY Zenon, <3>1 DEF Shifts
  <2> QED
    BY ONLY Zenon, <2>1, <2>3 DEF x
<1>7. Append(Window(f, i, a, S) \o Window(f, j, d, S), c)
        = Window(f, i, a, S) \o Append(Window(f, j, d, S), c)
  <2> DEFINE s == Window(f, i, a, S)
             t == Window(f, j, d, S)
  <2>1. s \in Seq(V) /\ t \in Seq(V)
    BY ONLY Zenon, S \in Nat \ {0}, f \in [0..S-1 -> V], i \in Int, j \in Int, a \in Nat, d \in Nat,
            WindowSeq DEF WindowOK
  <2> HIDE DEF s, t
  <2>2. Append(s \o t, c) = s \o Append(t, c)
    <3>1. AppendsBehind(V, s, t, c)
      BY ONLY Zenon, <2>1, c \in V, AppendConcat
    <3> QED
      BY ONLY Zenon, <3>1 DEF AppendsBehind
  <2> QED
    BY ONLY Zenon, <2>2 DEF s, t
<1> QED
  BY ONLY Zenon, <1>3, <1>4, <1>5, <1>6, <1>7 DEF StoreOK
-----------------------------------------------------------------------------
Chars == {"a", "nl", "^D"}

(* One index, and the distance of two, without the remainders.             *)
LEMMA Indices ==
  ASSUME ConsoleConstants
  PROVE  /\ \A i, j \in 0..(IDX_MOD-1) :
              Diff(i, j) = IF i >= j THEN i - j ELSE i - j + IDX_MOD
         /\ \A i \in 0..(IDX_MOD-1) : Inc(i) = IF i + 1 < IDX_MOD THEN i + 1 ELSE 0
         /\ \A i \in 0..(IDX_MOD-1) : Dec(i) = IF i >= 1 THEN i - 1 ELSE IDX_MOD - 1
  BY Zenon, Wrap DEF ConsoleConstants, Diff, Inc, Dec

(* The same in the forms the steps need: r, w and e follow each other.     *)
LEMMA Distances ==
  ASSUME ConsoleConstants, NEW x \in 0..(IDX_MOD-1), NEW y \in 0..(IDX_MOD-1),
         NEW z \in 0..(IDX_MOD-1), Diff(y, x) + Diff(z, y) <= INPUT_BUF_SIZE
  PROVE  /\ Diff(y, x) \in Nat /\ Diff(z, y) \in Nat
         /\ Diff(z, x) = Diff(y, x) + Diff(z, y)
         /\ z = y <=> Diff(z, y) = 0
         /\ y = x <=> Diff(y, x) = 0
         /\ Inc(z) \in 0..(IDX_MOD-1) /\ Inc(x) \in 0..(IDX_MOD-1) /\ Dec(z) \in 0..(IDX_MOD-1)
         /\ Diff(z, x) < INPUT_BUF_SIZE =>
              Diff(Inc(z), y) = Diff(z, y) + 1 /\ Diff(Inc(z), x) = Diff(z, x) + 1
         /\ z # y => Diff(Dec(z), y) = Diff(z, y) - 1
         /\ y # x => Diff(y, Inc(x)) = Diff(y, x) - 1
         /\ Diff(z, z) = 0 /\ Diff(Inc(z), Inc(z)) = 0
<1>1. IDX_MOD \in Nat \ {0} /\ INPUT_BUF_SIZE \in Nat \ {0} /\ IDX_MOD > INPUT_BUF_SIZE
  BY Zenon DEF ConsoleConstants
<1>2. /\ Inc(z) = IF z + 1 < IDX_MOD THEN z + 1 ELSE 0
      /\ Inc(x) = IF x + 1 < IDX_MOD THEN x + 1 ELSE 0
      /\ Dec(z) = IF z >= 1 THEN z - 1 ELSE IDX_MOD - 1
  BY Zenon, Indices
<1>3. Inc(z) \in 0..(IDX_MOD-1) /\ Inc(x) \in 0..(IDX_MOD-1) /\ Dec(z) \in 0..(IDX_MOD-1)
  BY <1>1, <1>2
<1>4. /\ Diff(y, x) = IF y >= x THEN y - x ELSE y - x + IDX_MOD
      /\ Diff(z, y) = IF z >= y THEN z - y ELSE z - y + IDX_MOD
      /\ Diff(z, x) = IF z >= x THEN z - x ELSE z - x + IDX_MOD
      /\ Diff(z, z) = z - z
      /\ Diff(Inc(z), Inc(z)) = Inc(z) - Inc(z)
      /\ Diff(Inc(z), y) = IF Inc(z) >= y THEN Inc(z) - y ELSE Inc(z) - y + IDX_MOD
      /\ Diff(Inc(z), x) = IF Inc(z) >= x THEN Inc(z) - x ELSE Inc(z) - x + IDX_MOD
      /\ Diff(Dec(z), y) = IF Dec(z) >= y THEN Dec(z) - y ELSE Dec(z) - y + IDX_MOD
      /\ Diff(y, Inc(x)) = IF y >= Inc(x) THEN y - Inc(x) ELSE y - Inc(x) + IDX_MOD
  BY <1>3, Indices
<1>5. /\ Diff(y, x) \in Nat /\ Diff(z, y) \in Nat
      /\ z = y <=> Diff(z, y) = 0
      /\ y = x <=> Diff(y, x) = 0
  BY <1>1, <1>4
<1>6. Diff(z, x) = Diff(y, x) + Diff(z, y)
  BY <1>1, <1>4
<1>7. Diff(z, x) < INPUT_BUF_SIZE =>
              Diff(Inc(z), y) = Diff(z, y) + 1 /\ Diff(Inc(z), x) = Diff(z, x) + 1
  BY <1>1, <1>2, <1>3, <1>4, <1>5, <1>6
<1>8. z # y => Diff(Dec(z), y) = Diff(z, y) - 1
  BY <1>1, <1>2, <1>3, <1>4
<1>9. y # x => Diff(y, Inc(x)) = Diff(y, x) - 1
  BY <1>1, <1>2, <1>3, <1>4
<1> QED
  BY <1>3, <1>4, <1>5, <1>6, <1>7, <1>8, <1>9

(* The ring in a state of the invariant, in terms of its two windows.      *)
LEMMA State ==
  ASSUME ConsoleConstants, TypeOK, RingInv
  PROVE  /\ Diff(w, r) \in Nat /\ Diff(e, w) \in Nat /\ Diff(e, r) = Diff(w, r) + Diff(e, w)
         /\ r = w <=> Diff(w, r) = 0
         /\ e = w <=> Diff(e, w) = 0
         /\ Slice(r, w) = Window(buf, r, Diff(w, r), INPUT_BUF_SIZE)
         /\ Slice(w, e) = Window(buf, w, Diff(e, w), INPUT_BUF_SIZE)
         /\ Slice(r, w) \in Seq(Chars) /\ Len(Slice(r, w)) = Diff(w, r)
         /\ Slice(w, e) \in Seq(Chars) /\ Len(Slice(w, e)) = Diff(e, w)
<1>1. r \in 0..(IDX_MOD-1) /\ w \in 0..(IDX_MOD-1) /\ e \in 0..(IDX_MOD-1)
  BY Zenon DEF TypeOK
<1>2. Diff(w, r) + Diff(e, w) <= INPUT_BUF_SIZE
  BY Zenon DEF RingInv
<1>3. /\ Diff(w, r) \in Nat /\ Diff(e, w) \in Nat /\ Diff(e, r) = Diff(w, r) + Diff(e, w)
      /\ r = w <=> Diff(w, r) = 0
      /\ e = w <=> Diff(e, w) = 0
  BY <1>1, <1>2, Distances
<1>4. /\ Slice(r, w) = Window(buf, r, Diff(w, r), INPUT_BUF_SIZE)
      /\ Slice(w, e) = Window(buf, w, Diff(e, w), INPUT_BUF_SIZE)
  BY Zenon DEF Slice, Window, At
<1>5. \A i \in Int, d \in Nat : WindowOK(Chars, buf, i, d, INPUT_BUF_SIZE)
  BY Zenon, WindowSeq DEF TypeOK, ConsoleConstants, Chars
<1>6. r \in Int /\ w \in Int
  BY <1>1 DEF ConsoleConstants
<1> QED
  BY ZenonT(40), <1>3, <1>4, <1>5, <1>6 DEF WindowOK

(* The same for the state after a step.                                    *)
LEMMA NewState ==
  /\ Slice(r, w)' = Window(buf', r', Diff(w', r'), INPUT_BUF_SIZE)
  /\ Slice(w, e)' = Window(buf', w', Diff(e', w'), INPUT_BUF_SIZE)
  /\ RingInv' <=>
       /\ Diff(w', r') + Diff(e', w') <= INPUT_BUF_SIZE
       /\ Diff(w', r') + Diff(e', w') = INPUT_BUF_SIZE => e' = w'
       /\ \A k \in 1..Diff(e', w') : Slice(w, e)'[k] = "a"
<1>1. /\ Slice(r, w)' = Window(buf', r', Diff(w', r'), INPUT_BUF_SIZE)
      /\ Slice(w, e)' = Window(buf', w', Diff(e', w'), INPUT_BUF_SIZE)
  BY Zenon DEF Slice, Window, At, Diff
<1>2. RingInv' <=>
       /\ Diff(w', r') + Diff(e', w') <= INPUT_BUF_SIZE
       /\ Diff(w', r') + Diff(e', w') = INPUT_BUF_SIZE => e' = w'
       /\ \A k \in 1..Diff(e', w') : Slice(w, e)'[k] = "a"
  BY Zenon DEF RingInv, Diff
<1> QED
  BY Zenon, <1>1, <1>2

(* The indices are the ends of the windows, up to one turn of IDX_MOD.     *)
LEMMA Counters ==
  ASSUME ConsoleConstants, TypeOK, RingInv
  PROVE  /\ w = r + Diff(w, r) \/ r + Diff(w, r) = w + IDX_MOD
         /\ e = w + Diff(e, w) \/ w + Diff(e, w) = e + IDX_MOD
         /\ \/ e = r + Diff(w, r) + Diff(e, w)
            \/ r + Diff(w, r) + Diff(e, w) = e + IDX_MOD
<1>1. r \in 0..(IDX_MOD-1) /\ w \in 0..(IDX_MOD-1) /\ e \in 0..(IDX_MOD-1)
  BY Zenon DEF TypeOK
<1>2. /\ Diff(w, r) = IF w >= r THEN w - r ELSE w - r + IDX_MOD
      /\ Diff(e, w) = IF e >= w THEN e - w ELSE e - w + IDX_MOD
      /\ Diff(e, r) = IF e >= r THEN e - r ELSE e - r + IDX_MOD
  BY Zenon, <1>1, Indices
<1>3. Diff(e, r) = Diff(w, r) + Diff(e, w)
  BY Zenon, State
<1>4. IDX_MOD \in Nat
  BY Zenon DEF ConsoleConstants
<1> QED
  BY ONLY <1>1, <1>2, <1>3, <1>4

(* consoleintr() stores a character: it goes behind the line being edited, *)
(* into no place of a character that waits, and may complete the line.     *)
LEMMA Stored ==
  ASSUME ConsoleConstants, TypeOK, RingInv, NEW c \in Chars,
         Diff(e, r) < INPUT_BUF_SIZE, buf' = [buf EXCEPT ![e % INPUT_BUF_SIZE] = c],
         e' = Inc(e), r' = r, w' = IF LineDone(c, Inc(e)) THEN Inc(e) ELSE w
  PROVE  RingInv' /\ Lines!Type(c)
<1> DEFINE S == INPUT_BUF_SIZE
           M == IDX_MOD
           f == buf
           g == buf'
           a == Diff(w, r)
           d == Diff(e, w)
           i == r
           j == w
           k == e
           s == Slice(r, w)
           t == Slice(w, e)
<1>1. /\ S \in Nat \ {0} /\ M \in Int /\ M % S = 0 /\ f \in [0..S-1 -> Chars]
      /\ i \in Int /\ j \in Int /\ k \in Int
  BY DEF ConsoleConstants, TypeOK, Chars
<1>2. /\ a \in Nat /\ d \in Nat /\ Diff(e, r) = a + d
      /\ s = Window(f, i, a, S) /\ t = Window(f, j, d, S)
      /\ s \in Seq(Chars) /\ t \in Seq(Chars) /\ Len(s) = a /\ Len(t) = d
  BY Zenon, State
<1>3. /\ j = i + a \/ i + a = j + M
      /\ k = j + d \/ j + d = k + M
      /\ k = i + a + d \/ i + a + d = k + M
  BY Zenon, Counters
<1>4. a + d < S
  BY Zenon, <1>2
<1>5. g = [f EXCEPT ![k % S] = c] /\ c \in Chars
  BY Zenon
<1>6. g \in [0..S-1 -> Chars]
  BY Zenon, <1>1, <1>5
<1>7. StoreOK(Chars, f, g, i, j, k, a, d, S, M, c)
  <2> HIDE DEF S, M, f, g, i, j, k, a, d, s, t
  <2> QED
    BY ONLY Zenon, <1>1, <1>2, <1>3, <1>4, <1>5, RingStore
<1>8. /\ Window(g, r, a, S) = s
      /\ Window(g, w, d + 1, S) = Append(t, c)
      /\ Window(g, r, a + d + 1, S) = s \o Append(t, c)
  BY ONLY Zenon, <1>2, <1>7 DEF StoreOK
<1>9. /\ Diff(Inc(e), w) = d + 1 /\ Diff(Inc(e), r) = a + d + 1
      /\ Diff(Inc(e), Inc(e)) = 0 /\ Inc(e) \in 0..(IDX_MOD-1)
  BY <1>2, Distances DEF TypeOK, RingInv
<1>10. /\ Append(t, c) \in Seq(Chars) /\ Len(Append(t, c)) = d + 1
       /\ \A x \in 1..d : Append(t, c)[x] = t[x]
       /\ Append(t, c)[d + 1] = c
  BY ONLY <1>2, <1>5, AppendProperties
<1>11. \A x \in 1..d : t[x] = "a"
  BY Zenon DEF RingInv
<1>12. CASE LineDone(c, Inc(e))
  <2>1. Diff(w', r') = a + d + 1 /\ Diff(e', w') = 0 /\ w' = e'
    BY Zenon, <1>9, <1>12
  <2>2. Slice(r, w)' = s \o Append(t, c)
    BY ONLY Zenon, <1>8, <2>1, NewState, r' = r
  <2>3. Slice(w, e)' = <<>>
    <3>1. Window(g, w', 0, S) = <<>>
      <4>1. w' \in Int
        BY <1>1, <1>9, <1>12 DEF ConsoleConstants
      <4> DEFINE x == w'
      <4> HIDE DEF S, g, x
      <4>2. x \in Int
        BY ONLY Zenon, <4>1 DEF x
      <4>3. Window(g, x, 0, S) = <<>>
        BY ONLY Zenon, <1>1, <1>6, <4>2, WindowEmpty
      <4> QED
        BY ONLY Zenon, <4>3 DEF x
    <3> QED
      BY ONLY Zenon, <3>1, <2>1, NewState
  <2>4. RingInv'
    BY ONLY <1>1, <1>2, <1>4, <2>1, NewState
  <2>5. ~(c = "a" /\ Len(s) + Len(Append(t, c)) < S)
    <3>1. c \in {"nl", "^D"} \/ a + d + 1 = S
      BY ONLY Zenon, <1>9, <1>12 DEF LineDone
    <3> QED
      BY ONLY <1>1, <1>2, <1>10, <3>1
  <2> QED
    BY ONLY Zenon, <1>2, <1>4, <2>2, <2>3, <2>4, <2>5 DEF Lines!Type
<1>13. CASE ~LineDone(c, Inc(e))
  <2>0. c = "a" /\ a + d + 1 # S
    BY ONLY Zenon, <1>5, <1>9, <1>13 DEF LineDone, Chars
  <2>1. Diff(w', r') = a /\ Diff(e', w') = d + 1 /\ w' = w
    BY Zenon, <1>9, <1>13
  <2>2. Slice(r, w)' = s
    BY ONLY Zenon, <1>8, <2>1, NewState, r' = r
  <2>3. Slice(w, e)' = Append(t, c)
    BY ONLY Zenon, <1>8, <2>1, NewState
  <2>4. \A x \in 1..(d + 1) : Append(t, c)[x] = "a"
    BY ONLY <1>2, <1>10, <1>11, <2>0
  <2>5. a + (d + 1) < S
    <3> HIDE DEF a, d, S
    <3> QED
      BY ONLY <1>1, <1>2, <1>4, <2>0
  <2>6. RingInv'
    <3>1. a + (d + 1) <= S /\ a + (d + 1) # S
      <4> HIDE DEF a, d, S
      <4> QED
        BY ONLY <1>1, <1>2, <2>5
    <3>2. \A x \in 1..(d + 1) : Slice(w, e)'[x] = "a"
      BY ONLY Zenon, <2>3, <2>4
    <3> QED
      BY ONLY Zenon, <2>1, <3>1, <3>2, NewState
  <2>7. c = "a" /\ Len(s) + Len(Append(t, c)) < S
    BY ONLY Zenon, <1>2, <1>10, <2>0, <2>5
  <2> QED
    BY ONLY Zenon, <1>2, <1>4, <2>2, <2>3, <2>6, <2>7 DEF Lines!Type
<1> QED
  BY Zenon, <1>12, <1>13

(* Control-U: the line being edited has no newline, so all of it goes.     *)
LEMMA LineKilled ==
  ASSUME ConsoleConstants, TypeOK, RingInv, e' = KillLine, UNCHANGED <<buf, r, w>>
  PROVE  e' = w /\ RingInv' /\ Lines!Kill
<1> DEFINE S == INPUT_BUF_SIZE
           d == Diff(e, w)
<1>1. /\ S \in Nat \ {0} /\ IDX_MOD \in Nat \ {0} /\ IDX_MOD % S = 0
      /\ buf \in [0..S-1 -> Chars] /\ w \in 0..(IDX_MOD-1) /\ e \in 0..(IDX_MOD-1)
      /\ w \in Int /\ e \in Int /\ Diff(w, r) + d <= S
  BY DEF ConsoleConstants, TypeOK, Chars, RingInv
<1>2. d \in Nat /\ Diff(w, r) \in Nat /\ Slice(w, e) = Window(buf, w, d, S)
  BY Zenon, State
<1>3. e = w + d \/ w + d = e + IDX_MOD
  BY Zenon, Counters
<1>4. \A k \in 1..d : Slice(w, e)[k] = buf[(w + k - 1) % S]
  BY Zenon, <1>2 DEF Window
<1>5. ASSUME NEW k \in 0..d, k # d PROVE At(e - k - 1) = "a"
  <2> DEFINE x == e - k - 1
             y == d - k
  <2>1. y \in 1..d /\ x \in Int /\ (x = w + y - 1 \/ w + y - 1 = x + IDX_MOD)
    <3> HIDE DEF d, S
    <3> QED
      BY ONLY <1>1, <1>2, <1>3, <1>5, k \in 0..d
  <2>2. (x + IDX_MOD) % S = x % S
    <3>1. x \in Int /\ S \in Nat \ {0} /\ IDX_MOD \in Int /\ IDX_MOD % S = 0
      BY ONLY <1>1, <2>1
    <3> HIDE DEF x, S
    <3> QED
      BY ONLY Zenon, <3>1, ModPeriod
  <2>3. (w + y - 1) % S = x % S
    <3> HIDE DEF x, y, S
    <3> QED
      BY ONLY Zenon, <2>1, <2>2
  <2>4. Slice(w, e)[y] = "a"
    BY ONLY Zenon, RingInv, <2>1 DEF RingInv
  <2>5. Slice(w, e)[y] = buf[x % S]
    <3> HIDE DEF x, y, S, d
    <3> QED
      BY ONLY Zenon, <1>4, <2>1, <2>3
  <2> QED
    BY ONLY Zenon, <2>4, <2>5 DEF At
<1>6. Killed = d
  <2>1. {k \in 0..d : k = d \/ At(e - k - 1) = "nl"} = {d}
    <3> HIDE DEF d
    <3> QED
      BY ONLY <1>2, <1>5
  <2>2. Min({d}) = d
    <3> HIDE DEF d
    <3> QED
      BY ONLY <1>2 DEF Min
  <2> QED
    BY ONLY Zenon, <2>1, <2>2 DEF Killed
<1>7. KillLine = w
  <2>1. (e - d) % IDX_MOD = w
    <3>1. e - d = w \/ e - d = w - IDX_MOD
      <4> HIDE DEF d
      <4> QED
        BY ONLY <1>1, <1>2, <1>3
    <3>2. w % IDX_MOD = w /\ (w - IDX_MOD) % IDX_MOD = w
      <4>1. w = 0 * IDX_MOD + w /\ w - IDX_MOD = (-1) * IDX_MOD + w
        BY ONLY <1>1
      <4>2. \A x, q \in Int : x = q * IDX_MOD + w => x % IDX_MOD = w
        BY ONLY <1>1, ModUnique
      <4>3. w - IDX_MOD \in Int /\ -1 \in Int /\ 0 \in Int /\ w \in Int
        BY ONLY <1>1
      <4> QED
        BY ONLY Zenon, <4>1, <4>2, <4>3
    <3> QED
      BY ONLY Zenon, <3>1, <3>2
  <2> QED
    BY ONLY Zenon, <1>6, <2>1 DEF KillLine
<1>8. /\ e' = w /\ w' = w /\ r' = r /\ buf' = buf
      /\ Diff(w', r') = Diff(w, r) /\ Diff(e', w') = 0
  <2>1. Diff(w, w) = w - w
    BY ONLY ConsoleConstants, <1>1, Indices
  <2> QED
    BY <1>1, <1>7, <2>1
<1>9. Window(buf, w, 0, S) = <<>>
  <2> HIDE DEF S
  <2> QED
    BY ONLY Zenon, <1>1, WindowEmpty
<1>10. Slice(w, e)' = <<>> /\ Slice(r, w)' = Slice(r, w)
  BY ONLY Zenon, <1>8, <1>9, NewState, State, ConsoleConstants, TypeOK, RingInv
<1>11. RingInv'
  BY ONLY <1>1, <1>2, <1>8, NewState
<1> QED
  BY ONLY Zenon, <1>8, <1>10, <1>11 DEF Lines!Kill

(* Backspace takes the last character of the line being edited.            *)
LEMMA Erased ==
  ASSUME ConsoleConstants, TypeOK, RingInv, e # w, e' = Dec(e), UNCHANGED <<buf, r, w>>
  PROVE  RingInv' /\ Lines!Backspace
<1> DEFINE S == INPUT_BUF_SIZE
           d == Diff(e, w)
           m == d - 1
           t == Slice(w, e)
<1>1. S \in Nat \ {0} /\ buf \in [0..S-1 -> Chars] /\ w \in Int /\ Diff(w, r) + d <= S
  BY DEF ConsoleConstants, TypeOK, Chars, RingInv
<1>2. /\ d \in Nat /\ d # 0 /\ Diff(w, r) \in Nat /\ t = Window(buf, w, d, S)
      /\ t \in Seq(Chars) /\ Len(t) = d
  BY Zenon, State
<1>3. m \in 0..d /\ m \in Nat /\ Diff(w, r) + m < S
  <2> HIDE DEF d, S
  <2> QED
    BY ONLY <1>1, <1>2
<1>4. /\ w' = w /\ r' = r /\ buf' = buf /\ Diff(w', r') = Diff(w, r) /\ Diff(e', w') = m
  BY Distances DEF TypeOK, RingInv
<1>5. SubSeq(t, 1, m) = Window(buf, w, m, S)
  <2>1. HasPrefix(Chars, buf, w, d, m, S)
    <3> HIDE DEF S, d, m
    <3> QED
      BY ONLY Zenon, <1>1, <1>2, <1>3, WindowPrefix
  <2> QED
    BY ONLY Zenon, <1>2, <2>1 DEF HasPrefix
<1>6. Slice(w, e)' = SubSeq(t, 1, m) /\ Slice(r, w)' = Slice(r, w)
  BY ONLY Zenon, <1>4, <1>5, NewState, State, ConsoleConstants, TypeOK, RingInv
<1>7. \A k \in 1..m : Slice(w, e)'[k] = "a"
  <2>1. \A k \in 1..m : Slice(w, e)'[k] = buf[(w + k - 1) % S]
    BY ONLY Zenon, <1>5, <1>6 DEF Window
  <2>2. \A k \in 1..d : t[k] = buf[(w + k - 1) % S]
    BY ONLY Zenon, <1>2 DEF Window
  <2>3. \A k \in 1..d : t[k] = "a"
    BY Zenon DEF RingInv
  <2>4. \A k \in 1..m : k \in 1..d
    <3> HIDE DEF d
    <3> QED
      BY ONLY <1>2
  <2> QED
    BY ONLY Zenon, <2>1, <2>2, <2>3, <2>4
<1>8. RingInv'
  <2>1. Diff(w, r) + m <= S /\ Diff(w, r) + m # S
    <3> HIDE DEF m, S
    <3> QED
      BY ONLY <1>1, <1>2, <1>3
  <2> QED
    BY ONLY Zenon, <1>4, <1>7, <2>1, NewState
<1>9. t # <<>>
  BY ONLY Zenon, <1>2, EmptySeq
<1> QED
  BY ONLY Zenon, <1>2, <1>6, <1>8, <1>9 DEF Lines!Backspace

(* consoleread() takes the first character of the complete lines.          *)
LEMMA Taken ==
  ASSUME ConsoleConstants, TypeOK, RingInv, r # w, r' = Inc(r), UNCHANGED <<buf, w, e>>
  PROVE  RingInv' /\ Lines!Read
<1> DEFINE S == INPUT_BUF_SIZE
           M == IDX_MOD
           a == Diff(w, r)
           m == a - 1
           i == r + 1
           j == r'
           s == Slice(r, w)
<1>1. /\ S \in Nat \ {0} /\ M \in Nat \ {0} /\ M \in Int /\ M % S = 0
      /\ buf \in [0..S-1 -> Chars] /\ r \in 0..(M-1) /\ r \in Int /\ a + Diff(e, w) <= S
  BY DEF ConsoleConstants, TypeOK, Chars, RingInv
<1>2. /\ a \in Nat /\ a # 0 /\ Diff(e, w) \in Nat /\ s = Window(buf, r, a, S)
  BY Zenon, State
<1>3. a \in Nat \ {0} /\ m \in Nat /\ m + Diff(e, w) < S
  <2> HIDE DEF a, S
  <2> QED
    BY ONLY <1>1, <1>2
<1>4. /\ w' = w /\ e' = e /\ buf' = buf /\ Diff(e', w') = Diff(e, w) /\ Diff(w', r') = m
  BY ZenonT(40), Distances DEF TypeOK, RingInv
<1>5. s # <<>> /\ Tail(s) = Window(buf, i, m, S)
  <2>1. HasTail(Chars, buf, r, a, S)
    <3> HIDE DEF S, a
    <3> QED
      BY ONLY Zenon, <1>1, <1>3, WindowTail
  <2> QED
    BY ONLY Zenon, <1>2, <2>1 DEF HasTail
<1>6. Window(buf, i, m, S) = Window(buf, j, m, S)
  <2>1. i \in Int /\ j \in Int /\ (i = j \/ i = j + M \/ j = i + M)
    <3>1. Inc(r) = IF r + 1 < M THEN r + 1 ELSE 0
      BY ONLY Zenon, ConsoleConstants, <1>1, Indices
    <3>2. j = Inc(r)
      BY Zenon
    <3> QED
      BY ONLY <1>1, <3>1, <3>2
  <2>2. Shifts(buf, i, j, m, S, M)
    <3> HIDE DEF S, M, i, j, m
    <3> QED
      BY ONLY Zenon, <1>1, <1>3, <2>1, WindowShift
  <2> QED
    BY ONLY Zenon, <2>2 DEF Shifts
<1>7. Slice(r, w)' = Tail(s) /\ Slice(w, e)' = Slice(w, e)
  BY ONLY Zenon, <1>4, <1>5, <1>6, NewState, State, ConsoleConstants, TypeOK, RingInv
<1>8. RingInv'
  <2>1. m + Diff(e, w) <= S /\ m + Diff(e, w) # S
    <3> HIDE DEF m, S
    <3> QED
      BY ONLY <1>1, <1>2, <1>3
  <2>2. \A k \in 1..Diff(e, w) : Slice(w, e)'[k] = "a"
    BY ONLY Zenon, RingInv, <1>7 DEF RingInv
  <2> QED
    BY ONLY Zenon, <1>4, <2>1, <2>2, NewState
<1> QED
  BY ONLY Zenon, <1>5, <1>7, <1>8 DEF Lines!Read

(* A step that leaves the ring alone.                                      *)
LEMMA RingKept ==
  ASSUME UNCHANGED ring
  PROVE  /\ RingInv => RingInv'
         /\ UNCHANGED <<Slice(r, w), Slice(w, e)>>
  BY Zenon DEF ring, RingInv, Slice, At, Diff
-----------------------------------------------------------------------------
(* One step of the line buffer, or none.                                   *)
LineStep == [Lines!Next]_<<Slice(r, w), Slice(w, e)>>

LEMMA InitInv == ASSUME ConsoleConstants, Init PROVE ConsInv /\ Lines!Init
<1>1. TypeOK /\ ReadInv
  BY DEF Init, ConsoleConstants, TypeOK, ReadInv
<1>2. Diff(0, 0) = 0
  BY Indices DEF ConsoleConstants
<1>3. Diff(w, r) = 0 /\ Diff(e, w) = 0 /\ e = w
  BY Zenon, <1>2 DEF Init
<1>4. RingInv
  BY <1>3 DEF RingInv, ConsoleConstants
<1>5. /\ Slice(r, w) \in Seq(Chars) /\ Len(Slice(r, w)) = 0
      /\ Slice(w, e) \in Seq(Chars) /\ Len(Slice(w, e)) = 0
  BY Zenon, <1>1, <1>3, <1>4, State
<1> QED
  BY Zenon, <1>1, <1>4, <1>5, EmptySeq DEF ConsInv, Lines!Init

(* consoleintr(): the four things a typed character does to the ring.      *)
LEMMA IntrRing ==
  ASSUME ConsoleConstants, ConsInv, NEW c \in Typed, consoleintr(c)
  PROVE  RingInv' /\ LineStep
<1>0. TypeOK /\ RingInv
  BY Zenon DEF ConsInv
<1>1. CASE UNCHANGED ring
  BY Zenon, <1>0, <1>1, RingKept DEF LineStep
<1>2. CASE c = "^U" /\ e' = KillLine /\ UNCHANGED <<buf, r, w>>
  <2>1. RingInv' /\ Lines!Kill
    BY Zenon, <1>0, <1>2, LineKilled
  <2> QED
    BY Zenon, <2>1 DEF LineStep, Lines!Next
<1>3. CASE c = "^H" /\ e' = Erase /\ UNCHANGED <<buf, r, w>>
  <2>1. CASE e # w
    <3>1. RingInv' /\ Lines!Backspace
      BY Zenon, <1>0, <1>3, <2>1, Erased DEF Erase
    <3> QED
      BY Zenon, <3>1 DEF LineStep, Lines!Next
  <2>2. CASE e = w
    <3>1. UNCHANGED ring
      BY Zenon, <1>3, <2>2 DEF Erase, ring
    <3> QED
      BY Zenon, <1>0, <3>1, RingKept DEF LineStep
  <2> QED
    BY Zenon, <2>1, <2>2
<1>4. CASE /\ c \in {"a", "nl", "^D"} /\ Diff(e, r) < INPUT_BUF_SIZE
           /\ buf' = [buf EXCEPT ![e % INPUT_BUF_SIZE] = c] /\ e' = Inc(e) /\ r' = r
           /\ w' = IF LineDone(c, Inc(e)) THEN Inc(e) ELSE w
  <2>1. c \in Chars
    BY Zenon, <1>4 DEF Chars
  <2>2. RingInv' /\ Lines!Type(c)
    BY Zenon, <1>0, <1>4, <2>1, Stored
  <2> QED
    BY Zenon, <2>1, <2>2 DEF LineStep, Lines!Next, Chars
<1> QED
  BY Zenon, <1>1, <1>2, <1>3, <1>4 DEF consoleintr, ring

(* It leaves the readers alone, or wakes those that sleep.                 *)
LEMMA IntrInv ==
  ASSUME ConsoleConstants, ConsInv, NEW c \in Typed, consoleintr(c)
  PROVE  TypeOK' /\ ReadInv'
<1>0. TypeOK /\ RingInv /\ ReadInv
  BY Zenon DEF ConsInv
<1>1. lock = NoProc /\ UNCHANGED <<lock, n, target, killed>> /\ r' = r
  BY Zenon DEF consoleintr, ring
<1>2. \/ w' = w /\ pc' = pc
      \/ w' = Inc(e) /\ pc' = consoleintr_wakeup
  BY Zenon DEF consoleintr, ring
<1>3. e' \in 0..(IDX_MOD-1) /\ Inc(e) \in 0..(IDX_MOD-1)
  <2>1. /\ Inc(e) \in 0..(IDX_MOD-1) /\ Dec(e) \in 0..(IDX_MOD-1)
        /\ e \in 0..(IDX_MOD-1) /\ w \in 0..(IDX_MOD-1)
    BY Zenon, <1>0, Distances DEF TypeOK, RingInv
  <2>2. CASE c = "^U"
    <3>1. e' = KillLine /\ UNCHANGED <<buf, r, w>>
      BY Zenon, <2>2 DEF consoleintr
    <3>2. e' = w
      BY Zenon, <1>0, <3>1, LineKilled
    <3> QED
      BY Zenon, <2>1, <3>2
  <2>3. CASE c # "^U"
    <3>1. e' = e \/ e' = Erase \/ e' = Inc(e)
      BY Zenon, <2>3 DEF consoleintr, ring
    <3> QED
      BY Zenon, <2>1, <3>1 DEF Erase
  <2> QED
    BY Zenon, <2>1, <2>2, <2>3
<1>4. buf' \in [0..INPUT_BUF_SIZE-1 -> {"a", "nl", "^D"}]
  <2>1. buf \in [0..INPUT_BUF_SIZE-1 -> {"a", "nl", "^D"}]
    BY Zenon, <1>0 DEF TypeOK
  <2> QED
    BY Zenon, <2>1 DEF consoleintr, ring
<1>5. pc' \in [Readers -> {"idle", "loop", "decided", "sleep", "woken"}]
  BY Zenon, <1>0, <1>2 DEF TypeOK, consoleintr_wakeup
<1>6. TypeOK'
  BY Zenon, <1>0, <1>1, <1>2, <1>3, <1>4, <1>5 DEF TypeOK
<1>7. \A p \in Readers : pc[p] \notin {"loop", "decided"}
  BY Zenon, <1>0, <1>1 DEF ReadInv, ConsoleConstants
<1>8. ReadInv'
  <2>1. CASE w' = w /\ pc' = pc
    BY Zenon, <1>0, <1>1, <2>1 DEF ReadInv
  <2>2. CASE pc' = consoleintr_wakeup
    <3>1. \A p \in Readers : pc'[p] \notin {"loop", "decided", "sleep"}
      BY Zenon, <1>0, <1>7, <2>2 DEF consoleintr_wakeup, TypeOK
    <3> QED
      BY Zenon, <1>0, <1>1, <1>7, <3>1 DEF ReadInv
  <2> QED
    BY Zenon, <1>2, <2>1, <2>2
<1> QED
  BY Zenon, <1>6, <1>8

(* The steps of consoleread() that leave the ring alone, and kill().       *)
LEMMA QuietInv ==
  ASSUME ConsoleConstants, ConsInv, NEW p \in Readers,
         \/ \E k \in Counts : consoleread(p, k)
         \/ consoleread_woken(p) \/ consoleread_wait(p) \/ consoleread_sleep(p)
         \/ consoleread_done(p) \/ kill(p)
  PROVE  ConsInv' /\ UNCHANGED ring
<1>0. TypeOK /\ RingInv /\ ReadInv
  BY Zenon DEF ConsInv
<1>1. UNCHANGED ring
  BY Zenon DEF consoleread, consoleread_woken, consoleread_wait, consoleread_sleep,
         consoleread_done, kill
<1>2. UNCHANGED <<buf, r, w, e>>
  BY Zenon, <1>1 DEF ring
<1>3. RingInv'
  BY Zenon, <1>0, <1>1, RingKept
<1>4. ASSUME NEW k \in Counts, consoleread(p, k) PROVE TypeOK' /\ ReadInv'
  <2>1. k \in Nat
    BY Zenon DEF ConsoleConstants
  <2> QED
    BY <1>0, <1>2, <1>4, <2>1 DEF consoleread, TypeOK, ReadInv, ConsoleConstants
<1>5. ASSUME consoleread_woken(p) PROVE TypeOK' /\ ReadInv'
  BY Zenon, <1>0, <1>2, <1>5 DEF consoleread_woken, TypeOK, ReadInv, ConsoleConstants
<1>6. ASSUME consoleread_wait(p) PROVE TypeOK' /\ ReadInv'
  <2>1. pc[p] = "loop" /\ r = w /\ killed' = killed
    BY Zenon, <1>6 DEF consoleread_wait
  <2>2. CASE pc' = [pc EXCEPT ![p] = "decided"] /\ UNCHANGED <<lock, n, target>>
    BY Zenon, <1>0, <1>2, <2>1, <2>2 DEF TypeOK, ReadInv
  <2>3. CASE Return(p)
    BY <1>0, <1>2, <2>1, <2>3 DEF Return, TypeOK, ReadInv, ConsoleConstants
  <2> QED
    BY Zenon, <1>6, <2>2, <2>3 DEF consoleread_wait
<1>7. ASSUME consoleread_sleep(p) PROVE TypeOK' /\ ReadInv'
  BY Zenon, <1>0, <1>2, <1>7 DEF consoleread_sleep, TypeOK, ReadInv, ConsoleConstants
<1>8. ASSUME consoleread_done(p) PROVE TypeOK' /\ ReadInv'
  BY <1>0, <1>2, <1>8 DEF consoleread_done, Return, TypeOK, ReadInv, ConsoleConstants
<1>9. ASSUME kill(p) PROVE TypeOK' /\ ReadInv'
  BY Zenon, <1>0, <1>2, <1>9 DEF kill, TypeOK, ReadInv
<1> QED
  BY Zenon, <1>1, <1>3, <1>4, <1>5, <1>6, <1>7, <1>8, <1>9 DEF ConsInv

(* One character read: nobody sleeps or is about to, for a line is there.  *)
LEMMA CharInv ==
  ASSUME ConsoleConstants, ConsInv, NEW p \in Readers, consoleread_char(p)
  PROVE  ConsInv' /\ LineStep
<1>0. TypeOK /\ RingInv /\ ReadInv
  BY Zenon DEF ConsInv
<1>1. /\ pc[p] = "loop" /\ r # w /\ n[p] > 0 /\ lock = p
      /\ UNCHANGED <<buf, w, e, killed>> /\ (r' = r \/ r' = Inc(r))
  BY Zenon, <1>0 DEF consoleread_char, ReadInv
<1>2. /\ \/ Return(p)
         \/ n' = [n EXCEPT ![p] = @ - 1] /\ UNCHANGED <<lock, pc, target>>
  BY Zenon DEF consoleread_char
<1>3. RingInv' /\ LineStep
  <2>1. CASE r' = Inc(r)
    <3>1. RingInv' /\ Lines!Read
      BY Zenon, <1>0, <1>1, <2>1, Taken
    <3> QED
      BY Zenon, <3>1 DEF LineStep, Lines!Next
  <2>2. CASE r' = r
    <3>1. UNCHANGED ring
      BY Zenon, <1>1, <2>2 DEF ring
    <3> QED
      BY Zenon, <1>0, <3>1, RingKept DEF LineStep
  <2> QED
    BY Zenon, <1>1, <2>1, <2>2
<1>4. r' \in 0..(IDX_MOD-1)
  BY <1>0, <1>1, Distances DEF TypeOK, RingInv
<1>5. TypeOK'
  <2>1. n' \in [Readers -> Nat] /\ target' \in [Readers -> Nat]
    <3>1. n \in [Readers -> Nat] /\ target \in [Readers -> Nat]
      BY Zenon, <1>0 DEF TypeOK
    <3>2. n[p] - 1 \in Nat
      BY <1>1, <3>1
    <3> QED
      BY <1>2, <3>1, <3>2 DEF Return
  <2>2. /\ lock' \in Readers \cup {NoProc}
        /\ pc' \in [Readers -> {"idle", "loop", "decided", "sleep", "woken"}]
    BY Zenon, <1>0, <1>2 DEF TypeOK, Return
  <2> QED
    BY Zenon, <1>0, <1>1, <1>4, <2>1, <2>2 DEF TypeOK
<1>6. \A q \in Readers : pc[q] \notin {"decided", "sleep"}
  BY Zenon, <1>0, <1>1 DEF ReadInv
<1>7. ReadInv'
  <2>1. CASE Return(p)
    BY <1>0, <1>1, <1>6, <2>1 DEF Return, ReadInv, TypeOK, ConsoleConstants
  <2>2. CASE n' = [n EXCEPT ![p] = @ - 1] /\ UNCHANGED <<lock, pc, target>>
    BY <1>0, <1>1, <1>6, <2>2 DEF ReadInv, TypeOK
  <2> QED
    BY Zenon, <1>2, <2>1, <2>2
<1> QED
  BY Zenon, <1>3, <1>5, <1>7 DEF ConsInv

LEMMA StepInv ==
  ASSUME ConsoleConstants, ConsInv, [Next]_vars
  PROVE  ConsInv' /\ LineStep
<1>1. ASSUME NEW c \in Typed, consoleintr(c) PROVE ConsInv' /\ LineStep
  BY Zenon, <1>1, IntrRing, IntrInv DEF ConsInv
<1>2. ASSUME NEW p \in Readers,
             \/ \E k \in Counts : consoleread(p, k)
             \/ consoleread_woken(p) \/ consoleread_wait(p) \/ consoleread_sleep(p)
             \/ consoleread_done(p) \/ kill(p)
      PROVE  ConsInv' /\ LineStep
  <2>1. ConsInv' /\ UNCHANGED ring
    BY Zenon, <1>2, QuietInv
  <2> QED
    BY Zenon, <2>1, RingKept DEF LineStep
<1>3. ASSUME NEW p \in Readers, consoleread_char(p) PROVE ConsInv' /\ LineStep
  BY Zenon, <1>3, CharInv
<1>4. CASE UNCHANGED vars
  <2>1. UNCHANGED <<ring, lock, pc, n, target, killed>>
    BY Zenon, <1>4 DEF vars
  <2>2. RingInv' /\ LineStep
    BY Zenon, <2>1, RingKept DEF LineStep, ConsInv
  <2>3. TypeOK' /\ ReadInv'
    BY Zenon, <2>1 DEF ConsInv, TypeOK, ReadInv, ring
  <2> QED
    BY Zenon, <2>2, <2>3 DEF ConsInv
<1> QED
  BY Zenon, <1>1, <1>2, <1>3, <1>4 DEF Next, ReaderStep

(***************************************************************************)
(* The ring of cons stays consistent under typing, erasing, reading and    *)
(* kill() for every ring size, any modulus of the indices that is a larger *)
(* multiple of it (2^32 and 128 in the kernel) and any readers.            *)
(***************************************************************************)
THEOREM ConsoleInvariance == ASSUME ConsoleConstants PROVE Spec => []ConsInv
<1>1. Init => ConsInv
  BY Zenon, InitInv
<1>2. ConsInv /\ [Next]_vars => ConsInv'
  BY Zenon, StepInv
<1> QED
  BY <1>1, <1>2, PTL DEF Spec

(***************************************************************************)
(* No reader sleeps in consoleread() beside a complete line, and a full    *)
(* ring is a complete line: consoleintr() never waits for a newline that   *)
(* has no room.                                                            *)
(***************************************************************************)
THEOREM NoSleepBesideALine == ASSUME ConsoleConstants PROVE Spec => []SleepsOnlyWithoutLine
<1>1. ConsInv => SleepsOnlyWithoutLine
  <2> SUFFICES ASSUME ConsInv PROVE SleepsOnlyWithoutLine
    BY Zenon
  <2>1. Diff(e, r) = Diff(w, r) + Diff(e, w)
    BY Zenon, State DEF ConsInv
  <2> QED
    BY Zenon, <2>1 DEF ConsInv, RingInv, ReadInv, SleepsOnlyWithoutLine
<1> QED
  BY <1>1, ConsoleInvariance, PTL

(***************************************************************************)
(* An end-of-file leaves the ring only for a read that has no characters.  *)
(***************************************************************************)
THEOREM EndOfFileEndsARead == ASSUME ConsoleConstants PROVE Spec => EofIsARead
<1> DEFINE EofStep == \A p \in Readers : (r' # r /\ At(r) = "^D" /\ lock = p) => n[p] = target[p]
<1>1. ASSUME ConsInv, [Next]_vars PROVE EofStep
  <2> SUFFICES ASSUME NEW p \in Readers, r' # r, At(r) = "^D", lock = p
               PROVE  n[p] = target[p]
    BY Zenon
  <2>1. PICK q \in Readers : consoleread_char(q)
    BY Zenon, <1>1 DEF Next, ReaderStep, consoleintr, consoleread, consoleread_woken, consoleread_wait,
                consoleread_sleep, consoleread_done, kill, ring, vars
  <2>2. q = p
    BY Zenon, <1>1, <2>1 DEF consoleread_char, ConsInv, ReadInv
  <2>3. ~(n[p] < target[p])
    BY Zenon, <2>1, <2>2 DEF consoleread_char, KeepEof
  <2> QED
    BY <1>1, <2>3 DEF ConsInv, ReadInv, TypeOK
<1>2. ConsInv /\ [Next]_vars => [EofStep]_vars
  BY Zenon, <1>1
<1>3. Spec => [][EofStep]_vars
  <2> HIDE DEF EofStep
  <2> QED
    BY <1>2, ConsoleInvariance, PTL DEF Spec
<1> QED
  BY Zenon, <1>3 DEF EofIsARead

(***************************************************************************)
(* Console input implements the line buffer: complete lines are read in    *)
(* the order typed, erasing reaches only the line being edited, and a      *)
(* character is refused only by a full ring.                               *)
(***************************************************************************)
THEOREM ConsoleIsLineBuffer == ASSUME ConsoleConstants PROVE Spec => ImplementsLineBuffer
<1>1. Init => Lines!Init
  BY Zenon, InitInv
<1>2. ConsInv /\ [Next]_vars => [Lines!Next]_<<Slice(r, w), Slice(w, e)>>
  BY Zenon, StepInv DEF LineStep
<1>3. Spec => Lines!Spec
  BY <1>1, <1>2, ConsoleInvariance, PTL DEF Spec, Lines!Spec
<1> QED
  BY Zenon, <1>3, EndOfFileEndsARead DEF ImplementsLineBuffer
=============================================================================
