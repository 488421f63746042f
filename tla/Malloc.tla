------------------------------- MODULE Malloc -------------------------------
(***************************************************************************)
(* The user-level memory allocator of user/umalloc.c: a circular list of   *)
(* free blocks in address order.  Addresses count header-sized units; the  *)
(* static header base is at address 0, below the heap.                     *)
(***************************************************************************)
EXTENDS Integers, FiniteSets

CONSTANTS
  HDR,        \* sizeof(Header), in bytes
  MINCORE,    \* units that morecore() asks for at least
  MAXBRK,     \* units the process can have; sbrk() fails beyond
  Sizes       \* arguments of malloc(), in bytes

VARIABLES
  heap,     \* ptr and size of every header, freep (-1 is null), the break
  live      \* blocks the program has: address of the header -> bytes asked for

vars == <<heap, live>>

base == 0
Units == 0..MAXBRK

Init ==
  /\ heap = [ptr |-> [a \in Units |-> base], size |-> [a \in Units |-> 0], freep |-> -1, brk |-> 1]
  /\ live = <<>>

(* where free() stops looking: bp lies between p and p->ptr, or p is the   *)
(* last block and bp is beyond either end                                  *)
RECURSIVE Place(_, _, _)
Place(h, p, bp) ==
  IF \/ bp > p /\ bp < h.ptr[p]
     \/ p >= h.ptr[p] /\ (bp > p \/ bp < h.ptr[p])
  THEN p ELSE Place(h, h.ptr[p], bp)

(* mutant: a block is not joined to the free block before it *)
JoinLower_Never(h, p, bp) == [h EXCEPT !.ptr[p] = bp]

JoinLower(h, p, bp) ==
  IF p + h.size[p] = bp
  THEN [h EXCEPT !.size[p] = @ + h.size[bp], !.ptr[p] = h.ptr[bp]]
  ELSE [h EXCEPT !.ptr[p] = bp]

JoinUpper(h, p, bp) ==
  LET next == h.ptr[p] IN
  IF bp + h.size[bp] = next
  THEN [h EXCEPT !.size[bp] = @ + h.size[next], !.ptr[bp] = h.ptr[next]]
  ELSE [h EXCEPT !.ptr[bp] = next]

free(h, bp) ==
  LET p == Place(h, h.freep, bp) IN
  [JoinLower(JoinUpper(h, p, bp), p, bp) EXCEPT !.freep = p]

(* morecore(): more memory from the system is freed into the list.  Sizes  *)
(* stay below those that sbrk()'s int argument would truncate.             *)
Core(nu) == IF nu < MINCORE THEN MINCORE ELSE nu
morecore(h, nu) ==
  free([h EXCEPT !.size[h.brk] = Core(nu), !.brk = @ + Core(nu)], h.brk)

(* The block p is taken out of the list, or its end is cut off. *)
Take(h, prevp, p, nunits) ==
  IF h.size[p] = nunits
  THEN [heap |-> [h EXCEPT !.ptr[prevp] = h.ptr[p], !.freep = prevp], at |-> p]
  ELSE LET q == p + h.size[p] - nunits IN
       [heap |-> [h EXCEPT !.size[p] = @ - nunits, !.size[q] = nunits, !.freep = prevp], at |-> q]

(* mutant: a block that is one unit too small is taken *)
Fits_OffByOne(h, p, nunits) == h.size[p] + 1 >= nunits /\ h.size[p] > 0

Fits(h, p, nunits) == h.size[p] >= nunits

(* The search for a block, once around the list; at is -1 if there is no   *)
(* memory.                                                                 *)
RECURSIVE Search(_, _, _, _)
Search(h, prevp, p, nunits) ==
  IF Fits(h, p, nunits) THEN Take(h, prevp, p, nunits)
  ELSE IF p # h.freep THEN Search(h, p, h.ptr[p], nunits)
  ELSE IF h.brk + Core(nunits) - 1 > MAXBRK THEN [heap |-> h, at |-> -1]
  ELSE LET g == morecore(h, nunits) IN Search(g, g.freep, g.ptr[g.freep], nunits)

Nunits(nbytes) == ((nbytes + HDR - 1) \div HDR) + 1

malloc(nbytes) ==
  LET h == IF heap.freep = -1 THEN [heap EXCEPT !.ptr[base] = base, !.freep = base] ELSE heap
      r == Search(h, h.freep, h.ptr[h.freep], Nunits(nbytes))
  IN /\ heap' = r.heap
     /\ live' = IF r.at = -1 THEN live
                ELSE [a \in DOMAIN live \cup {r.at} |-> IF a = r.at THEN nbytes ELSE live[a]]

(* The program frees one of its blocks, or moves the break itself. *)
Free(a) ==
  /\ heap' = free(heap, a)
  /\ live' = [b \in DOMAIN live \ {a} |-> live[b]]
sbrk == heap.brk < MAXBRK /\ heap' = [heap EXCEPT !.brk = @ + 1] /\ UNCHANGED live

Next == (\E n \in Sizes : malloc(n)) \/ (\E a \in DOMAIN live : Free(a)) \/ sbrk
-----------------------------------------------------------------------------
Block(a, n) == a..(a + n - 1)
InList == IF heap.freep = -1 THEN {}
          ELSE {p \in Units : heap.size[p] > 0 /\ p \notin DOMAIN live /\
                  \E k \in 1..Cardinality(Units) :
                    LET reach[j \in 0..k] == IF j = 0 THEN base ELSE heap.ptr[reach[j-1]]
                    IN reach[k] = p}

(* A block that malloc() returned holds its header and the bytes asked     *)
(* for, and overlaps no other block of the program and no free block.      *)
BlocksDisjoint ==
  /\ \A a \in DOMAIN live : (heap.size[a] - 1) * HDR >= live[a] /\ a + heap.size[a] <= heap.brk
  /\ \A a, b \in DOMAIN live \cup InList :
       a # b => Block(a, heap.size[a]) \cap Block(b, heap.size[b]) = {}

(* The free list is in address order, wraps once, passes base, and holds   *)
(* no two adjacent blocks: freeing always joins what can be joined.        *)
ListInOrder ==
  heap.freep # -1 =>
    LET l == InList \cup {base} IN
    /\ heap.freep \in l
    /\ \A p \in l : heap.ptr[p] = IF \E q \in l : q > p
                                  THEN CHOOSE q \in l : q > p /\ \A r \in l : r > p => r >= q
                                  ELSE base
    /\ \A p \in InList : p + heap.size[p] \notin InList

(* malloc() and free() keep the heap usable for the calls to come.         *)
HeapSound == BlocksDisjoint /\ ListInOrder
=============================================================================
