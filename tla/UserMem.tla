------------------------------ MODULE UserMem ------------------------------
(***************************************************************************)
(* How the kernel reaches user memory: walkaddr(), copyout(), copyin() and *)
(* copyinstr() of kernel/vm.c, a page at a time, and fetchaddr() of        *)
(* kernel/syscall.c.  A page table is a function from the numbers of its   *)
(* valid user-half pages to a frame and the flags U and W; memory is a     *)
(* function from physical addresses to bytes.  Addresses are UINT wide.    *)
(***************************************************************************)
EXTENDS Integers, Sequences, FiniteSetsExt

CONSTANTS PGSIZE, MAXVA, UINT, WORD    \* WORD is sizeof(uint64)

PGROUNDDOWN(va) == va - (va % PGSIZE)
Add(va, n) == (va + n) % UINT

Valid(pt, va) == va < MAXVA /\ (va \div PGSIZE) \in DOMAIN pt
Pte(pt, va) == pt[va \div PGSIZE]

walkaddr(pt, va) == IF Valid(pt, va) /\ Pte(pt, va).u THEN Pte(pt, va).pa ELSE 0

(* bytes to be copied on the page of va, of len *)
OnPage(va, len) == Min({PGSIZE - (va - PGROUNDDOWN(va)), len})

(* mutant: a page that may not be written is written *)
Writable_Any(pt, va) == Valid(pt, va) /\ Pte(pt, va).u

Writable(pt, va) == Valid(pt, va) /\ Pte(pt, va).u /\ Pte(pt, va).w

RECURSIVE copyout(_, _, _, _)
copyout(pt, mem, dstva, src) ==
  LET va0 == PGROUNDDOWN(dstva) n == OnPage(dstva, Len(src))
      at == Pte(pt, va0).pa + (dstva - va0)
  IN IF src = <<>> THEN [ok |-> TRUE, mem |-> mem]
     ELSE IF ~ Writable(pt, va0) THEN [ok |-> FALSE, mem |-> mem]
     ELSE copyout(pt, [a \in DOMAIN mem |-> IF a \in at..(at + n - 1) THEN src[a - at + 1] ELSE mem[a]],
                  Add(va0, PGSIZE), SubSeq(src, n + 1, Len(src)))

Bytes(mem, at, n) == [i \in 1..n |-> mem[at + i - 1]]

(* mutant: the next page is read from the same offset *)
NextPage_SameOffset(va) == Add(va, PGSIZE)

NextPage(va) == Add(PGROUNDDOWN(va), PGSIZE)

RECURSIVE copyin(_, _, _, _, _)
copyin(pt, mem, dst, srcva, len) ==
  LET va0 == PGROUNDDOWN(srcva) pa0 == walkaddr(pt, va0) n == OnPage(srcva, len) IN
  IF len = 0 THEN [ok |-> TRUE, dst |-> dst]
  ELSE IF pa0 = 0 THEN [ok |-> FALSE, dst |-> dst]
  ELSE copyin(pt, mem, dst \o Bytes(mem, pa0 + (srcva - va0), n), NextPage(srcva), len - n)

(* mutant: the null may come after max bytes *)
StrLeft_OneMore(max, n) == max - n + 1

StrLeft(max, n) == max - n

RECURSIVE copyinstr(_, _, _, _, _)
copyinstr(pt, mem, dst, srcva, max) ==
  LET va0 == PGROUNDDOWN(srcva) pa0 == walkaddr(pt, va0) n == OnPage(srcva, max)
      chunk == Bytes(mem, pa0 + (srcva - va0), n)
      nulls == {i \in 1..n : chunk[i] = 0}
  IN IF max = 0 \/ pa0 = 0 THEN [ok |-> FALSE, dst |-> dst]
     ELSE IF nulls # {} THEN [ok |-> TRUE, dst |-> dst \o SubSeq(chunk, 1, Min(nulls))]
     ELSE copyinstr(pt, mem, dst \o chunk, NextPage(srcva), StrLeft(max, n))

(* mutant: the end of the word is not compared with the size *)
InSize_StartOnly(addr, sz) == addr < sz

InSize(addr, sz) == addr < sz /\ Add(addr, WORD) <= sz

fetchaddr(pt, mem, sz, addr) ==
  IF InSize(addr, sz) THEN copyin(pt, mem, <<>>, addr, WORD) ELSE [ok |-> FALSE, dst |-> <<>>]
-----------------------------------------------------------------------------
(* The reference goes byte by byte; va + i is not reduced. *)
Readable(pt, va) == walkaddr(pt, va) # 0
User(pt, mem, va) == mem[walkaddr(pt, va) + (va % PGSIZE)]
Phys(pt, va, n) == {walkaddr(pt, va + i) + ((va + i) % PGSIZE) : i \in {j \in 0..(n - 1) : Readable(pt, va + j)}}

(* copyout() succeeds exactly if the program itself could write every byte *)
(* of the range, then stores the bytes there, and never touches a byte     *)
(* outside of it, whether it succeeds or fails.                            *)
CopyoutExact(pt, mem, va, src) ==
  LET r == copyout(pt, mem, va, src) IN
  /\ r.ok <=> \A i \in 0..(Len(src) - 1) : Valid(pt, va + i) /\ Pte(pt, va + i).u /\ Pte(pt, va + i).w
  /\ r.ok => \A i \in DOMAIN src : User(pt, r.mem, va + i - 1) = src[i]
  /\ \A a \in DOMAIN mem \ Phys(pt, va, Len(src)) : r.mem[a] = mem[a]

(* copyin() succeeds exactly if every byte of the range is user memory,    *)
(* and returns those bytes in order, across pages whose frames are not     *)
(* adjacent.                                                               *)
CopyinExact(pt, mem, va, len) ==
  LET r == copyin(pt, mem, <<>>, va, len) IN
  /\ r.ok <=> \A i \in 0..(len - 1) : Readable(pt, va + i)
  /\ r.ok => r.dst = [i \in 1..len |-> User(pt, mem, va + i - 1)]

(* copyinstr() returns the string at va with its null, exactly if one of   *)
(* its first max bytes is a null and all up to it are user memory: a       *)
(* string that ends on the last mapped byte is no error.                   *)
CopyinstrExact(pt, mem, va, max) ==
  LET r == copyinstr(pt, mem, <<>>, va, max)
      ends == {n \in 1..max : (\A i \in 0..(n - 1) : Readable(pt, va + i)) /\ User(pt, mem, va + n - 1) = 0}
  IN /\ r.ok <=> ends # {}
     /\ r.ok => r.dst = [i \in 1..Min(ends) |-> User(pt, mem, va + i - 1)]

(* fetchaddr() reads no word that is not wholly below the size of the      *)
(* process, also when the end of the word wraps around.                    *)
FetchInside(pt, mem, sz, addr) == fetchaddr(pt, mem, sz, addr).ok => addr + WORD <= sz

(* All the functions that copy between a process and the kernel touch the  *)
(* bytes they are given and no others, or fail.                            *)
CopiesExact(pt, mem, va, src) ==
  /\ CopyoutExact(pt, mem, va, src)
  /\ CopyinExact(pt, mem, va, Len(src))
  /\ CopyinstrExact(pt, mem, va, Len(src))
  /\ \A sz \in DOMAIN mem \cup {0} : FetchInside(pt, mem, sz, va)
=============================================================================
