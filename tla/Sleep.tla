------------------------------- MODULE Sleep -------------------------------
(***************************************************************************)
(* user/sleep.c and the atoi() of user/ulib.c that it calls.  A character  *)
(* is the digit it stands for, or -1 for anything else.  An int has        *)
(* INT_MAX + 1 negative values; n*10 + *s - '0' wraps around, as it does   *)
(* in the build, although C leaves that undefined.                         *)
(*                                                                         *)
(* sleep.c gives printf() a descriptor as its first argument, which        *)
(* user/user.h does not declare; it stands for a message and nothing else. *)
(***************************************************************************)
EXTENDS Integers, Sequences, SequencesExt

CONSTANTS
  RADIX,      \* 10 in the code
  INT_MAX     \* 2^31 - 1 in the code

Wrap(n) == ((n + INT_MAX + 1) % (2 * (INT_MAX + 1))) - (INT_MAX + 1)

(* the digits in front *)
Prefix(s) ==
  LET other == SelectInSeq(s, LAMBDA c : c < 0) IN
  IF other = 0 THEN s ELSE SubSeq(s, 1, other - 1)
(* mutant: the digit is scaled instead of the number *)
AddDigit_Reversed(n, c) == Wrap(n + c * RADIX)

AddDigit(n, c) == Wrap(n * RADIX + c)

atoi(s) == FoldLeft(AddDigit, 0, Prefix(s))
Valid(ticks) == ticks > 0

(* main(): the calls of sleep(), and the status of exit() *)
main(argv) ==
  IF argv = <<>> \/ ~Valid(atoi(argv[1])) THEN [sleeps |-> <<>>, status |-> 1]
  ELSE [sleeps |-> <<atoi(argv[1])>>, status |-> 0]
-----------------------------------------------------------------------------
(* The number that the digits of s denote. *)
Value(s) ==
  LET d == Prefix(s) IN
  FoldFunction(LAMBDA x, y : x + y, 0, [i \in DOMAIN d |-> d[i] * RADIX^(Len(d) - i)])

(* sleep.c sleeps for the number it is given, as long as it fits an int;   *)
(* it refuses an operand that has no positive number in front; and one     *)
(* that does not fit makes atoi() wrap, but never reaches sys_sleep() as a *)
(* negative number.                                                        *)
SleepsForOperand(argv) ==
  LET m == main(argv) IN
  /\ argv = <<>> \/ Value(argv[1]) = 0 => m.status = 1 /\ m.sleeps = <<>>
  /\ argv # <<>> /\ Value(argv[1]) \in 1..INT_MAX => m.sleeps = <<Value(argv[1])>> /\ m.status = 0
  /\ \A i \in DOMAIN m.sleeps : m.sleeps[i] \in 1..INT_MAX
=============================================================================
