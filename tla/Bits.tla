-------------------------------- MODULE Bits --------------------------------
(***************************************************************************)
(* Unsigned words of the machine, and the bitwise assumptions about them   *)
(* (src/code/logic/fossil/maip/assume.h).  A word is the set of the        *)
(* positions of its bits that are set: & is intersection, | union, and the *)
(* shifts move positions and drop those that leave the word.               *)
(***************************************************************************)
EXTENDS Integers, FiniteSets

CONSTANT WordSize  \* number of bits of a uint64_t

ASSUME WordSizeAssumption == WordSize \in Nat \ {0}

Position == 0 .. WordSize - 1
Word == SUBSET Position

Zero == {}
AllOnes == Position

ShiftLeft(v, n) == {p \in Position : p - n \in v}
ShiftRight(v, n) == {p \in Position : p + n \in v}

Xor(v, m) == (v \ m) \cup (m \ v)

Lowest(v) == CHOOSE p \in v : \A q \in v : p <= q

\* v - 1: the lowest bit is borrowed from by the positions below it.
Decrement(v) ==
  IF v = {} THEN AllOnes
  ELSE (v \ {Lowest(v)}) \cup {p \in Position : p < Lowest(v)}

\* 64 - (n & 63): a shift by the width of the word when n is 0, which C leaves
\* undefined.  Processors shift by 0 instead, compilers may fold it to 0.
ShiftedBack(v, n, shifted) == IF n = 0 THEN {v, Zero} ELSE {shifted}

\* What a rotation may give.
RotateLeft(v, n) ==
  LET k == n % WordSize
  IN  {ShiftLeft(v, k) \cup r : r \in ShiftedBack(v, k, ShiftRight(v, WordSize - k))}

\* Mutant of RotateRight: the bits that fall out come back one place too far.
RotateRightTooFar(v, n) ==
  LET k == n % WordSize
  IN  {ShiftRight(v, k) \cup r : r \in ShiftedBack(v, k + 1, ShiftLeft(v, WordSize - k - 1))}

RotateRight(v, n) ==
  LET k == n % WordSize
  IN  {ShiftRight(v, k) \cup r : r \in ShiftedBack(v, k, ShiftLeft(v, WordSize - k))}

-----------------------------------------------------------------------------
(* The conditions of the assumptions: v is the value, m a flag or a mask, n  *)
(* a position or a count.                                                    *)

BitSet(its, v, m) == IF its THEN v \cap m # Zero ELSE v \cap m = Zero

\* The form with NOT is not the opposite: it asks that no bit of the mask is set.
BitmaskSet(its, v, m) == IF its THEN v \cap m = m ELSE v \cap m = Zero

BitPositionSet(its, v, n) == (0 \in ShiftRight(v, n)) = its

BitCount(its, v, n) == (Cardinality(v) = n) = its

PowerOfTwo(its, v) ==
  IF its THEN v # Zero /\ v \cap Decrement(v) = Zero
         ELSE v = Zero \/ v \cap Decrement(v) # Zero

EqualBits(its, v, w) == (v = w) = its

BinaryOperation == {"AND", "OR", "XOR", "SHIFT_LEFT", "SHIFT_RIGHT"}

\* AND, OR, XOR and the shifts against a result that is expected.
Operation(op, v, m, n) ==
  CASE op = "AND" -> v \cap m
    [] op = "OR" -> v \cup m
    [] op = "XOR" -> Xor(v, m)
    [] op = "SHIFT_LEFT" -> ShiftLeft(v, n)
    [] op = "SHIFT_RIGHT" -> ShiftRight(v, n)

OperationEqual(op, v, m, n, expected) == Operation(op, v, m, n) = expected

=============================================================================
