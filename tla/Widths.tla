------------------------------- MODULE Widths -------------------------------
(***************************************************************************)
(* The assumptions about integers (src/code/logic/fossil/maip/assume.h).   *)
(* An operand is the integer the test hands in; the macro of a type casts  *)
(* every operand to it before it compares.  Half[w] is half the number of  *)
(* values of a type of w bits.                                             *)
(*                                                                         *)
(* c.its is TRUE for an ASSUME_ITS_ macro and FALSE for an ASSUME_NOT_     *)
(* one, c.rel the rest of its name, c.args its arguments.                  *)
(***************************************************************************)
EXTENDS Integers, Sequences

CONSTANTS
  Half,        \* a function from widths
  CharIsSigned \* what the build makes of a plain char

Width == {8, 16, 32, 64}

ASSUME HalfAssumption == Half \in [Width -> Nat \ {0}]
ASSUME CharAssumption == CharIsSigned \in BOOLEAN

Unsigned(w, x) == x % (2 * Half[w])
Signed(w, x) == ((x + Half[w]) % (2 * Half[w])) - Half[w]

UnsignedValue(w) == 0 .. 2 * Half[w] - 1
SignedValue(w) == - Half[w] .. Half[w] - 1

Relation == {"EQUAL", "LESS_THAN", "MORE_THAN", "LESS_OR_EQUAL", "MORE_OR_EQUAL"}

\* The ten macros of a type, two to a line.
Holds(its, rel, a, b) ==
  \/ rel = "EQUAL"           /\ IF its THEN a = b  ELSE a # b
  \/ rel = "LESS_THAN"       /\ IF its THEN a < b  ELSE a >= b
  \/ rel = "MORE_THAN"       /\ IF its THEN a > b  ELSE a <= b
  \/ rel = "LESS_OR_EQUAL"   /\ IF its THEN a <= b ELSE a > b
  \/ rel = "MORE_OR_EQUAL"   /\ IF its THEN a >= b ELSE a < b

AsUnsigned(w, c) == Holds(c.its, c.rel, Unsigned(w, c.args[1]), Unsigned(w, c.args[2]))
AsSigned(w, c) == Holds(c.its, c.rel, Signed(w, c.args[1]), Signed(w, c.args[2]))

-----------------------------------------------------------------------------
(* The types.  O is octal, H hexadecimal, which only the messages show.    *)

O8(c)  == AsUnsigned(8, c)
O16(c) == AsUnsigned(16, c)
O32(c) == AsUnsigned(32, c)
O64(c) == AsUnsigned(64, c)

H8(c)  == AsUnsigned(8, c)
H16(c) == AsUnsigned(16, c)
H32(c) == AsUnsigned(32, c)
H64(c) == AsUnsigned(64, c)

I8(c)  == AsSigned(8, c)
I16(c) == AsSigned(16, c)
I32(c) == AsSigned(32, c)
I64(c) == AsSigned(64, c)

U8(c)  == AsUnsigned(8, c)
U16(c) == AsUnsigned(16, c)

\* Mutant of U32: pasted from U16 and left as it was.
U32Pasted(c) == AsUnsigned(16, c)

U32(c) == AsUnsigned(32, c)
U64(c) == AsUnsigned(64, c)

\* Of its negative forms SIZE has NOT_EQUAL only.
SIZE(c) == AsUnsigned(64, c)

CHAR(c) == IF CharIsSigned THEN AsSigned(8, c) ELSE AsUnsigned(8, c)

IntegerType == {"O8", "O16", "O32", "O64", "H8", "H16", "H32", "H64",
                "I8", "I16", "I32", "I64", "U8", "U16", "U32", "U64",
                "SIZE", "CHAR"}

IntegerHolds(c) ==
  CASE c.type = "O8"  -> O8(c)  [] c.type = "O16" -> O16(c)
    [] c.type = "O32" -> O32(c) [] c.type = "O64" -> O64(c)
    [] c.type = "H8"  -> H8(c)  [] c.type = "H16" -> H16(c)
    [] c.type = "H32" -> H32(c) [] c.type = "H64" -> H64(c)
    [] c.type = "I8"  -> I8(c)  [] c.type = "I16" -> I16(c)
    [] c.type = "I32" -> I32(c) [] c.type = "I64" -> I64(c)
    [] c.type = "U8"  -> U8(c)  [] c.type = "U16" -> U16(c)
    [] c.type = "U32" -> U32(c) [] c.type = "U64" -> U64(c)
    [] c.type = "SIZE" -> SIZE(c) [] c.type = "CHAR" -> CHAR(c)

-----------------------------------------------------------------------------
(* Ranges                                                                  *)

Within(its, v, min, max) ==
  IF its THEN v >= min /\ v <= max ELSE v < min \/ v > max

RangeUnsigned(w, c) ==
  Within(c.its, Unsigned(w, c.args[1]), Unsigned(w, c.args[2]), Unsigned(w, c.args[3]))

RangeSigned(w, c) ==
  Within(c.its, Signed(w, c.args[1]), Signed(w, c.args[2]), Signed(w, c.args[3]))

\* BCHAR is a byte; CCHAR is char.
RangeCharacter(c) ==
  IF c.type = "CHAR" /\ CharIsSigned THEN RangeSigned(8, c) ELSE RangeUnsigned(8, c)

RangeType == {"U8", "U16", "U32", "U64", "I8", "I16", "I32", "I64", "BCHAR", "CHAR"}

RangeHolds(c) ==
  CASE c.type = "U8"  -> RangeUnsigned(8, c)  [] c.type = "U16" -> RangeUnsigned(16, c)
    [] c.type = "U32" -> RangeUnsigned(32, c) [] c.type = "U64" -> RangeUnsigned(64, c)
    [] c.type = "I8"  -> RangeSigned(8, c)    [] c.type = "I16" -> RangeSigned(16, c)
    [] c.type = "I32" -> RangeSigned(32, c)   [] c.type = "I64" -> RangeSigned(64, c)
    [] c.type \in {"BCHAR", "CHAR"} -> RangeCharacter(c)

-----------------------------------------------------------------------------
(* Times, in nanoseconds of an int64_t                                     *)

\* llabs of a difference that wraps around; that of the least value is itself.
Distance64(a, b) ==
  LET d == Signed(64, Signed(64, a) - Signed(64, b))
  IN  IF d < 0 THEN Signed(64, - d) ELSE d

\* Mutant of TimeHolds: a tolerance that is reached is exceeded.
TimeHoldsStrictly(c) ==
  LET a == Signed(64, c.args[1])
      b == Signed(64, c.args[2])
  IN  CASE c.rel \in {"WITHIN_TOLERANCE", "EQUIVALENT"} ->
             Distance64(c.args[1], c.args[2]) < Signed(64, c.args[3])
        [] c.rel \in {"AT_LEAST", "MONOTONIC"} -> a >= b
        [] c.rel \in {"AT_MOST", "DEADLINE_MET"} -> a <= b
        [] c.rel = "WITHIN_RANGE" -> RangeSigned(64, c)
        [] c.rel = "FASTER_THAN" -> a < b
        [] c.rel \in {"SLOWER_THAN", "DEADLINE_MISSED"} -> a > b

\* MONOTONIC has its arguments here in the order after, before.
TimeHolds(c) ==
  LET a == Signed(64, c.args[1])
      b == Signed(64, c.args[2])
  IN  CASE c.rel \in {"WITHIN_TOLERANCE", "EQUIVALENT"} ->
             Distance64(c.args[1], c.args[2]) <= Signed(64, c.args[3])
        [] c.rel \in {"AT_LEAST", "MONOTONIC"} -> a >= b
        [] c.rel \in {"AT_MOST", "DEADLINE_MET"} -> a <= b
        [] c.rel = "WITHIN_RANGE" -> RangeSigned(64, c)
        [] c.rel = "FASTER_THAN" -> a < b
        [] c.rel \in {"SLOWER_THAN", "DEADLINE_MISSED"} -> a > b

-----------------------------------------------------------------------------
(* Arithmetic, and comparisons that the security assumptions name.  The     *)
(* operands have one type, and so has the result the test computed.         *)

\* Mutant of OverflowHolds: a product that just fits is refused.
OverflowHoldsMul(rel, a, b, result) ==
  \/ rel = "ADD" /\ result >= a /\ result >= b
  \/ rel = "SUB" /\ (a >= b <=> result >= 0)
  \/ rel = "MUL" /\ (a = 0 \/ b = 0 \/ (2 * Half[64] - 1) \div a > b)

OverflowHolds(rel, a, b, result) ==
  \/ rel = "ADD" /\ result >= a /\ result >= b
  \/ rel = "SUB" /\ (a >= b <=> result >= 0)
  \/ rel = "MUL" /\ (a = 0 \/ b = 0 \/ (2 * Half[64] - 1) \div a >= b)

GuardHolds(c) ==
  LET a == c.args[1]
      b == c.args[2]
  IN  CASE c.rel = "BUFFER_OVERFLOW_SAFE" -> a >= b
        [] c.rel = "ALIGNED_PTR" -> a % b = 0
        [] c.rel = "INPUT_VALIDATED" -> Within(TRUE, a, b, c.args[3])
        [] c.rel = "RANDOM_ENTROPY" -> a # 0
        [] c.rel = "VALID_FD" -> a >= 0
        [] c.rel = "VALID_KEY_LENGTH" -> a = b
        [] c.rel = "SESSION_VALID" -> a <= b
        [] c.rel = "BOUNDS_CHECKED" -> a < b

HashHolds(c) ==
  LET a == c.args[1]
      b == c.args[2]
  IN  CASE c.rel = "EQUAL" -> (a = b) = c.its
        [] c.rel = "VALID" -> (a # 0) = c.its
        [] c.rel = "DETERMINISTIC" -> a = b
        [] c.rel = "COLLISION_RESISTANT" -> a # b
        [] c.rel = "DISTRIBUTED" -> a # 0 /\ a # 2 * Half[64] - 1

=============================================================================
