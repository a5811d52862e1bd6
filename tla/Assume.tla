------------------------------- MODULE Assume -------------------------------
(***************************************************************************)
(* The ASSUME_ macros of src/code/logic/fossil/maip/assume.h: each         *)
(* computes a condition from its arguments and hands it to                 *)
(* maip_test_assert_internal, which returns when it holds and leaves the   *)
(* body when it does not (module Runner).  A test body is a sequence of    *)
(* calls.                                                                  *)
(*                                                                         *)
(* The integers are in Widths, words of bits in Bits, strings in CString.  *)
(* A region of memory is the sequence of its bytes, or NoRegion, a null    *)
(* pointer.                                                                *)
(***************************************************************************)
EXTENDS Widths, Bits, CString, FiniteSets

CONSTANTS
  Operand,   \* integers handed to the macros of two operands
  Limit,     \* integers handed to the macros of three
  Finite,    \* floating point numbers that are finite, scaled to integers
  Infinity,  \* an integer beyond them
  NaN,
  Region,    \* contents of memory: sequences of bytes
  NoRegion,
  Char,      \* characters
  String,    \* strings
  Pattern    \* strings looked for in them

ASSUME OperandAssumption == Operand \subseteq Int /\ Limit \subseteq Int

\* NaN is no number.
ASSUME FloatAssumption == Finite \subseteq Int /\ Infinity \in Int /\ NaN \notin Int

ASSUME InfinityAssumption == \A x \in Finite : - Infinity < x /\ x < Infinity

\* Nobody looks for the empty string: it would be found for ever.
ASSUME StringAssumption ==
  /\ Space \subseteq Char
  /\ String \subseteq Seq(Char)
  /\ Pattern \subseteq Seq(Char) \ {<< >>}

VARIABLES
  call,     \* the call being judged, or NoCall between calls
  verdict,  \* what the macro passed to maip_test_assert_internal
  left      \* the bytes of the first region after the call

vars == << call, verdict, left >>

NoCall == [section |-> "NONE"]

Float == Finite \cup {Infinity, - Infinity, NaN}

-----------------------------------------------------------------------------
(* Booleans, pointers and hints                                            *)

BooleanHolds(its, rel, x) == IF rel = "TRUE" THEN x = its ELSE x # its

\* likely and unlikely are hints: both give the truth of their operand, which
\* is a pointer here as well.
PointerHolds(its, rel, p, q) ==
  CASE rel \in {"CNULL", "CNULLABLE"} -> (p = NoRegion) = its
    [] rel = "CNONNULL" -> (p # NoRegion) = its
    [] rel = "EQUAL_PTR" -> (p = q) = its
    [] rel \in {"LIKELY", "UNLIKELY", "VALID_MEMORY"} -> (p # NoRegion) = its

-----------------------------------------------------------------------------
(* Floating point                                                          *)

Ordered(a, b) == NaN \notin {a, b}

Magnitude(x) == IF x < 0 THEN - x ELSE x

\* fabs(a - b); infinity less itself is no number.
Difference(a, b) ==
  IF ~ Ordered(a, b) \/ (a = b /\ Magnitude(a) = Infinity) THEN NaN
  ELSE IF Infinity \in {Magnitude(a), Magnitude(b)} THEN Infinity
  ELSE Magnitude(a - b)

\* Mutant of FloatHolds: the negative form is the negation of the other.
FloatHoldsNegated(its, rel, a, b, tol) ==
  its = (IF rel = "EQUAL"
         THEN Difference(a, b) # NaN /\ Difference(a, b) <= tol
         ELSE Ordered(a, b) /\ Holds(TRUE, rel, a, b))

\* Both F32 and F64.  No comparison holds of NaN.
FloatHolds(its, rel, a, b, tol) ==
  IF rel = "EQUAL"
  THEN /\ Difference(a, b) # NaN
       /\ IF its THEN Difference(a, b) <= tol ELSE Difference(a, b) > tol
  ELSE Ordered(a, b) /\ Holds(its, rel, a, b)

FloatRange(its, v, min, max) ==
  IF its THEN v # NaN /\ v >= min /\ v <= max
         ELSE v # NaN /\ (v < min \/ v > max)

NotFinite(rel, v) ==
  CASE rel = "NAN" -> v = NaN
    [] rel = "INF" -> v # NaN /\ Magnitude(v) = Infinity

-----------------------------------------------------------------------------
(* Memory                                                                  *)

\* The first byte that differs decides; there is no order to ask for without
\* two regions and a byte of each.
maip_sys_memory_compare(p, q, size) ==
  IF NoRegion \in {p, q} \/ size = 0 THEN -1 ELSE
  LET differ == {i \in 1 .. size : p[i] # q[i]}
      i == CHOOSE i \in differ : \A j \in differ : i <= j
  IN  IF differ = {} THEN 0 ELSE IF p[i] < q[i] THEN -1 ELSE 1

\* Returns the pointer it is given, or null if there is nothing to set.
maip_sys_memory_zero(p, size) == p # NoRegion /\ size # 0

Zeroed(p, size) == [i \in DOMAIN p |-> IF i <= size THEN 0 ELSE p[i]]

MemoryHolds(c) ==
  LET size == c.args[3]
  IN  IF c.rel \in {"ZERO_MEMORY", "SECURE_CLEARED"}
      THEN maip_sys_memory_zero(c.args[1], size) = c.its
      ELSE Holds(c.its, c.rel, maip_sys_memory_compare(c.args[1], c.args[2], size), 0)

\* What is in the first region after the call: these macros do not look at
\* the memory, they clear it.
LeftBy(c) ==
  IF c.section = "MEMORY" /\ c.rel \in {"ZERO_MEMORY", "SECURE_CLEARED"}
     /\ maip_sys_memory_zero(c.args[1], c.args[3])
  THEN Zeroed(c.args[1], c.args[3])
  ELSE << >>

-----------------------------------------------------------------------------
(* Strings                                                                 *)

StringHolds(c) ==
  LET s == c.args[1]
      t == c.args[2]
  IN  CASE c.rel = "EQUAL_CSTR" -> (s = t) = c.its
        [] c.rel = "LENGTH_EQUAL_CSTR" -> (Len(s) = c.args[3]) = c.its
        [] c.rel = "CSTR_STARTS_WITH" -> StartsWith(s, t) = c.its
        [] c.rel = "CSTR_ENDS_WITH" -> EndsWith(s, t) = c.its
        [] c.rel = "CSTR_CONTAINS" -> ContainsString(s, t) = c.its
        [] c.rel = "CSTR_COUNT" -> (CountOf(s, t) = c.args[3]) = c.its
        [] c.rel = "SAFE_CSTR" -> Len(s) < c.args[3]

-----------------------------------------------------------------------------
(* Words                                                                   *)

BitsHold(c) ==
  LET v == c.args[1]
      m == c.args[2]
      n == c.args[3]
      expected == c.args[4]
  IN  CASE c.rel = "BIT_SET" -> BitSet(c.its, v, m)
        [] c.rel = "BITMASK_SET" -> BitmaskSet(c.its, v, m)
        [] c.rel = "BIT_POSITION_SET" -> BitPositionSet(c.its, v, n)
        [] c.rel = "BIT_COUNT" -> BitCount(c.its, v, n)
        [] c.rel = "POWER_OF_TWO" -> PowerOfTwo(c.its, v)
        [] c.rel = "EQUAL_BITS" -> EqualBits(c.its, v, m)
        [] c.rel = "ROTATE_LEFT" -> RotateLeft(v, n) = {expected}
        [] c.rel = "ROTATE_RIGHT" -> RotateRight(v, n) = {expected}
        [] c.rel \in BinaryOperation -> OperationEqual(c.rel, v, m, n, expected)

-----------------------------------------------------------------------------
(* The calls.  FOSSIL_TEST_ASSUME hands the condition on.                  *)

Condition(c) ==
  CASE c.section = "INTEGER" -> IntegerHolds(c)
    [] c.section = "RANGE" -> RangeHolds(c)
    [] c.section = "TIME" -> TimeHolds(c)
    [] c.section = "OVERFLOW" -> OverflowHolds(c.rel, c.args[1], c.args[2], c.args[3])
    [] c.section = "GUARD" -> GuardHolds(c)
    [] c.section = "HASH" -> HashHolds(c)
    [] c.section = "BOOLEAN" -> BooleanHolds(c.its, c.rel, c.args[1])
    [] c.section = "POINTER" -> PointerHolds(c.its, c.rel, c.args[1], c.args[2])
    [] c.section = "FLOAT" -> FloatHolds(c.its, c.rel, c.args[1], c.args[2], c.args[3])
    [] c.section = "FLOAT_RANGE" -> FloatRange(c.its, c.args[1], c.args[2], c.args[3])
    [] c.section = "FLOAT_CLASS" -> NotFinite(c.rel, c.args[1])
    [] c.section = "MEMORY" -> MemoryHolds(c)
    [] c.section = "STRING" -> StringHolds(c)
    [] c.section = "BITS" -> BitsHold(c)

Idle == call = NoCall

Judge(c) ==
  /\ call' = c
  /\ verdict' = Condition(c)
  /\ left' = LeftBy(c)

Form(section, type, its, rel, args) ==
  [section |-> section, type |-> type, its |-> its, rel |-> rel, args |-> args]

AssumeInteger ==
  /\ Idle
  /\ \E type \in IntegerType, its \in BOOLEAN, rel \in Relation, a, b \in Operand :
       /\ type = "SIZE" => its \/ rel = "EQUAL"
       /\ Judge(Form("INTEGER", type, its, rel, << a, b >>))

AssumeRange ==
  /\ Idle
  /\ \E type \in RangeType, its \in BOOLEAN, v, min, max \in Limit :
       Judge(Form("RANGE", type, its, "WITHIN", << v, min, max >>))

AssumeTime ==
  /\ Idle
  /\ \E rel \in {"WITHIN_TOLERANCE", "EQUIVALENT", "AT_LEAST", "MONOTONIC", "AT_MOST",
                 "DEADLINE_MET", "DEADLINE_MISSED", "WITHIN_RANGE", "FASTER_THAN",
                 "SLOWER_THAN"},
        a, b \in Operand, c \in Limit :
       /\ rel \notin {"WITHIN_TOLERANCE", "EQUIVALENT", "WITHIN_RANGE"} => c = 0
       /\ Judge(Form("TIME", "I64", TRUE, rel, << a, b, c >>))

\* The test adds, subtracts or multiplies in the type of its operands.
Exact(rel, a, b) ==
  CASE rel = "ADD" -> a + b [] rel = "SUB" -> a - b [] rel = "MUL" -> a * b

Computed(type, rel, a, b) ==
  IF type = "I64" THEN Signed(64, Exact(rel, a, b)) ELSE Unsigned(64, Exact(rel, a, b))

AssumeNoOverflow ==
  /\ Idle
  /\ \E type \in {"I64", "U64"}, rel \in {"ADD", "SUB", "MUL"}, a, b \in Operand :
       /\ rel = "MUL" => type = "U64"
       /\ {a, b} \subseteq (IF type = "I64" THEN SignedValue(64) ELSE UnsignedValue(64))
       /\ Judge(Form("OVERFLOW", type, TRUE, rel, << a, b, Computed(type, rel, a, b) >>))

AssumeGuard ==
  /\ Idle
  /\ \E rel \in {"BUFFER_OVERFLOW_SAFE", "ALIGNED_PTR", "INPUT_VALIDATED", "RANDOM_ENTROPY",
                 "VALID_FD", "VALID_KEY_LENGTH", "SESSION_VALID", "BOUNDS_CHECKED"},
        a, b, c \in Limit :
       /\ rel = "ALIGNED_PTR" => b > 0
       /\ Judge(Form("GUARD", "I64", TRUE, rel, << a, b, c >>))

AssumeHash ==
  /\ Idle
  /\ \E its \in BOOLEAN,
        rel \in {"EQUAL", "VALID", "DETERMINISTIC", "COLLISION_RESISTANT", "DISTRIBUTED"},
        a, b \in Operand \cap UnsignedValue(64) :
       /\ rel \notin {"EQUAL", "VALID"} => its
       /\ Judge(Form("HASH", "U64", its, rel, << a, b >>))

AssumeBoolean ==
  /\ Idle
  /\ \E its, x \in BOOLEAN, rel \in {"TRUE", "FALSE"} :
       Judge(Form("BOOLEAN", "BOOL", its, rel, << x >>))

AssumePointer ==
  /\ Idle
  /\ \E its \in BOOLEAN, p, q \in Region \cup {NoRegion},
        rel \in {"CNULL", "CNULLABLE", "CNONNULL", "EQUAL_PTR", "LIKELY", "UNLIKELY",
                 "VALID_MEMORY"} :
       Judge(Form("POINTER", "PTR", its, rel, << p, q >>))

AssumeFloat ==
  /\ Idle
  /\ \E type \in {"F32", "F64"}, its \in BOOLEAN, rel \in Relation, a, b \in Float,
        tol \in {x \in Finite : x >= 0} :
       Judge(Form("FLOAT", type, its, rel, << a, b, tol >>))

AssumeFloatRange ==
  /\ Idle
  /\ \E type \in {"F32", "F64"}, its \in BOOLEAN, v \in Float, min, max \in Finite :
       Judge(Form("FLOAT_RANGE", type, its, "WITHIN", << v, min, max >>))

AssumeNotFinite ==
  /\ Idle
  /\ \E type \in {"F32", "F64"}, rel \in {"NAN", "INF"}, v \in Float :
       Judge(Form("FLOAT_CLASS", type, TRUE, rel, << v >>))

\* The size is at most that of the regions, as the functions cannot know it.
AssumeMemory ==
  /\ Idle
  /\ \E its \in BOOLEAN, p, q \in Region \cup {NoRegion},
        rel \in Relation \cup {"ZERO_MEMORY", "SECURE_CLEARED"} :
       \E size \in 0 .. (IF p = NoRegion THEN 1 ELSE Len(p)) :
         /\ rel = "SECURE_CLEARED" => its
         /\ Judge(Form("MEMORY", "PTR", its, rel, << p, q, size >>))

AssumeString ==
  /\ Idle
  /\ \E its \in BOOLEAN, s \in String, t \in Pattern, n \in 0 .. 3,
        rel \in {"EQUAL_CSTR", "LENGTH_EQUAL_CSTR", "CSTR_STARTS_WITH", "CSTR_ENDS_WITH",
                 "CSTR_CONTAINS", "CSTR_COUNT", "SAFE_CSTR"} :
       /\ rel = "SAFE_CSTR" => its
       /\ rel \notin {"LENGTH_EQUAL_CSTR", "CSTR_COUNT", "SAFE_CSTR"} => n = 0
       /\ Judge(Form("STRING", "CSTR", its, rel, << s, t, n >>))

AssumeBits ==
  /\ Idle
  /\ \E its \in BOOLEAN, v, m \in Word, n \in 0 .. WordSize,
        rel \in {"BIT_SET", "BITMASK_SET", "EQUAL_BITS", "BIT_POSITION_SET", "BIT_COUNT",
                 "POWER_OF_TWO"} :
       /\ rel = "BIT_POSITION_SET" => n < WordSize
       /\ rel \notin {"BIT_POSITION_SET", "BIT_COUNT"} => n = 0
       /\ rel \notin {"BIT_SET", "BITMASK_SET", "EQUAL_BITS"} => m = Zero
       /\ Judge(Form("BITS", "U64", its, rel, << v, m, n, Zero >>))

\* A result is expected; shifts by a count that C defines, rotations by any.
AssumeResult ==
  /\ Idle
  /\ \E v, expected \in Word, n \in 0 .. 2 * WordSize,
        rel \in {"SHIFT_LEFT", "SHIFT_RIGHT", "ROTATE_LEFT", "ROTATE_RIGHT"} :
       /\ rel \in {"SHIFT_LEFT", "SHIFT_RIGHT"} => n < WordSize
       /\ Judge(Form("BITS", "U64", TRUE, rel, << v, Zero, n, expected >>))

AssumeMasked ==
  /\ Idle
  /\ \E v, m, expected \in Word, rel \in {"AND", "OR", "XOR"} :
       Judge(Form("BITS", "U64", TRUE, rel, << v, m, 0, expected >>))

Init == call = NoCall /\ verdict = TRUE /\ left = << >>

\* The body goes on behind an assumption that holds.
GoOn ==
  /\ call # NoCall
  /\ verdict
  /\ call' = NoCall
  /\ left' = << >>
  /\ UNCHANGED verdict

\* longjmp: the body is left.
Aborted ==
  /\ ~ verdict
  /\ UNCHANGED vars

Next ==
  \/ AssumeInteger \/ AssumeRange \/ AssumeTime \/ AssumeNoOverflow \/ AssumeGuard
  \/ AssumeHash \/ AssumeBoolean \/ AssumePointer \/ AssumeFloat \/ AssumeFloatRange
  \/ AssumeNotFinite \/ AssumeMemory \/ AssumeString \/ AssumeBits \/ AssumeResult
  \/ AssumeMasked \/ GoOn \/ Aborted

Spec == Init /\ [][Next]_vars

-----------------------------------------------------------------------------
(* What the macros mean                                                    *)

SignedType == {"I8", "I16", "I32", "I64"} \cup IF CharIsSigned THEN {"CHAR"} ELSE {}

BitsOf ==
  [O8 |-> 8, O16 |-> 16, O32 |-> 32, O64 |-> 64, H8 |-> 8, H16 |-> 16, H32 |-> 32,
   H64 |-> 64, I8 |-> 8, I16 |-> 16, I32 |-> 32, I64 |-> 64, U8 |-> 8, U16 |-> 16,
   U32 |-> 32, U64 |-> 64, SIZE |-> 64, CHAR |-> 8, BCHAR |-> 8]

TypeValue(type) ==
  IF type \in SignedType THEN SignedValue(BitsOf[type]) ELSE UnsignedValue(BitsOf[type])

Truth(rel, a, b) ==
  \/ rel \in {"EQUAL", "LESS_OR_EQUAL", "MORE_OR_EQUAL"} /\ a = b
  \/ rel \in {"LESS_THAN", "LESS_OR_EQUAL"} /\ a < b
  \/ rel \in {"MORE_THAN", "MORE_OR_EQUAL"} /\ b < a

Fits(c) == \A i \in DOMAIN c.args : c.args[i] \in TypeValue(c.type)

Judged(section) == call.section = section

-----------------------------------------------------------------------------
(* Properties *)

\* Every one of the integer and range macros says what its name says of the
\* numbers it is given, as long as they are values of the type it is named for:
\* if one misleads, a cast has changed an operand, never the comparison.
OnlyNarrowingMisleads ==
  /\ Judged("INTEGER") /\ Fits(call) =>
       verdict = (call.its = Truth(call.rel, call.args[1], call.args[2]))
  /\ Judged("RANGE") /\ Fits(call) =>
       verdict = (call.its = (call.args[1] \in call.args[2] .. call.args[3]))

Opposite(c) == [c EXCEPT !.its = ~ c.its]

\* Neither form is right: a comparison with NaN, a distance between equal
\* infinities, a mask of which a part is set.
Undecided(c) ==
  \/ c.section = "FLOAT" /\ \/ ~ Ordered(c.args[1], c.args[2])
                            \/ c.rel = "EQUAL" /\ Difference(c.args[1], c.args[2]) = NaN
  \/ c.section = "FLOAT_RANGE" /\ c.args[1] = NaN
  \/ c.rel = "BITMASK_SET" /\ (c.args[1] \cap c.args[2]) \notin {Zero, c.args[2]}

EmptyMask(c) == c.rel = "BITMASK_SET" /\ c.args[2] = Zero

HasOpposite(c) ==
  \/ c.section \in {"RANGE", "BOOLEAN", "POINTER", "FLOAT", "FLOAT_RANGE"}
  \/ c.section = "INTEGER" /\ (c.type = "SIZE" => c.rel = "EQUAL")
  \/ c.section = "HASH" /\ c.rel \in {"EQUAL", "VALID"}
  \/ c.section = "MEMORY" /\ c.rel # "SECURE_CLEARED"
  \/ c.section = "STRING" /\ c.rel # "SAFE_CSTR"
  \/ c.rel \in {"BIT_SET", "BITMASK_SET", "BIT_POSITION_SET", "BIT_COUNT", "POWER_OF_TWO",
                "EQUAL_BITS"}

\* Of an ASSUME_ITS_ macro and the ASSUME_NOT_ macro of the same name exactly
\* one holds, but for values without an order and masks of which a part is set,
\* where neither does.  (Of an empty mask both forms hold.)
OppositesDisagree ==
  call # NoCall /\ HasOpposite(call) =>
    LET other == Condition(Opposite(call))
    IN  IF Undecided(call) THEN ~ verdict /\ ~ other
        ELSE IF EmptyMask(call) THEN verdict /\ other
        ELSE verdict # other

\* ASSUME_NO_INTEGER_OVERFLOW_ADD, _UNDERFLOW_SUB and _MULTIPLICATION_OVERFLOW
\* look only at operands and the result that wrapped around, and yet tell
\* exactly whether the true result fits: of unsigned operands all three, of
\* signed ones the subtraction, and the addition unless an operand is negative.
OverflowIsFound ==
  Judged("OVERFLOW") /\ (call.rel = "ADD" => call.args[1] >= 0 /\ call.args[2] >= 0) =>
    verdict = (Exact(call.rel, call.args[1], call.args[2]) \in TypeValue(call.type))

\* A tolerance bounds the distance of two times, unless their difference is not
\* a value of int64_t: then llabs is applied to another one.
ToleranceMeansDistance ==
  Judged("TIME") /\ call.rel \in {"WITHIN_TOLERANCE", "EQUIVALENT"} /\ Fits(call) =>
    LET d == call.args[1] - call.args[2]
    IN  d \in SignedValue(64) \ {- Half[64]} => verdict = (Magnitude(d) <= call.args[3])

\* The tricks with bits do what they are named for: a power of two is a word
\* with one bit set; what is rotated back is the word it was, whatever a shift
\* by the whole width gives; no rotation loses a bit.
BitTricksWork ==
  Judged("BITS") =>
    LET v == call.args[1]
        n == call.args[3]
        w == call.args[4]
    IN  /\ call.rel = "POWER_OF_TWO" =>
             (verdict = call.its) = (\E p \in Position : v = {p})
        /\ call.rel = "ROTATE_LEFT" =>
             verdict = Condition(Form("BITS", "U64", call.its, "ROTATE_RIGHT", << w, Zero, n, v >>))
        /\ call.rel \in {"ROTATE_LEFT", "ROTATE_RIGHT"} /\ verdict =>
             Cardinality(v) = Cardinality(w)

Disjoint(S, n) == \A i, j \in S : i = j \/ i - j >= n \/ j - i >= n

\* Searching on behind each match, as maip_io_cstr_count does, finds as many
\* occurrences as can be had without overlap, wherever the matches begin.
CountIsMost ==
  Judged("STRING") /\ call.rel = "CSTR_COUNT" /\ call.its /\ verdict =>
    LET s == call.args[1]
        t == call.args[2]
        Apart == {S \in SUBSET Occurrences(s, t) : Disjoint(S, Len(t))}
    IN  /\ \E S \in Apart : Cardinality(S) = call.args[3]
        /\ \A S \in Apart : Cardinality(S) <= call.args[3]

\* maip_io_cstr_replace measures its buffer by one scan and fills it by
\* another: what it writes is as long as was measured, whether the new string
\* is longer or shorter than the old.  What maip_io_cstr_split cuts is the
\* string without its delimiters, in order.
BuffersFit ==
  Judged("STRING") /\ call.rel = "EQUAL_CSTR" =>
    LET s == call.args[1]
        t == call.args[2]
    IN  /\ \A new \in {<< >>} \cup Pattern : Len(Replace(s, t, new)) = Measured(s, t, new)
        /\ LET pieces == Split(s, t[1])
           IN  /\ Flattened(pieces) = Without(s, t[1])
               /\ Len(pieces) = 1 + Len(s) - Len(Without(s, t[1]))

\* One character more on each side.
Padded(s, ch) == PadLeft(PadRight(s, Len(s) + 1, ch), Len(s) + 2, ch)

\* Two functions that answer the same question agree: the end of a string is the
\* start of its reverse, a string contains what occurs in it, and what was padded
\* with a space is what it was when it is trimmed, even if nothing but spaces is
\* left of it.
StringsAgree ==
  Judged("STRING") /\ call.rel = "EQUAL_CSTR" =>
    LET s == call.args[1]
        t == call.args[2]
    IN  /\ EndsWith(s, t) = StartsWith(Reversed(s), Reversed(t))
        /\ ContainsString(s, t) = (CountOf(s, t) > 0)
        /\ StartsWith(s, t) = (s # << >> /\ Substring(s, 0, Len(t)) = t)
        /\ CountOf(Repeat(t, 3), t) >= 3
        /\ Appends(s, Len(Concat(s, t)), t) = FALSE /\ Appends(s, Len(Concat(s, t)) + 1, t)
        /\ s # << >> => \A sp \in Space :
             /\ Trim(Padded(s, sp)) = Trim(s)
             /\ Strip(Padded(s, sp), sp) = Strip(s, sp)
             /\ Trim(s) # << >> => {Trim(s)[1], Trim(s)[Len(Trim(s))]} \cap Space = {}

=============================================================================
