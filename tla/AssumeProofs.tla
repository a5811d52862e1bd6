---------------------------- MODULE AssumeProofs ----------------------------
(***************************************************************************)
(* Proofs about Assume, Widths, Bits and CString for types and words of    *)
(* every width and all strings.  The verdict between two calls is the      *)
(* condition of a call of a known form; what is left is about that         *)
(* condition: what a cast does to a value of the type, what wrapping       *)
(* around does to a sum, that of the two forms of a macro one holds, where *)
(* a rotation moves a bit, and what a scan of a string has found so far.   *)
(***************************************************************************)
EXTENDS Assume, FiniteSetTheorems, WellFoundedInduction, TLAPS

-----------------------------------------------------------------------------
(* Wrapping around                                                         *)

\* The remainder leaves what is within the modulus, and brings back what is one
\* modulus above or below.
LEMMA WrapWithin ==
  ASSUME NEW n \in Nat \ {0}, NEW x \in 0 .. n - 1
  PROVE  x % n = x
  OBVIOUS

\* One above the range comes back one modulus lower.
LEMMA WrapAbove ==
  ASSUME NEW n \in Nat \ {0}, NEW x \in n .. 2 * n - 1
  PROVE  x % n = x - n
  OBVIOUS

\* One below comes back one modulus higher.
LEMMA WrapBelow ==
  ASSUME NEW n \in Nat \ {0}, NEW x \in -n .. -1
  PROVE  x % n = x + n
  OBVIOUS

\* A quotient is at least b iff the dividend is at least the product.
LEMMA QuotientBound ==
  ASSUME NEW m \in Nat, NEW a \in Nat \ {0}, NEW b \in Nat
  PROVE  m \div a >= b <=> m >= a * b
  OBVIOUS

\* The signed values of a type are as many below 0 as from it, and some.
LEMMA HalfIsPositive ==
  ASSUME NEW w \in Width
  PROVE  Half[w] \in Nat \ {0}
  BY HalfAssumption

\* A cast keeps the values of its type.
LEMMA UnsignedKeeps ==
  ASSUME NEW w \in Width, NEW x \in UnsignedValue(w)
  PROVE  Unsigned(w, x) = x
<1>1. 2 * Half[w] \in Nat \ {0} BY HalfIsPositive
<1>2. x \in 0 .. 2 * Half[w] - 1 BY DEF UnsignedValue
<1> QED BY <1>1, <1>2, WrapWithin DEF Unsigned

\* So does the cast to a signed type.
LEMMA SignedKeeps ==
  ASSUME NEW w \in Width, NEW x \in SignedValue(w)
  PROVE  Signed(w, x) = x
<1> DEFINE h == Half[w]
<1>1. h \in Nat \ {0} BY HalfIsPositive
<1>2. x \in - h .. h - 1 BY DEF SignedValue
<1>3. 2 * h \in Nat \ {0} /\ x + h \in 0 .. 2 * h - 1 BY <1>1, <1>2
<1>4. (x + h) % (2 * h) = x + h BY <1>3, WrapWithin
<1> QED BY <1>1, <1>2, <1>4 DEF Signed

\* A value that is at most one period too far comes back by one period.
LEMMA SignedWraps ==
  ASSUME NEW w \in Width, NEW x \in Int, - 2 * Half[w] <= x, x < 2 * Half[w]
  PROVE  /\ x >= Half[w] => Signed(w, x) = x - 2 * Half[w]
         /\ x < - Half[w] => Signed(w, x) = x + 2 * Half[w]
<1> DEFINE h == Half[w]
<1>1. h \in Nat \ {0} /\ 2 * h \in Nat \ {0} BY HalfIsPositive
<1>2. CASE x >= h
  <2>1. x + h \in 2 * h .. 2 * (2 * h) - 1 BY <1>1, <1>2
  <2>2. (x + h) % (2 * h) = (x + h) - 2 * h BY <1>1, <2>1, WrapAbove
  <2> QED BY <1>1, <1>2, <2>2 DEF Signed
<1>3. CASE x < - h
  <2>1. x + h \in - (2 * h) .. - 1 BY <1>1, <1>3
  <2>2. (x + h) % (2 * h) = (x + h) + 2 * h BY <1>1, <2>1, WrapBelow
  <2> QED BY <1>1, <1>3, <2>2 DEF Signed
<1> QED BY <1>1, <1>2, <1>3

-----------------------------------------------------------------------------
(* The comparisons                                                         *)

\* The two columns of the table of macros are the truth and its opposite.
LEMMA HoldsIsTruth ==
  ASSUME NEW its \in BOOLEAN, NEW rel \in Relation, NEW a \in Int, NEW b \in Int
  PROVE  Holds(its, rel, a, b) = (its = Truth(rel, a, b))
<1>1. CASE its = TRUE
  <2>1. Holds(TRUE, rel, a, b) <=> Truth(rel, a, b) BY DEF Holds, Truth, Relation
  <2>2. Holds(TRUE, rel, a, b) \in BOOLEAN /\ Truth(rel, a, b) \in BOOLEAN
    BY DEF Holds, Truth, Relation
  <2> QED BY <1>1, <2>1, <2>2
<1>2. CASE its = FALSE
  <2>1. Holds(FALSE, rel, a, b) <=> ~ Truth(rel, a, b) BY DEF Holds, Truth, Relation
  <2>2. Holds(FALSE, rel, a, b) \in BOOLEAN /\ Truth(rel, a, b) \in BOOLEAN
    BY DEF Holds, Truth, Relation
  <2> QED BY <1>2, <2>1, <2>2
<1> QED BY <1>1, <1>2

\* The two forms of a range are the truth and its opposite.
LEMMA WithinIsTruth ==
  ASSUME NEW its \in BOOLEAN, NEW v \in Int, NEW min \in Int, NEW max \in Int
  PROVE  Within(its, v, min, max) = (its = (v \in min .. max))
  BY DEF Within

\* What a call with operands of its type is: the casts are gone.
LEMMA IntegersCompare ==
  ASSUME NEW type \in IntegerType, NEW its \in BOOLEAN, NEW rel \in Relation,
         NEW a \in TypeValue(type), NEW b \in TypeValue(type),
         NEW c, c.type = type, c.its = its, c.rel = rel,
         c.args[1] = a, c.args[2] = b
  PROVE  IntegerHolds(c) = (its = Truth(rel, a, b))
<1> USE CharAssumption
<1>1. BitsOf[type] \in Width BY DEF BitsOf, Width, IntegerType
<1>2. a \in Int /\ b \in Int
  BY <1>1, HalfIsPositive DEF TypeValue, SignedValue, UnsignedValue
<1>3. CASE type \in SignedType
  <2>1. IntegerHolds(c) = AsSigned(BitsOf[type], c)
    BY <1>3 DEF SignedType, BitsOf, IntegerHolds, I8, I16, I32, I64, CHAR, IntegerType
  <2>2. a \in SignedValue(BitsOf[type]) /\ b \in SignedValue(BitsOf[type])
    BY <1>3 DEF TypeValue
  <2>3. AsSigned(BitsOf[type], c) = Holds(its, rel, a, b)
    BY <1>1, <2>2, SignedKeeps DEF AsSigned
  <2> QED BY <1>2, <2>1, <2>3, HoldsIsTruth
<1>4. CASE type \notin SignedType
  <2>1. IntegerHolds(c) = AsUnsigned(BitsOf[type], c)
    BY <1>4 DEF SignedType, BitsOf, IntegerHolds, O8, O16, O32, O64, H8, H16, H32, H64,
                U8, U16, U32, U64, SIZE, CHAR, IntegerType
  <2>2. a \in UnsignedValue(BitsOf[type]) /\ b \in UnsignedValue(BitsOf[type])
    BY <1>4 DEF TypeValue
  <2>3. AsUnsigned(BitsOf[type], c) = Holds(its, rel, a, b)
    BY <1>1, <2>2, UnsignedKeeps DEF AsUnsigned
  <2> QED BY <1>2, <2>1, <2>3, HoldsIsTruth
<1> QED BY <1>3, <1>4

\* The same of the ranges.
LEMMA RangesCompare ==
  ASSUME NEW type \in RangeType, NEW its \in BOOLEAN,
         NEW v \in TypeValue(type), NEW min \in TypeValue(type), NEW max \in TypeValue(type),
         NEW c, c.type = type, c.its = its,
         c.args[1] = v, c.args[2] = min, c.args[3] = max
  PROVE  RangeHolds(c) = (its = (v \in min .. max))
<1> USE CharAssumption
<1>1. BitsOf[type] \in Width BY DEF BitsOf, Width, RangeType
<1>2. v \in Int /\ min \in Int /\ max \in Int
  BY <1>1, HalfIsPositive DEF TypeValue, SignedValue, UnsignedValue
<1>3. CASE type \in SignedType
  <2>1. RangeHolds(c) = RangeSigned(BitsOf[type], c)
    BY <1>3 DEF SignedType, BitsOf, RangeHolds, RangeCharacter, RangeType
  <2>2. {v, min, max} \subseteq SignedValue(BitsOf[type]) BY <1>3 DEF TypeValue
  <2>3. RangeSigned(BitsOf[type], c) = Within(its, v, min, max)
    BY <1>1, <2>2, SignedKeeps DEF RangeSigned
  <2> QED BY <1>2, <2>1, <2>3, WithinIsTruth
<1>4. CASE type \notin SignedType
  <2>1. RangeHolds(c) = RangeUnsigned(BitsOf[type], c)
    BY <1>4 DEF SignedType, BitsOf, RangeHolds, RangeCharacter, RangeType
  <2>2. {v, min, max} \subseteq UnsignedValue(BitsOf[type]) BY <1>4 DEF TypeValue
  <2>3. RangeUnsigned(BitsOf[type], c) = Within(its, v, min, max)
    BY <1>1, <2>2, UnsignedKeeps DEF RangeUnsigned
  <2> QED BY <1>2, <2>1, <2>3, WithinIsTruth
<1> QED BY <1>3, <1>4

-----------------------------------------------------------------------------
(* Overflow and distance                                                   *)

\* Three numbers, of which the third is what the machine made of the first two,
\* tell whether the machine's result is the true one.
LEMMA UnsignedSumShows ==
  ASSUME NEW a \in UnsignedValue(64), NEW b \in UnsignedValue(64)
  PROVE  OverflowHolds("ADD", a, b, Unsigned(64, a + b)) <=> a + b \in UnsignedValue(64)
<1> DEFINE n == 2 * Half[64]
<1>1. n \in Nat \ {0} BY HalfIsPositive DEF Width
<1>2. a \in 0 .. n - 1 /\ b \in 0 .. n - 1 BY DEF UnsignedValue
<1>3. CASE a + b < n
  <2>1. a + b \in 0 .. n - 1 BY <1>1, <1>2, <1>3
  <2>2. (a + b) % n = a + b BY <1>1, <2>1, WrapWithin
  <2> QED BY <1>1, <1>2, <2>1, <2>2 DEF OverflowHolds, Unsigned, UnsignedValue
<1>4. CASE a + b >= n
  <2>1. a + b \in n .. 2 * n - 1 BY <1>1, <1>2, <1>4
  <2>2. (a + b) % n = (a + b) - n BY <1>1, <2>1, WrapAbove
  <2> QED BY <1>1, <1>2, <1>4, <2>2 DEF OverflowHolds, Unsigned, UnsignedValue
<1> QED BY <1>1, <1>2, <1>3, <1>4

\* Likewise the operands of a difference of unsigned numbers,
LEMMA UnsignedDifferenceShows ==
  ASSUME NEW a \in UnsignedValue(64), NEW b \in UnsignedValue(64)
  PROVE  OverflowHolds("SUB", a, b, Unsigned(64, a - b)) <=> a - b \in UnsignedValue(64)
<1> DEFINE n == 2 * Half[64]
<1>1. n \in Nat \ {0} BY HalfIsPositive DEF Width
<1>2. a \in 0 .. n - 1 /\ b \in 0 .. n - 1 BY DEF UnsignedValue
<1>3. (a - b) % n \in 0 .. n - 1 BY <1>1, <1>2
<1> QED BY <1>1, <1>2, <1>3 DEF OverflowHolds, Unsigned, UnsignedValue

\* those of a product, by division,
LEMMA UnsignedProductShows ==
  ASSUME NEW a \in UnsignedValue(64), NEW b \in UnsignedValue(64), NEW r
  PROVE  OverflowHolds("MUL", a, b, r) <=> a * b \in UnsignedValue(64)
<1> DEFINE m == 2 * Half[64] - 1
<1>1. m \in Nat BY HalfIsPositive DEF Width
<1>2. a \in Nat /\ b \in Nat /\ a <= m /\ b <= m BY <1>1 DEF UnsignedValue
<1>3. a * b \in Nat BY <1>2
<1>4. a * b \in UnsignedValue(64) <=> a * b <= m BY <1>1, <1>3 DEF UnsignedValue
<1>5. CASE a = 0 \/ b = 0
  <2>1. a * b = 0 BY <1>2, <1>5
  <2> QED BY <1>1, <1>4, <1>5, <2>1 DEF OverflowHolds
<1>6. CASE a # 0 /\ b # 0
  <2>1. m \div a >= b <=> m >= a * b BY <1>1, <1>2, <1>6, QuotientBound
  <2>2. OverflowHolds("MUL", a, b, r) <=> m \div a >= b BY <1>6 DEF OverflowHolds
  <2> QED BY <1>1, <1>3, <1>4, <2>1, <2>2
<1> QED BY <1>5, <1>6

\* the sum of signed numbers that are not negative,
LEMMA SignedSumShows ==
  ASSUME NEW a \in SignedValue(64), NEW b \in SignedValue(64), a >= 0, b >= 0
  PROVE  OverflowHolds("ADD", a, b, Signed(64, a + b)) <=> a + b \in SignedValue(64)
<1> DEFINE h == Half[64]
<1>1. h \in Nat \ {0} /\ 64 \in Width BY HalfIsPositive DEF Width
<1>2. a \in 0 .. h - 1 /\ b \in 0 .. h - 1 BY <1>1 DEF SignedValue
<1>3. CASE a + b < h
  <2>1. a + b \in SignedValue(64) BY <1>1, <1>2, <1>3 DEF SignedValue
  <2>2. Signed(64, a + b) = a + b BY <1>1, <2>1, SignedKeeps
  <2> QED BY <1>2, <2>1, <2>2 DEF OverflowHolds
<1>4. CASE a + b >= h
  <2>1. Signed(64, a + b) = (a + b) - 2 * h BY <1>1, <1>2, <1>4, SignedWraps
  <2>2. a + b \notin SignedValue(64) BY <1>1, <1>2, <1>4 DEF SignedValue
  <2> QED BY <1>1, <1>2, <2>1, <2>2 DEF OverflowHolds
<1> QED BY <1>1, <1>2, <1>3, <1>4

\* and the sign of a difference of signed numbers.
LEMMA SignedDifferenceShows ==
  ASSUME NEW a \in SignedValue(64), NEW b \in SignedValue(64)
  PROVE  OverflowHolds("SUB", a, b, Signed(64, a - b)) <=> a - b \in SignedValue(64)
<1> DEFINE h == Half[64]
<1>1. h \in Nat \ {0} /\ 64 \in Width BY HalfIsPositive DEF Width
<1>2. a \in - h .. h - 1 /\ b \in - h .. h - 1 BY DEF SignedValue
<1>3. a - b \in Int /\ - 2 * h <= a - b /\ a - b < 2 * h BY <1>1, <1>2
<1>4. CASE a - b >= h
  <2>1. Signed(64, a - b) = (a - b) - 2 * h BY <1>1, <1>3, <1>4, SignedWraps
  <2>2. a - b \notin SignedValue(64) BY <1>1, <1>2, <1>4 DEF SignedValue
  <2> QED BY <1>1, <1>2, <1>3, <1>4, <2>1, <2>2 DEF OverflowHolds
<1>5. CASE a - b < - h
  <2>1. Signed(64, a - b) = (a - b) + 2 * h BY <1>1, <1>3, <1>5, SignedWraps
  <2>2. a - b \notin SignedValue(64) BY <1>1, <1>2, <1>5 DEF SignedValue
  <2> QED BY <1>1, <1>2, <1>3, <1>5, <2>1, <2>2 DEF OverflowHolds
<1>6. CASE - h <= a - b /\ a - b < h
  <2>1. a - b \in SignedValue(64) BY <1>1, <1>2, <1>6 DEF SignedValue
  <2>2. Signed(64, a - b) = a - b BY <1>1, <2>1, SignedKeeps
  <2> QED BY <1>1, <1>2, <2>1, <2>2 DEF OverflowHolds
<1> QED BY <1>1, <1>3, <1>4, <1>5, <1>6

\* A difference that is a value of the type, and not the least, has its distance.
LEMMA DistanceIsMagnitude ==
  ASSUME NEW a \in SignedValue(64), NEW b \in SignedValue(64),
         a - b \in SignedValue(64), a - b # - Half[64]
  PROVE  Distance64(a, b) = Magnitude(a - b)
<1> DEFINE h == Half[64]
<1>1. h \in Nat \ {0} /\ 64 \in Width BY HalfIsPositive DEF Width
<1>2. Signed(64, a) = a /\ Signed(64, b) = b BY <1>1, SignedKeeps
<1>3. Signed(64, a - b) = a - b BY <1>1, SignedKeeps
<1>4. a - b \in - h + 1 .. h - 1 BY <1>1 DEF SignedValue
<1>5. a - b < 0 => - (a - b) \in SignedValue(64) BY <1>1, <1>4 DEF SignedValue
<1>6. a - b < 0 => Signed(64, - (a - b)) = - (a - b) BY <1>1, <1>5, SignedKeeps
<1> QED BY <1>2, <1>3, <1>6 DEF Distance64, Magnitude

-----------------------------------------------------------------------------
(* The calls                                                               *)

\* The forms of the calls that the theorems are about.
KnownCall(c) ==
  /\ c.section = "INTEGER" =>
       \E type \in IntegerType, its \in BOOLEAN, rel \in Relation, a, b \in Operand :
         c = Form("INTEGER", type, its, rel, << a, b >>)
  /\ c.section = "RANGE" =>
       \E type \in RangeType, its \in BOOLEAN, v, min, max \in Limit :
         c = Form("RANGE", type, its, "WITHIN", << v, min, max >>)
  /\ c.section = "TIME" =>
       \E rel, a, b, t : c = Form("TIME", "I64", TRUE, rel, << a, b, t >>)
  /\ c.section = "OVERFLOW" =>
       \E type \in {"I64", "U64"}, rel \in {"ADD", "SUB", "MUL"}, a, b \in Operand :
         /\ rel = "MUL" => type = "U64"
         /\ {a, b} \subseteq (IF type = "I64" THEN SignedValue(64) ELSE UnsignedValue(64))
         /\ c = Form("OVERFLOW", type, TRUE, rel, << a, b, Computed(type, rel, a, b) >>)

OtherCall ==
  \E section, type, its, rel, args :
    /\ section \notin {"INTEGER", "RANGE", "TIME", "OVERFLOW"}
    /\ Judge(Form(section, type, its, rel, args))

\* Between two calls the verdict is the condition of the last one.
CallInv ==
  \/ call = NoCall
  \/ KnownCall(call) /\ verdict = Condition(call)

\* Judging a call of a known form leaves its condition as the verdict.
LEMMA JudgedIsKnown ==
  ASSUME NEW c, KnownCall(c), Judge(c)
  PROVE  CallInv'
<1> HIDE DEF KnownCall, Condition
<1>1. call' = c /\ verdict' = Condition(c) BY DEF Judge
<1>2. KnownCall(call') /\ verdict' = Condition(call') BY <1>1
<1> QED BY <1>2 DEF CallInv

\* The other sections have names of their own.
LEMMA OtherIsKnown ==
  ASSUME NEW section, NEW type, NEW its, NEW rel, NEW args,
         section \notin {"INTEGER", "RANGE", "TIME", "OVERFLOW"}
  PROVE  KnownCall(Form(section, type, its, rel, args))
  BY DEF KnownCall, Form

\* The call being judged is one the actions make, with the verdict of its
\* condition.
LEMMA CallInvHolds == Spec => []CallInv
<1>1. Init => CallInv BY DEF Init, CallInv
<1>2. CallInv /\ [Next]_vars => CallInv'
  <2> SUFFICES ASSUME CallInv, [Next]_vars PROVE CallInv' OBVIOUS
  <2>1. CASE AssumeInteger
    <3>1. PICK type \in IntegerType, its \in BOOLEAN, rel \in Relation, a \in Operand, b \in Operand :
            Judge(Form("INTEGER", type, its, rel, << a, b >>))
      BY <2>1 DEF AssumeInteger
    <3>2. KnownCall(Form("INTEGER", type, its, rel, << a, b >>)) BY DEF KnownCall, Form
    <3> QED BY <3>1, <3>2, JudgedIsKnown
  <2>2. CASE AssumeRange
    <3>1. PICK type \in RangeType, its \in BOOLEAN, v \in Limit, min \in Limit, max \in Limit :
            Judge(Form("RANGE", type, its, "WITHIN", << v, min, max >>))
      BY <2>2 DEF AssumeRange
    <3>2. KnownCall(Form("RANGE", type, its, "WITHIN", << v, min, max >>)) BY DEF KnownCall, Form
    <3> QED BY <3>1, <3>2, JudgedIsKnown
  <2>3. CASE AssumeTime
    <3>1. PICK rel, a, b, t : Judge(Form("TIME", "I64", TRUE, rel, << a, b, t >>))
      BY <2>3 DEF AssumeTime
    <3>2. KnownCall(Form("TIME", "I64", TRUE, rel, << a, b, t >>)) BY DEF KnownCall, Form
    <3> QED BY <3>1, <3>2, JudgedIsKnown
  <2>4. CASE AssumeNoOverflow
    <3>1. PICK type \in {"I64", "U64"}, rel \in {"ADD", "SUB", "MUL"}, a \in Operand, b \in Operand :
            /\ rel = "MUL" => type = "U64"
            /\ {a, b} \subseteq (IF type = "I64" THEN SignedValue(64) ELSE UnsignedValue(64))
            /\ Judge(Form("OVERFLOW", type, TRUE, rel, << a, b, Computed(type, rel, a, b) >>))
      BY <2>4 DEF AssumeNoOverflow
    <3>2. KnownCall(Form("OVERFLOW", type, TRUE, rel, << a, b, Computed(type, rel, a, b) >>))
      <4> DEFINE c == Form("OVERFLOW", type, TRUE, rel, << a, b, Computed(type, rel, a, b) >>)
      <4>1. c.section = "OVERFLOW" BY DEF Form
      <4> QED BY <3>1, <4>1 DEF KnownCall
    <3> QED BY <3>1, <3>2, JudgedIsKnown
  <2>5. CASE \/ AssumeGuard \/ AssumeHash \/ AssumeBoolean \/ AssumePointer \/ AssumeFloat
             \/ AssumeFloatRange \/ AssumeNotFinite \/ AssumeMemory \/ AssumeString
             \/ AssumeBits \/ AssumeResult \/ AssumeMasked
    <3>1. PICK section, type, its, rel, args :
            /\ section \notin {"INTEGER", "RANGE", "TIME", "OVERFLOW"}
            /\ Judge(Form(section, type, its, rel, args))
      <4>1. ASSUME AssumeGuard PROVE OtherCall BY <4>1 DEF AssumeGuard, OtherCall
      <4>2. ASSUME AssumeHash PROVE OtherCall BY <4>2 DEF AssumeHash, OtherCall
      <4>3. ASSUME AssumeBoolean PROVE OtherCall BY <4>3 DEF AssumeBoolean, OtherCall
      <4>4. ASSUME AssumePointer PROVE OtherCall BY <4>4 DEF AssumePointer, OtherCall
      <4>5. ASSUME AssumeFloat PROVE OtherCall BY <4>5 DEF AssumeFloat, OtherCall
      <4>6. ASSUME AssumeFloatRange PROVE OtherCall BY <4>6 DEF AssumeFloatRange, OtherCall
      <4>7. ASSUME AssumeNotFinite PROVE OtherCall BY <4>7 DEF AssumeNotFinite, OtherCall
      <4>8. ASSUME AssumeMemory PROVE OtherCall BY <4>8 DEF AssumeMemory, OtherCall
      <4>9. ASSUME AssumeString PROVE OtherCall BY <4>9 DEF AssumeString, OtherCall
      <4>10. ASSUME AssumeBits PROVE OtherCall BY <4>10 DEF AssumeBits, OtherCall
      <4>11. ASSUME AssumeResult PROVE OtherCall BY <4>11 DEF AssumeResult, OtherCall
      <4>12. ASSUME AssumeMasked PROVE OtherCall BY <4>12 DEF AssumeMasked, OtherCall
      <4> QED BY <2>5, <4>1, <4>2, <4>3, <4>4, <4>5, <4>6, <4>7, <4>8, <4>9, <4>10, <4>11, <4>12 DEF OtherCall
    <3>2. KnownCall(Form(section, type, its, rel, args)) BY <3>1, OtherIsKnown
    <3> QED BY <3>1, <3>2, JudgedIsKnown
  <2>6. CASE GoOn BY <2>6 DEF GoOn, CallInv
  <2>7. CASE Aborted \/ UNCHANGED vars
    <3>1. call' = call /\ verdict' = verdict BY <2>7 DEF Aborted, vars
    <3> QED BY <3>1 DEF CallInv
  <2> QED BY <2>1, <2>2, <2>3, <2>4, <2>5, <2>6, <2>7 DEF Next
<1> QED BY <1>1, <1>2, PTL DEF Spec

-----------------------------------------------------------------------------
(* The theorems                                                            *)

\* For types of any width, OnlyNarrowingMisleads: the 160 macros for octal,
\* hexadecimal, signed and unsigned integers, those for sizes and characters,
\* and the ranges say what their names say of values of their types.
THEOREM OnlyNarrowingMisleadsHolds == Spec => []OnlyNarrowingMisleads
<1>1. CallInv => OnlyNarrowingMisleads
  <2> SUFFICES ASSUME CallInv PROVE OnlyNarrowingMisleads OBVIOUS
  <2>1. CASE call = NoCall BY <2>1 DEF NoCall, OnlyNarrowingMisleads, Judged
  <2>2. CASE KnownCall(call) /\ verdict = Condition(call)
    <3>1. ASSUME Judged("INTEGER"), Fits(call)
          PROVE  verdict = (call.its = Truth(call.rel, call.args[1], call.args[2]))
      <4>1. PICK type \in IntegerType, its \in BOOLEAN, rel \in Relation, a \in Operand, b \in Operand :
              call = Form("INTEGER", type, its, rel, << a, b >>)
        BY <2>2, <3>1 DEF KnownCall, Judged
      <4>2. /\ call.type = type /\ call.its = its /\ call.rel = rel
            /\ call.args = << a, b >>
        BY <4>1 DEF Form
      <4>3. a \in TypeValue(type) /\ b \in TypeValue(type) BY <3>1, <4>2 DEF Fits
      <4>4. verdict = IntegerHolds(call) BY <2>2, <3>1 DEF Condition, Judged
      <4> QED BY <4>2, <4>3, <4>4, IntegersCompare
    <3>2. ASSUME Judged("RANGE"), Fits(call)
          PROVE  verdict = (call.its = (call.args[1] \in call.args[2] .. call.args[3]))
      <4>1. PICK type \in RangeType, its \in BOOLEAN, v \in Limit, min \in Limit, max \in Limit :
              call = Form("RANGE", type, its, "WITHIN", << v, min, max >>)
        BY <2>2, <3>2 DEF KnownCall, Judged
      <4>2. /\ call.type = type /\ call.its = its
            /\ call.args = << v, min, max >>
        BY <4>1 DEF Form
      <4>3. v \in TypeValue(type) /\ min \in TypeValue(type) /\ max \in TypeValue(type)
        BY <3>2, <4>2 DEF Fits
      <4>4. verdict = RangeHolds(call) BY <2>2, <3>2 DEF Condition, Judged
      <4> QED BY <4>2, <4>3, <4>4, RangesCompare
    <3> QED BY <3>1, <3>2 DEF OnlyNarrowingMisleads
  <2> QED BY <2>1, <2>2 DEF CallInv
<1> QED BY <1>1, CallInvHolds, PTL

\* For a type of any width, OverflowIsFound: the operands and the wrapped
\* result are enough to tell whether a sum, difference or product fits.
THEOREM OverflowIsFoundHolds == Spec => []OverflowIsFound
<1>1. CallInv => OverflowIsFound
  <2> SUFFICES ASSUME CallInv, Judged("OVERFLOW"), call.rel = "ADD" => call.args[1] >= 0 /\ call.args[2] >= 0
               PROVE  verdict = (Exact(call.rel, call.args[1], call.args[2]) \in TypeValue(call.type))
    BY DEF OverflowIsFound
  <2>1. KnownCall(call) /\ verdict = Condition(call) BY DEF CallInv, NoCall, Judged
  <2>2. PICK type \in {"I64", "U64"}, rel \in {"ADD", "SUB", "MUL"}, a \in Operand, b \in Operand :
          /\ rel = "MUL" => type = "U64"
          /\ {a, b} \subseteq (IF type = "I64" THEN SignedValue(64) ELSE UnsignedValue(64))
          /\ call = Form("OVERFLOW", type, TRUE, rel, << a, b, Computed(type, rel, a, b) >>)
    BY <2>1 DEF KnownCall, Judged
  <2> DEFINE r == Computed(type, rel, a, b)
  <2>3. /\ call.type = type /\ call.rel = rel
        /\ call.args[1] = a /\ call.args[2] = b /\ call.args[3] = r
    BY <2>2 DEF Form
  <2>4. verdict = OverflowHolds(rel, a, b, r) BY <2>1, <2>3 DEF Condition, Judged
  <2>5. TypeValue(type) = IF type = "I64" THEN SignedValue(64) ELSE UnsignedValue(64)
    BY <2>2 DEF TypeValue, SignedType, BitsOf
  <2>11. ASSUME OverflowHolds(rel, a, b, r) <=> Exact(rel, a, b) \in TypeValue(call.type)
         PROVE  verdict = (Exact(call.rel, call.args[1], call.args[2]) \in TypeValue(call.type))
    <3>1. OverflowHolds(rel, a, b, r) \in BOOLEAN BY DEF OverflowHolds
    <3> HIDE DEF r
    <3> QED BY <2>3, <2>4, <2>11, <3>1
  <2>6. CASE type = "U64" /\ rel = "ADD"
    <3>1. a \in UnsignedValue(64) /\ b \in UnsignedValue(64) /\ TypeValue(call.type) = UnsignedValue(64) BY <2>2, <2>3, <2>5, <2>6
    <3>2. OverflowHolds(rel, a, b, r) <=> a + b \in UnsignedValue(64)
      BY <2>3, <2>6, <3>1, UnsignedSumShows DEF Computed, Exact
    <3>3. OverflowHolds(rel, a, b, r) <=> Exact(rel, a, b) \in TypeValue(call.type)
      BY <2>6, <3>1, <3>2 DEF Exact
    <3> QED BY <2>11, <3>3
  <2>7. CASE type = "U64" /\ rel = "SUB"
    <3>1. a \in UnsignedValue(64) /\ b \in UnsignedValue(64) /\ TypeValue(call.type) = UnsignedValue(64) BY <2>2, <2>3, <2>5, <2>7
    <3>2. OverflowHolds(rel, a, b, r) <=> a - b \in UnsignedValue(64)
      BY <2>3, <2>7, <3>1, UnsignedDifferenceShows DEF Computed, Exact
    <3>3. OverflowHolds(rel, a, b, r) <=> Exact(rel, a, b) \in TypeValue(call.type)
      BY <2>7, <3>1, <3>2 DEF Exact
    <3> QED BY <2>11, <3>3
  <2>8. CASE type = "U64" /\ rel = "MUL"
    <3>1. a \in UnsignedValue(64) /\ b \in UnsignedValue(64) /\ TypeValue(call.type) = UnsignedValue(64) BY <2>2, <2>3, <2>5, <2>8
    <3>2. OverflowHolds(rel, a, b, r) <=> a * b \in UnsignedValue(64)
      BY <2>3, <2>8, <3>1, UnsignedProductShows DEF Computed, Exact
    <3>3. OverflowHolds(rel, a, b, r) <=> Exact(rel, a, b) \in TypeValue(call.type)
      BY <2>8, <3>1, <3>2 DEF Exact
    <3> QED BY <2>11, <3>3
  <2>9. CASE type = "I64" /\ rel = "ADD"
    <3>1. a \in SignedValue(64) /\ b \in SignedValue(64) /\ TypeValue(call.type) = SignedValue(64) BY <2>2, <2>3, <2>5, <2>9
    <3>2. OverflowHolds(rel, a, b, r) <=> a + b \in SignedValue(64)
      BY <2>3, <2>9, <3>1, SignedSumShows DEF Computed, Exact
    <3>3. OverflowHolds(rel, a, b, r) <=> Exact(rel, a, b) \in TypeValue(call.type)
      BY <2>9, <3>1, <3>2 DEF Exact
    <3> QED BY <2>11, <3>3
  <2>10. CASE type = "I64" /\ rel = "SUB"
    <3>1. a \in SignedValue(64) /\ b \in SignedValue(64) /\ TypeValue(call.type) = SignedValue(64) BY <2>2, <2>3, <2>5, <2>10
    <3>2. OverflowHolds(rel, a, b, r) <=> a - b \in SignedValue(64)
      BY <2>3, <2>10, <3>1, SignedDifferenceShows DEF Computed, Exact
    <3>3. OverflowHolds(rel, a, b, r) <=> Exact(rel, a, b) \in TypeValue(call.type)
      BY <2>10, <3>1, <3>2 DEF Exact
    <3> QED BY <2>11, <3>3
  <2> QED BY <2>2, <2>6, <2>7, <2>8, <2>9, <2>10
<1> QED BY <1>1, CallInvHolds, PTL

\* For a type of any width, ToleranceMeansDistance: times whose difference the
\* type can hold are compared by their distance.
THEOREM ToleranceMeansDistanceHolds == Spec => []ToleranceMeansDistance
<1>1. CallInv => ToleranceMeansDistance
  <2> SUFFICES ASSUME CallInv, Judged("TIME"), call.rel \in {"WITHIN_TOLERANCE", "EQUIVALENT"},
                      Fits(call), call.args[1] - call.args[2] \in SignedValue(64) \ {- Half[64]}
               PROVE  verdict = (Magnitude(call.args[1] - call.args[2]) <= call.args[3])
    BY DEF ToleranceMeansDistance
  <2>1. KnownCall(call) /\ verdict = Condition(call) BY DEF CallInv, NoCall, Judged
  <2>2. PICK rel, a, b, t : call = Form("TIME", "I64", TRUE, rel, << a, b, t >>)
    BY <2>1 DEF KnownCall, Judged
  <2>3. call.type = "I64" /\ call.rel = rel /\ call.args = << a, b, t >> BY <2>2 DEF Form
  <2>4. TypeValue("I64") = SignedValue(64) BY DEF TypeValue, SignedType, BitsOf
  <2>5. a \in SignedValue(64) /\ b \in SignedValue(64) /\ t \in SignedValue(64)
    BY <2>3, <2>4 DEF Fits
  <2>6. Distance64(a, b) = Magnitude(a - b) BY <2>3, <2>5, DistanceIsMagnitude
  <2>7. Signed(64, t) = t BY <2>5, SignedKeeps DEF Width
  <2>8. verdict = TimeHolds(call) BY <2>1 DEF Condition, Judged
  <2>9. TimeHolds(call) = (Distance64(a, b) <= Signed(64, t)) BY <2>3 DEF TimeHolds
  <2> QED BY <2>3, <2>6, <2>7, <2>8, <2>9
<1> QED BY <1>1, CallInvHolds, PTL

-----------------------------------------------------------------------------
(* The two forms of a macro                                                *)

\* Of the two forms of a call, what OppositesDisagree says.
Decided(c) ==
  HasOpposite(c) =>
    IF Undecided(c) THEN ~ Condition(c) /\ ~ Condition(Opposite(c))
    ELSE IF EmptyMask(c) THEN Condition(c) /\ Condition(Opposite(c))
    ELSE Condition(c) # Condition(Opposite(c))

\* A call and its opposite differ in nothing else.
LEMMA OppositeForm ==
  ASSUME NEW section, NEW type, NEW its, NEW rel, NEW args
  PROVE  Opposite(Form(section, type, its, rel, args)) = Form(section, type, ~ its, rel, args)
  BY DEF Opposite, Form

\* Of two opposite claims about the same truth one holds.
LEMMA OneHolds ==
  ASSUME NEW its \in BOOLEAN, NEW t \in BOOLEAN, NEW x, NEW y,
         x = (its = t), y = ((~ its) = t)
  PROVE  x # y
<1>1. CASE its = TRUE
  <2>1. x = t /\ y = (FALSE = t) BY <1>1
  <2> QED BY <2>1
<1>2. CASE its = FALSE
  <2>1. y = t /\ x = (FALSE = t) BY <1>2
  <2> QED BY <2>1
<1> QED BY <1>1, <1>2

\* A form whose condition is its claim about a truth is decided.
LEMMA TruthDecides ==
  ASSUME NEW section, NEW type, NEW its \in BOOLEAN, NEW rel, NEW args, NEW t \in BOOLEAN,
         \A i \in BOOLEAN : Condition(Form(section, type, i, rel, args)) = (i = t),
         ~ Undecided(Form(section, type, its, rel, args)),
         ~ EmptyMask(Form(section, type, its, rel, args))
  PROVE  Decided(Form(section, type, its, rel, args))
<1> DEFINE c == Form(section, type, its, rel, args)
           d == Form(section, type, ~ its, rel, args)
<1>1. (~ its) \in BOOLEAN OBVIOUS
<1>2. Condition(c) = (its = t) OBVIOUS
<1>3. Condition(d) = ((~ its) = t) BY <1>1
<1>4. Opposite(c) = d BY OppositeForm
<1>5. Condition(c) # Condition(d)
  <2> HIDE DEF c, d
  <2> QED BY <1>2, <1>3, OneHolds
<1> QED BY <1>4, <1>5 DEF Decided

\* The condition of a call is that of its section.
LEMMA ConditionOf ==
  ASSUME NEW c
  PROVE  /\ c.section = "INTEGER" => Condition(c) = IntegerHolds(c)
         /\ c.section = "RANGE" => Condition(c) = RangeHolds(c)
         /\ c.section = "HASH" => Condition(c) = HashHolds(c)
         /\ c.section = "BOOLEAN" => Condition(c) = BooleanHolds(c.its, c.rel, c.args[1])
         /\ c.section = "POINTER" => Condition(c) = PointerHolds(c.its, c.rel, c.args[1], c.args[2])
         /\ c.section = "FLOAT"
              => Condition(c) = FloatHolds(c.its, c.rel, c.args[1], c.args[2], c.args[3])
         /\ c.section = "FLOAT_RANGE"
              => Condition(c) = FloatRange(c.its, c.args[1], c.args[2], c.args[3])
         /\ c.section = "MEMORY" => Condition(c) = MemoryHolds(c)
         /\ c.section = "STRING" => Condition(c) = StringHolds(c)
         /\ c.section = "BITS" => Condition(c) = BitsHold(c)
  BY DEF Condition

\* Casts give integers.
LEMMA CastsAreIntegers ==
  ASSUME NEW w \in Width, NEW x \in Int
  PROVE  Signed(w, x) \in Int /\ Unsigned(w, x) \in Int
<1>1. Half[w] \in Int /\ 2 * Half[w] \in Nat \ {0} BY HalfIsPositive
<1>2. x % (2 * Half[w]) \in Int /\ (x + Half[w]) % (2 * Half[w]) \in Int BY <1>1
<1> QED BY <1>1, <1>2 DEF Signed, Unsigned

\* Only floating point numbers and masks leave a question open.
LEMMA Ordinary ==
  ASSUME NEW section, NEW type, NEW its, NEW rel, NEW args,
         section \notin {"FLOAT", "FLOAT_RANGE"}, rel # "BITMASK_SET"
  PROVE  /\ ~ Undecided(Form(section, type, its, rel, args))
         /\ ~ EmptyMask(Form(section, type, its, rel, args))
  BY DEF Undecided, EmptyMask, Form

\* Of every macro for integers the two forms are opposites, whatever the casts do.
LEMMA IntegerDecided ==
  ASSUME NEW type \in IntegerType, NEW its \in BOOLEAN, NEW rel \in Relation,
         NEW a \in Int, NEW b \in Int
  PROVE  Decided(Form("INTEGER", type, its, rel, << a, b >>))
<1> DEFINE w == BitsOf[type]
           x == IF type \in SignedType THEN Signed(w, a) ELSE Unsigned(w, a)
           y == IF type \in SignedType THEN Signed(w, b) ELSE Unsigned(w, b)
           c(i) == Form("INTEGER", type, i, rel, << a, b >>)
<1>1. w \in Width BY DEF BitsOf, Width, IntegerType
<1>2. x \in Int /\ y \in Int BY <1>1, CastsAreIntegers
<1>3. ASSUME NEW i \in BOOLEAN PROVE Condition(c(i)) = (i = Truth(rel, x, y))
  <2>1. /\ c(i).type = type /\ c(i).its = i /\ c(i).rel = rel /\ c(i).section = "INTEGER"
        /\ c(i).args[1] = a /\ c(i).args[2] = b
    BY DEF Form
  <2> DEFINE d == c(i)
  <2> HIDE DEF d
  <2>2. IntegerHolds(d) = Holds(i, rel, x, y)
    <3>1. CASE type \in SignedType
      <4>1. IntegerHolds(d) = AsSigned(w, d)
        BY <2>1, <3>1, CharAssumption
           DEF d, SignedType, BitsOf, IntegerHolds, I8, I16, I32, I64, CHAR, IntegerType
      <4> QED BY <2>1, <3>1, <4>1 DEF d, AsSigned
    <3>2. CASE type \notin SignedType
      <4>1. IntegerHolds(d) = AsUnsigned(w, d)
        BY <2>1, <3>2, CharAssumption
           DEF d, SignedType, BitsOf, IntegerHolds, O8, O16, O32, O64, H8, H16, H32, H64,
               U8, U16, U32, U64, SIZE, CHAR, IntegerType
      <4> QED BY <2>1, <3>2, <4>1 DEF d, AsUnsigned
    <3> QED BY <3>1, <3>2
  <2>3. Holds(i, rel, x, y) = (i = Truth(rel, x, y)) BY <1>2, HoldsIsTruth
  <2>4. Condition(d) = IntegerHolds(d) BY <2>1, ConditionOf DEF d
  <2> HIDE DEF x, y, c
  <2> QED BY <2>2, <2>3, <2>4 DEF d
<1>4. Truth(rel, x, y) \in BOOLEAN BY DEF Truth, Relation
<1>5. ~ Undecided(c(its)) /\ ~ EmptyMask(c(its)) BY Ordinary DEF Relation
<1> HIDE DEF x, y
<1> QED BY <1>3, <1>4, <1>5, TruthDecides

\* The same of the ranges.
LEMMA RangeDecided ==
  ASSUME NEW type \in RangeType, NEW its \in BOOLEAN,
         NEW v \in Int, NEW min \in Int, NEW max \in Int
  PROVE  Decided(Form("RANGE", type, its, "WITHIN", << v, min, max >>))
<1> DEFINE w == BitsOf[type]
           cast(n) == IF type \in SignedType THEN Signed(w, n) ELSE Unsigned(w, n)
           t == cast(v) \in cast(min) .. cast(max)
           c(i) == Form("RANGE", type, i, "WITHIN", << v, min, max >>)
<1>1. w \in Width BY DEF BitsOf, Width, RangeType
<1>2. cast(v) \in Int /\ cast(min) \in Int /\ cast(max) \in Int BY <1>1, CastsAreIntegers
<1>3. ASSUME NEW i \in BOOLEAN PROVE Condition(c(i)) = (i = t)
  <2>1. /\ c(i).type = type /\ c(i).its = i /\ c(i).section = "RANGE"
        /\ c(i).args[1] = v /\ c(i).args[2] = min /\ c(i).args[3] = max
    BY DEF Form
  <2> DEFINE d == c(i)
  <2> HIDE DEF d
  <2>2. RangeHolds(d) = Within(i, cast(v), cast(min), cast(max))
    <3>1. CASE type \in SignedType
      <4>1. RangeHolds(d) = RangeSigned(w, d)
        BY <2>1, <3>1, CharAssumption
           DEF d, SignedType, BitsOf, RangeHolds, RangeCharacter, RangeType
      <4> QED BY <2>1, <3>1, <4>1 DEF d, RangeSigned
    <3>2. CASE type \notin SignedType
      <4>1. RangeHolds(d) = RangeUnsigned(w, d)
        BY <2>1, <3>2, CharAssumption
           DEF d, SignedType, BitsOf, RangeHolds, RangeCharacter, RangeType
      <4> QED BY <2>1, <3>2, <4>1 DEF d, RangeUnsigned
    <3> QED BY <3>1, <3>2
  <2>3. Within(i, cast(v), cast(min), cast(max)) = (i = t)
    <3> HIDE DEF cast
    <3> QED BY <1>2, WithinIsTruth
  <2>4. Condition(d) = RangeHolds(d) BY <2>1, ConditionOf DEF d
  <2> HIDE DEF t, c
  <2> QED BY <2>2, <2>3, <2>4 DEF d
<1>4. t \in BOOLEAN OBVIOUS
<1>5. ~ Undecided(c(its)) /\ ~ EmptyMask(c(its)) BY Ordinary
<1> HIDE DEF t
<1> QED BY <1>3, <1>4, <1>5, TruthDecides

\* Hashes, truth values and pointers are compared, and claimed to be so or not.
LEMMA HashDecided ==
  ASSUME NEW its \in BOOLEAN, NEW rel \in {"EQUAL", "VALID"}, NEW a, NEW b
  PROVE  Decided(Form("HASH", "U64", its, rel, << a, b >>))
<1> DEFINE c(i) == Form("HASH", "U64", i, rel, << a, b >>)
           t == IF rel = "EQUAL" THEN a = b ELSE a # 0
<1>1. ASSUME NEW i \in BOOLEAN PROVE Condition(c(i)) = (i = t)
  <2>1. /\ c(i).its = i /\ c(i).rel = rel /\ c(i).section = "HASH"
        /\ c(i).args[1] = a /\ c(i).args[2] = b
    BY DEF Form
  <2> DEFINE d == c(i)
  <2> HIDE DEF d
  <2>2. HashHolds(d) = (t = i) BY <2>1 DEF d, HashHolds
  <2>3. Condition(d) = HashHolds(d) BY <2>1, ConditionOf DEF d
  <2> HIDE DEF t, c
  <2> QED BY <2>2, <2>3 DEF d
<1>2. t \in BOOLEAN OBVIOUS
<1>3. ~ Undecided(c(its)) /\ ~ EmptyMask(c(its)) BY Ordinary
<1> HIDE DEF t
<1> QED BY <1>1, <1>2, <1>3, TruthDecides

\* A truth value is as claimed, or not.
LEMMA BooleanDecided ==
  ASSUME NEW its \in BOOLEAN, NEW rel \in {"TRUE", "FALSE"}, NEW x \in BOOLEAN
  PROVE  Decided(Form("BOOLEAN", "BOOL", its, rel, << x >>))
<1> DEFINE c(i) == Form("BOOLEAN", "BOOL", i, rel, << x >>)
           t == IF rel = "TRUE" THEN x ELSE ~ x
<1>1. ASSUME NEW i \in BOOLEAN PROVE Condition(c(i)) = (i = t)
  <2>1. /\ c(i).its = i /\ c(i).rel = rel /\ c(i).section = "BOOLEAN" /\ c(i).args[1] = x
    BY DEF Form
  <2> DEFINE d == c(i)
  <2> HIDE DEF d
  <2>2. BooleanHolds(i, rel, x) = (i = t)
    <3>1. CASE rel = "TRUE" BY <3>1 DEF BooleanHolds
    <3>2. CASE rel = "FALSE"
      <4>1. BooleanHolds(i, rel, x) = (x # i) /\ t = ~ x BY <3>2 DEF BooleanHolds
      <4> HIDE DEF t
      <4> QED BY <4>1
    <3> QED BY <3>1, <3>2
  <2>3. Condition(d) = BooleanHolds(d.its, d.rel, d.args[1]) BY <2>1, ConditionOf DEF d
  <2>4. Condition(d) = BooleanHolds(i, rel, x) BY <2>1, <2>3 DEF d
  <2> HIDE DEF t, c
  <2> QED BY <2>2, <2>4 DEF d
<1>2. t \in BOOLEAN OBVIOUS
<1>3. ~ Undecided(c(its)) /\ ~ EmptyMask(c(its)) BY Ordinary
<1> HIDE DEF t
<1> QED BY <1>1, <1>2, <1>3, TruthDecides

\* A pointer is null, or equal to another, or not.
LEMMA PointerDecided ==
  ASSUME NEW its \in BOOLEAN, NEW p, NEW q,
         NEW rel \in {"CNULL", "CNULLABLE", "CNONNULL", "EQUAL_PTR", "LIKELY", "UNLIKELY",
                      "VALID_MEMORY"}
  PROVE  Decided(Form("POINTER", "PTR", its, rel, << p, q >>))
<1> DEFINE c(i) == Form("POINTER", "PTR", i, rel, << p, q >>)
           t == IF rel \in {"CNULL", "CNULLABLE"} THEN p = NoRegion
                ELSE IF rel = "EQUAL_PTR" THEN p = q ELSE p # NoRegion
<1>1. ASSUME NEW i \in BOOLEAN PROVE Condition(c(i)) = (i = t)
  <2>1. /\ c(i).its = i /\ c(i).rel = rel /\ c(i).section = "POINTER"
        /\ c(i).args[1] = p /\ c(i).args[2] = q
    BY DEF Form
  <2> DEFINE d == c(i)
  <2> HIDE DEF d
  <2>2. PointerHolds(i, rel, p, q) = (t = i) BY DEF PointerHolds
  <2>3. Condition(d) = PointerHolds(d.its, d.rel, d.args[1], d.args[2])
    BY <2>1, ConditionOf DEF d
  <2>4. Condition(d) = PointerHolds(i, rel, p, q) BY <2>1, <2>3 DEF d
  <2> HIDE DEF t, c
  <2> QED BY <2>2, <2>4 DEF d
<1>2. t \in BOOLEAN OBVIOUS
<1>3. ~ Undecided(c(its)) /\ ~ EmptyMask(c(its)) BY Ordinary
<1> HIDE DEF t
<1> QED BY <1>1, <1>2, <1>3, TruthDecides

\* Two forms that both fail are decided, if the question is open.
LEMMA NeitherDecides ==
  ASSUME NEW section, NEW type, NEW its \in BOOLEAN, NEW rel, NEW args,
         \A i \in BOOLEAN : ~ Condition(Form(section, type, i, rel, args)),
         Undecided(Form(section, type, its, rel, args))
  PROVE  Decided(Form(section, type, its, rel, args))
<1>1. (~ its) \in BOOLEAN OBVIOUS
<1>2. Opposite(Form(section, type, its, rel, args)) = Form(section, type, ~ its, rel, args)
  BY OppositeForm
<1> QED BY <1>1, <1>2 DEF Decided

\* Floating point numbers but NaN are ordered, and their distance is a number
\* unless both are infinite alike.
LEMMA FloatDecided ==
  ASSUME NEW type, NEW its \in BOOLEAN, NEW rel \in Relation,
         NEW a \in Float, NEW b \in Float, NEW tol \in Finite
  PROVE  Decided(Form("FLOAT", type, its, rel, << a, b, tol >>))
<1> DEFINE c(i) == Form("FLOAT", type, i, rel, << a, b, tol >>)
           open == ~ Ordered(a, b) \/ (rel = "EQUAL" /\ Difference(a, b) = NaN)
<1>1. ASSUME NEW i \in BOOLEAN
      PROVE  /\ Condition(c(i)) = FloatHolds(i, rel, a, b, tol)
             /\ Undecided(c(i)) = open /\ ~ EmptyMask(c(i))
  <2>1. /\ c(i).its = i /\ c(i).rel = rel /\ c(i).section = "FLOAT"
        /\ c(i).args[1] = a /\ c(i).args[2] = b /\ c(i).args[3] = tol
    BY DEF Form
  <2> DEFINE d == c(i)
  <2> HIDE DEF d
  <2>2. Condition(d) = FloatHolds(d.its, d.rel, d.args[1], d.args[2], d.args[3])
    BY <2>1, ConditionOf DEF d
  <2>3. Condition(d) = FloatHolds(i, rel, a, b, tol) BY <2>1, <2>2 DEF d
  <2>4. Undecided(d) = open /\ ~ EmptyMask(d)
    BY <2>1 DEF d, Undecided, EmptyMask, Relation
  <2> QED BY <2>3, <2>4 DEF d
<1>2. CASE open
  <2>1. ASSUME NEW i \in BOOLEAN PROVE ~ FloatHolds(i, rel, a, b, tol)
    BY <1>2 DEF FloatHolds, Difference
  <2>2. \A i \in BOOLEAN : ~ Condition(c(i)) BY <1>1, <2>1
  <2>3. Undecided(c(its)) BY <1>1, <1>2
  <2> QED BY <2>2, <2>3, NeitherDecides
<1>3. CASE ~ open
  <2>1. a \in Int /\ b \in Int /\ tol \in Int
    BY <1>3, FloatAssumption DEF Float, Ordered
  <2>4. rel = "EQUAL" => Difference(a, b) \in Int
    <3>1. rel = "EQUAL" => Difference(a, b) # NaN BY <1>3
    <3> QED BY <2>1, <3>1, FloatAssumption DEF Difference, Magnitude
  <2> DEFINE t == IF rel = "EQUAL" THEN Difference(a, b) <= tol ELSE Truth(rel, a, b)
  <2>2. ASSUME NEW i \in BOOLEAN PROVE FloatHolds(i, rel, a, b, tol) = (i = t)
    <3>1. CASE rel = "EQUAL"
      <4> DEFINE e == Difference(a, b)
      <4>1. e \in Int /\ e # NaN BY <1>3, <2>4, <3>1
      <4>2. FloatHolds(i, rel, a, b, tol) = (e # NaN /\ IF i THEN e <= tol ELSE e > tol)
        BY <3>1 DEF FloatHolds
      <4>3. t = (e <= tol) BY <3>1
      <4> HIDE DEF e, t
      <4>4. CASE i = TRUE BY <4>1, <4>2, <4>3, <4>4
      <4>5. CASE i = FALSE
        <5>1. (e > tol) = ~ (e <= tol) BY <2>1, <4>1
        <5> QED BY <4>1, <4>2, <4>3, <4>5, <5>1
      <4> QED BY <4>4, <4>5
    <3>2. CASE rel # "EQUAL"
      <4>1. FloatHolds(i, rel, a, b, tol) = Holds(i, rel, a, b)
        <5>1. Ordered(a, b) BY <1>3
        <5>2. Holds(i, rel, a, b) \in BOOLEAN BY DEF Holds
        <5> QED BY <3>2, <5>1, <5>2 DEF FloatHolds
      <4>2. Holds(i, rel, a, b) = (i = Truth(rel, a, b)) BY <2>1, HoldsIsTruth
      <4> QED BY <3>2, <4>1, <4>2
    <3> QED BY <3>1, <3>2
  <2>3. t \in BOOLEAN
    <3>1. Truth(rel, a, b) \in BOOLEAN BY DEF Truth, Relation
    <3>2. rel = "EQUAL" => (Difference(a, b) <= tol) \in BOOLEAN BY <2>1, <2>4
    <3> QED BY <3>1, <3>2
  <2>5. \A i \in BOOLEAN : Condition(c(i)) = (i = t)
    <3> HIDE DEF t, c
    <3> QED BY <1>1, <2>2
  <2>6. ~ Undecided(c(its)) /\ ~ EmptyMask(c(its)) BY <1>1, <1>3
  <2> HIDE DEF t
  <2> QED BY <2>3, <2>5, <2>6, TruthDecides
<1> QED BY <1>2, <1>3

\* So are they within a range or not.
LEMMA FloatRangeDecided ==
  ASSUME NEW type, NEW its \in BOOLEAN, NEW v \in Float, NEW min \in Finite, NEW max \in Finite
  PROVE  Decided(Form("FLOAT_RANGE", type, its, "WITHIN", << v, min, max >>))
<1> DEFINE c(i) == Form("FLOAT_RANGE", type, i, "WITHIN", << v, min, max >>)
           t == v \in min .. max
<1>1. ASSUME NEW i \in BOOLEAN
      PROVE  /\ Condition(c(i)) = FloatRange(i, v, min, max)
             /\ Undecided(c(i)) = (v = NaN) /\ ~ EmptyMask(c(i))
  <2>1. /\ c(i).its = i /\ c(i).rel = "WITHIN" /\ c(i).section = "FLOAT_RANGE"
        /\ c(i).args[1] = v /\ c(i).args[2] = min /\ c(i).args[3] = max
    BY DEF Form
  <2> DEFINE d == c(i)
  <2> HIDE DEF d
  <2>2. Condition(d) = FloatRange(d.its, d.args[1], d.args[2], d.args[3])
    BY <2>1, ConditionOf DEF d
  <2>3. Condition(d) = FloatRange(i, v, min, max) BY <2>1, <2>2 DEF d
  <2>4. Undecided(d) = (v = NaN) /\ ~ EmptyMask(d) BY <2>1 DEF d, Undecided, EmptyMask
  <2> QED BY <2>3, <2>4 DEF d
<1>2. CASE v = NaN
  <2>1. \A i \in BOOLEAN : ~ Condition(c(i)) BY <1>1, <1>2 DEF FloatRange
  <2>2. Undecided(c(its)) BY <1>1, <1>2
  <2> QED BY <2>1, <2>2, NeitherDecides
<1>3. CASE v # NaN
  <2>1. v \in Int /\ min \in Int /\ max \in Int BY <1>3, FloatAssumption DEF Float
  <2>2. ASSUME NEW i \in BOOLEAN PROVE FloatRange(i, v, min, max) = (i = t)
    <3>1. FloatRange(i, v, min, max) = Within(i, v, min, max)
      BY <1>3 DEF FloatRange, Within
    <3> HIDE DEF t
    <3> QED BY <2>1, <3>1, WithinIsTruth DEF t
  <2>3. t \in BOOLEAN OBVIOUS
  <2>4. \A i \in BOOLEAN : Condition(c(i)) = (i = t)
    <3> HIDE DEF t, c
    <3> QED BY <1>1, <2>2
  <2>5. ~ Undecided(c(its)) /\ ~ EmptyMask(c(its)) BY <1>1, <1>3
  <2> HIDE DEF t
  <2> QED BY <2>3, <2>4, <2>5, TruthDecides
<1> QED BY <1>2, <1>3

\* Regions are compared by a number; whether one can be cleared is known.
LEMMA MemoryDecided ==
  ASSUME NEW its \in BOOLEAN, NEW p, NEW q, NEW size,
         NEW rel \in Relation \cup {"ZERO_MEMORY"}
  PROVE  Decided(Form("MEMORY", "PTR", its, rel, << p, q, size >>))
<1> DEFINE c(i) == Form("MEMORY", "PTR", i, rel, << p, q, size >>)
           order == maip_sys_memory_compare(p, q, size)
           t == IF rel = "ZERO_MEMORY" THEN maip_sys_memory_zero(p, size) ELSE Truth(rel, order, 0)
<1>1. order \in Int BY DEF maip_sys_memory_compare
<1>2. ASSUME NEW i \in BOOLEAN PROVE Condition(c(i)) = (i = t)
  <2>1. /\ c(i).its = i /\ c(i).rel = rel /\ c(i).section = "MEMORY"
        /\ c(i).args[1] = p /\ c(i).args[2] = q /\ c(i).args[3] = size
    BY DEF Form
  <2> DEFINE d == c(i)
  <2> HIDE DEF d
  <2>2. MemoryHolds(d) = IF rel = "ZERO_MEMORY" THEN maip_sys_memory_zero(p, size) = i
                         ELSE Holds(i, rel, order, 0)
    BY <2>1 DEF d, MemoryHolds, Relation
  <2>3. Condition(d) = MemoryHolds(d) BY <2>1, ConditionOf DEF d
  <2> HIDE DEF c, order
  <2>4. rel # "ZERO_MEMORY" => Holds(i, rel, order, 0) = (i = Truth(rel, order, 0))
    BY <1>1, HoldsIsTruth
  <2>5. CASE rel = "ZERO_MEMORY"
    <3>1. Condition(c(i)) = (maip_sys_memory_zero(p, size) = i) BY <2>2, <2>3, <2>5 DEF d
    <3>2. t = maip_sys_memory_zero(p, size) BY <2>5
    <3> HIDE DEF t
    <3> QED BY <3>1, <3>2
  <2>6. CASE rel # "ZERO_MEMORY"
    <3>1. Condition(c(i)) = (i = Truth(rel, order, 0)) BY <2>2, <2>3, <2>4, <2>6 DEF d
    <3>2. t = Truth(rel, order, 0) BY <2>6
    <3> HIDE DEF t
    <3> QED BY <3>1, <3>2
  <2> QED BY <2>5, <2>6
<1>3. t \in BOOLEAN
  <2>1. maip_sys_memory_zero(p, size) \in BOOLEAN BY DEF maip_sys_memory_zero
  <2>2. rel # "ZERO_MEMORY" => Truth(rel, order, 0) \in BOOLEAN BY DEF Truth, Relation
  <2> QED BY <2>1, <2>2
<1>4. ~ Undecided(c(its)) /\ ~ EmptyMask(c(its)) BY Ordinary DEF Relation
<1> HIDE DEF t
<1> QED BY <1>2, <1>3, <1>4, TruthDecides

\* What a macro for strings asks is true or not.
LEMMA StringDecided ==
  ASSUME NEW its \in BOOLEAN, NEW s, NEW t, NEW n,
         NEW rel \in {"EQUAL_CSTR", "LENGTH_EQUAL_CSTR", "CSTR_STARTS_WITH", "CSTR_ENDS_WITH",
                      "CSTR_CONTAINS", "CSTR_COUNT"}
  PROVE  Decided(Form("STRING", "CSTR", its, rel, << s, t, n >>))
<1> DEFINE c(i) == Form("STRING", "CSTR", i, rel, << s, t, n >>)
           x == CASE rel = "EQUAL_CSTR" -> s = t
                  [] rel = "LENGTH_EQUAL_CSTR" -> Len(s) = n
                  [] rel = "CSTR_STARTS_WITH" -> StartsWith(s, t)
                  [] rel = "CSTR_ENDS_WITH" -> EndsWith(s, t)
                  [] rel = "CSTR_CONTAINS" -> ContainsString(s, t)
                  [] rel = "CSTR_COUNT" -> CountOf(s, t) = n
<1>1. ASSUME NEW i \in BOOLEAN PROVE Condition(c(i)) = (x = i)
  <2>1. /\ c(i).its = i /\ c(i).rel = rel /\ c(i).section = "STRING"
        /\ c(i).args[1] = s /\ c(i).args[2] = t /\ c(i).args[3] = n
    BY DEF Form
  <2> DEFINE d == c(i)
  <2> HIDE DEF d
  <2>2. StringHolds(d) = (x = i) BY <2>1 DEF d, StringHolds
  <2>3. Condition(d) = StringHolds(d) BY <2>1, ConditionOf DEF d
  <2> HIDE DEF x, c
  <2> QED BY <2>2, <2>3 DEF d
<1>2. x \in BOOLEAN BY DEF StartsWith, EndsWith, ContainsString
<1>3. ~ Undecided(c(its)) /\ ~ EmptyMask(c(its)) BY Ordinary
<1>4. \A i \in BOOLEAN : Condition(c(i)) = (i = x)
  <2> HIDE DEF x, c
  <2> QED BY <1>1
<1> HIDE DEF x
<1> QED BY <1>2, <1>3, <1>4, TruthDecides

\* The condition of a call about words.
LEMMA WordsHold ==
  ASSUME NEW i \in BOOLEAN, NEW rel, NEW v, NEW m, NEW n, NEW expected
  PROVE  Condition(Form("BITS", "U64", i, rel, << v, m, n, expected >>))
           = BitsHold(Form("BITS", "U64", i, rel, << v, m, n, expected >>))
<1> DEFINE d == Form("BITS", "U64", i, rel, << v, m, n, expected >>)
<1>1. d.section = "BITS" BY DEF Form
<1> HIDE DEF d
<1>2. Condition(d) = BitsHold(d) BY <1>1, ConditionOf
<1> QED BY <1>2 DEF d

\* A mask is set, clear, or neither.
LEMMA MaskDecided ==
  ASSUME NEW its \in BOOLEAN, NEW v, NEW m, NEW n, NEW expected
  PROVE  Decided(Form("BITS", "U64", its, "BITMASK_SET", << v, m, n, expected >>))
<1> DEFINE c(i) == Form("BITS", "U64", i, "BITMASK_SET", << v, m, n, expected >>)
<1>1. ASSUME NEW i \in BOOLEAN
      PROVE  /\ Condition(c(i)) = BitmaskSet(i, v, m)
             /\ Undecided(c(i)) = (v \cap m \notin {Zero, m}) /\ EmptyMask(c(i)) = (m = Zero)
  <2>1. /\ c(i).its = i /\ c(i).rel = "BITMASK_SET" /\ c(i).section = "BITS"
        /\ c(i).args[1] = v /\ c(i).args[2] = m
    BY DEF Form
  <2> DEFINE d == c(i)
  <2> HIDE DEF d
  <2>2. BitsHold(d) = BitmaskSet(i, v, m) BY <2>1 DEF d, BitsHold, BinaryOperation
  <2>3. Condition(d) = BitsHold(d) BY WordsHold DEF d
  <2>4. Undecided(d) = (v \cap m \notin {Zero, m}) /\ EmptyMask(d) = (m = Zero)
    BY <2>1 DEF d, Undecided, EmptyMask
  <2> QED BY <2>2, <2>3, <2>4 DEF d
<1>2. (~ its) \in BOOLEAN /\ Opposite(c(its)) = c(~ its) BY OppositeForm
<1>3. /\ Condition(c(its)) = BitmaskSet(its, v, m)
      /\ Condition(Opposite(c(its))) = BitmaskSet(~ its, v, m)
      /\ Undecided(c(its)) = (v \cap m \notin {Zero, m}) /\ EmptyMask(c(its)) = (m = Zero)
  BY <1>1, <1>2
<1> SUFFICES Decided(c(its)) OBVIOUS
<1> HIDE DEF c
<1>4. CASE its = TRUE BY <1>3, <1>4 DEF Decided, BitmaskSet, Zero
<1>5. CASE its = FALSE BY <1>3, <1>5 DEF Decided, BitmaskSet, Zero
<1> QED BY <1>4, <1>5

\* What the other macros for words ask is true or not.
LEMMA WordDecided ==
  ASSUME NEW its \in BOOLEAN, NEW v, NEW m, NEW n, NEW expected,
         NEW rel \in {"BIT_SET", "BIT_POSITION_SET", "BIT_COUNT", "POWER_OF_TWO", "EQUAL_BITS"}
  PROVE  Decided(Form("BITS", "U64", its, rel, << v, m, n, expected >>))
<1> DEFINE c(i) == Form("BITS", "U64", i, rel, << v, m, n, expected >>)
           x(i) == CASE rel = "BIT_SET" -> BitSet(i, v, m)
                     [] rel = "BIT_POSITION_SET" -> BitPositionSet(i, v, n)
                     [] rel = "BIT_COUNT" -> BitCount(i, v, n)
                     [] rel = "POWER_OF_TWO" -> PowerOfTwo(i, v)
                     [] rel = "EQUAL_BITS" -> EqualBits(i, v, m)
<1>1. ASSUME NEW i \in BOOLEAN PROVE Condition(c(i)) = x(i)
  <2>1. /\ c(i).its = i /\ c(i).rel = rel /\ c(i).section = "BITS"
        /\ c(i).args[1] = v /\ c(i).args[2] = m /\ c(i).args[3] = n
    BY DEF Form
  <2> DEFINE d == c(i)
  <2> HIDE DEF d
  <2>2. BitsHold(d) = x(i) BY <2>1 DEF d, BitsHold, BinaryOperation
  <2>3. Condition(d) = BitsHold(d) BY WordsHold DEF d
  <2> HIDE DEF x, c
  <2> QED BY <2>2, <2>3 DEF d
<1>2. /\ BitSet(TRUE, v, m) \in BOOLEAN /\ BitSet(FALSE, v, m) = ~ BitSet(TRUE, v, m)
      /\ PowerOfTwo(TRUE, v) \in BOOLEAN /\ PowerOfTwo(FALSE, v) = ~ PowerOfTwo(TRUE, v)
      /\ EqualBits(TRUE, v, m) \in BOOLEAN /\ EqualBits(FALSE, v, m) = ~ EqualBits(TRUE, v, m)
  BY DEF BitSet, PowerOfTwo, EqualBits
<1>3. BitCount(TRUE, v, n) \in BOOLEAN /\ BitCount(FALSE, v, n) = ~ BitCount(TRUE, v, n)
  BY DEF BitCount
<1>4. /\ BitPositionSet(TRUE, v, n) \in BOOLEAN
      /\ BitPositionSet(FALSE, v, n) = ~ BitPositionSet(TRUE, v, n)
  BY DEF BitPositionSet
<1>5. x(TRUE) \in BOOLEAN /\ x(FALSE) = ~ x(TRUE) BY <1>2, <1>3, <1>4
<1>6. ~ Undecided(c(its)) /\ ~ EmptyMask(c(its)) BY Ordinary
<1> HIDE DEF x
<1>7. \A i \in BOOLEAN : Condition(c(i)) = (i = x(TRUE)) BY <1>1, <1>5
<1> QED BY <1>5, <1>6, <1>7, TruthDecides

\* Calls whose macro has one form only.
LEMMA NoOpposite ==
  ASSUME NEW c, ~ HasOpposite(c)
  PROVE  Decided(c)
  BY DEF Decided

\* Between two calls the verdict is the condition of a call that is decided.
DecidedInv ==
  \/ call = NoCall
  \/ Decided(call) /\ verdict = Condition(call)

\* Judging a call that is decided.
LEMMA JudgedIsDecided ==
  ASSUME NEW c, Decided(c), Judge(c)
  PROVE  DecidedInv'
<1> HIDE DEF Decided, Condition
<1>1. call' = c /\ verdict' = Condition(c) BY DEF Judge
<1>2. Decided(call') /\ verdict' = Condition(call') BY <1>1
<1> QED BY <1>2 DEF DecidedInv

\* Judging a call of a macro without ITS and NOT.
LEMMA OneFormIsDecided ==
  ASSUME NEW section \in {"TIME", "OVERFLOW", "GUARD", "FLOAT_CLASS", "BITS"},
         NEW type, NEW its, NEW rel, NEW args, Judge(Form(section, type, its, rel, args)),
         rel \notin {"BIT_SET", "BITMASK_SET", "BIT_POSITION_SET", "BIT_COUNT",
                     "POWER_OF_TWO", "EQUAL_BITS"}
  PROVE  DecidedInv'
<1>1. ~ HasOpposite(Form(section, type, its, rel, args)) BY DEF HasOpposite, Form
<1> QED BY <1>1, NoOpposite, JudgedIsDecided

\* Every call that a test can make is decided.
LEMMA DecidedInvHolds == Spec => []DecidedInv
<1>1. Init => DecidedInv BY DEF Init, DecidedInv
<1>2. DecidedInv /\ [Next]_vars => DecidedInv'
  <2> SUFFICES ASSUME DecidedInv, [Next]_vars PROVE DecidedInv' OBVIOUS
  <2>1. CASE AssumeInteger
    <3>1. PICK type \in IntegerType, its \in BOOLEAN, rel \in Relation, a \in Operand,
               b \in Operand :
            Judge(Form("INTEGER", type, its, rel, << a, b >>))
      BY <2>1 DEF AssumeInteger
    <3>2. a \in Int /\ b \in Int BY OperandAssumption
    <3> QED BY <3>1, <3>2, IntegerDecided, JudgedIsDecided
  <2>2. CASE AssumeRange
    <3>1. PICK type \in RangeType, its \in BOOLEAN, v \in Limit, min \in Limit, max \in Limit :
            Judge(Form("RANGE", type, its, "WITHIN", << v, min, max >>))
      BY <2>2 DEF AssumeRange
    <3>2. v \in Int /\ min \in Int /\ max \in Int BY OperandAssumption
    <3> QED BY <3>1, <3>2, RangeDecided, JudgedIsDecided
  <2>3. CASE AssumeHash
    <3>1. PICK its \in BOOLEAN,
               rel \in {"EQUAL", "VALID", "DETERMINISTIC", "COLLISION_RESISTANT", "DISTRIBUTED"},
               a \in Operand \cap UnsignedValue(64), b \in Operand \cap UnsignedValue(64) :
            Judge(Form("HASH", "U64", its, rel, << a, b >>))
      BY <2>3 DEF AssumeHash
    <3>2. CASE rel \in {"EQUAL", "VALID"} BY <3>1, <3>2, HashDecided, JudgedIsDecided
    <3>3. CASE rel \notin {"EQUAL", "VALID"}
      <4>1. ~ HasOpposite(Form("HASH", "U64", its, rel, << a, b >>))
        BY <3>3 DEF HasOpposite, Form
      <4> QED BY <3>1, <4>1, NoOpposite, JudgedIsDecided
    <3> QED BY <3>2, <3>3
  <2>4. CASE AssumeBoolean
    <3>1. PICK its \in BOOLEAN, x \in BOOLEAN, rel \in {"TRUE", "FALSE"} :
            Judge(Form("BOOLEAN", "BOOL", its, rel, << x >>))
      BY <2>4 DEF AssumeBoolean
    <3> QED BY <3>1, BooleanDecided, JudgedIsDecided
  <2>5. CASE AssumePointer
    <3>1. PICK its \in BOOLEAN, p \in Region \cup {NoRegion}, q \in Region \cup {NoRegion},
               rel \in {"CNULL", "CNULLABLE", "CNONNULL", "EQUAL_PTR", "LIKELY", "UNLIKELY",
                        "VALID_MEMORY"} :
            Judge(Form("POINTER", "PTR", its, rel, << p, q >>))
      BY <2>5 DEF AssumePointer
    <3> QED BY <3>1, PointerDecided, JudgedIsDecided
  <2>6. CASE AssumeFloat
    <3>1. PICK type \in {"F32", "F64"}, its \in BOOLEAN, rel \in Relation, a \in Float, b \in Float,
               tol \in {x \in Finite : x >= 0} :
            Judge(Form("FLOAT", type, its, rel, << a, b, tol >>))
      BY <2>6 DEF AssumeFloat
    <3>2. tol \in Finite OBVIOUS
    <3> QED BY <3>1, <3>2, FloatDecided, JudgedIsDecided
  <2>7. CASE AssumeFloatRange
    <3>1. PICK type \in {"F32", "F64"}, its \in BOOLEAN, v \in Float, min \in Finite,
               max \in Finite :
            Judge(Form("FLOAT_RANGE", type, its, "WITHIN", << v, min, max >>))
      BY <2>7 DEF AssumeFloatRange
    <3> QED BY <3>1, FloatRangeDecided, JudgedIsDecided
  <2>8. CASE AssumeMemory
    <3>4. PICK its \in BOOLEAN, p \in Region \cup {NoRegion}, q \in Region \cup {NoRegion},
               rel \in Relation \cup {"ZERO_MEMORY", "SECURE_CLEARED"} :
            \E size \in 0 .. (IF p = NoRegion THEN 1 ELSE Len(p)) :
              Judge(Form("MEMORY", "PTR", its, rel, << p, q, size >>))
      BY <2>8 DEF AssumeMemory
    <3>1. PICK size : Judge(Form("MEMORY", "PTR", its, rel, << p, q, size >>)) BY <3>4
    <3>2. CASE rel # "SECURE_CLEARED" BY <3>1, <3>2, MemoryDecided, JudgedIsDecided
    <3>3. CASE rel = "SECURE_CLEARED"
      <4>1. ~ HasOpposite(Form("MEMORY", "PTR", its, rel, << p, q, size >>))
        BY <3>3 DEF HasOpposite, Form
      <4> QED BY <3>1, <4>1, NoOpposite, JudgedIsDecided
    <3> QED BY <3>2, <3>3
  <2>9. CASE AssumeString
    <3>1. PICK its \in BOOLEAN, s \in String, t \in Pattern, n \in 0 .. 3,
               rel \in {"EQUAL_CSTR", "LENGTH_EQUAL_CSTR", "CSTR_STARTS_WITH", "CSTR_ENDS_WITH",
                        "CSTR_CONTAINS", "CSTR_COUNT", "SAFE_CSTR"} :
            Judge(Form("STRING", "CSTR", its, rel, << s, t, n >>))
      BY <2>9 DEF AssumeString
    <3>2. CASE rel # "SAFE_CSTR" BY <3>1, <3>2, StringDecided, JudgedIsDecided
    <3>3. CASE rel = "SAFE_CSTR"
      <4>1. ~ HasOpposite(Form("STRING", "CSTR", its, rel, << s, t, n >>))
        BY <3>3 DEF HasOpposite, Form
      <4> QED BY <3>1, <4>1, NoOpposite, JudgedIsDecided
    <3> QED BY <3>2, <3>3
  <2>10. CASE AssumeBits
    <3>1. PICK its \in BOOLEAN, v \in Word, m \in Word, n \in 0 .. WordSize,
               rel \in {"BIT_SET", "BITMASK_SET", "EQUAL_BITS", "BIT_POSITION_SET", "BIT_COUNT",
                        "POWER_OF_TWO"} :
            Judge(Form("BITS", "U64", its, rel, << v, m, n, Zero >>))
      BY <2>10 DEF AssumeBits
    <3>2. CASE rel # "BITMASK_SET" BY <3>1, <3>2, WordDecided, JudgedIsDecided
    <3>3. CASE rel = "BITMASK_SET" BY <3>1, <3>3, MaskDecided, JudgedIsDecided
    <3> QED BY <3>2, <3>3
  <2>11. CASE AssumeTime
    <3>1. PICK rel \in {"WITHIN_TOLERANCE", "EQUIVALENT", "AT_LEAST", "MONOTONIC", "AT_MOST",
                        "DEADLINE_MET", "DEADLINE_MISSED", "WITHIN_RANGE", "FASTER_THAN",
                        "SLOWER_THAN"},
               a \in Operand, b \in Operand, c \in Limit :
            Judge(Form("TIME", "I64", TRUE, rel, << a, b, c >>))
      BY <2>11 DEF AssumeTime
    <3> QED BY <3>1, OneFormIsDecided
  <2>12. CASE AssumeNoOverflow
    <3>1. PICK type \in {"I64", "U64"}, rel \in {"ADD", "SUB", "MUL"}, a \in Operand,
               b \in Operand :
            Judge(Form("OVERFLOW", type, TRUE, rel, << a, b, Computed(type, rel, a, b) >>))
      BY <2>12 DEF AssumeNoOverflow
    <3> QED BY <3>1, OneFormIsDecided
  <2>13. CASE AssumeGuard
    <3>1. PICK rel \in {"BUFFER_OVERFLOW_SAFE", "ALIGNED_PTR", "INPUT_VALIDATED", "RANDOM_ENTROPY",
                        "VALID_FD", "VALID_KEY_LENGTH", "SESSION_VALID", "BOUNDS_CHECKED"},
               a \in Limit, b \in Limit, c \in Limit :
            Judge(Form("GUARD", "I64", TRUE, rel, << a, b, c >>))
      BY <2>13 DEF AssumeGuard
    <3> QED BY <3>1, OneFormIsDecided
  <2>14. CASE AssumeNotFinite
    <3>1. PICK type \in {"F32", "F64"}, rel \in {"NAN", "INF"}, v \in Float :
            Judge(Form("FLOAT_CLASS", type, TRUE, rel, << v >>))
      BY <2>14 DEF AssumeNotFinite
    <3> QED BY <3>1, OneFormIsDecided
  <2>15. CASE AssumeResult
    <3>1. PICK v \in Word, expected \in Word, n \in 0 .. 2 * WordSize,
               rel \in {"SHIFT_LEFT", "SHIFT_RIGHT", "ROTATE_LEFT", "ROTATE_RIGHT"} :
            Judge(Form("BITS", "U64", TRUE, rel, << v, Zero, n, expected >>))
      BY <2>15 DEF AssumeResult
    <3> QED BY <3>1, OneFormIsDecided
  <2>16. CASE AssumeMasked
    <3>1. PICK v \in Word, m \in Word, expected \in Word, rel \in {"AND", "OR", "XOR"} :
            Judge(Form("BITS", "U64", TRUE, rel, << v, m, 0, expected >>))
      BY <2>16 DEF AssumeMasked
    <3> QED BY <3>1, OneFormIsDecided
  <2>17. CASE GoOn BY <2>17 DEF GoOn, DecidedInv
  <2>18. CASE Aborted \/ UNCHANGED vars
    <3>1. call' = call /\ verdict' = verdict BY <2>18 DEF Aborted, vars
    <3> QED BY <3>1 DEF DecidedInv
  <2> QED BY <2>1, <2>2, <2>3, <2>4, <2>5, <2>6, <2>7, <2>8, <2>9, <2>10, <2>11, <2>12, <2>13,
         <2>14, <2>15, <2>16, <2>17, <2>18 DEF Next
<1> QED BY <1>1, <1>2, PTL DEF Spec

\* For types and words of any width and all operands, OppositesDisagree: of two
\* macros that differ in ITS and NOT one holds, with the exceptions named.
THEOREM OppositesDisagreeHolds == Spec => []OppositesDisagree
<1>1. DecidedInv => OppositesDisagree BY DEF DecidedInv, Decided, OppositesDisagree
<1> QED BY <1>1, DecidedInvHolds, PTL

-----------------------------------------------------------------------------
(* The tricks with bits                                                    *)

\* Natural numbers have a least one.
LEMMA LeastExists ==
  ASSUME NEW S, S \subseteq Nat, S # {}
  PROVE  \E p \in S : \A q \in S : p <= q
<1> DEFINE R == OpToRel(<, Nat)
<1>1. IsWellFoundedOn(R, Nat) BY NatLessThanWellFounded
<1>2. PICK p \in S : \A q \in S : ~ (<< q, p >> \in R)
  <2> HIDE DEF R
  <2> QED BY <1>1, WFMin, Zenon
<1>3. \A q \in S : ~ (q < p) BY <1>2 DEF OpToRel
<1>4. \A q \in S : q \in Nat /\ p \in Nat OBVIOUS
<1> QED BY <1>3, <1>4

\* A word that is not 0 has a lowest bit.
LEMMA LowestIs ==
  ASSUME NEW v \in Word, v # {}
  PROVE  Lowest(v) \in v /\ \A q \in v : Lowest(v) <= q
<1>1. v \subseteq Nat BY WordSizeAssumption DEF Word, Position
<1>2. \E p \in v : \A q \in v : p <= q BY <1>1, LeastExists
<1> QED BY <1>2 DEF Lowest

\* A word has no bit in common with the word below iff it has one bit at most.
LEMMA PowersHaveOneBit ==
  ASSUME NEW v \in Word
  PROVE  PowerOfTwo(TRUE, v) = (\E p \in Position : v = {p})
<1>1. CASE v = {}
  <2>1. ~ PowerOfTwo(TRUE, v) BY <1>1 DEF PowerOfTwo, Zero
  <2> QED BY <1>1, <2>1 DEF PowerOfTwo
<1>2. CASE v # {}
  <2> DEFINE l == Lowest(v)
  <2>1. l \in v /\ \A q \in v : l <= q BY <1>2, LowestIs
  <2>2. v \subseteq Position /\ Position \subseteq Int
    BY WordSizeAssumption DEF Word, Position
  <2>3. v \cap Decrement(v) = v \ {l}
    <3>1. Decrement(v) = (v \ {l}) \cup {p \in Position : p < l} BY <1>2 DEF Decrement
    <3> HIDE DEF l
    <3>2. \A p \in v : ~ (p < l)
      <4>1. \A p \in v : p \in Int /\ l \in Int /\ l <= p BY <2>1, <2>2
      <4> QED BY <4>1
    <3> QED BY <3>1, <3>2
  <2>4. PowerOfTwo(TRUE, v) = (v \ {l} = {}) BY <1>2, <2>3 DEF PowerOfTwo, Zero
  <2>5. (v \ {l} = {}) = (\E p \in Position : v = {p})
    <3> HIDE DEF l
    <3> QED BY <2>1, <2>2
  <2> QED BY <2>4, <2>5
<1> QED BY <1>1, <1>2

\* The place a bit goes to when a word is rotated left by k, and where it is from.
Target(k, p) == IF p + k < WordSize THEN p + k ELSE p + k - WordSize
Origin(k, p) == IF p >= k THEN p - k ELSE p - k + WordSize

\* The two are inverse.
LEMMA OriginOfTarget ==
  ASSUME NEW k \in Position
  PROVE  \A p \in Position : /\ Target(k, p) \in Position /\ Origin(k, p) \in Position
                             /\ Origin(k, Target(k, p)) = p /\ Target(k, Origin(k, p)) = p
<1> SUFFICES ASSUME NEW p \in Position
             PROVE  /\ Target(k, p) \in Position /\ Origin(k, p) \in Position
                    /\ Origin(k, Target(k, p)) = p /\ Target(k, Origin(k, p)) = p
  OBVIOUS
<1>1. /\ WordSize \in Nat \ {0} /\ k \in Nat /\ p \in Nat /\ k < WordSize /\ p < WordSize
      /\ \A q \in Int : 0 <= q /\ q < WordSize => q \in Position
  BY WordSizeAssumption DEF Position
<1>2. CASE p + k < WordSize
  <2>1. Target(k, p) = p + k /\ p + k \in Position BY <1>1, <1>2 DEF Target
  <2>2. Origin(k, p + k) = p BY <1>1 DEF Origin
  <2> QED BY <1>1, <2>1, <2>2 DEF Origin, Target
<1>3. CASE ~ (p + k < WordSize)
  <2>1. Target(k, p) = p + k - WordSize /\ p + k - WordSize \in Position
    BY <1>1, <1>3 DEF Target
  <2>2. Origin(k, p + k - WordSize) = p BY <1>1 DEF Origin
  <2> QED BY <1>1, <2>1, <2>2 DEF Origin, Target
<1> QED BY <1>2, <1>3

\* One choice of what is shifted back, and two of which one adds nothing.
LEMMA Unions ==
  ASSUME NEW a, NEW b
  PROVE  {a \cup r : r \in {b}} = {a \cup b} /\ {a \cup r : r \in {a, {}}} = {a}
  OBVIOUS

\* What a rotation gives, even where a shift by the whole width is undefined.
LEMMA RotationsAre ==
  ASSUME NEW v \in Word, NEW n \in Nat
  PROVE  LET k == n % WordSize
         IN  /\ k \in Position
             /\ RotateLeft(v, n) = {{p \in Position : Origin(k, p) \in v}}
             /\ RotateRight(v, n) = {{p \in Position : Target(k, p) \in v}}
<1> DEFINE k == n % WordSize
           left_ == {p \in Position : Origin(k, p) \in v}
           right_ == {p \in Position : Target(k, p) \in v}
<1>1. WordSize \in Nat \ {0} BY WordSizeAssumption
<1>2. k \in Nat /\ k < WordSize BY <1>1
<1>3. k \in Position BY <1>1, <1>2 DEF Position
<1>4. v \subseteq Position /\ \A p \in Position : p \in Nat /\ p < WordSize
  BY <1>1 DEF Word, Position
<1>5. /\ RotateLeft(v, n) =
           {ShiftLeft(v, k) \cup r : r \in ShiftedBack(v, k, ShiftRight(v, WordSize - k))}
      /\ RotateRight(v, n) =
           {ShiftRight(v, k) \cup r : r \in ShiftedBack(v, k, ShiftLeft(v, WordSize - k))}
  BY DEF RotateLeft, RotateRight
<1> HIDE DEF k
<1>6. CASE k = 0
  <2>1. \A p \in Position : p - 0 = p /\ p + 0 = p /\ Origin(k, p) = p /\ Target(k, p) = p
    BY <1>1, <1>4, <1>6 DEF Origin, Target
  <2>2. ShiftLeft(v, k) = v /\ ShiftRight(v, k) = v
    BY <1>4, <1>6, <2>1 DEF ShiftLeft, ShiftRight
  <2>3. left_ = v /\ right_ = v BY <1>4, <2>1
  <2>4. \A s : ShiftedBack(v, k, s) = {v, {}} BY <1>6 DEF ShiftedBack, Zero
  <2> HIDE DEF left_, right_
  <2>5. RotateLeft(v, n) = {left_}
    <3>1. RotateLeft(v, n) = {v \cup r : r \in {v, {}}} BY <1>5, <2>2, <2>4
    <3> QED BY <2>3, <3>1, Unions
  <2>6. RotateRight(v, n) = {right_}
    <3>1. RotateRight(v, n) = {v \cup r : r \in {v, {}}} BY <1>5, <2>2, <2>4
    <3> QED BY <2>3, <3>1, Unions
  <2> QED BY <1>3, <2>5, <2>6 DEF k, left_, right_
<1>7. CASE k # 0
  <2>1. \A s : ShiftedBack(v, k, s) = {s} BY <1>7 DEF ShiftedBack
  <2>2. ShiftLeft(v, k) \cup ShiftRight(v, WordSize - k) = left_
    <3>1. \A p \in Position : (p - k \in v \/ p + (WordSize - k) \in v) <=> Origin(k, p) \in v
      <4> TAKE p \in Position
      <4>1. p - k + WordSize = p + (WordSize - k) BY <1>1, <1>2, <1>4
      <4>2. CASE p >= k
        <5>1. p + (WordSize - k) \notin v BY <1>1, <1>2, <1>4, <4>2
        <5> QED BY <4>2, <5>1 DEF Origin
      <4>3. CASE ~ (p >= k)
        <5>1. p - k \notin v BY <1>1, <1>2, <1>4, <4>3
        <5> QED BY <4>1, <4>3, <5>1 DEF Origin
      <4> QED BY <4>2, <4>3
    <3> QED BY <3>1 DEF ShiftLeft, ShiftRight
  <2>3. ShiftRight(v, k) \cup ShiftLeft(v, WordSize - k) = right_
    <3>1. \A p \in Position : (p + k \in v \/ p - (WordSize - k) \in v) <=> Target(k, p) \in v
      <4> TAKE p \in Position
      <4>1. p + k - WordSize = p - (WordSize - k) BY <1>1, <1>2, <1>4
      <4>2. CASE p + k < WordSize
        <5>1. p - (WordSize - k) \notin v BY <1>1, <1>2, <1>4, <4>2
        <5> QED BY <4>2, <5>1 DEF Target
      <4>3. CASE ~ (p + k < WordSize)
        <5>1. p + k \notin v BY <1>1, <1>2, <1>4, <4>3
        <5> QED BY <4>1, <4>3, <5>1 DEF Target
      <4> QED BY <4>2, <4>3
    <3> QED BY <3>1 DEF ShiftLeft, ShiftRight
  <2> HIDE DEF left_, right_
  <2>4. RotateLeft(v, n) = {left_}
    <3>1. RotateLeft(v, n) = {ShiftLeft(v, k) \cup r : r \in {ShiftRight(v, WordSize - k)}}
      BY <1>5, <2>1
    <3>2. RotateLeft(v, n) = {ShiftLeft(v, k) \cup ShiftRight(v, WordSize - k)}
      BY <3>1, Unions
    <3> QED BY <2>2, <3>2
  <2>5. RotateRight(v, n) = {right_}
    <3>1. RotateRight(v, n) = {ShiftRight(v, k) \cup r : r \in {ShiftLeft(v, WordSize - k)}}
      BY <1>5, <2>1
    <3>2. RotateRight(v, n) = {ShiftRight(v, k) \cup ShiftLeft(v, WordSize - k)}
      BY <3>1, Unions
    <3> QED BY <2>3, <3>2
  <2> QED BY <1>3, <2>4, <2>5 DEF k, left_, right_
<1> QED BY <1>6, <1>7

\* What is rotated to the left comes back when it is rotated to the right.
LEMMA RotatedBack ==
  ASSUME NEW k \in Position, NEW v \in Word, NEW w \in Word
  PROVE  ({p \in Position : Origin(k, p) \in v} = w)
           = ({p \in Position : Target(k, p) \in w} = v)
<1> DEFINE left_ == {p \in Position : Origin(k, p) \in v}
           right_ == {p \in Position : Target(k, p) \in w}
<1>1. v \subseteq Position /\ w \subseteq Position BY DEF Word
<1>2. \A p \in Position : /\ Target(k, p) \in Position /\ Origin(k, p) \in Position
                          /\ Origin(k, Target(k, p)) = p /\ Target(k, Origin(k, p)) = p
  BY OriginOfTarget
<1>3. left_ = w => right_ = v
  <2> SUFFICES ASSUME left_ = w PROVE right_ = v OBVIOUS
  <2>1. \A p \in Position : Target(k, p) \in w <=> p \in v BY <1>2
  <2> QED BY <1>1, <2>1
<1>4. right_ = v => left_ = w
  <2> SUFFICES ASSUME right_ = v PROVE left_ = w OBVIOUS
  <2>1. \A p \in Position : Origin(k, p) \in v <=> p \in w BY <1>2
  <2> QED BY <1>1, <2>1
<1> HIDE DEF left_, right_
<1>5. (left_ = w) = (right_ = v) BY <1>3, <1>4
<1> QED BY <1>5 DEF left_, right_

\* A rotation moves bits, and so neither loses nor adds one.
LEMMA RotationKeepsBits ==
  ASSUME NEW k \in Position, NEW v \in Word, NEW w \in Word,
         w = {p \in Position : Origin(k, p) \in v}
  PROVE  Cardinality(w) = Cardinality(v)
<1> DEFINE move == [p \in v |-> Target(k, p)]
<1>1. v \subseteq Position BY DEF Word
<1>2. \A p \in Position : /\ Target(k, p) \in Position /\ Origin(k, p) \in Position
                          /\ Origin(k, Target(k, p)) = p /\ Target(k, Origin(k, p)) = p
  BY OriginOfTarget
<1>3. move \in [v -> w] BY <1>1, <1>2
<1>4. \A p, q \in v : move[p] = move[q] => p = q
  <2> TAKE p, q \in v
  <2>1. move[p] = Target(k, p) /\ move[q] = Target(k, q) OBVIOUS
  <2>2. Origin(k, Target(k, p)) = p /\ Origin(k, Target(k, q)) = q BY <1>1, <1>2
  <2> QED BY <2>1, <2>2
<1>5. \A t \in w : \E p \in v : move[p] = t
  <2> TAKE t \in w
  <2>1. Origin(k, t) \in v /\ Target(k, Origin(k, t)) = t BY <1>2
  <2> QED BY <2>1
<1> HIDE DEF move
<1>6. move \in Injection(v, w) BY <1>3, <1>4 DEF Injection, IsInjective
<1>7. move \in Surjection(v, w) BY <1>3, <1>5 DEF Surjection
<1>8. ExistsBijection(v, w) BY <1>6, <1>7 DEF ExistsBijection, Bijection
<1>9. IsFiniteSet(Position) /\ v \in SUBSET Position
  <2>1. 0 \in Int /\ WordSize - 1 \in Int BY WordSizeAssumption
  <2> QED BY <1>1, <2>1, FS_Interval DEF Position
<1>10. IsFiniteSet(v) BY <1>9, FS_Subset
<1> QED BY <1>8, <1>10, FS_Bijection

\* The condition of each of the three tricks.
LEMMA TricksHold ==
  ASSUME NEW its \in BOOLEAN, NEW v, NEW m, NEW n, NEW w
  PROVE  /\ Condition(Form("BITS", "U64", its, "POWER_OF_TWO", << v, m, n, w >>))
              = PowerOfTwo(its, v)
         /\ Condition(Form("BITS", "U64", its, "ROTATE_LEFT", << v, m, n, w >>))
              = (RotateLeft(v, n) = {w})
         /\ Condition(Form("BITS", "U64", its, "ROTATE_RIGHT", << v, m, n, w >>))
              = (RotateRight(v, n) = {w})
<1> DEFINE c(rel) == Form("BITS", "U64", its, rel, << v, m, n, w >>)
<1>1. \A rel : Condition(c(rel)) = BitsHold(c(rel)) BY WordsHold
<1>2. \A rel : /\ c(rel).its = its /\ c(rel).rel = rel
               /\ c(rel).args[1] = v /\ c(rel).args[3] = n /\ c(rel).args[4] = w
  BY DEF Form
<1> HIDE DEF c
<1>3. BitsHold(c("POWER_OF_TWO")) = PowerOfTwo(its, v) BY <1>2 DEF BitsHold, BinaryOperation
<1>4. BitsHold(c("ROTATE_LEFT")) = (RotateLeft(v, n) = {w})
  BY <1>2 DEF BitsHold, BinaryOperation
<1>5. BitsHold(c("ROTATE_RIGHT")) = (RotateRight(v, n) = {w})
  BY <1>2 DEF BitsHold, BinaryOperation
<1> QED BY <1>1, <1>3, <1>4, <1>5 DEF c

\* A call is of words only if it has the arguments of one.
WordCall(c) ==
  \E its \in BOOLEAN, v, m, w \in Word, n \in Nat,
     rel \in {"BIT_SET", "BITMASK_SET", "EQUAL_BITS", "BIT_POSITION_SET", "BIT_COUNT",
              "POWER_OF_TWO", "SHIFT_LEFT", "SHIFT_RIGHT", "ROTATE_LEFT", "ROTATE_RIGHT",
              "AND", "OR", "XOR"} :
    c = Form("BITS", "U64", its, rel, << v, m, n, w >>)

WordsInv == Judged("BITS") => WordCall(call)

\* Judging a call of another section.
LEMMA JudgedElsewhere ==
  ASSUME NEW section, section # "BITS", NEW type, NEW its, NEW rel, NEW args,
         Judge(Form(section, type, its, rel, args))
  PROVE  WordsInv'
<1>1. call'.section = section BY DEF Judge, Form
<1> QED BY <1>1 DEF WordsInv, Judged

\* Judging a call about words.
LEMMA JudgedAsWord ==
  ASSUME NEW its \in BOOLEAN, NEW v \in Word, NEW m \in Word, NEW w \in Word, NEW n \in Nat,
         NEW rel \in {"BIT_SET", "BITMASK_SET", "EQUAL_BITS", "BIT_POSITION_SET", "BIT_COUNT",
                      "POWER_OF_TWO", "SHIFT_LEFT", "SHIFT_RIGHT", "ROTATE_LEFT",
                      "ROTATE_RIGHT", "AND", "OR", "XOR"},
         Judge(Form("BITS", "U64", its, rel, << v, m, n, w >>))
  PROVE  WordsInv'
<1>1. WordCall(Form("BITS", "U64", its, rel, << v, m, n, w >>)) BY DEF WordCall
<1>2. call' = Form("BITS", "U64", its, rel, << v, m, n, w >>) BY DEF Judge
<1>3. WordCall(call') BY <1>1, <1>2
<1> QED BY <1>3 DEF WordsInv

\* The arguments of a call about words are words and a count.
LEMMA WordsInvHolds == Spec => []WordsInv
<1>1. Init => WordsInv BY DEF Init, NoCall, WordsInv, Judged
<1>2. WordsInv /\ [Next]_vars => WordsInv'
  <2> SUFFICES ASSUME WordsInv, [Next]_vars PROVE WordsInv' OBVIOUS
  <2>1. CASE AssumeBits
    <3>1. PICK its \in BOOLEAN, v \in Word, m \in Word, n \in 0 .. WordSize,
               rel \in {"BIT_SET", "BITMASK_SET", "EQUAL_BITS", "BIT_POSITION_SET", "BIT_COUNT",
                        "POWER_OF_TWO"} :
            Judge(Form("BITS", "U64", its, rel, << v, m, n, Zero >>))
      BY <2>1 DEF AssumeBits
    <3>2. n \in Nat /\ Zero \in Word BY WordSizeAssumption DEF Zero, Word
    <3> QED BY <3>1, <3>2, JudgedAsWord
  <2>2. CASE AssumeResult
    <3>1. PICK v \in Word, expected \in Word, n \in 0 .. 2 * WordSize,
               rel \in {"SHIFT_LEFT", "SHIFT_RIGHT", "ROTATE_LEFT", "ROTATE_RIGHT"} :
            Judge(Form("BITS", "U64", TRUE, rel, << v, Zero, n, expected >>))
      BY <2>2 DEF AssumeResult
    <3>2. n \in Nat /\ Zero \in Word BY WordSizeAssumption DEF Zero, Word
    <3> QED BY <3>1, <3>2, JudgedAsWord
  <2>3. CASE AssumeMasked
    <3>1. PICK v \in Word, m \in Word, expected \in Word, rel \in {"AND", "OR", "XOR"} :
            Judge(Form("BITS", "U64", TRUE, rel, << v, m, 0, expected >>))
      BY <2>3 DEF AssumeMasked
    <3> QED BY <3>1, JudgedAsWord
  <2>4. CASE \/ AssumeInteger \/ AssumeRange \/ AssumeTime \/ AssumeNoOverflow \/ AssumeGuard
             \/ AssumeHash \/ AssumeBoolean \/ AssumePointer
    <3>1. \E section \in {"INTEGER", "RANGE", "TIME", "OVERFLOW", "GUARD", "HASH", "BOOLEAN",
                          "POINTER"} :
            \E type, its, rel, args : Judge(Form(section, type, its, rel, args))
      BY <2>4 DEF AssumeInteger, AssumeRange, AssumeTime, AssumeNoOverflow, AssumeGuard,
                  AssumeHash, AssumeBoolean, AssumePointer
    <3> QED BY <3>1, JudgedElsewhere
  <2>5. CASE \/ AssumeFloat \/ AssumeFloatRange \/ AssumeNotFinite \/ AssumeMemory
             \/ AssumeString
    <3>1. \E section \in {"FLOAT", "FLOAT_RANGE", "FLOAT_CLASS", "MEMORY", "STRING"} :
            \E type, its, rel, args : Judge(Form(section, type, its, rel, args))
      BY <2>5 DEF AssumeFloat, AssumeFloatRange, AssumeNotFinite, AssumeMemory, AssumeString
    <3> QED BY <3>1, JudgedElsewhere
  <2>6. CASE GoOn BY <2>6 DEF GoOn, NoCall, WordsInv, Judged
  <2>7. CASE Aborted \/ UNCHANGED vars
    <3>1. call' = call BY <2>7 DEF Aborted, vars
    <3> QED BY <3>1 DEF WordsInv, Judged
  <2> QED BY <2>1, <2>2, <2>3, <2>4, <2>5, <2>6, <2>7 DEF Next
<1> QED BY <1>1, <1>2, PTL DEF Spec

\* A rotation keeps the bits and can be taken back.
LEMMA RotationsWork ==
  ASSUME NEW v \in Word, NEW w \in Word, NEW n \in Nat
  PROVE  /\ (RotateLeft(v, n) = {w}) = (RotateRight(w, n) = {v})
         /\ RotateLeft(v, n) = {w} => Cardinality(v) = Cardinality(w)
         /\ RotateRight(v, n) = {w} => Cardinality(v) = Cardinality(w)
<1> DEFINE k == n % WordSize
<1>1. /\ k \in Position
      /\ RotateLeft(v, n) = {{p \in Position : Origin(k, p) \in v}}
      /\ RotateRight(v, n) = {{p \in Position : Target(k, p) \in v}}
      /\ RotateRight(w, n) = {{p \in Position : Target(k, p) \in w}}
  BY RotationsAre
<1> HIDE DEF k
<1>2. (RotateLeft(v, n) = {w}) = (RotateRight(w, n) = {v})
  <2> DEFINE left_ == {p \in Position : Origin(k, p) \in v}
             right_ == {p \in Position : Target(k, p) \in w}
  <2>1. (left_ = w) = (right_ = v) BY <1>1, RotatedBack
  <2>2. RotateLeft(v, n) = {left_} /\ RotateRight(w, n) = {right_} BY <1>1
  <2> HIDE DEF left_, right_
  <2>3. ({left_} = {w}) = (left_ = w) /\ ({right_} = {v}) = (right_ = v) OBVIOUS
  <2> QED BY <2>1, <2>2, <2>3
<1>3. RotateLeft(v, n) = {w} => Cardinality(v) = Cardinality(w)
  BY <1>1, RotationKeepsBits
<1>4. RotateRight(v, n) = {w} => Cardinality(v) = Cardinality(w)
  <2> SUFFICES ASSUME RotateRight(v, n) = {w} PROVE Cardinality(v) = Cardinality(w) OBVIOUS
  <2>1. {p \in Position : Target(k, p) \in v} = w BY <1>1
  <2>2. {p \in Position : Origin(k, p) \in w} = v BY <1>1, <2>1, RotatedBack
  <2> QED BY <1>1, <2>2, RotationKeepsBits
<1> QED BY <1>2, <1>3, <1>4

\* A call about words judged by its condition.
LEMMA TricksOfCall ==
  ASSUME NEW its \in BOOLEAN, NEW v \in Word, NEW m \in Word, NEW w \in Word, NEW n \in Nat,
         NEW rel, call = Form("BITS", "U64", its, rel, << v, m, n, w >>),
         verdict = Condition(call)
  PROVE  BitTricksWork
<1> DEFINE form == Form("BITS", "U64", its, rel, << v, m, n, w >>)
           back == Form("BITS", "U64", its, "ROTATE_RIGHT", << w, Zero, n, v >>)
<1>1. /\ form.its = its /\ form.rel = rel
      /\ form.args[1] = v /\ form.args[3] = n /\ form.args[4] = w
  BY DEF Form
<1>2. (PowerOfTwo(its, v) = its) = (\E p \in Position : v = {p})
  <2>1. PowerOfTwo(TRUE, v) = (\E p \in Position : v = {p}) BY PowersHaveOneBit
  <2>2. PowerOfTwo(FALSE, v) = ~ PowerOfTwo(TRUE, v) BY DEF PowerOfTwo
  <2> QED BY <2>1, <2>2
<1>3. /\ (RotateLeft(v, n) = {w}) = (RotateRight(w, n) = {v})
      /\ RotateLeft(v, n) = {w} => Cardinality(v) = Cardinality(w)
      /\ RotateRight(v, n) = {w} => Cardinality(v) = Cardinality(w)
  BY RotationsWork
<1>4. /\ rel = "POWER_OF_TWO" => Condition(form) = PowerOfTwo(its, v)
      /\ rel = "ROTATE_LEFT" => Condition(form) = (RotateLeft(v, n) = {w})
      /\ rel = "ROTATE_RIGHT" => Condition(form) = (RotateRight(v, n) = {w})
      /\ Condition(back) = (RotateRight(w, n) = {v})
  BY TricksHold
<1>5. call = form /\ verdict = Condition(form) OBVIOUS
<1> HIDE DEF form
<1>6. call.its = its /\ call.rel = rel /\ call.args[1] = v /\ call.args[3] = n /\ call.args[4] = w
  BY <1>1, <1>5
<1>7. rel = "POWER_OF_TWO" => (verdict = its) = (\E p \in Position : v = {p})
  BY <1>2, <1>4, <1>5
<1>8. rel = "ROTATE_LEFT" => verdict = Condition(back)
  BY <1>3, <1>4, <1>5
<1>9. rel \in {"ROTATE_LEFT", "ROTATE_RIGHT"} /\ verdict => Cardinality(v) = Cardinality(w)
  BY <1>3, <1>4, <1>5
<1>10. back = Form("BITS", "U64", its, "ROTATE_RIGHT", << w, Zero, n, v >>) OBVIOUS
<1> HIDE DEF back
<1> QED BY <1>6, <1>7, <1>8, <1>9, <1>10 DEF BitTricksWork

\* For words of any width and all operands, BitTricksWork: a power of two has
\* one bit set, and rotations move bits and can be taken back.
THEOREM BitTricksWorkHolds == Spec => []BitTricksWork
<1>1. WordsInv /\ DecidedInv => BitTricksWork
  <2> SUFFICES ASSUME WordsInv, DecidedInv, Judged("BITS") PROVE BitTricksWork
    BY DEF BitTricksWork
  <2>1. WordCall(call) BY DEF WordsInv
  <2>2. verdict = Condition(call)
    <3>1. call # NoCall BY DEF Judged, NoCall
    <3> QED BY <3>1 DEF DecidedInv
  <2> QED BY <2>1, <2>2, TricksOfCall DEF WordCall
<1> QED BY <1>1, WordsInvHolds, DecidedInvHolds, PTL

-----------------------------------------------------------------------------
(* Recursion and induction from the end of a string                        *)

\* What follows from holding behind a position holds at every position.
LEMMA DownwardInduction ==
  ASSUME NEW n \in Nat, NEW S,
         \A i \in 0 .. n : (\A j \in 0 .. n : j > i => j \in S) => i \in S
  PROVE  0 .. n \subseteq S
<1> SUFFICES ASSUME NEW bad \in 0 .. n, bad \notin S PROVE FALSE OBVIOUS
<1> DEFINE R == OpToRel(<, Nat)
           missing == {k \in Nat : k <= n /\ n - k \notin S}
<1>1. IsWellFoundedOn(R, Nat) BY NatLessThanWellFounded
<1>2. missing \subseteq Nat /\ missing # {}
  <2>1. n - bad \in Nat /\ n - bad <= n /\ n - (n - bad) = bad OBVIOUS
  <2>2. n - bad \in missing BY <2>1
  <2> QED BY <2>2
<1>3. PICK p \in missing : \A q \in missing : ~ (<< q, p >> \in R)
  <2> HIDE DEF R, missing
  <2> QED BY <1>1, <1>2, WFMin, Zenon
<1>4. \A q \in missing : ~ (q < p) BY <1>3 DEF OpToRel
<1>5. p \in Nat /\ p <= n /\ n - p \notin S /\ n - p \in 0 .. n OBVIOUS
<1>6. ASSUME NEW j \in 0 .. n, j > n - p PROVE j \in S
  <2>1. n - j \in Nat /\ n - j <= n /\ n - (n - j) = j /\ n - j < p BY <1>5, <1>6
  <2> QED BY <1>4, <2>1
<1> QED BY <1>5, <1>6

\* A function on the positions of a string whose value at each is made from the
\* one at a later position: base at the end, else made from the value at next.
Recursion(f, n, stops, base, next, step) ==
  \A i \in 0 .. n : f[i] = IF i \in stops THEN base[i] ELSE step[i][f[next[i]]]

\* There is such a function.
LEMMA DownwardRecursion ==
  ASSUME NEW n \in Nat, NEW V, NEW stops, NEW base \in [0 .. n -> V],
         NEW next \in [0 .. n -> Nat], NEW step \in [0 .. n -> [V -> V]],
         \A i \in 0 .. n : i \notin stops => next[i] > i /\ next[i] <= n
  PROVE  \E f \in [0 .. n -> V] : Recursion(f, n, stops, base, next, step)
<1> DEFINE From(f, i) ==
             \A j \in i .. n : f[j] = IF j \in stops THEN base[j] ELSE step[j][f[next[j]]]
           S == {i \in 0 .. n : \E f \in [0 .. n -> V] : From(f, i)}
<1>1. ASSUME NEW i \in 0 .. n, \A j \in 0 .. n : j > i => j \in S PROVE i \in S
  <2>1. \E f \in [0 .. n -> V] : From(f, i + 1)
    <3>1. CASE i = n
      <4>1. base \in [0 .. n -> V] /\ i + 1 .. n = {} BY <3>1
      <4>2. From(base, i + 1) BY <4>1
      <4> QED BY <4>1, <4>2
    <3>2. CASE i # n
      <4>1. i + 1 \in 0 .. n /\ i + 1 > i BY <3>2
      <4> QED BY <1>1, <4>1
    <3> QED BY <3>1, <3>2
  <2>2. PICK f \in [0 .. n -> V] : From(f, i + 1) BY <2>1
  <2> DEFINE value == IF i \in stops THEN base[i] ELSE step[i][f[next[i]]]
             g == [f EXCEPT ![i] = value]
  <2>3. value \in V
    <3>1. CASE i \in stops BY <3>1
    <3>2. CASE i \notin stops
      <4>1. next[i] \in 0 .. n BY <3>2
      <4>2. f[next[i]] \in V /\ step[i] \in [V -> V] BY <4>1
      <4> QED BY <3>2, <4>2
    <3> QED BY <3>1, <3>2
  <2>3a. value = IF i \in stops THEN base[i] ELSE step[i][f[next[i]]] OBVIOUS
  <2> HIDE DEF value
  <2>4. g \in [0 .. n -> V] BY <2>3
  <2>5. g[i] = value /\ \A j \in i + 1 .. n : g[j] = f[j] OBVIOUS
  <2> HIDE DEF g
  <2>6. ASSUME NEW j \in i .. n
        PROVE  g[j] = IF j \in stops THEN base[j] ELSE step[j][g[next[j]]]
    <3>1. j \in 0 .. n OBVIOUS
    <3>2. j \notin stops => next[j] \in i + 1 .. n
      <4> SUFFICES ASSUME j \notin stops PROVE next[j] \in i + 1 .. n OBVIOUS
      <4>1. next[j] > j /\ next[j] <= n /\ next[j] \in Nat BY <3>1
      <4> QED BY <4>1
    <3>3. j \notin stops => g[next[j]] = f[next[j]] BY <2>5, <3>2
    <3>4. CASE j = i BY <2>3a, <2>5, <3>3, <3>4
    <3>5. CASE j # i
      <4>1. j \in i + 1 .. n BY <3>5
      <4>2. f[j] = IF j \in stops THEN base[j] ELSE step[j][f[next[j]]] BY <2>2, <4>1
      <4> QED BY <2>5, <3>3, <4>1, <4>2
    <3> QED BY <3>4, <3>5
  <2> QED BY <2>4, <2>6
<1> HIDE DEF S
<1>2. 0 .. n \subseteq S BY <1>1, DownwardInduction
<1>3. 0 \in S BY <1>2
<1>4. PICK f \in [0 .. n -> V] : From(f, 0) BY <1>3 DEF S
<1> QED BY <1>4 DEF Recursion

-----------------------------------------------------------------------------
(* Strings                                                                 *)

\* The least and the greatest of a set of integers with bounds.
LEMMA LeastOf ==
  ASSUME NEW lo \in Int, NEW hi \in Int, NEW S \in SUBSET (lo .. hi), S # {}
  PROVE  Library!Min(S) \in S /\ \A x \in S : Library!Min(S) <= x
<1>1. \E x \in S : \A y \in S : x <= y
  <2> SUFFICES ASSUME \A x \in S : \E y \in S : y < x PROVE FALSE OBVIOUS
  <2> DEFINE R == OpToRel(<, Nat)
             above == {k \in Nat : lo + k \in S}
  <2>1. IsWellFoundedOn(R, Nat) BY NatLessThanWellFounded
  <2>2. above \subseteq Nat /\ above # {}
    <3>1. PICK x \in S : TRUE OBVIOUS
    <3>2. x - lo \in Nat /\ lo + (x - lo) = x OBVIOUS
    <3> QED BY <3>2
  <2>3. PICK p \in above : \A q \in above : ~ (<< q, p >> \in R)
    <3> HIDE DEF R, above
    <3> QED BY <2>1, <2>2, WFMin, Zenon
  <2>4. \A q \in above : ~ (q < p) BY <2>3 DEF OpToRel
  <2>5. p \in Nat /\ lo + p \in S OBVIOUS
  <2>6. PICK y \in S : y < lo + p BY <2>5
  <2>7. y - lo \in Nat /\ lo + (y - lo) = y /\ y - lo < p BY <2>5, <2>6
  <2> QED BY <2>4, <2>7
<1> QED BY <1>1 DEF Library!Min

\* The same from above.
LEMMA GreatestOf ==
  ASSUME NEW lo \in Int, NEW hi \in Int, NEW S \in SUBSET (lo .. hi), S # {}
  PROVE  Library!Max(S) \in S /\ \A x \in S : x <= Library!Max(S)
<1>1. \E x \in S : \A y \in S : x >= y
  <2> SUFFICES ASSUME \A x \in S : \E y \in S : y > x PROVE FALSE OBVIOUS
  <2> DEFINE R == OpToRel(<, Nat)
             below == {k \in Nat : hi - k \in S}
  <2>1. IsWellFoundedOn(R, Nat) BY NatLessThanWellFounded
  <2>2. below \subseteq Nat /\ below # {}
    <3>1. PICK x \in S : TRUE OBVIOUS
    <3>2. hi - x \in Nat /\ hi - (hi - x) = x OBVIOUS
    <3> QED BY <3>2
  <2>3. PICK p \in below : \A q \in below : ~ (<< q, p >> \in R)
    <3> HIDE DEF R, below
    <3> QED BY <2>1, <2>2, WFMin, Zenon
  <2>4. \A q \in below : ~ (q < p) BY <2>3 DEF OpToRel
  <2>5. p \in Nat /\ hi - p \in S OBVIOUS
  <2>6. PICK y \in S : y > hi - p BY <2>5
  <2>7. hi - y \in Nat /\ hi - (hi - y) = y /\ hi - y < p BY <2>5, <2>6
  <2> QED BY <2>4, <2>7
<1> QED BY <1>1 DEF Library!Max

\* A piece that ends within the string.
LEMMA PieceIs ==
  ASSUME NEW s \in Seq(Char), NEW i \in 0 .. Len(s), NEW count \in Nat
  PROVE  /\ Piece(s, i, count) \in Seq(Char)
         /\ i + count <= Len(s) => Piece(s, i, count) = SubSeq(s, i + 1, i + count)
         /\ i + count > Len(s) => Piece(s, i, count) = SubSeq(s, i + 1, Len(s))
<1> DEFINE S == {i + count, Len(s)}
           n == Len(s)
<1>0. n \in Nat /\ i \in Nat /\ i <= n OBVIOUS
<1> HIDE DEF n
<1> DEFINE hi == i + count + n
<1>1. 0 \in Int /\ hi \in Int /\ S \in SUBSET (0 .. hi) /\ S # {} BY <1>0 DEF n
<1> HIDE DEF S, hi
<1>2. Library!Min(S) \in S /\ \A x \in S : Library!Min(S) <= x BY <1>1, LeastOf
<1>3. /\ i + count <= n => Library!Min(S) = i + count
      /\ i + count > n => Library!Min(S) = n
  BY <1>0, <1>2 DEF S, n
<1>4. Piece(s, i, count) = SubSeq(s, i + 1, Library!Min(S)) BY DEF Piece, S
<1>5. Library!Min(S) \in 0 .. n BY <1>0, <1>3
<1>6. SubSeq(s, i + 1, Library!Min(S)) \in Seq(Char) BY <1>0, <1>5 DEF n
<1> QED BY <1>3, <1>4, <1>6 DEF n

\* What is found at a position is there character by character.
LEMMA AtMeans ==
  ASSUME NEW s \in Seq(Char), NEW t \in Seq(Char), NEW i \in 0 .. Len(s)
  PROVE  At(s, t, i) <=> i + Len(t) <= Len(s) /\ \A k \in 1 .. Len(t) : s[i + k] = t[k]
<1> DEFINE m == Len(t)
           n == Len(s)
           p == Piece(s, i, m)
<1>0. n \in Nat /\ m \in Nat /\ i \in Nat /\ i <= n OBVIOUS
<1>1. /\ i + m <= n => p = SubSeq(s, i + 1, i + m)
      /\ i + m > n => p = SubSeq(s, i + 1, n)
  BY PieceIs
<1>2. At(s, t, i) <=> p = t BY DEF At
<1>3. CASE i + m > n
  <2>1. Len(SubSeq(s, i + 1, n)) = n - i BY <1>0
  <2>2. n - i # m BY <1>0, <1>3
  <2>3. p # t BY <1>1, <1>3, <2>1, <2>2
  <2> QED BY <1>0, <1>2, <1>3, <2>3
<1>4. CASE i + m <= n
  <2> DEFINE q == SubSeq(s, i + 1, i + m)
  <2>1. /\ q \in Seq(Char) /\ Len(q) = m /\ \A k \in 1 .. m : q[k] = s[i + k]
    <3>1. q \in Seq(Char) /\ Len(q) = m BY <1>0, <1>4
    <3>2. ASSUME NEW k \in 1 .. m PROVE q[k] = s[i + k]
      <4>1. i + 1 + k - 1 = i + k BY <1>0
      <4> QED BY <1>0, <1>4, <4>1
    <3> QED BY <3>1, <3>2
  <2>2. p = q BY <1>1, <1>4
  <2> HIDE DEF p, q
  <2>3. q = t <=> \A k \in 1 .. m : q[k] = t[k]
    <3>1. q \in [1 .. m -> Char] /\ t \in [1 .. m -> Char] BY <2>1
    <3> QED BY <3>1
  <2> QED BY <1>2, <1>4, <2>1, <2>2, <2>3
<1> QED BY <1>0, <1>3, <1>4

-----------------------------------------------------------------------------
(* Counting                                                                *)

\* An occurrence ends within the string.
LEMMA OccurrencesAre ==
  ASSUME NEW s \in Seq(Char), NEW t \in Seq(Char) \ {<< >>}
  PROVE  /\ Len(s) \in Nat /\ Len(t) \in Nat /\ Len(t) >= 1
         /\ \A i \in Occurrences(s, t) : i \in Nat /\ i + Len(t) <= Len(s)
         /\ \A i \in 0 .. Len(s) : At(s, t, i) <=> i \in Occurrences(s, t)
<1>1. Len(s) \in Nat /\ Len(t) \in Nat /\ Len(t) >= 1 OBVIOUS
<1>2. ASSUME NEW i \in Occurrences(s, t) PROVE i \in Nat /\ i + Len(t) <= Len(s)
  <2>1. i \in 0 .. Len(s) - Len(t) BY DEF Occurrences
  <2> QED BY <1>1, <2>1
<1>3. ASSUME NEW i \in 0 .. Len(s) PROVE At(s, t, i) <=> i \in Occurrences(s, t)
  <2>1. At(s, t, i) => i + Len(t) <= Len(s) BY AtMeans
  <2>2. At(s, t, i) => i \in 0 .. Len(s) - Len(t) BY <1>1, <2>1
  <2> QED BY <2>2 DEF Occurrences
<1> QED BY <1>1, <1>2, <1>3

\* What the scan counts from each position on.
Later(s, t, i) == {j \in Occurrences(s, t) : j >= i}

CountsFrom(f, s, t) ==
  f = [i \in 0 .. Len(s) |->
         LET next == {j \in Occurrences(s, t) : j >= i}
         IN  IF next = {} THEN 0 ELSE 1 + f[Library!Min(next) + Len(t)]]

\* The next occurrence is one, and none is before it.
LEMMA NextOccurrence ==
  ASSUME NEW s \in Seq(Char), NEW t \in Seq(Char) \ {<< >>}, NEW i \in 0 .. Len(s),
         Later(s, t, i) # {}
  PROVE  /\ Library!Min(Later(s, t, i)) \in Later(s, t, i)
         /\ \A x \in Later(s, t, i) : Library!Min(Later(s, t, i)) <= x
<1> DEFINE n == Len(s)
           S == Later(s, t, i)
<1>1. 0 \in Int /\ n \in Int BY OccurrencesAre
<1>2. \A x \in S : x \in 0 .. n BY OccurrencesAre DEF Later
<1> HIDE DEF n, S
<1>3. S \in SUBSET (0 .. n) BY <1>2
<1>4. S # {} BY DEF S
<1>5. Library!Min(S) \in S /\ \A x \in S : Library!Min(S) <= x BY <1>1, <1>3, <1>4, LeastOf
<1> QED BY <1>5 DEF S

\* The scan counts.
LEMMA CountsExist ==
  ASSUME NEW s \in Seq(Char), NEW t \in Seq(Char) \ {<< >>}
  PROVE  \E f : CountsFrom(f, s, t)
<1> DEFINE n == Len(s)
           stops == {i \in 0 .. n : Later(s, t, i) = {}}
           base == [i \in 0 .. n |-> 0]
           next == [i \in 0 .. n |->
                      IF i \in stops THEN 0 ELSE Library!Min(Later(s, t, i)) + Len(t)]
           step == [i \in 0 .. n |-> [v \in Nat |-> 1 + v]]
<1>1. n \in Nat /\ base \in [0 .. n -> Nat] /\ step \in [0 .. n -> [Nat -> Nat]] OBVIOUS
<1>2. ASSUME NEW i \in 0 .. n, i \notin stops
      PROVE  next[i] \in Nat /\ next[i] > i /\ next[i] <= n
  <2> DEFINE j == Library!Min(Later(s, t, i))
  <2>1. next[i] = j + Len(t) BY <1>2
  <2>2. j \in Later(s, t, i) BY <1>2, NextOccurrence
  <2>3. j \in Nat /\ j >= i /\ j + Len(t) <= n BY <2>2, OccurrencesAre DEF Later
  <2>4. Len(t) \in Nat /\ Len(t) >= 1 BY OccurrencesAre
  <2> HIDE DEF j, next
  <2> QED BY <2>1, <2>3, <2>4
<1>3. next \in [0 .. n -> Nat]
  <2>1. \A i \in 0 .. n : next[i] \in Nat BY <1>2
  <2> QED BY <2>1
<1>4. \A i \in 0 .. n : i \notin stops => next[i] > i /\ next[i] <= n BY <1>2
<1>5. \A i \in 0 .. n : i \notin stops => next[i] = Library!Min(Later(s, t, i)) + Len(t) OBVIOUS
<1>5a. \A i \in 0 .. n : i \in stops <=> Later(s, t, i) = {} OBVIOUS
<1>5b. /\ \A i \in 0 .. n : base[i] = 0
       /\ \A i \in 0 .. n : \A v \in Nat : step[i][v] = 1 + v
  OBVIOUS
<1> HIDE DEF n, stops, base, next, step
<1>6. PICK f \in [0 .. n -> Nat] : Recursion(f, n, stops, base, next, step)
  BY <1>1, <1>3, <1>4, DownwardRecursion
<1>7. ASSUME NEW i \in 0 .. n
      PROVE  f[i] = IF Later(s, t, i) = {} THEN 0
                    ELSE 1 + f[Library!Min(Later(s, t, i)) + Len(t)]
  <2>1. f[i] = IF i \in stops THEN base[i] ELSE step[i][f[next[i]]] BY <1>6 DEF Recursion
  <2>2. CASE i \in stops BY <1>5a, <1>5b, <2>1, <2>2
  <2>3. CASE i \notin stops
    <3>1. next[i] \in 0 .. n BY <1>1, <1>3, <1>4, <2>3
    <3>2. f[next[i]] \in Nat BY <3>1
    <3>3. f[i] = 1 + f[next[i]] BY <1>5b, <2>1, <2>3, <3>2
    <3> QED BY <1>5, <1>5a, <2>3, <3>3
  <2> QED BY <2>2, <2>3
<1>8. f = [i \in 0 .. n |-> IF Later(s, t, i) = {} THEN 0
                            ELSE 1 + f[Library!Min(Later(s, t, i)) + Len(t)]]
  BY <1>7
<1> QED BY <1>8 DEF CountsFrom, Later, n

\* The count is what one of these functions says of the whole string.
LEMMA CountIs ==
  ASSUME NEW s \in Seq(Char), NEW t \in Seq(Char) \ {<< >>}
  PROVE  \E f : CountsFrom(f, s, t) /\ CountOf(s, t) = f[0]
<1> DEFINE h == CHOOSE f : CountsFrom(f, s, t)
<1>1. CountsFrom(h, s, t) BY CountsExist
<1>2. CountOf(s, t) = h[0] BY DEF CountOf, CountsFrom
<1> QED BY <1>1, <1>2

\* The count one character at a time: a match is counted and passed over, any
\* other character passed.
LEMMA CountStep ==
  ASSUME NEW s \in Seq(Char), NEW t \in Seq(Char) \ {<< >>}, NEW f, CountsFrom(f, s, t),
         NEW i \in 0 .. Len(s)
  PROVE  /\ At(s, t, i) => i + Len(t) \in 0 .. Len(s) /\ f[i] = 1 + f[i + Len(t)]
         /\ ~ At(s, t, i) /\ i # Len(s) => f[i] = f[i + 1]
         /\ i = Len(s) => ~ At(s, t, i) /\ f[i] = 0
<1> DEFINE n == Len(s)
           m == Len(t)
<1>1. /\ n \in Nat /\ m \in Nat /\ m >= 1
      /\ \A j \in Occurrences(s, t) : j \in Nat /\ j + m <= n
      /\ At(s, t, i) <=> i \in Occurrences(s, t)
  BY OccurrencesAre
<1>2. \A j \in 0 .. n : f[j] = IF Later(s, t, j) = {} THEN 0
                               ELSE 1 + f[Library!Min(Later(s, t, j)) + m]
  BY DEF CountsFrom, Later
<1> HIDE DEF n, m
<1>3. ASSUME At(s, t, i) PROVE i + m \in 0 .. n /\ f[i] = 1 + f[i + m]
  <2>1. i \in Later(s, t, i) BY <1>1, <1>3 DEF Later
  <2>2. Library!Min(Later(s, t, i)) \in Later(s, t, i) /\ Library!Min(Later(s, t, i)) <= i
    BY <2>1, NextOccurrence
  <2>3. Library!Min(Later(s, t, i)) \in Nat /\ Library!Min(Later(s, t, i)) >= i
    BY <1>1, <2>2 DEF Later
  <2>4. Library!Min(Later(s, t, i)) = i BY <1>1, <2>2, <2>3
  <2>5. i + m \in 0 .. n BY <1>1, <1>3
  <2> QED BY <1>2, <2>1, <2>4, <2>5 DEF n
<1>4. ASSUME ~ At(s, t, i), i # n PROVE f[i] = f[i + 1]
  <2>1. \A j \in Occurrences(s, t) : j >= i <=> j >= i + 1
    <3>1. i \in Nat OBVIOUS
    <3> QED BY <1>1, <1>4, <3>1
  <2>2. Later(s, t, i) = Later(s, t, i + 1) BY <2>1 DEF Later
  <2>3. i + 1 \in 0 .. n BY <1>1, <1>4 DEF n
  <2> QED BY <1>2, <2>2, <2>3 DEF n
<1>5. ASSUME i = n PROVE ~ At(s, t, i) /\ f[i] = 0
  <2>1. \A j \in Occurrences(s, t) : ~ (j >= n) BY <1>1
  <2>2. Later(s, t, i) = {} BY <1>5, <2>1 DEF Later
  <2>3. ~ At(s, t, i)
    <3>1. i >= n BY <1>1, <1>5
    <3> QED BY <1>1, <2>1, <3>1
  <2> QED BY <1>2, <2>2, <2>3 DEF n
<1> QED BY <1>3, <1>4, <1>5 DEF n, m

\* The scan finds as many occurrences as can be had apart, and no more can be.
MostFrom(s, t, i, count) ==
  /\ count \in Nat
  /\ \E S \in SUBSET Later(s, t, i) :
       Disjoint(S, Len(t)) /\ IsFiniteSet(S) /\ Cardinality(S) = count
  /\ \A S \in SUBSET Later(s, t, i) :
       Disjoint(S, Len(t)) => IsFiniteSet(S) /\ Cardinality(S) <= count

\* One occurrence more at the front.
LEMMA OneMoreIsMost ==
  ASSUME NEW s \in Seq(Char), NEW t \in Seq(Char) \ {<< >>}, NEW i \in Occurrences(s, t),
         NEW count, MostFrom(s, t, i + Len(t), count)
  PROVE  MostFrom(s, t, i, 1 + count)
<1> DEFINE m == Len(t)
<1>1. /\ m \in Nat /\ m >= 1 /\ i \in Nat
      /\ \A j \in Occurrences(s, t) : j \in Nat
  BY OccurrencesAre
<1>2. count \in Nat BY DEF MostFrom
<1>3. \E S \in SUBSET Later(s, t, i) :
        Disjoint(S, m) /\ IsFiniteSet(S) /\ Cardinality(S) = 1 + count
  <2>1. PICK S \in SUBSET Later(s, t, i + m) :
          Disjoint(S, m) /\ IsFiniteSet(S) /\ Cardinality(S) = count
    BY DEF MostFrom
  <2> HIDE DEF m
  <2>2. \A j \in S : j \in Occurrences(s, t) /\ j \in Nat /\ j >= i + m BY <1>1, <2>1 DEF Later
  <2>3. i \notin S BY <1>1, <2>2
  <2> DEFINE T == S \cup {i}
  <2>4. IsFiniteSet(T) /\ Cardinality(T) = count + 1 BY <1>2, <2>1, <2>3, FS_AddElement
  <2>5. T \in SUBSET Later(s, t, i)
    <3>1. \A j \in S : j >= i BY <1>1, <2>2
    <3>2. i >= i BY <1>1
    <3> QED BY <2>2, <3>1, <3>2 DEF Later
  <2>6. Disjoint(T, m)
    <3>1. \A j \in S : j - i >= m BY <1>1, <2>2
    <3> QED BY <2>1, <3>1 DEF Disjoint
  <2> HIDE DEF T
  <2>7. Cardinality(T) = 1 + count BY <1>2, <2>4
  <2> QED BY <2>4, <2>5, <2>6, <2>7
<1>4. ASSUME NEW S \in SUBSET Later(s, t, i), Disjoint(S, m)
      PROVE  IsFiniteSet(S) /\ Cardinality(S) <= 1 + count
  <2> HIDE DEF m
  <2> DEFINE back == {j \in S : j >= i + m}
  <2>1. \A j \in S : j \in Occurrences(s, t) /\ j \in Nat /\ j >= i BY <1>1, <1>4 DEF Later
  <2>2. back \in SUBSET Later(s, t, i + m) BY <2>1 DEF Later
  <2>3. Disjoint(back, m) BY <1>4 DEF Disjoint
  <2> HIDE DEF back
  <2>4. IsFiniteSet(back) /\ Cardinality(back) <= count BY <2>2, <2>3 DEF MostFrom, m
  <2>5. Cardinality(back) \in Nat BY <2>4, FS_CardinalityType
  <2>6. CASE S = back BY <1>2, <2>4, <2>5, <2>6
  <2>7. CASE S # back
    <3>1. PICK b \in S : b \notin back BY <2>7 DEF back
    <3>2. b < i + m BY <1>1, <2>1, <3>1 DEF back
    <3>3. \A j \in S : j \notin back => j = b
      <4>1. SUFFICES ASSUME NEW j \in S, j \notin back PROVE j = b OBVIOUS
      <4>2. j < i + m BY <1>1, <2>1, <4>1 DEF back
      <4>3. ~ (j - b >= m) /\ ~ (b - j >= m) BY <1>1, <2>1, <3>2, <4>2
      <4> QED BY <1>4, <4>3 DEF Disjoint
    <3>4. S = back \cup {b} BY <3>1, <3>3 DEF back
    <3>5. IsFiniteSet(S) /\ Cardinality(S) = Cardinality(back) + 1
      BY <2>4, <3>1, <3>4, FS_AddElement
    <3> QED BY <1>2, <2>4, <2>5, <3>5
  <2> QED BY <2>6, <2>7
<1> QED BY <1>2, <1>3, <1>4 DEF MostFrom

\* From every position on the scan counts as many as can be had.
LEMMA CountIsMostFrom ==
  ASSUME NEW s \in Seq(Char), NEW t \in Seq(Char) \ {<< >>}, NEW f, CountsFrom(f, s, t)
  PROVE  \A i \in 0 .. Len(s) : MostFrom(s, t, i, f[i])
<1> DEFINE n == Len(s)
           S == {i \in 0 .. n : MostFrom(s, t, i, f[i])}
<1>0. n \in Nat /\ Len(t) \in Nat /\ Len(t) >= 1 BY OccurrencesAre
<1>1. ASSUME NEW i \in 0 .. n, \A j \in 0 .. n : j > i => j \in S PROVE i \in S
  <2>1. CASE At(s, t, i)
    <3>1. i + Len(t) \in 0 .. n /\ f[i] = 1 + f[i + Len(t)] BY <2>1, CountStep
    <3>2. i + Len(t) > i BY <1>0
    <3>3. MostFrom(s, t, i + Len(t), f[i + Len(t)]) BY <1>1, <3>1, <3>2
    <3>4. i \in Occurrences(s, t) BY <2>1, OccurrencesAre
    <3>5. MostFrom(s, t, i, 1 + f[i + Len(t)]) BY <3>3, <3>4, OneMoreIsMost
    <3> QED BY <3>1, <3>5
  <2>2. CASE ~ At(s, t, i) /\ i # n
    <3>1. f[i] = f[i + 1] BY <2>2, CountStep
    <3>2. i + 1 \in 0 .. n /\ i + 1 > i BY <1>0, <2>2
    <3>3. MostFrom(s, t, i + 1, f[i + 1]) BY <1>1, <3>2
    <3>4. i \notin Occurrences(s, t) /\ \A j \in Occurrences(s, t) : j \in Nat
      BY <2>2, OccurrencesAre
    <3>5. \A j \in Occurrences(s, t) : j >= i <=> j >= i + 1
      <4>1. i \in Nat OBVIOUS
      <4> QED BY <3>4, <4>1
    <3>6. Later(s, t, i) = Later(s, t, i + 1) BY <3>5 DEF Later
    <3> QED BY <3>1, <3>3, <3>6 DEF MostFrom
  <2>3. CASE i = n
    <3>1. f[i] = 0 BY <2>3, CountStep
    <3>2. \A j \in Occurrences(s, t) : j \in Nat /\ j + Len(t) <= n BY OccurrencesAre
    <3>3. Later(s, t, i) = {}
      <4>1. \A j \in Occurrences(s, t) : ~ (j >= n) BY <1>0, <3>2
      <4> QED BY <2>3, <4>1 DEF Later
    <3>4. IsFiniteSet({}) /\ Cardinality({}) = 0 BY FS_EmptySet
    <3>5. Disjoint({}, Len(t)) BY DEF Disjoint
    <3>6. MostFrom(s, t, i, 0)
      <4>1. 0 \in Nat /\ 0 <= 0 OBVIOUS
      <4>2. \A X \in SUBSET {} : X = {} OBVIOUS
      <4> QED BY <3>3, <3>4, <3>5, <4>1, <4>2 DEF MostFrom
    <3> QED BY <3>1, <3>6
  <2> QED BY <2>1, <2>2, <2>3, CountStep
<1> HIDE DEF S
<1>2. 0 .. n \subseteq S BY <1>0, <1>1, DownwardInduction
<1> QED BY <1>2 DEF S, n

\* So does the count of the whole string.
LEMMA CountIsOfMost ==
  ASSUME NEW s \in Seq(Char), NEW t \in Seq(Char) \ {<< >>}
  PROVE  /\ CountOf(s, t) \in Nat
         /\ \E S \in SUBSET Occurrences(s, t) :
              Disjoint(S, Len(t)) /\ Cardinality(S) = CountOf(s, t)
         /\ \A S \in SUBSET Occurrences(s, t) :
              Disjoint(S, Len(t)) => Cardinality(S) <= CountOf(s, t)
<1>1. PICK f : CountsFrom(f, s, t) /\ CountOf(s, t) = f[0] BY CountIs
<1>2. 0 \in 0 .. Len(s) OBVIOUS
<1>3. MostFrom(s, t, 0, CountOf(s, t)) BY <1>1, <1>2, CountIsMostFrom
<1>4. Later(s, t, 0) = Occurrences(s, t)
  <2>1. \A j \in Occurrences(s, t) : j >= 0 BY OccurrencesAre
  <2> QED BY <2>1 DEF Later
<1> QED BY <1>3, <1>4 DEF MostFrom

\* A string occurs iff its occurrences are counted.
LEMMA CountedIfContained ==
  ASSUME NEW s \in Seq(Char), NEW t \in Seq(Char) \ {<< >>}
  PROVE  ContainsString(s, t) <=> CountOf(s, t) > 0
<1> DEFINE O == Occurrences(s, t)
<1>0. CountOf(s, t) \in Nat BY CountIsOfMost
<1>1. ASSUME O # {} PROVE CountOf(s, t) > 0
  <2>1. PICK i \in O : TRUE BY <1>1
  <2>2. Disjoint({i}, Len(t)) /\ {i} \in SUBSET O BY DEF Disjoint
  <2>3. Cardinality({i}) = 1 BY FS_Singleton
  <2>4. 1 <= CountOf(s, t) BY <2>2, <2>3, CountIsOfMost
  <2> QED BY <1>0, <2>4
<1>2. ASSUME O = {} PROVE CountOf(s, t) = 0
  <2>1. PICK S \in SUBSET O : Cardinality(S) = CountOf(s, t) BY CountIsOfMost
  <2>2. S = {} BY <1>2, <2>1
  <2> QED BY <2>1, <2>2, FS_EmptySet
<1> QED BY <1>0, <1>1, <1>2 DEF ContainsString

-----------------------------------------------------------------------------
(* Filling, cutting and flattening                                         *)

\* One sequence after another.
LEMMA ConcatIs ==
  ASSUME NEW E, NEW p \in Seq(E), NEW q \in Seq(E)
  PROVE  /\ p \o q \in Seq(E)
         /\ Len(p \o q) = Len(p) + Len(q)
         /\ << >> \o q = q
         /\ q \o << >> = q
  OBVIOUS

\* An element before a sequence.
LEMMA Prepended ==
  ASSUME NEW E, NEW e \in E, NEW q \in Seq(E)
  PROVE  /\ << e >> \o q \in Seq(E)
         /\ Len(<< e >> \o q) = Len(q) + 1
         /\ (<< e >> \o q)[1] = e
         /\ \A i \in 1 .. Len(q) : (<< e >> \o q)[i + 1] = q[i]
<1>1. << e >> \in Seq(E) OBVIOUS
<1>2. << e >> \o q \in Seq(E) BY <1>1
<1> QED BY <1>1, <1>2

\* It does not matter which two of three sequences are joined first.
LEMMA ConcatThree ==
  ASSUME NEW E, NEW p \in Seq(E), NEW q \in Seq(E), NEW r \in Seq(E)
  PROVE  (p \o q) \o r = p \o (q \o r)
<1> DEFINE left_ == (p \o q) \o r
           right_ == p \o (q \o r)
           n == Len(p) + Len(q) + Len(r)
<1>1. Len(p) \in Nat /\ Len(q) \in Nat /\ Len(r) \in Nat OBVIOUS
<1>2. /\ p \o q \in Seq(E) /\ Len(p \o q) = Len(p) + Len(q)
      /\ q \o r \in Seq(E) /\ Len(q \o r) = Len(q) + Len(r)
  BY ConcatIs
<1>3. left_ \in Seq(E) /\ Len(left_) = n /\ right_ \in Seq(E) /\ Len(right_) = n
  BY <1>1, <1>2
<1>4. ASSUME NEW i \in 1 .. n PROVE left_[i] = right_[i]
  <2>1. CASE i <= Len(p) BY <1>1, <1>2, <2>1
  <2>2. CASE i > Len(p) /\ i <= Len(p) + Len(q)
    <3>1. left_[i] = q[i - Len(p)] BY <1>1, <1>2, <2>2
    <3>2. right_[i] = (q \o r)[i - Len(p)] BY <1>1, <1>2, <2>2
    <3>3. i - Len(p) \in 1 .. Len(q) BY <1>1, <2>2
    <3> QED BY <3>1, <3>2, <3>3
  <2>3. CASE i > Len(p) + Len(q)
    <3>1. left_[i] = r[i - Len(p \o q)] BY <1>1, <1>2, <2>3
    <3>2. right_[i] = (q \o r)[i - Len(p)] BY <1>1, <1>2, <2>3
    <3>3. i - Len(p) \in Len(q) + 1 .. Len(q) + Len(r) BY <1>1, <2>3
    <3>4. (q \o r)[i - Len(p)] = r[i - Len(p) - Len(q)] BY <1>1, <3>3
    <3>5. i - Len(p \o q) = i - Len(p) - Len(q) BY <1>1, <1>2
    <3> QED BY <3>1, <3>2, <3>4, <3>5
  <2> QED BY <1>1, <2>1, <2>2, <2>3
<1>5. n \in Nat BY <1>1
<1> HIDE DEF left_, right_, n
<1>6. left_ \in [1 .. n -> E] /\ right_ \in [1 .. n -> E] BY <1>3
<1>7. left_ = [i \in 1 .. n |-> left_[i]] /\ right_ = [i \in 1 .. n |-> right_[i]] BY <1>6
<1>8. [i \in 1 .. n |-> left_[i]] = [i \in 1 .. n |-> right_[i]] BY <1>4
<1> QED BY <1>7, <1>8 DEF left_, right_

Prepends(r, n, head, next) ==
  \A i \in 0 .. n : r[i] = head[i] \o IF next[i] <= n THEN r[next[i]] ELSE << >>

\* A recursion that puts something before what comes of a later position.
LEMMA PrependRecursion ==
  ASSUME NEW n \in Nat, NEW E, NEW head \in [0 .. n -> Seq(E)], NEW next \in [0 .. n -> Nat],
         \A i \in 0 .. n : next[i] > i
  PROVE  \E r \in [0 .. n -> Seq(E)] : Prepends(r, n, head, next)
<1> DEFINE stops == {i \in 0 .. n : next[i] > n}
           step == [i \in 0 .. n |-> [v \in Seq(E) |-> head[i] \o v]]
<1>1. step \in [0 .. n -> [Seq(E) -> Seq(E)]]
  <2>1. \A i \in 0 .. n : \A v \in Seq(E) : head[i] \o v \in Seq(E) BY ConcatIs
  <2> QED BY <2>1
<1>2. \A i \in 0 .. n : i \notin stops => next[i] > i /\ next[i] <= n OBVIOUS
<1>3. \A i \in 0 .. n : i \in stops <=> ~ (next[i] <= n) OBVIOUS
<1>4. \A i \in 0 .. n : \A v \in Seq(E) : step[i][v] = head[i] \o v OBVIOUS
<1> HIDE DEF stops, step
<1>5. PICK r \in [0 .. n -> Seq(E)] : Recursion(r, n, stops, head, next, step)
  BY <1>1, <1>2, DownwardRecursion
<1>6. ASSUME NEW i \in 0 .. n
      PROVE  r[i] = head[i] \o IF next[i] <= n THEN r[next[i]] ELSE << >>
  <2>1. r[i] = IF i \in stops THEN head[i] ELSE step[i][r[next[i]]] BY <1>5 DEF Recursion
  <2>2. CASE i \in stops
    <3>1. head[i] \o << >> = head[i] BY ConcatIs
    <3> QED BY <1>3, <2>1, <2>2, <3>1
  <2>3. CASE i \notin stops
    <3>1. next[i] \in 0 .. n BY <1>2, <2>3
    <3>2. r[next[i]] \in Seq(E) BY <3>1
    <3> QED BY <1>3, <1>4, <2>1, <2>3, <3>2
  <2> QED BY <2>2, <2>3
<1> QED BY <1>6 DEF Prepends

\* What the second scan of maip_io_cstr_replace writes from each position on.
WritesFrom(r, s, old, new) ==
  r = [i \in 0 .. Len(s) |->
         IF i = Len(s) THEN << >>
         ELSE IF At(s, old, i) THEN new \o r[i + Len(old)]
         ELSE << s[i + 1] >> \o r[i + 1]]

\* The second scan writes.
LEMMA WritesExist ==
  ASSUME NEW s \in Seq(Char), NEW old \in Seq(Char) \ {<< >>}, NEW new \in Seq(Char)
  PROVE  \E r : WritesFrom(r, s, old, new)
<1> DEFINE n == Len(s)
           head == [i \in 0 .. n |-> IF i = n THEN << >>
                                     ELSE IF At(s, old, i) THEN new ELSE << s[i + 1] >>]
           next == [i \in 0 .. n |-> IF i # n /\ At(s, old, i) THEN i + Len(old) ELSE i + 1]
<1>1. n \in Nat /\ Len(old) \in Nat /\ Len(old) >= 1 BY OccurrencesAre
<1>2. head \in [0 .. n -> Seq(Char)]
  <2>1. \A i \in 0 .. n : i # n => << s[i + 1] >> \in Seq(Char)
    <3>1. SUFFICES ASSUME NEW i \in 0 .. n, i # n PROVE << s[i + 1] >> \in Seq(Char) OBVIOUS
    <3>2. s[i + 1] \in Char BY <1>1, <3>1
    <3> QED BY <3>2
  <2>2. << >> \in Seq(Char) OBVIOUS
  <2> QED BY <2>1, <2>2
<1>3. ASSUME NEW i \in 0 .. n PROVE next[i] \in Nat /\ next[i] > i
  BY <1>1
<1>4. next \in [0 .. n -> Nat]
  <2>1. \A i \in 0 .. n : next[i] \in Nat BY <1>3
  <2> QED BY <2>1
<1>5. ASSUME NEW i \in 0 .. n, i # n PROVE next[i] \in 0 .. n
  <2>1. At(s, old, i) => i + Len(old) <= n BY AtMeans
  <2> QED BY <1>1, <1>5, <2>1
<1>6. next[n] > n BY <1>3, <1>1
<1>7. \A i \in 0 .. n : /\ i = n => head[i] = << >>
                        /\ i # n /\ At(s, old, i) => head[i] = new /\ next[i] = i + Len(old)
                        /\ i # n /\ ~ At(s, old, i) =>
                             head[i] = << s[i + 1] >> /\ next[i] = i + 1
  OBVIOUS
<1>8. \A i \in 0 .. n : next[i] > i BY <1>3
<1> HIDE DEF n, head, next
<1>9. PICK r \in [0 .. n -> Seq(Char)] : Prepends(r, n, head, next)
  BY <1>1, <1>2, <1>4, <1>8, PrependRecursion
<1>10. ASSUME NEW i \in 0 .. n
       PROVE  r[i] = IF i = n THEN << >>
                     ELSE IF At(s, old, i) THEN new \o r[i + Len(old)]
                     ELSE << s[i + 1] >> \o r[i + 1]
  <2>1. CASE i = n
    <3>1. ~ (next[i] <= n) BY <1>1, <1>4, <1>6, <2>1
    <3>2. r[i] = << >> \o << >> BY <1>7, <1>9, <2>1, <3>1 DEF Prepends
    <3> QED BY <2>1, <3>2
  <2>2. CASE i # n
    <3>1. next[i] <= n BY <1>1, <1>5, <2>2
    <3>2. r[i] = head[i] \o r[next[i]] BY <1>9, <3>1 DEF Prepends
    <3> QED BY <1>7, <2>2, <3>2
  <2> QED BY <2>1, <2>2
<1>11. r = [i \in 0 .. n |-> IF i = n THEN << >>
                             ELSE IF At(s, old, i) THEN new \o r[i + Len(old)]
                             ELSE << s[i + 1] >> \o r[i + 1]]
  BY <1>10
<1> QED BY <1>11 DEF WritesFrom, n

\* A match replaced adds the new string to what was measured behind it.
LEMMA OneMoreWritten ==
  ASSUME NEW a \in Nat, NEW x \in Nat, NEW c \in Nat, NEW new \in Nat, NEW old \in Nat
  PROVE  new + (a + x * (new - old)) = a + old + (1 + x) * (new - old)
<1>1. (1 + x) * (new - old) = (new - old) + x * (new - old) OBVIOUS
<1> DEFINE y == x * (new - old)
<1>2. y \in Int OBVIOUS
<1> HIDE DEF y
<1>3. new + (a + y) = a + old + ((new - old) + y) BY <1>2
<1> QED BY <1>1, <1>3 DEF y

\* The second scan of maip_io_cstr_replace writes as much as the first measured.
LEMMA WrittenAsMeasured ==
  ASSUME NEW s \in Seq(Char), NEW old \in Seq(Char) \ {<< >>}, NEW new \in Seq(Char)
  PROVE  Len(Replace(s, old, new)) = Measured(s, old, new)
<1>1. PICK f : CountsFrom(f, s, old) /\ CountOf(s, old) = f[0] BY CountIs
<1> DEFINE r == CHOOSE g : WritesFrom(g, s, old, new)
           n == Len(s)
           d == Len(new) - Len(old)
           Fits_(i) == /\ f[i] \in Nat
                       /\ r[i] \in Seq(Char)
                       /\ Len(r[i]) = (n - i) + f[i] * d
           S == {i \in 0 .. n : Fits_(i)}
<1>2. WritesFrom(r, s, old, new) BY WritesExist
<1>3. Replace(s, old, new) = r[0] BY DEF Replace, WritesFrom
<1> HIDE DEF r
<1>4. /\ n \in Nat /\ Len(old) \in Nat /\ Len(old) >= 1 /\ Len(new) \in Nat
      /\ d \in Int
  BY OccurrencesAre
<1>5. \A i \in 0 .. n : r[i] = IF i = n THEN << >>
                               ELSE IF At(s, old, i) THEN new \o r[i + Len(old)]
                               ELSE << s[i + 1] >> \o r[i + 1]
  BY <1>2 DEF WritesFrom
<1>6. ASSUME NEW i \in 0 .. n, \A j \in 0 .. n : j > i => j \in S PROVE i \in S
  <2>1. CASE i = n
    <3>1. f[i] = 0 BY <1>1, <2>1, CountStep
    <3>2. r[i] = << >> BY <1>5, <2>1
    <3>3. << >> \in Seq(Char) /\ Len(<< >>) = 0 OBVIOUS
    <3> HIDE DEF d
    <3>4. 0 = (n - i) + 0 * d BY <1>4, <2>1
    <3>5. Len(r[i]) = (n - i) + f[i] * d BY <3>1, <3>2, <3>3, <3>4
    <3> HIDE DEF n
    <3>6. f[i] \in Nat /\ r[i] \in Seq(Char) BY <3>1, <3>2, <3>3
    <3> QED BY <3>5, <3>6
  <2>2. CASE i # n /\ At(s, old, i)
    <3> DEFINE j == i + Len(old)
    <3>1. j \in 0 .. n /\ f[i] = 1 + f[j] BY <1>1, <2>2, CountStep
    <3>2. j > i BY <1>4
    <3>3. r[i] = new \o r[j] BY <1>5, <2>2
    <3>4. f[j] \in Nat /\ r[j] \in Seq(Char) /\ Len(r[j]) = (n - j) + f[j] * d
      BY <1>6, <3>1, <3>2
    <3>5. r[i] \in Seq(Char) /\ Len(r[i]) = Len(new) + Len(r[j]) BY <3>3, <3>4, ConcatIs
    <3>6. n - j \in Nat /\ n - i = (n - j) + Len(old) BY <1>4, <3>1
    <3> HIDE DEF j
    <3>7. Len(new) + ((n - j) + f[j] * d) = (n - j) + Len(old) + (1 + f[j]) * d
      BY <1>4, <3>4, <3>6, OneMoreWritten
    <3>8. f[i] \in Nat BY <3>1, <3>4
    <3>9. Len(r[i]) = (n - i) + f[i] * d
      BY <3>1, <3>4, <3>5, <3>6, <3>7
    <3> QED BY <3>5, <3>8, <3>9
  <2>3. CASE i # n /\ ~ At(s, old, i)
    <3>1. i + 1 \in 0 .. n /\ i + 1 > i BY <1>4, <2>3
    <3>2. f[i] = f[i + 1] BY <1>1, <2>3, CountStep
    <3>3. r[i] = << s[i + 1] >> \o r[i + 1] BY <1>5, <2>3
    <3>4. /\ f[i + 1] \in Nat /\ r[i + 1] \in Seq(Char)
          /\ Len(r[i + 1]) = (n - (i + 1)) + f[i + 1] * d
      BY <1>6, <3>1
    <3>5. << s[i + 1] >> \in Seq(Char) /\ Len(<< s[i + 1] >>) = 1
      <4>1. s[i + 1] \in Char BY <1>4, <3>1
      <4> QED BY <4>1
    <3>6. r[i] \in Seq(Char) /\ Len(r[i]) = 1 + Len(r[i + 1]) BY <3>3, <3>4, <3>5, ConcatIs
    <3> DEFINE y == f[i + 1] * d
    <3>7. y \in Int BY <1>4, <3>4
    <3>8. Len(r[i + 1]) = (n - (i + 1)) + y BY <3>4
    <3> HIDE DEF y
    <3>9. Len(r[i]) = (n - i) + y BY <1>4, <3>6, <3>7, <3>8
    <3> QED BY <3>2, <3>4, <3>6, <3>9 DEF y
  <2> QED BY <2>1, <2>2, <2>3
<1>7. 0 .. n \subseteq S
  <2> HIDE DEF S, n
  <2> QED BY <1>4, <1>6, DownwardInduction
<1>8. 0 \in 0 .. n BY <1>4
<1>9. f[0] \in Nat /\ Len(r[0]) = (n - 0) + f[0] * d BY <1>7, <1>8
<1>10. n - 0 = n BY <1>4
<1> QED BY <1>1, <1>3, <1>9, <1>10 DEF Measured

\* What FlattenSeq makes of the first pieces.
Flattens(f, ss) ==
  f = [i \in 1 .. Len(ss) |-> IF i = 1 THEN ss[i] ELSE f[i - 1] \o ss[i]]

\* There is such a function.
LEMMA FlatteningExists ==
  ASSUME NEW E, NEW ss \in Seq(Seq(E)), Len(ss) # 0
  PROVE  \E f : Flattens(f, ss)
<1> DEFINE n == Len(ss) - 1
           base == [k \in 0 .. n |-> ss[1]]
           next == [k \in 0 .. n |-> k + 1]
           step == [k \in 0 .. n |-> [v \in Seq(E) |-> v \o ss[n + 1 - k]]]
           stops == {n}
<1>0. n \in Nat /\ Len(ss) = n + 1 /\ \A i \in 1 .. n + 1 : ss[i] \in Seq(E) OBVIOUS
<1> HIDE DEF n
<1>1. base \in [0 .. n -> Seq(E)] /\ next \in [0 .. n -> Nat]
  <2>1. ss[1] \in Seq(E) BY <1>0
  <2> QED BY <2>1
<1>2. step \in [0 .. n -> [Seq(E) -> Seq(E)]]
  <2>1. \A k \in 0 .. n : ss[n + 1 - k] \in Seq(E) BY <1>0
  <2>2. \A k \in 0 .. n : \A v \in Seq(E) : v \o ss[n + 1 - k] \in Seq(E) BY <2>1, ConcatIs
  <2> QED BY <2>2
<1>3. \A k \in 0 .. n : k \notin stops => next[k] > k /\ next[k] <= n BY <1>0
<1>4. /\ \A k \in 0 .. n : base[k] = ss[1] /\ next[k] = k + 1
      /\ \A k \in 0 .. n : \A v \in Seq(E) : step[k][v] = v \o ss[n + 1 - k]
      /\ \A k \in 0 .. n : k \in stops <=> k = n
  OBVIOUS
<1> HIDE DEF base, next, step, stops
<1>5. PICK g \in [0 .. n -> Seq(E)] : Recursion(g, n, stops, base, next, step)
  BY <1>0, <1>1, <1>2, <1>3, DownwardRecursion
<1> DEFINE f == [i \in 1 .. n + 1 |-> g[n + 1 - i]]
<1>6. ASSUME NEW i \in 1 .. n + 1
      PROVE  f[i] = IF i = 1 THEN ss[i] ELSE f[i - 1] \o ss[i]
  <2> DEFINE k == n + 1 - i
  <2>1. k \in 0 .. n /\ f[i] = g[k] /\ n + 1 - k = i BY <1>0
  <2>2. g[k] = IF k \in stops THEN base[k] ELSE step[k][g[next[k]]] BY <1>5, <2>1 DEF Recursion
  <2>3. CASE i = 1
    <3>1. k = n BY <1>0, <2>3
    <3> QED BY <1>4, <2>1, <2>2, <2>3, <3>1
  <2>4. CASE i # 1
    <3>1. k # n /\ k + 1 \in 0 .. n /\ i - 1 \in 1 .. n + 1 /\ n + 1 - (i - 1) = k + 1
      BY <1>0, <2>4
    <3>2. f[i - 1] = g[k + 1] BY <3>1
    <3>3. g[k + 1] \in Seq(E) BY <3>1
    <3>4. g[k] = step[k][g[k + 1]] BY <1>4, <2>1, <2>2, <3>1
    <3>5. step[k][g[k + 1]] = g[k + 1] \o ss[i] BY <1>4, <2>1, <3>3
    <3> QED BY <2>1, <2>4, <3>2, <3>4, <3>5
  <2> QED BY <2>3, <2>4
<1>7. f = [i \in 1 .. n + 1 |-> IF i = 1 THEN ss[i] ELSE f[i - 1] \o ss[i]] BY <1>6
<1> QED BY <1>0, <1>7 DEF Flattens

\* The flattening is read off the last of those.
LEMMA FlattenedIs ==
  ASSUME NEW E, NEW ss \in Seq(Seq(E)), Len(ss) # 0
  PROVE  \E f : Flattens(f, ss) /\ Flattened(ss) = f[Len(ss)]
<1> DEFINE f == CHOOSE g : Flattens(g, ss)
<1>1. Flattens(f, ss) BY FlatteningExists
<1>2. Flattened(ss) = f[Len(ss)] BY DEF Flattened, Library!FlattenSeq, Flattens
<1> QED BY <1>1, <1>2

\* One piece alone comes to itself.
LEMMA FlattenOne ==
  ASSUME NEW E, NEW p \in Seq(E)
  PROVE  Flattened(<< p >> \o << >>) = p
<1> DEFINE one == << p >>
<1>1. one \in Seq(Seq(E)) /\ Len(one) = 1 /\ one[1] = p OBVIOUS
<1>2. << p >> \o << >> = one BY <1>1, ConcatIs
<1> HIDE DEF one
<1>3. \E f : Flattens(f, one) /\ Flattened(one) = f[Len(one)]
  <2>1. one \in Seq(Seq(E)) /\ Len(one) # 0 BY <1>1
  <2> QED BY <2>1, FlattenedIs
<1>4. PICK f : Flattens(f, one) /\ Flattened(one) = f[1] BY <1>1, <1>3
<1>5. f[1] = p BY <1>1, <1>4 DEF Flattens
<1> QED BY <1>2, <1>4, <1>5

\* One piece before others is one before what they come to.
LEMMA FlattenPrepend ==
  ASSUME NEW E, NEW p \in Seq(E), NEW ss \in Seq(Seq(E)), Len(ss) # 0
  PROVE  /\ Flattened(<< p >> \o ss) = p \o Flattened(ss)
         /\ Flattened(ss) \in Seq(E)
<1> DEFINE one == << p >>
<1>1. one \in Seq(Seq(E)) /\ Len(one) = 1 /\ one[1] = p OBVIOUS
<1> DEFINE all == one \o ss
           n == Len(ss)
<1>2. n \in Nat /\ n >= 1 /\ \A i \in 1 .. n : ss[i] \in Seq(E) OBVIOUS
<1>3. all \in Seq(Seq(E)) /\ Len(all) = n + 1 BY <1>1
<1>4. all[1] = p /\ \A i \in 1 .. n : all[i + 1] = ss[i] BY <1>1, <1>2
<1> HIDE DEF all, one
<1>5. PICK f : Flattens(f, all) /\ Flattened(all) = f[n + 1]
  <2>1. Len(all) # 0 BY <1>2, <1>3
  <2>2. \E f : Flattens(f, all) /\ Flattened(all) = f[Len(all)] BY <1>3, <2>1, FlattenedIs
  <2> QED BY <1>3, <2>2
<1>6. PICK g : Flattens(g, ss) /\ Flattened(ss) = g[n] BY FlattenedIs
<1>7. \A i \in 1 .. n + 1 : f[i] = IF i = 1 THEN all[i] ELSE f[i - 1] \o all[i]
  BY <1>3, <1>5 DEF Flattens
<1>8. \A i \in 1 .. n : g[i] = IF i = 1 THEN ss[i] ELSE g[i - 1] \o ss[i]
  BY <1>6 DEF Flattens
<1> HIDE DEF n
<1> DEFINE Ahead(i) == g[i] \in Seq(E) /\ f[i + 1] = p \o g[i]
           S == {k \in 0 .. n - 1 : Ahead(n - k)}
<1>9. ASSUME NEW i \in 1 .. n, i # 1 => Ahead(i - 1) PROVE Ahead(i)
  <2>1. i + 1 \in 1 .. n + 1 /\ i + 1 # 1 /\ i + 1 - 1 = i BY <1>2
  <2>2. f[i + 1] = f[i] \o ss[i]
    <3>1. PICK j \in 1 .. n + 1 : j = i + 1 /\ j # 1 /\ j - 1 = i BY <2>1
    <3>2. f[j] = f[j - 1] \o all[j] BY <1>7, <3>1
    <3>3. all[i + 1] = ss[i] BY <1>4
    <3> QED BY <3>1, <3>2, <3>3
  <2>3. CASE i = 1
    <3>1. g[i] = ss[i] /\ ss[i] \in Seq(E) BY <1>2, <1>8, <2>3
    <3>2. f[i] = p
      <4>1. 1 \in 1 .. n + 1 BY <1>2
      <4>2. f[1] = all[1] BY <1>7, <4>1
      <4> QED BY <1>4, <2>3, <4>2
    <3> QED BY <2>2, <3>1, <3>2
  <2>4. CASE i # 1
    <3>1. g[i] = g[i - 1] \o ss[i] /\ ss[i] \in Seq(E) BY <1>2, <1>8, <2>4
    <3>2. g[i - 1] \in Seq(E) /\ f[i] = p \o g[i - 1]
      <4>1. i - 1 + 1 = i OBVIOUS
      <4> QED BY <1>9, <2>4, <4>1
    <3>3. (p \o g[i - 1]) \o ss[i] = p \o (g[i - 1] \o ss[i])
      <4> DEFINE q == g[i - 1]
                 r == ss[i]
      <4>1. p \in Seq(E) /\ q \in Seq(E) /\ r \in Seq(E) BY <3>1, <3>2
      <4> HIDE DEF q, r
      <4>2. (p \o q) \o r = p \o (q \o r) BY ONLY <4>1, ConcatThree
      <4> QED BY <4>2 DEF q, r
    <3>4. g[i] \in Seq(E) BY <3>1, <3>2, ConcatIs
    <3> QED BY <2>2, <3>1, <3>2, <3>3, <3>4
  <2> QED BY <2>3, <2>4
<1>10. ASSUME NEW k \in 0 .. n - 1, \A j \in 0 .. n - 1 : j > k => j \in S PROVE k \in S
  <2>1. n - k \in 1 .. n BY <1>2
  <2>2. n - k # 1 => Ahead(n - k - 1)
    <3>1. SUFFICES ASSUME n - k # 1 PROVE Ahead(n - k - 1) OBVIOUS
    <3>2. k + 1 \in 0 .. n - 1 /\ k + 1 > k /\ n - (k + 1) = n - k - 1 BY <1>2, <3>1
    <3>3. Ahead(n - (k + 1)) BY <1>10, <3>2
    <3> QED BY <3>2, <3>3
  <2> HIDE DEF Ahead
  <2>3. Ahead(n - k) BY <1>9, <2>1, <2>2
  <2> QED BY <2>3
<1> HIDE DEF S
<1>11. n - 1 \in Nat BY <1>2
<1>12. 0 .. n - 1 \subseteq S BY <1>10, <1>11, DownwardInduction
<1>13. 0 \in 0 .. n - 1 /\ n - 0 = n BY <1>2
<1>14. Ahead(n) BY <1>12, <1>13 DEF S
<1> QED BY <1>5, <1>6, <1>14 DEF all, one

\* The pieces from each position on, and the characters that are left.
PiecesFrom(f, s, ch) ==
  f = [start \in 0 .. Len(s) |->
         LET end == EndOf(s, ch, start)
         IN  << Piece(s, start, end - start) >>
             \o IF end = Len(s) THEN << >> ELSE f[end + 1]]

KeepsFrom(f, s, ch) ==
  f = [i \in 0 .. Len(s) |->
         IF i = Len(s) THEN << >>
         ELSE IF s[i + 1] = ch THEN f[i + 1]
         ELSE << s[i + 1] >> \o f[i + 1]]

\* A piece goes on to the next delimiter.
LEMMA EndIs ==
  ASSUME NEW s \in Seq(Char), NEW ch, NEW i \in 0 .. Len(s)
  PROVE  /\ EndOf(s, ch, i) \in i .. Len(s)
         /\ EndOf(s, ch, i) = Len(s) \/ s[EndOf(s, ch, i) + 1] = ch
         /\ \A j \in i .. Len(s) : j < EndOf(s, ch, i) => s[j + 1] # ch
<1> DEFINE n == Len(s)
           S == {j \in i .. n : j = n \/ s[j + 1] = ch}
           e == Library!Min(S)
<1>1. n \in Nat /\ i \in Int /\ n \in Int /\ i <= n OBVIOUS
<1>2. S \in SUBSET (i .. n) /\ n \in S BY <1>1
<1>3. EndOf(s, ch, i) = e BY DEF EndOf
<1>4. \A j \in i .. n : j \in S <=> j = n \/ s[j + 1] = ch OBVIOUS
<1> HIDE DEF S
<1>5. e \in S /\ \A j \in S : e <= j
  <2> HIDE DEF n
  <2>1. S # {} BY <1>2
  <2> QED BY <1>1, <1>2, <2>1, LeastOf
<1> HIDE DEF e
<1>6. e \in i .. n BY <1>2, <1>5
<1>7. ASSUME NEW j \in i .. n, j < e PROVE s[j + 1] # ch
  <2>1. j \notin S BY <1>1, <1>5, <1>6, <1>7
  <2> QED BY <1>4, <2>1
<1> QED BY <1>3, <1>4, <1>5, <1>6, <1>7

\* At a delimiter the piece is empty; elsewhere it ends where the one from the
\* next position ends.
LEMMA EndStep ==
  ASSUME NEW s \in Seq(Char), NEW ch, NEW i \in 0 .. Len(s)
  PROVE  /\ i = Len(s) => EndOf(s, ch, i) = i
         /\ i # Len(s) /\ s[i + 1] = ch => EndOf(s, ch, i) = i
         /\ i # Len(s) /\ s[i + 1] # ch => EndOf(s, ch, i) = EndOf(s, ch, i + 1)
<1> DEFINE n == Len(s)
           e == EndOf(s, ch, i)
<1>1. n \in Nat /\ i \in Nat /\ i <= n OBVIOUS
<1>2. /\ e \in i .. n
      /\ e = n \/ s[e + 1] = ch
      /\ \A j \in i .. n : j < e => s[j + 1] # ch
  BY EndIs
<1>3. ASSUME i # n
      PROVE  LET d == EndOf(s, ch, i + 1)
             IN  /\ d \in i + 1 .. n
                 /\ d = n \/ s[d + 1] = ch
                 /\ \A j \in i + 1 .. n : j < d => s[j + 1] # ch
  <2>1. i + 1 \in 0 .. n BY <1>1, <1>3
  <2> QED BY <2>1, EndIs
<1> HIDE DEF e, n
<1>4. ASSUME i # n, s[i + 1] = ch PROVE e = i
  <2>1. i \in i .. n BY <1>1
  <2>2. ~ (i < e) BY <1>2, <1>4, <2>1
  <2> QED BY <1>1, <1>2, <2>2
<1>5. ASSUME i # n, s[i + 1] # ch PROVE e = EndOf(s, ch, i + 1)
  <2> DEFINE d == EndOf(s, ch, i + 1)
  <2>1. /\ d \in i + 1 .. n
        /\ d = n \/ s[d + 1] = ch
        /\ \A j \in i + 1 .. n : j < d => s[j + 1] # ch
    BY <1>3, <1>5
  <2> HIDE DEF d
  <2>2. e # i
    <3>1. e = i => i = n BY <1>2, <1>5
    <3> QED BY <1>5, <3>1
  <2>3. e \in i + 1 .. n BY <1>1, <1>2, <2>2
  <2>4. d \in i .. n BY <1>1, <2>1
  <2>5. ~ (d < e)
    <3>1. d < e => d # n BY <1>1, <2>3, <2>1
    <3> QED BY <1>2, <2>1, <2>4, <3>1
  <2>6. ~ (e < d)
    <3>1. e < d => e # n BY <1>1, <2>3, <2>1
    <3> QED BY <1>2, <2>1, <2>3, <3>1
  <2>7. e = d BY <1>1, <2>1, <2>3, <2>5, <2>6
  <2> QED BY <2>7 DEF d
<1>6. ASSUME i = n PROVE e = i BY <1>1, <1>2, <1>6
<1> QED BY <1>4, <1>5, <1>6 DEF e, n

\* Both recursions have a solution.
LEMMA PiecesExist ==
  ASSUME NEW s \in Seq(Char), NEW ch
  PROVE  \E f : PiecesFrom(f, s, ch)
<1> DEFINE n == Len(s)
           e(i) == EndOf(s, ch, i)
           head == [i \in 0 .. n |-> << Piece(s, i, e(i) - i) >>]
           next == [i \in 0 .. n |-> e(i) + 1]
<1>1. n \in Nat OBVIOUS
<1>2. \A i \in 0 .. n : e(i) \in i .. n BY EndIs
<1>2a. \A i \in 0 .. n : head[i] = << Piece(s, i, e(i) - i) >> /\ next[i] = e(i) + 1 OBVIOUS
<1>3. head \in [0 .. n -> Seq(Seq(Char))]
  <2>1. ASSUME NEW i \in 0 .. n PROVE Piece(s, i, e(i) - i) \in Seq(Char)
    <3>1. e(i) - i \in Nat BY <1>1, <1>2
    <3> HIDE DEF e
    <3> QED BY <3>1, PieceIs
  <2>2. \A i \in 0 .. n : << Piece(s, i, e(i) - i) >> \in Seq(Seq(Char)) BY <2>1
  <2> QED BY <2>2
<1> HIDE DEF e, n
<1>4. next \in [0 .. n -> Nat] /\ \A i \in 0 .. n : next[i] > i BY <1>1, <1>2
<1> HIDE DEF head, next
<1>5. PICK f \in [0 .. n -> Seq(Seq(Char))] : Prepends(f, n, head, next)
  BY <1>1, <1>3, <1>4, PrependRecursion
<1>6. ASSUME NEW i \in 0 .. n
      PROVE  f[i] = << Piece(s, i, e(i) - i) >> \o IF e(i) = n THEN << >> ELSE f[e(i) + 1]
  <2>1. f[i] = head[i] \o IF next[i] <= n THEN f[next[i]] ELSE << >> BY <1>5 DEF Prepends
  <2>2. next[i] <= n <=> ~ (e(i) = n)
    <3> DEFINE x == e(i)
    <3>1. x \in i .. n /\ next[i] = x + 1 BY <1>2, <1>2a
    <3> HIDE DEF x
    <3>2. x + 1 <= n <=> ~ (x = n) BY <1>1, <3>1
    <3> QED BY <3>1, <3>2 DEF x
  <2> QED BY <1>2a, <2>1, <2>2
<1>7. f = [i \in 0 .. n |-> << Piece(s, i, e(i) - i) >>
                            \o IF e(i) = n THEN << >> ELSE f[e(i) + 1]]
  BY <1>6
<1> QED BY <1>7 DEF PiecesFrom, e, n

\* So has the one of what is left.
LEMMA KeepsExist ==
  ASSUME NEW s \in Seq(Char), NEW ch
  PROVE  \E f : KeepsFrom(f, s, ch)
<1> DEFINE n == Len(s)
           head == [i \in 0 .. n |-> IF i = n THEN << >>
                                     ELSE IF s[i + 1] = ch THEN << >> ELSE << s[i + 1] >>]
           next == [i \in 0 .. n |-> i + 1]
<1>1. n \in Nat OBVIOUS
<1>2. head \in [0 .. n -> Seq(Char)]
  <2>1. ASSUME NEW i \in 0 .. n, i # n PROVE << s[i + 1] >> \in Seq(Char)
    <3>1. s[i + 1] \in Char BY <1>1, <2>1
    <3> QED BY <3>1
  <2>2. << >> \in Seq(Char) OBVIOUS
  <2> QED BY <2>1, <2>2
<1>3. next \in [0 .. n -> Nat] /\ \A i \in 0 .. n : next[i] > i /\ next[i] = i + 1 BY <1>1
<1>4. \A i \in 0 .. n : /\ i = n \/ s[i + 1] = ch => head[i] = << >>
                        /\ i # n /\ s[i + 1] # ch => head[i] = << s[i + 1] >>
  OBVIOUS
<1> HIDE DEF head, next, n
<1>5. PICK f \in [0 .. n -> Seq(Char)] : Prepends(f, n, head, next)
  BY <1>1, <1>2, <1>3, PrependRecursion
<1>6. ASSUME NEW i \in 0 .. n
      PROVE  f[i] = IF i = n THEN << >>
                    ELSE IF s[i + 1] = ch THEN f[i + 1]
                    ELSE << s[i + 1] >> \o f[i + 1]
  <2>1. f[i] = head[i] \o IF i + 1 <= n THEN f[i + 1] ELSE << >> BY <1>3, <1>5 DEF Prepends
  <2>2. CASE i = n
    <3>1. ~ (i + 1 <= n) BY <1>1, <2>2
    <3>2. f[i] = << >> \o << >> BY <1>4, <2>1, <2>2, <3>1
    <3> QED BY <2>2, <3>2
  <2>3. CASE i # n
    <3>1. i + 1 <= n /\ i + 1 \in 0 .. n BY <1>1, <2>3
    <3>2. f[i] = head[i] \o f[i + 1] /\ f[i + 1] \in Seq(Char) BY <2>1, <3>1
    <3>3. << >> \o f[i + 1] = f[i + 1] BY <3>2, ConcatIs
    <3> QED BY <1>4, <2>3, <3>2, <3>3
  <2> QED BY <2>2, <2>3
<1>7. f = [i \in 0 .. n |-> IF i = n THEN << >>
                            ELSE IF s[i + 1] = ch THEN f[i + 1]
                            ELSE << s[i + 1] >> \o f[i + 1]]
  BY <1>6
<1> QED BY <1>7 DEF KeepsFrom, n

\* The first character of a piece and the rest of it.
LEMMA PieceBegins ==
  ASSUME NEW s \in Seq(Char), NEW i \in 0 .. Len(s), NEW e \in i + 1 .. Len(s)
  PROVE  /\ << s[i + 1] >> \in Seq(Char)
         /\ Piece(s, i + 1, e - (i + 1)) \in Seq(Char)
         /\ Piece(s, i, e - i) = << s[i + 1] >> \o Piece(s, i + 1, e - (i + 1))
<1> DEFINE n == Len(s)
           m == e - i
           p == Piece(s, i, e - i)
           q == Piece(s, i + 1, e - (i + 1))
           c == << s[i + 1] >>
<1>1. /\ n \in Nat /\ i \in Nat /\ e \in Nat /\ m \in Nat /\ m >= 1 /\ e <= n
      /\ i + 1 \in 0 .. n
      /\ e - i \in Nat /\ e - (i + 1) \in Nat /\ i + (e - i) = e /\ i + 1 + (e - (i + 1)) = e
  OBVIOUS
<1>2. p \in Seq(Char) /\ p = SubSeq(s, i + 1, e)
  <2> DEFINE k == e - i
  <2>1. i \in 0 .. Len(s) /\ k \in Nat /\ i + k <= Len(s) /\ i + k = e BY <1>1
  <2> HIDE DEF k
  <2>2. Piece(s, i, k) \in Seq(Char) /\ Piece(s, i, k) = SubSeq(s, i + 1, i + k)
    BY <2>1, PieceIs
  <2> QED BY <2>1, <2>2 DEF k
<1>3. q \in Seq(Char) /\ q = SubSeq(s, i + 2, e)
  <2> DEFINE j == i + 1
             k == e - (i + 1)
  <2>1. j \in 0 .. Len(s) /\ k \in Nat /\ j + k <= Len(s) /\ j + k = e /\ j + 1 = i + 2
    BY <1>1
  <2> HIDE DEF j, k
  <2>2. Piece(s, j, k) \in Seq(Char) /\ Piece(s, j, k) = SubSeq(s, j + 1, j + k)
    BY <2>1, PieceIs
  <2> QED BY <2>1, <2>2 DEF j, k
<1>4. c \in Seq(Char) /\ Len(c) = 1 /\ c[1] = s[i + 1]
  <2>1. s[i + 1] \in Char BY <1>1
  <2> QED BY <2>1
<1>5. Len(p) = m /\ \A k \in 1 .. m : p[k] = s[i + k]
  <2>1. Len(p) = m BY <1>1, <1>2
  <2>2. ASSUME NEW k \in 1 .. m PROVE p[k] = s[i + k]
    <3>1. i + 1 + k - 1 = i + k BY <1>1
    <3> QED BY <1>1, <1>2, <3>1
  <2> QED BY <2>1, <2>2
<1>6. Len(q) = m - 1 /\ \A k \in 1 .. m - 1 : q[k] = s[i + 1 + k]
  <2>1. Len(q) = m - 1 BY <1>1, <1>3
  <2>2. ASSUME NEW k \in 1 .. m - 1 PROVE q[k] = s[i + 1 + k]
    <3>1. i + 2 + k - 1 = i + 1 + k BY <1>1
    <3> QED BY <1>1, <1>3, <3>1
  <2> QED BY <2>1, <2>2
<1>7. m \in Nat BY <1>1
<1> HIDE DEF p, q, c, m
<1> DEFINE x == s[i + 1]
<1>8. /\ c \o q \in Seq(Char) /\ Len(c \o q) = m
      /\ (c \o q)[1] = x
      /\ \A k \in 1 .. m - 1 : (c \o q)[k + 1] = q[k]
  <2>0. x \in Char
    <3>1. i + 1 \in 1 .. Len(s) BY <1>1
    <3> QED BY <3>1
  <2>1. x \in Char /\ q \in Seq(Char) /\ Len(q) = m - 1
    <3> HIDE DEF x
    <3> QED BY <1>3, <1>6, <2>0
  <2>2. c = << x >> BY DEF c
  <2> HIDE DEF x
  <2>3. /\ << x >> \o q \in Seq(Char)
        /\ Len(<< x >> \o q) = Len(q) + 1
        /\ (<< x >> \o q)[1] = x
        /\ \A k \in 1 .. Len(q) : (<< x >> \o q)[k + 1] = q[k]
    BY ONLY <2>1, Prepended
  <2>4. Len(q) + 1 = m BY ONLY <1>7, <2>1
  <2> QED BY <2>1, <2>2, <2>3, <2>4
<1>9. ASSUME NEW k \in 1 .. m PROVE (c \o q)[k] = p[k]
  <2>1. CASE k = 1 BY <1>5, <1>8, <2>1
  <2>2. CASE k # 1
    <3> DEFINE j == k - 1
    <3>1. j \in 1 .. m - 1 /\ i + 1 + j = i + k /\ j + 1 = k BY <1>1, <1>7, <2>2
    <3> HIDE DEF j
    <3>2. (c \o q)[j + 1] = q[j] BY <1>8, <3>1
    <3> QED BY <1>5, <1>6, <3>1, <3>2
  <2> QED BY <2>1, <2>2
<1>10. p \in [1 .. m -> Char] /\ (c \o q) \in [1 .. m -> Char]
  <2>1. \A z \in Seq(Char) : z \in [1 .. Len(z) -> Char] OBVIOUS
  <2> QED BY <1>2, <1>5, <1>8, <2>1
<1> DEFINE r == c \o q
<1>11. p = [k \in 1 .. m |-> p[k]] /\ r = [k \in 1 .. m |-> r[k]] BY <1>10
<1>12. [k \in 1 .. m |-> r[k]] = [k \in 1 .. m |-> p[k]] BY <1>9
<1>13. p = r BY <1>11, <1>12
<1> QED BY <1>3, <1>4, <1>13 DEF p, q, c

\* What is cut from a position on is what is left of the string from there, and
\* a piece more than there are delimiters.
Cuts(s, ps, ks, i) ==
  /\ ps \in Seq(Seq(Char)) /\ ks \in Seq(Char)
  /\ Len(ps) = 1 + (Len(s) - i) - Len(ks)
  /\ Len(ps) # 0
  /\ Flattened(ps) = ks

\* From every position on the pieces are cut so.
LEMMA PiecesAreCut ==
  ASSUME NEW s \in Seq(Char), NEW ch, NEW f, PiecesFrom(f, s, ch), NEW g, KeepsFrom(g, s, ch)
  PROVE  \A i \in 0 .. Len(s) : Cuts(s, f[i], g[i], i)
<1> DEFINE n == Len(s)
           e(i) == EndOf(s, ch, i)
           rest(i) == IF e(i) = n THEN << >> ELSE f[e(i) + 1]
           S == {i \in 0 .. n : Cuts(s, f[i], g[i], i)}
<1>1. n \in Nat OBVIOUS
<1>2. \A i \in 0 .. n : f[i] = << Piece(s, i, e(i) - i) >> \o rest(i) BY DEF PiecesFrom
<1>3. \A i \in 0 .. n : g[i] = IF i = n THEN << >>
                               ELSE IF s[i + 1] = ch THEN g[i + 1]
                               ELSE << s[i + 1] >> \o g[i + 1]
  BY DEF KeepsFrom
<1>4. \A i \in 0 .. n : e(i) \in i .. n BY EndIs
<1>5. \A i \in 0 .. n : Piece(s, i, 0) = << >>
  <2>1. SUFFICES ASSUME NEW i \in 0 .. n PROVE Piece(s, i, 0) = << >> OBVIOUS
  <2>2. 0 \in Nat /\ i + 0 <= Len(s) /\ i + 0 = i OBVIOUS
  <2>3. Piece(s, i, 0) = SubSeq(s, i + 1, i + 0) BY <2>2, PieceIs
  <2>4. SubSeq(s, i + 1, i) = << >> OBVIOUS
  <2> QED BY <2>2, <2>3, <2>4
<1>6. << >> \in Seq(Char) /\ Len(<< >>) = 0 OBVIOUS
<1>7. ASSUME NEW i \in 0 .. n, \A j \in 0 .. n : j > i => j \in S PROVE i \in S
  <2>0. i \in Nat /\ i <= n BY <1>1
  <2>1. CASE i = n
    <3>1. e(i) = n BY <2>1, EndStep
    <3>2. e(i) - i = 0 BY <1>1, <2>1, <3>1
    <3>3. f[i] = << << >> >> \o << >> BY <1>2, <1>5, <3>1, <3>2
    <3>4. Flattened(<< << >> >> \o << >>) = << >> BY <1>6, FlattenOne
    <3>5. << << >> >> \o << >> \in Seq(Seq(Char)) /\ Len(<< << >> >> \o << >>) = 1
      <4>1. << << >> >> \in Seq(Seq(Char)) /\ Len(<< << >> >>) = 1 BY <1>6
      <4> QED BY <4>1
    <3>6. g[i] = << >> BY <1>3, <2>1
    <3>7. 1 = 1 + (Len(s) - i) - 0 BY <1>1, <2>1
    <3>8. Cuts(s, f[i], g[i], i) BY <1>6, <3>3, <3>4, <3>5, <3>6, <3>7 DEF Cuts
    <3> QED BY <3>8
  <2>2. CASE i # n
    <3>1. i + 1 \in 0 .. n /\ i + 1 > i BY <1>1, <2>0, <2>2
    <3>2. Cuts(s, f[i + 1], g[i + 1], i + 1) BY <1>7, <3>1
    <3> DEFINE ps == f[i + 1]
               ks == g[i + 1]
    <3>3. /\ ps \in Seq(Seq(Char)) /\ ks \in Seq(Char)
          /\ Len(ps) = 1 + (n - (i + 1)) - Len(ks)
          /\ Len(ps) # 0
          /\ Flattened(ps) = ks
      BY <3>2 DEF Cuts
    <3>4. CASE s[i + 1] = ch
      <4>1. e(i) = i BY <2>2, <3>4, EndStep
      <4>2. e(i) - i = 0 /\ e(i) # n BY <2>0, <2>2, <4>1
      <4>3. f[i] = << << >> >> \o ps BY <1>2, <1>5, <4>1, <4>2
      <4>4. g[i] = ks BY <1>3, <2>2, <3>4
      <4> HIDE DEF ps, ks
      <4>5. Flattened(<< << >> >> \o ps) = << >> \o Flattened(ps)
        BY <1>6, <3>3, FlattenPrepend
      <4>6. << >> \o ks = ks BY <3>3, ConcatIs
      <4>7. << << >> >> \o ps \in Seq(Seq(Char)) /\ Len(<< << >> >> \o ps) = 1 + Len(ps)
        <5> DEFINE one == << << >> >>
        <5>1. one \in Seq(Seq(Char)) /\ Len(one) = 1 BY <1>6
        <5> HIDE DEF one
        <5>2. one \o ps \in Seq(Seq(Char)) /\ Len(one \o ps) = Len(one) + Len(ps)
          BY <3>3, <5>1, ConcatIs
        <5> QED BY <5>1, <5>2 DEF one
      <4>8. Len(ps) \in Nat /\ Len(ks) \in Nat BY <3>3
      <4>9. 1 + Len(ps) = 1 + (n - i) - Len(ks) /\ 1 + Len(ps) # 0
        <5> HIDE DEF n
        <5> QED BY <1>1, <2>0, <3>3, <4>8
      <4>10. Cuts(s, f[i], g[i], i)
        BY <3>3, <4>3, <4>4, <4>5, <4>6, <4>7, <4>9 DEF Cuts
      <4> QED BY <4>10
    <3>5. CASE s[i + 1] # ch
      <4> DEFINE d == e(i)
                 p == Piece(s, i + 1, d - (i + 1))
                 c == << s[i + 1] >>
                 more == rest(i)
      <4>1. d = e(i + 1) BY <2>2, <3>5, EndStep
      <4>2. d \in i + 1 .. n BY <1>4, <3>1, <4>1
      <4>3. f[i] = << Piece(s, i, d - i) >> \o more BY <1>2
      <4>4. ps = << p >> \o more BY <1>2, <3>1, <4>1
      <4>5. c \in Seq(Char) /\ p \in Seq(Char) /\ Piece(s, i, d - i) = c \o p
        <5> HIDE DEF d
        <5> QED BY <4>2, PieceBegins
      <4>6. more \in Seq(Seq(Char)) /\ (more = << >> \/ Len(more) # 0)
        <5>1. CASE d = n
          <6>1. more = << >> BY <5>1
          <6>2. << >> \in Seq(Seq(Char)) OBVIOUS
          <6> HIDE DEF more
          <6> QED BY <6>1, <6>2
        <5>2. CASE d # n
          <6>1. d + 1 \in 0 .. n /\ d + 1 > i
            <7> HIDE DEF d
            <7> QED BY <1>1, <2>0, <4>2, <5>2
          <6>2. Cuts(s, f[d + 1], g[d + 1], d + 1) BY <1>7, <6>1
          <6>3. more = f[d + 1] BY <5>2
          <6> QED BY <6>2, <6>3 DEF Cuts
        <5> QED BY <5>1, <5>2
      <4>7. g[i] = c \o ks BY <1>3, <2>2, <3>5
      <4>8. c \o p \in Seq(Char) BY <4>5, ConcatIs
      <4> HIDE DEF ps, ks, p, c, more, d, e
      <4>9. Flattened(<< c \o p >> \o more) = c \o Flattened(<< p >> \o more)
        <5>1. CASE more = << >>
          <6>1. Flattened(<< c \o p >> \o << >>) = c \o p BY <4>8, FlattenOne
          <6>2. Flattened(<< p >> \o << >>) = p BY <4>5, FlattenOne
          <6> QED BY <5>1, <6>1, <6>2
        <5>2. CASE Len(more) # 0
          <6>1. /\ Flattened(<< c \o p >> \o more) = (c \o p) \o Flattened(more)
                /\ Flattened(<< p >> \o more) = p \o Flattened(more)
                /\ Flattened(more) \in Seq(Char)
            BY <4>5, <4>6, <4>8, <5>2, FlattenPrepend
          <6> DEFINE z == Flattened(more)
          <6> HIDE DEF z
          <6>2. z \in Seq(Char) BY <6>1 DEF z
          <6>3. (c \o p) \o z = c \o (p \o z)
            <7>1. c \in Seq(Char) /\ p \in Seq(Char) /\ z \in Seq(Char) BY <4>5, <6>2
            <7> QED BY ONLY <7>1, ConcatThree
          <6> QED BY <6>1, <6>3 DEF z
        <5> QED BY <4>6, <5>1, <5>2
      <4>10. Flattened(f[i]) = c \o ks BY <3>3, <4>3, <4>4, <4>5, <4>9
      <4>11. /\ << c \o p >> \o more \in Seq(Seq(Char))
             /\ Len(<< c \o p >> \o more) = 1 + Len(more)
             /\ Len(ps) = 1 + Len(more)
        <5> DEFINE w == c \o p
        <5>1. w \in Seq(Char) BY <4>8
        <5> HIDE DEF w
        <5>2. /\ << w >> \in Seq(Seq(Char)) /\ Len(<< w >>) = 1
              /\ << p >> \in Seq(Seq(Char)) /\ Len(<< p >>) = 1
          BY <4>5, <5>1
        <5>3. << w >> \o more \in Seq(Seq(Char)) /\ Len(<< w >> \o more) = 1 + Len(more)
          BY <4>6, <5>2, ConcatIs
        <5>4. Len(<< p >> \o more) = 1 + Len(more) BY <4>6, <5>2, ConcatIs
        <5> QED BY <4>4, <5>3, <5>4 DEF w
      <4>12. c \o ks \in Seq(Char) /\ Len(c \o ks) = 1 + Len(ks)
        <5>1. Len(c) = 1 BY DEF c
        <5>2. c \o ks \in Seq(Char) /\ Len(c \o ks) = Len(c) + Len(ks) BY <3>3, <4>5, ConcatIs
        <5> QED BY <5>1, <5>2
      <4>13. Len(ps) \in Nat /\ Len(ks) \in Nat BY <3>3
      <4>14. Len(ps) = 1 + (n - i) - (1 + Len(ks))
        <5> HIDE DEF n
        <5> QED BY <1>1, <2>0, <3>3, <4>13
      <4>15. Cuts(s, f[i], g[i], i)
        BY <3>3, <4>3, <4>5, <4>7, <4>10, <4>11, <4>12, <4>14 DEF Cuts
      <4> QED BY <4>15
    <3> QED BY <3>4, <3>5
  <2> QED BY <2>1, <2>2
<1>8. 0 .. n \subseteq S
  <2> HIDE DEF S, n
  <2> QED BY <1>1, <1>7, DownwardInduction
<1> QED BY <1>8

\* What maip_io_cstr_split cuts is the string without its delimiters.
LEMMA SplitCuts ==
  ASSUME NEW s \in Seq(Char), NEW ch
  PROVE  /\ Flattened(Split(s, ch)) = Without(s, ch)
         /\ Len(Split(s, ch)) = 1 + Len(s) - Len(Without(s, ch))
<1> DEFINE f == CHOOSE h : PiecesFrom(h, s, ch)
           g == CHOOSE h : KeepsFrom(h, s, ch)
<1>1. PiecesFrom(f, s, ch) /\ KeepsFrom(g, s, ch) BY PiecesExist, KeepsExist
<1>2. Split(s, ch) = f[0] BY DEF Split, PiecesFrom
<1>3. Without(s, ch) = g[0] BY DEF Without, KeepsFrom
<1> HIDE DEF f, g
<1>4. 0 \in 0 .. Len(s) /\ Len(s) \in Nat OBVIOUS
<1>5. Cuts(s, f[0], g[0], 0) BY <1>1, <1>4, PiecesAreCut
<1>6. Len(g[0]) \in Nat BY <1>5 DEF Cuts
<1> QED BY <1>2, <1>3, <1>4, <1>5, <1>6 DEF Cuts

-----------------------------------------------------------------------------
(* Functions that answer the same question                                 *)

\* Two above the range comes back two moduli lower.
LEMMA WrapTwice ==
  ASSUME NEW n \in Nat \ {0}, NEW x \in 2 * n .. 3 * n - 1
  PROVE  x % n = x - 2 * n
  OBVIOUS

\* A string backwards is one.
LEMMA ReversedIs ==
  ASSUME NEW s \in Seq(Char)
  PROVE  /\ Reversed(s) \in Seq(Char) /\ Len(Reversed(s)) = Len(s)
         /\ \A i \in 1 .. Len(s) : Reversed(s)[i] = s[Len(s) - i + 1]
<1> DEFINE n == Len(s)
           r == [i \in 1 .. n |-> s[n - i + 1]]
<1>1. n \in Nat OBVIOUS
<1>2. \A i \in 1 .. n : s[n - i + 1] \in Char
  <2>1. \A i \in 1 .. n : n - i + 1 \in 1 .. n BY <1>1
  <2> QED BY <2>1
<1>3. r \in [1 .. n -> Char] BY <1>2
<1>4. Reversed(s) = r BY DEF Reversed
<1> HIDE DEF n
<1>5. r \in Seq(Char) /\ Len(r) = n
  <2> HIDE DEF r
  <2> QED BY <1>1, <1>3
<1> QED BY <1>4, <1>5 DEF n

\* The end of a string is the start of its reverse.
LEMMA EndsAsReversedStarts ==
  ASSUME NEW s \in Seq(Char), NEW t \in Seq(Char) \ {<< >>}
  PROVE  EndsWith(s, t) = StartsWith(Reversed(s), Reversed(t))
<1> DEFINE n == Len(s)
           m == Len(t)
           rs == Reversed(s)
           rt == Reversed(t)
<1>1. n \in Nat /\ m \in Nat /\ m >= 1 OBVIOUS
<1>2. /\ rs \in Seq(Char) /\ Len(rs) = n /\ \A i \in 1 .. n : rs[i] = s[n - i + 1]
      /\ rt \in Seq(Char) /\ Len(rt) = m /\ \A i \in 1 .. m : rt[i] = t[m - i + 1]
  BY ReversedIs
<1>3. EndsWith(s, t) <=> m <= n /\ \A k \in 1 .. m : s[n - m + k] = t[k]
  <2>1. ASSUME m <= n PROVE At(s, t, n - m) <=> \A k \in 1 .. m : s[n - m + k] = t[k]
    <3> DEFINE i == n - m
    <3>1. i \in 0 .. Len(s) /\ i + m <= n BY <1>1, <2>1
    <3> HIDE DEF i
    <3>2. At(s, t, i) <=> i + Len(t) <= Len(s) /\ \A k \in 1 .. Len(t) : s[i + k] = t[k]
      BY <3>1, AtMeans
    <3> QED BY <3>1, <3>2 DEF i
  <2> QED BY <2>1 DEF EndsWith
<1> HIDE DEF rs, rt
<1>4. StartsWith(rs, rt) <=> m <= n /\ \A k \in 1 .. m : rs[k] = rt[k]
  <2>1. 0 \in 0 .. Len(rs) BY <1>1, <1>2
  <2>2. At(rs, rt, 0) <=> 0 + Len(rt) <= Len(rs) /\ \A k \in 1 .. Len(rt) : rs[0 + k] = rt[k]
    BY <1>2, <2>1, AtMeans
  <2>3. 0 + Len(rt) <= Len(rs) <=> m <= n BY <1>1, <1>2
  <2>4. \A k \in 1 .. m : 0 + k = k BY <1>1
  <2> QED BY <1>2, <2>2, <2>3, <2>4 DEF StartsWith
<1>5. ASSUME m <= n
      PROVE  (\A k \in 1 .. m : s[n - m + k] = t[k]) <=> (\A k \in 1 .. m : rs[k] = rt[k])
  <2> HIDE DEF n, m
  <2>1. \A k \in 1 .. m : k \in 1 .. n BY <1>1, <1>5
  <2>2. \A k \in 1 .. m : rs[k] = s[n - k + 1] /\ rt[k] = t[m - k + 1] BY <1>2, <2>1
  <2>3. \A k \in 1 .. m : /\ m - k + 1 \in 1 .. m
                          /\ n - m + (m - k + 1) = n - k + 1
                          /\ m - (m - k + 1) + 1 = k
                          /\ n - (m - k + 1) + 1 = n - m + k
    BY <1>1
  <2>4. ASSUME \A k \in 1 .. m : s[n - m + k] = t[k], NEW k \in 1 .. m PROVE rs[k] = rt[k]
    <3>1. m - k + 1 \in 1 .. m /\ n - m + (m - k + 1) = n - k + 1 BY <2>3
    <3>2. s[n - m + (m - k + 1)] = t[m - k + 1] BY <2>4, <3>1
    <3> QED BY <2>2, <3>1, <3>2
  <2>5. ASSUME \A k \in 1 .. m : rs[k] = rt[k], NEW k \in 1 .. m PROVE s[n - m + k] = t[k]
    <3> DEFINE j == m - k + 1
    <3>1. j \in 1 .. m /\ m - j + 1 = k /\ n - j + 1 = n - m + k BY <2>3
    <3> HIDE DEF j
    <3>2. rs[j] = s[n - j + 1] /\ rt[j] = t[m - j + 1] /\ rs[j] = rt[j] BY <2>2, <2>5, <3>1
    <3> QED BY <3>1, <3>2
  <2> QED BY <2>4, <2>5
<1>6. EndsWith(s, t) <=> StartsWith(rs, rt) BY <1>3, <1>4, <1>5
<1>7. EndsWith(s, t) \in BOOLEAN /\ StartsWith(rs, rt) \in BOOLEAN BY DEF EndsWith, StartsWith, At
<1> QED BY <1>6, <1>7 DEF rs, rt

\* A string starts with its own first piece.
LEMMA StartsAsSubstring ==
  ASSUME NEW s \in Seq(Char), NEW t \in Seq(Char) \ {<< >>}
  PROVE  StartsWith(s, t) = (s # << >> /\ Substring(s, 0, Len(t)) = t)
<1> DEFINE n == Len(s)
           m == Len(t)
<1>1. n \in Nat /\ m \in Nat /\ m >= 1 OBVIOUS
<1>2. s = << >> <=> n = 0 OBVIOUS
<1>3. n # 0 => Substring(s, 0, m) = Piece(s, 0, m) BY <1>1 DEF Substring
<1>4. At(s, t, 0) => m <= n
  <2>1. 0 \in 0 .. Len(s) BY <1>1
  <2>2. At(s, t, 0) => 0 + Len(t) <= Len(s) BY <2>1, AtMeans
  <2> QED BY <1>1, <2>2
<1>5. At(s, t, 0) <=> Piece(s, 0, m) = t BY DEF At
<1>6. m <= n => n # 0 BY <1>1
<1> HIDE DEF n
<1>7. StartsWith(s, t) <=> m <= n /\ At(s, t, 0) BY DEF StartsWith, n
<1> HIDE DEF m
<1>8. StartsWith(s, t) <=> s # << >> /\ Substring(s, 0, m) = t
  BY <1>2, <1>3, <1>4, <1>5, <1>6, <1>7
<1>9. StartsWith(s, t) \in BOOLEAN BY DEF StartsWith, At
<1> QED BY <1>8, <1>9 DEF m

\* A repeated string is counted as often as it was repeated.
LEMMA RepeatedIsCounted ==
  ASSUME NEW t \in Seq(Char) \ {<< >>}
  PROVE  CountOf(Repeat(t, 3), t) >= 3
<1> DEFINE m == Len(t)
           r == [i \in 1 .. 3 * m |-> t[((i - 1) % m) + 1]]
<1>1. m \in Nat \ {0} /\ \A k \in 1 .. m : t[k] \in Char OBVIOUS
<1>2. Repeat(t, 3) = r BY DEF Repeat
<1> HIDE DEF m
<1>3. ASSUME NEW k \in 1 .. m
      PROVE  /\ k \in 1 .. 3 * m /\ m + k \in 1 .. 3 * m /\ 2 * m + k \in 1 .. 3 * m
             /\ ((k - 1) % m) + 1 = k
             /\ (((m + k) - 1) % m) + 1 = k
             /\ (((2 * m + k) - 1) % m) + 1 = k
  <2>0. m \in Nat \ {0} /\ k \in Nat /\ k >= 1 /\ k <= m BY <1>1
  <2>1. k - 1 \in 0 .. m - 1 /\ (m + k) - 1 \in m .. 2 * m - 1
        /\ (2 * m + k) - 1 \in 2 * m .. 3 * m - 1
    BY ONLY <2>0
  <2>2. (k - 1) % m = k - 1 BY ONLY <2>0, <2>1, WrapWithin
  <2>3. ((m + k) - 1) % m = ((m + k) - 1) - m BY ONLY <2>0, <2>1, WrapAbove
  <2>4. ((2 * m + k) - 1) % m = ((2 * m + k) - 1) - 2 * m BY ONLY <2>0, <2>1, WrapTwice
  <2>5. k - 1 + 1 = k /\ ((m + k) - 1) - m + 1 = k /\ ((2 * m + k) - 1) - 2 * m + 1 = k
    BY ONLY <2>0
  <2>6. k \in 1 .. 3 * m /\ m + k \in 1 .. 3 * m /\ 2 * m + k \in 1 .. 3 * m BY ONLY <2>0
  <2> QED BY <2>2, <2>3, <2>4, <2>5, <2>6
<1>3a. \A i \in 1 .. 3 * m : r[i] = t[((i - 1) % m) + 1] OBVIOUS
<1>4. ASSUME NEW k \in 1 .. m
      PROVE  r[k] = t[k] /\ r[m + k] = t[k] /\ r[2 * m + k] = t[k]
  <2> HIDE DEF r
  <2> DEFINE i == m + k
             j == 2 * m + k
  <2>1. /\ k \in 1 .. 3 * m /\ i \in 1 .. 3 * m /\ j \in 1 .. 3 * m
        /\ ((k - 1) % m) + 1 = k
        /\ ((i - 1) % m) + 1 = k
        /\ ((j - 1) % m) + 1 = k
    BY <1>3
  <2> HIDE DEF i, j
  <2>2. r[k] = t[k] /\ r[i] = t[k] /\ r[j] = t[k] BY <1>3a, <2>1
  <2> QED BY <2>2 DEF i, j
<1>5. r \in Seq(Char) /\ Len(r) = 3 * m
  <2>1. \A i \in 1 .. 3 * m : ((i - 1) % m) + 1 \in 1 .. m BY <1>1
  <2>2. r \in [1 .. 3 * m -> Char] BY <1>1, <2>1
  <2>3. 3 * m \in Nat BY <1>1
  <2> HIDE DEF r
  <2> QED BY <2>2, <2>3
<1> HIDE DEF r
<1>6. 0 \in 0 .. Len(r) /\ m \in 0 .. Len(r) /\ 2 * m \in 0 .. Len(r)
      /\ 0 + m <= Len(r) /\ m + m <= Len(r) /\ 2 * m + m <= Len(r)
  BY <1>1, <1>5
<1>7. At(r, t, 0)
  <2>1. \A k \in 1 .. m : r[0 + k] = t[k]
    <3>1. \A k \in 1 .. m : 0 + k = k BY <1>1
    <3> QED BY <1>4, <3>1
  <2> QED BY <1>5, <1>6, <2>1, AtMeans DEF m
<1>8. At(r, t, m) BY <1>4, <1>5, <1>6, AtMeans DEF m
<1>9. At(r, t, 2 * m)
  <2> DEFINE i == 2 * m
  <2>1. i \in 0 .. Len(r) /\ i + m <= Len(r) /\ \A k \in 1 .. m : r[i + k] = t[k]
    BY <1>4, <1>6
  <2> HIDE DEF i
  <2>2. At(r, t, i) BY <1>5, <2>1, AtMeans DEF m
  <2> QED BY <2>2 DEF i
<1> DEFINE S == {0, m, 2 * m}
<1>10. S \in SUBSET Occurrences(r, t) BY <1>5, <1>6, <1>7, <1>8, <1>9, OccurrencesAre
<1>11. Disjoint(S, Len(t))
  <2>1. \A i, j \in S : i = j \/ i - j >= m \/ j - i >= m BY <1>1
  <2> QED BY <2>1 DEF Disjoint, m
<1>12. Cardinality(S) = 3
  <2> DEFINE A == {0}
             B == A \cup {m}
             C == B \cup {2 * m}
  <2>1. IsFiniteSet(A) /\ Cardinality(A) = 1 BY FS_Singleton
  <2>2. m \notin A /\ 2 * m \notin B BY <1>1
  <2>3. C = S OBVIOUS
  <2> HIDE DEF A
  <2>4. IsFiniteSet(B) /\ Cardinality(B) = 1 + 1 BY <2>1, <2>2, FS_AddElement
  <2> HIDE DEF B
  <2>5. Cardinality(C) = 1 + 1 + 1 BY <2>2, <2>4, FS_AddElement
  <2> HIDE DEF C, S
  <2>6. 1 + 1 + 1 = 3 OBVIOUS
  <2> QED BY <2>3, <2>5, <2>6
<1> HIDE DEF S
<1>13. CountOf(r, t) \in Nat /\ Cardinality(S) <= CountOf(r, t)
  BY <1>5, <1>10, <1>11, CountIsOfMost
<1> QED BY <1>2, <1>12, <1>13

\* Something fits behind a string iff there is room for it and the terminator.
LEMMA AppendsExactly ==
  ASSUME NEW s \in Seq(Char), NEW t \in Seq(Char) \ {<< >>}
  PROVE  /\ Appends(s, Len(Concat(s, t)), t) = FALSE
         /\ Appends(s, Len(Concat(s, t)) + 1, t)
<1>1. Len(Concat(s, t)) = Len(s) + Len(t) BY ConcatIs DEF Concat
<1>2. Len(s) \in Nat /\ Len(t) \in Nat OBVIOUS
<1> QED BY <1>1, <1>2 DEF Appends

-----------------------------------------------------------------------------
(* Trimming                                                                *)

\* Of a string that is all of it trimmed nothing is left.
LEMMA TrimmedToNothing ==
  ASSUME NEW s \in Seq(Char) \ {<< >>}, NEW chars, \A i \in 1 .. Len(s) : s[i] \in chars
  PROVE  Trimmed(s, chars) = << >>
<1> DEFINE n == Len(s)
           A == {i \in 0 .. n : i = n \/ s[i + 1] \notin chars}
           start == Library!Min(A)
           B == {i \in 0 .. n - 1 : i <= start \/ s[i + 1] \notin chars}
           end == Library!Max(B)
<1>1. n \in Nat /\ n >= 1 OBVIOUS
<1>2. start = n
  <2>1. A = {n}
    <3>1. \A i \in 0 .. n : i # n => s[i + 1] \in chars
      <4>1. \A i \in 0 .. n : i # n => i + 1 \in 1 .. n BY <1>1
      <4> QED BY <4>1
    <3> QED BY <1>1, <3>1
  <2>2. 0 \in Int /\ n \in Int /\ A \in SUBSET (0 .. n) /\ A # {} BY <1>1, <2>1
  <2> HIDE DEF A, n
  <2>3. start \in A BY <2>2, LeastOf
  <2> QED BY <2>1, <2>3
<1> HIDE DEF start
<1>3. end = n - 1
  <2>1. \A i \in 0 .. n - 1 : i \in B BY <1>1, <1>2
  <2>2. 0 \in Int /\ n - 1 \in Int /\ n - 1 \in 0 .. n - 1 /\ B \in SUBSET (0 .. n - 1) BY <1>1
  <2>3. n - 1 \in B BY <2>1, <2>2
  <2>4. B # {} BY <2>3
  <2> HIDE DEF B, n
  <2> DEFINE hi == n - 1
  <2>5. hi \in Int /\ B \in SUBSET (0 .. hi) BY <2>2
  <2> HIDE DEF hi
  <2>6. end \in B /\ \A x \in B : x <= end BY <2>2, <2>4, <2>5, GreatestOf
  <2> HIDE DEF end
  <2>7. end \in 0 .. n - 1 /\ n - 1 <= end BY <2>2, <2>3, <2>6
  <2> QED BY <1>1, <2>7
<1>4. Trimmed(s, chars) = Piece(s, start, end - start + 1) BY DEF Trimmed, start
<1> HIDE DEF end
<1>5. end - start + 1 = 0 BY <1>1, <1>2, <1>3
<1>6. Trimmed(s, chars) = Piece(s, n, 0) BY <1>2, <1>4, <1>5
<1>7. Piece(s, n, 0) = << >>
  <2>1. n \in 0 .. Len(s) /\ 0 \in Nat /\ n + 0 <= Len(s) /\ n + 0 = n BY <1>1
  <2>2. Piece(s, n, 0) = SubSeq(s, n + 1, n + 0) BY <2>1, PieceIs
  <2>3. SubSeq(s, n + 1, n) = << >> BY <1>1
  <2> QED BY <2>1, <2>2, <2>3
<1> QED BY <1>6, <1>7

\* Otherwise what lies between the first and the last character that is not.
Between(s, chars, a, b) ==
  /\ s[a] \notin chars /\ s[b] \notin chars
  /\ \A i \in 1 .. Len(s) : i < a \/ i > b => s[i] \in chars

\* Those are what trimming keeps.
LEMMA TrimmedToBounds ==
  ASSUME NEW s \in Seq(Char) \ {<< >>}, NEW chars, NEW a \in 1 .. Len(s), NEW b \in a .. Len(s),
         Between(s, chars, a, b)
  PROVE  Trimmed(s, chars) = SubSeq(s, a, b)
<1> DEFINE n == Len(s)
           A == {i \in 0 .. n : i = n \/ s[i + 1] \notin chars}
           start == Library!Min(A)
           B == {i \in 0 .. n - 1 : i <= start \/ s[i + 1] \notin chars}
           end == Library!Max(B)
<1>1. n \in Nat /\ n >= 1 /\ a \in Nat /\ b \in Nat /\ 1 <= a /\ a <= b /\ b <= n OBVIOUS
<1>1a. /\ s[a] \notin chars /\ s[b] \notin chars
       /\ \A i \in 1 .. n : i < a \/ i > b => s[i] \in chars
  BY DEF Between
<1>2. start = a - 1
  <2>1. a - 1 \in A
    <3>1. a - 1 \in 0 .. n /\ a - 1 + 1 = a BY <1>1
    <3>2. s[a - 1 + 1] \notin chars BY <1>1a, <3>1
    <3> QED BY <3>1, <3>2
  <2>2. ASSUME NEW x \in A PROVE x >= a - 1
    <3>1. x \in 0 .. n /\ (x = n \/ s[x + 1] \notin chars) OBVIOUS
    <3>2. x # n => x + 1 \in 1 .. n BY <1>1, <3>1
    <3>3. x # n => ~ (x + 1 < a) BY <1>1a, <3>1, <3>2
    <3> QED BY <1>1, <3>1, <3>3
  <2>3. 0 \in Int /\ n \in Int /\ A \in SUBSET (0 .. n) /\ A # {} BY <1>1, <2>1
  <2> HIDE DEF A, n
  <2>4. start \in A /\ \A x \in A : start <= x BY <2>3, LeastOf
  <2> HIDE DEF start
  <2>5. start \in Int /\ start <= a - 1 /\ start >= a - 1 BY <2>1, <2>2, <2>3, <2>4
  <2> QED BY <1>1, <2>5
<1> HIDE DEF start
<1>3. end = b - 1
  <2>1. b - 1 \in B
    <3>1. b - 1 \in 0 .. n - 1 /\ b - 1 + 1 = b BY <1>1
    <3>2. s[b - 1 + 1] \notin chars BY <1>1a, <3>1
    <3> QED BY <3>1, <3>2
  <2>2. ASSUME NEW x \in B PROVE x <= b - 1
    <3>1. x \in 0 .. n - 1 /\ (x <= start \/ s[x + 1] \notin chars) OBVIOUS
    <3>2. x + 1 \in 1 .. n BY <1>1, <3>1
    <3>3. s[x + 1] \notin chars => ~ (x + 1 > b) BY <1>1a, <3>2
    <3> QED BY <1>1, <1>2, <3>1, <3>3
  <2> DEFINE hi == n - 1
  <2>2a. B \in SUBSET (0 .. n - 1) OBVIOUS
  <2>3. 0 \in Int /\ hi \in Int /\ B \in SUBSET (0 .. hi) /\ B # {}
    <3> HIDE DEF B
    <3> QED BY <1>1, <2>1, <2>2a
  <2> HIDE DEF B, hi
  <2>4. end \in B /\ \A x \in B : x <= end BY <2>3, GreatestOf
  <2> HIDE DEF end
  <2>5. end \in Int /\ end <= b - 1 /\ end >= b - 1 BY <2>1, <2>2, <2>3, <2>4
  <2> QED BY <1>1, <2>5
<1>4. Trimmed(s, chars) = Piece(s, start, end - start + 1) BY DEF Trimmed, start
<1> HIDE DEF end
<1> DEFINE i == a - 1
           k == b - a + 1
<1>5. start = i /\ end - start + 1 = k BY <1>1, <1>2, <1>3
<1>6. i \in 0 .. Len(s) /\ k \in Nat /\ i + k <= Len(s) /\ i + 1 = a /\ i + k = b BY <1>1
<1> HIDE DEF i, k
<1>7. Piece(s, i, k) = SubSeq(s, i + 1, i + k) BY <1>6, PieceIs
<1> QED BY <1>4, <1>5, <1>6, <1>7

\* There are such characters, or all is trimmed.
LEMMA TrimmedBounds ==
  ASSUME NEW s \in Seq(Char) \ {<< >>}, NEW chars
  PROVE  \/ \A i \in 1 .. Len(s) : s[i] \in chars
         \/ \E a \in 1 .. Len(s) : \E b \in a .. Len(s) : Between(s, chars, a, b)
<1> DEFINE n == Len(s)
           S == {i \in 1 .. n : s[i] \notin chars}
<1>1. SUFFICES ASSUME S # {}
               PROVE  \E a \in 1 .. Len(s) : \E b \in a .. Len(s) : Between(s, chars, a, b)
  OBVIOUS
<1>2. n \in Nat OBVIOUS
<1>3. \A i \in 1 .. n : i \in S <=> s[i] \notin chars OBVIOUS
<1>4. 1 \in Int /\ n \in Int /\ S \in SUBSET (1 .. n) BY <1>2
<1> HIDE DEF S, n
<1> DEFINE a == Library!Min(S)
           b == Library!Max(S)
<1>5. a \in S /\ \A x \in S : a <= x BY <1>1, <1>4, LeastOf
<1>6. b \in S /\ \A x \in S : x <= b BY <1>1, <1>4, GreatestOf
<1> HIDE DEF a, b
<1>7. a \in 1 .. n /\ b \in 1 .. n /\ a <= b BY <1>4, <1>5, <1>6
<1>8. b \in a .. n BY <1>2, <1>7
<1>9. ASSUME NEW i \in 1 .. n, i < a \/ i > b PROVE s[i] \in chars
  <2>1. i \notin S BY <1>5, <1>6, <1>7, <1>9
  <2> QED BY <1>3, <2>1
<1>10. s[a] \notin chars /\ s[b] \notin chars BY <1>3, <1>5, <1>6, <1>7
<1>11. Between(s, chars, a, b) BY <1>9, <1>10 DEF Between, n
<1> QED BY <1>7, <1>8, <1>11 DEF n

\* An element behind a sequence.
LEMMA Appended ==
  ASSUME NEW E, NEW q \in Seq(E), NEW e \in E
  PROVE  /\ q \o << e >> \in Seq(E) /\ Len(q \o << e >>) = Len(q) + 1
         /\ \A i \in 1 .. Len(q) : (q \o << e >>)[i] = q[i]
         /\ (q \o << e >>)[Len(q) + 1] = e
  OBVIOUS

\* The padded string has the character on each side.
LEMMA PaddedIs ==
  ASSUME NEW s \in Seq(Char) \ {<< >>}, NEW ch \in Char
  PROVE  /\ Padded(s, ch) \in Seq(Char) \ {<< >>}
         /\ Len(Padded(s, ch)) = Len(s) + 2
         /\ Padded(s, ch)[1] = ch /\ Padded(s, ch)[Len(s) + 2] = ch
         /\ \A i \in 1 .. Len(s) : Padded(s, ch)[i + 1] = s[i]
<1> DEFINE n == Len(s)
           one == << ch >>
           right == s \o one
           p == one \o right
<1>1. n \in Nat /\ n >= 1 OBVIOUS
<1>2. one \in Seq(Char) /\ Len(one) = 1 /\ one[1] = ch OBVIOUS
<1>3. [i \in 1 .. 1 |-> ch] = one
  <2>1. 1 .. 1 = {1} OBVIOUS
  <2> QED BY <1>2, <2>1
<1>4. Padding(s, n + 1, ch) = one
  <2>1. n + 1 - n = 1 BY <1>1
  <2> QED BY <1>3, <2>1 DEF Padding
<1>5. PadRight(s, n + 1, ch) = right
  <2>1. n + 1 # 0 BY <1>1
  <2> QED BY <1>4, <2>1 DEF PadRight
<1> HIDE DEF one
<1>6. /\ right \in Seq(Char) /\ Len(right) = n + 1
      /\ \A i \in 1 .. n : right[i] = s[i]
      /\ right[n + 1] = ch
  <2>1. /\ s \o << ch >> \in Seq(Char) /\ Len(s \o << ch >>) = Len(s) + 1
        /\ \A i \in 1 .. Len(s) : (s \o << ch >>)[i] = s[i]
        /\ (s \o << ch >>)[Len(s) + 1] = ch
    BY Appended
  <2> QED BY <2>1 DEF one
<1> HIDE DEF right
<1>7. Padding(right, n + 2, ch) = one
  <2>1. n + 2 - Len(right) = 1 BY <1>1, <1>6
  <2> QED BY <1>3, <2>1 DEF Padding
<1>8. PadLeft(right, n + 2, ch) = p
  <2>1. n + 2 # 0 BY <1>1
  <2> QED BY <1>7, <2>1 DEF PadLeft
<1>9. Padded(s, ch) = p BY <1>5, <1>8 DEF Padded
<1>10. /\ p \in Seq(Char) /\ Len(p) = n + 2
       /\ p[1] = ch
       /\ \A j \in 1 .. n + 1 : p[j + 1] = right[j]
  <2>1. /\ << ch >> \o right \in Seq(Char)
        /\ Len(<< ch >> \o right) = Len(right) + 1
        /\ (<< ch >> \o right)[1] = ch
        /\ \A i \in 1 .. Len(right) : (<< ch >> \o right)[i + 1] = right[i]
    BY <1>6, Prepended
  <2>2. Len(right) + 1 = n + 2 BY <1>1, <1>6
  <2> QED BY <1>6, <2>1, <2>2 DEF one
<1> HIDE DEF p
<1>11. p # << >> BY <1>1, <1>10
<1>12. p[n + 2] = ch
  <2> DEFINE j == n + 1
  <2>1. j \in 1 .. n + 1 /\ j + 1 = n + 2 BY <1>1
  <2> HIDE DEF j
  <2>2. p[j + 1] = right[j] BY <1>10, <2>1
  <2>3. right[j] = ch BY <1>6 DEF j
  <2> QED BY <2>1, <2>2, <2>3
<1>13. \A i \in 1 .. n : p[i + 1] = s[i]
  <2>1. \A i \in 1 .. n : i \in 1 .. n + 1 BY <1>1
  <2> QED BY <1>6, <1>10, <2>1
<1> QED BY <1>9, <1>10, <1>11, <1>12, <1>13

\* What was padded with a character that is trimmed is trimmed to the same.
LEMMA PaddingIsTrimmed ==
  ASSUME NEW s \in Seq(Char) \ {<< >>}, NEW ch \in Char, NEW chars, ch \in chars
  PROVE  Trimmed(Padded(s, ch), chars) = Trimmed(s, chars)
<1> DEFINE n == Len(s)
           p == Padded(s, ch)
<1>1. n \in Nat OBVIOUS
<1>2. /\ p \in Seq(Char) \ {<< >>} /\ Len(p) = n + 2 /\ p[1] = ch /\ p[n + 2] = ch
      /\ \A i \in 1 .. n : p[i + 1] = s[i]
  BY PaddedIs
<1> HIDE DEF p
<1>3. \A j \in 1 .. n + 2 : j = 1 \/ j = n + 2 \/ (j - 1 \in 1 .. n /\ p[j] = s[j - 1])
  <2>1. SUFFICES ASSUME NEW j \in 1 .. n + 2, j # 1, j # n + 2
                 PROVE  j - 1 \in 1 .. n /\ p[j] = s[j - 1]
    OBVIOUS
  <2> DEFINE i == j - 1
  <2>2. i \in 1 .. n /\ i + 1 = j BY <1>1, <2>1
  <2> HIDE DEF i
  <2>3. p[i + 1] = s[i] BY <1>2, <2>2
  <2> QED BY <2>2, <2>3 DEF i
<1>4. CASE \A i \in 1 .. n : s[i] \in chars
  <2>1. \A j \in 1 .. Len(p) : p[j] \in chars BY <1>2, <1>3, <1>4
  <2>2. Trimmed(p, chars) = << >> BY <1>2, <2>1, TrimmedToNothing
  <2>3. Trimmed(s, chars) = << >> BY <1>4, TrimmedToNothing
  <2> QED BY <2>2, <2>3 DEF p
<1>5. CASE \E a \in 1 .. n : \E b \in a .. n : Between(s, chars, a, b)
  <2>0. PICK a \in 1 .. n : \E b \in a .. n : Between(s, chars, a, b) BY <1>5
  <2>1. PICK b \in a .. n : Between(s, chars, a, b) BY <2>0
  <2> DEFINE x == a + 1
             y == b + 1
  <2>2. /\ a \in Nat /\ b \in Nat /\ 1 <= a /\ a <= b /\ b <= n
        /\ x \in 1 .. n + 2 /\ y \in x .. n + 2
        /\ a \in 1 .. n /\ b \in 1 .. n
    BY <1>1
  <2>3. /\ s[a] \notin chars /\ s[b] \notin chars
        /\ \A i \in 1 .. n : i < a \/ i > b => s[i] \in chars
    BY <2>1 DEF Between
  <2>4. p[x] = s[a] /\ p[y] = s[b] BY <1>2, <2>2
  <2>5. ASSUME NEW j \in 1 .. Len(p), j < x \/ j > y PROVE p[j] \in chars
    <3>1. j \in 1 .. n + 2 BY <1>2
    <3>2. CASE j = 1 \/ j = n + 2 BY <1>2, <3>2
    <3>3. CASE j - 1 \in 1 .. n /\ p[j] = s[j - 1]
      <4>1. j - 1 < a \/ j - 1 > b BY <2>2, <2>5, <3>1
      <4> QED BY <2>3, <3>3, <4>1
    <3> QED BY <1>3, <3>1, <3>2, <3>3
  <2> HIDE DEF x, y
  <2>6. Between(p, chars, x, y) BY <2>3, <2>4, <2>5 DEF Between
  <2>7. Trimmed(p, chars) = SubSeq(p, x, y) BY <1>2, <2>2, <2>6, TrimmedToBounds
  <2>8. Trimmed(s, chars) = SubSeq(s, a, b) BY <2>1, <2>2, TrimmedToBounds
  <2>9. SubSeq(p, x, y) = SubSeq(s, a, b)
    <3> DEFINE m == b - a + 1
               u == SubSeq(p, x, y)
               v == SubSeq(s, a, b)
    <3>1. m \in Nat /\ Len(u) = m /\ u \in Seq(Char)
      <4>1. y - x + 1 = m BY <2>2 DEF x, y
      <4>2. x \in Nat /\ y \in Nat /\ x >= 1 /\ x <= y /\ y <= Len(p) BY <1>1, <1>2, <2>2
      <4> QED BY <1>2, <2>2, <4>1, <4>2
    <3>2. Len(v) = m /\ v \in Seq(Char) BY <2>2
    <3>3. ASSUME NEW k \in 1 .. m PROVE u[k] = v[k]
      <4> DEFINE i == a + k - 1
      <4>1. i \in 1 .. n /\ i + 1 = x + k - 1 BY <1>1, <2>2 DEF x
      <4>2. v[k] = s[i] BY <2>2
      <4>3. u[k] = p[x + k - 1]
        <5>1. x \in Nat /\ y \in Nat /\ x >= 1 /\ x <= y /\ y <= Len(p) /\ m = y - x + 1
          BY <1>1, <1>2, <2>2 DEF x, y
        <5> QED BY <1>2, <5>1
      <4> HIDE DEF i
      <4>4. p[i + 1] = s[i] BY <1>2, <4>1
      <4> QED BY <4>1, <4>2, <4>3, <4>4
    <3> HIDE DEF u, v, m
    <3>4. u \in [1 .. m -> Char] /\ v \in [1 .. m -> Char]
      <4>1. \A z \in Seq(Char) : z \in [1 .. Len(z) -> Char] OBVIOUS
      <4> QED BY <3>1, <3>2, <4>1
    <3>5. u = [k \in 1 .. m |-> u[k]] /\ v = [k \in 1 .. m |-> v[k]] BY <3>4
    <3>6. [k \in 1 .. m |-> u[k]] = [k \in 1 .. m |-> v[k]] BY <3>3
    <3> QED BY <3>5, <3>6 DEF u, v
  <2> QED BY <2>7, <2>8, <2>9 DEF p
<1> QED BY <1>4, <1>5, TrimmedBounds

\* What is left begins and ends with characters that are not trimmed.
LEMMA TrimmedEnds ==
  ASSUME NEW s \in Seq(Char) \ {<< >>}, NEW chars, Trimmed(s, chars) # << >>
  PROVE  {Trimmed(s, chars)[1], Trimmed(s, chars)[Len(Trimmed(s, chars))]} \cap chars = {}
<1> DEFINE n == Len(s)
           r == Trimmed(s, chars)
<1>1. ~ \A i \in 1 .. n : s[i] \in chars BY TrimmedToNothing
<1>2. PICK a \in 1 .. n : \E b \in a .. n : Between(s, chars, a, b) BY <1>1, TrimmedBounds
<1>3. PICK b \in a .. n : Between(s, chars, a, b) BY <1>2
<1>4. n \in Nat /\ a \in Nat /\ b \in Nat /\ 1 <= a /\ a <= b /\ b <= n OBVIOUS
<1>5. r = SubSeq(s, a, b) BY <1>3, TrimmedToBounds
<1> DEFINE v == SubSeq(s, a, b)
<1>6. Len(v) = b - a + 1 /\ v[1] = s[a] /\ v[b - a + 1] = s[b]
  <2>1. Len(v) = b - a + 1 BY <1>4
  <2>2. v[1] = s[a]
    <3>1. 1 \in 1 .. b - a + 1 /\ a + 1 - 1 = a BY <1>4
    <3> QED BY <1>4, <3>1
  <2>3. v[b - a + 1] = s[b]
    <3>1. b - a + 1 \in 1 .. b - a + 1 /\ a + (b - a + 1) - 1 = b BY <1>4
    <3> QED BY <1>4, <3>1
  <2> QED BY <2>1, <2>2, <2>3
<1> HIDE DEF v, r
<1>7. r[1] = s[a] /\ r[Len(r)] = s[b] BY <1>5, <1>6 DEF v
<1>8. s[a] \notin chars /\ s[b] \notin chars BY <1>3 DEF Between
<1>9. {r[1], r[Len(r)]} \cap chars = {} BY <1>7, <1>8
<1> QED BY <1>9 DEF r

-----------------------------------------------------------------------------
(* The calls about strings                                                 *)

StringRelation ==
  {"EQUAL_CSTR", "LENGTH_EQUAL_CSTR", "CSTR_STARTS_WITH", "CSTR_ENDS_WITH", "CSTR_CONTAINS",
   "CSTR_COUNT", "SAFE_CSTR"}

\* A call is of strings only if it has the arguments of one.
StringCall(c) ==
  \E its \in BOOLEAN, s \in String, t \in Pattern, n \in 0 .. 3, rel \in StringRelation :
    c = Form("STRING", "CSTR", its, rel, << s, t, n >>)

StringsInv == Judged("STRING") => StringCall(call)

\* Judging a call of another section.
LEMMA JudgedOtherwise ==
  ASSUME NEW section, section # "STRING", NEW type, NEW its, NEW rel, NEW args,
         Judge(Form(section, type, its, rel, args))
  PROVE  StringsInv'
<1>1. call'.section = section BY DEF Judge, Form
<1> QED BY <1>1 DEF StringsInv, Judged

\* The arguments of a call about strings are a string, a pattern and a number.
LEMMA StringsInvHolds == Spec => []StringsInv
<1>1. Init => StringsInv BY DEF Init, NoCall, StringsInv, Judged
<1>2. StringsInv /\ [Next]_vars => StringsInv'
  <2> SUFFICES ASSUME StringsInv, [Next]_vars PROVE StringsInv' OBVIOUS
  <2>1. CASE AssumeString
    <3>1. PICK its \in BOOLEAN, s \in String, t \in Pattern, n \in 0 .. 3,
               rel \in StringRelation :
            Judge(Form("STRING", "CSTR", its, rel, << s, t, n >>))
      BY <2>1 DEF AssumeString, StringRelation
    <3>2. StringCall(Form("STRING", "CSTR", its, rel, << s, t, n >>)) BY DEF StringCall
    <3>3. call' = Form("STRING", "CSTR", its, rel, << s, t, n >>) BY <3>1 DEF Judge
    <3>4. StringCall(call') BY <3>2, <3>3
    <3> QED BY <3>4 DEF StringsInv
  <2>2. CASE \/ AssumeInteger \/ AssumeRange \/ AssumeTime \/ AssumeNoOverflow \/ AssumeGuard
             \/ AssumeHash \/ AssumeBoolean \/ AssumePointer
    <3>1. \E section \in {"INTEGER", "RANGE", "TIME", "OVERFLOW", "GUARD", "HASH", "BOOLEAN",
                          "POINTER"} :
            \E type, its, rel, args : Judge(Form(section, type, its, rel, args))
      BY <2>2 DEF AssumeInteger, AssumeRange, AssumeTime, AssumeNoOverflow, AssumeGuard,
                  AssumeHash, AssumeBoolean, AssumePointer
    <3> QED BY <3>1, JudgedOtherwise
  <2>3. CASE \/ AssumeFloat \/ AssumeFloatRange \/ AssumeNotFinite \/ AssumeMemory
             \/ AssumeBits \/ AssumeResult \/ AssumeMasked
    <3>1. \E section \in {"FLOAT", "FLOAT_RANGE", "FLOAT_CLASS", "MEMORY", "BITS"} :
            \E type, its, rel, args : Judge(Form(section, type, its, rel, args))
      BY <2>3 DEF AssumeFloat, AssumeFloatRange, AssumeNotFinite, AssumeMemory, AssumeBits,
                  AssumeResult, AssumeMasked
    <3> QED BY <3>1, JudgedOtherwise
  <2>4. CASE GoOn BY <2>4 DEF GoOn, NoCall, StringsInv, Judged
  <2>5. CASE Aborted \/ UNCHANGED vars
    <3>1. call' = call BY <2>5 DEF Aborted, vars
    <3> QED BY <3>1 DEF StringsInv, Judged
  <2> QED BY <2>1, <2>2, <2>3, <2>4, <2>5 DEF Next
<1> QED BY <1>1, <1>2, PTL DEF Spec

\* What the calls about strings hand on.
LEMMA StringsOfCall ==
  ASSUME StringsInv, Judged("STRING")
  PROVE  /\ call.args[1] \in Seq(Char)
         /\ call.args[2] \in Seq(Char) \ {<< >>}
         /\ call.args[3] \in Nat
<1>1. PICK its \in BOOLEAN, s \in String, t \in Pattern, n \in 0 .. 3, rel \in StringRelation :
        call = Form("STRING", "CSTR", its, rel, << s, t, n >>)
  BY DEF StringsInv, StringCall
<1>2. call.args = << s, t, n >> BY <1>1 DEF Form
<1>3. s \in Seq(Char) /\ t \in Seq(Char) \ {<< >>} /\ n \in Nat BY StringAssumption
<1> QED BY <1>2, <1>3

\* For all strings, CountIsMost: searching on behind each match finds as many
\* occurrences as can be had without overlap.
THEOREM CountIsMostHolds == Spec => []CountIsMost
<1>1. StringsInv /\ DecidedInv => CountIsMost
  <2> SUFFICES ASSUME StringsInv, DecidedInv, Judged("STRING"), call.rel = "CSTR_COUNT",
                      call.its, verdict
               PROVE  CountIsMost
    BY DEF CountIsMost
  <2> DEFINE s == call.args[1]
             t == call.args[2]
             Apart == {S \in SUBSET Occurrences(s, t) : Disjoint(S, Len(t))}
  <2>1. s \in Seq(Char) /\ t \in Seq(Char) \ {<< >>} /\ call.args[3] \in Nat
    BY StringsOfCall
  <2>2. CountOf(s, t) = call.args[3]
    <3>1. call # NoCall BY DEF Judged, NoCall
    <3>2. Condition(call) BY <3>1 DEF DecidedInv
    <3>3. StringHolds(call) BY <3>2 DEF Condition, Judged
    <3> QED BY <3>3 DEF StringHolds
  <2> HIDE DEF s, t
  <2>3. /\ \E S \in SUBSET Occurrences(s, t) :
             Disjoint(S, Len(t)) /\ Cardinality(S) = CountOf(s, t)
        /\ \A S \in SUBSET Occurrences(s, t) :
             Disjoint(S, Len(t)) => Cardinality(S) <= CountOf(s, t)
    BY <2>1, CountIsOfMost
  <2>4. /\ \E S \in Apart : Cardinality(S) = call.args[3]
        /\ \A S \in Apart : Cardinality(S) <= call.args[3]
    BY <2>2, <2>3
  <2> QED BY <2>4 DEF CountIsMost, s, t
<1> QED BY <1>1, StringsInvHolds, DecidedInvHolds, PTL

\* For all strings, BuffersFit: maip_io_cstr_replace writes as much as it
\* measured, and maip_io_cstr_split cuts what is left without the delimiters.
THEOREM BuffersFitHolds == Spec => []BuffersFit
<1>1. StringsInv => BuffersFit
  <2> SUFFICES ASSUME StringsInv, Judged("STRING"), call.rel = "EQUAL_CSTR" PROVE BuffersFit
    BY DEF BuffersFit
  <2> DEFINE s == call.args[1]
             t == call.args[2]
  <2>1. s \in Seq(Char) /\ t \in Seq(Char) \ {<< >>} BY StringsOfCall
  <2> HIDE DEF s, t
  <2>2. \A new \in {<< >>} \cup Pattern : Len(Replace(s, t, new)) = Measured(s, t, new)
    <3>1. \A new \in {<< >>} \cup Pattern : new \in Seq(Char)
      <4>1. << >> \in Seq(Char) OBVIOUS
      <4> QED BY <4>1, StringAssumption
    <3> QED BY <2>1, <3>1, WrittenAsMeasured
  <2>3. /\ Flattened(Split(s, t[1])) = Without(s, t[1])
        /\ Len(Split(s, t[1])) = 1 + Len(s) - Len(Without(s, t[1]))
    BY <2>1, SplitCuts
  <2> QED BY <2>2, <2>3 DEF BuffersFit, s, t
<1> QED BY <1>1, StringsInvHolds, PTL

\* For all strings, StringsAgree: the functions that answer the same question
\* agree, and trimming takes back what padding added.
THEOREM StringsAgreeHolds == Spec => []StringsAgree
<1>1. StringsInv => StringsAgree
  <2> SUFFICES ASSUME StringsInv, Judged("STRING"), call.rel = "EQUAL_CSTR" PROVE StringsAgree
    BY DEF StringsAgree
  <2> DEFINE s == call.args[1]
             t == call.args[2]
  <2>1. s \in Seq(Char) /\ t \in Seq(Char) \ {<< >>} BY StringsOfCall
  <2> HIDE DEF s, t
  <2>2. EndsWith(s, t) = StartsWith(Reversed(s), Reversed(t)) BY <2>1, EndsAsReversedStarts
  <2>3. ContainsString(s, t) = (CountOf(s, t) > 0)
    <3>1. ContainsString(s, t) <=> CountOf(s, t) > 0 BY <2>1, CountedIfContained
    <3>2. ContainsString(s, t) \in BOOLEAN BY DEF ContainsString
    <3>3. (CountOf(s, t) > 0) \in BOOLEAN
      <4>1. CountOf(s, t) \in Nat BY <2>1, CountIsOfMost
      <4> QED BY <4>1
    <3> QED BY <3>1, <3>2, <3>3
  <2>4. StartsWith(s, t) = (s # << >> /\ Substring(s, 0, Len(t)) = t)
    BY <2>1, StartsAsSubstring
  <2>5. CountOf(Repeat(t, 3), t) >= 3 BY <2>1, RepeatedIsCounted
  <2>6. Appends(s, Len(Concat(s, t)), t) = FALSE /\ Appends(s, Len(Concat(s, t)) + 1, t)
    BY <2>1, AppendsExactly
  <2>7. ASSUME s # << >>, NEW sp \in Space
        PROVE  /\ Trim(Padded(s, sp)) = Trim(s)
               /\ Strip(Padded(s, sp), sp) = Strip(s, sp)
               /\ Trim(s) # << >> => {Trim(s)[1], Trim(s)[Len(Trim(s))]} \cap Space = {}
    <3>1. s \in Seq(Char) \ {<< >>} /\ sp \in Char BY <2>1, <2>7, StringAssumption
    <3>2. Trimmed(Padded(s, sp), Space) = Trimmed(s, Space) BY <3>1, PaddingIsTrimmed
    <3>3. Trimmed(Padded(s, sp), {sp}) = Trimmed(s, {sp})
      <4>1. sp \in {sp} OBVIOUS
      <4> QED BY <3>1, <4>1, PaddingIsTrimmed
    <3>4. Trim(s) # << >> => {Trim(s)[1], Trim(s)[Len(Trim(s))]} \cap Space = {}
      BY <3>1, TrimmedEnds DEF Trim
    <3> QED BY <3>2, <3>3, <3>4 DEF Trim, Strip
  <2> QED BY <2>2, <2>3, <2>4, <2>5, <2>6, <2>7 DEF StringsAgree, s, t
<1> QED BY <1>1, StringsInvHolds, PTL

=============================================================================
