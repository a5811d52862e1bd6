--------------------------- MODULE SuggestProofs ----------------------------
(***************************************************************************)
(* The suggestion is the nearest command: theorems about Suggest for every *)
(* word, every list of commands and every max_distance.                    *)
(*                                                                         *)
(* A row of the table holds the distances of a beginning of one word from  *)
(* all beginnings of the other.  That they are the costs of the cheapest   *)
(* alignments is shown by cases on what an alignment does with the last    *)
(* letters; no recursive definition of the distance is assumed.            *)
(***************************************************************************)
EXTENDS Suggest, TLAPS, FiniteSetTheorems, WellFoundedInduction

-----------------------------------------------------------------------------
(***************************************************************************)
(* Alignments.                                                             *)
(***************************************************************************)

\* The kept letters at one place of the alignment that differ.
PairsApart(s, t, K, L) ==
  {p \in K \X L : Rank(K, p[1]) = Rank(L, p[2]) /\ s[p[1]] # t[p[2]]}

\* The cost of an alignment of the first r letters of s and the first c of t.
PrefixCost(s, t, r, c, K, L) ==
  (r - Cardinality(K)) + (c - Cardinality(L)) + Cardinality(PairsApart(s, t, K, L))

\* v is the least cost of aligning the first r letters of s and the first c of t.
IsNearest(s, t, r, c, v) ==
  /\ v \in Nat
  /\ \E K \in SUBSET (1 .. r) : \E L \in SUBSET (1 .. c) :
       Cardinality(K) = Cardinality(L) /\ PrefixCost(s, t, r, c, K, L) = v
  /\ \A K \in SUBSET (1 .. r) : \A L \in SUBSET (1 .. c) :
       Cardinality(K) = Cardinality(L) => PrefixCost(s, t, r, c, K, L) >= v

\* Sets of positions are finite.
LEMMA PositionsAreFinite ==
  ASSUME NEW r \in Nat, NEW K \in SUBSET (1 .. r)
  PROVE  IsFiniteSet(K) /\ Cardinality(K) \in Nat /\ Cardinality(K) <= r
<1>1. IsFiniteSet(1 .. r) /\ Cardinality(1 .. r) = r
  <2>1. IsFiniteSet(1 .. r) /\ Cardinality(1 .. r) = IF 1 > r THEN 0 ELSE r - 1 + 1
    BY FS_Interval
  <2> QED BY <2>1
<1>2. IsFiniteSet(K) /\ Cardinality(K) <= r BY <1>1, FS_Subset
<1> QED BY <1>2, FS_CardinalityType

\* A position behind the others changes none of their places and has the last
\* place itself.
LEMMA RankBehind ==
  ASSUME NEW r \in Nat, r >= 1, NEW K \in SUBSET (1 .. r - 1)
  PROVE  /\ Cardinality(K \cup {r}) = Cardinality(K) + 1
         /\ Rank(K \cup {r}, r) = Cardinality(K) + 1
         /\ \A x \in K : /\ Rank(K \cup {r}, x) = Rank(K, x)
                         /\ Rank(K, x) \in Nat /\ Rank(K, x) <= Cardinality(K)
<1>1. r - 1 \in Nat OBVIOUS
<1>2. IsFiniteSet(K) /\ Cardinality(K) \in Nat BY <1>1, PositionsAreFinite
<1>3. r \notin K /\ \A x \in K : x \in Nat /\ x < r OBVIOUS
<1>4. Cardinality(K \cup {r}) = Cardinality(K) + 1 BY <1>2, <1>3, FS_AddElement
<1>5. {y \in K \cup {r} : y <= r} = K \cup {r}
  <2>1. \A y \in K \cup {r} : y <= r BY <1>3
  <2> QED BY <2>1
<1>6. ASSUME NEW x \in K
      PROVE  /\ Rank(K \cup {r}, x) = Rank(K, x)
             /\ Rank(K, x) \in Nat /\ Rank(K, x) <= Cardinality(K)
  <2>1. {y \in K \cup {r} : y <= x} = {y \in K : y <= x} BY <1>3
  <2>2. {y \in K : y <= x} \in SUBSET K OBVIOUS
  <2>3. /\ IsFiniteSet({y \in K : y <= x})
        /\ Cardinality({y \in K : y <= x}) <= Cardinality(K)
    BY <1>2, <2>2, FS_Subset
  <2>4. Cardinality({y \in K : y <= x}) \in Nat BY <2>3, FS_CardinalityType
  <2> QED BY <2>1, <2>3, <2>4 DEF Rank
<1> QED BY <1>4, <1>5, <1>6 DEF Rank

\* The pairs that differ are finitely many.
LEMMA PairsAreFinite ==
  ASSUME NEW s, NEW t, NEW r \in Nat, NEW c \in Nat,
         NEW K \in SUBSET (1 .. r), NEW L \in SUBSET (1 .. c)
  PROVE  /\ IsFiniteSet(PairsApart(s, t, K, L))
         /\ Cardinality(PairsApart(s, t, K, L)) \in Nat
<1>1. IsFiniteSet(K) /\ IsFiniteSet(L) BY PositionsAreFinite
<1>2. IsFiniteSet(K \X L) BY <1>1, FS_Product
<1>3. PairsApart(s, t, K, L) \in SUBSET (K \X L) BY DEF PairsApart
<1>4. IsFiniteSet(PairsApart(s, t, K, L)) BY <1>2, <1>3, FS_Subset
<1> QED BY <1>4, FS_CardinalityType

\* The cost of an alignment is that of a part of it and one more.
Adds(total, part, one) == total = part + one

\* To keep the last letters of both costs what a substitution does.
LEMMA BothKept ==
  ASSUME NEW s, NEW t, NEW r \in Nat, r >= 1, NEW c \in Nat, c >= 1
  PROVE  \A K \in SUBSET (1 .. r - 1), L \in SUBSET (1 .. c - 1) :
           Cardinality(K) = Cardinality(L) =>
             /\ Cardinality(K \cup {r}) = Cardinality(L \cup {c})
             /\ Adds(PrefixCost(s, t, r, c, K \cup {r}, L \cup {c}),
                     PrefixCost(s, t, r - 1, c - 1, K, L), Cost(s[r], t[c]))
<1> SUFFICES ASSUME NEW K \in SUBSET (1 .. r - 1), NEW L \in SUBSET (1 .. c - 1),
                    Cardinality(K) = Cardinality(L)
             PROVE  /\ Cardinality(K \cup {r}) = Cardinality(L \cup {c})
                    /\ Adds(PrefixCost(s, t, r, c, K \cup {r}, L \cup {c}),
                            PrefixCost(s, t, r - 1, c - 1, K, L), Cost(s[r], t[c]))
  OBVIOUS
<1> DEFINE m == r - 1
           n == c - 1
<1>0. m \in Nat /\ r = m + 1 /\ n \in Nat /\ c = n + 1 OBVIOUS
<1> DEFINE KK == K \cup {r}
           LL == L \cup {c}
           old == PairsApart(s, t, K, L)
           new == PairsApart(s, t, KK, LL)
<1>1. /\ Cardinality(KK) = Cardinality(K) + 1
      /\ Rank(KK, r) = Cardinality(K) + 1
      /\ \A x \in K : /\ Rank(KK, x) = Rank(K, x)
                      /\ Rank(K, x) \in Nat /\ Rank(K, x) <= Cardinality(K)
  BY RankBehind
<1>2. /\ Cardinality(LL) = Cardinality(L) + 1
      /\ Rank(LL, c) = Cardinality(L) + 1
      /\ \A y \in L : /\ Rank(LL, y) = Rank(L, y)
                      /\ Rank(L, y) \in Nat /\ Rank(L, y) <= Cardinality(L)
  BY RankBehind
<1>3. Cardinality(K) \in Nat /\ Cardinality(L) \in Nat BY <1>0, PositionsAreFinite
<1>4. IsFiniteSet(old) /\ Cardinality(old) \in Nat BY <1>0, PairsAreFinite
<1>5. r \notin K /\ c \notin L OBVIOUS
<1>6. ASSUME NEW x \in KK, NEW y \in LL
      PROVE  << x, y >> \in new
               <=> << x, y >> \in old \/ (x = r /\ y = c /\ s[r] # t[c])
  <2>1. << x, y >> \in new <=> Rank(KK, x) = Rank(LL, y) /\ s[x] # t[y]
    BY DEF PairsApart
  <2>2. << x, y >> \in old
          <=> x \in K /\ y \in L /\ Rank(K, x) = Rank(L, y) /\ s[x] # t[y]
    BY DEF PairsApart
  <2>3. CASE x \in K /\ y \in L BY <1>1, <1>2, <1>5, <2>1, <2>2, <2>3
  <2>4. CASE x \in K /\ y = c
    <3>1. Rank(KK, x) <= Cardinality(K) /\ Rank(LL, y) = Cardinality(K) + 1
      BY <1>1, <1>2, <2>4
    <3>2. Rank(KK, x) # Rank(LL, y) BY <1>1, <1>3, <2>4, <3>1
    <3> QED BY <1>5, <2>1, <2>2, <2>4, <3>2
  <2>5. CASE x = r /\ y \in L
    <3>1. /\ Rank(LL, y) <= Cardinality(L) /\ Rank(LL, y) \in Nat
          /\ Rank(KK, x) = Cardinality(L) + 1
      BY <1>1, <1>2, <2>5
    <3>2. Rank(KK, x) # Rank(LL, y) BY <1>3, <3>1
    <3> QED BY <1>5, <2>1, <2>2, <2>5, <3>2
  <2>6. CASE x = r /\ y = c BY <1>1, <1>2, <1>5, <2>1, <2>2, <2>6
  <2> QED BY <2>3, <2>4, <2>5, <2>6
<1>7. /\ old \subseteq KK \X LL /\ new \subseteq KK \X LL
      /\ << r, c >> \in KK \X LL /\ << r, c >> \notin old
  BY <1>5 DEF PairsApart
<1>8. new = IF s[r] # t[c] THEN old \cup {<< r, c >>} ELSE old
  <2> HIDE DEF KK, LL, old, new
  <2>1. ASSUME NEW p \in KK \X LL
        PROVE  p \in new <=> p \in old \/ (p = << r, c >> /\ s[r] # t[c])
    <3>1. PICK x \in KK, y \in LL : p = << x, y >> OBVIOUS
    <3>2. p = << r, c >> <=> x = r /\ y = c BY <3>1
    <3> QED BY <1>6, <3>1, <3>2
  <2> QED BY <1>7, <2>1
<1>9. Cardinality(new) = Cardinality(old) + Cost(s[r], t[c])
  <2> HIDE DEF old, new
  <2>1. Cardinality(old \cup {<< r, c >>}) = Cardinality(old) + 1
    BY <1>4, <1>7, FS_AddElement
  <2> QED BY <1>4, <1>8, <2>1 DEF Cost
<1>10. Cost(s[r], t[c]) \in Nat BY DEF Cost
<1>11. (r - Cardinality(KK)) + (c - Cardinality(LL))
         = (m - Cardinality(K)) + (n - Cardinality(L))
  <2> HIDE DEF KK, LL
  <2> QED BY <1>1, <1>2, <1>3
<1> HIDE DEF KK, LL, old, new
<1>12. /\ PrefixCost(s, t, r, c, KK, LL)
            = (r - Cardinality(KK)) + (c - Cardinality(LL)) + Cardinality(new)
       /\ PrefixCost(s, t, m, n, K, L)
            = (m - Cardinality(K)) + (n - Cardinality(L)) + Cardinality(old)
  BY DEF PrefixCost, old, new
<1>13. PrefixCost(s, t, r, c, KK, LL)
         = PrefixCost(s, t, m, n, K, L) + Cost(s[r], t[c])
  BY <1>3, <1>4, <1>9, <1>10, <1>11, <1>12
<1>14. Cardinality(KK) = Cardinality(LL) BY <1>1, <1>2
<1>15. PrefixCost(s, t, m, n, K, L) = PrefixCost(s, t, r - 1, c - 1, K, L) OBVIOUS
<1> HIDE DEF m, n
<1> QED BY <1>13, <1>14, <1>15 DEF Adds, KK, LL

\* To delete the last letter, or insert it, costs one.
LEMMA OneLess ==
  ASSUME NEW s, NEW t, NEW r \in Nat, NEW c \in Nat,
         NEW K \in SUBSET (1 .. r), NEW L \in SUBSET (1 .. c)
  PROVE  /\ PrefixCost(s, t, r, c, K, L) \in Int
         /\ PrefixCost(s, t, r + 1, c, K, L) = PrefixCost(s, t, r, c, K, L) + 1
         /\ PrefixCost(s, t, r, c + 1, K, L) = PrefixCost(s, t, r, c, K, L) + 1
<1>1. Cardinality(K) \in Nat /\ Cardinality(L) \in Nat BY PositionsAreFinite
<1>2. Cardinality(PairsApart(s, t, K, L)) \in Nat BY PairsAreFinite
<1> QED BY <1>1, <1>2 DEF PrefixCost

\* A word without letters is made by insertions alone, or by deletions alone.
LEMMA NearestOfNothing ==
  ASSUME NEW s, NEW t, NEW n \in Nat
  PROVE  IsNearest(s, t, n, 0, n) /\ IsNearest(s, t, 0, n, n)
<1>1. 1 .. 0 = {} /\ SUBSET (1 .. 0) = {{}} OBVIOUS
<1>2. Cardinality({}) = 0 BY FS_EmptySet
<1>3. PairsApart(s, t, {}, {}) = {} BY DEF PairsApart
<1>4. PrefixCost(s, t, n, 0, {}, {}) = n /\ PrefixCost(s, t, 0, n, {}, {}) = n
  BY <1>2, <1>3 DEF PrefixCost
<1>5. \A K \in SUBSET (1 .. n) : Cardinality(K) = 0 => K = {}
  BY PositionsAreFinite, FS_EmptySet
<1>6. {} \in SUBSET (1 .. n) OBVIOUS
<1>7. IsNearest(s, t, n, 0, n)
  <2>1. \A K \in SUBSET (1 .. n) : \A L \in SUBSET (1 .. 0) :
          Cardinality(K) = Cardinality(L) => K = {} /\ L = {}
    BY <1>1, <1>2, <1>5
  <2>2. \A K \in SUBSET (1 .. n) : \A L \in SUBSET (1 .. 0) :
          Cardinality(K) = Cardinality(L) => PrefixCost(s, t, n, 0, K, L) >= n
    <3> SUFFICES ASSUME NEW K \in SUBSET (1 .. n), NEW L \in SUBSET (1 .. 0),
                        Cardinality(K) = Cardinality(L)
                 PROVE  PrefixCost(s, t, n, 0, K, L) >= n
      OBVIOUS
    <3>1. K = {} /\ L = {} BY <2>1
    <3>2. PrefixCost(s, t, n, 0, K, L) = n BY <1>4, <3>1
    <3> QED BY <3>2
  <2>3. \E K \in SUBSET (1 .. n) : \E L \in SUBSET (1 .. 0) :
          Cardinality(K) = Cardinality(L) /\ PrefixCost(s, t, n, 0, K, L) = n
    BY <1>1, <1>4, <1>6
  <2> QED BY <2>2, <2>3 DEF IsNearest
<1>8. IsNearest(s, t, 0, n, n)
  <2>1. \A K \in SUBSET (1 .. 0) : \A L \in SUBSET (1 .. n) :
          Cardinality(K) = Cardinality(L) => K = {} /\ L = {}
    BY <1>1, <1>2, <1>5
  <2>2. \A K \in SUBSET (1 .. 0) : \A L \in SUBSET (1 .. n) :
          Cardinality(K) = Cardinality(L) => PrefixCost(s, t, 0, n, K, L) >= n
    <3> SUFFICES ASSUME NEW K \in SUBSET (1 .. 0), NEW L \in SUBSET (1 .. n),
                        Cardinality(K) = Cardinality(L)
                 PROVE  PrefixCost(s, t, 0, n, K, L) >= n
      OBVIOUS
    <3>1. K = {} /\ L = {} BY <2>1
    <3>2. PrefixCost(s, t, 0, n, K, L) = n BY <1>4, <3>1
    <3> QED BY <3>2
  <2>3. \E K \in SUBSET (1 .. 0) : \E L \in SUBSET (1 .. n) :
          Cardinality(K) = Cardinality(L) /\ PrefixCost(s, t, 0, n, K, L) = n
    BY <1>1, <1>4, <1>6
  <2> QED BY <2>2, <2>3 DEF IsNearest
<1> QED BY <1>7, <1>8

\* v is the least of three numbers.
IsLeast(v, a, b, c) == v \in {a, b, c} /\ v <= a /\ v <= b /\ v <= c

\* The distance of longer beginnings is the least of an insertion, a deletion
\* and a substitution: the recurrence levenshtein_distance computes by.
LEMMA NearestStep ==
  ASSUME NEW s, NEW t, NEW r \in Nat, r >= 1, NEW c \in Nat, c >= 1,
         NEW a, IsNearest(s, t, r, c - 1, a),
         NEW b, IsNearest(s, t, r - 1, c, b),
         NEW d, IsNearest(s, t, r - 1, c - 1, d),
         NEW v, IsLeast(v, a + 1, b + 1, d + Cost(s[r], t[c]))
  PROVE  IsNearest(s, t, r, c, v)
<1> DEFINE Rows == SUBSET (1 .. r)
           Cols == SUBSET (1 .. c)
           Rows1 == SUBSET (1 .. r - 1)
           Cols1 == SUBSET (1 .. c - 1)
           cost == Cost(s[r], t[c])
           P(m, n, K, L) == PrefixCost(s, t, m, n, K, L)
<1>1. r - 1 \in Nat /\ c - 1 \in Nat /\ (r - 1) + 1 = r /\ (c - 1) + 1 = c OBVIOUS
<1>2. cost \in Nat BY DEF Cost
<1>3. Rows1 \subseteq Rows /\ Cols1 \subseteq Cols OBVIOUS
<1>4. /\ a \in Nat /\ b \in Nat /\ d \in Nat
      /\ v \in {a + 1, b + 1, d + cost} /\ v <= a + 1 /\ v <= b + 1 /\ v <= d + cost
  BY DEF IsNearest, IsLeast
<1>5. v \in Nat BY <1>2, <1>4
<1>6. \A K \in Rows, L \in Cols1 : P(r, c - 1, K, L) \in Int /\ P(r, c, K, L) = P(r, c - 1, K, L) + 1
  <2> TAKE K \in Rows, L \in Cols1
  <2>1. c - 1 \in Nat /\ K \in SUBSET (1 .. r) /\ L \in SUBSET (1 .. c - 1) BY <1>1
  <2>2. /\ P(r, c - 1, K, L) \in Int
        /\ P(r, (c - 1) + 1, K, L) = P(r, c - 1, K, L) + 1
    BY ONLY <2>1, r \in Nat, OneLess
  <2> QED BY <1>1, <2>2
<1>7. \A K \in Rows1, L \in Cols : P(r - 1, c, K, L) \in Int /\ P(r, c, K, L) = P(r - 1, c, K, L) + 1
  <2> TAKE K \in Rows1, L \in Cols
  <2>1. r - 1 \in Nat /\ K \in SUBSET (1 .. r - 1) /\ L \in SUBSET (1 .. c) BY <1>1
  <2>2. /\ P(r - 1, c, K, L) \in Int
        /\ P((r - 1) + 1, c, K, L) = P(r - 1, c, K, L) + 1
    BY ONLY <2>1, c \in Nat, OneLess
  <2> QED BY <1>1, <2>2
<1>8. \A K \in Rows1, L \in Cols1 :
        Cardinality(K) = Cardinality(L) =>
          /\ Cardinality(K \cup {r}) = Cardinality(L \cup {c})
          /\ Adds(P(r, c, K \cup {r}, L \cup {c}), P(r - 1, c - 1, K, L), cost)
  BY BothKept
<1>9. \A K \in Rows1, L \in Cols1 : P(r - 1, c - 1, K, L) \in Int
  <2> TAKE K \in Rows1, L \in Cols1
  <2>1. r - 1 \in Nat /\ c - 1 \in Nat /\ K \in SUBSET (1 .. r - 1) /\ L \in SUBSET (1 .. c - 1)
    BY <1>1
  <2> QED BY ONLY <2>1, OneLess
<1>10. \E K \in Rows : \E L \in Cols : Cardinality(K) = Cardinality(L) /\ P(r, c, K, L) = v
  <2>1. CASE v = a + 1
    <3>1. PICK K \in Rows : \E L \in Cols1 :
            Cardinality(K) = Cardinality(L) /\ P(r, c - 1, K, L) = a
      BY DEF IsNearest
    <3>2. PICK L \in Cols1 : Cardinality(K) = Cardinality(L) /\ P(r, c - 1, K, L) = a
      BY <3>1
    <3>3. L \in Cols BY <1>3
    <3>4. P(r, c, K, L) = v BY <1>6, <2>1, <3>2
    <3> QED BY <3>2, <3>3, <3>4
  <2>2. CASE v = b + 1
    <3>1. PICK K \in Rows1 : \E L \in Cols :
            Cardinality(K) = Cardinality(L) /\ P(r - 1, c, K, L) = b
      BY DEF IsNearest
    <3>2. PICK L \in Cols : Cardinality(K) = Cardinality(L) /\ P(r - 1, c, K, L) = b
      BY <3>1
    <3>3. K \in Rows BY <1>3
    <3>4. P(r, c, K, L) = v BY <1>7, <2>2, <3>2
    <3> QED BY <3>2, <3>3, <3>4
  <2>3. CASE v = d + cost
    <3>1. PICK K \in Rows1 : \E L \in Cols1 :
            Cardinality(K) = Cardinality(L) /\ P(r - 1, c - 1, K, L) = d
      BY DEF IsNearest
    <3>2. PICK L \in Cols1 : Cardinality(K) = Cardinality(L) /\ P(r - 1, c - 1, K, L) = d
      BY <3>1
    <3>3. K \cup {r} \in Rows /\ L \cup {c} \in Cols OBVIOUS
    <3> HIDE DEF P, cost
    <3>4. /\ P(r, c, K \cup {r}, L \cup {c}) = v
          /\ Cardinality(K \cup {r}) = Cardinality(L \cup {c})
      BY <1>8, <2>3, <3>2 DEF Adds
    <3> QED BY <3>3, <3>4
  <2> QED BY <1>4, <2>1, <2>2, <2>3
<1>11. ASSUME NEW K \in Rows, NEW L \in Cols, Cardinality(K) = Cardinality(L)
       PROVE  P(r, c, K, L) >= v
  <2>1. CASE c \notin L
    <3>1. L \in Cols1 BY <2>1
    <3>2. P(r, c - 1, K, L) >= a BY <1>11, <3>1 DEF IsNearest
    <3> HIDE DEF P, cost, Rows, Cols1
    <3>3. P(r, c - 1, K, L) \in Int /\ P(r, c, K, L) = P(r, c - 1, K, L) + 1 BY <1>6, <3>1
    <3> QED BY <1>4, <1>5, <3>2, <3>3
  <2>2. CASE r \notin K
    <3>1. K \in Rows1 BY <2>2
    <3>2. P(r - 1, c, K, L) >= b BY <1>11, <3>1 DEF IsNearest
    <3> HIDE DEF P, cost, Cols, Rows1
    <3>3. P(r - 1, c, K, L) \in Int /\ P(r, c, K, L) = P(r - 1, c, K, L) + 1 BY <1>7, <3>1
    <3> QED BY <1>4, <1>5, <3>2, <3>3
  <2>3. CASE c \in L /\ r \in K
    <3> DEFINE K0 == K \ {r}
               L0 == L \ {c}
    <3>1. K0 \in Rows1 /\ L0 \in Cols1 OBVIOUS
    <3>2. K0 \cup {r} = K /\ L0 \cup {c} = L BY <2>3
    <3>3. Cardinality(K0) = Cardinality(L0)
      <4>1. IsFiniteSet(K) /\ IsFiniteSet(L) BY PositionsAreFinite
      <4>2. Cardinality(K0) = Cardinality(K) - 1 BY <2>3, <4>1, FS_RemoveElement
      <4>3. Cardinality(L0) = Cardinality(L) - 1 BY <2>3, <4>1, FS_RemoveElement
      <4> QED BY <1>11, <4>2, <4>3
    <3> HIDE DEF K0, L0
    <3>4. P(r - 1, c - 1, K0, L0) >= d BY <3>1, <3>3 DEF IsNearest
    <3> HIDE DEF P, cost, Cols1, Rows1
    <3>5. P(r - 1, c - 1, K0, L0) \in Int BY <1>9, <3>1
    <3>6. P(r, c, K, L) = P(r - 1, c - 1, K0, L0) + cost BY <1>8, <3>1, <3>2, <3>3 DEF Adds
    <3> QED BY <1>2, <1>4, <1>5, <3>4, <3>5, <3>6
  <2> QED BY <2>1, <2>2, <2>3
<1> QED BY <1>5, <1>10, <1>11 DEF IsNearest

\* The least of a set of integers is its minimum.
LEMMA MinIs ==
  ASSUME NEW S \in SUBSET Int, NEW v \in S, \A x \in S : v <= x
  PROVE  Min(S) = v
<1> DEFINE m == CHOOSE x \in S : \A y \in S : x <= y
<1>1. m \in S /\ \A y \in S : m <= y OBVIOUS
<1>2. m = v
  <2> HIDE DEF m
  <2>1. m <= v /\ v <= m BY <1>1
  <2>2. m \in Int /\ v \in Int BY <1>1
  <2> QED BY <2>1, <2>2
<1> QED BY <1>2 DEF Min

\* The minimum of three numbers is the least of them.
LEMMA MinOfThree ==
  ASSUME NEW a \in Nat, NEW b \in Nat, NEW c \in Nat
  PROVE  IsLeast(Min({a, b, c}), a, b, c)
<1>1. PICK v \in {a, b, c} : v <= a /\ v <= b /\ v <= c
  <2>1. CASE a <= b /\ a <= c BY <2>1
  <2>2. CASE b <= a /\ b <= c BY <2>2
  <2>3. CASE c <= a /\ c <= b BY <2>3
  <2> QED BY <2>1, <2>2, <2>3
<1>2. {a, b, c} \in SUBSET Int /\ \A x \in {a, b, c} : v <= x BY <1>1
<1>3. Min({a, b, c}) = v BY <1>2, MinIs
<1> QED BY <1>1, <1>3 DEF IsLeast

\* The least cost of aligning two whole words is their edit distance.
LEMMA DistanceIs ==
  ASSUME NEW s \in Seq(Letter), NEW t \in Seq(Letter), NEW v,
         IsNearest(s, t, Len(s), Len(t), v)
  PROVE  EditDistance(s, t) = v /\ v \in Nat
<1> DEFINE Pairs == {q \in (SUBSET DOMAIN s) \X (SUBSET DOMAIN t) :
                       Cardinality(q[1]) = Cardinality(q[2])}
           costs == {AlignmentCost(s, t, p[1], p[2]) : p \in Pairs}
<1>1. /\ Len(s) \in Nat /\ DOMAIN s = 1 .. Len(s)
      /\ Len(t) \in Nat /\ DOMAIN t = 1 .. Len(t)
  OBVIOUS
<1>2. \A K, L : AlignmentCost(s, t, K, L) = PrefixCost(s, t, Len(s), Len(t), K, L)
  BY DEF AlignmentCost, PrefixCost, PairsApart
<1>3. /\ v \in Nat
      /\ \E K \in SUBSET (1 .. Len(s)) : \E L \in SUBSET (1 .. Len(t)) :
           Cardinality(K) = Cardinality(L) /\ PrefixCost(s, t, Len(s), Len(t), K, L) = v
      /\ \A K \in SUBSET (1 .. Len(s)) : \A L \in SUBSET (1 .. Len(t)) :
           Cardinality(K) = Cardinality(L) => PrefixCost(s, t, Len(s), Len(t), K, L) >= v
  BY DEF IsNearest
<1>4. ASSUME NEW x \in costs PROVE x \in Int /\ v <= x
  <2>1. PICK p \in Pairs : x = AlignmentCost(s, t, p[1], p[2]) OBVIOUS
  <2> DEFINE K == p[1]
             L == p[2]
  <2>2. /\ K \in SUBSET (1 .. Len(s)) /\ L \in SUBSET (1 .. Len(t))
        /\ Cardinality(K) = Cardinality(L)
    BY <1>1
  <2>3. x = PrefixCost(s, t, Len(s), Len(t), K, L) BY <1>2, <2>1
  <2> HIDE DEF K, L
  <2>4. PrefixCost(s, t, Len(s), Len(t), K, L) \in Int BY <1>1, <2>2, OneLess
  <2>5. PrefixCost(s, t, Len(s), Len(t), K, L) >= v BY <1>3, <2>2
  <2> QED BY <1>3, <2>3, <2>4, <2>5
<1>5. v \in costs
  <2>1. PICK K \in SUBSET (1 .. Len(s)) : \E L \in SUBSET (1 .. Len(t)) :
          Cardinality(K) = Cardinality(L) /\ PrefixCost(s, t, Len(s), Len(t), K, L) = v
    BY <1>3
  <2>2. PICK L \in SUBSET (1 .. Len(t)) :
          Cardinality(K) = Cardinality(L) /\ PrefixCost(s, t, Len(s), Len(t), K, L) = v
    BY <2>1
  <2>3. << K, L >> \in Pairs BY <1>1, <2>2
  <2>4. v = AlignmentCost(s, t, << K, L >>[1], << K, L >>[2]) BY <1>2, <2>2
  <2> QED BY <2>3, <2>4
<1>6. EditDistance(s, t) = Min(costs) BY DEF EditDistance
<1> HIDE DEF costs
<1>7. Min(costs) = v BY <1>4, <1>5, MinIs
<1> QED BY <1>3, <1>6, <1>7

-----------------------------------------------------------------------------
(***************************************************************************)
(* Rows of the table.                                                      *)
(***************************************************************************)

\* What holds of 0 and is handed on holds up to n.
LEMMA UpwardInduction ==
  ASSUME NEW n \in Nat, NEW S, 0 \in S,
         \A j \in 0 .. n : j \in S /\ j + 1 <= n => j + 1 \in S
  PROVE  0 .. n \subseteq S
<1> SUFFICES ASSUME NEW b \in 0 .. n, b \notin S PROVE FALSE OBVIOUS
<1> DEFINE R == OpToRel(<, Nat)
           out == {j \in Nat : j <= n /\ j \notin S}
<1>1. IsWellFoundedOn(R, Nat) BY NatLessThanWellFounded
<1>2. out \subseteq Nat /\ out # {}
  <2>1. b \in out OBVIOUS
  <2> QED BY <2>1
<1>3. PICK p \in out : \A q \in out : ~ (<< q, p >> \in R)
  <2> HIDE DEF R, out
  <2> QED BY <1>1, <1>2, WFMin, Zenon
<1>4. \A q \in out : ~ (q < p) BY <1>3 DEF OpToRel
<1>5. p \in Nat /\ p <= n /\ p \notin S /\ p # 0 OBVIOUS
<1>6. p - 1 \in 0 .. n /\ p - 1 < p /\ (p - 1) + 1 = p BY <1>5
<1>7. p - 1 \in S BY <1>4, <1>6
<1> QED BY <1>5, <1>6, <1>7

\* What the row f of the r-th letter of s, behind the row prev, holds at j.
Entry(f, s, t, prev, r, j) ==
  IF j = 0 THEN r
  ELSE Min({f[j - 1] + 1, prev[j] + 1, prev[j - 1] + Cost(s[r], t[j])})

\* f is that row.
IsRow(f, s, t, prev, r) == f = [j \in 0 .. Len(t) |-> Entry(f, s, t, prev, r, j)]

\* There is such a row.
LEMMA RowExists ==
  ASSUME NEW s, NEW t \in Seq(Letter), NEW r \in Nat, NEW prev,
         \A j \in 0 .. Len(t) : prev[j] \in Nat
  PROVE  \E f : IsRow(f, s, t, prev, r)
<1> DEFINE n == Len(t)
           entry(f, j) == Entry(f, s, t, prev, r, j)
           S == {m \in 0 .. n : \E f \in [0 .. n -> Nat] : \A j \in 0 .. m : f[j] = entry(f, j)}
<1>1. n \in Nat OBVIOUS
<1>2. 0 \in S
  <2> DEFINE f == [j \in 0 .. n |-> r]
  <2>1. f \in [0 .. n -> Nat] OBVIOUS
  <2>2. \A j \in 0 .. 0 : f[j] = entry(f, j) BY <1>1 DEF Entry
  <2>3. 0 \in 0 .. n BY <1>1
  <2> HIDE DEF f, entry
  <2> QED BY <2>1, <2>2, <2>3
<1>3. ASSUME NEW m \in 0 .. n, m \in S, m + 1 <= n PROVE m + 1 \in S
  <2>1. PICK f \in [0 .. n -> Nat] : \A j \in 0 .. m : f[j] = entry(f, j) BY <1>3
  <2> DEFINE v == entry(f, m + 1)
             g == [f EXCEPT ![m + 1] = v]
  <2>2. m + 1 \in 0 .. n /\ m + 1 # 0 /\ (m + 1) - 1 = m BY <1>1, <1>3
  <2>3. v \in Nat
    <3>1. /\ f[m] + 1 \in Nat /\ prev[m + 1] + 1 \in Nat
          /\ prev[m] + Cost(s[r], t[m + 1]) \in Nat
      BY <2>2 DEF Cost
    <3> DEFINE a == f[m] + 1
               b == prev[m + 1] + 1
               c == prev[m] + Cost(s[r], t[m + 1])
    <3>2. v = Min({a, b, c}) BY <2>2 DEF Entry
    <3>3. a \in Nat /\ b \in Nat /\ c \in Nat BY <3>1
    <3> HIDE DEF a, b, c, v
    <3>4. Min({a, b, c}) \in {a, b, c} BY <3>3, MinOfThree DEF IsLeast
    <3> QED BY <3>2, <3>3, <3>4
  <2>4. g \in [0 .. n -> Nat]
    <3> HIDE DEF v
    <3> QED BY <2>3
  <2>5. g[m + 1] = v /\ \A j \in 0 .. n : j # m + 1 => g[j] = f[j]
    <3> HIDE DEF v
    <3> QED BY <2>2
  <2> HIDE DEF g
  <2>6. ASSUME NEW j \in 0 .. m + 1 PROVE g[j] = entry(g, j)
    <3>1. j # 0 => j - 1 \in 0 .. n /\ j - 1 # m + 1 BY <2>2
    <3>2. j # 0 => g[j - 1] = f[j - 1] BY <2>5, <3>1
    <3>3. entry(g, j) = entry(f, j)
      <4>1. CASE j = 0 BY <4>1 DEF Entry
      <4>2. CASE j # 0
        <5>1. g[j - 1] = f[j - 1] BY <3>2, <4>2
        <5> QED BY <4>2, <5>1 DEF Entry
      <4> QED BY <4>1, <4>2
    <3>4. CASE j = m + 1 BY <2>5, <3>3, <3>4
    <3>5. CASE j # m + 1
      <4>1. j \in 0 .. m /\ j \in 0 .. n BY <2>2, <3>5
      <4>2. g[j] = f[j] /\ f[j] = entry(f, j) BY <2>1, <2>5, <3>5, <4>1
      <4> QED BY <3>3, <4>2
    <3> QED BY <3>4, <3>5
  <2> QED BY <2>2, <2>4, <2>6
<1> HIDE DEF S
<1>4. 0 .. n \subseteq S BY <1>1, <1>2, <1>3, UpwardInduction
<1>5. n \in S BY <1>1, <1>4
<1>6. PICK f \in [0 .. n -> Nat] : \A j \in 0 .. n : f[j] = entry(f, j) BY <1>5 DEF S
<1>7. f = [j \in 0 .. n |-> entry(f, j)]
  <2> HIDE DEF entry
  <2> QED BY <1>6
<1> QED BY <1>7 DEF IsRow

\* The row behind one of distances is one of distances.
LEMMA RowOfDistances ==
  ASSUME NEW s, NEW t \in Seq(Letter), NEW r \in Nat, r >= 1, NEW prev,
         \A j \in 0 .. Len(t) : IsNearest(s, t, r - 1, j, prev[j]),
         NEW f, IsRow(f, s, t, prev, r)
  PROVE  \A j \in 0 .. Len(t) : IsNearest(s, t, r, j, f[j])
<1> DEFINE n == Len(t)
           S == {j \in 0 .. n : IsNearest(s, t, r, j, f[j])}
<1>1. n \in Nat OBVIOUS
<1>2. \A j \in 0 .. n : f[j] = Entry(f, s, t, prev, r, j) BY DEF IsRow
<1>3. 0 \in S
  <2>1. 0 \in 0 .. n BY <1>1
  <2>2. Entry(f, s, t, prev, r, 0) = r BY DEF Entry
  <2>3. f[0] = r BY <1>2, <2>1, <2>2
  <2> QED BY <2>1, <2>3, NearestOfNothing
<1>4. ASSUME NEW j \in 0 .. n, j \in S, j + 1 <= n PROVE j + 1 \in S
  <2> DEFINE c == j + 1
             a == f[j]
             b == prev[c]
             d == prev[j]
             cost == Cost(s[r], t[c])
  <2>1. c \in Nat /\ c \in 0 .. n /\ c >= 1 /\ c - 1 = j BY <1>1, <1>4
  <2>2. IsNearest(s, t, r, c - 1, a) BY <1>4, <2>1
  <2>3. IsNearest(s, t, r - 1, c, b) BY <2>1
  <2>4. IsNearest(s, t, r - 1, c - 1, d) BY <2>1
  <2>5. cost \in Nat BY DEF Cost
  <2>6. f[c] = Min({a + 1, b + 1, d + cost})
    <3> HIDE DEF c
    <3>1. f[c] = Entry(f, s, t, prev, r, c) /\ c # 0 BY <1>2, <2>1
    <3> QED BY <2>1, <3>1 DEF Entry
  <2>7. cost = Cost(s[r], t[c]) OBVIOUS
  <2> HIDE DEF a, b, d, cost, c
  <2>8. a + 1 \in Nat /\ b + 1 \in Nat /\ d + cost \in Nat
    BY <2>2, <2>3, <2>4, <2>5 DEF IsNearest
  <2>9. IsLeast(f[c], a + 1, b + 1, d + cost) BY <2>6, <2>8, MinOfThree
  <2>10. IsNearest(s, t, r, c, f[c])
    BY <2>1, <2>2, <2>3, <2>4, <2>7, <2>9, NearestStep
  <2>11. c \in S BY <2>1, <2>10
  <2> QED BY <2>11 DEF c
<1> HIDE DEF S
<1>5. 0 .. n \subseteq S BY <1>1, <1>3, <1>4, UpwardInduction
<1> QED BY <1>5 DEF S

-----------------------------------------------------------------------------
(***************************************************************************)
(* The suggestion.                                                         *)
(***************************************************************************)

\* While levenshtein_distance runs, the row holds the distances of the first
\* i - 1 letters of the word from the beginnings of the candidate.
RowInv ==
  /\ input \in Inputs
  /\ k \in 1 .. Len(Candidates) + 1
  /\ i \in Nat
  /\ i # 0 => /\ Looking
              /\ s1 # << >> /\ s2 # << >>
              /\ i \in 1 .. Len(s1) + 1
              /\ \A j \in 0 .. Len(s2) : IsNearest(s1, s2, i - 1, j, d0[j])

\* match is the first of the nearest among the candidates before n, at that
\* distance; it is null if they are all too far away.
BestOf(word, n, match, distance) ==
  LET near(m) == EditDistance(word, Candidates[m])
  IN  /\ \A m \in 1 .. n - 1 : near(m) \in Nat
      /\ \/ /\ \A m \in 1 .. n - 1 : near(m) > MaxDistance
            /\ match = Null /\ distance = MaxDistance + 1
         \/ /\ match \in 1 .. n - 1
            /\ distance = near(match) /\ distance <= MaxDistance
            /\ \A m \in 1 .. n - 1 : near(m) >= distance
            /\ \A m \in 1 .. match - 1 : near(m) > distance

BestInv == BestOf(input, k, best_match, best_distance)

SuggestInv == RowInv /\ BestInv

\* One more candidate, at distance v, replaces the best if it is nearer.
LEMMA BestStep ==
  ASSUME NEW word, NEW n \in Nat, n >= 1, NEW match, NEW distance,
         BestOf(word, n, match, distance),
         NEW v \in Nat, v = EditDistance(word, Candidates[n])
  PROVE  BestOf(word, n + 1, IF v < distance THEN n ELSE match,
                IF v < distance THEN v ELSE distance)
<1> DEFINE near(m) == EditDistance(word, Candidates[m])
<1>1. /\ \A m \in 1 .. n - 1 : near(m) \in Nat
      /\ \/ /\ \A m \in 1 .. n - 1 : near(m) > MaxDistance
            /\ match = Null /\ distance = MaxDistance + 1
         \/ /\ match \in 1 .. n - 1
            /\ distance = near(match) /\ distance <= MaxDistance
            /\ \A m \in 1 .. n - 1 : near(m) >= distance
            /\ \A m \in 1 .. match - 1 : near(m) > distance
  BY DEF BestOf
<1>2. near(n) = v OBVIOUS
<1>3. (n + 1) - 1 = n /\ 1 .. n = (1 .. n - 1) \cup {n} /\ n \in 1 .. n OBVIOUS
<1>4. MaxDistance \in Nat BY MaxDistanceAssumption
<1> HIDE DEF near
<1>5. \A m \in 1 .. n : near(m) \in Nat BY <1>1, <1>2, <1>3
<1>6. distance \in Nat /\ distance <= MaxDistance + 1
      /\ \A m \in 1 .. n - 1 : near(m) >= distance
  <2>1. CASE /\ \A m \in 1 .. n - 1 : near(m) > MaxDistance
             /\ match = Null /\ distance = MaxDistance + 1
    BY <1>1, <1>4, <2>1
  <2>2. CASE /\ match \in 1 .. n - 1
             /\ distance = near(match) /\ distance <= MaxDistance
             /\ \A m \in 1 .. n - 1 : near(m) >= distance
    BY <1>1, <1>4, <2>2
  <2> QED BY <1>1, <2>1, <2>2
<1>7. CASE v < distance
  <2>1. n \in 1 .. n /\ v = near(n) /\ v <= MaxDistance BY <1>2, <1>4, <1>6, <1>7
  <2>2. ASSUME NEW m \in 1 .. n - 1 PROVE near(m) > v
    <3>1. near(m) \in Nat /\ near(m) >= distance BY <1>1, <1>6
    <3> QED BY <1>6, <1>7, <3>1
  <2>3. \A m \in 1 .. n : near(m) >= v BY <1>2, <1>3, <1>5, <2>2
  <2>4. BestOf(word, n + 1, n, v) BY <1>3, <1>5, <2>1, <2>2, <2>3 DEF BestOf, near
  <2> QED BY <1>7, <2>4
<1>8. CASE ~ (v < distance)
  <2>1. v >= distance BY <1>6, <1>8
  <2>2. BestOf(word, n + 1, match, distance)
    <3>1. CASE /\ \A m \in 1 .. n - 1 : near(m) > MaxDistance
               /\ match = Null /\ distance = MaxDistance + 1
      <4>1. \A m \in 1 .. n : near(m) > MaxDistance BY <1>2, <1>3, <1>4, <2>1, <3>1
      <4> QED BY <1>3, <1>5, <3>1, <4>1 DEF BestOf, near
    <3>2. CASE /\ match \in 1 .. n - 1
               /\ distance = near(match) /\ distance <= MaxDistance
               /\ \A m \in 1 .. n - 1 : near(m) >= distance
               /\ \A m \in 1 .. match - 1 : near(m) > distance
      <4>1. \A m \in 1 .. n : near(m) >= distance BY <1>2, <1>3, <2>1, <3>2
      <4>2. match \in 1 .. n BY <1>3, <3>2
      <4> QED BY <1>3, <1>5, <3>2, <4>1, <4>2 DEF BestOf, near
    <3> QED BY <1>1, <3>1, <3>2
  <2> QED BY <1>8, <2>2
<1> QED BY <1>7, <1>8

\* The word and the candidate looked at are words.
LEMMA WordsAre ==
  ASSUME RowInv
  PROVE  /\ s1 \in Seq(Letter) /\ Len(s1) \in Nat /\ (s1 = << >> <=> Len(s1) = 0)
         /\ Looking => /\ s2 \in Seq(Letter) /\ Len(s2) \in Nat
                       /\ s2 = << >> <=> Len(s2) = 0
                       /\ k \in Nat /\ k >= 1
<1>1. Len(Candidates) \in Nat /\ Inputs \subseteq Seq(Letter)
      /\ \A m \in 1 .. Len(Candidates) : Candidates[m] \in Seq(Letter)
  BY WordAssumption
<1>2. s1 \in Seq(Letter) BY <1>1 DEF RowInv, s1
<1>3. Looking => s2 \in Seq(Letter) /\ k \in Nat /\ k >= 1
  <2>1. Looking => k \in 1 .. Len(Candidates) BY <1>1 DEF RowInv, Looking
  <2> QED BY <1>1, <2>1 DEF s2
<1> QED BY <1>2, <1>3

\* What the function returns is the edit distance.
LEMMA DistOfReturn ==
  ASSUME RowInv, Returns
  PROVE  dist \in Nat /\ dist = EditDistance(s1, s2)
<1>1. Looking /\ s1 \in Seq(Letter) /\ s2 \in Seq(Letter)
      /\ Len(s1) \in Nat /\ Len(s2) \in Nat
      /\ (s1 = << >> <=> Len(s1) = 0) /\ (s2 = << >> <=> Len(s2) = 0)
  BY WordsAre DEF Returns
<1>2. IsNearest(s1, s2, Len(s1), Len(s2), dist)
  <2>1. CASE s1 = << >>
    <3>1. Len(s1) = 0 /\ dist = Len(s2) BY <1>1, <2>1 DEF dist
    <3> QED BY <1>1, <3>1, NearestOfNothing
  <2>2. CASE s1 # << >> /\ s2 = << >>
    <3>1. Len(s2) = 0 /\ dist = Len(s1) BY <1>1, <2>2 DEF dist
    <3> QED BY <1>1, <3>1, NearestOfNothing
  <2>3. CASE s1 # << >> /\ s2 # << >>
    <3>1. i = Len(s1) + 1 BY <2>3 DEF Returns
    <3>2. i # 0 /\ i - 1 = Len(s1) BY <1>1, <3>1
    <3>3. \A j \in 0 .. Len(s2) : IsNearest(s1, s2, i - 1, j, d0[j]) BY <3>2 DEF RowInv
    <3>4. Len(s2) \in 0 .. Len(s2) BY <1>1
    <3>5. dist = d0[Len(s2)] BY <2>3 DEF dist
    <3> QED BY <3>2, <3>3, <3>4, <3>5
  <2> QED BY <2>1, <2>2, <2>3
<1> QED BY <1>1, <1>2, DistanceIs

\* SuggestInv holds initially and every step preserves it.
LEMMA SuggestInvIsInvariant == Spec => []SuggestInv
<1>1. Init => SuggestInv
  <2> SUFFICES ASSUME Init PROVE SuggestInv OBVIOUS
  <2>1. Len(Candidates) \in Nat BY WordAssumption
  <2>2. RowInv BY <2>1 DEF Init, RowInv
  <2>3. BestInv
    <3>1. 1 .. 1 - 1 = {} OBVIOUS
    <3> QED BY <3>1 DEF Init, BestInv, BestOf
  <2> QED BY <2>2, <2>3 DEF SuggestInv
<1>2. SuggestInv /\ [Next]_vars => SuggestInv'
  <2> SUFFICES ASSUME SuggestInv, [Next]_vars PROVE SuggestInv' OBVIOUS
  <2>0. RowInv /\ BestInv BY DEF SuggestInv
  <2>1. CASE FirstRow
    <3>1. /\ Looking /\ s1 # << >> /\ s2 # << >>
          /\ d0' = [j \in 0 .. Len(s2) |-> j]
          /\ i' = 1 /\ UNCHANGED << input, k, best_distance, best_match >>
      BY <2>1 DEF FirstRow
    <3>2. s1' = s1 /\ s2' = s2 /\ Looking' = Looking BY <3>1 DEF s1, s2, Looking
    <3>3. Len(s1) \in Nat /\ Len(s1) # 0 /\ Len(s2) \in Nat BY <2>0, <3>1, WordsAre
    <3>4. ASSUME NEW j \in 0 .. Len(s2) PROVE IsNearest(s1, s2, 1 - 1, j, d0'[j])
      <4>1. d0'[j] = j /\ j \in Nat BY <3>1, <3>3
      <4> QED BY <4>1, NearestOfNothing
    <3>5. 1 \in 1 .. Len(s1) + 1 BY <3>3
    <3>6. RowInv' BY <2>0, <3>1, <3>2, <3>4, <3>5 DEF RowInv
    <3>7. BestInv' BY <2>0, <3>1 DEF BestInv, BestOf
    <3> QED BY <3>6, <3>7 DEF SuggestInv
  <2>2. CASE NextRow
    <3>1. /\ Looking /\ i \in 1 .. Len(s1)
          /\ d0' = Row(i)
          /\ i' = i + 1 /\ UNCHANGED << input, k, best_distance, best_match >>
      BY <2>2 DEF NextRow
    <3>2. s1' = s1 /\ s2' = s2 /\ Looking' = Looking BY <3>1 DEF s1, s2, Looking
    <3>3. Len(s1) \in Nat /\ Len(s2) \in Nat /\ s2 \in Seq(Letter) BY <2>0, <3>1, WordsAre
    <3>4. /\ i \in Nat /\ i >= 1 /\ i # 0 /\ i + 1 \in 1 .. Len(s1) + 1
          /\ (i + 1) - 1 = i /\ i + 1 # 0 /\ i + 1 \in Nat
      BY <3>1, <3>3
    <3>5. /\ s1 # << >> /\ s2 # << >>
          /\ \A j \in 0 .. Len(s2) : IsNearest(s1, s2, i - 1, j, d0[j])
      BY <2>0, <3>4 DEF RowInv
    <3>6. IsRow(Row(i), s1, s2, d0, i)
      <4>1. \A j \in 0 .. Len(s2) : d0[j] \in Nat BY <3>5 DEF IsNearest
      <4>2. \E f : IsRow(f, s1, s2, d0, i) BY <3>3, <3>4, <4>1, RowExists
      <4>3. IsRow(CHOOSE f : IsRow(f, s1, s2, d0, i), s1, s2, d0, i) BY <4>2
      <4>4. Row(i) = CHOOSE f : IsRow(f, s1, s2, d0, i) BY DEF Row, IsRow, Entry
      <4> QED BY <4>3, <4>4
    <3>7. \A j \in 0 .. Len(s2) : IsNearest(s1, s2, i, j, d0'[j])
      <4> DEFINE row == Row(i)
      <4>1. IsRow(row, s1, s2, d0, i) /\ d0' = row BY <3>1, <3>6
      <4> HIDE DEF row
      <4> QED BY <3>3, <3>4, <3>5, <4>1, RowOfDistances
    <3>8. RowInv' BY <2>0, <3>1, <3>2, <3>4, <3>5, <3>7 DEF RowInv
    <3>9. BestInv' BY <2>0, <3>1 DEF BestInv, BestOf
    <3> QED BY <3>8, <3>9 DEF SuggestInv
  <2>3. CASE Compare
    <3>1. /\ Returns /\ Looking
          /\ best_distance' = IF dist < best_distance THEN dist ELSE best_distance
          /\ best_match' = IF dist < best_distance THEN k ELSE best_match
          /\ k' = k + 1 /\ i' = 0 /\ input' = input
      BY <2>3 DEF Compare, Returns, Nearer
    <3>2. dist \in Nat /\ dist = EditDistance(s1, s2) BY <2>0, <3>1, DistOfReturn
    <3>3. k \in Nat /\ k >= 1 BY <2>0, <3>1, WordsAre
    <3>4. RowInv'
      <4>1. k + 1 \in 1 .. Len(Candidates) + 1 BY <2>0, <3>1, WordAssumption DEF RowInv, Looking
      <4> QED BY <2>0, <3>1, <4>1 DEF RowInv
    <3>5. BestInv'
      <4> DEFINE v == dist
      <4>1. v \in Nat /\ v = EditDistance(input, Candidates[k]) BY <3>2 DEF s1, s2
      <4>2. BestOf(input, k, best_match, best_distance) BY <2>0 DEF BestInv
      <4> HIDE DEF v
      <4>3. BestOf(input, k + 1, IF v < best_distance THEN k ELSE best_match,
                   IF v < best_distance THEN v ELSE best_distance)
        BY <3>3, <4>1, <4>2, BestStep
      <4>4. BestOf(input', k', best_match', best_distance') BY <3>1, <4>3 DEF v
      <4> QED BY <4>4 DEF BestInv, BestOf
    <3> QED BY <3>4, <3>5 DEF SuggestInv
  <2>4. CASE UNCHANGED vars
    <3>1. UNCHANGED << input, k, i, d0, best_distance, best_match >> BY <2>4 DEF vars
    <3>2. s1' = s1 /\ s2' = s2 /\ Looking' = Looking BY <3>1 DEF s1, s2, Looking
    <3>3. RowInv' BY <2>0, <3>1, <3>2 DEF RowInv
    <3>4. BestInv' BY <2>0, <3>1 DEF BestInv, BestOf
    <3> QED BY <3>3, <3>4 DEF SuggestInv
  <2> QED BY <2>1, <2>2, <2>3, <2>4 DEF Next, Suggested
<1> QED BY <1>1, <1>2, PTL DEF Spec

\* find_best_match returns the first of the commands nearest to the word by
\* edit distance, and none if all are further away than max_distance: for every
\* word and every list of commands.
THEOREM SuggestionIsNearestHolds == Spec => []SuggestionIsNearest
<1>1. SuggestInv => SuggestionIsNearest
  <2> SUFFICES ASSUME SuggestInv, ~ Looking PROVE SuggestionIsNearest
    BY DEF SuggestionIsNearest
  <2> DEFINE near(m) == EditDistance(input, Candidates[m])
  <2>1. /\ DOMAIN Candidates = 1 .. Len(Candidates) /\ Len(Candidates) \in Nat
        /\ MaxDistance \in Nat
    BY WordAssumption, MaxDistanceAssumption
  <2>2. k - 1 = Len(Candidates) BY <2>1 DEF SuggestInv, RowInv, Looking
  <2>3. /\ \A m \in DOMAIN Candidates : near(m) \in Nat
        /\ \/ /\ \A m \in DOMAIN Candidates : near(m) > MaxDistance
              /\ best_match = Null
           \/ /\ best_match \in DOMAIN Candidates
              /\ near(best_match) <= MaxDistance
              /\ \A m \in DOMAIN Candidates : near(m) >= near(best_match)
              /\ \A m \in 1 .. best_match - 1 : near(m) > near(best_match)
    BY <2>1, <2>2 DEF SuggestInv, BestInv, BestOf
  <2>4. best_match \in DOMAIN Candidates /\ near(best_match) <= MaxDistance
          => ~ \A m \in DOMAIN Candidates : near(m) > MaxDistance
    <3> HIDE DEF near
    <3> QED BY <2>1, <2>3
  <2> QED BY <2>3, <2>4 DEF SuggestionIsNearest
<1> QED BY <1>1, SuggestInvIsInvariant, PTL

=============================================================================
