---------------------------- MODULE PalletProofs ----------------------------
(***************************************************************************)
(* Proofs about the scanner of the command line: its index stays within    *)
(* argv and its pallet keeps its shape; it ends with success before the    *)
(* tests only when a word asked for that; a line of well-formed clauses is *)
(* read as its clauses mean; and the display shows what they ask for.      *)
(*                                                                         *)
(* The scanner sees words, the meaning is that of clauses.  The first part *)
(* says where each clause and each group of words lies in argv; the        *)
(* invariant ScanInv then places the scanner before a clause or a group,   *)
(* and says of all that was read before it what it has become.             *)
(***************************************************************************)
EXTENDS Pallet, WellFoundedInduction, TLAPS

-----------------------------------------------------------------------------
(* Flattened sequences *)

\* Induction over the naturals, with the property given as a set.
LEMMA Induction ==
  ASSUME NEW S, 0 \in S, \A n \in Nat : n \in S => n + 1 \in S
  PROVE  Nat \subseteq S
<1> SUFFICES ASSUME Nat \ S # {} PROVE FALSE OBVIOUS
<1> DEFINE R == OpToRel(<, Nat)
           missing == Nat \ S
<1>1. IsWellFoundedOn(R, Nat) BY NatLessThanWellFounded
<1>2. missing \subseteq Nat /\ missing # {} OBVIOUS
<1>3. PICK p \in missing : \A q \in missing : ~ (<< q, p >> \in R)
  <2> HIDE DEF R, missing
  <2> QED BY <1>1, <1>2, WFMin, Zenon
<1>4. \A q \in missing : ~ (q < p) BY <1>3 DEF OpToRel
<1>5. p \in Nat /\ p # 0 OBVIOUS
<1>6. p - 1 \in Nat /\ p - 1 < p BY <1>5
<1>7. p - 1 \in S BY <1>4, <1>6
<1> QED BY <1>6, <1>7

\* r is the first n sequences of ss one after the other, where the one at k
\* begins behind off[k].
IsFlat(ss, n, off, r) ==
  /\ off[1] = 0
  /\ off[n + 1] = Len(r)
  /\ \A k \in 1 .. n : /\ off[k + 1] = off[k] + Len(ss[k])
                       /\ off[k + 1] <= Len(r)
                       /\ \A j \in 1 .. Len(ss[k]) : r[off[k] + j] = ss[k][j]

\* One sequence more.
LEMMA OneMoreIsFlat ==
  ASSUME NEW E, NEW ss \in Seq(Seq(E)), NEW n \in 0 .. Len(ss) - 1,
         NEW off \in [1 .. n + 1 -> Nat], NEW r \in Seq(E), IsFlat(ss, n, off, r)
  PROVE  \E w \in [1 .. n + 2 -> Nat] : IsFlat(ss, n + 1, w, r \o ss[n + 1])
<1> DEFINE t == ss[n + 1]
           q == r \o t
           w == [k \in 1 .. n + 2 |-> IF k = n + 2 THEN Len(r) + Len(t) ELSE off[k]]
<1>1. /\ t \in Seq(E) /\ Len(r) \in Nat /\ Len(t) \in Nat
      /\ n \in Nat /\ n + 1 \in 1 .. Len(ss)
  OBVIOUS
<1>2. q \in Seq(E) /\ Len(q) = Len(r) + Len(t) BY <1>1
<1>3. \A j \in 1 .. Len(r) : q[j] = r[j] BY <1>1
<1>4. \A j \in 1 .. Len(t) : q[Len(r) + j] = t[j] BY <1>1
<1>5. w \in [1 .. n + 2 -> Nat]
  <2>1. \A k \in 1 .. n + 2 : k # n + 2 => k \in 1 .. n + 1 BY <1>1
  <2> QED BY <1>1, <2>1
<1>6. \A k \in 1 .. n + 1 : w[k] = off[k] /\ off[k] \in Nat BY <1>1
<1>7. w[n + 2] = Len(q) BY <1>1, <1>2
<1>8. off[n + 1] = Len(r) /\ off[1] = 0 BY DEF IsFlat
<1> HIDE DEF w, q
<1>9. ASSUME NEW k \in 1 .. n + 1
      PROVE  /\ w[k + 1] = w[k] + Len(ss[k])
             /\ w[k + 1] <= Len(q)
             /\ \A j \in 1 .. Len(ss[k]) : q[w[k] + j] = ss[k][j]
  <2>1. CASE k = n + 1
    <3>1. w[k] = Len(r) /\ w[k + 1] = Len(r) + Len(t) /\ ss[k] = t
      BY <1>1, <1>2, <1>6, <1>7, <1>8, <2>1
    <3> HIDE DEF t
    <3>2. w[k + 1] <= Len(q) BY <1>2, <3>1, <1>1
    <3>3. \A j \in 1 .. Len(ss[k]) : q[w[k] + j] = ss[k][j] BY <1>4, <3>1
    <3> QED BY <3>1, <3>2, <3>3
  <2>2. CASE k # n + 1
    <3>1. k \in 1 .. n /\ k + 1 \in 1 .. n + 1 BY <1>1, <2>2
    <3>2. /\ off[k + 1] = off[k] + Len(ss[k])
          /\ off[k + 1] <= Len(r)
          /\ \A j \in 1 .. Len(ss[k]) : r[off[k] + j] = ss[k][j]
      BY <3>1 DEF IsFlat
    <3>2a. off[k + 1] = off[k] + Len(ss[k]) /\ off[k + 1] <= Len(r) BY <3>2
    <3>3. ss[k] \in Seq(E) /\ Len(ss[k]) \in Nat BY <1>1, <3>1
    <3>4. w[k] = off[k] /\ w[k + 1] = off[k + 1] /\ off[k] \in Nat BY <1>6, <3>1
    <3>5. ASSUME NEW j \in 1 .. Len(ss[k]) PROVE q[w[k] + j] = ss[k][j]
      <4>0. j \in Nat /\ j >= 1 /\ j <= Len(ss[k]) BY <3>3
      <4>1. off[k] + j \in 1 .. Len(r)
        <5>3. off[k] + j <= Len(r)
          <6> DEFINE a == off[k]
                     b == Len(ss[k])
                     c == off[k + 1]
                     e == Len(r)
          <6>1. a \in Nat /\ b \in Nat /\ e \in Nat BY <1>1, <3>3, <3>4
          <6>2. c = a + b /\ c <= e /\ j \in Nat /\ j <= b BY <3>2a, <4>0
          <6> HIDE DEF a, b, c, e
          <6>3. a + j <= e BY ONLY <6>1, <6>2
          <6> QED BY <6>3 DEF a, e
        <5>4. off[k] + j >= 1 /\ off[k] + j \in Nat
          <6>1. off[k] \in Nat /\ j \in Nat /\ j >= 1 BY <3>4, <4>0
          <6> HIDE DEF t
          <6> QED BY ONLY <6>1
        <5> QED BY <1>1, <5>3, <5>4
      <4> QED BY <1>3, <3>2, <3>4, <4>1
    <3>6. w[k + 1] <= Len(q)
      <4>1. off[k + 1] \in Nat BY <3>1, <1>6
      <4>2. Len(r) <= Len(q) /\ Len(q) \in Nat /\ Len(r) \in Nat BY <1>1, <1>2
      <4>3. off[k + 1] <= Len(r) /\ w[k + 1] = off[k + 1] BY <3>2a, <3>4
      <4> DEFINE c == off[k + 1]
                 e == Len(r)
                 m == Len(q)
      <4>4. c \in Nat /\ e \in Nat /\ m \in Nat /\ c <= e /\ e <= m BY <4>1, <4>2, <4>3
      <4> HIDE DEF c, e, m
      <4>5. c <= m BY ONLY <4>4
      <4> QED BY <4>3, <4>5 DEF c, m
    <3> QED BY <3>2, <3>4, <3>5, <3>6
  <2> QED BY <2>1, <2>2
<1>10. IsFlat(ss, n + 1, w, q)
  <2>1. w[1] = 0 BY <1>1, <1>6, <1>8
  <2>2. w[n + 1 + 1] = Len(q) BY <1>1, <1>7
  <2> QED BY <1>9, <2>1, <2>2 DEF IsFlat
<1> QED BY <1>5, <1>10 DEF q, t

\* The function by recursion that FlattenSeq takes the last value of.
Flattens(f, ss) ==
  f = [i \in 1 .. Len(ss) |-> IF i = 1 THEN ss[i] ELSE f[i - 1] \o ss[i]]

\* The same of its first n values.
FlattensTo(f, ss, n) ==
  /\ f[1] = ss[1]
  /\ \A i \in 2 .. n : f[i] = f[i - 1] \o ss[i]

\* There is such a function.
LEMMA FlatteningExists ==
  ASSUME NEW E, NEW ss \in Seq(Seq(E)), Len(ss) # 0
  PROVE  \E f : Flattens(f, ss)
<1> DEFINE n == Len(ss)
           Exists(m) == m < n => \E f \in [1 .. m + 1 -> Seq(E)] : FlattensTo(f, ss, m + 1)
           S == {m \in Nat : Exists(m)}
<1>0. n \in Nat /\ n >= 1 /\ \A i \in 1 .. n : ss[i] \in Seq(E) OBVIOUS
<1> HIDE DEF n
<1>1. 0 \in S
  <2> DEFINE f == [i \in 1 .. 0 + 1 |-> ss[1]]
  <2>1. f \in [1 .. 0 + 1 -> Seq(E)] BY <1>0
  <2>2. FlattensTo(f, ss, 0 + 1) BY DEF FlattensTo
  <2> HIDE DEF f
  <2> QED BY <2>1, <2>2
<1>2. ASSUME NEW m \in Nat, Exists(m), m + 1 < n
      PROVE  \E f \in [1 .. m + 1 + 1 -> Seq(E)] : FlattensTo(f, ss, m + 1 + 1)
  <2>1. PICK f \in [1 .. m + 1 -> Seq(E)] : FlattensTo(f, ss, m + 1) BY <1>0, <1>2
  <2> DEFINE new == f[m + 1] \o ss[m + 2]
             g == [i \in 1 .. m + 1 + 1 |-> IF i = m + 2 THEN new ELSE f[i]]
  <2>2. ss[m + 2] \in Seq(E) /\ f[m + 1] \in Seq(E) BY <1>0, <1>2
  <2>3. new \in Seq(E) BY <2>2
  <2>4. new = f[m + 1] \o ss[m + 2] OBVIOUS
  <2> HIDE DEF new
  <2>5. \A i \in 1 .. m + 1 + 1 : i # m + 2 => i \in 1 .. m + 1 OBVIOUS
  <2>6. g \in [1 .. m + 1 + 1 -> Seq(E)] BY <2>3, <2>5
  <2>7. \A i \in 1 .. m + 1 : g[i] = f[i] OBVIOUS
  <2>8. g[m + 2] = new OBVIOUS
  <2> HIDE DEF g
  <2>9. FlattensTo(g, ss, m + 1 + 1)
    <3>1. g[1] = ss[1] BY <2>1, <2>7 DEF FlattensTo
    <3>2. ASSUME NEW i \in 2 .. m + 1 + 1 PROVE g[i] = g[i - 1] \o ss[i]
      <4>1. CASE i = m + 2
        <5>1. m + 1 \in 1 .. m + 1 /\ i - 1 = m + 1 BY <4>1
        <5> QED BY <2>4, <2>7, <2>8, <4>1, <5>1
      <4>2. CASE i # m + 2
        <5>1. i \in 2 .. m + 1 /\ i \in 1 .. m + 1 /\ i - 1 \in 1 .. m + 1 BY <4>2
        <5> QED BY <2>1, <2>7, <5>1 DEF FlattensTo
      <4> QED BY <4>1, <4>2
    <3> QED BY <3>1, <3>2 DEF FlattensTo
  <2> QED BY <2>6, <2>9
<1>2a. \A m \in Nat : Exists(m) => Exists(m + 1) BY <1>2
<1> HIDE DEF Exists
<1>2b. \A m \in Nat : m \in S => m + 1 \in S BY <1>2a
<1> USE DEF Exists
<1> HIDE DEF S
<1>3. Nat \subseteq S BY <1>1, <1>2b, Induction
<1>4. n - 1 \in S /\ n - 1 < n /\ n - 1 + 1 = n BY <1>0, <1>3
<1>5. \E f \in [1 .. n -> Seq(E)] : FlattensTo(f, ss, n) BY <1>4 DEF S
<1>6. PICK f \in [1 .. n -> Seq(E)] : FlattensTo(f, ss, n) BY <1>5
<1>7. ASSUME NEW i \in 1 .. n
      PROVE  f[i] = IF i = 1 THEN ss[i] ELSE f[i - 1] \o ss[i]
  <2>1. i # 1 => i \in 2 .. n OBVIOUS
  <2> QED BY <1>6, <2>1 DEF FlattensTo
<1>8. f = [i \in 1 .. n |-> IF i = 1 THEN ss[i] ELSE f[i - 1] \o ss[i]] BY <1>7
<1> QED BY <1>8 DEF Flattens, n

\* FlattenSeq puts the sequences one after the other.
LEMMA FlattenSeqIsFlat ==
  ASSUME NEW E, NEW ss \in Seq(Seq(E))
  PROVE  /\ FlattenSeq(ss) \in Seq(E)
         /\ \E off \in [1 .. Len(ss) + 1 -> Nat] : IsFlat(ss, Len(ss), off, FlattenSeq(ss))
<1>1. CASE Len(ss) = 0
  <2>1. FlattenSeq(ss) = ss /\ ss = << >> BY <1>1 DEF FlattenSeq
  <2> DEFINE off == [k \in 1 .. 0 + 1 |-> 0]
  <2>2. off \in [1 .. 0 + 1 -> Nat] /\ IsFlat(<< >>, 0, off, << >>) BY DEF IsFlat
  <2> HIDE DEF off
  <2> QED BY <1>1, <2>1, <2>2
<1>2. CASE Len(ss) # 0
  <2> DEFINE f == CHOOSE g : Flattens(g, ss)
             n == Len(ss)
             Flat(m) == m < n =>
                     /\ f[m + 1] \in Seq(E)
                     /\ \E off \in [1 .. m + 2 -> Nat] : IsFlat(ss, m + 1, off, f[m + 1])
             S == {m \in Nat : Flat(m)}
  <2>1. Flattens(f, ss) BY <1>2, FlatteningExists
  <2>2. FlattenSeq(ss) = f[n] BY <1>2 DEF FlattenSeq, Flattens
  <2>3. n \in Nat /\ n >= 1 /\ \A i \in 1 .. n : ss[i] \in Seq(E) BY <1>2
  <2> HIDE DEF f
  <2>4. \A i \in 1 .. n : f[i] = IF i = 1 THEN ss[i] ELSE f[i - 1] \o ss[i]
    BY <2>1 DEF Flattens
  <2> HIDE DEF n
  <2>5. 0 \in S
    <3>1. f[1] = ss[1] /\ ss[1] \in Seq(E) BY <2>3, <2>4
    <3> DEFINE off == [k \in 1 .. 2 |-> IF k = 1 THEN 0 ELSE Len(ss[1])]
    <3>2. off \in [1 .. 0 + 2 -> Nat] BY <3>1
    <3>3. IsFlat(ss, 0 + 1, off, f[1]) BY <3>1 DEF IsFlat
    <3> HIDE DEF off
    <3> QED BY <3>1, <3>2, <3>3
  <2>6. ASSUME NEW m \in Nat, Flat(m), m + 1 < n
        PROVE  /\ f[m + 1 + 1] \in Seq(E)
               /\ \E w \in [1 .. m + 1 + 2 -> Nat] :
                    IsFlat(ss, m + 1 + 1, w, f[m + 1 + 1])
    <3>1. f[m + 1] \in Seq(E) BY <2>3, <2>6
    <3>1a. \E off \in [1 .. m + 2 -> Nat] : IsFlat(ss, m + 1, off, f[m + 1])
      <4>1. m < n BY <2>3, <2>6
      <4> QED BY <2>6, <4>1
    <3>2. PICK off \in [1 .. m + 2 -> Nat] : IsFlat(ss, m + 1, off, f[m + 1]) BY <3>1a
    <3>3. f[m + 2] = f[m + 1] \o ss[m + 2] /\ ss[m + 2] \in Seq(E)
      <4>1. m + 2 \in 1 .. n /\ m + 2 # 1 /\ m + 2 - 1 = m + 1 BY <2>3, <2>6
      <4>2. PICK i \in 1 .. n : i = m + 2 /\ i # 1 /\ i - 1 = m + 1 BY <4>1
      <4>3. f[i] = f[i - 1] \o ss[i] /\ ss[i] \in Seq(E) BY <2>3, <2>4, <4>2
      <4> QED BY <4>2, <4>3
    <3>4. f[m + 2] \in Seq(E) BY <3>1, <3>3
    <3>5. m + 1 \in 0 .. Len(ss) - 1 BY <2>3, <2>6 DEF n
    <3>6. m + 1 + 1 = m + 2 /\ m + 1 + 2 = m + 3 /\ m + 2 + 1 = m + 3 OBVIOUS
    <3> DEFINE l == m + 1
    <3>7. /\ l \in 0 .. Len(ss) - 1 /\ off \in [1 .. l + 1 -> Nat]
          /\ f[l] \in Seq(E) /\ IsFlat(ss, l, off, f[l])
      BY <3>1, <3>2, <3>5, <3>6
    <3> HIDE DEF l
    <3>8. \E w \in [1 .. l + 2 -> Nat] : IsFlat(ss, l + 1, w, f[l] \o ss[l + 1])
      BY <3>7, OneMoreIsFlat
    <3> QED BY <3>3, <3>4, <3>6, <3>8 DEF l
  <2>6a. \A m \in Nat : Flat(m) => Flat(m + 1) BY <2>6
  <2> HIDE DEF Flat
  <2>6b. \A m \in Nat : m \in S => m + 1 \in S BY <2>6a
  <2> USE DEF Flat
  <2> HIDE DEF S
  <2>7. Nat \subseteq S BY <2>5, <2>6b, Induction
  <2>8. n - 1 \in S /\ n - 1 < n /\ n - 1 + 1 = n /\ n - 1 + 2 = n + 1 BY <2>3, <2>7
  <2>9. f[n] \in Seq(E) /\ \E off \in [1 .. n + 1 -> Nat] : IsFlat(ss, n, off, f[n])
    BY <2>8 DEF S
  <2> QED BY <2>2, <2>9 DEF n
<1> QED BY <1>1, <1>2
-----------------------------------------------------------------------------
(* The words of a line *)

\* Where FlattenSeq puts the elements of ss: behind the place Offsets(ss)[k].
Offsets(ss) ==
  CHOOSE off \in [1 .. Len(ss) + 1 -> Nat] : IsFlat(ss, Len(ss), off, FlattenSeq(ss))

\* There are such places.
LEMMA OffsetsAre ==
  ASSUME NEW E, NEW ss \in Seq(Seq(E))
  PROVE  /\ FlattenSeq(ss) \in Seq(E)
         /\ Offsets(ss) \in [1 .. Len(ss) + 1 -> Nat]
         /\ IsFlat(ss, Len(ss), Offsets(ss), FlattenSeq(ss))
<1> HIDE DEF IsFlat
<1>1. /\ FlattenSeq(ss) \in Seq(E)
      /\ \E off \in [1 .. Len(ss) + 1 -> Nat] : IsFlat(ss, Len(ss), off, FlattenSeq(ss))
  BY FlattenSeqIsFlat
<1> QED BY <1>1 DEF Offsets

\* The words of the clauses, the place of the command of clause k, and that of
\* the first word of its n-th group.
Clauses == [k \in DOMAIN line |-> WordsOf(line[k])]
Start(k) == Offsets(Clauses)[k] + 1
GroupStart(k, n) == Start(k) + 1 + Offsets(line[k].groups)[n]

\* A clause has a command and groups of words.
LEMMA LineShape ==
  ASSUME line \in Lines
  PROVE  /\ Len(line) \in Nat
         /\ DOMAIN line = 1 .. Len(line)
         /\ \A k \in DOMAIN line : /\ line[k].cmd \in STRING
                                   /\ line[k].groups \in Seq(Seq(STRING))
<1> DEFINE C == [cmd : STRING, groups : Seq(Seq(STRING))]
<1>1. line \in Seq(C) BY LinesAssumption
<1>2. \A c \in C : c.cmd \in STRING /\ c.groups \in Seq(Seq(STRING)) OBVIOUS
<1> HIDE DEF C
<1>3. /\ Len(line) \in Nat /\ DOMAIN line = 1 .. Len(line)
      /\ \A k \in DOMAIN line : line[k] \in C
  BY <1>1
<1> QED BY <1>2, <1>3

\* An element before a sequence.
LEMMA Prepended ==
  ASSUME NEW E, NEW e \in E, NEW w \in Seq(E)
  PROVE  /\ << e >> \o w \in Seq(E)
         /\ Len(<< e >> \o w) = Len(w) + 1
         /\ (<< e >> \o w)[1] = e
         /\ \A i \in 1 .. Len(w) : (<< e >> \o w)[i + 1] = w[i]
<1>1. << e >> \in Seq(E) OBVIOUS
<1>2. << e >> \o w \in Seq(E) BY <1>1
<1> QED BY <1>1, <1>2

\* A clause is read as its command and its groups.
LEMMA ClauseWords ==
  ASSUME line \in Lines, NEW k \in DOMAIN line
  PROVE  /\ WordsOf(line[k]) \in Seq(STRING)
         /\ Len(WordsOf(line[k])) = Len(FlattenSeq(line[k].groups)) + 1
         /\ WordsOf(line[k])[1] = line[k].cmd
         /\ \A i \in 1 .. Len(FlattenSeq(line[k].groups)) :
              WordsOf(line[k])[i + 1] = FlattenSeq(line[k].groups)[i]
<1> DEFINE w == FlattenSeq(line[k].groups)
           c == line[k].cmd
<1>1. w \in Seq(STRING) /\ c \in STRING BY LineShape, OffsetsAre
<1>2. WordsOf(line[k]) = << c >> \o w BY DEF WordsOf
<1> HIDE DEF w, c
<1> QED BY <1>1, <1>2, Prepended DEF w, c

\* The clauses of a line are its words, one after the other.
LEMMA ArgvIsFlat ==
  ASSUME line \in Lines
  PROVE  /\ argv \in Seq(STRING)
         /\ Clauses \in Seq(Seq(STRING))
         /\ Len(Clauses) = Len(line)
         /\ Offsets(Clauses) \in [1 .. Len(line) + 1 -> Nat]
         /\ IsFlat(Clauses, Len(line), Offsets(Clauses), argv)
<1>1. Clauses \in [1 .. Len(line) -> Seq(STRING)]
  BY LineShape, ClauseWords DEF Clauses
<1>2. Clauses \in Seq(Seq(STRING)) /\ Len(Clauses) = Len(line)
  BY <1>1, LineShape
<1>3. argv = FlattenSeq(Clauses) BY DEF argv, WordsOfLine, Clauses
<1> HIDE DEF Clauses, IsFlat
<1> QED BY <1>2, <1>3, OffsetsAre

\* argv is a sequence of words, whatever the state of the scan.
LEMMA ArgvIsWords ==
  ASSUME line \in Lines
  PROVE  /\ argv \in Seq(STRING)
         /\ Len(argv) \in Nat
         /\ DOMAIN argv = 1 .. Len(argv)
         /\ argc \in Nat
         /\ \A k \in 1 .. Len(argv) : Atoi(argv[k]) \in Int
<1>1. argv \in Seq(STRING) BY ArgvIsFlat
<1>2. \A k \in DOMAIN argv : Atoi(argv[k]) \in Int BY LinesAssumption DEF argv
<1> HIDE DEF argv
<1>3. Len(argv) \in Nat /\ DOMAIN argv = 1 .. Len(argv) BY <1>1
<1> QED BY <1>1, <1>2, <1>3 DEF argc

\* Clause k begins at Start(k) with its command.
LEMMA ClausePlaces ==
  ASSUME line \in Lines
  PROVE  /\ Start(1) = 1
         /\ Start(Len(line) + 1) = argc
         /\ \A k \in DOMAIN line :
              /\ Start(k) \in Nat /\ Start(k) >= 1 /\ Start(k) < Start(k + 1)
              /\ Start(k + 1) = Start(k) + Len(WordsOf(line[k]))
              /\ Start(k + 1) <= argc
              /\ \A i \in 1 .. Len(WordsOf(line[k])) :
                   argv[Start(k) + i - 1] = WordsOf(line[k])[i]
<1> DEFINE off == Offsets(Clauses)
<1>1. off \in [1 .. Len(line) + 1 -> Nat] /\ IsFlat(Clauses, Len(line), off, argv)
  BY ArgvIsFlat
<1>2. Len(line) \in Nat /\ DOMAIN line = 1 .. Len(line) BY LineShape
<1>3. argc \in Nat /\ argc = Len(argv) + 1 /\ Len(argv) \in Nat
  BY ArgvIsWords DEF argc
<1>4. \A k : Start(k) = off[k] + 1 BY DEF Start
<1> HIDE DEF off
<1>5. Start(1) = 1 /\ Start(Len(line) + 1) = argc
  <2>1. off[1] = 0 /\ off[Len(line) + 1] = Len(argv) BY <1>1 DEF IsFlat
  <2> QED BY <1>3, <1>4, <2>1
<1>6. ASSUME NEW k \in DOMAIN line
      PROVE  /\ Start(k) \in Nat /\ Start(k) >= 1 /\ Start(k) < Start(k + 1)
             /\ Start(k + 1) = Start(k) + Len(WordsOf(line[k]))
             /\ Start(k + 1) <= argc
             /\ \A i \in 1 .. Len(WordsOf(line[k])) :
                  argv[Start(k) + i - 1] = WordsOf(line[k])[i]
  <2> DEFINE w == WordsOf(line[k])
  <2>1. w \in Seq(STRING) /\ Len(w) = Len(FlattenSeq(line[k].groups)) + 1
    BY ClauseWords
  <2>2. Len(w) \in Nat /\ Len(w) >= 1
    <3>1. FlattenSeq(line[k].groups) \in Seq(STRING) BY LineShape, OffsetsAre
    <3> QED BY <2>1, <3>1
  <2>3. Clauses[k] = w BY DEF Clauses
  <2> HIDE DEF w
  <2>4. k \in 1 .. Len(line) /\ k \in 1 .. Len(line) + 1 /\ k + 1 \in 1 .. Len(line) + 1
    BY <1>2
  <2>5. off[k] \in Nat /\ off[k + 1] \in Nat BY <1>1, <2>4
  <2>6. /\ off[k + 1] = off[k] + Len(w)
        /\ off[k + 1] <= Len(argv)
        /\ \A i \in 1 .. Len(w) : argv[off[k] + i] = w[i]
    BY <1>1, <2>3, <2>4 DEF IsFlat
  <2>7. ASSUME NEW i \in 1 .. Len(w) PROVE argv[Start(k) + i - 1] = w[i]
    <3>1. Start(k) + i - 1 = off[k] + i BY <1>4, <2>2, <2>5
    <3> QED BY <2>6, <3>1
  <2>8. off[k + 1] = off[k] + Len(w) /\ off[k + 1] <= Len(argv) BY <2>6
  <2>9. Start(k) = off[k] + 1 /\ Start(k + 1) = off[k + 1] + 1 BY <1>4
  <2>10. /\ Start(k) \in Nat /\ Start(k) >= 1 /\ Start(k) < Start(k + 1)
         /\ Start(k + 1) = Start(k) + Len(w)
         /\ Start(k + 1) <= argc
    BY <1>3, <2>2, <2>5, <2>8, <2>9
  <2> QED BY <2>7, <2>10 DEF w
<1> QED BY <1>5, <1>6

\* The n-th group of clause k begins at GroupStart(k, n).
LEMMA GroupPlaces ==
  ASSUME line \in Lines, NEW k \in DOMAIN line
  PROVE  /\ argv[Start(k)] = line[k].cmd
         /\ GroupStart(k, 1) = Start(k) + 1
         /\ GroupStart(k, Len(line[k].groups) + 1) = Start(k + 1)
         /\ \A n \in DOMAIN line[k].groups :
              /\ GroupStart(k, n) \in Nat
              /\ GroupStart(k, n + 1) = GroupStart(k, n) + Len(line[k].groups[n])
              /\ GroupStart(k, n + 1) <= Start(k + 1)
              /\ \A j \in 1 .. Len(line[k].groups[n]) :
                   argv[GroupStart(k, n) + j - 1] = line[k].groups[n][j]
<1> DEFINE gs == line[k].groups
           flat == FlattenSeq(gs)
           off == Offsets(gs)
           w == WordsOf(line[k])
           s == Start(k)
           t == Start(k + 1)
<1>1. gs \in Seq(Seq(STRING)) BY LineShape
<1>2. /\ flat \in Seq(STRING)
      /\ off \in [1 .. Len(gs) + 1 -> Nat]
      /\ IsFlat(gs, Len(gs), off, flat)
  <2> HIDE DEF gs, IsFlat
  <2> QED BY <1>1, OffsetsAre
<1>3. /\ s \in Nat /\ s >= 1
      /\ t = s + Len(w)
      /\ \A i \in 1 .. Len(w) : argv[s + i - 1] = w[i]
  BY ClausePlaces
<1>4. Len(w) = Len(flat) + 1 /\ w[1] = line[k].cmd BY ClauseWords
<1>5. \A i \in 1 .. Len(flat) : w[i + 1] = flat[i] BY ClauseWords
<1>6. \A n : GroupStart(k, n) = s + 1 + off[n] BY DEF GroupStart
<1>7. Len(flat) \in Nat /\ Len(gs) \in Nat /\ DOMAIN gs = 1 .. Len(gs) BY <1>1, <1>2
<1> HIDE DEF gs, flat, off, w, s, t
<1>8. argv[s] = line[k].cmd
  <2>1. 1 \in 1 .. Len(w) /\ s + 1 - 1 = s BY <1>3, <1>4, <1>7
  <2> QED BY <1>3, <1>4, <2>1
<1>9. GroupStart(k, 1) = s + 1 BY <1>2, <1>3, <1>6 DEF IsFlat
<1>10. GroupStart(k, Len(gs) + 1) = t
  <2>1. off[Len(gs) + 1] = Len(flat) BY <1>2 DEF IsFlat
  <2>2. GroupStart(k, Len(gs) + 1) = s + 1 + off[Len(gs) + 1] BY <1>6
  <2> QED BY <1>3, <1>4, <1>7, <2>1, <2>2
<1>11. ASSUME NEW n \in DOMAIN gs
       PROVE  /\ GroupStart(k, n) \in Nat
              /\ GroupStart(k, n + 1) = GroupStart(k, n) + Len(gs[n])
              /\ GroupStart(k, n + 1) <= t
              /\ \A j \in 1 .. Len(gs[n]) : argv[GroupStart(k, n) + j - 1] = gs[n][j]
  <2>1. n \in 1 .. Len(gs) /\ n \in 1 .. Len(gs) + 1 /\ n + 1 \in 1 .. Len(gs) + 1
    BY <1>7
  <2>2. off[n] \in Nat /\ off[n + 1] \in Nat BY <1>2, <2>1
  <2>3. /\ off[n + 1] = off[n] + Len(gs[n])
        /\ off[n + 1] <= Len(flat)
        /\ \A j \in 1 .. Len(gs[n]) : flat[off[n] + j] = gs[n][j]
    BY <1>2, <2>1 DEF IsFlat
  <2>4. gs[n] \in Seq(STRING) /\ Len(gs[n]) \in Nat BY <1>1, <2>1
  <2>5. off[n + 1] = off[n] + Len(gs[n]) /\ off[n + 1] <= Len(flat) BY <2>3
  <2>6. GroupStart(k, n) = s + 1 + off[n] /\ GroupStart(k, n + 1) = s + 1 + off[n + 1]
    BY <1>6
  <2>7. ASSUME NEW j \in 1 .. Len(gs[n])
        PROVE  argv[GroupStart(k, n) + j - 1] = gs[n][j]
    <3>1. j \in Nat /\ j >= 1 /\ j <= Len(gs[n]) BY <2>4
    <3>2. off[n] + j \in 1 .. Len(flat) BY <1>7, <2>2, <2>4, <2>5, <3>1
    <3>3. w[off[n] + j + 1] = flat[off[n] + j] BY <1>5, <3>2
    <3>4. off[n] + j + 1 \in 1 .. Len(w) BY <1>4, <1>7, <2>2, <3>1, <3>2
    <3>5. argv[s + (off[n] + j + 1) - 1] = w[off[n] + j + 1] BY <1>3, <3>4
    <3>6. s + (off[n] + j + 1) - 1 = GroupStart(k, n) + j - 1
      <4>1. /\ GroupStart(k, n) = s + 1 + off[n]
            /\ s \in Nat /\ off[n] \in Nat /\ j \in Nat
        BY <1>3, <2>2, <2>6, <3>1
      <4> QED BY <4>1
    <3>7. flat[off[n] + j] = gs[n][j] BY <2>3
    <3> QED BY <3>3, <3>5, <3>6, <3>7
  <2>8. /\ GroupStart(k, n) \in Nat
        /\ GroupStart(k, n + 1) = GroupStart(k, n) + Len(gs[n])
        /\ GroupStart(k, n + 1) <= t
    <3> DEFINE a == off[n]
               b == off[n + 1]
               l == Len(gs[n])
               m == Len(flat)
    <3>1. s \in Nat /\ t = s + Len(w) /\ Len(w) = m + 1 BY <1>3, <1>4
    <3>2. a \in Nat /\ b \in Nat /\ l \in Nat /\ m \in Nat /\ b = a + l /\ b <= m
      BY <1>7, <2>2, <2>4, <2>5
    <3>3. GroupStart(k, n) = s + 1 + a /\ GroupStart(k, n + 1) = s + 1 + b BY <2>6
    <3> HIDE DEF a, b, l, m
    <3>4. s + 1 + a \in Nat /\ s + 1 + b = s + 1 + a + l /\ s + 1 + b <= s + (m + 1)
      BY <3>1, <3>2
    <3>5. t = s + (m + 1) BY <3>1
    <3> QED BY <3>3, <3>4, <3>5 DEF l
  <2> QED BY <2>7, <2>8
<1> QED BY <1>8, <1>9, <1>10, <1>11 DEF gs, s, t
-----------------------------------------------------------------------------
(* The shape of the pallet *)

\* The shape of the pallet and the types of its numbers and flags.
PalletOK ==
  /\ DOMAIN pallet = DOMAIN Zeroed
  /\ \A c \in DOMAIN Zeroed : DOMAIN pallet[c] = DOMAIN Zeroed[c]
  /\ pallet.run.repeat \in Int
  /\ pallet.shuffle.count \in Int
  /\ \A t \in Switches : pallet[t[1]][t[3]] \in BOOLEAN

PlacesOK ==
  /\ line \in Lines
  /\ pos \in 1 .. argc
  /\ cmd \in Parsed \cup {Null}
  /\ color \in BOOLEAN
  /\ theme \in Themes
  /\ status \in {"scanning", "returned", "success", "failure"}

\* The type invariant in two parts.
LEMMA TypeParts == TypeOK <=> PlacesOK /\ PalletOK
BY DEF TypeOK, PlacesOK, PalletOK

\* The defaults of a command leave the shape of its part alone.
LEMMA DefaultsKeepShape ==
  ASSUME PalletOK, NEW c \in Parsed
  PROVE  /\ c \in DOMAIN Zeroed
         /\ DOMAIN Defaults(c, pallet[c]) = DOMAIN Zeroed[c]
<1>1. CASE c = "run"
  BY <1>1 DEF PalletOK, Defaults, Zeroed
<1>2. CASE c = "filter"
  BY <1>2 DEF Defaults, Zeroed
<1>3. CASE c = "sort"
  BY <1>3 DEF Defaults, Zeroed
<1>4. CASE c = "shuffle"
  BY <1>4 DEF Defaults, Zeroed
<1>5. CASE c = "show"
  BY <1>5 DEF Defaults, Zeroed
<1>6. CASE c = "report"
  BY <1>6 DEF PalletOK, Defaults, Zeroed
<1>7. CASE c = "info"
  BY <1>7 DEF Defaults, Zeroed
<1> QED
  BY <1>1, <1>2, <1>3, <1>4, <1>5, <1>6, <1>7 DEF Parsed

\* Each step that changes the pallet keeps its shape.
LEMMA DefaultsKeepPallet ==
  ASSUME PalletOK, NEW c \in Parsed, BeginCommand(c)
  PROVE  PalletOK'
<1> DEFINE d == Defaults(c, pallet[c])
<1>1. pallet' = [pallet EXCEPT ![c] = d]
  BY DEF BeginCommand
<1>2. c \in DOMAIN Zeroed /\ DOMAIN d = DOMAIN Zeroed[c]
  BY DefaultsKeepShape
<1>3. c = "run" => d.repeat = 1 /\ d.fail_fast = FALSE
  <2>1. {"repeat", "fail_fast"} \subseteq DOMAIN pallet.run
    BY DEF PalletOK, Zeroed
  <2> QED
    BY <2>1 DEF Defaults
<1>4. c = "shuffle" => d.count = 0
  BY DEF Defaults
<1>5. c = "info" => d = Zeroed.info
  BY DEF Defaults
<1> HIDE DEF d
<1>6. DOMAIN pallet' = DOMAIN Zeroed
  BY <1>1 DEF PalletOK
<1>7. \A b \in DOMAIN Zeroed : pallet'[b] = IF b = c THEN d ELSE pallet[b]
  BY <1>1, <1>2 DEF PalletOK
<1>8. \A b \in DOMAIN Zeroed : DOMAIN pallet'[b] = DOMAIN Zeroed[b]
  BY <1>2, <1>7 DEF PalletOK
<1>9. pallet'.run.repeat \in Int
  BY <1>3, <1>7 DEF PalletOK, Zeroed
<1>10. pallet'.shuffle.count \in Int
  BY <1>4, <1>7 DEF PalletOK, Zeroed
<1>11. \A t \in Switches : pallet'[t[1]][t[3]] \in BOOLEAN
  <2> SUFFICES ASSUME NEW t \in Switches
               PROVE  pallet'[t[1]][t[3]] \in BOOLEAN
    OBVIOUS
  <2>1. pallet[t[1]][t[3]] \in BOOLEAN
    BY DEF PalletOK
  <2>2. t[1] \in {"run", "info"}
    BY DEF Switches
  <2>3. t[1] = c => d[t[3]] = FALSE
    BY <1>3, <1>5, <2>2 DEF Switches, Zeroed
  <2> QED
    BY <1>7, <2>1, <2>2, <2>3 DEF Zeroed
<1> QED
  BY <1>6, <1>8, <1>9, <1>10, <1>11 DEF PalletOK

\* One field of one part is assigned a value of the right type.
LEMMA AssignKeepsPallet ==
  ASSUME PalletOK,
         NEW c \in DOMAIN pallet, NEW field \in DOMAIN pallet[c], NEW v,
         pallet' = [pallet EXCEPT ![c][field] = v],
         c = "run" /\ field = "repeat" => v \in Int,
         c = "shuffle" /\ field = "count" => v \in Int,
         \A t \in Switches : t[1] = c /\ t[3] = field => v \in BOOLEAN
  PROVE  PalletOK'
<1>1. DOMAIN pallet' = DOMAIN Zeroed
  BY DEF PalletOK
<1>2. \A b \in DOMAIN Zeroed : DOMAIN pallet'[b] = DOMAIN Zeroed[b]
  BY DEF PalletOK
<1>3. \A b \in DOMAIN Zeroed : \A f \in DOMAIN Zeroed[b] :
        pallet'[b][f] = IF b = c /\ f = field THEN v ELSE pallet[b][f]
  BY DEF PalletOK
<1>4. pallet'.run.repeat \in Int
  BY <1>3 DEF PalletOK, Zeroed
<1>5. pallet'.shuffle.count \in Int
  BY <1>3 DEF PalletOK, Zeroed
<1>6. \A t \in Switches : pallet'[t[1]][t[3]] \in BOOLEAN
  <2> SUFFICES ASSUME NEW t \in Switches
               PROVE  pallet'[t[1]][t[3]] \in BOOLEAN
    OBVIOUS
  <2>1. pallet[t[1]][t[3]] \in BOOLEAN
    BY DEF PalletOK
  <2>2. t[1] \in DOMAIN Zeroed /\ t[3] \in DOMAIN Zeroed[t[1]]
    BY DEF Switches, Zeroed
  <2> QED
    BY <1>3, <2>1, <2>2
<1> QED
  BY <1>1, <1>2, <1>4, <1>5, <1>6 DEF PalletOK

-----------------------------------------------------------------------------
(* Type correctness *)

\* The index stays in argv, parsers nest one deep, and the pallet keeps its
\* fields, the numbers and flags among them of their type, for all command
\* lines.
THEOREM ScannerTypes == Spec => []TypeOK
<1>1. Init => TypeOK
  <2> SUFFICES ASSUME Init PROVE TypeOK
    OBVIOUS
  <2>1. PlacesOK
    BY ArgvIsWords DEF Init, PlacesOK, argc, Themes
  <2>2. PalletOK
    <3>1. \A t \in Switches : Zeroed[t[1]][t[3]] \in BOOLEAN
      <4>1. \A t \in Switches : Zeroed[t[1]][t[3]] = FALSE
        BY DEF Switches, Zeroed
      <4> QED
        BY <4>1, Zenon
    <3>2. Zeroed.run.repeat \in Int /\ Zeroed.shuffle.count \in Int
      BY DEF Zeroed
    <3>3. pallet = Zeroed
      BY DEF Init
    <3>4. PalletOK <=> /\ Zeroed.run.repeat \in Int /\ Zeroed.shuffle.count \in Int
                       /\ \A t \in Switches : Zeroed[t[1]][t[3]] \in BOOLEAN
      BY <3>3, Zenon DEF PalletOK
    <3> QED
      BY <3>1, <3>2, <3>4
  <2> QED
    BY <2>1, <2>2, TypeParts
<1>2. TypeOK /\ [Next]_vars => TypeOK'
  <2> SUFFICES ASSUME TypeOK, [Next]_vars PROVE TypeOK'
    OBVIOUS
  <2> USE TypeParts
  <2>0. line' = line
    BY DEF Next, vars, GlobalFlag, UnknownFlag, UnknownCommand, HelpCommand,
           ColorCommand, ThemeCommand, Return, BeginCommand, Option, TakeValue,
           SetSwitch, SubHelp, IgnoreWord, EndCommand, Halted, Exit
  <2>1. argv' = argv /\ argc' = argc
    BY <2>0 DEF argv, argc
  <2>2. argc \in Nat /\ argc = Len(argv) + 1 /\ Len(argv) \in Nat
    BY ArgvIsWords DEF PlacesOK, argc
  <2>3. \A code : Exit(code) /\ code \in {"success", "failure"} => TypeOK'
    <3>1. pallet' = pallet => PalletOK'
      BY DEF PalletOK
    <3> QED
      BY <2>1, <3>1 DEF Exit, TypeOK, PlacesOK, PalletOK
  <2>4. pallet' = pallet /\ PlacesOK' => TypeOK'
    BY DEF TypeOK, PlacesOK
  <2>5. CASE GlobalFlag
    BY <2>3, <2>5 DEF GlobalFlag
  <2>6. CASE UnknownFlag
    BY <2>3, <2>6 DEF UnknownFlag, Rejected
  <2>7. CASE UnknownCommand
    BY <2>3, <2>7 DEF UnknownCommand, Rejected
  <2>8. CASE HelpCommand
    BY <2>1, <2>2, <2>3, <2>4, <2>8 DEF HelpCommand, PlacesOK
  <2>9. CASE ColorCommand
    <3>1. CASE Exit(Rejected)
      BY <2>3, <3>1 DEF Rejected
    <3>2. CASE ~ Exit(Rejected)
      <4>1. /\ pos + 1 < argc
            /\ argv[pos + 1] \in {"enable", "disable", "auto"}
            /\ pos' = pos + 2
            /\ UNCHANGED << line, cmd, pallet, theme, status >>
        BY <2>9, <3>2 DEF ColorCommand, PastValue
      <4>2. color' \in BOOLEAN
        BY <2>9, <3>2, <4>1 DEF ColorCommand
      <4>3. PlacesOK'
        BY <2>1, <2>2, <4>1, <4>2 DEF PlacesOK
      <4> QED
        BY <2>4, <4>1, <4>3
    <3> QED
      BY <3>1, <3>2
  <2>10. CASE ThemeCommand
    BY <2>1, <2>2, <2>3, <2>4, <2>10 DEF ThemeCommand, PlacesOK, PastValue, Rejected, AtTop
  <2>11. CASE Return
    BY <2>1, <2>4, <2>11 DEF Return, PlacesOK
  <2>12. ASSUME NEW c \in Parsed, BeginCommand(c)
         PROVE  TypeOK'
    <3>1. PalletOK'
      BY <2>12, DefaultsKeepPallet
    <3>2. PlacesOK'
      BY <2>1, <2>2, <2>12 DEF BeginCommand, AtTop, PlacesOK
    <3> QED
      BY <3>1, <3>2 DEF TypeOK, PlacesOK, PalletOK
  <2>13. ASSUME NEW c \in Parsed, TakeValue(c)
         PROVE  TypeOK'
    <3>1. PICK field \in DOMAIN pallet[c] :
            /\ << c, word, field >> \in Valued
            /\ pallet' = [pallet EXCEPT ![c][field] = Value(field, argv[pos + 1])]
      BY <2>13 DEF TakeValue
    <3>2. pos + 1 \in 1 .. Len(argv)
      BY <2>2, <2>13 DEF TakeValue, PlacesOK
    <3>3. field \in {"repeat", "count"} => Value(field, argv[pos + 1]) \in Int
      BY <3>2, ArgvIsWords DEF Value, PlacesOK
    <3>4. \A t \in Switches : ~ (t[1] = c /\ t[3] = field)
      BY <3>1 DEF Switches, Valued
    <3>5. c \in DOMAIN pallet
      BY DEF PalletOK, Parsed, Zeroed
    <3>6. PalletOK'
      <4> DEFINE v == Value(field, argv[pos + 1])
      <4>1. field \in {"repeat", "count"} => v \in Int
        BY <3>3
      <4>2. pallet' = [pallet EXCEPT ![c][field] = v]
        BY <3>1
      <4>3. \A t \in Switches : t[1] = c /\ t[3] = field => v \in BOOLEAN
        BY <3>4
      <4>4. /\ c = "run" /\ field = "repeat" => v \in Int
            /\ c = "shuffle" /\ field = "count" => v \in Int
        BY <4>1
      <4> HIDE DEF v
      <4> QED
        BY <3>5, <4>2, <4>3, <4>4, AssignKeepsPallet, Zenon
    <3>7. PlacesOK'
      BY <2>1, <2>2, <2>13 DEF TakeValue, Reading, PlacesOK, PastValue
    <3> QED
      BY <3>6, <3>7 DEF TypeOK, PlacesOK, PalletOK
  <2>14. ASSUME NEW c \in Parsed, SetSwitch(c)
         PROVE  TypeOK'
    <3>1. PICK field \in DOMAIN pallet[c] :
            /\ << c, word, field >> \in Switches
            /\ pallet' = [pallet EXCEPT ![c][field] = TRUE]
      BY <2>14 DEF SetSwitch
    <3>2. field \notin {"repeat", "count"}
      BY <3>1 DEF Switches
    <3>3. c \in DOMAIN pallet
      BY DEF PalletOK, Parsed, Zeroed
    <3>4. PalletOK'
      BY <3>1, <3>2, <3>3, AssignKeepsPallet
    <3>5. PlacesOK'
      BY <2>1, <2>2, <2>14 DEF SetSwitch, Reading, PlacesOK
    <3> QED
      BY <3>4, <3>5 DEF TypeOK, PlacesOK, PalletOK
  <2>15. ASSUME NEW c \in Parsed, SubHelp(c)
         PROVE  TypeOK'
    BY <2>3, <2>15 DEF SubHelp
  <2>16. ASSUME NEW c \in Parsed, IgnoreWord(c)
         PROVE  TypeOK'
    BY <2>1, <2>2, <2>4, <2>16 DEF IgnoreWord, Reading, PlacesOK
  <2>17. ASSUME NEW c \in Parsed, EndCommand(c)
         PROVE  TypeOK'
    BY <2>1, <2>3, <2>4, <2>17 DEF EndCommand, PlacesOK, Resume
  <2>18. CASE UNCHANGED vars
    BY <2>1, <2>4, <2>18 DEF vars, PlacesOK
  <2> QED
    BY <2>5, <2>6, <2>7, <2>8, <2>9, <2>10, <2>11, <2>12, <2>13, <2>14, <2>15,
       <2>16, <2>17, <2>18 DEF Next, Option, Halted
<1> QED
  BY <1>1, <1>2, PTL DEF Spec

-----------------------------------------------------------------------------
(* Success without a run *)

\* The words that ask for help, a version or information.
Requests == {"--help", "-h", "--version", "-v", "help", "info"}

\* The parser of a command runs because the command's word was read.
CommandWasRead == cmd # Null => \E k \in DOMAIN argv : argv[k] = cmd

\* exit(EXIT_SUCCESS) is reached only on a request: a word that is not known, or
\* is missing, never ends the program as if its tests had passed.
THEOREM SuccessIsRequested == Spec => []SuccessOnlyOnRequest
<1> DEFINE Inv == SuccessOnlyOnRequest /\ CommandWasRead
<1>1. Init => Inv
  BY DEF Init, SuccessOnlyOnRequest, CommandWasRead
<1>2. TypeOK /\ Inv /\ [Next]_vars => Inv'
  <2> SUFFICES ASSUME TypeOK, Inv, [Next]_vars PROVE Inv'
    OBVIOUS
  <2>1. argv' = argv
    BY DEF Next, vars, GlobalFlag, UnknownFlag, UnknownCommand, HelpCommand,
           ColorCommand, ThemeCommand, Return, BeginCommand, Option, TakeValue,
           SetSwitch, SubHelp, IgnoreWord, EndCommand, Halted, Exit, argv
  <2>2. /\ argc = Len(argv) + 1
        /\ Len(argv) \in Nat
        /\ DOMAIN argv = 1 .. Len(argv)
        /\ pos \in 1 .. argc
    BY ArgvIsWords DEF TypeOK, argc
  <2>3. pos < argc => pos \in DOMAIN argv
    BY <2>2
  <2>4. ASSUME status' = status, cmd' \in {cmd, Null}
        PROVE  Inv'
    BY <2>1, <2>4 DEF SuccessOnlyOnRequest, CommandWasRead
  <2>5. Exit("failure") => Inv'
    BY <2>1 DEF Exit, SuccessOnlyOnRequest, CommandWasRead
  <2>6. ASSUME NEW k \in DOMAIN argv, argv[k] \in Requests, Exit("success")
        PROVE  Inv'
    BY <2>1, <2>6 DEF Exit, SuccessOnlyOnRequest, CommandWasRead, Requests
  <2>7. CASE GlobalFlag
    BY <2>3, <2>6, <2>7 DEF GlobalFlag, AtTop, word, Requests
  <2>8. CASE UnknownFlag \/ UnknownCommand
    BY <2>5, <2>8 DEF UnknownFlag, UnknownCommand, Rejected
  <2>9. CASE HelpCommand
    BY <2>3, <2>4, <2>6, <2>9 DEF HelpCommand, AtTop, word, Requests
  <2>10. CASE ColorCommand \/ ThemeCommand
    BY <2>4, <2>5, <2>10 DEF ColorCommand, ThemeCommand, Rejected
  <2>11. CASE Return
    BY <2>1, <2>11 DEF Return, SuccessOnlyOnRequest, CommandWasRead
  <2>12. ASSUME NEW c \in Parsed, BeginCommand(c)
         PROVE  Inv'
    <3>1. cmd' = c /\ argv[pos] = c /\ pos \in DOMAIN argv /\ status' = status
      BY <2>3, <2>12 DEF BeginCommand, AtTop, word
    <3> QED
      BY <2>1, <3>1 DEF SuccessOnlyOnRequest, CommandWasRead
  <2>13. ASSUME NEW c \in Parsed, TakeValue(c) \/ SetSwitch(c) \/ IgnoreWord(c)
         PROVE  Inv'
    BY <2>4, <2>13 DEF TakeValue, SetSwitch, IgnoreWord
  <2>14. ASSUME NEW c \in Parsed, SubHelp(c)
         PROVE  Inv'
    BY <2>3, <2>6, <2>14 DEF SubHelp, Reading, word, Requests
  <2>15. ASSUME NEW c \in Parsed, EndCommand(c)
         PROVE  Inv'
    <3>1. CASE InfoExits(c)
      <4>1. cmd = "info" /\ Exit("success")
        BY <2>15, <3>1 DEF EndCommand, InfoExits
      <4>2. PICK k \in DOMAIN argv : argv[k] = "info"
        BY <4>1, WordAssumption DEF CommandWasRead, Commands, Parsed
      <4> QED
        BY <2>6, <4>1, <4>2 DEF Requests
    <3>2. CASE ~ InfoExits(c)
      BY <2>4, <2>15, <3>2 DEF EndCommand
    <3> QED
      BY <3>1, <3>2
  <2>16. CASE UNCHANGED vars
    BY <2>4, <2>16 DEF vars
  <2> QED
    BY <2>7, <2>8, <2>9, <2>10, <2>11, <2>12, <2>13, <2>14, <2>15, <2>16
    DEF Next, Option, Halted
<1> QED
  BY <1>1, <1>2, ScannerTypes, PTL DEF Spec

-----------------------------------------------------------------------------
(* What the part of the line that was read says *)

\* The parser of c has a branch that sets the field for the first word of group.
Reads(c, group, field) == << c, group[1], field >> \in Valued \cup Switches

\* Clauses that the parsers read to the end, and lines of them.
Readable(clause) ==
  CASE clause.cmd = "help" -> clause.groups = << >>
    [] clause.cmd = "theme" -> \E t \in Themes : clause.groups = << <<t>> >>
    [] clause.cmd = "color" ->
         \E m \in {"enable", "disable", "auto"} : clause.groups = << <<m>> >>
    [] clause.cmd \in Parsed ->
         \A k \in DOMAIN clause.groups :
           LET g == clause.groups[k]
           IN  \/ g = << "--help" >>
               \/ Len(g) = 1 /\ \E t \in Switches : t[1] = clause.cmd /\ t[2] = g[1]
               \/ Len(g) = 2 /\ \E t \in Valued : t[1] = clause.cmd /\ t[2] = g[1]
    [] OTHER -> FALSE

ReadableLine ==
  /\ \A k \in DOMAIN line : Readable(line[k])
  /\ \A k \in 1 .. Len(line) - 1 : line[k].cmd = "help" => line[k + 1].cmd # "help"

\* The clauses of c that have begun when n - 1 groups of clause k were read, n
\* being 0 before the clause begins; the groups read; and those in force.
Begun(c, k, n) == {i \in PlacesOf(c) : i < k \/ (i = k /\ n > 0)}
Read(c, k, n) == {g \in GroupsOf(c) : g[1] < k \/ (g[1] = k /\ g[2] < n)}
SettersRead(c, f, k, n) ==
  {g \in Read(c, k, n) : /\ c = "report" \/ \A i \in Begun(c, k, n) : i <= g[1]
                         /\ Reads(c, GroupAt(g), f)}

\* v is what the part of the line that was read says of field f of c: the last
\* setter in force gives it, or else the defaults, or else it is zero.
Says(c, f, v, k, n) ==
  \/ \E g \in SettersRead(c, f, k, n) :
       /\ \A h \in SettersRead(c, f, k, n) : NotAfter(h, g)
       /\ v = Given(g, f)
  \/ SettersRead(c, f, k, n) = {} /\ Begun(c, k, n) # {} /\ v = Defaults(c, Zeroed[c])[f]
  \/ SettersRead(c, f, k, n) = {} /\ Begun(c, k, n) = {} /\ v = Zeroed[c][f]

\* The same of all fields of a pallet p, and of a theme t.
PalletIs(p, k, n) ==
  \A c \in DOMAIN Zeroed : \A f \in DOMAIN Zeroed[c] : Says(c, f, p[c][f], k, n)

ThemeIs(t, k) ==
  \/ Begun("theme", k, 0) = {} /\ t = "fossil"
  \/ \E j \in Begun("theme", k, 0) :
       (\A i \in Begun("theme", k, 0) : i <= j) /\ t = line[j].groups[1][1]

\* No clause that was read asks for information instead of a run.
NothingAsked(k, n) ==
  /\ \A i \in DOMAIN line : i < k => ~ AsksToStop(line[i])
  /\ n > 0 => \A m \in DOMAIN line[k].groups : m < n => line[k].groups[m] # << "--help" >>

\* The groups of a command are pairs of a clause of it and a place in that.
LEMMA GroupsAre ==
  ASSUME line \in Lines, NEW c
  PROVE  /\ \A g \in GroupsOf(c) :
              /\ g[1] \in PlacesOf(c) /\ g[2] \in DOMAIN line[g[1]].groups
              /\ g[1] \in Nat /\ g[2] \in Nat /\ g[1] >= 1 /\ g[2] >= 1
              /\ g[2] <= Len(line[g[1]].groups)
              /\ g = << g[1], g[2] >>
         /\ \A k \in PlacesOf(c) : \A n \in DOMAIN line[k].groups : << k, n >> \in GroupsOf(c)
<1>1. ASSUME NEW k \in PlacesOf(c)
      PROVE  /\ k \in Nat /\ k >= 1
             /\ \A n \in DOMAIN line[k].groups :
                  n \in Nat /\ n >= 1 /\ n <= Len(line[k].groups)
  <2>1. k \in DOMAIN line /\ k \in Nat /\ k >= 1 BY LineShape DEF PlacesOf
  <2>2. line[k].groups \in Seq(Seq(STRING)) BY <2>1, LineShape
  <2> QED BY <2>1, <2>2
<1>2. ASSUME NEW g \in GroupsOf(c)
      PROVE  /\ g[1] \in PlacesOf(c) /\ g[2] \in DOMAIN line[g[1]].groups
             /\ g = << g[1], g[2] >>
  <2>1. PICK k \in PlacesOf(c) : g \in {k} \X DOMAIN line[k].groups BY DEF GroupsOf
  <2> QED BY <2>1
<1>3. ASSUME NEW k \in PlacesOf(c), NEW n \in DOMAIN line[k].groups
      PROVE  << k, n >> \in GroupsOf(c)
  BY DEF GroupsOf
<1> QED BY <1>1, <1>2, <1>3

\* Equal parts of a line say the same.
LEMMA SaysTheSame ==
  ASSUME NEW c, NEW f, NEW v, NEW k, NEW n, NEW l, NEW m,
         Begun(c, k, n) = Begun(c, l, m), Read(c, k, n) = Read(c, l, m),
         Says(c, f, v, k, n)
  PROVE  Says(c, f, v, l, m)
<1>1. SettersRead(c, f, k, n) = SettersRead(c, f, l, m) BY DEF SettersRead
<1> QED BY <1>1 DEF Says

\* Behind a clause, and anywhere in a clause of another command, the same was
\* read of c.
LEMMA ClauseIsRead ==
  ASSUME line \in Lines, NEW c, NEW k \in DOMAIN line, NEW n \in Nat,
         line[k].cmd # c \/ n = Len(line[k].groups) + 1
  PROVE  /\ Begun(c, k, n) = Begun(c, k + 1, 0)
         /\ Read(c, k, n) = Read(c, k + 1, 0)
<1>1. k \in Nat /\ \A i \in DOMAIN line : i \in Nat BY LineShape
<1>2. Begun(c, k, n) = Begun(c, k + 1, 0)
  <2>1. \A i \in PlacesOf(c) : i \in Nat /\ (i = k => n > 0)
    <3>1. Len(line[k].groups) \in Nat
      <4>1. line[k].groups \in Seq(Seq(STRING)) BY LineShape
      <4> QED BY <4>1
    <3> QED BY <1>1, <3>1 DEF PlacesOf
  <2> QED BY <1>1, <2>1 DEF Begun
<1>3. Read(c, k, n) = Read(c, k + 1, 0)
  <2>1. \A g \in GroupsOf(c) :
          /\ g[1] \in Nat /\ g[2] \in Nat /\ g[2] >= 1
          /\ g[1] = k => g[2] < n
    BY GroupsAre DEF PlacesOf
  <2>2. \A g \in GroupsOf(c) :
          (g[1] < k \/ (g[1] = k /\ g[2] < n)) <=> (g[1] < k + 1 \/ (g[1] = k + 1 /\ g[2] < 0))
    BY <1>1, <2>1
  <2> QED BY <2>2 DEF Read
<1> QED BY <1>2, <1>3

\* Every option has a field, and two options of a command are not the same word.
LEMMA Options ==
  /\ \A t \in Valued \cup Switches :
       t[1] \in Parsed /\ t[1] \in DOMAIN Zeroed /\ t[3] \in DOMAIN Zeroed[t[1]]
  /\ \A t \in Valued \cup Switches : t[3] \notin {"only", "skip", "enabled"}
  /\ \A t \in Valued \cup Switches : t = << t[1], t[2], t[3] >> /\ t[2] # "--help"
  /\ \A t, u \in Valued \cup Switches : t[1] = u[1] /\ t[2] = u[2] => t[3] = u[3]
  /\ Valued \cap Switches = {}
  /\ \A t \in Valued, u \in Switches : ~ (t[1] = u[1] /\ t[2] = u[2])
<1>1. \A t \in Valued \cup Switches :
        t[1] \in Parsed /\ t[1] \in DOMAIN Zeroed /\ t[3] \in DOMAIN Zeroed[t[1]]
  BY DEF Valued, Switches, Zeroed, Parsed
<1>2. \A t \in Valued \cup Switches : t[3] \notin {"only", "skip", "enabled"}
  BY DEF Valued, Switches
<1>3. \A t \in Valued \cup Switches : t = << t[1], t[2], t[3] >> /\ t[2] # "--help"
  BY DEF Valued, Switches
<1>4. \A t, u \in Valued \cup Switches : t[1] = u[1] /\ t[2] = u[2] => t[3] = u[3]
  BY DEF Valued, Switches
<1>5. \A t \in Valued, u \in Switches : ~ (t[1] = u[1] /\ t[2] = u[2])
  BY DEF Valued, Switches
<1> QED BY <1>1, <1>2, <1>3, <1>4, <1>5

\* The defaults of a command are those of a pallet of zeros, but the two fields
\* of run that no option sets are left.
LEMMA DefaultsAre ==
  ASSUME NEW c \in Parsed, NEW part, DOMAIN part = DOMAIN Zeroed[c],
         NEW f \in DOMAIN Zeroed[c]
  PROVE  CASE c = "report" -> Defaults(c, part)[f] = part[f]
           [] c = "run" /\ f \in {"only", "skip"} -> Defaults(c, part)[f] = part[f]
           [] OTHER -> Defaults(c, part)[f] = Defaults(c, Zeroed[c])[f]
<1>1. CASE c = "run"
  <2>1. DOMAIN Zeroed[c] = {"only", "only_cases", "skip", "repeat", "fail_fast"}
    BY <1>1 DEF Zeroed
  <2>2. \A p : Defaults(c, p) = [p EXCEPT !.only_cases = Null, !.repeat = 1, !.fail_fast = FALSE]
    BY <1>1 DEF Defaults
  <2>3. \A p : DOMAIN p = DOMAIN Zeroed[c] =>
          Defaults(c, p)[f] = CASE f = "only_cases" -> Null
                                [] f = "repeat" -> 1
                                [] f = "fail_fast" -> FALSE
                                [] OTHER -> p[f]
    BY <2>1, <2>2
  <2> QED BY <1>1, <2>1, <2>3
<1>2. CASE c = "report" BY <1>2 DEF Defaults
<1>3. CASE c \notin {"run", "report"} BY <1>3 DEF Defaults, Parsed
<1> QED BY <1>1, <1>2, <1>3

\* A command that begins says its defaults.
LEMMA BeginSays ==
  ASSUME line \in Lines, NEW k \in DOMAIN line, NEW c \in Parsed, line[k].cmd = c,
         NEW part, DOMAIN part = DOMAIN Zeroed[c], NEW f \in DOMAIN Zeroed[c],
         Says(c, f, part[f], k, 0)
  PROVE  Says(c, f, Defaults(c, part)[f], k, 1)
<1>1. k \in Nat /\ k \in PlacesOf(c) /\ k \in Begun(c, k, 1)
  BY LineShape DEF PlacesOf, Begun
<1>2. \A g \in GroupsOf(c) : g[1] \in Nat /\ g[2] \in Nat /\ g[2] >= 1 BY GroupsAre
<1>3. Read(c, k, 1) = Read(c, k, 0) BY <1>1, <1>2 DEF Read
<1>4. CASE c = "report"
  <2>1. SettersRead(c, f, k, 1) = SettersRead(c, f, k, 0) BY <1>3, <1>4 DEF SettersRead
  <2>2. Defaults(c, part)[f] = part[f] /\ Defaults(c, Zeroed[c])[f] = Zeroed[c][f]
    BY <1>4 DEF Defaults
  <2>3. Begun(c, k, 1) # {} BY <1>1
  <2> QED BY <2>1, <2>2, <2>3 DEF Says
<1>5. CASE c # "report"
  <2>1. SettersRead(c, f, k, 1) = {}
    BY <1>1, <1>2, <1>5 DEF SettersRead, Read
  <2>2. Defaults(c, part)[f] = Defaults(c, Zeroed[c])[f]
    <3>1. CASE c = "run" /\ f \in {"only", "skip"}
      <4>1. SettersRead(c, f, k, 0) = {}
        <5>1. \A t \in Valued \cup Switches : t[3] # f BY <3>1, Options
        <5>2. \A g : ~ Reads(c, g, f) BY <5>1 DEF Reads
        <5> QED BY <5>2 DEF SettersRead
      <4>2. Defaults(c, Zeroed[c])[f] = Zeroed[c][f] BY <3>1, DefaultsAre
      <4>3. part[f] = Zeroed[c][f] BY <4>1, <4>2 DEF Says
      <4> QED BY <3>1, <4>2, <4>3, DefaultsAre
    <3>2. CASE ~ (c = "run" /\ f \in {"only", "skip"})
      BY <1>5, <3>2, DefaultsAre
    <3> QED BY <3>1, <3>2
  <2> QED BY <1>1, <2>1, <2>2 DEF Says
<1> QED BY <1>4, <1>5

\* A group that sets a field says its value; one that does not says nothing.
LEMMA OptionSays ==
  ASSUME line \in Lines, NEW k \in DOMAIN line, NEW n \in DOMAIN line[k].groups,
         NEW c, line[k].cmd = c, NEW f
  PROVE  /\ Reads(c, line[k].groups[n], f)
              => Says(c, f, Given(<< k, n >>, f), k, n + 1)
         /\ \A v : ~ Reads(c, line[k].groups[n], f) /\ Says(c, f, v, k, n)
              => Says(c, f, v, k, n + 1)
<1> DEFINE g0 == << k, n >>
<1>1. /\ k \in Nat /\ k \in PlacesOf(c) /\ g0 \in GroupsOf(c)
      /\ g0[1] = k /\ g0[2] = n /\ n \in Nat /\ n >= 1
      /\ GroupAt(g0) = line[k].groups[n]
  BY GroupsAre, LineShape DEF PlacesOf, GroupAt
<1> HIDE DEF g0
<1>2. Begun(c, k, n) = Begun(c, k, n + 1) /\ \A i \in Begun(c, k, n + 1) : i <= k
  <2>1. \A i \in PlacesOf(c) : i \in Nat BY LineShape DEF PlacesOf
  <2> QED BY <1>1, <2>1 DEF Begun
<1>3. Read(c, k, n + 1) = Read(c, k, n) \cup {g0}
  <2>1. \A g \in GroupsOf(c) : g[1] \in Nat /\ g[2] \in Nat /\ g = << g[1], g[2] >>
    BY GroupsAre
  <2>2. \A g \in GroupsOf(c) :
          (g[1] < k \/ (g[1] = k /\ g[2] < n + 1))
            <=> (g[1] < k \/ (g[1] = k /\ g[2] < n) \/ g = g0)
    BY <1>1, <2>1 DEF g0
  <2> QED BY <1>1, <2>2 DEF Read
<1>4. ASSUME Reads(c, line[k].groups[n], f)
      PROVE  Says(c, f, Given(g0, f), k, n + 1)
  <2>1. g0 \in SettersRead(c, f, k, n + 1)
    BY <1>1, <1>2, <1>3, <1>4 DEF SettersRead
  <2>2. \A h \in SettersRead(c, f, k, n + 1) : NotAfter(h, g0)
    <3>1. \A h \in Read(c, k, n + 1) : h = g0 \/ h[1] < k \/ (h[1] = k /\ h[2] < n)
      BY <1>3 DEF Read
    <3>2. \A h \in Read(c, k, n + 1) : h \in GroupsOf(c) BY DEF Read
    <3>3. \A h \in GroupsOf(c) : h[1] \in Nat /\ h[2] \in Nat BY GroupsAre
    <3> QED BY <1>1, <3>1, <3>2, <3>3 DEF SettersRead, NotAfter
  <2> QED BY <2>1, <2>2 DEF Says
<1>5. ASSUME ~ Reads(c, line[k].groups[n], f), NEW v, Says(c, f, v, k, n)
      PROVE  Says(c, f, v, k, n + 1)
  <2>1. SettersRead(c, f, k, n + 1) = SettersRead(c, f, k, n)
    BY <1>1, <1>2, <1>3, <1>5 DEF SettersRead
  <2> QED BY <1>2, <1>5, <2>1 DEF Says
<1> QED BY <1>4, <1>5 DEF g0

\* The parsers know the options of the table but one; --only they take for
\* another field than the first that is said to hold it.
LEMMA TableIsRead ==
  /\ \A c \in DOMAIN Zeroed : c \in Parsed /\ DOMAIN OptionOf[c] = DOMAIN Zeroed[c]
  /\ Parsed = DOMAIN Zeroed
  /\ \A t \in Valued : t[3] \notin Flags /\ OptionOf[t[1]][t[3]] = t[2]
  /\ \A t \in Switches : t[3] \in Flags /\ OptionOf[t[1]][t[3]] = t[2]
  /\ \A c \in DOMAIN Zeroed : \A f \in DOMAIN Zeroed[c] \ {"only", "skip", "enabled"} :
       /\ f \in Flags => << c, OptionOf[c][f], f >> \in Switches
       /\ f \notin Flags => << c, OptionOf[c][f], f >> \in Valued
  /\ OptionOf["run"]["only"] = "--only" /\ "only" \notin Flags
  /\ OptionOf["show"]["enabled"] = Null
<1>2. Parsed = DOMAIN Zeroed
  BY DEF Zeroed, Parsed
<1>1. ASSUME NEW c \in DOMAIN Zeroed
      PROVE  c \in Parsed /\ DOMAIN OptionOf[c] = DOMAIN Zeroed[c]
  <2>1. CASE c = "run" BY <1>2, <2>1 DEF Zeroed, OptionOf
  <2>2. CASE c = "filter" BY <1>2, <2>2 DEF Zeroed, OptionOf
  <2>3. CASE c = "sort" BY <1>2, <2>3 DEF Zeroed, OptionOf
  <2>4. CASE c = "shuffle" BY <1>2, <2>4 DEF Zeroed, OptionOf
  <2>5. CASE c = "show" BY <1>2, <2>5 DEF Zeroed, OptionOf
  <2>6. CASE c = "report" BY <1>2, <2>6 DEF Zeroed, OptionOf
  <2>7. CASE c = "info" BY <1>2, <2>7 DEF Zeroed, OptionOf
  <2> QED BY <1>2, <2>1, <2>2, <2>3, <2>4, <2>5, <2>6, <2>7 DEF Parsed
<1>3. ASSUME NEW t \in Valued
      PROVE  t[3] \notin Flags /\ OptionOf[t[1]][t[3]] = t[2]
  <2>1. t[3] \notin Flags BY DEF Valued, Flags
  <2>2. OptionOf[t[1]][t[3]] = t[2]
    <3>1. CASE t[1] = "run" BY <3>1 DEF Valued, OptionOf
    <3>2. CASE t[1] = "filter" BY <3>2 DEF Valued, OptionOf
    <3>3. CASE t[1] = "sort" BY <3>3 DEF Valued, OptionOf
    <3>4. CASE t[1] = "shuffle" BY <3>4 DEF Valued, OptionOf
    <3>5. CASE t[1] = "show" BY <3>5 DEF Valued, OptionOf
    <3>6. CASE t[1] = "report" BY <3>6 DEF Valued, OptionOf
    <3>7. t[1] # "info" BY DEF Valued
    <3> QED BY <3>1, <3>2, <3>3, <3>4, <3>5, <3>6, <3>7, Options DEF Parsed
  <2> QED BY <2>1, <2>2
<1>4. \A t \in Switches : t[3] \in Flags /\ OptionOf[t[1]][t[3]] = t[2]
  BY DEF Switches, OptionOf, Flags
<1>5. ASSUME NEW c \in DOMAIN Zeroed, NEW f \in DOMAIN Zeroed[c] \ {"only", "skip", "enabled"}
      PROVE  /\ f \in Flags => << c, OptionOf[c][f], f >> \in Switches
             /\ f \notin Flags => << c, OptionOf[c][f], f >> \in Valued
  <2>1. CASE c = "run" BY <2>1 DEF Zeroed, OptionOf, Valued, Switches, Flags
  <2>2. CASE c = "filter" BY <2>2 DEF Zeroed, OptionOf, Valued, Switches, Flags
  <2>3. CASE c = "sort" BY <2>3 DEF Zeroed, OptionOf, Valued, Switches, Flags
  <2>4. CASE c = "shuffle" BY <2>4 DEF Zeroed, OptionOf, Valued, Switches, Flags
  <2>5. CASE c = "show" BY <2>5 DEF Zeroed, OptionOf, Valued, Switches, Flags
  <2>6. CASE c = "report" BY <2>6 DEF Zeroed, OptionOf, Valued, Switches, Flags
  <2>7. CASE c = "info" BY <2>7 DEF Zeroed, OptionOf, Valued, Switches, Flags
  <2> QED BY <1>1, <2>1, <2>2, <2>3, <2>4, <2>5, <2>6, <2>7 DEF Parsed
<1>7. /\ OptionOf["run"]["only"] = "--only" /\ "only" \notin Flags
      /\ OptionOf["show"]["enabled"] = Null
  BY DEF OptionOf, Flags
<1> QED BY <1>1, <1>2, <1>3, <1>4, <1>5, <1>7

\* Three fields are not like the others: that of --only, which is in run; that of
\* --skip, in run too; and one that no group sets.
LEMMA OddFields ==
  ASSUME NEW c \in DOMAIN Zeroed, NEW f \in DOMAIN Zeroed[c], NEW g \in Seq(STRING),
         Sets(c, g, f)
  PROVE  /\ f = "only" => c = "run" /\ Len(g) = 2 /\ g[1] = "--only"
         /\ f = "skip" => c = "run" /\ Sets("run", g, "skip")
         /\ f # "enabled"
<1>0. /\ "only" \in DOMAIN Zeroed[c] => c = "run"
      /\ "skip" \in DOMAIN Zeroed[c] => c = "run"
      /\ "enabled" \in DOMAIN Zeroed[c] => c = "show"
  <2>0. c \in Parsed BY TableIsRead
  <2>1. CASE c = "run" BY <2>1 DEF Zeroed
  <2>2. CASE c = "filter" BY <2>2 DEF Zeroed
  <2>3. CASE c = "sort" BY <2>3 DEF Zeroed
  <2>4. CASE c = "shuffle" BY <2>4 DEF Zeroed
  <2>5. CASE c = "show" BY <2>5 DEF Zeroed
  <2>6. CASE c = "report" BY <2>6 DEF Zeroed
  <2>7. CASE c = "info" BY <2>7 DEF Zeroed
  <2> QED BY <2>0, <2>1, <2>2, <2>3, <2>4, <2>5, <2>6, <2>7 DEF Parsed
<1>1. CASE f = "only"
  <2>1. "only" \in DOMAIN Zeroed[c] BY <1>1
  <2>2. c = "run" BY <2>1, <1>0
  <2>3. OptionOf[c][f] = "--only" /\ f \notin Flags BY <1>1, <2>2, TableIsRead
  <2> QED BY <1>1, <2>2, <2>3 DEF Sets
<1>2. CASE f = "skip"
  <2>1. "skip" \in DOMAIN Zeroed[c] BY <1>2
  <2>2. c = "run" BY <2>1, <1>0
  <2> QED BY <1>2, <2>2
<1>3. f # "enabled"
  <2> SUFFICES ASSUME f = "enabled" PROVE FALSE OBVIOUS
  <2>0. "enabled" \in DOMAIN Zeroed[c] OBVIOUS
  <2>3. c = "show" BY <2>0, <1>0
  <2>4. OptionOf[c][f] = Null BY <2>3, TableIsRead
  <2>1. Len(g) \in {1, 2} /\ g[1] = Null BY <2>4 DEF Sets
  <2>2. g[1] \in STRING BY <2>1
  <2> QED BY <2>1, <2>2, WordAssumption
<1> QED BY <1>1, <1>2, <1>3

\* A group that a documented clause may have is one that the parser reads.
LEMMA GroupIsReadable ==
  ASSUME NEW c \in DOMAIN Zeroed, NEW g \in Seq(STRING), NEW f \in DOMAIN Zeroed[c],
         Sets(c, g, f), f # "skip"
  PROVE  \/ Len(g) = 1 /\ \E t \in Switches : t[1] = c /\ t[2] = g[1]
         \/ Len(g) = 2 /\ \E t \in Valued : t[1] = c /\ t[2] = g[1]
<1>1. f # "enabled" BY OddFields
<1>2. CASE f = "only"
  <2>1. c = "run" /\ Len(g) = 2 /\ g[1] = "--only" BY <1>2, OddFields
  <2> DEFINE t == << "run", "--only", "only_cases" >>
  <2>2. t \in Valued /\ t[1] = "run" /\ t[2] = "--only" BY DEF Valued
  <2> HIDE DEF t
  <2> QED BY <2>1, <2>2
<1>3. CASE f \notin {"only", "enabled"}
  <2> DEFINE t == << c, OptionOf[c][f], f >>
  <2>1. t[1] = c /\ t[2] = g[1] /\ Len(g) = IF f \in Flags THEN 1 ELSE 2
    BY DEF Sets
  <2>2. (f \in Flags => t \in Switches) /\ (f \notin Flags => t \in Valued)
    BY <1>3, TableIsRead
  <2> HIDE DEF t
  <2> QED BY <2>1, <2>2
<1> QED BY <1>1, <1>2, <1>3

\* A line that is documented, without --skip, is one that the parsers read, and
\* what its groups set is, but for only, what the parsers set.
LEMMA DocumentedIsRead ==
  ASSUME line \in Lines, WellFormedLine, SkipFree
  PROVE  /\ ReadableLine
         /\ \A c \in DOMAIN Zeroed : \A f \in DOMAIN Zeroed[c] \ {"only"} :
              \A g \in GroupsOf(c) : Reads(c, GroupAt(g), f) <=> Sets(c, GroupAt(g), f)
<1>1. ASSUME NEW k \in DOMAIN line, NEW n \in DOMAIN line[k].groups, line[k].cmd \in Parsed
      PROVE  LET g == line[k].groups[n]
             IN  /\ g \in Seq(STRING)
                 /\ line[k].cmd = "run" => ~ Sets("run", g, "skip")
                 /\ \/ g = << "--help" >>
                    \/ Len(g) = 1 /\ \E t \in Switches : t[1] = line[k].cmd /\ t[2] = g[1]
                    \/ Len(g) = 2 /\ \E t \in Valued : t[1] = line[k].cmd /\ t[2] = g[1]
  <2> DEFINE g == line[k].groups[n]  c == line[k].cmd
  <2>1. g \in Seq(STRING)
    <3>1. line[k].groups \in Seq(Seq(STRING)) BY LineShape
    <3> QED BY <3>1
  <2>2. c = "run" => ~ Sets("run", g, "skip") BY DEF SkipFree, PlacesOf
  <2>3. g = << "--help" >> \/ \E f \in DOMAIN OptionOf[c] : Sets(c, g, f)
    <3>1. WellFormed(line[k]) BY DEF WellFormedLine
    <3> QED BY <1>1, <3>1 DEF WellFormed, Parsed
  <2>4. c \in DOMAIN Zeroed /\ DOMAIN OptionOf[c] = DOMAIN Zeroed[c]
    BY <1>1, TableIsRead
  <2> HIDE DEF g, c
  <2>5. CASE g # << "--help" >>
    <3>1. PICK f \in DOMAIN Zeroed[c] : Sets(c, g, f) BY <2>3, <2>4, <2>5
    <3>2. f # "skip"
      <4>1. f = "skip" => c = "run" /\ Sets("run", g, "skip")
        BY <2>1, <2>4, <3>1, OddFields
      <4> QED BY <2>2, <4>1
    <3>3. \/ Len(g) = 1 /\ \E t \in Switches : t[1] = c /\ t[2] = g[1]
          \/ Len(g) = 2 /\ \E t \in Valued : t[1] = c /\ t[2] = g[1]
      BY <2>1, <2>4, <3>1, <3>2, GroupIsReadable
    <3> QED BY <2>1, <2>2, <3>3 DEF g, c
  <2>6. CASE g = << "--help" >> BY <2>1, <2>2, <2>6 DEF g, c
  <2> QED BY <2>5, <2>6
<1>2. ASSUME NEW k \in DOMAIN line PROVE Readable(line[k])
  <2>1. WellFormed(line[k]) BY DEF WellFormedLine
  <2>2. CASE line[k].cmd \in Parsed BY <1>1, <2>2 DEF Readable, Parsed
  <2>3. CASE line[k].cmd \notin Parsed BY <2>1, <2>3 DEF Readable, WellFormed
  <2> QED BY <2>2, <2>3
<1>3. ASSUME NEW c \in DOMAIN Zeroed, NEW f \in DOMAIN Zeroed[c] \ {"only"}, NEW h \in GroupsOf(c)
      PROVE  Reads(c, GroupAt(h), f) <=> Sets(c, GroupAt(h), f)
  <2> DEFINE g == GroupAt(h)
  <2>1. /\ g \in Seq(STRING)
        /\ c = "run" => ~ Sets("run", g, "skip")
        /\ \/ g = << "--help" >>
           \/ Len(g) = 1 /\ \E t \in Switches : t[1] = c /\ t[2] = g[1]
           \/ Len(g) = 2 /\ \E t \in Valued : t[1] = c /\ t[2] = g[1]
    <3>1. h[1] \in PlacesOf(c) /\ h[2] \in DOMAIN line[h[1]].groups BY GroupsAre
    <3>2. h[1] \in DOMAIN line /\ line[h[1]].cmd = c BY <3>1 DEF PlacesOf
    <3>3. c \in Parsed BY TableIsRead
    <3> QED BY <1>1, <3>1, <3>2, <3>3 DEF GroupAt
  <2> HIDE DEF g
  <2>2. ASSUME Sets(c, g, f) PROVE Reads(c, g, f)
    <3>0. f \in DOMAIN Zeroed[c] OBVIOUS
    <3>1. f # "skip"
      <4>1. f = "skip" => c = "run" /\ Sets("run", g, "skip")
        BY <2>1, <2>2, <3>0, OddFields
      <4> QED BY <2>1, <4>1
    <3>2. f # "enabled" BY <2>1, <2>2, <3>0, OddFields
    <3>3. << c, OptionOf[c][f], f >> \in Valued \cup Switches BY <3>1, <3>2, TableIsRead
    <3> QED BY <2>2, <3>3 DEF Sets, Reads
  <2>3. ASSUME Reads(c, g, f) PROVE Sets(c, g, f)
    <3> DEFINE u == << c, g[1], f >>
    <3>1. u \in Valued \cup Switches /\ u[1] = c /\ u[2] = g[1] /\ u[3] = f
      BY <2>3 DEF Reads
    <3> HIDE DEF u
    <3>2. OptionOf[c][f] = g[1] BY <3>1, TableIsRead
    <3>3. g # << "--help" >>
      <4>1. u[2] # "--help" BY <3>1, Options
      <4>2. << "--help" >>[1] = "--help" OBVIOUS
      <4> QED BY <3>1, <4>1, <4>2
    <3>4. CASE u \in Valued
      <4>1. f \notin Flags BY <3>1, <3>4, TableIsRead
      <4>2. ~ \E t \in Switches : t[1] = c /\ t[2] = g[1] BY <3>1, <3>4, Options
      <4> QED BY <2>1, <3>2, <3>3, <4>1, <4>2 DEF Sets
    <3>5. CASE u \in Switches
      <4>1. f \in Flags BY <3>1, <3>5, TableIsRead
      <4>2. ~ \E t \in Valued : t[1] = c /\ t[2] = g[1] BY <3>1, <3>5, Options
      <4> QED BY <2>1, <3>2, <3>3, <4>1, <4>2 DEF Sets
    <3> QED BY <3>1, <3>4, <3>5
  <2> QED BY <2>2, <2>3 DEF g
<1>4. ReadableLine BY <1>2 DEF ReadableLine, WellFormedLine
<1> QED BY <1>3, <1>4

\* What the whole line says is what its clauses mean.
LEMMA WholeLineSays ==
  ASSUME line \in Lines, WellFormedLine, SkipFree, NEW c \in DOMAIN Zeroed,
         NEW f \in DOMAIN Zeroed[c] \ {"only"}, NEW v, Says(c, f, v, Len(line) + 1, 0)
  PROVE  v = MeaningOf(c, f)
<1>1. Begun(c, Len(line) + 1, 0) = PlacesOf(c)
  BY LineShape DEF Begun, PlacesOf
<1>2. Read(c, Len(line) + 1, 0) = GroupsOf(c)
  <2>1. \A g \in GroupsOf(c) : g[1] < Len(line) + 1
    BY GroupsAre, LineShape DEF PlacesOf
  <2> QED BY <2>1 DEF Read
<1>3. SettersRead(c, f, Len(line) + 1, 0) = Setters(c, f)
  <2>1. \A g \in GroupsOf(c) : Reads(c, GroupAt(g), f) <=> Sets(c, GroupAt(g), f)
    BY DocumentedIsRead
  <2> QED BY <1>1, <1>2, <2>1 DEF SettersRead, Setters, InForce
<1>4. CASE Setters(c, f) # {}
  <2>1. PICK g \in Setters(c, f) :
          /\ \A h \in Setters(c, f) : NotAfter(h, g)
          /\ v = Given(g, f)
    BY <1>3, <1>4 DEF Says
  <2>2. ASSUME NEW h \in Setters(c, f), \A i \in Setters(c, f) : NotAfter(i, h)
        PROVE  h = g
    <3>1. NotAfter(h, g) /\ NotAfter(g, h) BY <2>1, <2>2
    <3>2. h \in GroupsOf(c) /\ g \in GroupsOf(c) BY DEF Setters, InForce
    <3>3. /\ h[1] \in Nat /\ h[2] \in Nat /\ h = << h[1], h[2] >>
          /\ g[1] \in Nat /\ g[2] \in Nat /\ g = << g[1], g[2] >>
      BY <3>2, GroupsAre
    <3>4. h[1] = g[1] /\ h[2] = g[2] BY <3>1, <3>3 DEF NotAfter
    <3> QED BY <3>3, <3>4
  <2>3. (CHOOSE h \in Setters(c, f) : \A i \in Setters(c, f) : NotAfter(i, h)) = g
    BY <2>1, <2>2
  <2>4. MeaningOf(c, f) = Given(CHOOSE h \in Setters(c, f) :
                                    \A i \in Setters(c, f) : NotAfter(i, h), f)
    BY <1>4, Zenon DEF MeaningOf
  <2> QED BY <2>1, <2>3, <2>4, Zenon
<1>5. CASE Setters(c, f) = {}
  BY <1>1, <1>3, <1>5 DEF Says, MeaningOf
<1> QED BY <1>4, <1>5
-----------------------------------------------------------------------------
(* The scanner and the clauses                                             *)

\* The scanner is before clause k, or in clause k before the n-th group of it
\* or behind the last.
Before(k) ==
  /\ k \in 1 .. Len(line) + 1
  /\ cmd = Null
  /\ pos = Start(k)
  /\ NothingAsked(k, 0)
  /\ PalletIs(pallet, k, 0)
  /\ ThemeIs(theme, k)

Inside(k, n) ==
  /\ k \in DOMAIN line
  /\ n \in 1 .. Len(line[k].groups) + 1
  /\ cmd = line[k].cmd
  /\ pos = GroupStart(k, n)
  /\ NothingAsked(k, n)
  /\ PalletIs(pallet, k, n)
  /\ ThemeIs(theme, k)

\* On a line of well-formed clauses the scanner is at one of these places,
\* where what it has built is what the clauses so far say; and it stops as they
\* ask.
ScanInv ==
  ReadableLine =>
    /\ status = "scanning" =>
         (\E k \in Nat : Before(k)) \/ (\E k, n \in Nat : Inside(k, n))
    /\ status = "returned" =>
         LET k == Len(line) + 1
         IN  NothingAsked(k, 0) /\ PalletIs(pallet, k, 0) /\ ThemeIs(theme, k)
    /\ status = "success" => \E k \in DOMAIN line : AsksToStop(line[k])
    /\ status # "failure"

\* The line stays, and with it all that is said of the line alone.
LEMMA SameLine ==
  ASSUME line' = line
  PROVE  /\ argv' = argv /\ argc' = argc
         /\ ReadableLine' <=> ReadableLine
         /\ \A k : Start(k)' = Start(k)
         /\ \A k, n : GroupStart(k, n)' = GroupStart(k, n)
         /\ \A k, n : NothingAsked(k, n)' <=> NothingAsked(k, n)
         /\ \A k, n : PalletIs(pallet, k, n)' <=> PalletIs(pallet', k, n)
         /\ \A k : ThemeIs(theme, k)' <=> ThemeIs(theme', k)
<1>1. argv' = argv /\ argc' = argc BY DEF argv, argc
<1>2. ReadableLine' <=> ReadableLine BY DEF ReadableLine
<1>3. \A k : Start(k)' = Start(k) BY DEF Start, Clauses
<1>4. \A k, n : GroupStart(k, n)' = GroupStart(k, n)
  BY DEF GroupStart, Start, Clauses
<1>5. \A k, n : NothingAsked(k, n)' <=> NothingAsked(k, n) BY DEF NothingAsked
<1>6. \A k, n : PalletIs(pallet, k, n)' <=> PalletIs(pallet', k, n)
  BY DEF PalletIs, Says, SettersRead, Read, Begun, GroupsOf, PlacesOf, Given, GroupAt
<1>7. \A k : ThemeIs(theme, k)' <=> ThemeIs(theme', k)
  BY DEF ThemeIs, Begun, PlacesOf
<1> QED BY <1>1, <1>2, <1>3, <1>4, <1>5, <1>6, <1>7

\* How a step keeps the invariant: it goes to the next place, or it stops.
LEMMA ComesBefore ==
  ASSUME line' = line, line \in Lines, NEW k \in 1 .. Len(line) + 1,
         cmd' = Null, pos' = Start(k), status' = "scanning",
         NothingAsked(k, 0), PalletIs(pallet', k, 0), ThemeIs(theme', k)
  PROVE  ScanInv'
<1>1. Before(k)' BY SameLine DEF Before
<1>2. k \in Nat BY LineShape
<1> QED BY <1>1, <1>2 DEF ScanInv

\* The same for a place in a clause.
LEMMA ComesInside ==
  ASSUME line' = line, line \in Lines,
         NEW k \in DOMAIN line, NEW n \in 1 .. Len(line[k].groups) + 1,
         cmd' = line[k].cmd, pos' = GroupStart(k, n), status' = "scanning",
         NothingAsked(k, n), PalletIs(pallet', k, n), ThemeIs(theme', k)
  PROVE  ScanInv'
<1>1. Inside(k, n)' BY SameLine DEF Inside
<1>2. k \in Nat /\ n \in Nat
  <2>1. line[k].groups \in Seq(Seq(STRING)) BY LineShape
  <2> QED BY <2>1, LineShape
<1> QED BY <1>1, <1>2 DEF ScanInv

\* The same for an end that a clause asks for.
LEMMA StopsAsAsked ==
  ASSUME line' = line, NEW k \in DOMAIN line, AsksToStop(line[k]), Exit("success")
  PROVE  ScanInv'
<1>1. line'[k] = line[k] /\ k \in DOMAIN line' OBVIOUS
<1> QED BY <1>1 DEF Exit, ScanInv

\* At the top the scanner reads the command of a clause.
LEMMA AtCommand ==
  ASSUME TypeOK, ScanInv, ReadableLine, status = "scanning", cmd = Null
  PROVE  \E k \in 1 .. Len(line) + 1 :
           /\ Before(k)
           /\ pos < argc => k \in DOMAIN line
           /\ pos = argc => k = Len(line) + 1
           /\ k \in DOMAIN line => /\ pos < argc /\ word = line[k].cmd
                                   /\ word \in Commands /\ Readable(line[k])
<1>1. line \in Lines BY DEF TypeOK
<1>2. ASSUME NEW k \in Nat, NEW n \in Nat, Inside(k, n) PROVE FALSE
  <2>1. k \in DOMAIN line /\ line[k].cmd = Null BY <1>2 DEF Inside
  <2> QED BY <1>1, <2>1, LineShape, WordAssumption
<1>3. PICK k \in Nat : Before(k) BY <1>2 DEF ScanInv
<1>4. k \in 1 .. Len(line) + 1 /\ pos = Start(k) BY <1>3 DEF Before
<1>5. /\ Len(line) \in Nat /\ DOMAIN line = 1 .. Len(line)
      /\ argc \in Nat
  BY <1>1, LineShape, ArgvIsWords
<1>6. Start(Len(line) + 1) = argc BY <1>1, ClausePlaces
<1>7. ASSUME k \in DOMAIN line
      PROVE  /\ pos < argc /\ word = line[k].cmd
             /\ word \in Commands /\ Readable(line[k])
  <2>1. /\ Start(k) \in Nat /\ Start(k) < Start(k + 1) /\ Start(k + 1) <= argc
        /\ Start(k + 1) = Start(k) + Len(WordsOf(line[k]))
    BY <1>1, <1>7, ClausePlaces
  <2>2. argv[Start(k)] = line[k].cmd BY <1>1, <1>7, GroupPlaces
  <2>3. Len(WordsOf(line[k])) \in Nat
    <3>1. WordsOf(line[k]) \in Seq(STRING) BY <1>1, <1>7, ClauseWords
    <3> QED BY <3>1
  <2>4. Readable(line[k]) BY <1>7 DEF ReadableLine
  <2>5. line[k].cmd \in Commands BY <2>4 DEF Readable, Commands
  <2> QED BY <1>4, <1>5, <2>1, <2>2, <2>3, <2>4, <2>5 DEF word
<1>8. k # Len(line) + 1 => k \in DOMAIN line BY <1>4, <1>5
<1> QED BY <1>3, <1>4, <1>5, <1>6, <1>7, <1>8

\* In a clause the scanner reads the first word of a group, or it is at the end
\* of the clause: at the end of argv or at the next command.
LEMMA AtGroup ==
  ASSUME TypeOK, ScanInv, ReadableLine, status = "scanning", cmd # Null
  PROVE  \E k \in DOMAIN line, n \in Nat :
           /\ Inside(k, n) /\ n \in 1 .. Len(line[k].groups) + 1
           /\ n \in DOMAIN line[k].groups =>
                LET g == line[k].groups[n]
                IN  /\ pos < argc /\ word = g[1]
                    /\ GroupStart(k, n + 1) = pos + Len(g)
                    /\ \/ g = << "--help" >>
                       \/ Len(g) = 1 /\ \E t \in Switches : t[1] = cmd /\ t[2] = g[1]
                       \/ /\ Len(g) = 2 /\ \E t \in Valued : t[1] = cmd /\ t[2] = g[1]
                          /\ pos + 1 < argc /\ argv[pos + 1] = g[2]
           /\ n \notin DOMAIN line[k].groups =>
                /\ n = Len(line[k].groups) + 1 /\ pos = Start(k + 1)
                /\ pos < argc => word \notin DashWords
<1>1. line \in Lines BY DEF TypeOK
<1>2. /\ Len(line) \in Nat /\ DOMAIN line = 1 .. Len(line)
      /\ argc \in Nat /\ pos \in Nat
  BY <1>1, LineShape, ArgvIsWords DEF TypeOK
<1>3. ~ \E k \in Nat : Before(k) BY DEF Before
<1>4. PICK k \in Nat, n \in Nat : Inside(k, n) BY <1>3 DEF ScanInv
<1>5. /\ k \in DOMAIN line /\ n \in 1 .. Len(line[k].groups) + 1
      /\ cmd = line[k].cmd /\ pos = GroupStart(k, n)
  BY <1>4 DEF Inside
<1>6. line[k].groups \in Seq(Seq(STRING)) BY <1>1, <1>5, LineShape
<1>7. Readable(line[k]) /\ line[k].cmd \in Parsed
  <2>1. Readable(line[k]) BY <1>5 DEF ReadableLine
  <2> QED BY <1>5, <2>1 DEF TypeOK
<1>8. /\ GroupStart(k, Len(line[k].groups) + 1) = Start(k + 1)
      /\ Start(k + 1) <= argc
  BY <1>1, <1>5, GroupPlaces, ClausePlaces
<1>9. ASSUME n \in DOMAIN line[k].groups
      PROVE  LET g == line[k].groups[n]
             IN  /\ pos < argc /\ word = g[1]
                 /\ GroupStart(k, n + 1) = pos + Len(g)
                 /\ \/ g = << "--help" >>
                    \/ Len(g) = 1 /\ \E t \in Switches : t[1] = cmd /\ t[2] = g[1]
                    \/ /\ Len(g) = 2 /\ \E t \in Valued : t[1] = cmd /\ t[2] = g[1]
                       /\ pos + 1 < argc /\ argv[pos + 1] = g[2]
  <2> DEFINE g == line[k].groups[n]
  <2>1. /\ GroupStart(k, n + 1) = pos + Len(g)
        /\ GroupStart(k, n + 1) <= Start(k + 1)
        /\ \A j \in 1 .. Len(g) : argv[pos + j - 1] = g[j]
    BY <1>1, <1>5, <1>9, GroupPlaces
  <2>2. \/ g = << "--help" >>
        \/ Len(g) = 1 /\ \E t \in Switches : t[1] = cmd /\ t[2] = g[1]
        \/ Len(g) = 2 /\ \E t \in Valued : t[1] = cmd /\ t[2] = g[1]
    BY <1>5, <1>7, <1>9 DEF Readable, Parsed
  <2> HIDE DEF g
  <2>3. Len(g) \in {1, 2} BY <2>2
  <2>4. Start(k + 1) \in Nat
    <3>1. Start(k) \in Nat /\ Start(k + 1) = Start(k) + Len(WordsOf(line[k]))
      BY <1>1, <1>5, ClausePlaces
    <3>2. WordsOf(line[k]) \in Seq(STRING) BY <1>1, <1>5, ClauseWords
    <3> QED BY <3>1, <3>2
  <2>5. pos < argc /\ (Len(g) = 2 => pos + 1 < argc)
    <3>1. pos + Len(g) <= Start(k + 1) BY <2>1
    <3>2. pos + Len(g) <= argc
      <4>1. argc \in Nat /\ pos \in Nat /\ Len(g) \in Nat BY <1>2, <2>3
      <4>2. Start(k + 1) <= argc BY <1>8
      <4> QED BY <2>4, <3>1, <4>1, <4>2
    <3> QED BY <1>2, <2>3, <3>2
  <2>6. word = g[1]
    <3>1. 1 \in 1 .. Len(g) /\ pos + 1 - 1 = pos BY <1>2, <2>3
    <3> QED BY <2>1, <3>1 DEF word
  <2>7. Len(g) = 2 => argv[pos + 1] = g[2]
    <3>1. pos + 2 - 1 = pos + 1 BY <1>2
    <3> QED BY <2>1, <3>1
  <2>8. GroupStart(k, n + 1) = pos + Len(g) BY <2>1
  <2> QED BY <2>2, <2>5, <2>6, <2>7, <2>8 DEF g
<1>10. ASSUME n \notin DOMAIN line[k].groups
       PROVE  /\ n = Len(line[k].groups) + 1 /\ pos = Start(k + 1)
              /\ pos < argc => word \notin DashWords
  <2>1. n = Len(line[k].groups) + 1 BY <1>5, <1>6, <1>10
  <2>2. pos = Start(k + 1) BY <1>5, <1>8, <2>1
  <2>3. ASSUME pos < argc PROVE word \notin DashWords
    <3>1. k + 1 \in DOMAIN line
      <4>1. Start(Len(line) + 1) = argc BY <1>1, ClausePlaces
      <4>2. ASSUME k = Len(line) PROVE FALSE
        <5>1. pos = argc BY <2>2, <4>1, <4>2
        <5> QED BY <1>2, <2>3, <5>1
      <4>3. k \in 1 .. Len(line) BY <1>2, <1>5
      <4>4. Len(line) \in Nat /\ k # Len(line) BY <1>2, <4>2
      <4>5. k + 1 \in 1 .. Len(line) BY <4>3, <4>4
      <4> QED BY <1>2, <4>5
    <3>2. word = line[k + 1].cmd BY <1>1, <2>2, <3>1, GroupPlaces DEF word
    <3>3. Readable(line[k + 1]) BY <3>1 DEF ReadableLine
    <3>4. word \in Commands BY <3>2, <3>3 DEF Readable, Commands
    <3> QED BY <3>4, WordAssumption
  <2> QED BY <2>1, <2>2, <2>3
<1> QED BY <1>4, <1>5, <1>9, <1>10
\* A clause without a parser of its own is passed: of the parts of the pallet
\* the same was read before it and behind it.
LEMMA PalletPassed ==
  ASSUME line \in Lines, NEW p, NEW k \in DOMAIN line, NEW n \in Nat,
         line[k].cmd \notin Parsed \/ n = Len(line[k].groups) + 1,
         PalletIs(p, k, n)
  PROVE  PalletIs(p, k + 1, 0)
<1>1. ASSUME NEW c \in DOMAIN Zeroed, NEW f \in DOMAIN Zeroed[c]
      PROVE  Says(c, f, p[c][f], k + 1, 0)
  <2>1. c \in Parsed BY DEF Zeroed, Parsed
  <2>2. Begun(c, k, n) = Begun(c, k + 1, 0) /\ Read(c, k, n) = Read(c, k + 1, 0)
    BY <2>1, ClauseIsRead
  <2>3. Says(c, f, p[c][f], k, n) BY DEF PalletIs
  <2> QED BY <2>2, <2>3, SaysTheSame
<1> QED BY <1>1 DEF PalletIs

\* Nothing was asked before a clause that does not ask, nor is behind it.
LEMMA NothingAskedBehind ==
  ASSUME line \in Lines, NEW k \in DOMAIN line, NothingAsked(k, 0), ~ AsksToStop(line[k])
  PROVE  NothingAsked(k + 1, 0)
BY LineShape DEF NothingAsked

\* A clause of another command leaves the theme.
LEMMA ThemePassed ==
  ASSUME line \in Lines, NEW t, NEW k \in DOMAIN line, line[k].cmd # "theme", ThemeIs(t, k)
  PROVE  ThemeIs(t, k + 1)
<1>1. Begun("theme", k, 0) = Begun("theme", k + 1, 0) BY ClauseIsRead
<1> QED BY <1>1 DEF ThemeIs

\* A command without a loop of its own and one word: the next clause is two
\* words on.
LEMMA OneWordClause ==
  ASSUME line \in Lines, NEW k \in DOMAIN line, NEW w, line[k].groups = << << w >> >>
  PROVE  /\ argv[Start(k) + 1] = w
         /\ Start(k) \in Nat
         /\ Start(k) + 2 = Start(k + 1)
         /\ Start(k) + 1 < argc
         /\ k + 1 \in 1 .. Len(line) + 1
<1>1. /\ DOMAIN line[k].groups = 1 .. 1 /\ Len(line[k].groups) = 1
      /\ line[k].groups[1] = << w >> /\ Len(line[k].groups[1]) = 1
      /\ line[k].groups[1][1] = w
  OBVIOUS
<1>2. /\ GroupStart(k, 1) = Start(k) + 1
      /\ GroupStart(k, 1 + 1) = GroupStart(k, 1) + 1
      /\ GroupStart(k, 1 + 1) = Start(k + 1)
      /\ argv[GroupStart(k, 1) + 1 - 1] = w
  BY <1>1, GroupPlaces
<1>3. Start(k) \in Nat /\ Start(k + 1) <= argc BY ClausePlaces
<1>4. argc \in Nat BY ArgvIsWords
<1>5. Start(k) + 2 = Start(k + 1) /\ GroupStart(k, 1) + 1 - 1 = Start(k) + 1 BY <1>2, <1>3
<1>6. k + 1 \in 1 .. Len(line) + 1 BY LineShape
<1> QED BY <1>2, <1>3, <1>4, <1>5, <1>6

\* The commands read at the top.
LEMMA TopKeeps ==
  ASSUME TypeOK, ScanInv, ReadableLine, line' = line, cmd = Null,
         GlobalFlag \/ UnknownFlag \/ UnknownCommand \/ HelpCommand \/ ColorCommand
         \/ ThemeCommand
  PROVE  ScanInv'
<1>1. line \in Lines BY DEF TypeOK
<1>2. AtTop
  BY DEF GlobalFlag, UnknownFlag, UnknownCommand, HelpCommand, ColorCommand, ThemeCommand
<1>3. PICK k \in DOMAIN line :
        /\ Before(k)
        /\ pos < argc /\ word = line[k].cmd
        /\ word \in Commands /\ Readable(line[k])
  BY <1>2, AtCommand DEF AtTop
<1>4. pos = Start(k) /\ NothingAsked(k, 0) /\ PalletIs(pallet, k, 0) /\ ThemeIs(theme, k)
  BY <1>3 DEF Before
<1>5. /\ Len(line) \in Nat /\ DOMAIN line = 1 .. Len(line) /\ argc \in Nat /\ k \in Nat
  BY <1>1, LineShape, ArgvIsWords
<1>6. word \notin DashWords /\ word \notin {"--version", "-v", "--help", "-h"}
  BY <1>3, WordAssumption DEF Commands, Parsed
<1>7. ~ GlobalFlag /\ ~ UnknownFlag /\ ~ UnknownCommand
  BY <1>3, <1>6 DEF GlobalFlag, UnknownFlag, UnknownCommand
<1>8. CASE HelpCommand
  <2>1. line[k].cmd = "help" BY <1>3, <1>8 DEF HelpCommand
  <2>2. line[k].groups = << >> BY <1>3, <2>1 DEF Readable, Parsed
  <2>3. Len(line[k].groups) = 0 BY <2>2
  <2>4. Start(k + 1) = pos + 1 BY <1>1, <1>4, <2>3, GroupPlaces
  <2>5. pos + 1 = argc \/ argv[pos + 1] \in Commands \ {"help"}
    <3>1. CASE k = Len(line) BY <1>1, <2>4, <3>1, ClausePlaces
    <3>2. CASE k # Len(line)
      <4>1. k + 1 \in DOMAIN line /\ k \in 1 .. Len(line) - 1
        <5>1. k \in 1 .. Len(line) BY <1>5
        <5>2. k + 1 \in 1 .. Len(line) /\ k \in 1 .. Len(line) - 1 BY <1>5, <3>2, <5>1
        <5> QED BY <1>5, <5>2
      <4>2. argv[pos + 1] = line[k + 1].cmd BY <1>1, <2>4, <4>1, GroupPlaces
      <4>3. line[k + 1].cmd # "help" BY <2>1, <4>1 DEF ReadableLine
      <4>4. Readable(line[k + 1]) BY <4>1 DEF ReadableLine
      <4>5. line[k + 1].cmd \in Commands BY <4>4 DEF Readable, Commands
      <4> QED BY <4>2, <4>3, <4>5
    <3> QED BY <3>1, <3>2
  <2>6. Exit("success") BY <1>8, <2>5 DEF HelpCommand
  <2>7. AsksToStop(line[k]) BY <2>1 DEF AsksToStop
  <2> QED BY <2>6, <2>7, StopsAsAsked
<1>9. CASE ColorCommand
  <2>1. line[k].cmd = "color" BY <1>3, <1>9 DEF ColorCommand
  <2>2. PICK m \in {"enable", "disable", "auto"} : line[k].groups = << << m >> >>
    BY <1>3, <2>1 DEF Readable, Parsed
  <2>3. /\ argv[pos + 1] = m /\ pos + 1 < argc /\ pos + 2 = Start(k + 1)
        /\ k + 1 \in 1 .. Len(line) + 1
    BY <1>1, <1>4, <2>2, OneWordClause
  <2>4. /\ pos' = Start(k + 1)
        /\ UNCHANGED << line, cmd, pallet, theme, status >>
    BY <1>9, <2>3 DEF ColorCommand, PastValue
  <2>5. ~ AsksToStop(line[k]) BY <2>1, <2>2 DEF AsksToStop, Contains
  <2>6. NothingAsked(k + 1, 0) BY <1>1, <1>4, <2>5, NothingAskedBehind
  <2>7. PalletIs(pallet', k + 1, 0) BY <1>1, <1>4, <2>1, <2>4, PalletPassed DEF Parsed
  <2>8. ThemeIs(theme', k + 1) BY <1>1, <1>4, <2>1, <2>4, ThemePassed
  <2>9. cmd' = Null /\ status' = "scanning" BY <1>2, <2>4 DEF AtTop
  <2> QED BY <1>1, <2>3, <2>4, <2>6, <2>7, <2>8, <2>9, ComesBefore
<1>10. CASE ThemeCommand
  <2>1. line[k].cmd = "theme" BY <1>3, <1>10 DEF ThemeCommand
  <2>2. PICK t \in Themes : line[k].groups = << << t >> >>
    BY <1>3, <2>1 DEF Readable, Parsed
  <2>3. /\ argv[pos + 1] = t /\ pos + 1 < argc /\ pos + 2 = Start(k + 1)
        /\ k + 1 \in 1 .. Len(line) + 1
    BY <1>1, <1>4, <2>2, OneWordClause
  <2>4. /\ pos' = Start(k + 1) /\ theme' = t
        /\ UNCHANGED << line, cmd, pallet, status >>
    BY <1>10, <2>3 DEF ThemeCommand, PastValue
  <2>5. ~ AsksToStop(line[k]) BY <2>1, <2>2 DEF AsksToStop, Contains, Themes
  <2>6. NothingAsked(k + 1, 0) BY <1>1, <1>4, <2>5, NothingAskedBehind
  <2>7. PalletIs(pallet', k + 1, 0) BY <1>1, <1>4, <2>1, <2>4, PalletPassed DEF Parsed
  <2>8. ThemeIs(theme', k + 1)
    <3>1. k \in Begun("theme", k + 1, 0) BY <1>5, <2>1 DEF Begun, PlacesOf
    <3>2. \A i \in Begun("theme", k + 1, 0) : i <= k BY <1>5 DEF Begun, PlacesOf
    <3>3. line[k].groups[1][1] = t BY <2>2
    <3> QED BY <2>4, <3>1, <3>2, <3>3 DEF ThemeIs
  <2>9. cmd' = Null /\ status' = "scanning" BY <1>2, <2>4 DEF AtTop
  <2> QED BY <1>1, <2>3, <2>4, <2>6, <2>7, <2>8, <2>9, ComesBefore
<1> QED BY <1>7, <1>8, <1>9, <1>10

\* The scan ends behind the last clause.
LEMMA ReturnKeeps ==
  ASSUME TypeOK, ScanInv, ReadableLine, line' = line, Return
  PROVE  ScanInv'
<1> DEFINE k == Len(line) + 1
<1>1. Before(k) BY AtCommand DEF Return
<1>2. NothingAsked(k, 0) /\ PalletIs(pallet, k, 0) /\ ThemeIs(theme, k) BY <1>1 DEF Before
<1>3. pallet' = pallet /\ theme' = theme /\ status' = "returned" BY DEF Return
<1> HIDE DEF k
<1>4. NothingAsked(k, 0)' /\ PalletIs(pallet, k, 0)' /\ ThemeIs(theme, k)'
  BY <1>2, <1>3, SameLine DEF k
<1> QED BY <1>3, <1>4 DEF ScanInv, k

\* A command with options begins.
LEMMA BeginKeeps ==
  ASSUME TypeOK, ScanInv, ReadableLine, line' = line, NEW c \in Parsed, BeginCommand(c)
  PROVE  ScanInv'
<1>1. line \in Lines BY DEF TypeOK
<1>2. PICK k \in DOMAIN line : Before(k) /\ word = line[k].cmd
  BY AtCommand DEF BeginCommand, AtTop
<1>3. pos = Start(k) /\ NothingAsked(k, 0) /\ PalletIs(pallet, k, 0) /\ ThemeIs(theme, k)
  BY <1>2 DEF Before
<1>4. /\ line[k].cmd = c /\ cmd' = c /\ pos' = pos + 1 /\ status' = "scanning"
      /\ pallet' = [pallet EXCEPT ![c] = Defaults(c, pallet[c])] /\ theme' = theme
  BY <1>2 DEF BeginCommand, AtTop
<1>5. pos' = GroupStart(k, 1) BY <1>1, <1>3, <1>4, GroupPlaces
<1>6. NothingAsked(k, 1)
  <2>1. line[k].groups \in Seq(Seq(STRING)) BY <1>1, LineShape
  <2>2. \A m \in DOMAIN line[k].groups : ~ (m < 1) BY <2>1
  <2> QED BY <1>3, <2>2 DEF NothingAsked
<1>7. PalletIs(pallet', k, 1)
  <2> SUFFICES ASSUME NEW b \in DOMAIN Zeroed, NEW f \in DOMAIN Zeroed[b]
               PROVE  Says(b, f, pallet'[b][f], k, 1)
    BY DEF PalletIs
  <2>1. Says(b, f, pallet[b][f], k, 0) BY <1>3 DEF PalletIs
  <2>2. DOMAIN pallet = DOMAIN Zeroed /\ DOMAIN pallet[b] = DOMAIN Zeroed[b]
    BY DEF TypeOK
  <2>3. CASE b = c
    <3>1. pallet'[b] = Defaults(b, pallet[b]) BY <1>4, <2>2, <2>3
    <3> QED BY <1>1, <1>4, <2>1, <2>2, <2>3, <3>1, BeginSays
  <2>4. CASE b # c
    <3>1. pallet'[b] = pallet[b] BY <1>4, <2>2, <2>4
    <3>2. /\ Begun(b, k, 0) = Begun(b, k + 1, 0) /\ Read(b, k, 0) = Read(b, k + 1, 0)
          /\ Begun(b, k, 1) = Begun(b, k + 1, 0) /\ Read(b, k, 1) = Read(b, k + 1, 0)
      BY <1>1, <1>4, <2>4, ClauseIsRead
    <3>3. Begun(b, k, 0) = Begun(b, k, 1) /\ Read(b, k, 0) = Read(b, k, 1) BY <3>2
    <3> QED BY <2>1, <3>1, <3>3, SaysTheSame
  <2> QED BY <2>3, <2>4
<1>8. 1 \in 1 .. Len(line[k].groups) + 1
  <2>1. line[k].groups \in Seq(Seq(STRING)) BY <1>1, LineShape
  <2> QED BY <2>1
<1> QED BY <1>1, <1>3, <1>4, <1>5, <1>6, <1>7, <1>8, ComesInside

\* A group is read that sets a field.
LEMMA GroupIsRead ==
  ASSUME line \in Lines, NEW k \in DOMAIN line, NEW n \in DOMAIN line[k].groups,
         NEW c \in Parsed, line[k].cmd = c, NEW p, NEW q, PalletIs(p, k, n),
         NEW field, << c, line[k].groups[n][1], field >> \in Valued \cup Switches,
         \A b \in DOMAIN Zeroed : \A f \in DOMAIN Zeroed[b] :
           q[b][f] = IF b = c /\ f = field THEN Given(<< k, n >>, field) ELSE p[b][f]
  PROVE  PalletIs(q, k, n + 1)
<1> SUFFICES ASSUME NEW b \in DOMAIN Zeroed, NEW f \in DOMAIN Zeroed[b]
             PROVE  Says(b, f, q[b][f], k, n + 1)
  BY DEF PalletIs
<1>1. Says(b, f, p[b][f], k, n) BY DEF PalletIs
<1>2. n \in Nat
  <2>1. line[k].groups \in Seq(Seq(STRING)) BY LineShape
  <2> QED BY <2>1
<1>3. CASE b # c
  <2>1. q[b][f] = p[b][f] BY <1>3
  <2>2. /\ Begun(b, k, n) = Begun(b, k + 1, 0) /\ Read(b, k, n) = Read(b, k + 1, 0)
        /\ Begun(b, k, n + 1) = Begun(b, k + 1, 0) /\ Read(b, k, n + 1) = Read(b, k + 1, 0)
    BY <1>2, <1>3, ClauseIsRead
  <2>3. Begun(b, k, n) = Begun(b, k, n + 1) /\ Read(b, k, n) = Read(b, k, n + 1)
    BY <2>2
  <2> QED BY <1>1, <2>1, <2>3, SaysTheSame
<1>4. CASE b = c /\ f = field
  <2>1. Reads(c, line[k].groups[n], field) BY DEF Reads
  <2>2. q[b][f] = Given(<< k, n >>, field) BY <1>4
  <2> QED BY <1>4, <2>1, <2>2, OptionSays
<1>5. CASE b = c /\ f # field
  <2>1. ~ Reads(c, line[k].groups[n], f) BY <1>5, Options DEF Reads
  <2>2. q[b][f] = p[b][f] BY <1>5
  <2> QED BY <1>1, <1>5, <2>1, <2>2, OptionSays
<1> QED BY <1>3, <1>4, <1>5

\* An option of the parser that runs.
LEMMA OptionKeeps ==
  ASSUME TypeOK, ScanInv, ReadableLine, line' = line, NEW c \in Parsed, Option(c)
  PROVE  ScanInv'
<1>1. line \in Lines BY DEF TypeOK
<1>2. status = "scanning" /\ cmd = c /\ pos < argc /\ cmd # Null
  <2>1. Reading(c) BY DEF Option, TakeValue, SetSwitch, SubHelp, IgnoreWord
  <2>2. c \in Commands BY DEF Commands
  <2> QED BY <2>1, <2>2, WordAssumption DEF Reading
<1>3. word \in DashWords
  <2>1. \A t \in Valued \cup Switches : t[2] \in DashWords BY WordAssumption
  <2>2. "--help" \in DashWords BY WordAssumption
  <2>3. ASSUME NEW field, << c, word, field >> \in Valued \cup Switches
        PROVE  word \in DashWords
    <3> DEFINE t == << c, word, field >>
    <3>1. t \in Valued \cup Switches /\ t[2] = word BY <2>3
    <3> HIDE DEF t
    <3> QED BY <2>1, <3>1
  <2> QED BY <2>2, <2>3 DEF Option, TakeValue, SetSwitch, SubHelp, IgnoreWord
<1>4. PICK k \in DOMAIN line, n \in Nat :
        /\ Inside(k, n) /\ n \in 1 .. Len(line[k].groups) + 1
        /\ n \in DOMAIN line[k].groups
        /\ LET g == line[k].groups[n]
           IN  /\ word = g[1]
               /\ GroupStart(k, n + 1) = pos + Len(g)
               /\ \/ g = << "--help" >>
                  \/ Len(g) = 1 /\ \E t \in Switches : t[1] = cmd /\ t[2] = g[1]
                  \/ /\ Len(g) = 2 /\ \E t \in Valued : t[1] = cmd /\ t[2] = g[1]
                     /\ pos + 1 < argc /\ argv[pos + 1] = g[2]
  BY <1>2, <1>3, AtGroup
<1> DEFINE g == line[k].groups[n]
<1>5. /\ word = g[1]
      /\ GroupStart(k, n + 1) = pos + Len(g)
      /\ \/ g = << "--help" >>
         \/ Len(g) = 1 /\ \E t \in Switches : t[1] = c /\ t[2] = g[1]
         \/ /\ Len(g) = 2 /\ \E t \in Valued : t[1] = c /\ t[2] = g[1]
            /\ pos + 1 < argc /\ argv[pos + 1] = g[2]
  BY <1>2, <1>4
<1>6. /\ line[k].cmd = c /\ NothingAsked(k, n) /\ PalletIs(pallet, k, n) /\ ThemeIs(theme, k)
      /\ n \in DOMAIN line[k].groups
  BY <1>2, <1>4 DEF Inside
<1>7. line[k].groups \in Seq(Seq(STRING)) BY <1>1, LineShape
<1>8. n \in Nat /\ n + 1 \in 1 .. Len(line[k].groups) + 1 /\ n >= 1 BY <1>6, <1>7
<1>9. GroupAt(<< k, n >>) = g BY DEF GroupAt
<1>9a. g \in Seq(STRING) BY <1>6, <1>7
<1> HIDE DEF g
<1>10. g # << "--help" >> => NothingAsked(k, n + 1)
  <2>1. \A m \in DOMAIN line[k].groups : m < n + 1 => m < n \/ m = n BY <1>7, <1>8
  <2> QED BY <1>6, <1>8, <2>1 DEF NothingAsked, g
<1>11. DOMAIN pallet = DOMAIN Zeroed /\ \A b \in DOMAIN Zeroed : DOMAIN pallet[b] = DOMAIN Zeroed[b]
  BY DEF TypeOK
<1>12. c \in DOMAIN Zeroed BY DEF Parsed, Zeroed
<1>13. CASE TakeValue(c)
  <2>1. PICK field \in DOMAIN pallet[c] :
          /\ << c, word, field >> \in Valued
          /\ pallet' = [pallet EXCEPT ![c][field] = Value(field, argv[pos + 1])]
    BY <1>13 DEF TakeValue
  <2>2. Len(g) = 2 /\ argv[pos + 1] = g[2] /\ g # << "--help" >>
    <3>1. g # << "--help" >>
      <4>1. word # "--help" BY <2>1, Options
      <4> QED BY <1>5, <4>1
    <3>2. ~ \E t \in Switches : t[1] = c /\ t[2] = g[1] BY <1>5, <2>1, Options
    <3> QED BY <1>5, <3>1, <3>2
  <2>3. /\ pos' = GroupStart(k, n + 1) /\ cmd' = line[k].cmd /\ status' = "scanning"
        /\ theme' = theme
    BY <1>2, <1>5, <1>6, <1>13, <2>2 DEF TakeValue, PastValue
  <2>4. Given(<< k, n >>, field) = Value(field, argv[pos + 1])
    BY <1>9, <2>2 DEF Given
  <2>5. PalletIs(pallet', k, n + 1)
    <3> DEFINE v == Given(<< k, n >>, field)
    <3>1. pallet' = [pallet EXCEPT ![c][field] = v] BY <2>1, <2>4
    <3> HIDE DEF v
    <3>2. \A b \in DOMAIN Zeroed : \A f \in DOMAIN Zeroed[b] :
            pallet'[b][f] = IF b = c /\ f = field THEN v ELSE pallet[b][f]
      BY <1>11, <1>12, <3>1
    <3>3. << c, line[k].groups[n][1], field >> \in Valued \cup Switches
      BY <1>5, <2>1 DEF g
    <3> QED BY <1>1, <1>6, <3>2, <3>3, GroupIsRead DEF v
  <2> QED BY <1>1, <1>6, <1>8, <1>10, <2>2, <2>3, <2>5, ComesInside
<1>14. CASE SetSwitch(c)
  <2>1. PICK field \in DOMAIN pallet[c] :
          /\ << c, word, field >> \in Switches
          /\ pallet' = [pallet EXCEPT ![c][field] = TRUE]
    BY <1>14 DEF SetSwitch
  <2>2. Len(g) = 1 /\ g # << "--help" >>
    <3>1. g # << "--help" >>
      <4>1. word # "--help" BY <2>1, Options
      <4> QED BY <1>5, <4>1
    <3>2. ~ \E t \in Valued : t[1] = c /\ t[2] = g[1] BY <1>5, <2>1, Options
    <3> QED BY <1>5, <3>1, <3>2
  <2>3. /\ pos' = GroupStart(k, n + 1) /\ cmd' = line[k].cmd /\ status' = "scanning"
        /\ theme' = theme
    BY <1>2, <1>5, <1>6, <1>14, <2>2 DEF SetSwitch
  <2>4. Given(<< k, n >>, field) = TRUE BY <1>9, <2>2 DEF Given
  <2>5. PalletIs(pallet', k, n + 1)
    <3> DEFINE v == Given(<< k, n >>, field)
    <3>1. pallet' = [pallet EXCEPT ![c][field] = v] BY <2>1, <2>4
    <3> HIDE DEF v
    <3>2. \A b \in DOMAIN Zeroed : \A f \in DOMAIN Zeroed[b] :
            pallet'[b][f] = IF b = c /\ f = field THEN v ELSE pallet[b][f]
      BY <1>11, <1>12, <3>1
    <3>3. << c, line[k].groups[n][1], field >> \in Valued \cup Switches
      BY <1>5, <2>1 DEF g
    <3> QED BY <1>1, <1>6, <3>2, <3>3, GroupIsRead DEF v
  <2> QED BY <1>1, <1>6, <1>8, <1>10, <2>2, <2>3, <2>5, ComesInside
<1>15. CASE SubHelp(c)
  <2>1. g[1] = "--help" /\ Exit("success") BY <1>5, <1>15 DEF SubHelp
  <2>2. g = << "--help" >>
    <3>1. \A t \in Valued \cup Switches : t[2] # "--help" BY Options
    <3> QED BY <1>5, <2>1, <3>1
  <2>3. n \in 1 .. Len(line[k].groups) BY <1>6, <1>7
  <2>4. Contains(line[k].groups, << "--help" >>) BY <2>2, <2>3 DEF Contains, g
  <2>5. AsksToStop(line[k]) BY <2>4 DEF AsksToStop
  <2> QED BY <2>1, <2>5, StopsAsAsked
<1>16. CASE IgnoreWord(c)
  <2>1. /\ word # "--help"
        /\ \A t \in Switches : t[1] = c => t[2] # word
        /\ \A t \in Valued : t[1] = c /\ t[2] = word => pos + 1 = argc
    BY <1>16 DEF IgnoreWord
  <2>2. g # << "--help" >> BY <1>5, <2>1
  <2>3. pos + 1 < argc /\ pos + 1 = argc BY <1>5, <2>1, <2>2
  <2>4. pos \in Nat /\ argc \in Nat BY <1>1, ArgvIsWords DEF TypeOK
  <2> QED BY <2>3, <2>4
<1> QED BY <1>13, <1>14, <1>15, <1>16 DEF Option

\* A parser that returns has read its clause; that of info exits instead, if it
\* was not asked for the program itself.
LEMMA EndKeeps ==
  ASSUME TypeOK, ScanInv, ReadableLine, line' = line, NEW c \in Parsed, EndCommand(c)
  PROVE  ScanInv'
<1>1. line \in Lines BY DEF TypeOK
<1>2. status = "scanning" /\ cmd = c /\ cmd # Null
  <2>1. c \in Commands BY DEF Commands
  <2> QED BY <2>1, WordAssumption DEF EndCommand
<1>3. \A t \in Valued \cup Switches : t[2] \in DashWords BY WordAssumption
<1>4. "--help" \in DashWords BY WordAssumption
<1>5. PICK k \in DOMAIN line, n \in Nat :
        /\ Inside(k, n)
        /\ n = Len(line[k].groups) + 1 /\ pos = Start(k + 1)
  <2>1. PICK k \in DOMAIN line, n \in Nat :
          /\ Inside(k, n)
          /\ n \in DOMAIN line[k].groups =>
               LET g == line[k].groups[n]
               IN  /\ pos < argc /\ word = g[1]
                   /\ \/ g = << "--help" >>
                      \/ \E t \in Switches : t[1] = cmd /\ t[2] = g[1]
                      \/ \E t \in Valued : t[1] = cmd /\ t[2] = g[1]
          /\ n \notin DOMAIN line[k].groups =>
               n = Len(line[k].groups) + 1 /\ pos = Start(k + 1)
    BY <1>2, AtGroup
  <2>2. ASSUME n \in DOMAIN line[k].groups PROVE FALSE
    <3>1. pos < argc /\ word \in DashWords BY <1>3, <1>4, <2>1, <2>2
    <3> QED BY <3>1 DEF EndCommand
  <2> QED BY <2>1, <2>2
<1>6. line[k].cmd = c /\ NothingAsked(k, n) /\ PalletIs(pallet, k, n) /\ ThemeIs(theme, k)
  BY <1>2, <1>5 DEF Inside
<1>7. /\ line[k].groups \in Seq(Seq(STRING)) /\ k \in Nat
      /\ Len(line) \in Nat /\ DOMAIN line = 1 .. Len(line)
  BY <1>1, LineShape
<1>8. /\ Len(line[k].groups) \in Nat /\ DOMAIN line[k].groups = 1 .. Len(line[k].groups)
      /\ n \in Nat /\ n > 0
  BY <1>5, <1>7
<1>9. c = "info" => (pallet.info.self <=> Contains(line[k].groups, << "--self" >>))
  <2> SUFFICES ASSUME c = "info"
               PROVE  pallet.info.self <=> Contains(line[k].groups, << "--self" >>)
    OBVIOUS
  <2>1. Says("info", "self", pallet.info.self, k, n) BY <1>6 DEF PalletIs, Zeroed
  <2>2. \A g : Reads("info", g, "self") <=> g[1] = "--self"
    BY DEF Reads, Valued, Switches
  <2>3. k \in Begun("info", k, n) BY <1>6, <1>8 DEF Begun, PlacesOf
  <2>4. ASSUME NEW g \in SettersRead("info", "self", k, n)
        PROVE  /\ g[2] \in 1 .. Len(line[k].groups)
               /\ line[k].groups[g[2]] = << "--self" >>
               /\ Given(g, "self") = TRUE
    <3>1. /\ g \in GroupsOf("info") /\ k <= g[1]
          /\ g[1] < k \/ (g[1] = k /\ g[2] < n)
          /\ GroupAt(g)[1] = "--self"
      BY <2>2, <2>3 DEF SettersRead, Read
    <3>2. g[1] \in Nat /\ g[2] \in DOMAIN line[g[1]].groups BY <1>1, <3>1, GroupsAre
    <3>3. g[1] = k BY <1>7, <3>1, <3>2
    <3>4. /\ g[2] \in DOMAIN line[k].groups /\ GroupAt(g) = line[k].groups[g[2]]
      BY <3>2, <3>3 DEF GroupAt
    <3> DEFINE w == line[k].groups[g[2]]
    <3>5. w[1] = "--self" BY <3>1, <3>4
    <3>6. Readable(line[k]) BY DEF ReadableLine
    <3>7. \/ w = << "--help" >>
          \/ Len(w) = 1 /\ \E t \in Switches : t[1] = "info" /\ t[2] = w[1]
          \/ Len(w) = 2 /\ \E t \in Valued : t[1] = "info" /\ t[2] = w[1]
      BY <1>6, <3>4, <3>6 DEF Readable, Parsed
    <3>8. w \in Seq(STRING) BY <1>7, <3>4
    <3> HIDE DEF w
    <3>9. Len(w) = 1
      <4>1. ~ \E t \in Valued : t[1] = "info" BY DEF Valued
      <4>2. w # << "--help" >> BY <3>5
      <4> QED BY <3>7, <4>1, <4>2
    <3>10. w = << "--self" >> BY <3>5, <3>8, <3>9
    <3>11. Given(g, "self") = TRUE BY <3>4, <3>9 DEF Given, w
    <3> QED BY <1>8, <3>4, <3>10, <3>11 DEF w
  <2>5. CASE SettersRead("info", "self", k, n) # {}
    <3>1. PICK g \in SettersRead("info", "self", k, n) : pallet.info.self = Given(g, "self")
      BY <2>1, <2>5 DEF Says
    <3>2. pallet.info.self = TRUE BY <2>4, <3>1
    <3>3. Contains(line[k].groups, << "--self" >>) BY <2>4, <3>1 DEF Contains
    <3> QED BY <3>2, <3>3
  <2>6. CASE SettersRead("info", "self", k, n) = {}
    <3>1. pallet.info.self = Defaults("info", Zeroed["info"])["self"]
      BY <2>1, <2>3, <2>6 DEF Says
    <3>2. pallet.info.self = FALSE BY <3>1 DEF Defaults, Zeroed
    <3>3. ASSUME NEW m \in 1 .. Len(line[k].groups), line[k].groups[m] = << "--self" >>
          PROVE  FALSE
      <4> DEFINE g == << k, m >>
      <4>1. k \in PlacesOf("info") /\ m \in DOMAIN line[k].groups BY <1>6, <1>8 DEF PlacesOf
      <4>2. g \in GroupsOf("info") BY <1>1, <4>1, GroupsAre
      <4>3. g[1] = k /\ g[2] = m /\ GroupAt(g)[1] = "--self" BY <3>3 DEF GroupAt
      <4> HIDE DEF g
      <4>4. m < n BY <1>5, <1>8
      <4>5. \A i \in Begun("info", k, n) : i <= g[1] BY <1>7, <4>3 DEF Begun, PlacesOf
      <4>6. g \in SettersRead("info", "self", k, n)
        BY <2>2, <4>2, <4>3, <4>4, <4>5 DEF SettersRead, Read
      <4> QED BY <2>6, <4>6
    <3> QED BY <3>2, <3>3 DEF Contains
  <2> QED BY <2>5, <2>6
<1>10. CASE InfoExits(c)
  <2>1. AsksToStop(line[k]) BY <1>6, <1>9, <1>10 DEF InfoExits, AsksToStop
  <2>2. Exit("success") BY <1>10 DEF EndCommand
  <2> QED BY <2>1, <2>2, StopsAsAsked
<1>11. CASE ~ InfoExits(c)
  <2>1. /\ cmd' = Null /\ pos' = Start(k + 1) /\ status' = "scanning"
        /\ pallet' = pallet /\ theme' = theme
    BY <1>2, <1>5, <1>11 DEF EndCommand, Resume
  <2>2. ~ AsksToStop(line[k])
    <3>1. c # "help" BY DEF Parsed
    <3>2. ~ Contains(line[k].groups, << "--help" >>)
      <4>1. \A m \in DOMAIN line[k].groups : m < n BY <1>5, <1>8
      <4> QED BY <1>6, <1>8, <4>1 DEF NothingAsked, Contains
    <3>3. c = "info" => Contains(line[k].groups, << "--self" >>)
      BY <1>9, <1>11 DEF InfoExits
    <3> QED BY <1>6, <3>1, <3>2, <3>3 DEF AsksToStop
  <2>3. NothingAsked(k + 1, 0)
    <3>1. NothingAsked(k, 0) BY <1>6 DEF NothingAsked
    <3> QED BY <1>1, <2>2, <3>1, NothingAskedBehind
  <2>4. PalletIs(pallet', k + 1, 0) BY <1>1, <1>5, <1>6, <1>8, <2>1, PalletPassed
  <2>5. ThemeIs(theme', k + 1)
    <3>1. line[k].cmd # "theme" BY <1>6 DEF Parsed
    <3> QED BY <1>1, <1>6, <2>1, <3>1, ThemePassed
  <2>6. k + 1 \in 1 .. Len(line) + 1 BY <1>7
  <2> QED BY <1>1, <2>1, <2>3, <2>4, <2>5, <2>6, ComesBefore
<1> QED BY <1>10, <1>11

\* On a line of well-formed clauses the scanner keeps to the clauses.
THEOREM ScannerKeepsToClauses == Spec => []ScanInv
<1>1. Init => ScanInv
  <2> SUFFICES ASSUME Init, ReadableLine PROVE ScanInv
    BY DEF ScanInv
  <2>1. line \in Lines /\ pallet = Zeroed /\ cmd = Null /\ pos = 1 /\ theme = "fossil"
    BY DEF Init
  <2>2. Len(line) \in Nat /\ \A k \in DOMAIN line : k \in Nat /\ k >= 1
    BY <2>1, LineShape
  <2>3. \A c : Begun(c, 1, 0) = {} /\ PlacesOf(c) \subseteq DOMAIN line
    BY <2>2 DEF Begun, PlacesOf
  <2>4. \A c : Read(c, 1, 0) = {}
    <3>1. ASSUME NEW c, NEW g \in GroupsOf(c)
          PROVE  g[1] \in Nat /\ g[1] >= 1 /\ g[2] \in Nat
      BY <2>1, GroupsAre
    <3> QED BY <3>1 DEF Read
  <2>5. PalletIs(pallet, 1, 0)
    <3>1. \A c, f : SettersRead(c, f, 1, 0) = {} BY <2>4 DEF SettersRead
    <3> QED BY <2>1, <2>3, <3>1 DEF PalletIs, Says
  <2>6. ThemeIs(theme, 1) BY <2>1, <2>3 DEF ThemeIs
  <2>7. NothingAsked(1, 0) BY <2>2 DEF NothingAsked
  <2>8. pos = Start(1) BY <2>1, ClausePlaces
  <2>9. Before(1) BY <2>1, <2>2, <2>5, <2>6, <2>7, <2>8 DEF Before
  <2>10. status = "scanning" BY DEF Init
  <2> QED BY <2>9, <2>10 DEF ScanInv
<1>2. TypeOK /\ ScanInv /\ [Next]_vars => ScanInv'
  <2> SUFFICES ASSUME TypeOK, ScanInv, [Next]_vars PROVE ScanInv'
    OBVIOUS
  <2>1. line' = line
    BY DEF Next, vars, GlobalFlag, UnknownFlag, UnknownCommand, HelpCommand,
           ColorCommand, ThemeCommand, Return, BeginCommand, Option, TakeValue,
           SetSwitch, SubHelp, IgnoreWord, EndCommand, Halted, Exit
  <2>2. CASE ~ ReadableLine BY <2>1, <2>2, SameLine DEF ScanInv
  <2>3. CASE ReadableLine /\ UNCHANGED vars
    <3>1. UNCHANGED << line, pos, cmd, pallet, theme, status >> BY <2>3 DEF vars
    <3>2. \A k : Before(k)' <=> Before(k) BY <3>1, SameLine DEF Before
    <3>3. \A k, n : Inside(k, n)' <=> Inside(k, n) BY <3>1, SameLine DEF Inside
    <3>4. /\ \A k, n : NothingAsked(k, n)' <=> NothingAsked(k, n)
          /\ \A k, n : PalletIs(pallet, k, n)' <=> PalletIs(pallet, k, n)
          /\ \A k : ThemeIs(theme, k)' <=> ThemeIs(theme, k)
      BY <3>1, SameLine
    <3> QED BY <2>3, <3>1, <3>2, <3>3, <3>4 DEF ScanInv
  <2>4. CASE ReadableLine /\ Next
    <3>1. CASE \/ GlobalFlag \/ UnknownFlag \/ UnknownCommand \/ HelpCommand
               \/ ColorCommand \/ ThemeCommand
      <4>1. cmd = Null
        BY <3>1 DEF GlobalFlag, UnknownFlag, UnknownCommand, HelpCommand, ColorCommand,
                    ThemeCommand, AtTop
      <4> QED BY <2>1, <2>4, <3>1, <4>1, TopKeeps
    <3>2. CASE Return BY <2>1, <2>4, <3>2, ReturnKeeps
    <3>3. CASE \E c \in Parsed : BeginCommand(c) \/ Option(c) \/ EndCommand(c)
      BY <2>1, <2>4, <3>3, BeginKeeps, OptionKeeps, EndKeeps
    <3>4. CASE Halted BY <2>3, <2>4, <3>4 DEF Halted
    <3> QED BY <2>4, <3>1, <3>2, <3>3, <3>4 DEF Next
  <2> QED BY <2>2, <2>3, <2>4
<1> QED BY <1>1, <1>2, ScannerTypes, PTL DEF Spec

\* Every line of well-formed clauses, of any length and with any words as
\* values, is read as its clauses mean.
THEOREM PalletMeans == Spec => []PalletMeansClauses
<1>1. TypeOK /\ ScanInv => PalletMeansClauses
  <2> SUFFICES ASSUME TypeOK, ScanInv, status # "scanning", WellFormedLine, SkipFree
               PROVE  IF \E k \in DOMAIN line : AsksToStop(line[k])
                      THEN status = "success"
                      ELSE /\ status = "returned"
                           /\ \A c \in DOMAIN Zeroed : \A field \in DOMAIN Zeroed[c] \ {"only"} :
                                pallet[c][field] = MeaningOf(c, field)
                           /\ theme = ThemeMeant
    BY DEF PalletMeansClauses
  <2>1. line \in Lines /\ ReadableLine /\ status \in {"returned", "success"}
    BY DocumentedIsRead DEF TypeOK, ScanInv
  <2>2. CASE status = "success" BY <2>1, <2>2 DEF ScanInv
  <2>3. CASE status = "returned"
    <3> DEFINE l == Len(line) + 1
    <3>1. NothingAsked(l, 0) /\ PalletIs(pallet, l, 0) /\ ThemeIs(theme, l)
      BY <2>1, <2>3 DEF ScanInv
    <3>2. \A k \in DOMAIN line : k < l BY <2>1, LineShape
    <3>3. \A k \in DOMAIN line : ~ AsksToStop(line[k]) BY <3>1, <3>2 DEF NothingAsked
    <3>4. \A c \in DOMAIN Zeroed : \A field \in DOMAIN Zeroed[c] \ {"only"} :
            pallet[c][field] = MeaningOf(c, field)
      BY <2>1, <3>1, WholeLineSays DEF PalletIs
    <3>5. theme = ThemeMeant
      <4>1. Begun("theme", l, 0) = PlacesOf("theme") BY <3>2 DEF Begun, PlacesOf
      <4> HIDE DEF l
      <4>2. CASE PlacesOf("theme") = {} BY <3>1, <4>1, <4>2 DEF ThemeIs, ThemeMeant
      <4>3. CASE PlacesOf("theme") # {}
        <5>1. PICK j \in PlacesOf("theme") :
                (\A i \in PlacesOf("theme") : i <= j) /\ theme = line[j].groups[1][1]
          BY <3>1, <4>1, <4>3 DEF ThemeIs
        <5>2. \A k \in PlacesOf("theme") : k \in Nat BY <2>1, LineShape DEF PlacesOf
        <5>3. ASSUME NEW k \in PlacesOf("theme"), \A i \in PlacesOf("theme") : i <= k
              PROVE  k = j
          BY <5>1, <5>2, <5>3
        <5>4. (CHOOSE k \in PlacesOf("theme") : \A i \in PlacesOf("theme") : i <= k) = j
          BY <5>1, <5>3
        <5>5. ThemeMeant = line[CHOOSE k \in PlacesOf("theme") :
                                   \A i \in PlacesOf("theme") : i <= k].groups[1][1]
          BY <4>3, Zenon DEF ThemeMeant
        <5> QED BY <5>1, <5>4, <5>5, Zenon
      <4> QED BY <4>2, <4>3
    <3> QED BY <2>3, <3>3, <3>4, <3>5
  <2> QED BY <2>1, <2>2, <2>3
<1> QED BY <1>1, ScannerTypes, ScannerKeepsToClauses, PTL

-----------------------------------------------------------------------------
(* The display *)

-----------------------------------------------------------------------------
(* The display *)

\* The groups of the show clause in force that begin with an option.
Showing(o) == {g \in InForce("show") : GroupAt(g)[1] = o}

\* Each of them is followed by another, or its value is one of H.
LastIn(o, H) ==
  \A g \in Showing(o) : (\E h \in Showing(o) : h[2] > g[2]) \/ GroupAt(g)[2] \in H

\* A field of show has the value of the last group for it, or is as it was set
\* where the command begins, or is zero.
LEMMA ShowFieldIs ==
  ASSUME TypeOK, ScanInv, ReadableLine, status = "returned",
         NEW f, f # "verbose", f # "mode", NEW o, << "show", o, f >> \in Valued
  PROVE  /\ Showing(o) # {} => /\ pallet.show[f] \in STRING
                               /\ \A H : LastIn(o, H) <=> pallet.show[f] \in H
         /\ Showing(o) = {} /\ PlacesOf("show") # {}
              => pallet.show[f] = Defaults("show", Zeroed.show)[f]
         /\ Showing(o) = {} /\ PlacesOf("show") = {} => pallet.show[f] = Null
<1> DEFINE l == Len(line) + 1
<1>1. line \in Lines BY DEF TypeOK
<1>2. NothingAsked(l, 0) /\ PalletIs(pallet, l, 0) BY DEF ScanInv
<1>3. Says("show", f, pallet["show"][f], l, 0) /\ Zeroed.show[f] = Null
  <2>1. f \in {"test_name", "name", "tag", "result"} BY DEF Valued
  <2> QED BY <1>2, <2>1 DEF PalletIs, Zeroed
<1>4. /\ DOMAIN line = 1 .. Len(line) /\ Len(line) \in Nat
      /\ \A k \in DOMAIN line : line[k].groups \in Seq(Seq(STRING))
  BY <1>1, LineShape
<1>5. \A k \in DOMAIN line : k < l /\ ~ AsksToStop(line[k])
  BY <1>2, <1>4 DEF NothingAsked
<1>6. Begun("show", l, 0) = PlacesOf("show") BY <1>5 DEF Begun, PlacesOf
<1>7. Read("show", l, 0) = GroupsOf("show")
  <2>1. \A g \in GroupsOf("show") : g[1] < l BY <1>1, <1>5, GroupsAre DEF PlacesOf
  <2> QED BY <2>1 DEF Read
<1> HIDE DEF l
<1>8. SettersRead("show", f, l, 0) = Showing(o)
  <2>1. \A w : << "show", w, f >> \in Valued \cup Switches <=> w = o
    BY DEF Valued, Switches
  <2> QED BY <1>6, <1>7, <2>1 DEF SettersRead, Showing, InForce, Reads
<1>9. \A g, h \in Showing(o) :
        /\ g[1] = h[1] /\ g[1] \in Nat /\ g[2] \in Nat /\ h[2] \in Nat
        /\ g[2] = h[2] => g = h
  <2>1. \A g \in InForce("show") :
          /\ g[1] \in PlacesOf("show") /\ g[1] \in Nat /\ g[2] \in Nat
          /\ g = << g[1], g[2] >> /\ \A k \in PlacesOf("show") : k <= g[1]
    BY <1>1, GroupsAre DEF InForce
  <2>2. ASSUME NEW g \in InForce("show"), NEW h \in InForce("show")
        PROVE  /\ g[1] = h[1] /\ g[1] \in Nat /\ g[2] \in Nat /\ h[2] \in Nat
               /\ g[2] = h[2] => g = h
    <3>1. g[1] <= h[1] /\ h[1] <= g[1] /\ g[1] \in Nat /\ h[1] \in Nat BY <2>1
    <3> QED BY <2>1, <3>1
  <2> QED BY <2>2 DEF Showing
<1>10. ASSUME NEW g \in Showing(o)
       PROVE  Given(g, f) = GroupAt(g)[2] /\ GroupAt(g)[2] \in STRING
  <2>1. g[1] \in PlacesOf("show") /\ g[2] \in DOMAIN line[g[1]].groups
    BY <1>1, GroupsAre DEF Showing, InForce
  <2>2. g[1] \in DOMAIN line /\ line[g[1]].cmd = "show" BY <2>1 DEF PlacesOf
  <2> DEFINE w == GroupAt(g)
  <2>3. w \in Seq(STRING) /\ w[1] = o BY <1>4, <2>1, <2>2 DEF GroupAt, Showing
  <2>4. Readable(line[g[1]]) BY <2>2 DEF ReadableLine
  <2>5. \/ w = << "--help" >>
        \/ Len(w) = 1 /\ \E t \in Switches : t[1] = "show" /\ t[2] = w[1]
        \/ Len(w) = 2 /\ \E t \in Valued : t[1] = "show" /\ t[2] = w[1]
    BY <2>1, <2>2, <2>4 DEF Readable, Parsed, GroupAt
  <2> HIDE DEF w
  <2>6. Len(w) = 2
    <3>1. ~ \E t \in Switches : t[1] = "show" BY DEF Switches
    <3>2. o # "--help" BY Options
    <3> QED BY <2>3, <2>5, <3>1, <3>2
  <2>7. w[2] \in STRING BY <2>3, <2>6
  <2>8. f \notin {"repeat", "count", "only_cases"} BY DEF Valued
  <2> QED BY <2>6, <2>7, <2>8 DEF Given, Value, w
<1>11. ASSUME Showing(o) # {}
       PROVE  /\ pallet.show[f] \in STRING
              /\ \A H : LastIn(o, H) <=> pallet.show[f] \in H
  <2>1. PICK g \in Showing(o) : /\ \A h \in Showing(o) : NotAfter(h, g)
                                /\ pallet["show"][f] = Given(g, f)
    BY <1>3, <1>8, <1>11 DEF Says
  <2>2. pallet.show[f] = GroupAt(g)[2] /\ pallet.show[f] \in STRING BY <1>10, <2>1
  <2>3. ASSUME NEW h \in Showing(o)
        PROVE  ~ (h[2] > g[2]) /\ (h = g \/ g[2] > h[2])
    <3>1. /\ g[1] = h[1] /\ g[1] \in Nat /\ g[2] \in Nat /\ h[2] \in Nat
          /\ g[2] = h[2] => g = h
      BY <1>9
    <3>2. h[1] < g[1] \/ (h[1] = g[1] /\ h[2] <= g[2]) BY <2>1 DEF NotAfter
    <3>3. h[2] <= g[2] BY <3>1, <3>2
    <3> QED BY <3>1, <3>3
  <2>5. ASSUME NEW H PROVE LastIn(o, H) <=> pallet.show[f] \in H
    BY <2>2, <2>3 DEF LastIn
  <2> QED BY <2>2, <2>5
<1>12. ASSUME Showing(o) = {}
       PROVE  pallet.show[f] = IF PlacesOf("show") # {}
                               THEN Defaults("show", Zeroed.show)[f] ELSE Null
  BY <1>3, <1>6, <1>8, <1>12 DEF Says
<1> QED BY <1>11, <1>12

\* What the display shows on any line that is read: the cases that agree with
\* the show clause in force, but none where that leaves the result to the default.
LEMMA ShowsWhat ==
  ASSUME TypeOK, ScanInv, ReadableLine, status = "returned"
  PROVE  \A case \in Cases :
           Shows(pallet.show, case) <=> ~ ResultByDefault /\ AgreesWithShow(case)
<1>1. ASSUME NEW case \in Cases
      PROVE  Shows(pallet.show, case) <=> ~ ResultByDefault /\ AgreesWithShow(case)
  <2> DEFINE Fits(g) ==
               CASE GroupAt(g)[1] = "--test-name" -> GroupAt(g)[2] = case.name
                 [] GroupAt(g)[1] = "--suite-name" -> GroupAt(g)[2] = case.suite
                 [] GroupAt(g)[1] = "--tag" -> GroupAt(g)[2] \in case.tags
                 [] GroupAt(g)[1] = "--result" -> GroupAt(g)[2] = case.result
                 [] OTHER -> TRUE
             Followed(g) == \E h \in InForce("show") :
                              h[2] > g[2] /\ GroupAt(h)[1] = GroupAt(g)[1]
  <2>1. ASSUME NEW f, f # "verbose", f # "mode", NEW o, << "show", o, f >> \in Valued,
               NEW H, Defaults("show", Zeroed.show)[f] = Null
        PROVE  LastIn(o, H) <=> pallet.show[f] = Null \/ pallet.show[f] \in H
    <3>1. CASE Showing(o) # {}
      <4>1. pallet.show[f] # Null BY <2>1, <3>1, ShowFieldIs, WordAssumption
      <4> QED BY <2>1, <3>1, <4>1, ShowFieldIs
    <3>2. CASE Showing(o) = {}
      <4>1. pallet.show[f] = Null BY <2>1, <3>2, ShowFieldIs
      <4> QED BY <3>2, <4>1 DEF LastIn
    <3> QED BY <3>1, <3>2
  <2>2. /\ \A f \in {"test_name", "name", "tag"} : Defaults("show", Zeroed.show)[f] = Null
        /\ Defaults("show", Zeroed.show)["result"] = "all"
    <3>1. Zeroed.show = [enabled |-> FALSE, verbose |-> Null, mode |-> Null, result |-> Null,
                         test_name |-> Null, name |-> Null, tag |-> Null]
      BY DEF Zeroed
    <3>2. Defaults("show", Zeroed.show) =
            [Zeroed.show EXCEPT !.enabled = TRUE, !.verbose = "plain", !.mode = "list",
                                !.result = "all"]
      BY DEF Defaults
    <3> DEFINE r == Zeroed.show
    <3>3. /\ DOMAIN r = {"enabled", "verbose", "mode", "result", "test_name", "name", "tag"}
          /\ \A f \in {"test_name", "name", "tag"} : r[f] = Null
      BY <3>1
    <3> HIDE DEF r
    <3>4. LET d == [r EXCEPT !.enabled = TRUE, !.verbose = "plain", !.mode = "list",
                             !.result = "all"]
          IN  /\ \A f \in {"test_name", "name", "tag"} : d[f] = r[f]
              /\ d["result"] = "all"
      BY <3>3
    <3> QED BY <3>2, <3>3, <3>4 DEF r
  <2>3. LastIn("--test-name", {case.name}) <=> pallet.show.test_name \in {Null, case.name}
    <3>1. << "show", "--test-name", "test_name" >> \in Valued BY DEF Valued
    <3> QED BY <2>1, <2>2, <3>1
  <2>4. LastIn("--suite-name", {case.suite}) <=> pallet.show.name \in {Null, case.suite}
    <3>1. << "show", "--suite-name", "name" >> \in Valued BY DEF Valued
    <3> QED BY <2>1, <2>2, <3>1
  <2>5. LastIn("--tag", case.tags) <=> pallet.show.tag = Null \/ pallet.show.tag \in case.tags
    <3>1. << "show", "--tag", "tag" >> \in Valued BY DEF Valued
    <3> QED BY <2>1, <2>2, <3>1
  <2>6. (/\ PlacesOf("show") # {} => Showing("--result") # {}
         /\ LastIn("--result", {case.result}))
          <=> pallet.show.result \in {Null, case.result}
    <3>1. << "show", "--result", "result" >> \in Valued BY DEF Valued
    <3>2. CASE Showing("--result") # {}
      <4>1. /\ pallet.show["result"] \in STRING
            /\ LastIn("--result", {case.result}) <=> pallet.show["result"] \in {case.result}
        BY <3>1, <3>2, ShowFieldIs
      <4> QED BY <3>2, <4>1, WordAssumption
    <3>3. CASE Showing("--result") = {} /\ PlacesOf("show") # {}
      <4>1. pallet.show["result"] = "all" BY <2>2, <3>1, <3>3, ShowFieldIs
      <4>2. case.result # "all" /\ Null # "all" BY CasesAssumption, WordAssumption
      <4> QED BY <3>3, <4>1, <4>2
    <3>4. CASE Showing("--result") = {} /\ PlacesOf("show") = {}
      <4>1. pallet.show["result"] = Null BY <3>1, <3>4, ShowFieldIs
      <4> QED BY <3>4, <4>1 DEF LastIn
    <3> QED BY <3>2, <3>3, <3>4
  <2>7. (\A g \in InForce("show") : Followed(g) \/ Fits(g))
          <=> /\ LastIn("--test-name", {case.name})
              /\ LastIn("--suite-name", {case.suite})
              /\ LastIn("--tag", case.tags)
              /\ LastIn("--result", {case.result})
    <3>1. \A o, H : LastIn(o, H) <=>
            \A g \in InForce("show") :
              GroupAt(g)[1] = o => Followed(g) \/ GroupAt(g)[2] \in H
      BY DEF LastIn, Showing
    <3> HIDE DEF Followed
    <3> QED BY <3>1
  <2>8. (\E g \in InForce("show") : GroupAt(g)[1] = "--result") <=> Showing("--result") # {}
    BY DEF Showing
  <2>9. Shows(pallet.show, case) <=>
          /\ PlacesOf("show") # {} => Showing("--result") # {}
          /\ \A g \in InForce("show") : Followed(g) \/ Fits(g)
    <3> HIDE DEF Followed, Fits
    <3> QED BY <2>3, <2>4, <2>5, <2>6, <2>7 DEF Shows
  <2>10. AgreesWithShow(case) <=> \A g \in InForce("show") : Followed(g) \/ Fits(g)
    BY Zenon DEF AgreesWithShow
  <2>11. ~ ResultByDefault <=> (PlacesOf("show") # {} => Showing("--result") # {})
    BY <2>8 DEF ResultByDefault
  <2> QED BY <2>9, <2>10, <2>11, Zenon
<1> QED BY <1>1

\* The display shows the cases that the show clause in force of a well-formed
\* line asks for, whatever the cases are.
THEOREM DisplayMeans == Spec => []DisplayMeansClauses
<1>1. TypeOK /\ ScanInv => DisplayMeansClauses
  <2> SUFFICES ASSUME TypeOK, ScanInv, status = "returned", WellFormedLine, SkipFree,
                      ~ ResultByDefault
               PROVE  \A case \in Cases : Shows(pallet.show, case) <=> AgreesWithShow(case)
    BY DEF DisplayMeansClauses
  <2>1. ReadableLine BY DocumentedIsRead DEF TypeOK
  <2> QED BY <2>1, ShowsWhat
<1> QED BY <1>1, ScannerTypes, ScannerKeepsToClauses, PTL

\* How far OptionsAreHeeded fails: a show clause that leaves the result to the
\* default displays nothing at all, whatever the cases and the other filters are.
THEOREM DefaultShowsNothing ==
  Spec => [](status = "returned" /\ WellFormedLine /\ SkipFree /\ ResultByDefault
               => \A case \in Cases : ~ Shows(pallet.show, case))
<1>1. ASSUME TypeOK, ScanInv, status = "returned", WellFormedLine, SkipFree, ResultByDefault
      PROVE  \A case \in Cases : ~ Shows(pallet.show, case)
  <2>1. ReadableLine BY <1>1, DocumentedIsRead DEF TypeOK
  <2> QED BY <1>1, <2>1, ShowsWhat
<1> QED BY <1>1, ScannerTypes, ScannerKeepsToClauses, PTL

=============================================================================
