----------------------------- MODULE MarkProofs -----------------------------
(***************************************************************************)
(* Proofs about Mark for every set of benchmarks, every first capacity and *)
(* every warm-up.  The timer needs the strengthening TimerInv: it was      *)
(* started no earlier than any benchmark was last set running, and at that *)
(* very moment if it was not started since.  The counters are inductive    *)
(* together with their types (MarkInv).  The summary of the samples needs  *)
(* that the array is as long as the object says and that every sample is a *)
(* time the clock can show (ArrayInv), for the smallest is compared with   *)
(* DBL_MAX at first.                                                       *)
(*                                                                         *)
(* The facts about totals and sorting hold for arrays of every length, by  *)
(* inductions over the natural numbers, each of which is a set to which    *)
(* the lemma Induction is applied.                                         *)
(***************************************************************************)
EXTENDS Mark, FiniteSetTheorems, WellFoundedInduction, TLAPS

MarkType ==
  [num_samples : Nat, num_iterations : Nat, num_warmup : Nat, total_duration : Nat,
   min_duration : Nat, max_duration : Nat, capacity : Nat \ {0}, running : BOOLEAN]

TimerInv ==
  /\ now \in Nat
  /\ now <= MaxTime
  /\ start_time \in Nat
  /\ start_time <= now
  /\ begun \in [Benchmark -> Nat]
  /\ alone \in [Benchmark -> BOOLEAN]
  /\ \A b \in Benchmark : begun[b] <= start_time /\ (alone[b] => begun[b] = start_time)

MarkInv == mark \in [Benchmark -> MarkType] /\ SamplesFit

\* t is the array of the object m: as long as m says, with a time in the cell of
\* every sample, and summed up by m.
Holds(m, t) == /\ t \in [1 .. m.capacity -> Int]
               /\ \A k \in 1 .. m.num_samples : t[k] \in 0 .. MaxTime
               /\ Summarizes(m, t)

ArrayInv == /\ DOMAIN iteration_times = Benchmark
            /\ \A b \in Benchmark : Holds(mark[b], iteration_times[b])

Inv == TimerInv /\ MarkInv /\ ArrayInv /\ DOMAIN stats = Benchmark

-----------------------------------------------------------------------------
\* A set of numbers with 0, and with the successor of each of its numbers, has
\* them all: what an induction over the natural numbers needs.
LEMMA Induction ==
  ASSUME NEW S, 0 \in S, \A n \in Nat : n \in S => n + 1 \in S
  PROVE  Nat \subseteq S
<1> SUFFICES ASSUME Nat \ S # {} PROVE FALSE OBVIOUS
<1> DEFINE R == OpToRel(<, Nat)
           missing == Nat \ S
<1>1. IsWellFoundedOn(R, Nat) BY NatLessThanWellFounded
<1>2. missing \subseteq Nat /\ missing # {} OBVIOUS
<1>3. PICK p \in missing : \A q \in missing : ~ (<< q, p >> \in R)
  <2> HIDE DEF R, missing
  <2> QED BY <1>1, <1>2, WFMin, Zenon
<1>4. \A q \in missing : ~ (q < p) BY <1>3 DEF OpToRel
<1>5. p \in Nat /\ p # 0 OBVIOUS
<1>6. p - 1 \in Nat /\ p - 1 < p BY <1>5
<1>7. p - 1 \in S BY <1>4, <1>6
<1> QED BY <1>6, <1>7

-----------------------------------------------------------------------------
(* The sum of the first cells of an array                                  *)

\* f holds the sums of the first cells of t, up to the first n.
AreSums(f, t, n) == /\ f \in [0 .. n -> Int]
                    /\ f[0] = 0
                    /\ \A k \in 1 .. n : f[k] = f[k - 1] + t[k]

\* There are such sums.
LEMMA SumsExist ==
  ASSUME NEW t, NEW n \in Nat, \A k \in 1 .. n : t[k] \in Int
  PROVE  \E f \in [0 .. n -> Int] : AreSums(f, t, n)
<1> DEFINE S == {m \in Nat : m <= n => \E f \in [0 .. m -> Int] : AreSums(f, t, m)}
<1>1. 0 \in S
  <2> DEFINE f == [k \in 0 .. 0 |-> 0]
  <2>1. f \in [0 .. 0 -> Int] /\ AreSums(f, t, 0) BY DEF AreSums
  <2> HIDE DEF f
  <2> QED BY <2>1
<1>2. ASSUME NEW m \in Nat, m \in S PROVE m + 1 \in S
  <2> SUFFICES ASSUME m + 1 <= n
               PROVE  \E f \in [0 .. m + 1 -> Int] : AreSums(f, t, m + 1)
    OBVIOUS
  <2>1. PICK f \in [0 .. m -> Int] : AreSums(f, t, m) BY <1>2
  <2> DEFINE g == [k \in 0 .. m + 1 |-> IF k <= m THEN f[k] ELSE f[m] + t[m + 1]]
  <2>2. t[m + 1] \in Int /\ f[m] \in Int OBVIOUS
  <2>3. g \in [0 .. m + 1 -> Int]
    <3>1. \A k \in 0 .. m + 1 : k <= m => k \in 0 .. m OBVIOUS
    <3> QED BY <2>2, <3>1
  <2>4. g[0] = 0 BY <2>1 DEF AreSums
  <2>5. ASSUME NEW k \in 1 .. m + 1 PROVE g[k] = g[k - 1] + t[k]
    <3>1. CASE k <= m BY <2>1, <3>1 DEF AreSums
    <3>2. CASE k = m + 1 BY <3>2
    <3> QED BY <3>1, <3>2
  <2> HIDE DEF g
  <2>6. AreSums(g, t, m + 1) BY <2>3, <2>4, <2>5 DEF AreSums
  <2> QED BY <2>3, <2>6
<1> HIDE DEF S
<1>3. Nat \subseteq S BY <1>1, <1>2, Induction
<1> QED BY <1>3 DEF S

\* The recursion of Total defines what it says.
LEMMA TotalIs ==
  ASSUME NEW t, NEW n \in Nat, NEW f, AreSums(f, t, n)
  PROVE  Total(t, n) = f[n]
<1> DEFINE Rec(g) == g = [k \in 0 .. n |-> IF k = 0 THEN 0 ELSE g[k - 1] + t[k]]
<1>1. Rec(f)
  <2>1. f = [k \in 0 .. n |-> f[k]] BY DEF AreSums
  <2>2. ASSUME NEW k \in 0 .. n PROVE f[k] = IF k = 0 THEN 0 ELSE f[k - 1] + t[k]
    BY DEF AreSums
  <2> QED BY <2>1, <2>2
<1> DEFINE h == CHOOSE g : Rec(g)
<1>2. Rec(h) BY <1>1
<1>3. Total(t, n) = h[n] BY DEF Total
<1> HIDE DEF h
<1> DEFINE S == {k \in Nat : k <= n => f[k] = h[k]}
<1>4. 0 \in S
  <2>1. h[0] = 0 BY <1>2
  <2> QED BY <2>1 DEF AreSums
<1>5. ASSUME NEW k \in Nat, k \in S PROVE k + 1 \in S
  <2> SUFFICES ASSUME k + 1 <= n PROVE f[k + 1] = h[k + 1] OBVIOUS
  <2>1. h[k + 1] = h[k] + t[k + 1]
    <3>1. k + 1 \in 0 .. n /\ k + 1 # 0 /\ (k + 1) - 1 = k OBVIOUS
    <3> QED BY <1>2, <3>1
  <2>2. f[k + 1] = f[k] + t[k + 1] BY DEF AreSums
  <2> QED BY <1>5, <2>1, <2>2
<1> HIDE DEF S
<1>6. Nat \subseteq S BY <1>4, <1>5, Induction
<1> QED BY <1>3, <1>6 DEF S

\* The total of no cells is 0; one cell more adds what is in it.
LEMMA TotalStep ==
  ASSUME NEW t, NEW n \in Nat, \A k \in 1 .. n : t[k] \in Int
  PROVE  /\ Total(t, n) \in Int
         /\ Total(t, 0) = 0
         /\ n > 0 => Total(t, n) = Total(t, n - 1) + t[n]
<1>1. PICK f \in [0 .. n -> Int] : AreSums(f, t, n) BY SumsExist
<1>2. Total(t, n) = f[n] BY <1>1, TotalIs
<1> DEFINE e == [k \in 0 .. 0 |-> 0]
<1>3. AreSums(e, t, 0) BY DEF AreSums
<1>4. Total(t, 0) = 0
  <2>1. e[0] = 0 OBVIOUS
  <2> HIDE DEF e
  <2> QED BY <1>3, <2>1, TotalIs
<1>5. CASE n > 0
  <2> DEFINE g == [k \in 0 .. n - 1 |-> f[k]]
  <2>1. g \in [0 .. n - 1 -> Int] OBVIOUS
  <2>2. n - 1 \in Nat /\ AreSums(g, t, n - 1) BY <1>1, <1>5, <2>1 DEF AreSums
  <2>3. g[n - 1] = f[n - 1] BY <2>2
  <2> HIDE DEF g
  <2>4. Total(t, n - 1) = g[n - 1] BY <2>2, TotalIs
  <2>5. f[n] = f[n - 1] + t[n] BY <1>1, <1>5 DEF AreSums
  <2> QED BY <1>2, <1>4, <2>3, <2>4, <2>5
<1> QED BY <1>2, <1>4, <1>5

\* Arrays that agree on their first cells have the same total.
LEMMA TotalAgrees ==
  ASSUME NEW t, NEW u, NEW n \in Nat, \A k \in 1 .. n : t[k] \in Int /\ t[k] = u[k]
  PROVE  Total(t, n) = Total(u, n)
<1>1. PICK f \in [0 .. n -> Int] : AreSums(f, t, n) BY SumsExist
<1>2. AreSums(f, u, n) BY <1>1 DEF AreSums
<1> QED BY <1>1, <1>2, TotalIs

\* To put e in one of the cells adds the difference.
LEMMA TotalReplaced ==
  ASSUME NEW n \in Nat, NEW t \in [1 .. n -> Int], NEW u \in [1 .. n -> Int],
         NEW m \in 1 .. n, \A k \in 1 .. n : k # m => u[k] = t[k]
  PROVE  Total(u, n) = Total(t, n) - t[m] + u[m]
<1>1. PICK f \in [0 .. n -> Int] : AreSums(f, t, n) BY SumsExist
<1> DEFINE g == [k \in 0 .. n |-> IF k < m THEN f[k] ELSE f[k] - t[m] + u[m]]
<1>2. t[m] \in Int /\ u[m] \in Int OBVIOUS
<1>3. g \in [0 .. n -> Int] BY <1>2
<1>4. g[0] = 0 BY <1>1 DEF AreSums
<1>5. ASSUME NEW k \in 1 .. n PROVE g[k] = g[k - 1] + u[k]
  <2>1. f[k] = f[k - 1] + t[k] /\ k \in 0 .. n /\ k - 1 \in 0 .. n BY <1>1 DEF AreSums
  <2>2. f[k] \in Int /\ f[k - 1] \in Int /\ u[k] \in Int /\ t[k] \in Int BY <2>1
  <2>3. CASE k < m BY <2>1, <2>2, <2>3
  <2>4. CASE k = m BY <1>2, <2>1, <2>2, <2>4
  <2>5. CASE k > m BY <1>2, <2>1, <2>2, <2>5
  <2> QED BY <2>3, <2>4, <2>5
<1> HIDE DEF g
<1>6. AreSums(g, u, n) BY <1>3, <1>4, <1>5 DEF AreSums
<1>7. Total(u, n) = g[n] /\ Total(t, n) = f[n] BY <1>1, <1>6, TotalIs
<1>8. g[n] = f[n] - t[m] + u[m] BY <1>2 DEF g
<1> QED BY <1>7, <1>8

-----------------------------------------------------------------------------
(* Sorting                                                                 *)

\* An order takes every cell once, and so reaches every cell.
LEMMA OrderIsOnto ==
  ASSUME NEW n \in Nat, NEW p \in Injection(1 .. n, 1 .. n)
  PROVE  /\ p \in [1 .. n -> 1 .. n]
         /\ \A i, j \in 1 .. n : p[i] = p[j] => i = j
         /\ \A k \in 1 .. n : \E i \in 1 .. n : p[i] = k
<1>1. IsFiniteSet(1 .. n) BY FS_Interval
<1>2. p \in Surjection(1 .. n, 1 .. n) BY <1>1, FS_Injection
<1>3. p \in [1 .. n -> 1 .. n] BY DEF Injection
<1>4. DOMAIN p = 1 .. n BY <1>3
<1>5. \A i, j \in 1 .. n : p[i] = p[j] => i = j BY <1>4 DEF Injection, IsInjective
<1> QED BY <1>2, <1>3, <1>5 DEF Surjection

\* A function that takes no cell twice is an order.
LEMMA IsOrder ==
  ASSUME NEW n \in Nat, NEW p \in [1 .. n -> 1 .. n],
         \A i, j \in 1 .. n : p[i] = p[j] => i = j
  PROVE  p \in Injection(1 .. n, 1 .. n)
BY DEF Injection, IsInjective

\* Whatever the order in which cells are added up, the total is the same.
LEMMA TotalPermuted ==
  ASSUME NEW n \in Nat
  PROVE  \A p \in Injection(1 .. n, 1 .. n), t, u \in [1 .. n -> Int] :
           (\A k \in 1 .. n : u[k] = t[p[k]]) => Total(u, n) = Total(t, n)
<1> DEFINE Same(m) == \A p \in Injection(1 .. m, 1 .. m), t, u \in [1 .. m -> Int] :
                        (\A k \in 1 .. m : u[k] = t[p[k]]) => Total(u, m) = Total(t, m)
           S == {m \in Nat : Same(m)}
<1>1. 0 \in S
  <2> SUFFICES ASSUME NEW t \in [1 .. 0 -> Int], NEW u \in [1 .. 0 -> Int]
               PROVE  Total(u, 0) = Total(t, 0)
    OBVIOUS
  <2>1. \A k \in 1 .. 0 : t[k] \in Int /\ t[k] = u[k] OBVIOUS
  <2> QED BY <2>1, TotalAgrees
<1>2. ASSUME NEW m \in Nat, Same(m) PROVE Same(m + 1)
  <2> DEFINE l == m + 1
  <2> SUFFICES ASSUME NEW p \in Injection(1 .. l, 1 .. l),
                      NEW t \in [1 .. l -> Int], NEW u \in [1 .. l -> Int],
                      \A k \in 1 .. l : u[k] = t[p[k]]
               PROVE  Total(u, l) = Total(t, l)
    OBVIOUS
  <2>1. l \in Nat /\ l > 0 /\ l - 1 = m /\ l \in 1 .. l /\ \A k \in 1 .. m : k \in 1 .. l /\ k # l
    OBVIOUS
  <2>1a. \A k \in 1 .. l : k = l \/ k \in 1 .. m OBVIOUS
  <2> HIDE DEF l
  <2>2. /\ p \in [1 .. l -> 1 .. l]
        /\ \A i, j \in 1 .. l : p[i] = p[j] => i = j
        /\ \A k \in 1 .. l : \E i \in 1 .. l : p[i] = k
    BY <2>1, OrderIsOnto
  <2>3. PICK a \in 1 .. l : p[a] = l BY <2>1, <2>2
  <2> DEFINE q == [k \in 1 .. m |-> IF k = a THEN p[l] ELSE p[k]]
             v == [k \in 1 .. m |-> t[q[k]]]
             s == [k \in 1 .. m |-> t[k]]
  <2>4. q \in [1 .. m -> 1 .. m]
    <3>1. ASSUME NEW k \in 1 .. m PROVE q[k] \in 1 .. m
      <4>1. CASE k = a
        <5>1. p[l] # l BY <2>1, <2>2, <2>3, <4>1
        <5> QED BY <2>1, <2>1a, <2>2, <4>1, <5>1
      <4>2. CASE k # a
        <5>1. p[k] # l BY <2>1, <2>2, <2>3, <4>2
        <5> QED BY <2>1, <2>1a, <2>2, <4>2, <5>1
      <4> QED BY <4>1, <4>2
    <3> QED BY <3>1
  <2>5. \A i, j \in 1 .. m : q[i] = q[j] => i = j BY <2>1, <2>2
  <2>6. q \in Injection(1 .. m, 1 .. m) BY <2>4, <2>5, IsOrder
  <2>7. v \in [1 .. m -> Int] /\ s \in [1 .. m -> Int] BY <2>1, <2>4
  <2>8. \A k \in 1 .. m : v[k] = s[q[k]] BY <2>4
  <2> HIDE DEF q, v, s
  <2>9. Total(v, m) = Total(s, m) BY <1>2, <2>6, <2>7, <2>8
  <2>10. Total(s, m) = Total(t, m) BY <2>7, TotalAgrees DEF s
  <2>11. Total(t, l) = Total(t, m) + t[l] /\ Total(u, l) = Total(u, m) + u[l]
    BY <2>1, TotalStep
  <2>12. u[l] = t[p[l]] BY <2>1
  <2>13. Total(v, m) \in Int BY <2>7, TotalStep
  <2>14. CASE a = l
    <3>1. \A k \in 1 .. m : v[k] = u[k]
      BY <2>1, <2>4, <2>14 DEF v, q
    <3>2. Total(v, m) = Total(u, m) BY <2>7, <3>1, TotalAgrees
    <3> QED BY <2>3, <2>9, <2>10, <2>11, <2>12, <2>14, <3>2
  <2>15. CASE a # l
    <3>0. a \in 1 .. m BY <2>1a, <2>15
    <3> DEFINE w == [k \in 1 .. m |-> u[k]]
    <3>1. w \in [1 .. m -> Int] BY <2>1
    <3>2. \A k \in 1 .. m : k # a => w[k] = v[k] BY <2>1 DEF v, q
    <3>2a. w[a] = u[a] /\ \A k \in 1 .. m : w[k] \in Int /\ w[k] = u[k] BY <3>0, <3>1
    <3> HIDE DEF w
    <3>2b. Total(w, m) = Total(u, m) BY <3>2a, TotalAgrees
    <3>3. Total(w, m) = Total(v, m) - v[a] + w[a]
      BY <2>7, <3>0, <3>1, <3>2, TotalReplaced
    <3>4. v[a] = t[p[l]] /\ u[a] = t[l] BY <2>3, <3>0 DEF v, q
    <3>5. t[p[l]] \in Int /\ t[l] \in Int BY <2>1, <2>2
    <3> QED BY <2>9, <2>10, <2>11, <2>12, <2>13, <3>2a, <3>2b, <3>3, <3>4, <3>5
  <2> QED BY <2>14, <2>15
<1> HIDE DEF Same
<1>3. \A m \in Nat : m \in S => m + 1 \in S BY <1>2
<1> HIDE DEF S
<1>4. Nat \subseteq S BY <1>1, <1>3, Induction
<1>5. Same(n) BY <1>4 DEF S
<1> QED BY <1>5 DEF Same

\* One of the cells is the largest.
LEMMA LargestExists ==
  ASSUME NEW n \in Nat \ {0}, NEW t \in [1 .. n -> Int]
  PROVE  \E a \in 1 .. n : \A k \in 1 .. n : t[k] <= t[a]
<1> DEFINE S == {m \in Nat : m < n => \E a \in 1 .. m + 1 : \A k \in 1 .. m + 1 : t[k] <= t[a]}
<1>1. 0 \in S
  <2>1. 1 \in 1 .. 0 + 1 /\ \A k \in 1 .. 0 + 1 : t[k] <= t[1] OBVIOUS
  <2> QED BY <2>1
<1>2. ASSUME NEW m \in Nat, m \in S PROVE m + 1 \in S
  <2> SUFFICES ASSUME m + 1 < n
               PROVE  \E a \in 1 .. m + 2 : \A k \in 1 .. m + 2 : t[k] <= t[a]
    OBVIOUS
  <2>1. PICK a \in 1 .. m + 1 : \A k \in 1 .. m + 1 : t[k] <= t[a] BY <1>2
  <2>2. a \in 1 .. n /\ m + 2 \in 1 .. n /\ t[a] \in Int /\ t[m + 2] \in Int OBVIOUS
  <2>3. \A k \in 1 .. m + 2 : k \in 1 .. n /\ t[k] \in Int /\ (k \in 1 .. m + 1 \/ k = m + 2)
    OBVIOUS
  <2>4. CASE t[a] <= t[m + 2]
    <3>1. \A k \in 1 .. m + 2 : t[k] <= t[m + 2] BY <2>1, <2>2, <2>3, <2>4
    <3> QED BY <3>1
  <2>5. CASE t[m + 2] <= t[a]
    <3>1. \A k \in 1 .. m + 2 : t[k] <= t[a] BY <2>1, <2>3, <2>5
    <3> QED BY <3>1
  <2> QED BY <2>2, <2>4, <2>5
<1> HIDE DEF S
<1>3. Nat \subseteq S BY <1>1, <1>2, Induction
<1>4. n - 1 \in Nat /\ n - 1 < n /\ (n - 1) + 1 = n OBVIOUS
<1> QED BY <1>3, <1>4 DEF S

\* Whatever is in the cells, an order sorts them.
LEMMA SortingOrderExists ==
  ASSUME NEW n \in Nat
  PROVE  \A t \in [1 .. n -> Int] : \E p \in Injection(1 .. n, 1 .. n) : Sorts(p, t, n)
<1> DEFINE Sortable(m) == \A t \in [1 .. m -> Int] :
                            \E p \in Injection(1 .. m, 1 .. m) : Sorts(p, t, m)
           S == {m \in Nat : Sortable(m)}
<1>1. 0 \in S
  <2> SUFFICES ASSUME NEW t \in [1 .. 0 -> Int]
               PROVE  \E p \in Injection(1 .. 0, 1 .. 0) : Sorts(p, t, 0)
    OBVIOUS
  <2> DEFINE p == [k \in 1 .. 0 |-> k]
  <2>1. p \in Injection(1 .. 0, 1 .. 0) BY IsOrder
  <2>2. Sorts(p, t, 0) BY DEF Sorts
  <2> QED BY <2>1, <2>2
<1>2. ASSUME NEW m \in Nat, Sortable(m) PROVE Sortable(m + 1)
  <2> DEFINE l == m + 1
  <2> SUFFICES ASSUME NEW t \in [1 .. l -> Int]
               PROVE  \E p \in Injection(1 .. l, 1 .. l) : Sorts(p, t, l)
    OBVIOUS
  <2>1. l \in Nat \ {0} /\ l \in 1 .. l /\ \A k \in 1 .. m : k \in 1 .. l /\ k # l OBVIOUS
  <2>1a. \A k \in 1 .. l : k = l \/ k \in 1 .. m OBVIOUS
  <2>1b. \A k \in 1 .. l : ~ (l < k) OBVIOUS
  <2> HIDE DEF l
  <2>2. PICK a \in 1 .. l : \A k \in 1 .. l : t[k] <= t[a] BY <2>1, LargestExists
  <2> DEFINE s == [k \in 1 .. m |-> IF k = a THEN t[l] ELSE t[k]]
  <2>3. s \in [1 .. m -> Int] BY <2>1
  <2>4. PICK q \in Injection(1 .. m, 1 .. m) : Sorts(q, s, m)
    <3> HIDE DEF s
    <3> QED BY <1>2, <2>3
  <2>5. q \in [1 .. m -> 1 .. m] /\ \A i, j \in 1 .. m : q[i] = q[j] => i = j
    BY OrderIsOnto
  <2> DEFINE p == [k \in 1 .. l |-> IF k = l THEN a ELSE IF q[k] = a THEN l ELSE q[k]]
  <2>6. p \in [1 .. l -> 1 .. l] BY <2>1, <2>1a, <2>5
  <2>7. \A k \in 1 .. m : t[p[k]] = s[q[k]] BY <2>1, <2>5
  <2>8. t[p[l]] = t[a] BY <2>1
  <2>9. ASSUME NEW i \in 1 .. l, NEW j \in 1 .. l, p[i] = p[j] PROVE i = j
    <3>1. ASSUME NEW k \in 1 .. m PROVE p[k] # a
      <4>1. q[k] \in 1 .. m /\ q[k] # l BY <2>1, <2>5
      <4> QED BY <2>1, <4>1
    <3>2. CASE i = l \/ j = l BY <2>1, <2>1a, <2>9, <3>1, <3>2
    <3>3. CASE i \in 1 .. m /\ j \in 1 .. m
      <4>1. q[i] # l /\ q[j] # l BY <2>1, <2>5, <3>3
      <4>2. q[i] = q[j] BY <2>1, <2>9, <3>3, <4>1
      <4> QED BY <2>5, <3>3, <4>2
    <3> QED BY <2>1a, <3>2, <3>3
  <2> HIDE DEF p, s
  <2>10. p \in Injection(1 .. l, 1 .. l) BY <2>1, <2>6, <2>9, IsOrder
  <2>11. ASSUME NEW i \in 1 .. l, NEW j \in 1 .. l, i < j PROVE t[p[i]] <= t[p[j]]
    <3>1. CASE j = l BY <2>2, <2>6, <2>8, <3>1
    <3>2. CASE i \in 1 .. m /\ j \in 1 .. m BY <2>4, <2>7, <2>11, <3>2 DEF Sorts
    <3> QED BY <2>1a, <2>1b, <2>11, <3>1, <3>2
  <2>12. Sorts(p, t, l) BY <2>11 DEF Sorts
  <2> QED BY <2>10, <2>12
<1> HIDE DEF Sortable
<1>3. \A m \in Nat : m \in S => m + 1 \in S BY <1>2
<1> HIDE DEF S
<1>4. Nat \subseteq S BY <1>1, <1>3, Induction
<1>5. Sortable(n) BY <1>4 DEF S
<1> QED BY <1>5 DEF Sortable

-----------------------------------------------------------------------------
(* What an object says of its array                                        *)

\* An object of which the samples were cleared sums up any array.
LEMMA NothingSummarized ==
  ASSUME NEW t, NEW m, m.num_samples = 0, m.total_duration = 0,
         m.min_duration = DBL_MAX, m.max_duration = 0
  PROVE  Summarizes(m, t)
<1>1. Total(t, 0) = 0
  <2>1. \A k \in 1 .. 0 : t[k] \in Int OBVIOUS
  <2> QED BY <2>1, TotalStep
<1>2. {t[n] : n \in 1 .. m.num_samples} = {} OBVIOUS
<1> QED BY <1>1, <1>2 DEF Summarizes

\* Of an object only the counter and the durations matter.
LEMMA SummaryOfFields ==
  ASSUME NEW t, NEW m, NEW l, Summarizes(m, t), l.num_samples = m.num_samples,
         l.total_duration = m.total_duration, l.min_duration = m.min_duration,
         l.max_duration = m.max_duration
  PROVE  Summarizes(l, t)
BY DEF Summarizes

\* l and u are what m and t become by a sample more, in the cell after the last.
OneMore(m, t, l, u, elapsed) ==
  /\ m.num_samples \in Nat
  /\ m.total_duration \in Int /\ m.min_duration \in Int /\ m.max_duration \in Int
  /\ \A k \in 1 .. m.num_samples : t[k] \in 0 .. MaxTime /\ u[k] = t[k]
  /\ u[m.num_samples + 1] = elapsed
  /\ elapsed \in 0 .. MaxTime
  /\ l.num_samples = m.num_samples + 1
  /\ l.total_duration = m.total_duration + elapsed
  /\ l.min_duration = IF elapsed < m.min_duration THEN elapsed ELSE m.min_duration
  /\ l.max_duration = IF elapsed > m.max_duration THEN elapsed ELSE m.max_duration

\* The sample is summed up.
LEMMA SummaryOfOneMore ==
  ASSUME NEW m, NEW t, NEW l, NEW u, NEW elapsed,
         OneMore(m, t, l, u, elapsed), Summarizes(m, t)
  PROVE  Summarizes(l, u)
<1> DEFINE n == m.num_samples
<1>a. /\ n \in Nat
      /\ m.total_duration \in Int /\ m.min_duration \in Int /\ m.max_duration \in Int
      /\ \A k \in 1 .. n : t[k] \in 0 .. MaxTime /\ u[k] = t[k]
      /\ u[n + 1] = elapsed
      /\ elapsed \in 0 .. MaxTime
      /\ l.num_samples = n + 1
      /\ l.total_duration = m.total_duration + elapsed
      /\ l.min_duration = IF elapsed < m.min_duration THEN elapsed ELSE m.min_duration
      /\ l.max_duration = IF elapsed > m.max_duration THEN elapsed ELSE m.max_duration
  BY DEF OneMore
<1> DEFINE all == {t[k] : k \in 1 .. n}
           more == {u[k] : k \in 1 .. n + 1}
<1>0. MaxTime \in Nat /\ elapsed \in Int /\ elapsed >= 0 /\ elapsed <= MaxTime
  BY <1>a, BoundsAssumption
<1>1. more = all \cup {elapsed}
  <2>1. \A k \in 1 .. n + 1 : k \in 1 .. n \/ k = n + 1 BY <1>a
  <2>2. \A k \in 1 .. n : k \in 1 .. n + 1 BY <1>a
  <2>3. n + 1 \in 1 .. n + 1 BY <1>a
  <2>4. more \subseteq all \cup {elapsed} BY <1>a, <2>1
  <2>5. all \subseteq more BY <1>a, <2>2
  <2>6. elapsed \in more BY <1>a, <2>3
  <2> QED BY <2>4, <2>5, <2>6
<1>2. all \subseteq 0 .. MaxTime BY <1>a
<1>3. /\ m.total_duration = Total(t, n)
      /\ \A d \in all : m.min_duration <= d /\ d <= m.max_duration
      /\ IF all = {} THEN m.min_duration = DBL_MAX /\ m.max_duration = 0
         ELSE {m.min_duration, m.max_duration} \subseteq all
  BY DEF Summarizes
<1>4. l.total_duration = Total(u, n + 1)
  <2>1. \A k \in 1 .. n : t[k] \in Int /\ t[k] = u[k] BY <1>a
  <2>2. \A k \in 1 .. n + 1 : u[k] \in Int
    <3>1. \A k \in 1 .. n + 1 : k \in 1 .. n \/ k = n + 1 BY <1>a
    <3> QED BY <1>0, <1>a, <2>1, <3>1
  <2>3. Total(u, n) = Total(t, n) BY <1>a, <2>1, TotalAgrees
  <2>4. n + 1 \in Nat /\ n + 1 > 0 /\ (n + 1) - 1 = n BY <1>a
  <2>5. Total(u, n + 1) = Total(u, n) + u[n + 1] BY <2>2, <2>4, TotalStep
  <2> QED BY <1>3, <1>a, <2>3, <2>5
<1> HIDE DEF all, more, n
<1>5. Garbage \notin more BY <1>0, <1>1, <1>2 DEF Garbage
<1>6. \A d \in more : l.min_duration <= d /\ d <= l.max_duration
  <2> SUFFICES ASSUME NEW d \in more PROVE l.min_duration <= d /\ d <= l.max_duration OBVIOUS
  <2>1. CASE d = elapsed BY <1>0, <1>a, <2>1
  <2>2. CASE d \in all
    <3>1. d \in Int /\ m.min_duration <= d /\ d <= m.max_duration BY <1>2, <1>3, <2>2
    <3> QED BY <1>0, <1>a, <3>1
  <2> QED BY <1>1, <2>1, <2>2
<1>7. more # {} /\ {l.min_duration, l.max_duration} \subseteq more
  <2>1. CASE all = {}
    <3>1. m.min_duration = MaxTime + 1 /\ m.max_duration = 0 BY <1>3, <2>1 DEF DBL_MAX
    <3>2. l.min_duration = elapsed /\ l.max_duration = elapsed BY <1>0, <1>a, <3>1
    <3> QED BY <1>1, <3>2
  <2>2. CASE all # {}
    <3>1. m.min_duration \in all /\ m.max_duration \in all BY <1>3, <2>2
    <3> QED BY <1>1, <1>a, <3>1
  <2> QED BY <2>1, <2>2
<1>8. more = {u[k] : k \in 1 .. l.num_samples} BY <1>a DEF more
<1> QED BY <1>a, <1>4, <1>5, <1>6, <1>7, <1>8 DEF Summarizes

\* The same samples in another order have the same summary.
LEMMA SummaryPermuted ==
  ASSUME NEW n \in Nat, NEW t, NEW u, NEW m, m.num_samples = n, Summarizes(m, t),
         NEW p \in Injection(1 .. n, 1 .. n),
         \A k \in 1 .. n : t[k] \in Int, \A k \in 1 .. n : u[k] = t[p[k]]
  PROVE  Summarizes(m, u)
<1>1. p \in [1 .. n -> 1 .. n] /\ \A k \in 1 .. n : \E i \in 1 .. n : p[i] = k
  BY ONLY n \in Nat, p \in Injection(1 .. n, 1 .. n), OrderIsOnto
<1>2. {u[k] : k \in 1 .. n} = {t[k] : k \in 1 .. n}
  <2>1. ASSUME NEW k \in 1 .. n PROVE u[k] \in {t[i] : i \in 1 .. n} BY <1>1
  <2>2. ASSUME NEW k \in 1 .. n PROVE t[k] \in {u[i] : i \in 1 .. n}
    <3>1. PICK i \in 1 .. n : p[i] = k BY <1>1
    <3>2. u[i] = t[k] BY <3>1
    <3> QED BY <3>2
  <2>3. {u[k] : k \in 1 .. n} \subseteq {t[k] : k \in 1 .. n} BY <2>1
  <2>4. {t[k] : k \in 1 .. n} \subseteq {u[k] : k \in 1 .. n} BY <2>2
  <2> QED BY ONLY <2>3, <2>4, Zenon
<1>3. Total(u, n) = Total(t, n)
  <2> DEFINE s == [k \in 1 .. n |-> t[k]]
             v == [k \in 1 .. n |-> u[k]]
  <2>1. s \in [1 .. n -> Int] /\ v \in [1 .. n -> Int] BY <1>1
  <2>2. \A k \in 1 .. n : v[k] = s[p[k]] BY <1>1
  <2>3. /\ \A k \in 1 .. n : s[k] \in Int /\ s[k] = t[k]
        /\ \A k \in 1 .. n : v[k] \in Int /\ v[k] = u[k]
    BY <2>1
  <2> HIDE DEF s, v
  <2>4. Total(v, n) = Total(s, n) BY <2>1, <2>2, TotalPermuted
  <2> QED BY <2>3, <2>4, TotalAgrees
<1> QED BY <1>2, <1>3 DEF Summarizes

\* qsort keeps the samples, in an order that does not decrease.
LEMMA SortedIs ==
  ASSUME NEW b, NEW c \in Nat, NEW n \in Nat, n = mark[b].num_samples, n <= c,
         iteration_times[b] \in [1 .. c -> Int]
  PROVE  /\ Sorted(b) \in [1 .. c -> Int]
         /\ \E p \in Injection(1 .. n, 1 .. n) :
              \A k \in 1 .. n : Sorted(b)[k] = iteration_times[b][p[k]]
         /\ \A i, j \in 1 .. n : i < j => Sorted(b)[i] <= Sorted(b)[j]
<1> DEFINE t == iteration_times[b]
           order == CHOOSE p \in Injection(1 .. n, 1 .. n) : Sorts(p, t, n)
           s == [k \in 1 .. n |-> t[k]]
<1>1. s \in [1 .. n -> Int] OBVIOUS
<1>2. PICK q \in Injection(1 .. n, 1 .. n) : Sorts(q, s, n) BY <1>1, SortingOrderExists
<1>3. Sorts(q, t, n)
  <2>1. q \in [1 .. n -> 1 .. n] BY OrderIsOnto
  <2>2. \A k \in 1 .. n : s[q[k]] = t[q[k]] BY <2>1
  <2> QED BY <1>2, <2>2 DEF Sorts
<1>4. order \in Injection(1 .. n, 1 .. n) /\ Sorts(order, t, n) BY <1>3
<1>5. Sorted(b) = [i \in 1 .. c |-> IF i <= n THEN t[order[i]] ELSE t[i]] BY DEF Sorted
<1> HIDE DEF order
<1>6. order \in [1 .. n -> 1 .. n] BY <1>4, OrderIsOnto
<1>7. \A k \in 1 .. n : Sorted(b)[k] = t[order[k]] BY <1>5
<1>8. Sorted(b) \in [1 .. c -> Int]
  <2>1. ASSUME NEW i \in 1 .. c PROVE (IF i <= n THEN t[order[i]] ELSE t[i]) \in Int
    <3>1. CASE i <= n
      <4>1. order[i] \in 1 .. c BY <1>6, <3>1
      <4> QED BY <3>1, <4>1
    <3> QED BY <3>1
  <2> QED BY <1>5, <2>1
<1>9. \A i, j \in 1 .. n : i < j => Sorted(b)[i] <= Sorted(b)[j] BY <1>4, <1>7 DEF Sorts
<1> QED BY <1>4, <1>7, <1>8, <1>9

\* In a sorted array at most half of the cells are below the median, and at
\* most half above: so of the samples, in whatever order they were.
LEMMA MedianOf ==
  ASSUME NEW n \in Nat \ {0}, NEW t, NEW u, NEW p \in Injection(1 .. n, 1 .. n),
         \A k \in 1 .. n : t[k] \in Int, \A k \in 1 .. n : u[k] = t[p[k]],
         \A i, j \in 1 .. n : i < j => u[i] <= u[j]
  PROVE  /\ 2 * Cardinality({k \in 1 .. n : 2 * t[k] < DoubleMedian(u, n)}) <= n
         /\ 2 * Cardinality({k \in 1 .. n : 2 * t[k] > DoubleMedian(u, n)}) <= n
<1> DEFINE h == n \div 2
           median == DoubleMedian(u, n)
<1>1. /\ p \in [1 .. n -> 1 .. n]
      /\ \A k \in 1 .. n : \E i \in 1 .. n : p[i] = k
  BY OrderIsOnto
<1>2. h \in Nat /\ (n % 2 = 0 => n = 2 * h) /\ (n % 2 # 0 => n = 2 * h + 1) OBVIOUS
<1>3. median = IF n % 2 = 0 THEN u[h] + u[h + 1] ELSE 2 * u[h + 1] BY DEF DoubleMedian
<1>4. \A k \in 1 .. n : u[k] \in Int BY <1>1
<1>5. \A i, j \in 1 .. n : i <= j => u[i] <= u[j] BY <1>4
<1> HIDE DEF h, median
<1>6. ASSUME NEW i \in 1 .. n, 2 * u[i] < median PROVE i \in 1 .. h
  <2> SUFFICES ASSUME h < i PROVE FALSE BY <1>2
  <2>1. h + 1 \in 1 .. n /\ h + 1 <= i BY <1>2
  <2>2. u[h + 1] \in Int /\ u[i] \in Int /\ u[h + 1] <= u[i] BY <1>4, <1>5, <2>1
  <2>3. CASE n % 2 = 0
    <3>1. h \in 1 .. n /\ h <= h + 1 BY <1>2, <2>3
    <3>2. u[h] \in Int /\ u[h] <= u[h + 1] BY <1>4, <1>5, <2>1, <3>1
    <3>3. 2 * u[i] < u[h] + u[h + 1] BY <1>3, <1>6, <2>3
    <3> QED BY ONLY <2>2, <3>2, <3>3
  <2>4. CASE n % 2 # 0
    <3>1. 2 * u[i] < 2 * u[h + 1] BY <1>3, <1>6, <2>4
    <3> QED BY ONLY <2>2, <3>1
  <2> QED BY <2>3, <2>4
<1>7. ASSUME NEW i \in 1 .. n, 2 * u[i] > median PROVE i \in (n - h) + 1 .. n
  <2> SUFFICES ASSUME i <= n - h PROVE FALSE BY <1>2
  <2>1. h + 1 \in 1 .. n /\ i <= h + 1 BY <1>2
  <2>2. u[h + 1] \in Int /\ u[i] \in Int /\ u[i] <= u[h + 1] BY <1>4, <1>5, <2>1
  <2>3. CASE n % 2 = 0
    <3>1. h \in 1 .. n /\ i <= h BY <1>2, <2>3
    <3>2. u[h] \in Int /\ u[i] <= u[h] BY <1>4, <1>5, <2>1, <3>1
    <3>3. 2 * u[i] > u[h] + u[h + 1] BY <1>3, <1>7, <2>3
    <3> QED BY ONLY <2>2, <3>2, <3>3
  <2>4. CASE n % 2 # 0
    <3>1. 2 * u[i] > 2 * u[h + 1] BY <1>3, <1>7, <2>4
    <3> QED BY ONLY <2>2, <3>1
  <2> QED BY <2>3, <2>4
<1>8. ASSUME NEW K \in SUBSET (1 .. n), NEW lo \in 1 .. n + 1, NEW hi \in 0 .. n,
             \A i \in 1 .. n : p[i] \in K => i \in lo .. hi, hi = lo + h - 1
      PROVE  2 * Cardinality(K) <= n
  <2> DEFINE J == {i \in 1 .. n : p[i] \in K}
             f == [i \in J |-> p[i]]
  <2>0. lo \in Int /\ hi \in Int /\ (IF lo > hi THEN 0 ELSE hi - lo + 1) = h BY <1>2, <1>8
  <2>1. IsFiniteSet(lo .. hi) /\ Cardinality(lo .. hi) = h BY <2>0, FS_Interval
  <2>2. J \in SUBSET (lo .. hi) BY <1>8
  <2>3. IsFiniteSet(J) /\ Cardinality(J) <= h BY <2>1, <2>2, FS_Subset
  <2>4. f \in Surjection(J, K)
    <3>1. f \in [J -> K] OBVIOUS
    <3>2. \A k \in K : \E i \in J : f[i] = k BY <1>1
    <3> HIDE DEF f, J
    <3> QED BY <3>1, <3>2 DEF Surjection
  <2> HIDE DEF f, J
  <2>5. IsFiniteSet(K) /\ Cardinality(K) <= Cardinality(J) BY <2>3, <2>4, FS_Surjection
  <2>6. Cardinality(K) \in Nat /\ Cardinality(J) \in Nat BY <2>3, <2>5, FS_CardinalityType
  <2>7. Cardinality(K) <= h BY <1>2, <2>3, <2>5, <2>6
  <2> QED BY <1>2, <2>6, <2>7
<1>9. 2 * Cardinality({k \in 1 .. n : 2 * t[k] < median}) <= n
  <2> DEFINE K == {k \in 1 .. n : 2 * t[k] < median}
  <2>1. \A i \in 1 .. n : p[i] \in K => i \in 1 .. h BY <1>1, <1>6
  <2>2. K \in SUBSET (1 .. n) /\ 1 \in 1 .. n + 1 /\ h \in 0 .. n /\ h = 1 + h - 1 BY <1>2
  <2> HIDE DEF K
  <2>3. 2 * Cardinality(K) <= n BY <1>8, <2>1, <2>2
  <2> QED BY <2>3 DEF K
<1>10. 2 * Cardinality({k \in 1 .. n : 2 * t[k] > median}) <= n
  <2> DEFINE K == {k \in 1 .. n : 2 * t[k] > median}
             lo == (n - h) + 1
  <2>1. \A i \in 1 .. n : p[i] \in K => i \in lo .. n BY <1>1, <1>7
  <2>2. K \in SUBSET (1 .. n) /\ lo \in 1 .. n + 1 /\ n \in 0 .. n /\ n = lo + h - 1 BY <1>2
  <2> HIDE DEF K, lo
  <2>3. 2 * Cardinality(K) <= n BY <1>8, <2>1, <2>2
  <2> QED BY <2>3 DEF K
<1> QED BY <1>9, <1>10 DEF median

-----------------------------------------------------------------------------
(* What the functions make of an object                                    *)

\* A new object is well formed.
LEMMA NewMark == New \in MarkType /\ New.num_samples = 0 /\ New.num_iterations = 0
BY CapacityAssumption, BoundsAssumption DEF New, MarkType, DBL_MAX

\* Its array holds no samples yet.
LEMMA NewHolds == Holds(New, NewArray)
<1>1. NewArray \in [1 .. FirstCapacity -> Int] BY DEF NewArray, Garbage
<1>2. Summarizes(New, NewArray) BY NothingSummarized DEF New
<1> QED BY <1>1, <1>2 DEF Holds, New

\* So is one of which the samples were cleared.
LEMMA ClearedMark ==
  ASSUME NEW m \in MarkType
  PROVE  /\ Cleared(m) \in MarkType
         /\ Cleared(m).num_samples = 0 /\ Cleared(m).num_iterations = 0
         /\ Cleared(m).total_duration = 0 /\ Cleared(m).min_duration = DBL_MAX
         /\ Cleared(m).max_duration = 0 /\ Cleared(m).capacity = m.capacity
<1>1. DBL_MAX \in Nat BY BoundsAssumption DEF DBL_MAX
<1> DEFINE a == [m EXCEPT !.num_samples = 0]
           b == [a EXCEPT !.num_iterations = 0]
           c == [b EXCEPT !.total_duration = 0]
           d == [c EXCEPT !.min_duration = DBL_MAX]
           e == [d EXCEPT !.max_duration = 0]
<1>2. a \in MarkType BY DEF MarkType
<1>3. b \in MarkType BY <1>2 DEF MarkType
<1>4. c \in MarkType BY <1>3 DEF MarkType
<1>5. d \in MarkType BY <1>1, <1>4 DEF MarkType
<1>6. e \in MarkType BY <1>5 DEF MarkType
<1>7. Cleared(m) = e BY DEF Cleared
<1>8. /\ Cleared(m).num_samples = 0 /\ Cleared(m).num_iterations = 0
      /\ Cleared(m).total_duration = 0 /\ Cleared(m).min_duration = DBL_MAX
      /\ Cleared(m).max_duration = 0 /\ Cleared(m).capacity = m.capacity
  BY DEF Cleared, MarkType
<1> QED BY <1>6, <1>7, <1>8

\* One sample more is counted, and there is room for it.
LEMMA SampledMark ==
  ASSUME NEW m \in MarkType, NEW elapsed \in Nat,
         m.num_samples <= m.capacity,
         m.num_iterations >= m.num_warmup,
         m.num_samples = m.num_iterations - m.num_warmup
  PROVE  /\ Sampled(m, elapsed) \in MarkType
         /\ Sampled(m, elapsed).num_samples = m.num_samples + 1
         /\ Sampled(m, elapsed).num_iterations = m.num_iterations + 1
         /\ Sampled(m, elapsed).num_warmup = m.num_warmup
         /\ Sampled(m, elapsed).num_samples <= Sampled(m, elapsed).capacity
         /\ Sampled(m, elapsed).total_duration = m.total_duration + elapsed
         /\ Sampled(m, elapsed).min_duration =
              IF elapsed < m.min_duration THEN elapsed ELSE m.min_duration
         /\ Sampled(m, elapsed).max_duration =
              IF elapsed > m.max_duration THEN elapsed ELSE m.max_duration
         /\ Sampled(m, elapsed).capacity = IF Full(m) THEN 2 * m.capacity ELSE m.capacity
<1> DEFINE s == Sampled(m, elapsed)
<1>1. /\ s.num_samples = m.num_samples + 1
      /\ s.num_iterations = m.num_iterations + 1
      /\ s.num_warmup = m.num_warmup
      /\ s.total_duration = m.total_duration + elapsed
      /\ s.min_duration = IF elapsed < m.min_duration THEN elapsed ELSE m.min_duration
      /\ s.max_duration = IF elapsed > m.max_duration THEN elapsed ELSE m.max_duration
      /\ s.capacity = IF Full(m) THEN 2 * m.capacity ELSE m.capacity
  BY DEF Sampled, MarkType
<1>2. s \in MarkType
  <2> DEFINE a == [m EXCEPT !.capacity = IF Full(m) THEN 2 * @ ELSE @]
             b == [a EXCEPT !.total_duration = @ + elapsed]
             c == [b EXCEPT !.min_duration = IF elapsed < @ THEN elapsed ELSE @]
             d == [c EXCEPT !.max_duration = IF elapsed > @ THEN elapsed ELSE @]
             e == [d EXCEPT !.num_samples = @ + 1]
             f == [e EXCEPT !.num_iterations = @ + 1]
             g == [f EXCEPT !.running = FALSE]
  <2> HIDE DEF a, b, c, d, e, f, g
  <2>1. a \in MarkType BY DEF MarkType, a
  <2>2. b \in MarkType BY <2>1 DEF MarkType, b
  <2>3. c \in MarkType BY <2>2 DEF MarkType, c
  <2>4. d \in MarkType BY <2>3 DEF MarkType, d
  <2>5. e \in MarkType BY <2>4 DEF MarkType, e
  <2>6. f \in MarkType BY <2>5 DEF MarkType, f
  <2>7. g \in MarkType BY <2>6 DEF MarkType, g
  <2>8. /\ b.min_duration = m.min_duration /\ c.max_duration = m.max_duration
        /\ a.total_duration = m.total_duration
        /\ d.num_samples = m.num_samples /\ e.num_iterations = m.num_iterations
    BY DEF MarkType, a, b, c, d, e
  <2>9. s = g BY <2>8 DEF Sampled, a, b, c, d, e, f, g
  <2> QED BY <2>7, <2>9
<1>3. m.num_samples <= m.num_iterations
  BY DEF MarkType
<1>4. s.num_samples <= s.capacity
  BY <1>1, <1>3 DEF MarkType, Full
<1> QED BY <1>1, <1>2, <1>4

\* The sample is written to the cell after the last one, and summed up.
LEMMA SampledHolds ==
  ASSUME NEW m \in MarkType, NEW t, Holds(m, t), NEW elapsed \in 0 .. MaxTime,
         m.num_samples <= m.capacity,
         m.num_iterations >= m.num_warmup,
         m.num_samples = m.num_iterations - m.num_warmup
  PROVE  Holds(Sampled(m, elapsed), Written(t, m, elapsed))
<1> DEFINE s == Sampled(m, elapsed)
           g == Grown(t, m)
           u == Written(t, m, elapsed)
           n == m.num_samples
           c == m.capacity
<1>1. /\ n \in Nat /\ c \in Nat \ {0} /\ n <= c /\ elapsed \in Nat /\ elapsed \in Int
      /\ m.total_duration \in Int /\ m.min_duration \in Int /\ m.max_duration \in Int
  BY BoundsAssumption DEF MarkType
<1>2. m.num_iterations - m.num_warmup + 1 = n + 1 BY DEF MarkType
<1>3. /\ s.num_samples = n + 1
      /\ s.total_duration = m.total_duration + elapsed
      /\ s.min_duration = IF elapsed < m.min_duration THEN elapsed ELSE m.min_duration
      /\ s.max_duration = IF elapsed > m.max_duration THEN elapsed ELSE m.max_duration
      /\ s.capacity = IF Full(m) THEN 2 * c ELSE c
      /\ n + 1 <= s.capacity
  BY <1>1, SampledMark
<1>4. t \in [1 .. c -> Int] /\ (\A k \in 1 .. n : t[k] \in 0 .. MaxTime) /\ Summarizes(m, t)
  BY DEF Holds
<1> HIDE DEF s
<1>5. g \in [1 .. s.capacity -> Int] /\ \A k \in 1 .. n : g[k] = t[k]
  <2>1. CASE Full(m)
    <3>1. g = [k \in 1 .. 2 * c |-> IF k <= c THEN t[k] ELSE Garbage] BY <2>1 DEF Grown
    <3>2. \A k \in 1 .. 2 * c : (IF k <= c THEN t[k] ELSE Garbage) \in Int
      <4>1. \A k \in 1 .. 2 * c : k <= c => k \in 1 .. c BY <1>1
      <4> QED BY <1>4, <4>1 DEF Garbage
    <3>3. \A k \in 1 .. n : k \in 1 .. 2 * c /\ k <= c BY <1>1
    <3> HIDE DEF g
    <3> QED BY <1>3, <2>1, <3>1, <3>2, <3>3
  <2>2. CASE ~ Full(m)
    <3>1. g = t /\ s.capacity = c BY <1>3, <2>2 DEF Grown
    <3> QED BY <1>4, <3>1
  <2> QED BY <2>1, <2>2
<1> HIDE DEF g
<1>6. n + 1 \in 1 .. s.capacity /\ \A k \in 1 .. n : k \in 1 .. s.capacity /\ k # n + 1
  <2>1. s.capacity \in Nat BY <1>1, <1>3
  <2> QED BY <1>1, <1>3, <2>1
<1>7. u = [g EXCEPT ![n + 1] = elapsed] BY <1>2 DEF Written, g
<1> HIDE DEF u
<1>8. u \in [1 .. s.capacity -> Int] BY <1>1, <1>5, <1>7
<1>9. u[n + 1] = elapsed BY <1>5, <1>6, <1>7
<1>10. \A k \in 1 .. n : t[k] \in 0 .. MaxTime /\ u[k] = t[k] BY <1>4, <1>5, <1>6, <1>7
<1>11. Summarizes(s, u)
  <2>1. OneMore(m, t, s, u, elapsed) BY <1>1, <1>3, <1>9, <1>10 DEF OneMore
  <2> QED BY ONLY <2>1, <1>4, SummaryOfOneMore
<1>12. \A k \in 1 .. s.num_samples : u[k] \in 0 .. MaxTime
  <2>1. \A k \in 1 .. n + 1 : k \in 1 .. n \/ k = n + 1 BY <1>1
  <2> QED BY <1>3, <1>9, <1>10, <2>1
<1> QED BY <1>8, <1>11, <1>12 DEF Holds, s, u

-----------------------------------------------------------------------------
(* The invariant                                                           *)

\* Nothing runs at first, and every object is new.
LEMMA InitInv == Init => Inv
<1> SUFFICES ASSUME Init PROVE Inv OBVIOUS
<1>1. TimerInv BY BoundsAssumption DEF Init, TimerInv
<1>2. mark \in [Benchmark -> MarkType] BY NewMark DEF Init
<1>3. SamplesFit BY NewMark, CapacityAssumption DEF Init, SamplesFit, New
<1>4. ArrayInv BY NewHolds DEF Init, ArrayInv
<1>5. DOMAIN stats = Benchmark BY DEF Init
<1> QED BY <1>1, <1>2, <1>3, <1>4, <1>5 DEF Inv, MarkInv

\* A start sets the common start time to now, which no running benchmark
\* began after.
LEMMA TimerStep == TimerInv /\ [Next]_vars => TimerInv'
<1> SUFFICES ASSUME TimerInv, [Next]_vars PROVE TimerInv' OBVIOUS
<1> USE BoundsAssumption
<1> USE DEF TimerInv
<1>1. CASE Tick BY <1>1 DEF Tick
<1>2. CASE StartTimer BY <1>2 DEF StartTimer, fossil_test_start_benchmark
<1>3. ASSUME NEW b \in Benchmark, Start(b) PROVE TimerInv'
  <2>1. /\ start_time' = now /\ now' = now
        /\ begun' = [begun EXCEPT ![b] = now]
        /\ alone' = [c \in Benchmark |-> c = b]
    BY <1>3 DEF Start, fossil_test_start_benchmark
  <2>2. begun' \in [Benchmark -> Nat] BY <2>1
  <2>3. alone' \in [Benchmark -> BOOLEAN]
    <3>1. \A c \in Benchmark : (c = b) \in BOOLEAN OBVIOUS
    <3> QED BY ONLY <2>1, <3>1, Zenon
  <2>4. \A c \in Benchmark : begun'[c] <= now /\ (c = b => begun'[c] = now)
    BY <2>1
  <2>5. \A c \in Benchmark : alone'[c] => c = b BY ONLY <2>1, Zenon
  <2> QED BY <2>1, <2>2, <2>3, <2>4, <2>5
<1>4. ASSUME NEW b \in Benchmark,
             StopWarmup(b) \/ Stop(b) \/ CalculateStats(b) \/ Reset(b) \/ SetWarmup(b) \/ Renew(b)
      PROVE  UNCHANGED << now, start_time, begun, alone >>
  BY <1>4 DEF StopWarmup, Stop, CalculateStats, Reset, SetWarmup, Renew
<1>5. CASE UNCHANGED vars BY <1>5 DEF vars
<1> QED BY <1>1, <1>2, <1>3, <1>4, <1>5 DEF Next

\* Each step keeps every object well formed; a stop finds room for its sample.
LEMMA MarkStep == Inv /\ [Next]_vars => MarkInv'
<1> SUFFICES ASSUME TimerInv, MarkInv, [Next]_vars PROVE MarkInv' BY DEF Inv
<1> DEFINE Fits(m) == /\ m.num_samples <= m.capacity
                      /\ m.num_samples = IF m.num_iterations < m.num_warmup THEN 0
                                         ELSE m.num_iterations - m.num_warmup
<1>a. mark \in [Benchmark -> MarkType] /\ \A b \in Benchmark : Fits(mark[b])
  BY DEF MarkInv, SamplesFit
<1>b. ASSUME NEW b \in Benchmark, NEW m \in MarkType, Fits(m), mark' = [mark EXCEPT ![b] = m]
      PROVE  MarkInv'
  <2>1. mark' \in [Benchmark -> MarkType] BY <1>a, <1>b
  <2>2. \A c \in Benchmark : Fits(mark'[c]) BY <1>a, <1>b
  <2> QED BY <2>1, <2>2 DEF MarkInv, SamplesFit
<1>c. ASSUME UNCHANGED mark PROVE MarkInv'
  BY <1>c DEF MarkInv, SamplesFit
<1>1. CASE Tick BY <1>1, <1>c DEF Tick
<1>2. CASE StartTimer BY <1>2, <1>c DEF StartTimer
<1>3. ASSUME NEW b \in Benchmark, Start(b) PROVE MarkInv'
  <2> DEFINE m == [mark[b] EXCEPT !.running = TRUE]
  <2>1. m \in MarkType /\ Fits(m) BY <1>a DEF MarkType
  <2>2. mark' = [mark EXCEPT ![b] = m] BY <1>3 DEF Start
  <2> QED BY ONLY <2>1, <2>2, <1>b
<1>4. ASSUME NEW b \in Benchmark, StopWarmup(b) PROVE MarkInv'
  <2> DEFINE m == [mark[b] EXCEPT !.num_iterations = @ + 1, !.running = FALSE]
  <2>1. m \in MarkType /\ Fits(m) BY <1>a, <1>4 DEF MarkType, StopWarmup
  <2>2. mark' = [mark EXCEPT ![b] = m] BY <1>4, <1>a DEF StopWarmup
  <2> QED BY ONLY <2>1, <2>2, <1>b
<1>5. ASSUME NEW b \in Benchmark, Stop(b) PROVE MarkInv'
  <2> DEFINE m == Sampled(mark[b], now - start_time)
  <2>1. now - start_time \in Nat BY DEF TimerInv
  <2>2. /\ mark[b] \in MarkType
        /\ mark[b].num_samples <= mark[b].capacity
        /\ mark[b].num_iterations >= mark[b].num_warmup
        /\ mark[b].num_samples = mark[b].num_iterations - mark[b].num_warmup
    BY <1>a, <1>5 DEF Stop, MarkType
  <2> HIDE DEF m
  <2>3. m \in MarkType /\ Fits(m)
    <3>1. /\ m \in MarkType
          /\ m.num_samples = mark[b].num_samples + 1
          /\ m.num_iterations = mark[b].num_iterations + 1
          /\ m.num_warmup = mark[b].num_warmup
          /\ m.num_samples <= m.capacity
      BY <2>1, <2>2, SampledMark DEF m
    <3> QED BY <2>2, <3>1 DEF MarkType
  <2>4. mark' = [mark EXCEPT ![b] = m] BY <1>5 DEF m, Stop, fossil_test_stop_benchmark
  <2> QED BY ONLY <2>3, <2>4, <1>b
<1>6. ASSUME NEW b \in Benchmark, CalculateStats(b) PROVE MarkInv'
  BY <1>6, <1>c DEF CalculateStats
<1>7. ASSUME NEW b \in Benchmark, Reset(b) PROVE MarkInv'
  <2> DEFINE m == Cleared(mark[b])
  <2>1. m \in MarkType /\ Fits(m) BY <1>a, ClearedMark DEF MarkType
  <2>2. mark' = [mark EXCEPT ![b] = m] BY <1>7 DEF Reset
  <2> QED BY ONLY <2>1, <2>2, <1>b
<1>8. ASSUME NEW b \in Benchmark, SetWarmup(b) PROVE MarkInv'
  <2>1. PICK w \in Warmup : mark' = [mark EXCEPT ![b].num_warmup = w] BY <1>8 DEF SetWarmup
  <2> DEFINE m == [mark[b] EXCEPT !.num_warmup = w]
  <2>2. m \in MarkType /\ Fits(m) BY <1>a, <1>8, WarmupAssumption DEF MarkType, SetWarmup
  <2>3. mark' = [mark EXCEPT ![b] = m] BY <2>1
  <2> QED BY ONLY <2>2, <2>3, <1>b
<1>9. ASSUME NEW b \in Benchmark, Renew(b) PROVE MarkInv'
  <2>1. New \in MarkType /\ Fits(New) BY NewMark DEF MarkType
  <2>2. mark' = [mark EXCEPT ![b] = New] BY <1>9 DEF Renew
  <2> QED BY ONLY <2>1, <2>2, <1>b
<1>10. CASE UNCHANGED vars BY <1>10, <1>c DEF vars
<1> QED BY <1>1, <1>2, <1>3, <1>4, <1>5, <1>6, <1>7, <1>8, <1>9, <1>10 DEF Next

\* A stop writes its sample and sums it up; statistics only sort the samples;
\* the other steps leave the arrays and what they are compared with.
LEMMA ArrayStep == Inv /\ [Next]_vars => ArrayInv'
<1> SUFFICES ASSUME Inv, [Next]_vars PROVE ArrayInv' OBVIOUS
<1>a. /\ mark \in [Benchmark -> MarkType] /\ DOMAIN iteration_times = Benchmark
      /\ \A b \in Benchmark : Holds(mark[b], iteration_times[b])
      /\ \A b \in Benchmark : mark[b].num_samples <= mark[b].capacity
  BY DEF Inv, MarkInv, ArrayInv, SamplesFit
<1>b. ASSUME NEW b \in Benchmark, NEW m, NEW t, Holds(m, t), mark' = [mark EXCEPT ![b] = m],
             iteration_times' = [iteration_times EXCEPT ![b] = t]
      PROVE  ArrayInv'
  <2>1. DOMAIN iteration_times' = Benchmark BY <1>a, <1>b
  <2>2. \A c \in Benchmark : Holds(mark'[c], iteration_times'[c]) BY <1>a, <1>b
  <2> QED BY <2>1, <2>2 DEF ArrayInv, Holds, Summarizes
<1>c. ASSUME UNCHANGED << mark, iteration_times >> PROVE ArrayInv'
  <2>1. \A c \in Benchmark : Holds(mark'[c], iteration_times'[c]) BY <1>a, <1>c
  <2> QED BY <1>a, <1>c, <2>1 DEF ArrayInv, Holds, Summarizes
<1>e. ASSUME NEW b \in Benchmark, NEW m, mark' = [mark EXCEPT ![b] = m],
             UNCHANGED iteration_times, Holds(m, iteration_times[b])
      PROVE  ArrayInv'
  <2>1. \A c \in Benchmark : Holds(mark'[c], iteration_times'[c]) BY <1>a, <1>e
  <2> QED BY <1>a, <1>e, <2>1 DEF ArrayInv, Holds, Summarizes
<1>d. ASSUME NEW b \in Benchmark, NEW m, mark' = [mark EXCEPT ![b] = m],
             UNCHANGED iteration_times,
             m.num_samples = mark[b].num_samples, m.capacity = mark[b].capacity,
             m.total_duration = mark[b].total_duration,
             m.min_duration = mark[b].min_duration, m.max_duration = mark[b].max_duration
      PROVE  ArrayInv'
  <2>1. Holds(mark[b], iteration_times[b]) BY <1>a
  <2>2. Summarizes(m, iteration_times[b]) BY <1>d, <2>1, SummaryOfFields DEF Holds
  <2>3. Holds(m, iteration_times[b]) BY <1>d, <2>1, <2>2 DEF Holds
  <2> QED BY <1>d, <1>e, <2>3
<1>1. CASE Tick BY <1>1, <1>c DEF Tick
<1>2. CASE StartTimer BY <1>2, <1>c DEF StartTimer
<1>3. ASSUME NEW b \in Benchmark, Start(b) PROVE ArrayInv'
  <2> DEFINE m == [mark[b] EXCEPT !.running = TRUE]
  <2>1. mark' = [mark EXCEPT ![b] = m] /\ UNCHANGED iteration_times BY <1>3 DEF Start
  <2>2. /\ m.num_samples = mark[b].num_samples /\ m.capacity = mark[b].capacity
        /\ m.total_duration = mark[b].total_duration
        /\ m.min_duration = mark[b].min_duration /\ m.max_duration = mark[b].max_duration
    BY <1>a DEF MarkType
  <2> HIDE DEF m
  <2> QED BY <1>d, <2>1, <2>2
<1>4. ASSUME NEW b \in Benchmark, StopWarmup(b) PROVE ArrayInv'
  <2> DEFINE m == [mark[b] EXCEPT !.num_iterations = @ + 1, !.running = FALSE]
  <2>1. mark' = [mark EXCEPT ![b] = m] /\ UNCHANGED iteration_times
    BY <1>4, <1>a DEF StopWarmup
  <2>2. /\ m.num_samples = mark[b].num_samples /\ m.capacity = mark[b].capacity
        /\ m.total_duration = mark[b].total_duration
        /\ m.min_duration = mark[b].min_duration /\ m.max_duration = mark[b].max_duration
    BY <1>a DEF MarkType
  <2> HIDE DEF m
  <2> QED BY <1>d, <2>1, <2>2
<1>5. ASSUME NEW b \in Benchmark, Stop(b) PROVE ArrayInv'
  <2> DEFINE elapsed == now - start_time
             m == Sampled(mark[b], elapsed)
             t == Written(iteration_times[b], mark[b], elapsed)
  <2>1. elapsed \in 0 .. MaxTime BY BoundsAssumption DEF Inv, TimerInv
  <2>2. /\ mark[b] \in MarkType
        /\ mark[b].num_samples <= mark[b].capacity
        /\ mark[b].num_iterations >= mark[b].num_warmup
        /\ mark[b].num_samples = mark[b].num_iterations - mark[b].num_warmup
    BY <1>a, <1>5 DEF Stop, MarkType, Inv, MarkInv, SamplesFit
  <2>3. Holds(mark[b], iteration_times[b]) BY <1>a
  <2>4. /\ mark' = [mark EXCEPT ![b] = m]
        /\ iteration_times' = [iteration_times EXCEPT ![b] = t]
    BY <1>5, <1>a DEF Stop, fossil_test_stop_benchmark
  <2> HIDE DEF elapsed
  <2>5. Holds(m, t) BY <2>1, <2>2, <2>3, SampledHolds
  <2> HIDE DEF m, t
  <2> QED BY <1>b, <2>4, <2>5
<1>6. ASSUME NEW b \in Benchmark, CalculateStats(b) PROVE ArrayInv'
  <2> DEFINE m == mark[b]
             t == iteration_times[b]
             u == Sorted(b)
             c == m.capacity
             n == m.num_samples
  <2>1. c \in Nat /\ n \in Nat /\ n <= c BY <1>a DEF MarkType
  <2>2. t \in [1 .. c -> Int] /\ (\A k \in 1 .. n : t[k] \in 0 .. MaxTime) /\ Summarizes(m, t)
    BY <1>a DEF Holds
  <2>3. /\ u \in [1 .. c -> Int]
        /\ \E p \in Injection(1 .. n, 1 .. n) : \A k \in 1 .. n : u[k] = t[p[k]]
    BY <2>1, <2>2, SortedIs
  <2>4. /\ mark' = [mark EXCEPT ![b] = m]
        /\ iteration_times' = [iteration_times EXCEPT ![b] = u]
    BY <1>6, <1>a DEF CalculateStats
  <2> HIDE DEF u
  <2>5. PICK p \in Injection(1 .. n, 1 .. n) : \A k \in 1 .. n : u[k] = t[p[k]] BY <2>3
  <2>6. p \in [1 .. n -> 1 .. n] BY <2>1, OrderIsOnto
  <2>7. \A k \in 1 .. n : u[k] \in 0 .. MaxTime BY <2>2, <2>5, <2>6
  <2>8. Summarizes(m, u)
    <3>1. \A k \in 1 .. n : t[k] \in Int BY <2>2
    <3> HIDE DEF t
    <3> QED BY <2>1, <2>2, <2>5, <3>1, SummaryPermuted
  <2>9. Holds(m, u) BY <2>3, <2>7, <2>8 DEF Holds
  <2> QED BY <1>b, <2>4, <2>9
<1>7. ASSUME NEW b \in Benchmark, Reset(b) PROVE ArrayInv'
  <2> DEFINE m == Cleared(mark[b])
             t == iteration_times[b]
  <2>1. /\ m.num_samples = 0 /\ m.total_duration = 0 /\ m.min_duration = DBL_MAX
        /\ m.max_duration = 0 /\ m.capacity = mark[b].capacity
    BY <1>a, ClearedMark
  <2>2. mark' = [mark EXCEPT ![b] = m] /\ UNCHANGED iteration_times
    BY <1>7, <1>a DEF Reset
  <2>3. t \in [1 .. mark[b].capacity -> Int] BY <1>a DEF Holds
  <2> HIDE DEF m, t
  <2>4. Summarizes(m, t) BY <2>1, NothingSummarized
  <2>5. Holds(m, t) BY <2>1, <2>3, <2>4 DEF Holds
  <2> QED BY <1>e, <2>2, <2>5 DEF t
<1>8. ASSUME NEW b \in Benchmark, SetWarmup(b) PROVE ArrayInv'
  <2>1. PICK w \in Warmup : mark' = [mark EXCEPT ![b].num_warmup = w] BY <1>8 DEF SetWarmup
  <2> DEFINE m == [mark[b] EXCEPT !.num_warmup = w]
  <2>2. mark' = [mark EXCEPT ![b] = m] /\ UNCHANGED iteration_times BY <1>8, <2>1 DEF SetWarmup
  <2>3. /\ m.num_samples = mark[b].num_samples /\ m.capacity = mark[b].capacity
        /\ m.total_duration = mark[b].total_duration
        /\ m.min_duration = mark[b].min_duration /\ m.max_duration = mark[b].max_duration
    BY <1>a DEF MarkType
  <2> HIDE DEF m
  <2> QED BY <1>d, <2>2, <2>3
<1>9. ASSUME NEW b \in Benchmark, Renew(b) PROVE ArrayInv'
  <2>1. /\ mark' = [mark EXCEPT ![b] = New]
        /\ iteration_times' = [iteration_times EXCEPT ![b] = NewArray]
    BY <1>9 DEF Renew
  <2> QED BY <1>b, <2>1, NewHolds
<1>10. CASE UNCHANGED vars BY <1>10, <1>c DEF vars
<1> QED BY <1>1, <1>2, <1>3, <1>4, <1>5, <1>6, <1>7, <1>8, <1>9, <1>10 DEF Next, Inv

\* Every object keeps its statistics.
LEMMA StatsStep == DOMAIN stats = Benchmark /\ [Next]_vars => DOMAIN stats' = Benchmark
BY DEF Next, vars, Tick, StartTimer, Start, StopWarmup, Stop, CalculateStats, Reset, SetWarmup,
       Renew

\* Together they are inductive.
LEMMA Invariance == Spec => []Inv
<1>1. Inv /\ [Next]_vars => Inv' BY TimerStep, MarkStep, ArrayStep, StatsStep DEF Inv
<1> QED BY InitInv, <1>1, PTL DEF Spec

-----------------------------------------------------------------------------
(* Theorems                                                                *)

\* However benchmarks are started, stopped, reset and used again, the array of
\* each (mark.c:160-165) has room for its samples, which are those of the
\* iterations after the warm-up.
THEOREM SamplesFitHolds == Spec => []SamplesFit
<1>1. Inv => SamplesFit BY DEF Inv, MarkInv
<1> QED BY Invariance, <1>1, PTL

\* However the starts of benchmarks that share the timer (mark.c:33) are
\* interleaved, a sample is never longer than its benchmark ran, and exact
\* when nothing else started the timer.
THEOREM ExactUnlessOverlappedHolds == Spec => ExactUnlessOverlapped
<1> DEFINE Exact == \A b \in Benchmark : Recorded(b) =>
                      /\ NewSample(b) >= 0
                      /\ NewSample(b) <= now - begun[b]
                      /\ alone[b] => NewSample(b) = now - begun[b]
<1>1. Inv /\ [Next]_vars => [Exact]_vars
  <2> SUFFICES ASSUME Inv, Next, NEW b \in Benchmark, Recorded(b)
               PROVE  NewSample(b) = now - start_time
    BY DEF Inv, TimerInv
  <2>a. mark \in [Benchmark -> MarkType] /\ mark[b].num_samples \in Nat
    BY DEF Inv, MarkInv, MarkType
  <2>b. mark'[b].num_samples = mark[b].num_samples + 1 BY DEF Recorded
  <2>1. CASE UNCHANGED mark BY <2>1, <2>a, <2>b
  <2>2. CASE Tick BY <2>1, <2>2 DEF Tick
  <2>3. CASE StartTimer BY <2>1, <2>3 DEF StartTimer
  <2>4. ASSUME NEW c \in Benchmark, Start(c) PROVE FALSE
    <3> DEFINE m == [mark[c] EXCEPT !.running = TRUE]
    <3>1. mark' = [mark EXCEPT ![c] = m] BY <2>4 DEF Start
    <3>2. m.num_samples = mark[c].num_samples BY <2>a DEF MarkType
    <3> HIDE DEF m
    <3> QED BY <3>1, <3>2, <2>a, <2>b
  <2>5. ASSUME NEW c \in Benchmark, StopWarmup(c) PROVE FALSE
    <3> DEFINE m == [mark[c] EXCEPT !.num_iterations = @ + 1, !.running = FALSE]
    <3>1. mark' = [mark EXCEPT ![c] = m] BY <2>5, <2>a DEF StopWarmup
    <3>2. m.num_samples = mark[c].num_samples BY <2>a DEF MarkType
    <3> HIDE DEF m
    <3> QED BY <3>1, <3>2, <2>a, <2>b
  <2>6. ASSUME NEW c \in Benchmark, Stop(c) PROVE NewSample(b) = now - start_time
    <3>1. mark' = [mark EXCEPT ![c] = Sampled(mark[c], now - start_time)]
      BY <2>6 DEF Stop, fossil_test_stop_benchmark
    <3>2. c = b BY <3>1, <2>a, <2>b
    <3>3. now - start_time \in Nat BY DEF Inv, TimerInv
    <3>4. mark'[b].total_duration = mark[b].total_duration + (now - start_time)
      BY <3>1, <3>2, <3>3, <2>a DEF Sampled, MarkType
    <3> QED BY <3>3, <3>4, <2>a DEF NewSample, MarkType
  <2>7. ASSUME NEW c \in Benchmark, CalculateStats(c) PROVE FALSE
    BY <2>7, <2>a, <2>b DEF CalculateStats
  <2>8. ASSUME NEW c \in Benchmark, Reset(c) PROVE FALSE
    <3> DEFINE m == Cleared(mark[c])
    <3>1. mark' = [mark EXCEPT ![c] = m] BY <2>8 DEF Reset
    <3>2. m.num_samples = 0 BY <2>a, ClearedMark
    <3> HIDE DEF m
    <3> QED BY <3>1, <3>2, <2>a, <2>b
  <2>9. ASSUME NEW c \in Benchmark, SetWarmup(c) PROVE FALSE
    <3>0. PICK w \in Warmup : mark' = [mark EXCEPT ![c].num_warmup = w] BY <2>9 DEF SetWarmup
    <3> DEFINE m == [mark[c] EXCEPT !.num_warmup = w]
    <3>1. mark' = [mark EXCEPT ![c] = m] BY <3>0
    <3>2. m.num_samples = mark[c].num_samples BY <2>a DEF MarkType
    <3> HIDE DEF m
    <3> QED BY <3>1, <3>2, <2>a, <2>b
  <2>10. ASSUME NEW c \in Benchmark, Renew(c) PROVE FALSE
    <3>1. mark' = [mark EXCEPT ![c] = New] BY <2>10 DEF Renew
    <3> QED BY <3>1, <2>a, <2>b, NewMark
  <2> QED BY <2>2, <2>3, <2>4, <2>5, <2>6, <2>7, <2>8, <2>9, <2>10 DEF Next
<1> QED BY Invariance, <1>1, PTL DEF Spec, ExactUnlessOverlapped

\* However benchmarks are measured, sorted, reset and used again (mark.c:153-173
\* and 180-193), the total, the smallest and the largest duration of each are
\* those of the samples in its array, none of which is lost.
THEOREM SummaryIsOfSamplesHolds == Spec => []SummaryIsOfSamples
<1>1. Inv => SummaryIsOfSamples BY DEF Inv, ArrayInv, Holds, SummaryIsOfSamples
<1> QED BY Invariance, <1>1, PTL

\* Whatever was measured, and in whatever order, at most half of the samples
\* are below the median that is calculated (mark.c:187-193), at most half above.
THEOREM MedianInTheMiddleHolds == Spec => MedianInTheMiddle
<1> DEFINE Middle(b) ==
             LET n == mark[b].num_samples
                 t == iteration_times[b]
                 median == stats'[b].double_median
             IN  /\ 2 * Cardinality({k \in 1 .. n : 2 * t[k] < median}) <= n
                 /\ 2 * Cardinality({k \in 1 .. n : 2 * t[k] > median}) <= n
           Step == \A b \in Benchmark : CalculateStats(b) => Middle(b)
<1>1. Inv /\ [Next]_vars => [Step]_vars
  <2> SUFFICES ASSUME Inv, NEW b \in Benchmark, CalculateStats(b) PROVE Middle(b) OBVIOUS
  <2> DEFINE c == mark[b].capacity
             n == mark[b].num_samples
             t == iteration_times[b]
             u == Sorted(b)
  <2>1. c \in Nat /\ n \in Nat /\ n \in Nat \ {0} /\ n <= c
    BY DEF Inv, MarkInv, MarkType, SamplesFit, CalculateStats
  <2>2. t \in [1 .. c -> Int] BY DEF Inv, ArrayInv, Holds
  <2>3. /\ u \in [1 .. c -> Int]
        /\ \E p \in Injection(1 .. n, 1 .. n) : \A k \in 1 .. n : u[k] = t[p[k]]
        /\ \A i, j \in 1 .. n : i < j => u[i] <= u[j]
    BY <2>1, <2>2, SortedIs
  <2>4. stats'[b].double_median = DoubleMedian(u, n)
    <3>1. DOMAIN stats = Benchmark /\ DOMAIN iteration_times = Benchmark BY DEF Inv, ArrayInv
    <3>2. iteration_times'[b] = u BY <3>1 DEF CalculateStats
    <3> HIDE DEF u, n
    <3> QED BY <3>1, <3>2 DEF CalculateStats, n
  <2>5. \A k \in 1 .. n : t[k] \in Int BY <2>1, <2>2
  <2> HIDE DEF c, n, t, u
  <2>6. PICK p \in Injection(1 .. n, 1 .. n) : \A k \in 1 .. n : u[k] = t[p[k]] BY <2>3
  <2>7. /\ 2 * Cardinality({k \in 1 .. n : 2 * t[k] < DoubleMedian(u, n)}) <= n
        /\ 2 * Cardinality({k \in 1 .. n : 2 * t[k] > DoubleMedian(u, n)}) <= n
    BY <2>1, <2>3, <2>5, <2>6, MedianOf
  <2> QED BY <2>4, <2>7 DEF n, t
<1> QED BY Invariance, <1>1, PTL DEF Spec, MedianInTheMiddle

=============================================================================
