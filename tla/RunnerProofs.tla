---------------------------- MODULE RunnerProofs ----------------------------
(***************************************************************************)
(* Theorems about Runner, for every set of cases, every registration and   *)
(* every pallet: types and slots (TypeInv), totals (TotalsInv), what is    *)
(* still to be torn down (TornInv) and the turns of shuffled cases         *)
(* (TurnInv).                                                              *)
(***************************************************************************)
EXTENDS Runner, TLAPS, FiniteSetTheorems, WellFoundedInduction

-----------------------------------------------------------------------------
(***************************************************************************)
(* Scores and feedback.                                                    *)
(***************************************************************************)

\* Counting, summing and adding keep the six counters natural numbers.
LEMMA ScoreTypes ==
  /\ ZeroScore \in Scores
  /\ \A sc \in Scores : Possible(sc) \in Nat
  /\ \A sc \in Scores, v \in CaseState : Count(sc, v) \in Scores
  /\ \A a, b \in Scores : AddScores(a, b) \in Scores
  BY DEF ZeroScore, Scores, CaseState, Possible, Count, AddScores

\* A tally stays a tally when a case is counted or a suite is added.
LEMMA TallyTypes ==
  /\ ZeroTally \in Tallies
  /\ \A t \in Tallies, v \in CaseState : UpdateScore(t, v) \in Tallies
  /\ \A e, t \in Tallies : AddTally(e, t) \in Tallies
<1>1. ZeroTally \in Tallies
  BY ScoreTypes DEF ZeroTally, Tallies
<1>2. ASSUME NEW t \in Tallies, NEW v \in CaseState
      PROVE  UpdateScore(t, v) \in Tallies
  <2>1. Count(t.score, v) \in Scores
    BY ScoreTypes DEF Tallies
  <2>2. /\ Possible(Count(t.score, v)) \in Nat
        /\ Count(t.score, v)["PASS"] \in Nat
    BY <2>1, ScoreTypes DEF Scores, CaseState
  <2>. QED  BY <2>1, <2>2 DEF UpdateScore, Tallies
<1>3. ASSUME NEW e \in Tallies, NEW t \in Tallies
      PROVE  AddTally(e, t) \in Tallies
  BY ScoreTypes DEF AddTally, Tallies
<1>. QED  BY <1>1, <1>2, <1>3

\* In a table of tests whose last entry always applies, some entry is the
\* first that does, and FirstTier finds it.
LEMMA FirstTierExists ==
  ASSUME NEW tiers, NEW n \in Nat, n > 0,
         DOMAIN tiers = 1 .. n, tiers[n].when
  PROVE  /\ FirstTier(tiers) \in 1 .. n
         /\ tiers[FirstTier(tiers)].when
         /\ \A j \in 1 .. FirstTier(tiers) - 1 : ~ tiers[j].when
<1>. DEFINE T == {i \in 1 .. n : tiers[i].when}
<1>1. T \subseteq Nat /\ T # {}
  OBVIOUS
<1>2. PICK i \in T : \A j \in T : ~ (<<j, i>> \in OpToRel(<, Nat))
  BY <1>1, NatLessThanWellFounded, WFMin
<1>3. \A j \in T : ~ (j < i)
  BY <1>1, <1>2 DEF OpToRel
<1>4. /\ i \in DOMAIN tiers
      /\ tiers[i].when
      /\ \A j \in 1 .. i - 1 : ~ tiers[j].when
  BY <1>3
<1>. QED  BY <1>4 DEF FirstTier

\* The feedback is always drawn from one of the pools.
LEMMA FeedbackType ==
  ASSUME NEW sc
  PROVE  SummaryFeedback(sc) \in FeedbackPool
<1>. DEFINE tiers == Tiers(sc)
<1>1. DOMAIN tiers = 1 .. 10 /\ tiers[10].when
  BY DEF Tiers
<1>2. FirstTier(tiers) \in 1 .. 10
  <2>. HIDE DEF tiers
  <2>. QED  BY <1>1, FirstTierExists, 10 \in Nat, 10 > 0
<1>3. \A i \in 1 .. 10 : tiers[i].pool \in FeedbackPool
  BY DEF Tiers, FeedbackPool
<1>. QED  BY <1>2, <1>3 DEF SummaryFeedback

-----------------------------------------------------------------------------
(***************************************************************************)
(* Arrays of cases.                                                        *)
(***************************************************************************)

\* The arrays with the elements of array a, each once: the orders they can be in.
Arrangements(a) == {b \in [DOMAIN a -> Range(a)] : IsInjective(b)}

\* An array is an arrangement of itself; an arrangement of an arrangement of
\* an array is an arrangement of the array.
LEMMA ArrangementsCompose ==
  ASSUME NEW r
  PROVE  /\ r \in [DOMAIN r -> Range(r)] /\ IsInjective(r) => r \in Arrangements(r)
         /\ \A a \in Arrangements(r) : \A b \in Arrangements(a) : b \in Arrangements(r)
  BY DEF Arrangements, Range, IsInjective

\* An arrangement of a sequence of cases is one, of the same length.
LEMMA ArrangementIsSequence ==
  ASSUME NEW r \in Seq(Case), NEW a \in Arrangements(r)
  PROVE  a \in Seq(Case) /\ Len(a) = Len(r) /\ DOMAIN a = 1 .. Len(r)
<1>1. DOMAIN r = 1 .. Len(r) /\ Len(r) \in Nat /\ Range(r) \subseteq Case
  BY DEF Range
<1>2. a \in [1 .. Len(r) -> Case]
  BY <1>1 DEF Arrangements
<1>. QED  BY <1>1, <1>2

\* qsort only rearranges.
LEMMA QSortArranges ==
  ASSUME NEW r, NEW a \in Arrangements(r), NEW by, NEW desc, NEW b \in QSort(a, by, desc)
  PROVE  b \in Arrangements(r)
<1>1. PICK p \in Bijection(DOMAIN a, DOMAIN a) : b = [i \in DOMAIN a |-> a[p[i]]]
  BY DEF QSort, Rearranged
<1>2. p \in [DOMAIN a -> DOMAIN a] /\ IsInjective(p)
  BY DEF Bijection, Injection, IsInjective
<1>3. a \in [DOMAIN r -> Range(r)] /\ IsInjective(a) /\ DOMAIN a = DOMAIN r
  BY DEF Arrangements
<1>4. b \in [DOMAIN r -> Range(r)]
  BY <1>1, <1>2, <1>3
<1>5. ASSUME NEW i \in DOMAIN b, NEW j \in DOMAIN b, b[i] = b[j] PROVE i = j
  <2>1. p[i] \in DOMAIN a /\ p[j] \in DOMAIN a /\ a[p[i]] = a[p[j]]
    BY <1>1, <1>2, <1>5
  <2>2. p[i] = p[j]
    BY <1>3, <2>1 DEF IsInjective
  <2>. QED  BY <1>1, <1>2, <2>2 DEF IsInjective
<1>. QED  BY <1>4, <1>5 DEF Arrangements, IsInjective

\* A swap keeps the cases of an array: neither of the two is lost.
LEMMA SwapArranges ==
  ASSUME NEW r, NEW a \in Arrangements(r), NEW i \in DOMAIN r, NEW j \in DOMAIN r
  PROVE  Swapped(a, i, j) \in Arrangements(r)
  BY DEF Swapped, Arrangements, IsInjective

\* What holds of the last place and is handed down holds of every place.
LEMMA DownwardInduction ==
  ASSUME NEW n \in Nat, NEW S, n \in S,
         \A i \in 1 .. n : i # n /\ i + 1 \in S => i \in S
  PROVE  1 .. n \subseteq S
<1>. SUFFICES ASSUME NEW bad \in 1 .. n, bad \notin S PROVE FALSE
  OBVIOUS
<1>. DEFINE R == OpToRel(<, Nat)
            missing == {k \in Nat : k < n /\ n - k \notin S}
<1>1. missing \subseteq Nat /\ missing # {}
  <2>1. n - bad \in Nat /\ n - bad < n /\ n - (n - bad) = bad
    OBVIOUS
  <2>. QED  BY <2>1
<1>2. PICK k \in missing : \A m \in missing : ~ (<< m, k >> \in R)
  <2>. HIDE DEF R, missing
  <2>1. IsWellFoundedOn(R, Nat)
    BY NatLessThanWellFounded DEF R
  <2>. QED  BY <1>1, <2>1, WFMin, Zenon
<1>3. \A m \in missing : ~ (m < k)
  BY <1>2 DEF OpToRel
<1>4. k \in Nat /\ k < n /\ n - k \notin S /\ k # 0
  OBVIOUS
<1>5. k - 1 \in Nat /\ k - 1 < n /\ k - 1 < k /\ n - (k - 1) = (n - k) + 1
  BY <1>4
<1>6. (n - k) + 1 \in S
  BY <1>3, <1>5
<1>7. n - k \in 1 .. n /\ n - k # n
  BY <1>4
<1>. QED  BY <1>4, <1>6, <1>7

\* What comes of the arrays in B when the place behind i has its turn.
SwapsOf(B, i) == {Swapped(b, i + 1, j) : b \in B, j \in 1 .. i + 1}

\* The arrays at place i of the loop, when f has those of the place behind it.
Turn(f, a, i) == IF i = Len(a) THEN {a} ELSE SwapsOf(f[i + 1], i)

\* f has the arrays of every place.
Turns(f, a) == f = [i \in 1 .. Len(a) |-> Turn(f, a, i)]

\* A turn makes arrangements of arrangements.
LEMMA TurnArranges ==
  ASSUME NEW r \in Seq(Case), NEW a \in Arrangements(r), NEW f, NEW i \in 1 .. Len(a),
         i # Len(a) => f[i + 1] \subseteq Arrangements(r)
  PROVE  Turn(f, a, i) \subseteq Arrangements(r)
<1>1. Len(a) \in Nat /\ DOMAIN r = 1 .. Len(a)
  BY ArrangementIsSequence
<1>2. CASE i = Len(a)
  BY <1>2 DEF Turn
<1>3. CASE i # Len(a)
  <2>. SUFFICES ASSUME NEW b \in f[i + 1], NEW j \in 1 .. i + 1
                PROVE  Swapped(b, i + 1, j) \in Arrangements(r)
    BY <1>3 DEF Turn, SwapsOf
  <2>1. i + 1 \in DOMAIN r /\ j \in DOMAIN r
    BY <1>1, <1>3
  <2>. QED  BY <1>3, <2>1, SwapArranges
<1>. QED  BY <1>2, <1>3

\* The recursion of the loop has a solution.
LEMMA TurnsExist ==
  ASSUME NEW r \in Seq(Case), NEW a \in Arrangements(r), Len(a) >= 1
  PROVE  \E f : Turns(f, a)
<1>. DEFINE n == Len(a)
            Values == SUBSET Arrangements(r)
            Until(f, m) == \A i \in m .. n : f[i] = Turn(f, a, i)
            S == {m \in 1 .. n : \E f \in [1 .. n -> Values] : Until(f, m)}
<1>1. n \in Nat /\ n >= 1
  BY ArrangementIsSequence
<1>2. n \in S
  <2>. DEFINE f == [i \in 1 .. n |-> {a}]
  <2>1. f \in [1 .. n -> Values]
    OBVIOUS
  <2>2. n \in 1 .. n /\ n .. n = {n}
    BY <1>1
  <2>3. f[n] = Turn(f, a, n)
    BY <2>2 DEF Turn
  <2>. HIDE DEF f
  <2>. QED  BY <2>1, <2>2, <2>3
<1>3. ASSUME NEW m \in 1 .. n, m # n, m + 1 \in S PROVE m \in S
  <2>1. PICK f \in [1 .. n -> Values] : Until(f, m + 1)
    BY <1>3
  <2>2. m + 1 \in 1 .. n /\ m + 1 # m
    BY <1>1, <1>3
  <2>. DEFINE v == Turn(f, a, m)
              g == [f EXCEPT ![m] = v]
  <2>3. v \in Values
    BY <2>2, TurnArranges
  <2>4. g \in [1 .. n -> Values]
    <3>. HIDE DEF v, Values
    <3>. QED  BY <2>3
  <2>5. g[m] = v /\ \A i \in 1 .. n : i # m => g[i] = f[i]
    <3>. HIDE DEF v
    <3>. QED  OBVIOUS
  <2>. HIDE DEF g
  <2>6. ASSUME NEW i \in m .. n PROVE g[i] = Turn(g, a, i)
    <3>1. i \in 1 .. n /\ (i # n => i + 1 \in 1 .. n /\ i + 1 # m)
      BY <1>1
    <3>2. i # n => g[i + 1] = f[i + 1]
      BY <2>5, <3>1
    <3>3. Turn(g, a, i) = Turn(f, a, i)
      <4>1. CASE i = n
        BY <4>1 DEF Turn
      <4>2. CASE i # n
        BY <3>2, <4>2 DEF Turn
      <4>. QED  BY <4>1, <4>2
    <3>4. CASE i = m
      BY <2>5, <3>3, <3>4
    <3>5. CASE i # m
      <4>1. i \in m + 1 .. n
        BY <1>1, <3>5
      <4>. QED  BY <2>1, <2>5, <3>1, <3>3, <3>5, <4>1
    <3>. QED  BY <3>4, <3>5
  <2>. QED  BY <2>4, <2>6
<1>. HIDE DEF S
<1>4. 1 \in S
  BY <1>1, <1>2, <1>3, DownwardInduction
<1>5. PICK f \in [1 .. n -> Values] : Until(f, 1)
  BY <1>4 DEF S
<1>6. f = [i \in 1 .. n |-> Turn(f, a, i)]
  BY <1>5
<1>. QED  BY <1>6 DEF Turns

\* The loop of swaps only rearranges.
LEMMA ShuffledArranges ==
  ASSUME NEW r \in Seq(Case), NEW a \in Arrangements(r), Len(a) >= 1,
         NEW c \in Shuffled(a)
  PROVE  c \in Arrangements(r)
<1>. DEFINE at == CHOOSE f : Turns(f, a)
            n == Len(a)
            S == {i \in 1 .. n : at[i] \subseteq Arrangements(r)}
<1>1. c \in at[1]
  BY DEF Shuffled, Turns, Turn, SwapsOf
<1>2. Turns(at, a)
  BY TurnsExist
<1>. HIDE DEF at
<1>3. \A i \in 1 .. n : at[i] = Turn(at, a, i)
  BY <1>2 DEF Turns
<1>4. n \in Nat /\ n >= 1
  BY ArrangementIsSequence
<1>5. n \in S
  <2>1. n \in 1 .. n
    BY <1>4
  <2>2. at[n] = Turn(at, a, n)
    BY <1>3, <2>1
  <2>3. Turn(at, a, n) = {a}
    BY DEF Turn
  <2>. QED  BY <2>1, <2>2, <2>3
<1>6. ASSUME NEW i \in 1 .. n, i # n, i + 1 \in S PROVE i \in S
  BY <1>3, <1>6, TurnArranges
<1>. HIDE DEF S
<1>7. 1 \in S
  BY <1>4, <1>5, <1>6, DownwardInduction
<1>. QED  BY <1>1, <1>7 DEF S

\* Sorting and shuffling only rearrange.
LEMMA SortShuffleArrange ==
  ASSUME NEW r \in Seq(Case), NEW a \in Arrangements(r),
         NEW b \in SortCases(a), NEW c \in ShuffleCases(b)
  PROVE  b \in Arrangements(r) /\ c \in Arrangements(r)
<1>1. b \in Arrangements(r)
  BY QSortArranges DEF SortCases
<1>2. Len(b) \in Nat
  BY <1>1, ArrangementIsSequence
<1>3. CASE Len(b) < 2
  BY <1>1, <1>3 DEF ShuffleCases
<1>4. CASE ~ (Len(b) < 2)
  <2>1. \A d \in Shuffled(b) : d \in Arrangements(r)
    BY <1>1, <1>2, <1>4, ShuffledArranges
  <2>2. CASE pallet.shuffle_by \in Criterion
    <3>1. PICK d \in Shuffled(b) : c \in QSort(d, pallet.shuffle_by, FALSE)
      BY <1>4, <2>2 DEF ShuffleCases
    <3>2. d \in Arrangements(r)
      BY <2>1
    <3>. QED  BY <1>1, <3>1, <3>2, QSortArranges
  <2>3. CASE pallet.shuffle_by \notin Criterion
    BY <1>1, <1>4, <2>1, <2>3 DEF ShuffleCases
  <2>. QED  BY <2>2, <2>3
<1>. QED  BY <1>1, <1>3, <1>4

-----------------------------------------------------------------------------
(***************************************************************************)
(* Type correctness.  It is not inductive alone: that the current case is  *)
(* a case needs the arrays to be arrangements of the registered ones, and  *)
(* that pending slots stay slots of suite si needs the loops to be empty   *)
(* wherever si moves on.  Calls are numbered from 1, so that a buffer not  *)
(* yet filled belongs to none of them.                                     *)
(***************************************************************************)
SlotsInv == \A s \in Suite : slots[s] \in Arrangements(Registered[s])

LoopInv ==
  /\ pc \in {"NextSuite", "SuiteSetup", "SuiteTeardown"} => todo = {}
  /\ InTest \/ pc \in {"SuiteSetup", "NextCase", "SuiteTeardown", "EndTeardown"} => si \in Suite
  /\ InTest => act > 0

TypeInv == TypeOK /\ SlotsInv /\ LoopInv

\* What the arrays are, read off the invariant.
LEMMA SlotFacts ==
  ASSUME TypeOK, SlotsInv
  PROVE  /\ \A s \in Suite : DOMAIN slots[s] = DOMAIN Registered[s]
         /\ \A s \in Suite : DOMAIN slots[s] = 1 .. Len(slots[s])
         /\ \A s \in Suite : DOMAIN slots[s] \subseteq Nat
         /\ \A s \in Suite : \A i \in DOMAIN slots[s] : slots[s][i] \in Case
         /\ \A f \in CaseFrames : slots[f.suite][f.slot] \in Case
<1>1. ASSUME NEW s \in Suite
      PROVE  /\ DOMAIN slots[s] = DOMAIN Registered[s]
             /\ DOMAIN slots[s] = 1 .. Len(slots[s])
             /\ DOMAIN slots[s] \subseteq Nat
             /\ \A i \in DOMAIN slots[s] : slots[s][i] \in Case
  <2>1. slots[s] \in Seq(Case) /\ slots[s] \in Arrangements(Registered[s])
    BY DEF TypeOK, SlotsInv
  <2>. QED  BY <2>1 DEF Arrangements
<1>2. ASSUME NEW f \in CaseFrames
      PROVE  slots[f.suite][f.slot] \in Case
  BY <1>1 DEF CaseFrames
<1>. QED  BY <1>1, <1>2

\* The activations of run_test that a case can make are frames.
LEMMA CaseFramesAreFrames == CaseFrames \subseteq Frames
  BY RegistrationAssumption DEF CaseFrames, Frames, Suite

\* Initial states are typed.
LEMMA TypeInit == Init => TypeInv
<1>. SUFFICES ASSUME Init PROVE TypeInv
  OBVIOUS
<1>. USE DEF Init
<1>1. SlotsInv
  <2>1. \A s \in Suite : /\ IsInjective(Registered[s])
                         /\ Registered[s] \in [DOMAIN Registered[s] -> Range(Registered[s])]
    BY RegistrationAssumption DEF Range
  <2>. QED  BY <2>1, ArrangementsCompose DEF SlotsInv
<1>2. LoopInv
  BY DEF LoopInv, InTest
<1>3. TypeOK
  <2>1. pallet \in PalletOptions /\ pc \in Locations
    BY OptionAssumption DEF Locations
  <2>2. si \in 1 .. NSuites + 1 /\ todo \subseteq SlotsOf(si) /\ frame \in Frames
    BY RegistrationAssumption DEF Frames, NoFrame
  <2>3. ~ InTest /\ pc # "EndTeardown" /\ ~ Armed /\ act \in Nat
          /\ buffer \in [frame : Frames, act : Nat]
    BY RegistrationAssumption DEF InTest, Armed, NoFrame, Frames
  <2>4. assertCount \in 0 .. MaxAsserts
    BY OptionAssumption
  <2>5. slots \in [Suite -> Seq(Case)] /\ state \in [Case -> CaseState]
    BY RegistrationAssumption DEF CaseState
  <2>6. tally \in [Suite -> Tallies] /\ engine \in Tallies
    BY TallyTypes
  <2>. QED  BY <2>1, <2>2, <2>3, <2>4, <2>5, <2>6 DEF TypeOK
<1>. QED  BY <1>1, <1>2, <1>3 DEF TypeInv

\* Every step keeps the types.
LEMMA TypeStep == TypeInv /\ [Next]_vars => TypeInv'
<1>. SUFFICES ASSUME TypeInv, [Next]_vars PROVE TypeInv'
  OBVIOUS
<1>. USE DEF TypeInv
<1>facts. /\ TypeOK /\ SlotsInv /\ LoopInv
          /\ \A s \in Suite : DOMAIN slots[s] = DOMAIN Registered[s]
          /\ \A s \in Suite : DOMAIN slots[s] \subseteq Nat
          /\ \A s \in Suite : \A i \in DOMAIN slots[s] : slots[s][i] \in Case
          /\ InTest \/ pc = "EndTeardown" => cur \in Case
  BY SlotFacts DEF TypeOK, cur
<1>count. CountAssertion => assertCount' \in 0 .. MaxAsserts
  BY <1>facts, OptionAssumption DEF CountAssertion, TypeOK
<1>1. CASE EmptySuite
  <2>1. engine' \in Tallies
    BY <1>1, TallyTypes DEF EmptySuite, TypeOK
  <2>2. si' \in 1 .. NSuites + 1 /\ todo' = {}
    BY <1>1, <1>facts, RegistrationAssumption DEF EmptySuite, LoopInv, Suite
  <2>3. SlotsInv' /\ LoopInv'
    BY <1>1, <1>facts, <2>2 DEF EmptySuite, SlotsInv, LoopInv, InTest
  <2>. QED
    BY <1>1, <1>facts, <2>1, <2>2, <2>3
    DEF EmptySuite, TypeOK, InTest, jump, history, Locations, Armed
<1>2. CASE EnterSuite
  BY <1>2, <1>facts
  DEF EnterSuite, TypeOK, SlotsInv, LoopInv, InTest, jump, history, results, SlotsOf, Locations, Armed
<1>3. CASE SuiteSetupReturns
  <2>1. si \in Suite /\ slots[si] \in Arrangements(Registered[si])
    BY <1>3, <1>facts DEF SuiteSetupReturns, LoopInv, SlotsInv
  <2>2. PICK a : /\ slots' = [slots EXCEPT ![si] = a]
                 /\ a \in Arrangements(Registered[si])
    <3>1. CASE todo' = {}
      BY <1>3, <2>1, <3>1 DEF SuiteSetupReturns, TypeOK
    <3>2. CASE todo' # {}
      BY <1>3, <2>1, <3>2, SortShuffleArrange, RegistrationAssumption DEF SuiteSetupReturns
    <3>. QED  BY <3>1, <3>2
  <2>3. SlotsInv'
    BY <2>1, <2>2, <1>facts DEF SlotsInv, TypeOK
  <2>4. a \in Seq(Case) /\ DOMAIN a = DOMAIN slots[si]
    BY <2>1, <2>2, <1>facts, ArrangementIsSequence, RegistrationAssumption DEF Arrangements
  <2>5. slots' \in [Suite -> Seq(Case)] /\ todo' \subseteq SlotsOf(si)'
    BY <1>3, <2>1, <2>2, <2>4, <1>facts DEF SuiteSetupReturns, TypeOK, SlotsOf, FilterCases
  <2>6. tally' \in [Suite -> Tallies]
    BY <1>3, <1>facts, TallyTypes DEF SuiteSetupReturns, TypeOK
  <2>. QED
    BY <1>3, <2>1, <2>3, <2>5, <2>6, <1>facts
    DEF SuiteSetupReturns, TypeOK, LoopInv, InTest, history, jump, Locations, Armed
<1>4. CASE LeaveSuite
  BY <1>4, <1>facts
  DEF LeaveSuite, jump, history, results, TypeOK, SlotsInv, LoopInv, InTest, SlotsOf, Locations, Armed
<1>5. CASE SuiteTeardownReturns
  <2>1. engine' \in Tallies
    BY <1>5, <1>facts, TallyTypes DEF SuiteTeardownReturns, TypeOK, LoopInv
  <2>. QED  BY <1>5, <1>facts, <2>1, RegistrationAssumption
  DEF SuiteTeardownReturns, jump, history, Suite, TypeOK, SlotsInv, LoopInv, InTest, SlotsOf, Locations, Armed
<1>6. ASSUME NEW i \in todo, PassOver(i) \/ SkipCase(i) \/ StartCase(i)
      PROVE  TypeInv'
  <2>1. si \in Suite /\ i \in DOMAIN slots[si] /\ slots[si][i] \in Case /\ i \in Nat
    BY <1>6, <1>facts DEF PassOver, SkipCase, StartCase, TypeOK, LoopInv, SlotsOf
  <2>2. CASE PassOver(i)
    BY <2>1, <2>2, <1>facts
    DEF PassOver, jump, results, TypeOK, SlotsInv, LoopInv, InTest, SlotsOf, Locations, Armed
  <2>3. CASE SkipCase(i)
    <3>1. tally' \in [Suite -> Tallies]
      BY <2>1, <2>3, <1>facts, TallyTypes DEF SkipCase, TypeOK, CaseState
    <3>. QED
      BY <2>1, <2>3, <3>1, <1>facts
      DEF SkipCase, jump, TypeOK, SlotsInv, LoopInv, InTest, SlotsOf, Locations, Armed, CaseState
  <2>4. CASE StartCase(i)
    <3>1. frame' \in CaseFrames /\ frame' \in Frames
      BY <2>1, <2>4, <1>facts DEF StartCase, CaseFrames, Frames, Suite
    <3>2. SlotsInv' /\ LoopInv'
      BY <2>1, <2>4, <1>facts DEF StartCase, TypeOK, SlotsInv, LoopInv, InTest
    <3>. QED
      <4>1. /\ act' \in Nat /\ todo' \subseteq SlotsOf(si)'
            /\ visited' \subseteq Case /\ up' \subseteq Case
        <5>1. UNCHANGED << si, slots >> /\ todo' = todo \ {i} /\ act' = act + 1
          BY <2>4 DEF StartCase
        <5>2. visited' \subseteq Case /\ up' \subseteq Case
          BY <2>1, <2>4, <1>facts DEF StartCase, TypeOK
        <5>. QED  BY <5>1, <5>2, <1>facts DEF TypeOK, SlotsOf
      <4>. QED
        BY <2>4, <3>1, <3>2, <4>1, <1>facts
        DEF StartCase, jump, results, TypeOK, Locations, Armed
  <2>. QED  BY <1>6, <2>2, <2>3, <2>4
<1>7. CASE SetupReturns
  BY <1>7, <1>facts, OptionAssumption
  DEF SetupReturns, SavedContext, CaseState, Frames, TypeOK, SlotsInv, LoopInv, InTest, SlotsOf, Locations, Armed
<1>8. CASE NothingToRun
  BY <1>8, <1>facts, OptionAssumption
  DEF NothingToRun, CaseState, TypeOK, SlotsInv, LoopInv, InTest, SlotsOf, Locations, Armed
<1>9. CASE BodyReturns
  BY <1>9, <1>facts
  DEF BodyReturns, Outcome, CaseState, jump, TypeOK, SlotsInv, LoopInv, InTest, SlotsOf, Locations, Armed
<1>10. CASE AssertionHolds
  BY <1>10, <1>count, <1>facts
  DEF AssertionHolds, control, results, TypeOK, SlotsInv, LoopInv, InTest, SlotsOf, Locations, Armed
<1>11. CASE AssertionFails
  <2>1. frame' \in CaseFrames \/ UNCHANGED frame
    BY <1>11, <1>facts, OptionAssumption DEF AssertionFails, BufferIsLive, TypeOK, Armed, LoopInv
  <2>2. frame' \in Frames /\ (InTest => frame' \in CaseFrames)
    BY <2>1, <1>facts, CaseFramesAreFrames DEF TypeOK
  <2>. QED
    BY <1>11, <2>1, <2>2, <1>count, <1>facts
    DEF AssertionFails, BufferIsLive, NoteFailure, jump, results, TypeOK, SlotsInv, LoopInv, InTest, SlotsOf, Locations, Armed
<1>12. CASE FixtureJumpsToDeadFrame
  <2>1. frame' \in CaseFrames \/ UNCHANGED frame
    BY <1>12, <1>facts, OptionAssumption DEF FixtureJumpsToDeadFrame, BufferIsLive, TypeOK, Armed, LoopInv
  <2>2. frame' \in Frames /\ (InTest => frame' \in CaseFrames)
    BY <2>1, <1>facts, CaseFramesAreFrames DEF TypeOK
  <2>. QED
    BY <1>12, <2>1, <2>2, <1>count, <1>facts
    DEF FixtureJumpsToDeadFrame, NoteFailure, jump, results, TypeOK, SlotsInv, LoopInv, InTest, SlotsOf, Locations, Armed
<1>13. CASE AssertionJumpsNowhere
  BY <1>13, <1>count, <1>facts
  DEF AssertionJumpsNowhere, jump, results, history, TypeOK, SlotsInv, LoopInv, InTest, SlotsOf, Locations, Armed
<1>14. CASE FailFast
  <2>1. tally' \in [Suite -> Tallies]
    BY <1>14, <1>facts, TallyTypes DEF FailFast, TypeOK, CaseState
  <2>. QED  BY <1>14, <1>facts, <2>1
  DEF FailFast, jump, CaseState, TypeOK, SlotsInv, LoopInv, InTest, SlotsOf, Locations, Armed
<1>15. CASE Landed
  BY <1>15, <1>facts
  DEF Landed, jump, CaseState, TypeOK, SlotsInv, LoopInv, InTest, SlotsOf, Locations, Armed
<1>16. CASE Repeat
  <2>1. frame \in CaseFrames /\ frame' = [frame EXCEPT !.iter = frame.iter + 1]
    BY <1>16, <1>facts DEF Repeat, NextIteration, TypeOK, InTest
  <2>2. frame' \in CaseFrames /\ frame' \in Frames
    BY <2>1, CaseFramesAreFrames DEF CaseFrames
  <2>. QED
    BY <1>16, <2>1, <2>2, <1>facts
    DEF Repeat, jump, results, TypeOK, SlotsInv, LoopInv, InTest, SlotsOf, Locations, Armed
<1>17. CASE FinishCase
  <2>1. frame.suite \in Suite /\ state[cur] \in CaseState
    BY <1>17, <1>facts DEF FinishCase, TypeOK, InTest, CaseFrames
  <2>2. tally' \in [Suite -> Tallies]
    BY <1>17, <2>1, <1>facts, TallyTypes DEF FinishCase, TypeOK
  <2>. QED  BY <1>17, <1>facts, <2>2
  DEF FinishCase, jump, CaseState, TypeOK, SlotsInv, LoopInv, InTest, SlotsOf, Locations, Armed
<1>18. CASE Summary
  BY <1>18, <1>facts, FeedbackType, RegistrationAssumption
  DEF Summary, jump, history, TypeOK, SlotsInv, LoopInv, InTest, SlotsOf, Locations, Armed
<1>19. ASSUME NEW i \in todo, EndCase(i)
       PROVE  TypeInv'
  <2>1. si \in Suite /\ i \in DOMAIN slots[si] /\ slots[si][i] \in Case /\ i \in Nat
    BY <1>19, <1>facts DEF TypeOK, SlotsOf
  <2>2. frame' \in CaseFrames /\ frame' \in Frames
    BY <2>1, <1>19, <1>facts DEF EndCase, CaseFrames, Frames, Suite
  <2>. QED
    BY <1>19, <2>1, <2>2, <1>facts
    DEF EndCase, jump, results, TypeOK, SlotsInv, LoopInv, InTest, SlotsOf, Locations, Armed
<1>20. CASE EndTeardownReturns
  BY <1>20, <1>facts
  DEF EndTeardownReturns, jump, results, history, TypeOK, SlotsInv, LoopInv, InTest, SlotsOf, Locations, Armed
<1>21. CASE EndSuite
  BY <1>21, <1>facts, RegistrationAssumption
  DEF EndSuite, jump, results, history, TypeOK, SlotsInv, LoopInv, InTest, SlotsOf, Locations, Armed
<1>22. CASE EndDone
  BY <1>22, <1>facts
  DEF EndDone, jump, results, history, TypeOK, SlotsInv, LoopInv, InTest, SlotsOf, Locations, Armed
<1>23. CASE UNCHANGED vars
  BY <1>23, <1>facts
  DEF vars, control, jump, results, history, TypeOK, SlotsInv, LoopInv, InTest, SlotsOf, Armed
<1>. QED
  BY <1>1, <1>2, <1>3, <1>4, <1>5, <1>6, <1>7, <1>8, <1>9, <1>10, <1>11, <1>12, <1>13,
     <1>14, <1>15, <1>16, <1>17, <1>18, <1>19, <1>20, <1>21, <1>22, <1>23
  DEF Next, RunAll, RunTest, Assertion, End, Stopped

\* Every state the engine reaches is type-correct: in particular the case at
\* hand is always a registered one, for any registration, any pallet and any
\* behaviour of the fixtures.
THEOREM TypeCorrect == Spec => []TypeOK
<1>1. TypeInv => TypeOK
  BY DEF TypeInv
<1>. QED  BY TypeInit, TypeStep, <1>1, PTL DEF Spec

-----------------------------------------------------------------------------
(***************************************************************************)
(* The arrays.                                                             *)
(***************************************************************************)

\* A suite has finitely many cases.
LEMMA SuiteFinite ==
  ASSUME NEW s \in Suite
  PROVE  IsFiniteSet(Range(Registered[s]))
<1>. DEFINE r == Registered[s]
<1>1. r \in Seq(Case)
  BY RegistrationAssumption
<1>2. IsFiniteSet(1 .. Len(r)) /\ DOMAIN r = 1 .. Len(r)
  BY <1>1, FS_Interval
<1>3. r \in Surjection(DOMAIN r, Range(r))
  BY <1>1 DEF Surjection, Range
<1>. QED  BY <1>2, <1>3, FS_Surjection

\* An arrangement of an array without repetitions holds all its elements.
LEMMA ArrangementsAreOnto ==
  ASSUME NEW s \in Suite, NEW a \in Arrangements(Registered[s])
  PROVE  Range(a) = Range(Registered[s])
<1>. DEFINE r == Registered[s]  D == DOMAIN r
<1>1. r \in Seq(Case) /\ IsInjective(r)
  BY RegistrationAssumption
<1>2. IsFiniteSet(D)
  BY <1>1, FS_Interval
<1>3. r \in Surjection(D, Range(r)) /\ r \in Injection(D, Range(r))
  BY <1>1 DEF Surjection, Injection, Range, IsInjective
<1>4. IsFiniteSet(Range(r)) /\ Cardinality(Range(r)) = Cardinality(D)
  BY <1>2, <1>3, FS_Surjection
<1>5. a \in Injection(D, Range(r))
  BY DEF Arrangements, Injection, IsInjective
<1>6. a \in Surjection(D, Range(r))
  BY <1>4, <1>5, FS_Injection
<1>. QED  BY <1>6 DEF Surjection, Range

\* Sorting and shuffling in place never lose a case of any suite, nor put one
\* twice into its array.
THEOREM NoCaseIsLost == Spec => []NoCaseLost
<1>1. TypeInv => NoCaseLost
  BY ArrangementsAreOnto, ArrangementIsSequence, RegistrationAssumption
  DEF TypeInv, SlotsInv, NoCaseLost
<1>. QED  BY TypeInit, TypeStep, <1>1, PTL DEF Spec

-----------------------------------------------------------------------------
(***************************************************************************)
(* The totals.                                                             *)
(***************************************************************************)
Agree(t) == t.total_score = t.score["PASS"] /\ t.total_possible = Possible(t.score)

TotalsInv == (\A s \in Suite : Agree(tally[s])) /\ Agree(engine)

\* The two forms of a score agree to begin with, after a count, and in a sum.
LEMMA AgreeSteps ==
  /\ Agree(ZeroTally)
  /\ \A t \in Tallies, v \in CaseState : Agree(UpdateScore(t, v))
  /\ \A e, t \in Tallies : Agree(e) /\ Agree(t) => Agree(AddTally(e, t))
<1>1. Agree(ZeroTally)
  BY DEF Agree, ZeroTally, ZeroScore, CaseState, Possible
<1>2. \A t \in Tallies, v \in CaseState : Agree(UpdateScore(t, v))
  BY DEF Agree, UpdateScore
<1>3. ASSUME NEW e \in Tallies, NEW t \in Tallies, Agree(e), Agree(t)
      PROVE  Agree(AddTally(e, t))
  BY <1>3 DEF Agree, AddTally, AddScores, Possible, Tallies, Scores, CaseState
<1>. QED  BY <1>1, <1>2, <1>3

\* Every step keeps what the totals are sums of.
LEMMA TotalsStep == TypeInv /\ TotalsInv /\ [Next]_vars => TotalsInv'
<1>. SUFFICES ASSUME TypeInv, TotalsInv, [Next]_vars PROVE TotalsInv'
  OBVIOUS
<1>facts. /\ tally \in [Suite -> Tallies] /\ engine \in Tallies
          /\ state \in [Case -> CaseState]
          /\ InTest => cur \in Case
  BY SlotFacts DEF TypeInv, TypeOK, cur
<1>1. CASE EmptySuite \/ SuiteTeardownReturns
  BY <1>1, <1>facts, AgreeSteps
  DEF EmptySuite, SuiteTeardownReturns, TypeInv, LoopInv, TotalsInv
<1>2. CASE SuiteSetupReturns
  BY <1>2, <1>facts, AgreeSteps DEF SuiteSetupReturns, TotalsInv
<1>3. CASE \E i \in todo : SkipCase(i)
  BY <1>3, <1>facts, AgreeSteps DEF SkipCase, TotalsInv, CaseState
<1>4. CASE FailFast
  BY <1>4, <1>facts, AgreeSteps DEF FailFast, TotalsInv, CaseState
<1>5. CASE FinishCase
  BY <1>5, <1>facts, AgreeSteps DEF FinishCase, TotalsInv, InTest
<1>6. CASE UNCHANGED << tally, engine >>
  BY <1>6 DEF TotalsInv
<1>. QED
  BY <1>1, <1>2, <1>3, <1>4, <1>5, <1>6
  DEF Next, RunAll, RunTest, Assertion, End, Stopped, EnterSuite, LeaveSuite, PassOver,
      StartCase, SetupReturns, NothingToRun, BodyReturns, Landed, Repeat, AssertionHolds,
      AssertionFails, FixtureJumpsToDeadFrame, AssertionJumpsNowhere, Summary, EndCase,
      EndTeardownReturns, EndSuite, EndDone, vars, results

\* In every suite and in the engine, total_score and total_possible are what
\* the counters say, whatever the fixtures do.
THEOREM TotalsAlwaysAgree == Spec => []TotalsAgree
<1>1. Init => TotalsInv
  BY AgreeSteps DEF Init, TotalsInv
<1>2. TypeInv /\ TotalsInv => TotalsAgree
  BY DEF TypeInv, TypeOK, TotalsInv, TotalsAgree, Agree, Range
<1>. QED  BY TypeInit, TypeStep, TotalsStep, <1>1, <1>2, PTL DEF Spec

-----------------------------------------------------------------------------
(***************************************************************************)
(* The teardowns at the end.  end goes through the arrays as they are by   *)
(* then, so a case that stands needs a slot the loop has yet to come to.   *)
(***************************************************************************)

\* The slot of case c is still to come in the loops of end.
ToTearDown(c) ==
  \E s \in Suite : \E i \in DOMAIN slots[s] :
    slots[s][i] = c /\ (s > si \/ (s = si /\ i \in todo))

\* The calls of run_test are over, or nothing can be said any more.
RunOver == pc \in {"End", "EndTeardown", "Done", "Undefined"}

TornInv ==
  /\ up \subseteq AllCases
  /\ pc \in {"End", "EndTeardown"} => \A c \in up : ToTearDown(c)
  /\ pc = "Done" => up = {}

\* The cases in the slots are the registered ones, none missing.
LEMMA SlotsHoldAllCases ==
  ASSUME TypeInv
  PROVE  /\ \A s \in Suite : \A i \in DOMAIN slots[s] : slots[s][i] \in AllCases
         /\ \A c \in AllCases : \E s \in Suite : \E i \in DOMAIN slots[s] : slots[s][i] = c
         /\ InTest => cur \in AllCases
<1>1. \A s \in Suite : Range(slots[s]) = Range(Registered[s])
  BY ArrangementsAreOnto DEF TypeInv, SlotsInv
<1>2. ASSUME NEW s \in Suite, NEW i \in DOMAIN slots[s] PROVE slots[s][i] \in AllCases
  <2>1. slots[s][i] \in Range(slots[s])
    BY DEF Range
  <2>. QED  BY <1>1, <2>1 DEF AllCases
<1>3. ASSUME NEW c \in AllCases
      PROVE  \E s \in Suite : \E i \in DOMAIN slots[s] : slots[s][i] = c
  <2>1. PICK s \in Suite : c \in Range(slots[s])
    BY <1>1 DEF AllCases
  <2>. QED  BY <2>1 DEF Range
<1>4. ASSUME InTest PROVE cur \in AllCases
  <2>1. frame.suite \in Suite /\ frame.slot \in DOMAIN slots[frame.suite]
    BY <1>4, SlotFacts DEF TypeInv, TypeOK, CaseFrames
  <2>. QED  BY <1>2, <2>1 DEF cur
<1>. QED  BY <1>2, <1>3, <1>4

\* Every step keeps what is up registered: fossil_test_end tears down all of it,
\* and at the end nothing is up.
LEMMA TornStep == TypeInv /\ TornInv /\ [Next]_vars => TornInv'
<1>. SUFFICES ASSUME TypeInv, TornInv, [Next]_vars PROVE TornInv'
  OBVIOUS
<1>facts. /\ up \subseteq AllCases /\ si \in Nat /\ NSuites \in Nat /\ Suite = 1 .. NSuites
          /\ todo \subseteq SlotsOf(si)
          /\ InTest => cur \in AllCases
  BY RegistrationAssumption, SlotsHoldAllCases DEF TornInv, TypeInv, TypeOK, Suite
<1>1. CASE pc' \notin {"End", "EndTeardown", "Done"} /\ up' \subseteq AllCases
  BY <1>1 DEF TornInv, AllCases
<1>2. CASE Summary
  <2>1. si' = 1 /\ todo' = SlotsOf(1) /\ pc' = "End" /\ UNCHANGED << slots, up >>
    BY <1>2 DEF Summary, history
  <2>2. ASSUME NEW c \in up PROVE ToTearDown(c)'
    <3>1. PICK s \in Suite : \E i \in DOMAIN slots[s] : slots[s][i] = c
      BY <1>facts, SlotsHoldAllCases
    <3>2. PICK i \in DOMAIN slots[s] : slots[s][i] = c
      BY <3>1
    <3>3. s > 1 \/ (s = 1 /\ i \in SlotsOf(1))
      BY <3>2, <1>facts DEF SlotsOf
    <3>. QED  BY <2>1, <3>2, <3>3 DEF ToTearDown
  <2>. QED  BY <2>1, <2>2, <1>facts DEF TornInv, AllCases
<1>3. ASSUME NEW i \in todo, EndCase(i) PROVE TornInv'
  <2>1. /\ pc = "End" /\ pc' = "EndTeardown" /\ UNCHANGED << si, slots >>
        /\ todo' = todo \ {i} /\ up' = up \ {slots[si][i]}
    BY <1>3 DEF EndCase
  <2>2. ASSUME NEW c \in up' PROVE ToTearDown(c)'
    <3>1. PICK s \in Suite : \E j \in DOMAIN slots[s] :
            slots[s][j] = c /\ (s > si \/ (s = si /\ j \in todo))
      BY <2>1 DEF TornInv, ToTearDown
    <3>2. PICK j \in DOMAIN slots[s] :
            slots[s][j] = c /\ (s > si \/ (s = si /\ j \in todo))
      BY <3>1
    <3>3. s > si \/ (s = si /\ j \in todo')
      BY <2>1, <2>2, <3>2
    <3>. QED  BY <2>1, <3>2, <3>3 DEF ToTearDown
  <2>. QED  BY <2>1, <2>2, <1>facts DEF TornInv, AllCases
<1>4. CASE EndTeardownReturns
  BY <1>4 DEF EndTeardownReturns, history, TornInv, ToTearDown, AllCases
<1>5. CASE EndSuite
  <2>1. /\ pc = "End" /\ pc' = "End" /\ UNCHANGED << slots, up >> /\ todo = {}
        /\ si' = si + 1 /\ todo' = SlotsOf(si + 1)
    BY <1>5 DEF EndSuite, history
  <2>2. ASSUME NEW c \in up PROVE ToTearDown(c)'
    <3>1. PICK s \in Suite : \E j \in DOMAIN slots[s] : slots[s][j] = c /\ s > si
      BY <2>1 DEF TornInv, ToTearDown
    <3>2. PICK j \in DOMAIN slots[s] : slots[s][j] = c /\ s > si
      BY <3>1
    <3>3. s > si + 1 \/ (s = si + 1 /\ j \in SlotsOf(si + 1))
      BY <3>2, <1>facts DEF SlotsOf
    <3>. QED  BY <2>1, <3>2, <3>3 DEF ToTearDown
  <2>. QED  BY <2>1, <2>2, <1>facts DEF TornInv, AllCases
<1>6. CASE EndDone
  <2>1. pc = "End" /\ pc' = "Done" /\ todo = {} /\ si >= NSuites /\ UNCHANGED << up >>
    BY <1>6 DEF EndDone, history
  <2>2. up = {}
    BY <2>1, <1>facts DEF TornInv, ToTearDown
  <2>. QED  BY <2>1, <2>2 DEF TornInv
<1>7. CASE AssertionHolds /\ pc = "EndTeardown"
  BY <1>7 DEF AssertionHolds, control, TornInv, ToTearDown, AllCases
<1>8. CASE UNCHANGED vars
  BY <1>8 DEF vars, control, history, TornInv, ToTearDown, AllCases
<1>9. CASE RunAll \/ RunTest
  <2>1. pc' \notin {"End", "EndTeardown", "Done"}
    BY <1>9
    DEF RunAll, RunTest, EmptySuite, EnterSuite, SuiteSetupReturns, LeaveSuite,
        SuiteTeardownReturns, PassOver, SkipCase, StartCase, SetupReturns, NothingToRun,
        BodyReturns, FailFast, Landed, Repeat, FinishCase
  <2>2. ASSUME NEW i \in todo, StartCase(i) PROVE up' \subseteq AllCases
    <3>1. up' = up \cup {slots[si][i]} /\ si \in Suite /\ i \in DOMAIN slots[si]
      BY <2>2, <1>facts DEF StartCase, TypeInv, LoopInv, SlotsOf
    <3>. QED  BY <3>1, <1>facts, SlotsHoldAllCases
  <2>3. Repeat => up' \subseteq AllCases
    BY <1>facts DEF Repeat, InTest
  <2>4. up' \subseteq up \/ (\E i \in todo : StartCase(i)) \/ Repeat
    BY <1>9
    DEF RunAll, RunTest, EmptySuite, EnterSuite, SuiteSetupReturns, LeaveSuite,
        SuiteTeardownReturns, PassOver, SkipCase, SetupReturns, NothingToRun,
        BodyReturns, FailFast, Landed, FinishCase, history
  <2>. QED  BY <1>1, <1>facts, <2>1, <2>2, <2>3, <2>4
<1>10. CASE Assertion /\ ~ (AssertionHolds /\ pc = "EndTeardown")
  <2>1. UNCHANGED up
    BY <1>10
    DEF Assertion, AssertionHolds, AssertionFails, FixtureJumpsToDeadFrame,
        AssertionJumpsNowhere, NoteFailure, history
  <2>2. pc' \notin {"End", "EndTeardown", "Done"}
    BY <1>10
    DEF Assertion, AssertionHolds, AssertionFails, FixtureJumpsToDeadFrame,
        AssertionJumpsNowhere, MayAssert, control
  <2>. QED  BY <1>1, <1>facts, <2>1, <2>2
<1>. QED
  BY <1>2, <1>3, <1>4, <1>5, <1>6, <1>7, <1>8, <1>9, <1>10 DEF Next, End, Stopped

\* When main returns, no case is left set up: what fail_fast, or a jump out of
\* a fixture, left standing is torn down at the end, wherever sorting and
\* shuffling have put it.
THEOREM LeftoversAreAllTornDown == Spec => []LeftoversAreTornDown
<1>1. Init => TornInv
  BY DEF Init, TornInv
<1>2. TornInv => LeftoversAreTornDown
  BY DEF TornInv, LeftoversAreTornDown
<1>. QED  BY TypeInit, TypeStep, TornStep, <1>1, <1>2, PTL DEF Spec

-----------------------------------------------------------------------------
(***************************************************************************)
(* The order of the tests.  The loop takes the slots from the first to the *)
(* last, and the array is in order while there are any left.  Even a jump  *)
(* into an activation that has returned lands on a slot that came before:  *)
(* the buffer never holds a later one.                                     *)
(***************************************************************************)

\* Frame f is of an earlier suite, or of a slot before those still to come.
Came(f) ==
  /\ f.suite <= si
  /\ f.suite = si => /\ pc \notin {"NextSuite", "SuiteSetup"}
                     /\ \A j \in todo : f.slot < j

ShuffledInv ==
  pallet.shuffle_by \in {"name", "priority"} /\ todo # {} /\ Len(slots[si]) >= 2
    => InOrder(slots[si], pallet.shuffle_by, FALSE)

TurnInv ==
  ~ RunOver => /\ InTest => Came(frame)
               /\ Armed => Came(buffer.frame)
               /\ ShuffledInv

\* A step within a suite that only takes slots out of those to come.
LEMMA TurnKeeps ==
  ASSUME UNCHANGED << pallet, si, slots >>, todo' \subseteq todo,
         pc' \in {"NextSuite", "SuiteSetup"} => pc \in {"NextSuite", "SuiteSetup"}
  PROVE  /\ \A f : Came(f) => Came(f)'
         /\ ShuffledInv => ShuffledInv'
<1>1. ASSUME NEW f, Came(f) PROVE Came(f)'
  BY <1>1 DEF Came
<1>2. ASSUME ShuffledInv PROVE ShuffledInv'
  BY <1>2 DEF ShuffledInv, InOrder, Key
<1>. QED  BY <1>1, <1>2

\* Sorting and shuffling leave an array in the order of the shuffle criterion.
LEMMA ShuffleOrders ==
  ASSUME NEW a \in Seq(Case), NEW b \in SortCases(a), NEW c \in ShuffleCases(b),
         IsInjective(a), pallet.shuffle_by \in Criterion, Len(c) >= 2
  PROVE  InOrder(c, pallet.shuffle_by, FALSE)
<1>1. a \in Arrangements(a)
  BY DEF Arrangements, Range, IsInjective
<1>2. b \in Arrangements(a) /\ c \in Arrangements(a)
  BY <1>1, SortShuffleArrange
<1>3. Len(b) = Len(a) /\ Len(c) = Len(a) /\ Len(a) \in Nat
  BY <1>2, ArrangementIsSequence
<1>4. ~ (Len(b) < 2)
  BY <1>3
<1>5. PICK d \in Shuffled(b) : c \in QSort(d, pallet.shuffle_by, FALSE)
  BY <1>4 DEF ShuffleCases
<1>. QED  BY <1>5 DEF QSort

\* Until the run is over, slots are taken and come back to in their turn, and a
\* shuffled suite stays in the order of its field.
LEMMA TurnStep == TypeInv /\ TurnInv /\ [Next]_vars => TurnInv'
<1>. SUFFICES ASSUME TypeInv, TurnInv, [Next]_vars, ~ RunOver, ~ RunOver'
              PROVE  TurnInv'
  <2>1. RunOver /\ [Next]_vars => RunOver'
    BY DEF Next, RunAll, RunTest, Assertion, End, Stopped, EmptySuite, EnterSuite,
           SuiteSetupReturns, LeaveSuite, SuiteTeardownReturns, PassOver, SkipCase,
           StartCase, SetupReturns, NothingToRun, BodyReturns, FailFast, Landed, Repeat,
           FinishCase, AssertionHolds, AssertionFails, FixtureJumpsToDeadFrame,
           AssertionJumpsNowhere, BufferIsLive, InTest, Summary, EndCase,
           EndTeardownReturns, EndSuite, EndDone, vars, control, RunOver
  <2>. QED  BY <2>1 DEF TurnInv
<1>facts. /\ TypeOK /\ SlotsInv /\ LoopInv
          /\ InTest => Came(frame)
          /\ Armed => Came(buffer.frame)
          /\ ShuffledInv
          /\ si \in Nat /\ todo \subseteq Nat
          /\ Armed => buffer.frame.suite \in Nat /\ buffer.frame.slot \in Nat
  <2>1. TypeOK /\ SlotsInv /\ LoopInv
    BY DEF TypeInv
  <2>2. si \in Nat /\ todo \subseteq Nat
    BY <2>1, RegistrationAssumption, SlotFacts DEF TypeOK, SlotsOf
  <2>3. Armed => buffer.frame.suite \in Nat /\ buffer.frame.slot \in Nat
    BY <2>1, RegistrationAssumption DEF TypeOK, CaseFrames, Suite
  <2>. QED  BY <2>1, <2>2, <2>3 DEF TurnInv
<1>1. CASE EmptySuite \/ SuiteTeardownReturns
  <2>1. si' = si + 1 /\ ~ InTest' /\ todo' = {} /\ UNCHANGED buffer
    BY <1>1, <1>facts DEF EmptySuite, SuiteTeardownReturns, jump, LoopInv, InTest
  <2>2. Armed' => Came(buffer.frame)'
    BY <2>1, <1>facts DEF Armed, Came
  <2>. QED  BY <2>1, <2>2 DEF TurnInv, ShuffledInv
<1>2. CASE SuiteSetupReturns
  <2>1. /\ pc = "SuiteSetup" /\ si \in Suite /\ ~ InTest' /\ UNCHANGED << pallet, si, buffer, state >>
    BY <1>2, <1>facts DEF SuiteSetupReturns, jump, LoopInv, InTest
  <2>2. Armed' => Came(buffer.frame)'
    BY <2>1, <1>facts DEF Armed, Came
  <2>3. ShuffledInv'
    <3>. SUFFICES ASSUME pallet.shuffle_by \in {"name", "priority"}, todo' # {},
                         Len(slots'[si]) >= 2
                  PROVE  InOrder(slots'[si], pallet.shuffle_by, FALSE)
      BY <2>1 DEF ShuffledInv, InOrder, Key
    <3>1. PICK b \in SortCases(slots[si]) : slots'[si] \in ShuffleCases(b)
      <4>1. PICK b \in SortCases(slots[si]) : \E a \in ShuffleCases(b) :
              slots' = [slots EXCEPT ![si] = a]
        BY <1>2 DEF SuiteSetupReturns
      <4>. QED  BY <4>1, <2>1, <1>facts DEF TypeOK
    <3>2. slots[si] \in Seq(Case) /\ IsInjective(slots[si])
      BY <2>1, <1>facts DEF TypeOK, SlotsInv, Arrangements
    <3>. QED  BY <3>1, <3>2, ShuffleOrders DEF Criterion
  <2>. QED  BY <2>1, <2>2, <2>3 DEF TurnInv
<1>3. CASE \/ EnterSuite \/ LeaveSuite \/ (\E i \in todo : PassOver(i) \/ SkipCase(i))
           \/ FailFast \/ FinishCase
  <2>1. /\ UNCHANGED << pallet, si, slots, buffer >> /\ todo' \subseteq todo /\ ~ InTest'
        /\ pc' \in {"NextSuite", "SuiteSetup"} => pc \in {"NextSuite", "SuiteSetup"}
    BY <1>3 DEF EnterSuite, LeaveSuite, PassOver, SkipCase, FailFast, FinishCase, jump, InTest
  <2>. QED  BY <2>1, <1>facts, TurnKeeps DEF TurnInv, Armed
<1>4. ASSUME NEW i \in todo, StartCase(i) PROVE TurnInv'
  <2>1. /\ UNCHANGED << pallet, si, slots, buffer >> /\ todo' = todo \ {i}
        /\ pc = "NextCase" /\ pc' = "Setup"
        /\ frame' = [suite |-> si, slot |-> i, iter |-> 0] /\ IsNext(i)
    BY <1>4 DEF StartCase, jump
  <2>2. Came(frame)'
    <3>1. \A j \in todo' : i < j
      BY <2>1, <1>facts DEF IsNext
    <3>. QED  BY <2>1, <3>1, <1>facts DEF Came
  <2>. QED  BY <2>1, <2>2, <1>facts, TurnKeeps DEF TurnInv, Armed
<1>5. CASE SetupReturns \/ NothingToRun \/ BodyReturns \/ Landed
  <2>1. /\ UNCHANGED << pallet, si, slots, todo, frame >> /\ InTest /\ pc' \notin {"NextSuite", "SuiteSetup"}
        /\ buffer' = buffer \/ buffer'.frame = frame
    BY <1>5 DEF SetupReturns, NothingToRun, BodyReturns, Landed, SavedContext, jump, InTest
  <2>2. Came(frame)' /\ ShuffledInv' /\ (Armed => Came(buffer.frame)')
    BY <2>1, <1>facts, TurnKeeps
  <2>3. buffer' = buffer \/ buffer'.frame = frame'
    BY <2>1
  <2>. QED  BY <2>2, <2>3 DEF TurnInv, Armed
<1>6. CASE Repeat
  <2>1. /\ UNCHANGED << pallet, si, slots, todo, buffer >> /\ InTest /\ pc' = "Setup"
        /\ frame'.suite = frame.suite /\ frame'.slot = frame.slot
    BY <1>6, <1>facts DEF Repeat, jump, InTest, TypeOK, Frames
  <2>2. Came(frame) /\ ShuffledInv' /\ (Armed => Came(buffer.frame)')
    BY <2>1, <1>facts, TurnKeeps
  <2>3. Came(frame)'
    BY <2>1, <2>2 DEF Came
  <2>. QED  BY <2>1, <2>2, <2>3 DEF TurnInv, Armed
<1>7. CASE AssertionFails \/ FixtureJumpsToDeadFrame
  <2>1. /\ UNCHANGED << pallet, si, slots, todo, buffer >> /\ InTest /\ Armed
        /\ frame' = frame \/ frame' = buffer.frame
        /\ pc' = "Landed"
    BY <1>7, <1>facts
    DEF AssertionFails, FixtureJumpsToDeadFrame, BufferIsLive, Armed, LoopInv, InTest, RunOver
  <2>2. \A f : Came(f) => Came(f)'
    BY <2>1, TurnKeeps
  <2>3. ShuffledInv' /\ Came(frame) /\ Came(buffer.frame)
    BY <2>1, <1>facts, TurnKeeps
  <2>4. Came(frame)' /\ Came(buffer.frame)'
    BY <2>1, <2>2, <2>3 DEF Came
  <2>. QED  BY <2>3, <2>4 DEF TurnInv
<1>8. CASE AssertionHolds \/ UNCHANGED vars
  <2>1. UNCHANGED << pallet, si, slots, todo, buffer, pc, frame >>
    BY <1>8 DEF AssertionHolds, vars, control, jump
  <2>. QED  BY <2>1, <1>facts, TurnKeeps DEF TurnInv, Armed, InTest
<1>. QED
  BY <1>1, <1>2, <1>3, <1>4, <1>5, <1>6, <1>7, <1>8
  DEF Next, RunAll, RunTest, Assertion, End, Stopped, AssertionJumpsNowhere, Summary,
      EndCase, EndTeardownReturns, EndSuite, EndDone, RunOver

\* With --shuffle by name or priority, each test that runs is not after any of
\* those still to come in its suite, in the order of that field: although the
\* filter chose the slots before the array was sorted, and even when a fixture
\* jumps into a test that is over.
THEOREM ShuffledTestsRunInOrder == Spec => []ShuffledByField
<1>1. Init => TurnInv
  BY DEF Init, TurnInv, InTest, Armed, ShuffledInv
<1>2. TypeInv /\ TurnInv => ShuffledByField
  <2>. SUFFICES ASSUME TypeInv, TurnInv, InTest, frame.suite = si,
                       pallet.shuffle_by \in {"name", "priority"}, NEW j \in todo
                PROVE  Key(pallet.shuffle_by, cur) <= Key(pallet.shuffle_by, slots[si][j])
    BY DEF ShuffledByField
  <2>1. Came(frame) /\ ShuffledInv
    BY DEF TurnInv, RunOver, InTest
  <2>2. /\ frame.slot < j /\ si \in Suite /\ frame.slot \in DOMAIN slots[si] /\ j \in DOMAIN slots[si]
        /\ DOMAIN slots[si] = 1 .. Len(slots[si]) /\ Len(slots[si]) \in Nat
    BY <2>1, SlotFacts DEF Came, TypeInv, TypeOK, LoopInv, CaseFrames, SlotsOf
  <2>3. InOrder(slots[si], pallet.shuffle_by, FALSE)
    <3>1. Len(slots[si]) >= 2 /\ todo # {}
      BY <2>2
    <3>. QED  BY <2>1, <3>1 DEF ShuffledInv
  <2>. QED  BY <2>2, <2>3 DEF InOrder, cur
<1>. QED  BY TypeInit, TypeStep, TurnStep, <1>1, <1>2, PTL DEF Spec

=============================================================================
