------------------------------ MODULE Suggest -------------------------------
(***************************************************************************)
(* What pallet_create does with a word that is no command: find_best_match *)
(* looks for the command nearest to it by levenshtein_distance             *)
(* (src/code/logic/common.c).  Words are sequences of letters.             *)
(*                                                                         *)
(* A step is one row of the distance table, or the comparison of one       *)
(* candidate with the best so far.  The two buffers of the table, swapped  *)
(* after each row, are one variable: a row is written in full before it is *)
(* read as the previous one.                                               *)
(***************************************************************************)
EXTENDS Integers, Sequences, FiniteSetsExt

CONSTANTS
  Letter,      \* what words are made of
  Inputs,      \* the words typed
  Candidates,  \* the commands, in the order of CMD_MAP
  MaxDistance, \* max_distance
  Null         \* a null pointer

ASSUME MaxDistanceAssumption == MaxDistance \in Nat

\* The word typed and the commands are words.
ASSUME WordAssumption ==
  Inputs \subseteq Seq(Letter) /\ Candidates \in Seq(Seq(Letter))

VARIABLES
  input,          \* the word
  k,              \* index of the candidate looked at
  i,              \* number of the row, or 0 before levenshtein_distance begins
  d0,             \* the last complete row
  best_distance,
  best_match      \* index of a candidate, or Null

vars == << input, k, i, d0, best_distance, best_match >>

s1 == input
s2 == Candidates[k]

Init ==
  /\ input \in Inputs
  /\ k = 1
  /\ i = 0
  /\ d0 = << >>
  /\ best_distance = MaxDistance + 1
  /\ best_match = Null

Looking == k <= Len(Candidates)

-----------------------------------------------------------------------------
(* levenshtein_distance *)

\* The first row; a word without letters has no table.
FirstRow ==
  /\ Looking
  /\ i = 0
  /\ s1 # << >> /\ s2 # << >>
  /\ d0' = [j \in 0 .. Len(s2) |-> j]
  /\ i' = 1
  /\ UNCHANGED << input, k, best_distance, best_match >>

Cost(a, b) == IF a = b THEN 0 ELSE 1

\* The row of the r-th letter of s1: the least of an insertion, a deletion and
\* a substitution.
Row(r) ==
  LET d1[j \in 0 .. Len(s2)] ==
        IF j = 0 THEN r
        ELSE Min({d1[j - 1] + 1, d0[j] + 1, d0[j - 1] + Cost(s1[r], s2[j])})
  IN  d1

NextRow ==
  /\ Looking
  /\ i \in 1 .. Len(s1)
  /\ d0' = Row(i)
  /\ i' = i + 1
  /\ UNCHANGED << input, k, best_distance, best_match >>

\* The function returns.
Returns == Looking /\ (s1 = << >> \/ s2 = << >> \/ i = Len(s1) + 1)

dist == IF s1 = << >> THEN Len(s2)
        ELSE IF s2 = << >> THEN Len(s1)
        ELSE d0[Len(s2)]

-----------------------------------------------------------------------------
(* find_best_match *)

\* Mutant of Nearer: the last of equally near candidates wins.
NearerOrEqual == dist <= best_distance

Nearer == dist < best_distance

Compare ==
  /\ Returns
  /\ best_distance' = IF Nearer THEN dist ELSE best_distance
  /\ best_match' = IF Nearer THEN k ELSE best_match
  /\ k' = k + 1
  /\ i' = 0
  /\ d0' = << >>
  /\ UNCHANGED input

\* The loop is over: the caller prints the match, if there is one.
Suggested ==
  /\ ~ Looking
  /\ UNCHANGED vars

Next == FirstRow \/ NextRow \/ Compare \/ Suggested

Spec == Init /\ [][Next]_vars

-----------------------------------------------------------------------------
(* The edit distance, by alignments *)

\* Place of x among the numbers of K.
Rank(K, x) == Cardinality({y \in K : y <= x})

\* What it costs to keep the letters of s at K as those of t at L, in order:
\* the rest of s is deleted, the rest of t inserted, and pairs that differ are
\* substituted.
AlignmentCost(s, t, K, L) ==
  Len(s) - Cardinality(K) + Len(t) - Cardinality(L)
    + Cardinality({p \in K \X L : Rank(K, p[1]) = Rank(L, p[2]) /\ s[p[1]] # t[p[2]]})

EditDistance(s, t) ==
  Min({AlignmentCost(s, t, p[1], p[2]) :
         p \in {q \in (SUBSET DOMAIN s) \X (SUBSET DOMAIN t) :
                  Cardinality(q[1]) = Cardinality(q[2])}})

-----------------------------------------------------------------------------
(* Properties *)

\* The suggestion is the first of the commands nearest to the word, and there
\* is none if all of them are further away than max_distance.
SuggestionIsNearest ==
  ~ Looking =>
    LET near(m) == EditDistance(input, Candidates[m])
        All == DOMAIN Candidates
    IN  IF \A m \in All : near(m) > MaxDistance
        THEN best_match = Null
        ELSE /\ best_match \in All
             /\ \A m \in All : near(m) >= near(best_match)
             /\ \A m \in 1 .. best_match - 1 : near(m) > near(best_match)

=============================================================================
