------------------------------- MODULE Score -------------------------------
(***************************************************************************)
(* The outcomes of a test case (fossil_maip_state_t), the six counters of  *)
(* a suite or of the engine (fossil_maip_score_t), and the feedback the    *)
(* summary derives from them.  A score is a function from outcomes to      *)
(* counters, so that score["PASS"] stands for score.passed, and so on.     *)
(***************************************************************************)
EXTENDS Integers, Sequences

CaseState == {"EMPTY", "PASS", "FAIL", "TIMEOUT", "SKIPPED", "UNEXPECTED"}

Scores == [CaseState -> Nat]

\* Mutant of ZeroScore: a memset with the wrong byte leaves -1 everywhere.
AllOnesScore == [v \in CaseState |-> -1]

ZeroScore == [v \in CaseState |-> 0]

\* Mutant of Count: a missing break in the switch.
CountSlowAsFailed(sc, v) ==
  [sc EXCEPT ![IF v = "TIMEOUT" THEN "FAIL" ELSE v] = @ + 1]

(***************************************************************************)
(* fossil_maip_update_score: one more case with outcome v.  The switch is  *)
(* guarded by state != EMPTY, so its EMPTY label is never taken and an     *)
(* empty case leaves every counter alone.                                  *)
(***************************************************************************)
Count(sc, v) == IF v = "EMPTY" THEN sc ELSE [sc EXCEPT ![v] = @ + 1]

\* Mutant of Possible: the skipped cases are left out of the sum.
PossibleButSkipped(sc) ==
  sc["PASS"] + sc["FAIL"] + sc["TIMEOUT"] + sc["UNEXPECTED"] + sc["EMPTY"]

(***************************************************************************)
(* The recomputed total_possible: the sum of the six counters.             *)
(***************************************************************************)
Possible(sc) == sc["PASS"] + sc["FAIL"] + sc["TIMEOUT"] + sc["SKIPPED"]
                  + sc["UNEXPECTED"] + sc["EMPTY"]

\* Mutant of AddScores: the counter of skipped cases is forgotten.
AddScoresButSkipped(a, b) ==
  [v \in CaseState |-> IF v = "SKIPPED" THEN a[v] ELSE a[v] + b[v]]

\* The six additions of fossil_maip_run_all, engine += suite.
AddScores(a, b) == [v \in CaseState |-> a[v] + b[v]]

(***************************************************************************)
(* fossil_test_summary_feedback: the pool the message is drawn from.  The  *)
(* tests are tried in this order and the first that holds decides; rates   *)
(* are compared as cross products (pass_rate > 90.0 is                     *)
(* 100 * passed > 90 * total).  The message within a pool is a random pick *)
(* and is not modelled.                                                    *)
(***************************************************************************)
Tiers(sc) ==
  LET total == Possible(sc)
      pass  == 100 * sc["PASS"]
      fail  == 100 * (sc["FAIL"] + sc["UNEXPECTED"])
  IN  << [when |-> total = 0,           pool |-> "NoTestsWereRun"],
         [when |-> pass = 100 * total,  pool |-> "Perfect"],
         [when |-> pass > 90 * total,   pool |-> "NearPerfect"],
         [when |-> pass > 70 * total,   pool |-> "Good"],
         [when |-> fail > 40 * total,   pool |-> "Warning"],
         [when |-> fail > 60 * total,   pool |-> "Critical"],
         [when |-> pass > 50 * total,   pool |-> "Encouragement"],
         [when |-> pass > 30 * total,   pool |-> "Suggestions"],
         [when |-> pass > 10 * total,   pool |-> "Motivation"],
         [when |-> TRUE,                pool |-> "Humor"] >>

FirstTier(tiers) ==
  CHOOSE i \in DOMAIN tiers :
    tiers[i].when /\ \A j \in 1 .. i - 1 : ~ tiers[j].when

SummaryFeedback(sc) == Tiers(sc)[FirstTier(Tiers(sc))].pool

FeedbackPool == {"NoTestsWereRun", "Perfect", "NearPerfect", "Good", "Warning",
                 "Critical", "Encouragement", "Suggestions", "Motivation", "Humor"}

=============================================================================
