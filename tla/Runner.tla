------------------------------- MODULE Runner -------------------------------
(***************************************************************************)
(* The test engine: fossil_maip_run_all, run_suite, filter_cases,          *)
(* sort_cases, shuffle_cases, run_test, update_score, summary and end      *)
(* (src/code/logic/test.c), driven by the main function that runner.py     *)
(* generates.                                                              *)
(*                                                                         *)
(* The engine is one thread, but it hands control to code it does not      *)
(* know: the fixtures and bodies of the registered cases.  Any assertion   *)
(* they make may longjmp out of them, to wherever test_jump_buffer points  *)
(* at that moment.  The steps of the model are therefore the stretches of  *)
(* the engine between two such callbacks, and pc says which callback is    *)
(* running or where the engine's own loops are.                            *)
(***************************************************************************)
EXTENDS Score, FiniteSets, Functions

CONSTANTS
  Case,            \* registered fossil_maip_case_t objects
  NSuites,         \* engine->count
  Registered,      \* Registered[s]: suite->cases as the registration left it
  Name,            \* rank of test_case->name in strcmp order
  Priority,        \* test_case->priority
  Tag,             \* strings a filter may look for
  Tags,            \* Tags[c]: those that strstr finds in test_case->tags
  HasRun,          \* cases with a non-null run
  SetupAsserts,    \* cases whose setup makes assertions
  TeardownAsserts, \* cases whose teardown makes assertions
  SuiteAsserts,    \* suites whose setup or teardown makes assertions
  Pallets,         \* the pallets (parsed command lines) considered
  MaxAsserts,      \* bound on the assertions of one callback
  Null             \* an option that was not given

Suite == 1 .. NSuites

Criterion == {"name", "result", "time", "priority"}

(***************************************************************************)
(* The part of fossil_maip_pallet_t the engine reads.  Names are ranks, as *)
(* in Name; a sort criterion may be an unknown word.  run.only and         *)
(* run.skip are public fields that no option of the command line sets: a   *)
(* main function that wants them writes them itself.                       *)
(***************************************************************************)
PalletOptions ==
  [only : Nat \cup {Null}, skip : Nat \cup {Null},
   repeat : Int, fail_fast : BOOLEAN,
   test_name : Nat \cup {Null}, name : Suite \cup {Null}, tag : Tag \cup {Null},
   sort_by : Criterion \cup {Null, "unknown"}, sort_desc : BOOLEAN,
   shuffle_by : Criterion \cup {Null, "unknown"}]

(***************************************************************************)
(* Cases are copied into the array of their suite, so no two slots hold    *)
(* the same object, and no two suites share one.                           *)
(***************************************************************************)
ASSUME RegistrationAssumption ==
  /\ NSuites \in Nat
  /\ Registered \in [Suite -> Seq(Case)]
  /\ \A s \in Suite : IsInjective(Registered[s])
  /\ \A s, t \in Suite : s # t => Range(Registered[s]) \cap Range(Registered[t]) = {}

ASSUME CaseAssumption ==
  /\ Name \in [Case -> Nat]
  /\ Priority \in [Case -> Int]
  /\ Tags \in [Case -> SUBSET Tag]
  /\ HasRun \subseteq Case
  /\ SetupAsserts \subseteq Case
  /\ TeardownAsserts \subseteq Case
  /\ SuiteAsserts \subseteq Suite

ASSUME OptionAssumption ==
  /\ Pallets \subseteq PalletOptions
  /\ MaxAsserts \in Nat \ {0}
  /\ Null \notin Nat
  /\ Null \notin Tag
  /\ Null \notin FeedbackPool

VARIABLES
  pallet,       \* engine->pallet
  pc,           \* where the engine is
  si,           \* i of run_all and of end: the suite at hand
  todo,         \* slots of suite si whose turn is still to come
  frame,        \* the locals of run_test: suite and slot of test_case, and i
  buffer,       \* test_jump_buffer: the locals setjmp saved, and their activation;
                \* all zeros until the first setjmp
  act,          \* calls of run_test so far that got past the two name filters
  assertCount,  \* _ASSERT_COUNT
  slots,        \* slots[s]: suite->cases, reordered in place
  state,        \* state[c]: test_case->state
  tally,        \* tally[s]: score, total_score, total_possible of a suite
  engine,       \* score, score_total, score_possible of the engine
  summary       \* the feedback printed by the summary

(***************************************************************************)
(* History: what the properties need to remember of the past.  The engine  *)
(* never reads it.                                                         *)
(***************************************************************************)
VARIABLES
  visited,      \* cases run_test was called for
  executed,     \* cases whose body was started
  counted,      \* counted[c]: how often update_score was called for c
  up,           \* cases whose setup was started and no teardown since
  evidence,     \* what the last body of the case showed
  failedOnce    \* cases an assertion of which has failed

control == << pc, si, todo, frame, act >>
jump    == << buffer, assertCount >>
results == << state, tally, engine, summary >>
history == << visited, executed, counted, up, evidence, failedOnce >>
vars    == << pallet, control, jump, slots, results, history >>

-----------------------------------------------------------------------------
(***************************************************************************)
(* Filtering, sorting and shuffling.                                       *)
(***************************************************************************)

\* One case against the three filters of fossil_maip_filter_cases.
Matches(s, c) ==
  /\ pallet.test_name = Null \/ pallet.test_name = Name[c]
  /\ pallet.name = Null \/ pallet.name = s
  /\ pallet.tag = Null \/ pallet.tag \in Tags[c]

\* The cases of suite s that the filters select.
Selected(s) == {c \in Range(Registered[s]) : Matches(s, c)}

\* Mutant of FilterCases: a scan that stops one short.
FilterCasesButLast(s) ==
  {i \in DOMAIN slots[s] : i < Len(slots[s]) /\ Matches(s, slots[s][i])}

(***************************************************************************)
(* fossil_maip_filter_cases returns pointers into suite->cases, that is,   *)
(* slots and not cases.                                                    *)
(***************************************************************************)
FilterCases(s) == {i \in DOMAIN slots[s] : Matches(s, slots[s][i])}

\* The array that comes of a when its elements change places.
Rearranged(a) == {[i \in DOMAIN a |-> a[p[i]]] : p \in Bijection(DOMAIN a, DOMAIN a)}

StateRank == [v \in CaseState |->
  CASE v = "EMPTY" -> 0 [] v = "PASS" -> 1 [] v = "FAIL" -> 2
    [] v = "TIMEOUT" -> 3 [] v = "SKIPPED" -> 4 [] v = "UNEXPECTED" -> 5]

(***************************************************************************)
(* What the compare_* functions compare.  A suite is sorted once and       *)
(* before any of its cases ran, so every elapsed_ns is still 0.            *)
(***************************************************************************)
Key(by, c) ==
  CASE by = "name"     -> Name[c]
    [] by = "priority" -> Priority[c]
    [] by = "result"   -> StateRank[state[c]]
    [] by = "time"     -> 0

InOrder(a, by, desc) ==
  \A i, j \in DOMAIN a :
    i < j => IF desc THEN Key(by, a[i]) >= Key(by, a[j])
                     ELSE Key(by, a[i]) <= Key(by, a[j])

\* qsort is not stable: the elements of a in any of the orders it may choose.
QSort(a, by, desc) == {b \in Rearranged(a) : InOrder(b, by, desc)}

\* fossil_maip_sort_cases: the arrays it may leave.
SortCases(a) ==
  IF Len(a) <= 1 \/ pallet.sort_by \notin Criterion
  THEN {a}
  ELSE QSort(a, pallet.sort_by, pallet.sort_desc)

\* Mutant of Swapped: without the temporary, the first assignment is lost.
SwappedWithoutTemp(a, i, j) == [a EXCEPT ![i] = a[j]]

\* cases[i] and cases[j] change places through temp.
Swapped(a, i, j) == [a EXCEPT ![i] = a[j], ![j] = a[i]]

(***************************************************************************)
(* The loop of fossil_maip_shuffle_cases: for each place from the last to  *)
(* the second, the case there is swapped with one that rand() chooses, not *)
(* behind it.  at[i] are the arrays there may be once the places behind i  *)
(* have had their turn.                                                    *)
(***************************************************************************)
Shuffled(a) ==
  LET at[i \in 1 .. Len(a)] ==
        IF i = Len(a) THEN {a}
        ELSE {Swapped(b, i + 1, j) : b \in at[i + 1], j \in 1 .. i + 1}
  IN  at[1]

\* Mutant of ShuffleCases: the secondary sort is done before the shuffle.
ShuffleCasesUnsorted(a) == IF Len(a) < 2 THEN {a} ELSE Shuffled(a)

(***************************************************************************)
(* fossil_maip_shuffle_cases: a known criterion sorts whatever the loop    *)
(* has left, ascending.  It is called for every suite, whether or not      *)
(* shuffle was asked for.                                                  *)
(***************************************************************************)
ShuffleCases(a) ==
  IF Len(a) < 2 THEN {a}
  ELSE IF pallet.shuffle_by \in Criterion
       THEN UNION {QSort(b, pallet.shuffle_by, FALSE) : b \in Shuffled(a)}
       ELSE Shuffled(a)

-----------------------------------------------------------------------------
(***************************************************************************)
(* Scores.                                                                 *)
(***************************************************************************)
Tallies == [score : Scores, total_score : Nat, total_possible : Nat]

ZeroTally == [score |-> ZeroScore, total_score |-> 0, total_possible |-> 0]

\* Mutant of UpdateScore: the totals are computed before the counter moves.
UpdateScoreStale(t, v) ==
  [score |-> Count(t.score, v), total_score |-> t.score["PASS"],
   total_possible |-> Possible(t.score)]

\* fossil_maip_update_score on the tally of a suite, for outcome v.
UpdateScore(t, v) ==
  LET sc == Count(t.score, v)
  IN  [score |-> sc, total_score |-> sc["PASS"], total_possible |-> Possible(sc)]

\* What run_all adds to the engine after each suite.
AddTally(e, t) ==
  [score |-> AddScores(e.score, t.score),
   total_score |-> e.total_score + t.total_score,
   total_possible |-> e.total_possible + t.total_possible]

-----------------------------------------------------------------------------
NoFrame == [suite |-> 0, slot |-> 0, iter |-> 0]

\* setjmp has filled the buffer.
Armed == buffer.act > 0

(***************************************************************************)
(* fossil_maip_start and the reset at the head of run_all.                 *)
(***************************************************************************)
Init ==
  /\ pallet \in Pallets
  /\ pc = "NextSuite"
  /\ si = 1
  /\ todo = {}
  /\ frame = NoFrame
  /\ buffer = [frame |-> NoFrame, act |-> 0]
  /\ act = 0
  /\ assertCount = 0
  /\ slots = Registered
  /\ state = [c \in Case |-> "EMPTY"]
  /\ tally = [s \in Suite |-> ZeroTally]
  /\ engine = ZeroTally
  /\ summary = Null
  /\ visited = {}
  /\ executed = {}
  /\ counted = [c \in Case |-> 0]
  /\ up = {}
  /\ evidence = [c \in Case |-> "none"]
  /\ failedOnce = {}

-----------------------------------------------------------------------------
(***************************************************************************)
(* run_all and run_suite.                                                  *)
(***************************************************************************)

\* run_suite of a suite without cases fails at once; run_all adds its zeros.
EmptySuite ==
  /\ pc = "NextSuite"
  /\ si \in Suite
  /\ slots[si] = << >>
  /\ engine' = AddTally(engine, tally[si])
  /\ si' = si + 1
  /\ UNCHANGED << pallet, pc, todo, frame, act, jump, slots, state, tally, summary, history >>

\* run_suite calls suite->setup.
EnterSuite ==
  /\ pc = "NextSuite"
  /\ si \in Suite
  /\ slots[si] # << >>
  /\ pc' = "SuiteSetup"
  /\ UNCHANGED << pallet, si, todo, frame, act, jump, slots, results, history >>

(***************************************************************************)
(* suite->setup returns; the suite's counters are reset, the filter        *)
(* collects its pointers, and only then is the array they point into       *)
(* sorted and shuffled.                                                    *)
(***************************************************************************)
SuiteSetupReturns ==
  /\ pc = "SuiteSetup"
  /\ tally' = [tally EXCEPT ![si] = ZeroTally]
  /\ todo' = FilterCases(si)
  /\ IF todo' = {}
     THEN UNCHANGED slots
     ELSE \E sorted \in SortCases(slots[si]) :
            \E shuffled \in ShuffleCases(sorted) :
              slots' = [slots EXCEPT ![si] = shuffled]
  /\ pc' = "NextCase"
  /\ UNCHANGED << pallet, si, frame, act, jump, state, engine, summary, history >>

\* The loop over the filtered pointers is done; suite->teardown is called.
LeaveSuite ==
  /\ pc = "NextCase"
  /\ todo = {}
  /\ pc' = "SuiteTeardown"
  /\ UNCHANGED << pallet, si, todo, frame, act, jump, slots, results, history >>

\* suite->teardown returns and run_all adds the suite to the engine.
SuiteTeardownReturns ==
  /\ pc = "SuiteTeardown"
  /\ engine' = AddTally(engine, tally[si])
  /\ si' = si + 1
  /\ pc' = "NextSuite"
  /\ UNCHANGED << pallet, todo, frame, act, jump, slots, state, tally, summary, history >>

-----------------------------------------------------------------------------
(***************************************************************************)
(* run_test.                                                               *)
(***************************************************************************)

\* The next pointer of the loop in run_suite (and of the one in end).
IsNext(i) == i \in todo /\ \A j \in todo : i <= j

\* The case run_test (or end) is working on.
cur == slots[frame.suite][frame.slot]

InTest == pc \in {"Setup", "Body", "Landed", "Teardown"}

\* repeat_count: the value of --repeat, or 1 when it is not positive.
RepeatCount == IF pallet.repeat > 0 THEN pallet.repeat ELSE 1

\* The callback running now is one that may call an assertion.
MayAssert ==
  \/ pc = "Body"
  \/ pc = "Setup" /\ cur \in SetupAsserts
  \/ pc \in {"Teardown", "EndTeardown"} /\ cur \in TeardownAsserts
  \/ pc \in {"SuiteSetup", "SuiteTeardown"} /\ si \in SuiteAsserts

\* run_test returns at once when run.only names another case.
PassOver(i) ==
  /\ pc = "NextCase"
  /\ IsNext(i)
  /\ pallet.only # Null
  /\ Name[slots[si][i]] # pallet.only
  /\ todo' = todo \ {i}
  /\ visited' = visited \cup {slots[si][i]}
  /\ UNCHANGED << pallet, pc, si, frame, act, jump, slots, results,
                  executed, counted, up, evidence, failedOnce >>

\* run.skip names the case: it is recorded as skipped, and nothing is run.
SkipCase(i) ==
  /\ pc = "NextCase"
  /\ IsNext(i)
  /\ pallet.only \in {Null, Name[slots[si][i]]}
  /\ pallet.skip = Name[slots[si][i]]
  /\ state' = [state EXCEPT ![slots[si][i]] = "SKIPPED"]
  /\ tally' = [tally EXCEPT ![si] = UpdateScore(@, "SKIPPED")]
  /\ counted' = [counted EXCEPT ![slots[si][i]] = @ + 1]
  /\ todo' = todo \ {i}
  /\ visited' = visited \cup {slots[si][i]}
  /\ UNCHANGED << pallet, pc, si, frame, act, jump, slots, engine, summary,
                  executed, up, evidence, failedOnce >>

\* The repeat loop is entered and test_case->setup called.
StartCase(i) ==
  /\ pc = "NextCase"
  /\ IsNext(i)
  /\ pallet.only \in {Null, Name[slots[si][i]]}
  /\ pallet.skip # Name[slots[si][i]]
  /\ frame' = [suite |-> si, slot |-> i, iter |-> 0]
  /\ act' = act + 1
  /\ todo' = todo \ {i}
  /\ pc' = "Setup"
  /\ visited' = visited \cup {slots[si][i]}
  /\ up' = up \cup {slots[si][i]}
  /\ UNCHANGED << pallet, si, jump, slots, results,
                  executed, counted, evidence, failedOnce >>

\* Mutant of SavedContext: setjmp is called only the first time.
SavedContextOnce ==
  IF Armed THEN buffer ELSE [frame |-> frame, act |-> act]

\* What setjmp(test_jump_buffer) saves: the locals, in this activation.
SavedContext == [frame |-> frame, act |-> act]

(***************************************************************************)
(* test_case->setup returns: the state and _ASSERT_COUNT are reset, setjmp *)
(* arms the buffer, and the body is called.                                *)
(***************************************************************************)
SetupReturns ==
  /\ pc = "Setup"
  /\ cur \in HasRun
  /\ state' = [state EXCEPT ![cur] = "EMPTY"]
  /\ assertCount' = 0
  /\ buffer' = SavedContext
  /\ executed' = executed \cup {cur}
  /\ evidence' = [evidence EXCEPT ![cur] = "none"]
  /\ pc' = "Body"
  /\ UNCHANGED << pallet, si, todo, frame, act, slots, tally, engine, summary,
                  visited, counted, up, failedOnce >>

\* A case without a run function stays EMPTY; setjmp is not called.
NothingToRun ==
  /\ pc = "Setup"
  /\ cur \notin HasRun
  /\ state' = [state EXCEPT ![cur] = "EMPTY"]
  /\ assertCount' = 0
  /\ evidence' = [evidence EXCEPT ![cur] = "none"]
  /\ up' = up \ {cur}
  /\ pc' = "Teardown"
  /\ UNCHANGED << pallet, si, todo, frame, buffer, act, slots, tally, engine, summary,
                  visited, executed, counted, failedOnce >>

\* Mutant of Outcome: an empty body passes.
OutcomeNeverEmpty(slow, n) == IF slow THEN "TIMEOUT" ELSE "PASS"

(***************************************************************************)
(* What run_test makes of a body that returned: slow says whether the      *)
(* elapsed time exceeds FOSSIL_MAIP_TIMEOUT, n is _ASSERT_COUNT.           *)
(***************************************************************************)
Outcome(slow, n) ==
  IF slow THEN "TIMEOUT" ELSE IF n = 0 THEN "EMPTY" ELSE "PASS"

\* test_case->run returns; test_case->teardown is called.
BodyReturns ==
  /\ pc = "Body"
  /\ \E slow \in BOOLEAN :
       /\ state' = [state EXCEPT ![cur] = Outcome(slow, assertCount)]
       /\ evidence' = [evidence EXCEPT ![cur] = IF slow THEN "slow" ELSE @]
  /\ up' = up \ {cur}
  /\ pc' = "Teardown"
  /\ UNCHANGED << pallet, si, todo, frame, act, jump, slots, tally, engine, summary,
                  visited, executed, counted, failedOnce >>

-----------------------------------------------------------------------------
(***************************************************************************)
(* Assertions (maip_test_assert_internal), in whichever callback runs.     *)
(***************************************************************************)

\* _ASSERT_COUNT++; counting stops at MaxAsserts.
CountAssertion ==
  assertCount' = IF assertCount < MaxAsserts THEN assertCount + 1 ELSE assertCount

\* An assertion holds: only _ASSERT_COUNT changes.
AssertionHolds ==
  /\ MayAssert
  /\ assertCount < MaxAsserts
  /\ CountAssertion
  /\ evidence' = IF pc = "Body" THEN [evidence EXCEPT ![cur] = "held"] ELSE evidence
  /\ UNCHANGED << pallet, control, buffer, slots, results,
                  visited, executed, counted, up, failedOnce >>

\* The activation of run_test that armed the buffer has not returned yet.
BufferIsLive == InTest /\ buffer.act = act

\* An assertion fails in a test; the history records it against the case.
NoteFailure ==
  /\ evidence' = [evidence EXCEPT ![cur] = "failed"]
  /\ failedOnce' = failedOnce \cup {cur}
  /\ UNCHANGED << visited, executed, counted, up >>

(***************************************************************************)
(* longjmp into the running activation.  i was stepped after setjmp if the *)
(* assertion is in the setup of a later repetition; it is not volatile, so *)
(* it holds either value.                                                  *)
(***************************************************************************)
AssertionFails ==
  /\ MayAssert
  /\ BufferIsLive
  /\ frame' \in {frame, buffer.frame}
  /\ pc' = "Landed"
  /\ NoteFailure
  /\ CountAssertion
  /\ UNCHANGED << pallet, si, todo, act, buffer, slots, results >>

(***************************************************************************)
(* longjmp from a fixture of a case into an activation that has returned.  *)
(* The dead frame is taken to lie where the running one does, as it does   *)
(* within a suite: a build goes on in the else branch, with all the locals *)
(* of the one or all of the other, or crashes.  Between suites the array   *)
(* filtered_cases moves the frame; of that, only the crash is modelled.    *)
(***************************************************************************)
FixtureJumpsToDeadFrame ==
  /\ pc \in {"Setup", "Teardown"}
  /\ MayAssert
  /\ Armed
  /\ buffer.act # act
  /\ \/ /\ frame' \in {frame, buffer.frame}
        /\ pc' = "Landed"
     \/ /\ pc' = "Undefined"
        /\ UNCHANGED frame
  /\ NoteFailure
  /\ CountAssertion
  /\ UNCHANGED << pallet, si, todo, act, buffer, slots, results >>

(***************************************************************************)
(* longjmp through a buffer no setjmp has filled, or from a fixture that   *)
(* run_test did not call, where the frame of run_test is gone.  Of what    *)
(* C leaves undefined here, the model has the crash alone.                 *)
(***************************************************************************)
AssertionJumpsNowhere ==
  /\ MayAssert
  /\ ~ BufferIsLive
  /\ pc \in {"Setup", "Teardown"} => ~ Armed
  /\ pc' = "Undefined"
  /\ CountAssertion
  /\ UNCHANGED << pallet, si, todo, frame, act, buffer, slots, results, history >>

-----------------------------------------------------------------------------
(***************************************************************************)
(* The else branch of setjmp, the end of an iteration, the end of run_test.*)
(***************************************************************************)

\* Mutants of EndsAtFailure.
NeverEndsAtFailure == FALSE
AlwaysEndsAtFailure == TRUE

\* The early return of the else branch.
EndsAtFailure == pallet.fail_fast

\* Mutant of NextIteration: longjmp brings back the i that setjmp saved.
NextIterationClobbered ==
  IF state[cur] = "FAIL" THEN frame.iter ELSE frame.iter + 1

NextIteration == frame.iter + 1

\* With fail_fast a failure ends run_test: no teardown, no further repetition.
FailFast ==
  /\ pc = "Landed"
  /\ EndsAtFailure
  /\ state' = [state EXCEPT ![cur] = "FAIL"]
  /\ tally' = [tally EXCEPT ![frame.suite] = UpdateScore(@, "FAIL")]
  /\ counted' = [counted EXCEPT ![cur] = @ + 1]
  /\ pc' = "NextCase"
  /\ UNCHANGED << pallet, si, todo, frame, act, jump, slots, engine, summary,
                  visited, executed, up, evidence, failedOnce >>

\* Without it, the failure is noted and test_case->teardown is called.
Landed ==
  /\ pc = "Landed"
  /\ ~ EndsAtFailure
  /\ state' = [state EXCEPT ![cur] = "FAIL"]
  /\ up' = up \ {cur}
  /\ pc' = "Teardown"
  /\ UNCHANGED << pallet, si, todo, frame, act, jump, slots, tally, engine, summary,
                  visited, executed, counted, evidence, failedOnce >>

\* test_case->teardown returns and a repetition is left: setup is called again.
Repeat ==
  /\ pc = "Teardown"
  /\ NextIteration < RepeatCount
  /\ frame' = [frame EXCEPT !.iter = NextIteration]
  /\ up' = up \cup {cur}
  /\ pc' = "Setup"
  /\ UNCHANGED << pallet, si, todo, act, jump, slots, results,
                  visited, executed, counted, evidence, failedOnce >>

\* Otherwise the last state is the one counted and shown, and run_test returns.
FinishCase ==
  /\ pc = "Teardown"
  /\ NextIteration >= RepeatCount
  /\ tally' = [tally EXCEPT ![frame.suite] = UpdateScore(@, state[cur])]
  /\ counted' = [counted EXCEPT ![cur] = @ + 1]
  /\ pc' = "NextCase"
  /\ UNCHANGED << pallet, si, todo, frame, act, jump, slots, state, engine, summary,
                  visited, executed, up, evidence, failedOnce >>

-----------------------------------------------------------------------------
(***************************************************************************)
(* fossil_maip_summary and fossil_maip_end.                                *)
(***************************************************************************)

\* Mutant of SlotsOf: a loop that starts at 1.
SlotsOfButFirst(s) == IF s \in Suite THEN DOMAIN slots[s] \ {1} ELSE {}

SlotsOf(s) == IF s \in Suite THEN DOMAIN slots[s] ELSE {}

\* run_all returns, the feedback is printed, and end starts with suite 1.
Summary ==
  /\ pc = "NextSuite"
  /\ si \notin Suite
  /\ summary' = SummaryFeedback(engine.score)
  /\ si' = 1
  /\ todo' = SlotsOf(1)
  /\ pc' = "End"
  /\ UNCHANGED << pallet, frame, act, jump, slots, state, tally, engine, history >>

\* end calls the teardown of every case, whatever became of the case.
EndCase(i) ==
  /\ pc = "End"
  /\ IsNext(i)
  /\ frame' = [suite |-> si, slot |-> i, iter |-> 0]
  /\ todo' = todo \ {i}
  /\ up' = up \ {slots[si][i]}
  /\ pc' = "EndTeardown"
  /\ UNCHANGED << pallet, si, act, jump, slots, results,
                  visited, executed, counted, evidence, failedOnce >>

EndTeardownReturns ==
  /\ pc = "EndTeardown"
  /\ pc' = "End"
  /\ UNCHANGED << pallet, si, todo, frame, act, jump, slots, results, history >>

\* The array of the suite is freed; end goes on with the next suite.
EndSuite ==
  /\ pc = "End"
  /\ todo = {}
  /\ si < NSuites
  /\ si' = si + 1
  /\ todo' = SlotsOf(si + 1)
  /\ UNCHANGED << pallet, pc, frame, act, jump, slots, results, history >>

EndDone ==
  /\ pc = "End"
  /\ todo = {}
  /\ si >= NSuites
  /\ pc' = "Done"
  /\ UNCHANGED << pallet, si, todo, frame, act, jump, slots, results, history >>

\* main has returned, or nothing can be said of the process any more.
Stopped == pc \in {"Done", "Undefined"} /\ UNCHANGED vars

RunTest ==
  \/ \E i \in todo : PassOver(i) \/ SkipCase(i) \/ StartCase(i)
  \/ SetupReturns \/ NothingToRun \/ BodyReturns
  \/ FailFast \/ Landed \/ Repeat \/ FinishCase

Assertion ==
  AssertionHolds \/ AssertionFails \/ FixtureJumpsToDeadFrame \/ AssertionJumpsNowhere

RunAll ==
  EmptySuite \/ EnterSuite \/ SuiteSetupReturns \/ LeaveSuite \/ SuiteTeardownReturns

End ==
  Summary \/ (\E i \in todo : EndCase(i)) \/ EndTeardownReturns \/ EndSuite \/ EndDone

Next == RunAll \/ RunTest \/ Assertion \/ End \/ Stopped

Spec == Init /\ [][Next]_vars

(***************************************************************************)
(* The engine is sequential code, and callbacks are taken to return: with  *)
(* at most MaxAsserts assertions each, weak fairness of the whole step     *)
(* says just that.                                                         *)
(***************************************************************************)
FairSpec == Spec /\ WF_vars(Next)

-----------------------------------------------------------------------------
(***************************************************************************)
(* Properties.                                                             *)
(***************************************************************************)

Frames == [suite : 0 .. NSuites, slot : Nat, iter : Nat]

\* Frames that point at a case.
CaseFrames == {f \in [suite : Suite, slot : Nat, iter : Nat] :
                 f.slot \in DOMAIN Registered[f.suite]}

Locations == {"NextSuite", "SuiteSetup", "NextCase", "Setup", "Body", "Landed",
              "Teardown", "SuiteTeardown", "End", "EndTeardown", "Done", "Undefined"}

\* The type invariant.
TypeOK ==
  /\ pallet \in PalletOptions
  /\ pc \in Locations
  /\ si \in 1 .. NSuites + 1
  /\ todo \subseteq SlotsOf(si)
  /\ frame \in Frames
  /\ InTest \/ pc = "EndTeardown" => frame \in CaseFrames
  /\ buffer \in [frame : Frames, act : Nat]
  /\ Armed => buffer.frame \in CaseFrames
  /\ act \in Nat
  /\ assertCount \in 0 .. MaxAsserts
  /\ slots \in [Suite -> Seq(Case)]
  /\ state \in [Case -> CaseState]
  /\ tally \in [Suite -> Tallies]
  /\ engine \in Tallies
  /\ summary \in FeedbackPool \cup {Null}
  /\ visited \subseteq Case
  /\ executed \subseteq Case
  /\ counted \in [Case -> Nat]
  /\ up \subseteq Case
  /\ evidence \in [Case -> {"none", "held", "failed", "slow"}]
  /\ failedOnce \subseteq Case

AllCases == UNION {Range(Registered[s]) : s \in Suite}

\* In a suite, or in the engine, the three ways a score is kept agree:
\* total_score and total_possible are what the six counters say.
TotalsAgree ==
  \A t \in Range(tally) \cup {engine} :
    t.total_score = t.score["PASS"] /\ t.total_possible = Possible(t.score)

\* The arrays are reordered in place, but a suite never loses a case to
\* sorting or shuffling, nor gets one twice.
NoCaseLost ==
  \A s \in Suite :
    /\ Len(slots[s]) = Len(Registered[s])
    /\ Range(slots[s]) = Range(Registered[s])

\* No case is scored twice, although pointers into a reordered array decide
\* whose turn it is.
CountedOnce == \A c \in Case : counted[c] <= 1

\* The cases of suite s that were scored.
ScoredCases(s) == {c \in Range(Registered[s]) : counted[c] = 1}

\* At every moment, the counters for PASS, FAIL, TIMEOUT, SKIPPED and UNEXPECTED
\* are the numbers of scored cases of the suite that have that outcome now, so
\* that no outcome is overwritten after the count, and total_possible, of which
\* the rates are computed, is the number of scored cases that are not EMPTY.
\* The sixth counter is the subject of EmptyIsCounted.
ScoreMatchesStates ==
  \A s \in Suite :
    /\ \A v \in CaseState \ {"EMPTY"} :
         tally[s].score[v] = Cardinality({c \in ScoredCases(s) : state[c] = v})
    /\ tally[s].total_possible = Cardinality({c \in ScoredCases(s) : state[c] # "EMPTY"})

\* Without a filter and without --only, no case of any suite is left out of
\* the results, skipped and failed ones included.
NobodyForgotten ==
  /\ pc \in {"End", "EndTeardown", "Done"}
  /\ pallet.only = Null /\ pallet.test_name = Null
  /\ pallet.name = Null /\ pallet.tag = Null
  => \A c \in AllCases : counted[c] = 1

\* The recorded outcome tells what the last body of the case showed: PASS only
\* after an assertion of that very body held, none failed in it or in the
\* teardown that followed, and it was not too slow.
OutcomeMatchesEvidence ==
  \A c \in Case : counted[c] > 0 /\ state[c] # "SKIPPED" =>
    /\ state[c] = "PASS"    <=> evidence[c] = "held"
    /\ state[c] = "FAIL"    <=> evidence[c] = "failed"
    /\ state[c] = "TIMEOUT" <=> evidence[c] = "slow"

\* With fail_fast, no later repetition covers up a failed one.
FailureSticks ==
  pallet.fail_fast =>
    \A c \in failedOnce : counted[c] > 0 => state[c] = "FAIL"

\* Outside of run_test, the only fixtures left standing are those of cases
\* that failed under fail_fast, whose teardown is put off until the end.
FixturesPaired ==
  pc \notin {"Setup", "Body", "Landed"} =>
    \A c \in up : pallet.fail_fast /\ state[c] = "FAIL"

\* An assertion that fails in a body or in the teardown after it is caught by
\* the run_test of that case: longjmp never goes through a stale buffer.
FailuresLand ==
  [][(pc \in {"Body", "Teardown"} /\ cur \in HasRun) => pc' # "Undefined"]_vars

\* With a shuffle criterion, the cases of a suite run in the order of that
\* field, also when a filter chose the slots before the array was sorted.
ShuffledByField ==
  InTest /\ frame.suite = si /\ pallet.shuffle_by \in {"name", "priority"} =>
    \A j \in todo :
      Key(pallet.shuffle_by, cur) <= Key(pallet.shuffle_by, slots[si][j])

\* A perfect summary means that something passed and that no counted case of
\* any suite failed, timed out or was skipped.  Since an EMPTY case is in no
\* counter (test.c:117), "No tests were run." is said of bodies that were
\* executed and asserted nothing, but of no others: exactly when there is no
\* case that was given another outcome.
SummaryMeansOutcomes ==
  /\ summary = "Perfect" =>
       /\ \E c \in AllCases : counted[c] > 0 /\ state[c] = "PASS"
       /\ \A c \in AllCases : counted[c] > 0 => state[c] \in {"PASS", "EMPTY"}
  /\ summary # Null =>
       (summary = "NoTestsWereRun"
          <=> /\ \A c \in executed : state[c] = "EMPTY"
              /\ \A c \in AllCases : counted[c] > 0 => state[c] = "EMPTY")

\* A teardown that fail_fast put off (test.c:650) is made up for at the end,
\* in whatever slot of whichever suite the case is by then.
LeftoversAreTornDown == pc = "Done" => up = {}

\* The engine keeps the promise of Verdicts: what the summary reads is the
\* census of the outcomes, suite by suite, each case judged at most once and
\* no outcome changed afterwards.
V == INSTANCE Verdicts WITH
       Groups  <- [s \in Suite |-> Range(Registered[s])],
       verdict <- [c \in Case |-> IF counted[c] > 0 THEN state[c] ELSE "pending"],
       open    <- IF summary = Null THEN si ELSE NSuites + 1,
       board   <- engine.score

ImplementsVerdicts == V!Spec

\* main returns: the loops over suites, cases and repetitions all end.
Terminates == <>(pc = "Done")

\* With fail_fast the engine stops even when fixtures fail assertions, which
\* otherwise can send it back into the same teardown for ever.
FailFastStops == pallet.fail_fast => <>(pc \in {"Done", "Undefined"})

-----------------------------------------------------------------------------
(***************************************************************************)
(* What the documentation, or the code itself, says and the engine does    *)
(* not do.                                                                 *)
(***************************************************************************)

\* README: "Execute subsets of tests based on custom tags".
OnlySelectedRun ==
  \A s \in Suite : visited \cap Range(Registered[s]) \subseteq Selected(s)

\* The counter that the scoreboard prints as Empty (test.c:1479), and that the
\* switch of update_score steps for an EMPTY case (test.c:136-138), is the number
\* of scored cases of the suite that are EMPTY.
EmptyIsCounted ==
  \A s \in Suite :
    tally[s].score["EMPTY"] = Cardinality({c \in ScoredCases(s) : state[c] = "EMPTY"})

=============================================================================
