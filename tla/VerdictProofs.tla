--------------------------- MODULE VerdictProofs ----------------------------
(***************************************************************************)
(* The outcome of every case is recorded once and truthfully, and none is  *)
(* forgotten; the score is the census of the outcomes, the summary tells   *)
(* them, and the engine implements Verdicts: theorems about Runner for     *)
(* fixtures that let run_test's setjmp catch whatever they assert.  RunInv *)
(* ties the activation of run_test, the jump buffer and the evidence       *)
(* together; CountingInv adds that a turn that has passed was counted, and *)
(* ScoreInv that each counter is the number of cases scored so.            *)
(***************************************************************************)
EXTENDS RunnerProofs

\* setup makes no assertions, since it runs before setjmp; teardown may, but
\* not for a case without a body, for which setjmp is never called.
CatchableFixtures == SetupAsserts = {} /\ TeardownAsserts \subseteq HasRun

\* The activation of run_test works on a slot of the suite at hand whose turn
\* has come and whose case has no outcome yet.
FrameInv ==
  InTest => /\ frame.suite = si
            /\ frame.slot \notin todo
            /\ counted[cur] = 0

\* Wherever an assertion may fail, the buffer holds this very iteration.
BufferInv ==
  /\ pc \in {"Body", "Landed"} => cur \in HasRun
  /\ pc \in {"Body", "Landed", "Teardown"} /\ cur \in HasRun
       => buffer = [frame |-> frame, act |-> act]

\* Slots whose turn has not come yet.
Pending(s, i) ==
  s > si \/ (s = si /\ (pc \in {"NextSuite", "SuiteSetup"} \/ i \in todo))

PendingInv ==
  ~ RunOver =>
    \A s \in Suite : \A i \in DOMAIN slots[s] :
      Pending(s, i) => counted[slots[s][i]] = 0

\* The state of case c is what its evidence calls for.
Agrees(c) ==
  /\ state[c] = "PASS"    <=> evidence[c] = "held"
  /\ state[c] = "FAIL"    <=> evidence[c] = "failed"
  /\ state[c] = "TIMEOUT" <=> evidence[c] = "slow"

EvidenceInv ==
  /\ pc = "Body" => evidence[cur] = IF assertCount = 0 THEN "none" ELSE "held"
  /\ pc = "Landed" => evidence[cur] = "failed"
  /\ pc = "Teardown" => Agrees(cur)
  /\ \A c \in Case : counted[c] > 0 /\ state[c] # "SKIPPED" => Agrees(c)

\* A failure seen under fail_fast is on record, or about to be.
FailInv ==
  pallet.fail_fast =>
    \A c \in failedOnce :
      \/ counted[c] = 1 /\ state[c] = "FAIL"
      \/ pc = "Landed" /\ c = cur

\* A fixture that stands belongs to the running case, or to a recorded failure.
UpInv ==
  \A c \in up :
    \/ pallet.fail_fast /\ counted[c] = 1 /\ state[c] = "FAIL"
    \/ pc \in {"Setup", "Body", "Landed"} /\ c = cur

RunInv ==
  FrameInv /\ BufferInv /\ PendingInv /\ CountedOnce /\ EvidenceInv /\ FailInv /\ UpInv

-----------------------------------------------------------------------------
\* A case sits in one slot of one suite.
LEMMA SlotsDistinct ==
  ASSUME TypeInv
  PROVE  \A s, t \in Suite : \A i \in DOMAIN slots[s] : \A j \in DOMAIN slots[t] :
           slots[s][i] = slots[t][j] => s = t /\ i = j
<1>. SUFFICES ASSUME NEW s \in Suite, NEW t \in Suite,
                     NEW i \in DOMAIN slots[s], NEW j \in DOMAIN slots[t],
                     slots[s][i] = slots[t][j]
              PROVE  s = t /\ i = j
  OBVIOUS
<1>1. /\ slots[s] \in Arrangements(Registered[s])
      /\ slots[t] \in Arrangements(Registered[t])
  BY DEF TypeInv, SlotsInv
<1>2. /\ slots[s][i] \in Range(Registered[s])
      /\ slots[t][j] \in Range(Registered[t])
  BY <1>1 DEF Arrangements
<1>3. s = t
  BY <1>2, RegistrationAssumption
<1>. QED  BY <1>1, <1>3 DEF Arrangements, IsInjective

\* No case is under way in the beginning.
LEMMA RunInit == Init => RunInv
<1>. SUFFICES ASSUME Init, TypeInv PROVE RunInv
  BY TypeInit
<1>1. FrameInv /\ BufferInv
  BY DEF Init, FrameInv, BufferInv, InTest
<1>2. PendingInv
  BY SlotFacts DEF Init, PendingInv, TypeInv
<1>3. CountedOnce /\ EvidenceInv
  BY DEF Init, CountedOnce, EvidenceInv
<1>4. FailInv /\ UpInv
  BY DEF Init, FailInv, UpInv
<1>. QED  BY <1>1, <1>2, <1>3, <1>4 DEF RunInv

\* Every step keeps frame, buffer, evidence and fixtures together.
LEMMA RunStep ==
  ASSUME CatchableFixtures
  PROVE  TypeInv /\ TypeInv' /\ RunInv /\ [Next]_vars => RunInv'
<1>. SUFFICES ASSUME TypeInv, TypeInv', RunInv, [Next]_vars PROVE RunInv'
  OBVIOUS
<1>facts. /\ TypeOK /\ SlotsInv /\ LoopInv /\ TypeOK'
          /\ FrameInv /\ BufferInv /\ PendingInv /\ CountedOnce
          /\ EvidenceInv /\ FailInv /\ UpInv
          /\ \A s \in Suite : \A i \in DOMAIN slots[s] : slots[s][i] \in Case /\ i \in Nat
          /\ InTest \/ pc = "EndTeardown" => cur \in Case
          /\ RunInv' <=> /\ FrameInv' /\ BufferInv' /\ PendingInv' /\ CountedOnce'
                         /\ EvidenceInv' /\ FailInv' /\ UpInv'
  BY SlotFacts DEF TypeInv, RunInv, TypeOK, cur
<1>. USE DEF RunOver, InTest
<1>1. CASE EmptySuite
  BY <1>1, <1>facts
  DEF EmptySuite, jump, history, FrameInv, BufferInv, PendingInv, Pending,
      CountedOnce, EvidenceInv, Agrees, FailInv, UpInv, TypeOK, Suite
<1>2. CASE EnterSuite
  BY <1>2, <1>facts
  DEF EnterSuite, jump, history, results, FrameInv, BufferInv, PendingInv, Pending,
      CountedOnce, EvidenceInv, Agrees, FailInv, UpInv
<1>3. CASE SuiteSetupReturns
  <2>1. si \in Suite
    BY <1>3, <1>facts DEF SuiteSetupReturns, LoopInv
  <2>2. \A i \in DOMAIN slots'[si] : \E j \in DOMAIN slots[si] : slots'[si][i] = slots[si][j]
    <3>1. slots[si] \in Arrangements(slots[si])
      BY <2>1, <1>facts DEF SlotsInv, Arrangements, Range, IsInjective
    <3>2. slots'[si] \in Arrangements(slots[si])
      <4>1. CASE todo' = {}
        BY <1>3, <3>1, <4>1 DEF SuiteSetupReturns
      <4>2. CASE todo' # {}
        BY <1>3, <2>1, <3>1, <4>2, <1>facts, SortShuffleArrange DEF SuiteSetupReturns, TypeOK
      <4>. QED  BY <4>1, <4>2
    <3>. QED  BY <3>2 DEF Arrangements, Range
  <2>3. \A s \in Suite : s # si => slots'[s] = slots[s]
    BY <1>3, <1>facts DEF SuiteSetupReturns, TypeOK
  <2>4. PendingInv'
    BY <1>3, <2>1, <2>2, <2>3, <1>facts
    DEF SuiteSetupReturns, PendingInv, Pending, history, Suite
  <2>. QED
    BY <1>3, <2>4, <1>facts
    DEF SuiteSetupReturns, jump, history, FrameInv, BufferInv,
        CountedOnce, EvidenceInv, Agrees, FailInv, UpInv
<1>4. CASE LeaveSuite
  BY <1>4, <1>facts
  DEF LeaveSuite, jump, history, results, FrameInv, BufferInv, PendingInv, Pending,
      CountedOnce, EvidenceInv, Agrees, FailInv, UpInv
<1>5. CASE SuiteTeardownReturns
  BY <1>5, <1>facts
  DEF SuiteTeardownReturns, jump, history, FrameInv, BufferInv, PendingInv, Pending,
      CountedOnce, EvidenceInv, Agrees, FailInv, UpInv, TypeOK, Suite
<1>6. ASSUME NEW i \in todo, PassOver(i) \/ SkipCase(i) \/ StartCase(i)
      PROVE  RunInv'
  <2>1. /\ si \in Suite /\ i \in DOMAIN slots[si] /\ slots[si][i] \in Case
        /\ counted[slots[si][i]] = 0 /\ pc = "NextCase"
    BY <1>6, <1>facts
    DEF PassOver, SkipCase, StartCase, TypeOK, LoopInv, SlotsOf, PendingInv, Pending
  <2>2. \A s \in Suite : \A j \in DOMAIN slots[s] :
          slots[s][j] = slots[si][i] => s = si /\ j = i
    BY <2>1, SlotsDistinct
  <2>3. CASE PassOver(i)
    BY <2>1, <2>3, <1>facts
    DEF PassOver, jump, results, FrameInv, BufferInv, PendingInv, Pending,
        CountedOnce, EvidenceInv, Agrees, FailInv, UpInv
  <2>4. CASE SkipCase(i)
    <3>. DEFINE c == slots[si][i]
    <3>1. /\ counted' = [counted EXCEPT ![c] = 1]
          /\ state' = [state EXCEPT ![c] = "SKIPPED"]
          /\ c \in Case /\ counted[c] = 0
      BY <2>1, <2>4, <1>facts DEF SkipCase, TypeOK
    <3>2. PendingInv'
      BY <2>1, <2>2, <2>4, <3>1, <1>facts DEF SkipCase, PendingInv, Pending, TypeOK
    <3>3. FrameInv' /\ BufferInv' /\ CountedOnce'
      BY <2>1, <2>4, <3>1, <1>facts DEF SkipCase, FrameInv, BufferInv, CountedOnce, TypeOK
    <3>4. EvidenceInv'
      BY <2>1, <2>4, <3>1, <1>facts DEF SkipCase, EvidenceInv, Agrees, TypeOK
    <3>5. FailInv' /\ UpInv'
      BY <2>1, <2>4, <3>1, <1>facts DEF SkipCase, FailInv, UpInv, TypeOK
    <3>. QED  BY <3>2, <3>3, <3>4, <3>5, <1>facts
  <2>5. CASE StartCase(i)
    <3>1. cur' = slots[si][i]
      BY <2>5 DEF StartCase, cur
    <3>. QED
      BY <2>1, <2>5, <3>1, <1>facts
      DEF StartCase, jump, results, FrameInv, BufferInv, PendingInv, Pending,
          CountedOnce, EvidenceInv, Agrees, FailInv, UpInv
  <2>. QED  BY <1>6, <2>3, <2>4, <2>5
<1>same. UNCHANGED << frame, slots >> => cur' = cur
  BY DEF cur
<1>7. CASE SetupReturns
  BY <1>7, <1>facts, <1>same
  DEF SetupReturns, SavedContext, TypeOK, FrameInv, BufferInv, PendingInv, Pending,
      CountedOnce, EvidenceInv, Agrees, FailInv, UpInv
<1>8. CASE NothingToRun
  BY <1>8, <1>facts, <1>same
  DEF NothingToRun, TypeOK, FrameInv, BufferInv, PendingInv, Pending,
      CountedOnce, EvidenceInv, Agrees, FailInv, UpInv
<1>9. CASE BodyReturns
  BY <1>9, <1>facts, <1>same
  DEF BodyReturns, Outcome, jump, TypeOK, FrameInv, BufferInv, PendingInv, Pending,
      CountedOnce, EvidenceInv, Agrees, FailInv, UpInv
<1>10. CASE AssertionHolds
  BY <1>10, <1>facts, <1>same, CatchableFixtures
  DEF AssertionHolds, CountAssertion, MayAssert, CatchableFixtures, control, results, TypeOK, FrameInv, BufferInv, PendingInv, Pending,
      CountedOnce, EvidenceInv, Agrees, FailInv, UpInv
<1>11. CASE AssertionFails
  BY <1>11, <1>facts, <1>same, CatchableFixtures
  DEF AssertionFails, BufferIsLive, MayAssert, NoteFailure, CatchableFixtures, jump, results, TypeOK, FrameInv, BufferInv, PendingInv, Pending,
      CountedOnce, EvidenceInv, Agrees, FailInv, UpInv
<1>12. CASE FixtureJumpsToDeadFrame
  BY <1>12, <1>facts, CatchableFixtures
  DEF FixtureJumpsToDeadFrame, MayAssert, CatchableFixtures, TypeOK, FrameInv, BufferInv, PendingInv, Pending,
      CountedOnce, EvidenceInv, Agrees, FailInv, UpInv
<1>13. CASE AssertionJumpsNowhere
  BY <1>13, <1>facts, <1>same, CatchableFixtures
  DEF AssertionJumpsNowhere, BufferIsLive, Armed, LoopInv, MayAssert, CatchableFixtures, jump, results, history, TypeOK, FrameInv, BufferInv, PendingInv, Pending,
      CountedOnce, EvidenceInv, Agrees, FailInv, UpInv
<1>14. CASE FailFast
  <2>1. /\ frame.suite = si /\ frame.slot \notin todo /\ cur \in Case /\ counted[cur] = 0
        /\ frame.slot \in DOMAIN slots[si] /\ si \in Suite
        /\ counted' = [counted EXCEPT ![cur] = 1]
    BY <1>14, <1>facts, SlotFacts DEF FailFast, FrameInv, TypeOK, CaseFrames
  <2>2. \A s \in Suite : \A j \in DOMAIN slots[s] :
          slots[s][j] = cur => s = si /\ j = frame.slot
    BY <2>1, SlotsDistinct DEF cur
  <2>3. PendingInv'
    <3>1. pc = "Landed" /\ pc' = "NextCase" /\ UNCHANGED << si, todo, slots >>
      BY <1>14 DEF FailFast
    <3>. SUFFICES ASSUME NEW s \in Suite, NEW j \in DOMAIN slots[s], Pending(s, j)'
                  PROVE  counted'[slots[s][j]] = 0
      BY <3>1 DEF PendingInv
    <3>2. s > si \/ (s = si /\ j \in todo) BY <3>1 DEF Pending
    <3>3. ~ RunOver /\ Pending(s, j) BY <3>1, <3>2 DEF Pending, RunOver
    <3>4. counted[slots[s][j]] = 0 BY <1>facts, <3>3 DEF PendingInv
    <3>5. ~ (s > si) \/ s # si BY <2>1 DEF Suite
    <3>6. slots[s][j] # cur BY <2>1, <2>2, <3>2, <3>5
    <3>7. slots[s][j] \in Case BY <1>facts, SlotFacts
    <3>8. counted \in [Case -> Nat] BY <1>facts DEF TypeOK
    <3>. QED  BY <2>1, <3>4, <3>6, <3>7, <3>8
  <2>4. FrameInv' /\ BufferInv' /\ CountedOnce'
    BY <1>14, <2>1, <1>facts DEF FailFast, FrameInv, BufferInv, CountedOnce, TypeOK
  <2>5. EvidenceInv'
    BY <1>14, <2>1, <1>facts, <1>same DEF FailFast, EvidenceInv, Agrees, TypeOK
  <2>6. FailInv' /\ UpInv'
    BY <1>14, <2>1, <1>facts, <1>same DEF FailFast, EndsAtFailure, FailInv, UpInv, TypeOK
  <2>. QED  BY <2>3, <2>4, <2>5, <2>6, <1>facts
<1>15. CASE Landed
  BY <1>15, <1>facts, <1>same
  DEF Landed, EndsAtFailure, jump, TypeOK, FrameInv, BufferInv, PendingInv, Pending,
      CountedOnce, EvidenceInv, Agrees, FailInv, UpInv
<1>16. CASE Repeat
  BY <1>16, <1>facts
  DEF Repeat, NextIteration, jump, results, TypeOK, cur, FrameInv, BufferInv, PendingInv, Pending,
      CountedOnce, EvidenceInv, Agrees, FailInv, UpInv
<1>17. CASE FinishCase
  <2>1. /\ frame.suite = si /\ frame.slot \notin todo /\ cur \in Case /\ counted[cur] = 0
        /\ frame.slot \in DOMAIN slots[si] /\ si \in Suite
        /\ counted' = [counted EXCEPT ![cur] = 1]
    BY <1>17, <1>facts, SlotFacts DEF FinishCase, FrameInv, TypeOK, CaseFrames
  <2>2. \A s \in Suite : \A j \in DOMAIN slots[s] :
          slots[s][j] = cur => s = si /\ j = frame.slot
    BY <2>1, SlotsDistinct DEF cur
  <2>3. PendingInv'
    BY <1>17, <2>1, <2>2, <1>facts DEF FinishCase, PendingInv, Pending, TypeOK
  <2>. QED
    BY <1>17, <2>1, <2>3, <1>facts, <1>same
    DEF FinishCase, jump, TypeOK, FrameInv, BufferInv, CountedOnce,
        EvidenceInv, Agrees, FailInv, UpInv
<1>18. CASE Summary
  BY <1>18, <1>facts
  DEF Summary, jump, history, FrameInv, BufferInv, PendingInv, Pending,
      CountedOnce, EvidenceInv, Agrees, FailInv, UpInv
<1>19. CASE End /\ ~ Summary
  BY <1>19, <1>facts
  DEF End, EndCase, EndTeardownReturns, EndSuite, EndDone, jump, results, history, FrameInv, BufferInv, PendingInv, Pending,
      CountedOnce, EvidenceInv, Agrees, FailInv, UpInv
<1>20. CASE UNCHANGED vars
  BY <1>20, <1>facts, <1>same
  DEF vars, control, jump, results, history, FrameInv, BufferInv, PendingInv, Pending,
      CountedOnce, EvidenceInv, Agrees, FailInv, UpInv
<1>. QED
  BY <1>1, <1>2, <1>3, <1>4, <1>5, <1>6, <1>7, <1>8, <1>9, <1>10, <1>11, <1>12, <1>13,
     <1>14, <1>15, <1>16, <1>17, <1>18, <1>19, <1>20
  DEF Next, RunAll, RunTest, Assertion, End, Stopped
\* The same, as an invariant of the specification.
LEMMA RunCorrect ==
  ASSUME CatchableFixtures
  PROVE  Spec => [](TypeInv /\ RunInv)
<1>. QED  BY TypeInit, TypeStep, RunInit, RunStep, PTL DEF Spec

\* No case is scored twice, in whatever order the pointers of the filter meet
\* the reordered array.
THEOREM CountedAtMostOnce ==
  ASSUME CatchableFixtures
  PROVE  Spec => []CountedOnce
<1>1. RunInv => CountedOnce
  BY DEF RunInv
<1>. QED  BY RunCorrect, <1>1, PTL

\* The recorded outcome of a case is what its last body and the teardown
\* after it showed: no case passes without an assertion of its own.
THEOREM OutcomesAreTruthful ==
  ASSUME CatchableFixtures
  PROVE  Spec => []OutcomeMatchesEvidence
<1>1. RunInv => OutcomeMatchesEvidence
  BY DEF RunInv, EvidenceInv, OutcomeMatchesEvidence, Agrees
<1>. QED  BY RunCorrect, <1>1, PTL

\* Under fail_fast, a repetition never covers up an earlier failure.
THEOREM FailuresStick ==
  ASSUME CatchableFixtures
  PROVE  Spec => []FailureSticks
<1>1. RunInv => FailureSticks
  BY DEF RunInv, FrameInv, FailInv, FailureSticks, InTest
<1>. QED  BY RunCorrect, <1>1, PTL

\* Between tests, only cases that failed under fail_fast miss a teardown.
THEOREM FixturesArePaired ==
  ASSUME CatchableFixtures
  PROVE  Spec => []FixturesPaired
<1>1. RunInv => FixturesPaired
  BY DEF RunInv, UpInv, FixturesPaired
<1>. QED  BY RunCorrect, <1>1, PTL

\* A failing assertion in a body, or in the teardown of a case with a body,
\* always lands in the run_test of that case.
THEOREM FailuresAlwaysLand ==
  ASSUME CatchableFixtures
  PROVE  Spec => FailuresLand
<1>1. TypeInv /\ RunInv /\ [Next]_vars
        => [(pc \in {"Body", "Teardown"} /\ cur \in HasRun) => pc' # "Undefined"]_vars
  <2>. SUFFICES ASSUME TypeInv, RunInv, Next, pc \in {"Body", "Teardown"}, cur \in HasRun
                PROVE  pc' # "Undefined"
    OBVIOUS
  <2>1. BufferIsLive
    BY DEF RunInv, BufferInv, BufferIsLive, InTest
  <2>. QED
    BY <2>1
    DEF Next, RunAll, RunTest, Assertion, End, Stopped, EmptySuite, EnterSuite,
        SuiteSetupReturns, LeaveSuite, SuiteTeardownReturns, PassOver, SkipCase,
        StartCase, SetupReturns, NothingToRun, BodyReturns, FailFast, Landed, Repeat,
        FinishCase, AssertionHolds, AssertionFails, FixtureJumpsToDeadFrame,
        AssertionJumpsNowhere, BufferIsLive, Summary, EndCase, EndTeardownReturns,
        EndSuite, EndDone, vars, control
<1>. QED  BY RunCorrect, <1>1, PTL DEF Spec, FailuresLand

-----------------------------------------------------------------------------
(***************************************************************************)
(* Nobody is forgotten.  Without a filter every slot is still to come, at  *)
(* work, or counted.                                                       *)
(***************************************************************************)
Unfiltered ==
  /\ pallet.only = Null /\ pallet.test_name = Null
  /\ pallet.name = Null /\ pallet.tag = Null

\* The turn of slot i of suite s is still to come, or now.
NotYet(s, i) ==
  ~ RunOver /\ (Pending(s, i) \/ (InTest /\ s = frame.suite /\ i = frame.slot))

CountingInv ==
  Unfiltered /\ pc # "Undefined" =>
    \A s \in Suite : \A i \in DOMAIN slots[s] :
      NotYet(s, i) \/ counted[slots[s][i]] = 1

\* A step that counts no case, leaves the slots alone and lets no turn go by.
LEMMA CountingKeeps ==
  ASSUME CountingInv, UNCHANGED << pallet, slots, counted >>, pc # "Undefined",
         \A s \in Suite : \A i \in DOMAIN slots[s] : NotYet(s, i) => NotYet(s, i)'
  PROVE  CountingInv'
BY DEF CountingInv, Unfiltered

\* A step that counts the case of slot t, j and lets no other turn go by.
LEMMA CountingCounts ==
  ASSUME TypeInv, CountingInv, UNCHANGED << pallet, slots >>, pc # "Undefined",
         NEW t \in Suite, NEW j \in DOMAIN slots[t],
         counted[slots[t][j]] = 0,
         counted' = [counted EXCEPT ![slots[t][j]] = @ + 1],
         \A s \in Suite : \A i \in DOMAIN slots[s] :
           NotYet(s, i) => NotYet(s, i)' \/ (s = t /\ i = j)
  PROVE  CountingInv'
<1>1. /\ counted \in [Case -> Nat]
      /\ \A s \in Suite : \A i \in DOMAIN slots[s] : slots[s][i] \in Case
  BY SlotFacts DEF TypeInv, TypeOK
<1>2. /\ counted'[slots[t][j]] = 1
      /\ \A c \in Case : counted[c] = 1 => counted'[c] = 1
  BY <1>1
<1>. QED  BY <1>1, <1>2 DEF CountingInv, Unfiltered

\* A case whose turn has passed has been counted, unless the run was cut off.
LEMMA CountingStep ==
  ASSUME CatchableFixtures
  PROVE  TypeInv /\ RunInv /\ CountingInv /\ [Next]_vars => CountingInv'
<1>. SUFFICES ASSUME TypeInv, RunInv, CountingInv, [Next]_vars,
                     Unfiltered, pc' # "Undefined"
              PROVE  CountingInv'
  <2>1. [Next]_vars => UNCHANGED pallet
    BY DEF Next, RunAll, RunTest, Assertion, End, Stopped, EmptySuite, EnterSuite,
           SuiteSetupReturns, LeaveSuite, SuiteTeardownReturns, PassOver, SkipCase,
           StartCase, SetupReturns, NothingToRun, BodyReturns, FailFast, Landed, Repeat,
           FinishCase, AssertionHolds, AssertionFails, FixtureJumpsToDeadFrame,
           AssertionJumpsNowhere, Summary, EndCase, EndTeardownReturns, EndSuite,
           EndDone, vars
  <2>. QED  BY <2>1 DEF CountingInv, Unfiltered
<1>facts. /\ TypeOK /\ SlotsInv /\ LoopInv /\ FrameInv /\ BufferInv /\ PendingInv
          /\ si \in 1 .. NSuites + 1 /\ NSuites \in Nat /\ Suite = 1 .. NSuites
          /\ \A s \in Suite : \A i \in DOMAIN slots[s] : slots[s][i] \in Case /\ i \in Nat
          /\ \A s \in Suite : DOMAIN slots[s] = DOMAIN Registered[s]
  BY SlotFacts, RegistrationAssumption DEF TypeInv, RunInv, TypeOK, Suite
<1>0. pc # "Undefined"
  BY DEF Next, RunAll, RunTest, Assertion, End, Stopped, EmptySuite, EnterSuite,
         SuiteSetupReturns, LeaveSuite, SuiteTeardownReturns, PassOver, SkipCase,
         StartCase, SetupReturns, NothingToRun, BodyReturns, FailFast, Landed, Repeat,
         FinishCase, AssertionHolds, AssertionFails, FixtureJumpsToDeadFrame, MayAssert,
         AssertionJumpsNowhere, BufferIsLive, InTest, Summary, EndCase,
         EndTeardownReturns, EndSuite, EndDone, vars, control
<1>1. CASE EmptySuite \/ SuiteTeardownReturns
  <2>1. /\ UNCHANGED << pallet, slots, counted, todo >> /\ pc' = "NextSuite" /\ si' = si + 1
        /\ ~ InTest /\ (DOMAIN slots[si] = {} \/ (todo = {} /\ pc = "SuiteTeardown"))
    BY <1>1, <1>facts DEF EmptySuite, SuiteTeardownReturns, history, LoopInv, InTest
  <2>2. ASSUME NEW s \in Suite, NEW i \in DOMAIN slots[s], NotYet(s, i) PROVE NotYet(s, i)'
    BY <2>1, <2>2, <1>facts DEF NotYet, Pending, RunOver
  <2>. QED  BY <1>0, <2>1, <2>2, CountingKeeps
<1>2. CASE EnterSuite \/ LeaveSuite
  <2>1. /\ UNCHANGED << pallet, slots, counted, todo, si, frame >> /\ ~ InTest
        /\ \/ pc = "NextSuite" /\ pc' = "SuiteSetup"
           \/ pc = "NextCase" /\ pc' = "SuiteTeardown"
    BY <1>2 DEF EnterSuite, LeaveSuite, history, InTest
  <2>2. ASSUME NEW s \in Suite, NEW i \in DOMAIN slots[s], NotYet(s, i) PROVE NotYet(s, i)'
    BY <2>1, <2>2 DEF NotYet, Pending, RunOver
  <2>. QED  BY <1>0, <2>1, <2>2, CountingKeeps
<1>3. CASE SuiteSetupReturns
  <2>1. /\ pc = "SuiteSetup" /\ pc' = "NextCase" /\ UNCHANGED << pallet, si, counted, frame >>
        /\ ~ InTest /\ si \in Suite /\ todo' = DOMAIN slots[si]
    BY <1>3, <1>facts
    DEF SuiteSetupReturns, FilterCases, Matches, Unfiltered, history, InTest, LoopInv
  <2>2. \A s \in Suite : s # si => slots'[s] = slots[s]
    BY <1>3, <1>facts DEF SuiteSetupReturns, TypeOK
  <2>3. DOMAIN slots'[si] = DOMAIN slots[si]
    <3>1. TypeOK' /\ SlotsInv'
      BY TypeStep DEF TypeInv
    <3>. QED  BY <2>1, <3>1, <1>facts DEF SlotsInv, Arrangements
  <2>4. ASSUME NEW s \in Suite, NEW i \in DOMAIN slots'[s]
        PROVE  NotYet(s, i)' \/ counted'[slots'[s][i]] = 1
    <3>1. CASE s = si
      BY <3>1, <2>1, <2>3, <2>4 DEF NotYet, Pending, RunOver
    <3>2. CASE s # si
      <4>1. slots'[s] = slots[s] /\ (NotYet(s, i) \/ counted[slots[s][i]] = 1)
        BY <2>2, <2>4, <3>2, <1>0 DEF CountingInv
      <4>2. NotYet(s, i) => NotYet(s, i)'
        BY <2>1, <3>2 DEF NotYet, Pending, RunOver
      <4>. QED  BY <4>1, <4>2, <2>1
    <3>. QED  BY <3>1, <3>2
  <2>. QED  BY <2>4 DEF CountingInv
<1>4. ASSUME NEW i \in todo, PassOver(i) \/ SkipCase(i) \/ StartCase(i)
      PROVE  CountingInv'
  <2>1. si \in Suite /\ i \in DOMAIN slots[si] /\ pc = "NextCase"
    BY <1>4, <1>facts DEF PassOver, SkipCase, StartCase, TypeOK, LoopInv, SlotsOf
  <2>2. ~ PassOver(i)
    BY DEF PassOver, Unfiltered
  <2>3. CASE SkipCase(i)
    <3>1. /\ UNCHANGED << pallet, slots, si, frame, pc >> /\ todo' = todo \ {i}
          /\ counted' = [counted EXCEPT ![slots[si][i]] = @ + 1]
      BY <2>3 DEF SkipCase
    <3>2. counted[slots[si][i]] = 0
      BY <2>1, <1>facts DEF PendingInv, Pending, RunOver
    <3>3. ASSUME NEW s \in Suite, NEW k \in DOMAIN slots[s], NotYet(s, k)
          PROVE  NotYet(s, k)' \/ (s = si /\ k = i)
      BY <2>1, <3>1, <3>3 DEF NotYet, Pending, RunOver, InTest
    <3>. QED  BY <1>0, <2>1, <3>1, <3>2, <3>3, CountingCounts
  <2>4. CASE StartCase(i)
    <3>1. /\ UNCHANGED << pallet, slots, si, counted >> /\ todo' = todo \ {i}
          /\ pc' = "Setup" /\ frame'.suite = si /\ frame'.slot = i
      BY <2>4 DEF StartCase
    <3>2. ASSUME NEW s \in Suite, NEW k \in DOMAIN slots[s], NotYet(s, k)
          PROVE  NotYet(s, k)'
      BY <2>1, <3>1, <3>2 DEF NotYet, Pending, RunOver, InTest
    <3>. QED  BY <1>0, <3>1, <3>2, CountingKeeps
  <2>. QED  BY <1>4, <2>2, <2>3, <2>4
<1>5. CASE SetupReturns \/ NothingToRun \/ BodyReturns \/ Landed \/ Repeat \/ AssertionFails
  <2>1. /\ UNCHANGED << pallet, slots, si, todo, counted >> /\ InTest /\ InTest'
        /\ pc' \notin {"NextSuite", "SuiteSetup"} /\ pc \notin {"NextSuite", "SuiteSetup"}
    BY <1>5 DEF SetupReturns, NothingToRun, BodyReturns, Landed, Repeat, AssertionFails,
                NoteFailure, BufferIsLive, InTest
  <2>2. frame'.suite = frame.suite /\ frame'.slot = frame.slot
    <3>1. CASE AssertionFails
      <4>1. buffer.frame = frame
        BY <3>1, <1>facts, CatchableFixtures
        DEF AssertionFails, BufferIsLive, MayAssert, CatchableFixtures, BufferInv, InTest
      <4>. QED  BY <3>1, <4>1 DEF AssertionFails
    <3>2. CASE ~ AssertionFails
      BY <1>5, <3>2, <1>facts
      DEF SetupReturns, NothingToRun, BodyReturns, Landed, Repeat, TypeOK, Frames
    <3>. QED  BY <3>1, <3>2
  <2>3. ASSUME NEW s \in Suite, NEW i \in DOMAIN slots[s], NotYet(s, i) PROVE NotYet(s, i)'
    BY <2>1, <2>2, <2>3 DEF NotYet, Pending, RunOver, InTest
  <2>. QED  BY <1>0, <2>1, <2>3, CountingKeeps
<1>6. CASE FailFast \/ FinishCase
  <2>1. /\ UNCHANGED << pallet, slots, si, todo, frame >> /\ InTest /\ pc' = "NextCase"
        /\ counted' = [counted EXCEPT ![cur] = @ + 1]
    BY <1>6 DEF FailFast, FinishCase, InTest
  <2>2. /\ frame.suite \in Suite /\ frame.slot \in DOMAIN slots[frame.suite]
        /\ counted[cur] = 0
    BY <2>1, <1>facts DEF FrameInv, TypeOK, CaseFrames
  <2>3. ASSUME NEW s \in Suite, NEW i \in DOMAIN slots[s], NotYet(s, i)
        PROVE  NotYet(s, i)' \/ (s = frame.suite /\ i = frame.slot)
    BY <2>1, <2>3 DEF NotYet, Pending, RunOver, InTest
  <2>. QED  BY <1>0, <2>1, <2>2, <2>3, CountingCounts DEF cur
<1>7. CASE Summary
  <2>1. UNCHANGED << pallet, slots, counted >> /\ pc = "NextSuite" /\ si \notin Suite
    BY <1>7 DEF Summary, history
  <2>2. ASSUME NEW s \in Suite, NEW i \in DOMAIN slots[s] PROVE ~ NotYet(s, i)
    BY <2>1, <1>facts DEF NotYet, Pending, InTest
  <2>. QED  BY <1>0, <2>1, <2>2, CountingKeeps
<1>8. CASE End /\ ~ Summary
  <2>1. UNCHANGED << pallet, slots, counted >> /\ RunOver
    BY <1>8 DEF End, EndCase, EndTeardownReturns, EndSuite, EndDone, history, RunOver
  <2>2. ASSUME NEW s \in Suite, NEW i \in DOMAIN slots[s] PROVE ~ NotYet(s, i)
    BY <2>1 DEF NotYet
  <2>. QED  BY <1>0, <2>1, <2>2, CountingKeeps
<1>9. CASE AssertionHolds \/ UNCHANGED vars
  <2>1. UNCHANGED << pallet, slots, counted, pc, si, todo, frame >>
    BY <1>9 DEF AssertionHolds, vars, control, history
  <2>2. ASSUME NEW s \in Suite, NEW i \in DOMAIN slots[s], NotYet(s, i) PROVE NotYet(s, i)'
    BY <2>1, <2>2 DEF NotYet, Pending, RunOver, InTest
  <2>. QED  BY <1>0, <2>1, <2>2, CountingKeeps
<1>10. ~ AssertionJumpsNowhere /\ ~ FixtureJumpsToDeadFrame
  BY <1>facts, CatchableFixtures
  DEF AssertionJumpsNowhere, FixtureJumpsToDeadFrame, MayAssert, CatchableFixtures, BufferInv
<1>. QED
  BY <1>1, <1>2, <1>3, <1>4, <1>5, <1>6, <1>7, <1>8, <1>9, <1>10
  DEF Next, RunAll, RunTest, Assertion, Stopped

\* Without a filter every case of every suite is in the results once the run
\* is over: none is lost between the filter, the reordered array, the jumps
\* and the early returns.
THEOREM NobodyIsForgotten ==
  ASSUME CatchableFixtures
  PROVE  Spec => []NobodyForgotten
<1>1. Init => CountingInv
  <2>. SUFFICES ASSUME Init, NEW s \in Suite, NEW i \in DOMAIN slots[s]
                PROVE  NotYet(s, i)
    BY DEF CountingInv
  <2>1. si = 1 /\ pc = "NextSuite" /\ s \in 1 .. NSuites /\ NSuites \in Nat
    BY RegistrationAssumption DEF Init, Suite
  <2>. QED  BY <2>1 DEF NotYet, Pending, RunOver
<1>2. TypeInv /\ CountingInv => NobodyForgotten
  <2>. SUFFICES ASSUME TypeInv, CountingInv, pc \in {"End", "EndTeardown", "Done"},
                       Unfiltered, NEW c \in AllCases
                PROVE  counted[c] = 1
    BY DEF NobodyForgotten, Unfiltered
  <2>1. PICK s \in Suite : \E i \in DOMAIN slots[s] : slots[s][i] = c
    BY SlotsHoldAllCases
  <2>. QED  BY <2>1 DEF CountingInv, NotYet, RunOver
<1>. QED  BY RunCorrect, CountingStep, <1>1, <1>2, PTL DEF Spec

-----------------------------------------------------------------------------
(***************************************************************************)
(* The score, the summary and the abstract run.                            *)
(***************************************************************************)

\* The cases of suite s that were scored with outcome v.
Scored(s, v) == {c \in ScoredCases(s) : state[c] = v}

\* What ScoreMatchesStates says, and that the counter of EMPTY never moves.
ScoreInv ==
  \A s \in Suite :
    /\ tally[s].score["EMPTY"] = 0
    /\ \A v \in CaseState \ {"EMPTY"} : tally[s].score[v] = Cardinality(Scored(s, v))

\* The cases of a suite are cases, and no other suite has them.
LEMMA RegisteredFacts ==
  /\ \A s \in Suite : Range(Registered[s]) \subseteq Case
  /\ \A s, t \in Suite : \A c \in Range(Registered[s]) :
       c \in Range(Registered[t]) => s = t
<1>1. ASSUME NEW s \in Suite PROVE Range(Registered[s]) \subseteq Case
  <2>1. Registered[s] \in Seq(Case)
    BY RegistrationAssumption
  <2>. QED  BY <2>1 DEF Range
<1>. QED  BY <1>1, RegistrationAssumption

\* A step that counts no case and leaves the state of counted ones alone.
LEMMA ScoreKeeps ==
  ASSUME ScoreInv, UNCHANGED tally,
         \A c \in Case : counted'[c] = 1 <=> counted[c] = 1,
         \A c \in Case : counted[c] = 1 => state'[c] = state[c]
  PROVE  ScoreInv'
<1>1. ASSUME NEW s \in Suite, NEW v \in CaseState PROVE Scored(s, v)' = Scored(s, v)
  BY RegisteredFacts DEF Scored, ScoredCases
<1>. QED  BY <1>1 DEF ScoreInv

\* A step that scores one case.
LEMMA ScoreSteps ==
  ASSUME TypeOK, ScoreInv,
         NEW s \in Suite, NEW c \in Range(Registered[s]), NEW v \in CaseState,
         counted[c] = 0,
         counted' = [counted EXCEPT ![c] = 1],
         state' = [state EXCEPT ![c] = v],
         tally' = [tally EXCEPT ![s] = UpdateScore(@, v)]
  PROVE  ScoreInv'
<1>1. c \in Case /\ counted \in [Case -> Nat] /\ state \in [Case -> CaseState]
      /\ tally \in [Suite -> Tallies]
  BY RegisteredFacts DEF TypeOK
<1>2. ASSUME NEW t \in Suite, NEW w \in CaseState, t # s \/ w # v
      PROVE  Scored(t, w)' = Scored(t, w)
  BY <1>1, <1>2, RegisteredFacts DEF Scored, ScoredCases
<1>3. Scored(s, v)' = Scored(s, v) \cup {c} /\ c \notin Scored(s, v)
  BY <1>1, RegisteredFacts DEF Scored, ScoredCases
<1>4. Cardinality(Scored(s, v)') = Cardinality(Scored(s, v)) + 1
  <2>1. IsFiniteSet(Scored(s, v))
    BY SuiteFinite, FS_Subset DEF Scored, ScoredCases
  <2>. QED  BY <1>3, <2>1, FS_AddElement
<1>5. \A t \in Suite : t # s => tally'[t] = tally[t]
  BY <1>1
<1>6. tally'[s].score = Count(tally[s].score, v) /\ tally[s].score \in Scores
  BY <1>1 DEF UpdateScore, Tallies
<1>7. /\ v = "EMPTY" => tally'[s].score = tally[s].score
      /\ v # "EMPTY" => tally'[s].score[v] = tally[s].score[v] + 1
      /\ \A w \in CaseState : w # v => tally'[s].score[w] = tally[s].score[w]
  BY <1>6 DEF Count, Scores
<1>8. ASSUME NEW t \in Suite
      PROVE  /\ tally'[t].score["EMPTY"] = 0
             /\ \A w \in CaseState \ {"EMPTY"} : tally'[t].score[w] = Cardinality(Scored(t, w)')
  <2>1. CASE t # s
    BY <1>2, <1>5, <2>1 DEF ScoreInv
  <2>2. CASE t = s
    <3>1. tally'[s].score["EMPTY"] = 0
      BY <1>7 DEF ScoreInv, CaseState
    <3>2. ASSUME NEW w \in CaseState \ {"EMPTY"}
          PROVE  tally'[s].score[w] = Cardinality(Scored(s, w)')
      <4>1. CASE w = v
        BY <1>4, <1>7, <4>1 DEF ScoreInv
      <4>2. CASE w # v
        BY <1>2, <1>7, <4>2 DEF ScoreInv
      <4>. QED  BY <4>1, <4>2
    <3>. QED  BY <2>2, <3>1, <3>2
  <2>. QED  BY <2>1, <2>2
<1>. QED  BY <1>8 DEF ScoreInv

\* No case is scored in the beginning.
LEMMA ScoreInit == Init => ScoreInv
<1>. SUFFICES ASSUME Init PROVE ScoreInv
  OBVIOUS
<1>1. \A s \in Suite, v \in CaseState : Scored(s, v) = {}
  BY RegisteredFacts DEF Init, Scored, ScoredCases
<1>. QED
  BY <1>1, FS_EmptySet DEF Init, ScoreInv, ZeroTally, ZeroScore, CaseState

\* A case that has its slot in suite s belongs to it.
LEMMA SlotsAreRegistered ==
  ASSUME SlotsInv, NEW s \in Suite, NEW i \in DOMAIN slots[s]
  PROVE  slots[s][i] \in Range(Registered[s])
BY DEF SlotsInv, Arrangements

\* What the three steps that score a case do: c is a case of the open suite
\* without an outcome, and v is its outcome from now on.
ScoresCase(c, v) ==
  /\ si \in Suite
  /\ c \in Range(Registered[si])
  /\ counted[c] = 0
  /\ counted' = [counted EXCEPT ![c] = 1]
  /\ state' = [state EXCEPT ![c] = v]
  /\ tally' = [tally EXCEPT ![si] = UpdateScore(@, v)]
  /\ UNCHANGED << si, engine, summary >>

\* A case is scored when it is skipped, when fail_fast stops at it, and when
\* run_test is done with it, and in no other step.
LEMMA ScoringSteps ==
  ASSUME TypeInv, RunInv
  PROVE  (\E i \in todo : SkipCase(i)) \/ FailFast \/ FinishCase
           => \E c \in Case, v \in CaseState : ScoresCase(c, v)
<1>facts. /\ TypeOK /\ SlotsInv /\ LoopInv /\ FrameInv /\ PendingInv
          /\ counted \in [Case -> Nat] /\ state \in [Case -> CaseState]
  BY DEF TypeInv, RunInv, TypeOK
<1>1. ASSUME NEW i \in todo, SkipCase(i)
      PROVE  ScoresCase(slots[si][i], "SKIPPED")
  <2>1. si \in Suite /\ i \in DOMAIN slots[si] /\ pc = "NextCase"
    BY <1>1, <1>facts DEF SkipCase, LoopInv, TypeOK, SlotsOf
  <2>2. counted[slots[si][i]] = 0
    BY <2>1, <1>facts DEF PendingInv, Pending, RunOver
  <2>3. slots[si][i] \in Range(Registered[si])
    BY <2>1, <1>facts, SlotsAreRegistered
  <2>. QED  BY <1>1, <1>facts, <2>1, <2>2, <2>3, RegisteredFacts DEF SkipCase, ScoresCase
<1>2. ASSUME InTest
      PROVE  /\ si \in Suite /\ frame.suite = si
             /\ cur \in Range(Registered[si]) /\ counted[cur] = 0 /\ cur \in Case
  <2>1. frame \in CaseFrames /\ frame.suite = si /\ counted[cur] = 0
    BY <1>2, <1>facts DEF FrameInv, TypeOK
  <2>2. si \in Suite /\ frame.slot \in DOMAIN slots[si]
    BY <2>1, <1>facts, SlotFacts DEF CaseFrames
  <2>. QED  BY <2>1, <2>2, <1>facts, SlotsAreRegistered, RegisteredFacts DEF cur
<1>3. ASSUME FailFast PROVE ScoresCase(cur, "FAIL")
  <2>1. InTest
    BY <1>3 DEF FailFast, InTest
  <2>2. counted' = [counted EXCEPT ![cur] = 1]
    <3>1. counted[cur] + 1 = 1
      BY <1>2, <2>1
    <3>. QED  BY <1>3, <3>1 DEF FailFast
  <2>3. tally' = [tally EXCEPT ![si] = UpdateScore(@, "FAIL")]
    BY <1>2, <1>3, <2>1 DEF FailFast
  <2>. QED  BY <1>2, <1>3, <2>1, <2>2, <2>3 DEF FailFast, ScoresCase
<1>4. ASSUME FinishCase PROVE ScoresCase(cur, state[cur])
  <2>1. InTest
    BY <1>4 DEF FinishCase, InTest
  <2>2. state' = [state EXCEPT ![cur] = state[cur]]
    BY <1>4, <1>facts DEF FinishCase
  <2>3. counted' = [counted EXCEPT ![cur] = 1]
    <3>1. counted[cur] + 1 = 1
      BY <1>2, <2>1
    <3>. QED  BY <1>4, <3>1 DEF FinishCase
  <2>4. tally' = [tally EXCEPT ![si] = UpdateScore(@, state[cur])]
    BY <1>2, <1>4, <2>1 DEF FinishCase
  <2>. QED  BY <1>2, <1>4, <2>1, <2>2, <2>3, <2>4 DEF FinishCase, ScoresCase
<1>. QED
  <2>1. "SKIPPED" \in CaseState /\ "FAIL" \in CaseState
    BY DEF CaseState
  <2>2. ASSUME NEW i \in todo, SkipCase(i) PROVE slots[si][i] \in Case
    BY <1>1, <2>2, RegisteredFacts DEF ScoresCase
  <2>3. FailFast \/ FinishCase => cur \in Case /\ state[cur] \in CaseState
    BY <1>2, <1>facts DEF FailFast, FinishCase, InTest
  <2>. QED  BY <1>1, <1>3, <1>4, <2>1, <2>2, <2>3

\* The other steps change the state of uncounted cases only.
LEMMA QuietSteps ==
  ASSUME TypeInv, RunInv, [Next]_vars,
         ~ \E i \in todo : SkipCase(i), ~ FailFast, ~ FinishCase
  PROVE  /\ UNCHANGED counted
         /\ \A c \in Case : counted[c] > 0 => state'[c] = state[c]
<1>facts. /\ state \in [Case -> CaseState]
          /\ InTest => counted[cur] = 0 /\ cur \in Case
  BY SlotFacts DEF TypeInv, RunInv, TypeOK, FrameInv, cur
<1>1. CASE SetupReturns \/ NothingToRun \/ BodyReturns \/ Landed
  BY <1>1, <1>facts DEF SetupReturns, NothingToRun, BodyReturns, Landed, InTest
<1>2. CASE UNCHANGED << counted, state >>
  BY <1>2
<1>. QED
  BY <1>1, <1>2
  DEF Next, RunAll, RunTest, Assertion, End, Stopped, EmptySuite, EnterSuite,
      SuiteSetupReturns, LeaveSuite, SuiteTeardownReturns, PassOver, StartCase, Repeat,
      AssertionHolds, AssertionFails, FixtureJumpsToDeadFrame, AssertionJumpsNowhere,
      NoteFailure, Summary, EndCase, EndTeardownReturns, EndSuite, EndDone,
      vars, results, history

\* Every step keeps the census.
LEMMA ScoreStep == TypeInv /\ RunInv /\ ScoreInv /\ [Next]_vars => ScoreInv'
<1>. SUFFICES ASSUME TypeInv, RunInv, ScoreInv, [Next]_vars PROVE ScoreInv'
  OBVIOUS
<1>1. CASE (\E i \in todo : SkipCase(i)) \/ FailFast \/ FinishCase
  <2>1. PICK c \in Case, v \in CaseState : ScoresCase(c, v)
    BY <1>1, ScoringSteps
  <2>. QED  BY <2>1, ScoreSteps DEF ScoresCase, TypeInv
<1>2. CASE SuiteSetupReturns
  <2>1. si \in Suite /\ UNCHANGED << si, counted, state >>
    BY <1>2 DEF SuiteSetupReturns, TypeInv, LoopInv, history
  <2>2. \A i \in DOMAIN slots[si] : counted[slots[si][i]] = 0
    BY <1>2, <2>1 DEF SuiteSetupReturns, RunInv, PendingInv, Pending, RunOver
  <2>3. \A c \in Range(Registered[si]) : counted[c] = 0
    <3>1. Range(slots[si]) = Range(Registered[si])
      BY <2>1, ArrangementsAreOnto DEF TypeInv, SlotsInv
    <3>. QED  BY <2>2, <3>1 DEF Range
  <2>4. \A v \in CaseState : Scored(si, v)' = {}
    BY <2>1, <2>3 DEF Scored, ScoredCases
  <2>5. \A s \in Suite : s # si =>
          /\ tally'[s] = tally[s]
          /\ \A v \in CaseState : Scored(s, v)' = Scored(s, v)
    BY <1>2, <2>1 DEF SuiteSetupReturns, TypeInv, TypeOK, Scored, ScoredCases
  <2>6. tally'[si] = ZeroTally
    BY <1>2, <2>1 DEF SuiteSetupReturns, TypeInv, TypeOK
  <2>7. \A s \in Suite : s # si =>
          /\ tally'[s].score["EMPTY"] = 0
          /\ \A v \in CaseState \ {"EMPTY"} : tally'[s].score[v] = Cardinality(Scored(s, v)')
    BY <2>5 DEF ScoreInv
  <2>8. /\ tally'[si].score["EMPTY"] = 0
        /\ \A v \in CaseState \ {"EMPTY"} : tally'[si].score[v] = Cardinality(Scored(si, v)')
    BY <2>4, <2>6, FS_EmptySet DEF ZeroTally, ZeroScore, CaseState
  <2>. QED  BY <2>1, <2>7, <2>8 DEF ScoreInv
<1>3. CASE UNCHANGED tally /\ UNCHANGED counted
             /\ \A c \in Case : counted[c] > 0 => state'[c] = state[c]
  BY <1>3, ScoreKeeps
<1>. QED
  <2>1. CASE ~ ((\E i \in todo : SkipCase(i)) \/ FailFast \/ FinishCase) /\ ~ SuiteSetupReturns
    <3>1. UNCHANGED tally
      BY <2>1
      DEF Next, RunAll, RunTest, Assertion, End, Stopped, EmptySuite, EnterSuite,
          LeaveSuite, SuiteTeardownReturns, PassOver, StartCase, SetupReturns,
          NothingToRun, BodyReturns, Landed, Repeat, AssertionHolds, AssertionFails,
          FixtureJumpsToDeadFrame, AssertionJumpsNowhere, Summary, EndCase,
          EndTeardownReturns, EndSuite, EndDone, vars, results
    <3>. QED  BY <1>3, <2>1, <3>1, QuietSteps
  <2>. QED  BY <1>1, <1>2, <2>1

\* The census holds of every execution.
LEMMA ScoreCorrect ==
  ASSUME CatchableFixtures
  PROVE  Spec => [](TypeInv /\ RunInv /\ ScoreInv)
<1>. QED  BY TypeInit, TypeStep, RunInit, RunStep, ScoreInit, ScoreStep, PTL DEF Spec

\* Two finite sets without a common element have together as many as each.
LEMMA DisjointUnion ==
  ASSUME NEW S, NEW T, IsFiniteSet(S), IsFiniteSet(T), S \cap T = {}
  PROVE  IsFiniteSet(S \cup T) /\ Cardinality(S \cup T) = Cardinality(S) + Cardinality(T)
<1>1. Cardinality(S) \in Nat /\ Cardinality(T) \in Nat
  BY FS_CardinalityType
<1>2. Cardinality(S \cap T) = 0
  BY FS_EmptySet
<1>3. /\ IsFiniteSet(S \cup T)
      /\ Cardinality(S \cup T)
           = Cardinality(S) + Cardinality(T) - Cardinality(S \cap T)
  BY FS_Union
<1>. QED  BY <1>1, <1>2, <1>3

\* The scored cases that are not EMPTY are as many as the outcomes add up to.
LEMMA OutcomesAddUp ==
  ASSUME TypeOK, NEW s \in Suite
  PROVE  Cardinality({c \in ScoredCases(s) : state[c] # "EMPTY"})
           = Cardinality(Scored(s, "PASS")) + Cardinality(Scored(s, "FAIL"))
             + Cardinality(Scored(s, "TIMEOUT")) + Cardinality(Scored(s, "SKIPPED"))
             + Cardinality(Scored(s, "UNEXPECTED"))
<1>. DEFINE P == Scored(s, "PASS")  F == Scored(s, "FAIL")  T == Scored(s, "TIMEOUT")
            K == Scored(s, "SKIPPED")  U == Scored(s, "UNEXPECTED")
<1>1. \A v : IsFiniteSet(Scored(s, v))
  BY SuiteFinite, FS_Subset DEF Scored, ScoredCases
<1>2. \A c \in ScoredCases(s) : state[c] \in CaseState
  BY RegisteredFacts DEF ScoredCases, TypeOK
<1>3. {c \in ScoredCases(s) : state[c] # "EMPTY"} = P \cup F \cup T \cup K \cup U
  BY <1>2 DEF Scored, CaseState
<1>4. /\ P \cap F = {} /\ (P \cup F) \cap T = {} /\ (P \cup F \cup T) \cap K = {}
      /\ (P \cup F \cup T \cup K) \cap U = {}
  BY DEF Scored
<1>5. IsFiniteSet(P) /\ IsFiniteSet(F) /\ IsFiniteSet(T) /\ IsFiniteSet(K) /\ IsFiniteSet(U)
  BY <1>1
<1>. HIDE DEF P, F, T, K, U
<1>6. IsFiniteSet(P \cup F) /\ Cardinality(P \cup F) = Cardinality(P) + Cardinality(F)
  BY <1>4, <1>5, DisjointUnion
<1>7. /\ IsFiniteSet(P \cup F \cup T)
      /\ Cardinality(P \cup F \cup T) = Cardinality(P \cup F) + Cardinality(T)
  BY <1>4, <1>5, <1>6, DisjointUnion
<1>8. /\ IsFiniteSet(P \cup F \cup T \cup K)
      /\ Cardinality(P \cup F \cup T \cup K) = Cardinality(P \cup F \cup T) + Cardinality(K)
  BY <1>4, <1>5, <1>7, DisjointUnion
<1>9. Cardinality(P \cup F \cup T \cup K \cup U)
        = Cardinality(P \cup F \cup T \cup K) + Cardinality(U)
  BY <1>4, <1>5, <1>8, DisjointUnion
<1>10. Cardinality(P \cup F \cup T \cup K \cup U)
         = Cardinality(P) + Cardinality(F) + Cardinality(T) + Cardinality(K) + Cardinality(U)
  BY <1>6, <1>7, <1>8, <1>9
<1>. QED  BY <1>3, <1>10 DEF P, F, T, K, U

\* At every moment the counters for PASS, FAIL, TIMEOUT, SKIPPED and UNEXPECTED
\* of every suite are the numbers of its scored cases with that outcome, and
\* total_possible is the number of its scored cases that are not EMPTY: no
\* outcome is overwritten after the count.  EmptyIsNeverCounted is about the
\* sixth counter.
THEOREM ScoreIsTheCensus ==
  ASSUME CatchableFixtures
  PROVE  Spec => []ScoreMatchesStates
<1>1. TypeInv /\ ScoreInv /\ TotalsInv => ScoreMatchesStates
  <2>. SUFFICES ASSUME TypeInv, ScoreInv, TotalsInv, NEW s \in Suite
                PROVE  /\ \A v \in CaseState \ {"EMPTY"} :
                            tally[s].score[v] = Cardinality(Scored(s, v))
                       /\ tally[s].total_possible
                            = Cardinality({c \in ScoredCases(s) : state[c] # "EMPTY"})
    BY DEF Scored, ScoreMatchesStates
  <2>1. \A v \in CaseState \ {"EMPTY"} : tally[s].score[v] = Cardinality(Scored(s, v))
    BY DEF ScoreInv
  <2>2. tally[s].score["EMPTY"] = 0 /\ tally[s].score \in [CaseState -> Nat]
    BY DEF ScoreInv, TypeInv, TypeOK, Tallies, Scores
  <2>3. tally[s].total_possible
          = tally[s].score["PASS"] + tally[s].score["FAIL"] + tally[s].score["TIMEOUT"]
            + tally[s].score["SKIPPED"] + tally[s].score["UNEXPECTED"]
    BY <2>2 DEF TotalsInv, Agree, Possible, CaseState
  <2>4. tally[s].total_possible
          = Cardinality({c \in ScoredCases(s) : state[c] # "EMPTY"})
    BY <2>1, <2>3, OutcomesAddUp DEF TypeInv, CaseState
  <2>. QED  BY <2>1, <2>4
<1>2. Init => TotalsInv
  BY AgreeSteps DEF Init, TotalsInv
<1>. QED  BY ScoreCorrect, TypeInit, TypeStep, TotalsStep, <1>1, <1>2, PTL DEF Spec

\* The counter of EMPTY is the number of EMPTY cases exactly when there are none
\* of them among the scored ones: update_score never steps it.
THEOREM EmptyIsNeverCounted ==
  ASSUME CatchableFixtures
  PROVE  Spec => [](EmptyIsCounted
                      <=> \A s \in Suite : \A c \in ScoredCases(s) : state[c] # "EMPTY")
<1>1. ASSUME ScoreInv
      PROVE  EmptyIsCounted
               <=> \A s \in Suite : \A c \in ScoredCases(s) : state[c] # "EMPTY"
  <2>1. EmptyIsCounted <=> \A s \in Suite : Cardinality(Scored(s, "EMPTY")) = 0
    BY <1>1 DEF ScoreInv, EmptyIsCounted, Scored
  <2>2. ASSUME NEW s \in Suite
        PROVE  /\ Cardinality(Scored(s, "EMPTY")) = 0 <=> Scored(s, "EMPTY") = {}
               /\ Scored(s, "EMPTY") = {}
                    <=> \A c \in ScoredCases(s) : state[c] # "EMPTY"
    <3>1. IsFiniteSet(Scored(s, "EMPTY"))
      BY SuiteFinite, FS_Subset DEF Scored, ScoredCases
    <3>2. Cardinality(Scored(s, "EMPTY")) = 0 <=> Scored(s, "EMPTY") = {}
      BY <3>1, FS_EmptySet
    <3>3. Scored(s, "EMPTY") = {} <=> \A c \in ScoredCases(s) : state[c] # "EMPTY"
      BY DEF Scored
    <3>. QED  BY <3>2, <3>3
  <2>. QED  BY <2>1, <2>2
<1>. QED  BY ScoreCorrect, <1>1, PTL

-----------------------------------------------------------------------------
(***************************************************************************)
(* The refinement.                                                         *)
(***************************************************************************)

\* What Verdicts and Runner both take from Score and FiniteSets is the same.
LEMMA SharedDefinitions ==
  /\ V!CaseState = CaseState
  /\ \A S : V!Cardinality(S) = Cardinality(S)
<1>1. V!CaseState = CaseState
  BY DEF V!CaseState, CaseState
<1>2. \A S : V!Cardinality(S) = Cardinality(S)
  BY DEF V!Cardinality, Cardinality
<1>. QED  BY <1>1, <1>2

\* The verdict of a case, as V maps it.
VerdictOf == [c \in Case |-> IF counted[c] > 0 THEN state[c] ELSE "pending"]

\* Verdicts has one group for each suite.
LEMMA NumberOfGroups == V!NGroups = NSuites
<1>. DEFINE G == [s \in Suite |-> Range(Registered[s])]
<1>1. NSuites \in Nat /\ Suite = 1 .. NSuites
  BY RegistrationAssumption DEF Suite
<1>2. G \in Seq({Range(Registered[s]) : s \in Suite}) /\ Len(G) = NSuites
  BY <1>1
<1>. QED  BY <1>2 DEF V!NGroups

\* The census Verdicts takes of a suite is the score the suite has kept.
LEMMA CensusIsScore ==
  ASSUME TypeOK, CountedOnce, ScoreInv, NEW s \in Suite
  PROVE  V!Census(s) = tally[s].score
<1>1. /\ counted \in [Case -> Nat] /\ tally[s].score \in [CaseState -> Nat]
      /\ Range(Registered[s]) \subseteq Case
      /\ \A c \in Case : counted[c] <= 1
  BY RegisteredFacts DEF TypeOK, Tallies, Scores, CountedOnce
<1>2. ASSUME NEW v \in CaseState
      PROVE  {c \in Range(Registered[s]) : VerdictOf[c] = v} = Scored(s, v)
  <2>1. v # "pending"
    BY DEF CaseState
  <2>2. ASSUME NEW c \in Range(Registered[s])
        PROVE  VerdictOf[c] = v <=> counted[c] = 1 /\ state[c] = v
    <3>1. c \in Case /\ counted[c] \in Nat /\ (counted[c] > 0 <=> counted[c] = 1)
      BY <1>1
    <3>. QED  BY <2>1, <3>1 DEF VerdictOf
  <2>. QED  BY <2>2 DEF Scored, ScoredCases
<1>3. V!Census(s) = [v \in CaseState |->
                       IF v = "EMPTY" THEN 0 ELSE Cardinality(Scored(s, v))]
  <2>1. V!Census(s) = [v \in CaseState |->
                         IF v = "EMPTY" THEN 0
                         ELSE Cardinality({c \in Range(Registered[s]) : VerdictOf[c] = v})]
    BY SharedDefinitions DEF V!Census, VerdictOf
  <2>. QED  BY <1>2, <2>1
<1>4. \A v \in CaseState :
        tally[s].score[v] = IF v = "EMPTY" THEN 0 ELSE Cardinality(Scored(s, v))
  BY DEF ScoreInv
<1>. QED  BY <1>1, <1>3, <1>4

\* The summary is made when the last suite is closed, and not before.
SummaryInv ==
  /\ ~ RunOver => summary = Null
  /\ pc \in {"End", "EndTeardown"} => summary # Null

\* Every step keeps the summary to the end of the last suite.
LEMMA SummaryStep == TypeInv /\ SummaryInv /\ [Next]_vars => SummaryInv'
<1>. SUFFICES ASSUME TypeInv, SummaryInv, [Next]_vars PROVE SummaryInv'
  OBVIOUS
<1>1. CASE Summary
  <2>1. SummaryFeedback(engine.score) # Null
    BY FeedbackType, OptionAssumption
  <2>. QED  BY <1>1, <2>1 DEF Summary, SummaryInv, RunOver
<1>2. CASE AssertionJumpsNowhere
  BY <1>2 DEF AssertionJumpsNowhere, SummaryInv, RunOver
<1>3. CASE End /\ ~ Summary
  BY <1>3
  DEF End, EndCase, EndTeardownReturns, EndSuite, EndDone, results, SummaryInv, RunOver
<1>4. CASE FixtureJumpsToDeadFrame
  BY <1>4 DEF FixtureJumpsToDeadFrame, results, SummaryInv, RunOver
<1>5. CASE AssertionHolds \/ AssertionFails
  BY <1>5 DEF AssertionHolds, AssertionFails, BufferIsLive, InTest, control, results,
              SummaryInv, RunOver
<1>6. CASE RunAll \/ RunTest \/ UNCHANGED vars
  <2>1. UNCHANGED << summary >>
    BY <1>6
    DEF RunAll, RunTest, EmptySuite, EnterSuite, SuiteSetupReturns, LeaveSuite,
        SuiteTeardownReturns, PassOver, SkipCase, StartCase, SetupReturns, NothingToRun,
        BodyReturns, FailFast, Landed, Repeat, FinishCase, vars, results
  <2>2. (~ RunOver /\ ~ RunOver') \/ UNCHANGED pc
    BY <1>6
    DEF RunOver, RunAll, RunTest, EmptySuite, EnterSuite, SuiteSetupReturns, LeaveSuite,
        SuiteTeardownReturns, PassOver, SkipCase, StartCase, SetupReturns, NothingToRun,
        BodyReturns, FailFast, Landed, Repeat, FinishCase, vars, control
  <2>. QED  BY <2>1, <2>2 DEF SummaryInv, RunOver
<1>. QED
  BY <1>1, <1>2, <1>3, <1>4, <1>5, <1>6 DEF Next, Assertion, Stopped

\* The suite being judged, as V maps it.
OpenOf == IF summary = Null THEN si ELSE NSuites + 1

\* Initial states of the engine are initial states of Verdicts.
LEMMA RefineInit == Init => V!Init
<1>. SUFFICES ASSUME Init PROVE V!Init
  OBVIOUS
<1>1. VerdictOf = [c \in Case |-> "pending"]
  BY DEF Init, VerdictOf
<1>2. OpenOf = 1 /\ engine.score = ZeroScore
  BY DEF Init, OpenOf, ZeroTally
<1>. QED  BY <1>1, <1>2, SharedDefinitions DEF V!Init, VerdictOf, OpenOf, ZeroScore

\* A step that scores a case is a verdict on a case of the open suite.
LEMMA RefineScoring ==
  ASSUME TypeInv, RunInv, SummaryInv, ~ RunOver,
         NEW c \in Case, NEW v \in CaseState, ScoresCase(c, v)
  PROVE  V!Judge(c, v)
<1>1. OpenOf = si /\ OpenOf' = si /\ si \in 1 .. NSuites
  BY DEF SummaryInv, OpenOf, ScoresCase, Suite
<1>2. VerdictOf[c] = "pending"
  BY DEF VerdictOf, ScoresCase
<1>3. VerdictOf' = [VerdictOf EXCEPT ![c] = v]
  <2>1. counted \in [Case -> Nat] /\ state \in [Case -> CaseState]
    BY DEF TypeInv, TypeOK
  <2>2. /\ counted' \in [Case -> Nat] /\ state' \in [Case -> CaseState]
        /\ counted'[c] = 1 /\ state'[c] = v
        /\ \A d \in Case : d # c => counted'[d] = counted[d] /\ state'[d] = state[d]
    BY <2>1 DEF ScoresCase
  <2>3. counted'[c] > 0
    BY <2>2
  <2>. QED  BY <2>2, <2>3 DEF VerdictOf
<1>4. c \in [s \in Suite |-> Range(Registered[s])][si]
  BY DEF ScoresCase
<1>. QED
  BY <1>1, <1>2, <1>3, <1>4, NumberOfGroups
  DEF V!Judge, VerdictOf, OpenOf, ScoresCase

\* The end of a suite closes it.
LEMMA RefineClosing ==
  ASSUME TypeInv, RunInv, ScoreInv, SummaryInv, EmptySuite \/ SuiteTeardownReturns
  PROVE  V!Close
<1>1. /\ si \in Suite /\ si' = si + 1 /\ engine' = AddTally(engine, tally[si])
      /\ UNCHANGED << counted, state, summary >> /\ ~ RunOver
  BY DEF EmptySuite, SuiteTeardownReturns, TypeInv, LoopInv, history, RunOver
<1>2. OpenOf = si /\ OpenOf' = si + 1
  BY <1>1 DEF SummaryInv, OpenOf
<1>3. engine'.score = [v \in CaseState |-> engine.score[v] + V!Census(si)[v]]
  <2>1. V!Census(si) = tally[si].score
    BY <1>1, CensusIsScore DEF TypeInv, RunInv
  <2>2. engine'.score = AddScores(engine.score, tally[si].score)
    BY <1>1 DEF AddTally
  <2>. QED  BY <2>1, <2>2 DEF AddScores
<1>4. VerdictOf' = VerdictOf
  BY <1>1 DEF VerdictOf
<1>. QED
  BY <1>1, <1>2, <1>3, <1>4, NumberOfGroups, SharedDefinitions DEF V!Close, VerdictOf, OpenOf, Suite

\* No other step shows in Verdicts.
LEMMA RefineQuiet ==
  ASSUME TypeInv, RunInv, SummaryInv, [Next]_vars,
         ~ \E i \in todo : SkipCase(i), ~ FailFast, ~ FinishCase,
         ~ EmptySuite, ~ SuiteTeardownReturns
  PROVE  UNCHANGED V!vars
<1>1. VerdictOf' = VerdictOf
  <2>1. counted \in [Case -> Nat]
    BY DEF TypeInv, TypeOK
  <2>. QED  BY <2>1, QuietSteps DEF VerdictOf
<1>2. OpenOf' = OpenOf /\ UNCHANGED engine
  <2>1. CASE Summary
    <3>1. summary = Null /\ si = NSuites + 1 /\ summary' # Null /\ UNCHANGED engine
      <4>1. pc' = "End" /\ SummaryInv'
        BY <2>1, SummaryStep DEF Summary
      <4>. QED
        BY <2>1, <4>1, RegistrationAssumption
        DEF Summary, SummaryInv, RunOver, TypeInv, TypeOK, Suite
    <3>. QED  BY <3>1 DEF OpenOf
  <2>2. CASE EndSuite
    BY <2>2 DEF EndSuite, SummaryInv, OpenOf, results
  <2>3. CASE UNCHANGED << si, summary, engine >>
    BY <2>3 DEF OpenOf
  <2>. QED
    BY <2>1, <2>2, <2>3
    DEF Next, RunAll, RunTest, Assertion, End, Stopped, EnterSuite, SuiteSetupReturns,
        LeaveSuite, PassOver, StartCase, SetupReturns, NothingToRun, BodyReturns, Landed,
        Repeat, AssertionHolds, AssertionFails, FixtureJumpsToDeadFrame,
        AssertionJumpsNowhere, EndCase, EndTeardownReturns, EndDone, vars, control, results
<1>. QED  BY <1>1, <1>2 DEF V!vars, VerdictOf, OpenOf

\* Every step of the engine is a step of Verdicts or leaves its variables alone.
LEMMA RefineStep ==
  TypeInv /\ RunInv /\ ScoreInv /\ SummaryInv /\ [Next]_vars => [V!Next]_(V!vars)
<1>. SUFFICES ASSUME TypeInv, RunInv, ScoreInv, SummaryInv, [Next]_vars
              PROVE  V!Next \/ UNCHANGED V!vars
  OBVIOUS
<1>1. CASE (\E i \in todo : SkipCase(i)) \/ FailFast \/ FinishCase
  <2>1. ~ RunOver
    BY <1>1 DEF SkipCase, FailFast, FinishCase, RunOver
  <2>2. PICK c \in Case, v \in CaseState : ScoresCase(c, v)
    BY <1>1, ScoringSteps
  <2>3. V!Judge(c, v)
    BY <2>1, <2>2, RefineScoring
  <2>. QED  BY <2>3, SharedDefinitions DEF V!Next
<1>2. CASE EmptySuite \/ SuiteTeardownReturns
  BY <1>2, RefineClosing DEF V!Next
<1>. QED  BY <1>1, <1>2, RefineQuiet

\* For every registration, every pallet and every behaviour of the bodies, a
\* run of the engine is a run of Verdicts: the engine's score grows, suite by
\* suite, by the census of outcomes that were given once and never changed.
THEOREM RunnerImplementsVerdicts ==
  ASSUME CatchableFixtures
  PROVE  Spec => ImplementsVerdicts
<1>1. Init => SummaryInv
  BY DEF Init, SummaryInv, RunOver
<1>. QED
  BY ScoreCorrect, RefineInit, RefineStep, SummaryStep, <1>1, PTL
  DEF Spec, ImplementsVerdicts, V!Spec

-----------------------------------------------------------------------------
(***************************************************************************)
(* What the summary says.  The engine's counters are sums over suites, of  *)
(* which the feedback needs only which are zero: a counter is positive     *)
(* exactly when a suite that was added has a case with that outcome.       *)
(***************************************************************************)

\* Suite s has been added to the engine.
Closed(s) == s < si \/ summary # Null

BoardInv ==
  /\ engine.score["EMPTY"] = 0
  /\ \A v \in CaseState \ {"EMPTY"} :
       engine.score[v] > 0 <=> \E s \in Suite : Closed(s) /\ Scored(s, v) # {}
  /\ summary # Null => summary = SummaryFeedback(engine.score)

\* A case whose body was started is counted, or is the one being run.
ExecutedInv ==
  /\ executed \subseteq AllCases
  /\ \A c \in executed : counted[c] = 1 \/ (InTest /\ c = cur)

\* A case leaves run_test with an outcome, once its body was started.
LEMMA ExecutedStep ==
  ASSUME CatchableFixtures
  PROVE  TypeInv /\ RunInv /\ ExecutedInv /\ [Next]_vars => ExecutedInv'
<1>. SUFFICES ASSUME TypeInv, RunInv, ExecutedInv, [Next]_vars PROVE ExecutedInv'
  OBVIOUS
<1>facts. /\ TypeOK /\ FrameInv /\ BufferInv /\ CountedOnce /\ counted \in [Case -> Nat]
          /\ executed \subseteq AllCases /\ executed \subseteq Case
          /\ InTest => cur \in AllCases /\ cur \in Case /\ counted[cur] = 0
  BY SlotsHoldAllCases, SlotFacts DEF TypeInv, RunInv, TypeOK, FrameInv, ExecutedInv, cur
<1>all. AllCases' = AllCases
  BY DEF AllCases
<1>1. CASE SetupReturns
  <2>1. /\ executed' = executed \cup {cur} /\ UNCHANGED counted /\ InTest /\ InTest' /\ cur' = cur
    BY <1>1 DEF SetupReturns, InTest, cur
  <2>. QED  BY <2>1, <1>facts, <1>all DEF ExecutedInv
<1>2. CASE FailFast \/ FinishCase
  <2>1. UNCHANGED executed /\ counted' = [counted EXCEPT ![cur] = @ + 1] /\ InTest
    BY <1>2 DEF FailFast, FinishCase, InTest
  <2>2. counted'[cur] = 1 /\ \A c \in Case : c # cur => counted'[c] = counted[c]
    BY <2>1, <1>facts
  <2>. QED  BY <2>1, <2>2, <1>facts, <1>all DEF ExecutedInv
<1>3. ASSUME NEW i \in todo, SkipCase(i) PROVE ExecutedInv'
  <2>1. /\ UNCHANGED executed /\ counted' = [counted EXCEPT ![slots[si][i]] = @ + 1] /\ ~ InTest
        /\ si \in Suite /\ i \in DOMAIN slots[si] /\ pc = "NextCase"
    BY <1>3, <1>facts DEF SkipCase, InTest, TypeInv, LoopInv, TypeOK, SlotsOf
  <2>2. counted[slots[si][i]] = 0
    BY <2>1 DEF RunInv, PendingInv, Pending, RunOver
  <2>3. \A c \in Case : c # slots[si][i] => counted'[c] = counted[c]
    BY <2>1, <1>facts
  <2>4. \A c \in executed : counted'[c] = 1
    BY <2>1, <2>2, <2>3, <1>facts DEF ExecutedInv
  <2>. QED  BY <2>1, <2>4, <1>facts, <1>all DEF ExecutedInv
<1>4. CASE UNCHANGED << executed, counted >> /\ ~ InTest
  BY <1>4, <1>all DEF ExecutedInv
<1>5. CASE NothingToRun \/ BodyReturns \/ Landed \/ Repeat \/ AssertionFails
  <2>1. UNCHANGED << executed, counted, slots >> /\ InTest'
    BY <1>5 DEF NothingToRun, BodyReturns, Landed, Repeat, AssertionFails, NoteFailure, InTest
  <2>2. frame'.suite = frame.suite /\ frame'.slot = frame.slot
    <3>1. CASE AssertionFails
      <4>1. buffer.frame = frame
        BY <3>1, <1>facts, CatchableFixtures
        DEF AssertionFails, BufferIsLive, MayAssert, CatchableFixtures, BufferInv, InTest
      <4>. QED  BY <3>1, <4>1 DEF AssertionFails
    <3>2. CASE ~ AssertionFails
      BY <1>5, <3>2, <1>facts DEF NothingToRun, BodyReturns, Landed, Repeat, TypeOK, Frames
    <3>. QED  BY <3>1, <3>2
  <2>3. cur' = cur
    BY <2>1, <2>2 DEF cur
  <2>. QED  BY <2>1, <2>3, <1>all DEF ExecutedInv
<1>6. CASE AssertionHolds \/ UNCHANGED vars
  <2>1. UNCHANGED << executed, counted, slots, pc, frame >>
    BY <1>6 DEF AssertionHolds, control, vars, history
  <2>. QED  BY <2>1, <1>all DEF ExecutedInv, InTest, cur
<1>7. ~ FixtureJumpsToDeadFrame /\ (AssertionJumpsNowhere => ~ InTest)
  BY <1>facts, CatchableFixtures
  DEF FixtureJumpsToDeadFrame, AssertionJumpsNowhere, BufferIsLive, MayAssert,
      CatchableFixtures, BufferInv, InTest
<1>. QED
  <2>1. \/ SetupReturns \/ FailFast \/ FinishCase \/ (\E i \in todo : SkipCase(i))
        \/ NothingToRun \/ BodyReturns \/ Landed \/ Repeat \/ AssertionFails
        \/ AssertionHolds \/ UNCHANGED vars \/ (UNCHANGED << executed, counted >> /\ ~ InTest)
    BY <1>7
    DEF Next, RunAll, RunTest, Assertion, End, Stopped, EmptySuite, EnterSuite,
        SuiteSetupReturns, LeaveSuite, SuiteTeardownReturns, PassOver, StartCase,
        AssertionJumpsNowhere, Summary, EndCase, EndTeardownReturns, EndSuite, EndDone,
        InTest, history
  <2>. QED  BY <1>1, <1>2, <1>3, <1>4, <1>5, <1>6, <2>1

\* A step that adds no suite and leaves the outcomes of those added alone.
LEMMA BoardKeeps ==
  ASSUME BoardInv, UNCHANGED engine, summary' # Null => summary' = SummaryFeedback(engine.score),
         \A s \in Suite : Closed(s)' <=> Closed(s),
         \A s \in Suite, v \in CaseState : Closed(s) => Scored(s, v)' = Scored(s, v)
  PROVE  BoardInv'
<1>1. ASSUME NEW v \in CaseState \ {"EMPTY"}
      PROVE  engine'.score[v] > 0 <=> \E s \in Suite : Closed(s)' /\ Scored(s, v)' # {}
  BY DEF BoardInv
<1>2. engine'.score["EMPTY"] = 0 /\ (summary' # Null => summary' = SummaryFeedback(engine'.score))
  BY DEF BoardInv
<1>. QED  BY <1>1, <1>2 DEF BoardInv

\* Adding a suite to the engine.
LEMMA BoardAdds ==
  ASSUME TypeInv, ScoreInv, BoardInv, SummaryInv, EmptySuite \/ SuiteTeardownReturns
  PROVE  BoardInv'
<1>1. /\ si \in Suite /\ si' = si + 1 /\ engine' = AddTally(engine, tally[si])
      /\ UNCHANGED << counted, state, summary >> /\ summary = Null
  BY DEF EmptySuite, SuiteTeardownReturns, TypeInv, LoopInv, history, SummaryInv, RunOver
<1>2. /\ engine.score \in Scores /\ tally[si].score \in Scores /\ NSuites \in Nat
      /\ Suite = 1 .. NSuites
  BY <1>1, RegistrationAssumption DEF TypeInv, TypeOK, Tallies, Suite
<1>3. \A v \in CaseState : engine'.score[v] = engine.score[v] + tally[si].score[v]
  BY <1>1 DEF AddTally, AddScores
<1>4. \A s \in Suite : Closed(s)' <=> Closed(s) \/ s = si
  BY <1>1, <1>2 DEF Closed
<1>5. ASSUME NEW v \in CaseState \ {"EMPTY"}
      PROVE  engine'.score[v] > 0 <=> \E s \in Suite : Closed(s)' /\ Scored(s, v)' # {}
  <2>1. tally[si].score[v] > 0 <=> Scored(si, v) # {}
    <3>1. IsFiniteSet(Scored(si, v))
      BY <1>1, SuiteFinite, FS_Subset DEF Scored, ScoredCases
    <3>2. tally[si].score[v] = Cardinality(Scored(si, v))
      BY <1>1 DEF ScoreInv
    <3>. QED  BY <3>1, <3>2, FS_EmptySet, FS_CardinalityType
  <2>2. \A s \in Suite : Scored(s, v)' = Scored(s, v)
    BY <1>1 DEF Scored, ScoredCases
  <2>3. engine.score[v] \in Nat /\ tally[si].score[v] \in Nat
    BY <1>2 DEF Scores
  <2>4. engine'.score[v] > 0 <=> engine.score[v] > 0 \/ tally[si].score[v] > 0
    BY <1>3, <2>3
  <2>. QED  BY <1>1, <1>4, <2>1, <2>2, <2>4 DEF BoardInv
<1>6. engine'.score["EMPTY"] = 0
  BY <1>1, <1>3 DEF BoardInv, ScoreInv, CaseState
<1>. QED  BY <1>1, <1>5, <1>6 DEF BoardInv

\* Every step keeps the engine's counters to the suites that are closed.
LEMMA BoardStep ==
  TypeInv /\ RunInv /\ ScoreInv /\ SummaryInv /\ BoardInv /\ [Next]_vars => BoardInv'
<1>. SUFFICES ASSUME TypeInv, RunInv, ScoreInv, SummaryInv, BoardInv, [Next]_vars
              PROVE  BoardInv'
  OBVIOUS
<1>facts. /\ counted \in [Case -> Nat] /\ state \in [Case -> CaseState]
          /\ si \in 1 .. NSuites + 1 /\ NSuites \in Nat /\ Suite = 1 .. NSuites
          /\ summary # Null => summary = SummaryFeedback(engine.score)
  BY RegistrationAssumption DEF TypeInv, TypeOK, BoardInv, Suite
<1>1. CASE (\E i \in todo : SkipCase(i)) \/ FailFast \/ FinishCase
  <2>1. PICK c \in Case, v \in CaseState : ScoresCase(c, v)
    BY <1>1, ScoringSteps
  <2>2. summary = Null /\ UNCHANGED << si, engine, summary >>
    BY <1>1, <2>1 DEF ScoresCase, SummaryInv, SkipCase, FailFast, FinishCase, RunOver
  <2>3. ASSUME NEW s \in Suite, NEW w \in CaseState, Closed(s) PROVE Scored(s, w)' = Scored(s, w)
    <3>1. s # si /\ si \in Suite
      BY <2>1, <2>2, <2>3, <1>facts DEF Closed, ScoresCase
    <3>2. c \notin Range(Registered[s]) /\ Range(Registered[s]) \subseteq Case
      BY <2>1, <3>1, RegisteredFacts DEF ScoresCase
    <3>3. \A d \in Range(Registered[s]) : counted'[d] = counted[d] /\ state'[d] = state[d]
      BY <2>1, <3>2, <1>facts DEF ScoresCase
    <3>. QED  BY <3>3 DEF Scored, ScoredCases
  <2>. QED  BY <2>2, <2>3, <1>facts, BoardKeeps DEF Closed
<1>2. CASE EmptySuite \/ SuiteTeardownReturns
  BY <1>2, BoardAdds
<1>3. CASE ~ ((\E i \in todo : SkipCase(i)) \/ FailFast \/ FinishCase)
             /\ ~ (EmptySuite \/ SuiteTeardownReturns)
  <2>1. /\ UNCHANGED counted
        /\ \A c \in Case : counted[c] > 0 => state'[c] = state[c]
    BY <1>3, QuietSteps
  <2>2. \A s \in Suite, v \in CaseState : Scored(s, v)' = Scored(s, v)
    BY <2>1, RegisteredFacts DEF Scored, ScoredCases
  <2>3. CASE Summary
    <3>1. /\ UNCHANGED engine /\ summary' = SummaryFeedback(engine.score)
          /\ si \notin Suite /\ summary' # Null
      BY <2>3, FeedbackType, OptionAssumption DEF Summary
    <3>2. \A s \in Suite : Closed(s)' /\ Closed(s)
      BY <3>1, <1>facts DEF Closed
    <3>. QED  BY <2>2, <3>1, <3>2, BoardKeeps
  <2>4. CASE EndSuite
    <3>1. UNCHANGED << engine, summary >> /\ summary # Null
      BY <2>4 DEF EndSuite, SummaryInv, results
    <3>. QED  BY <2>2, <3>1, <1>facts, BoardKeeps DEF Closed
  <2>5. CASE UNCHANGED << si, summary, engine >>
    BY <2>2, <2>5, <1>facts, BoardKeeps DEF Closed
  <2>. QED
    BY <1>3, <2>3, <2>4, <2>5
    DEF Next, RunAll, RunTest, Assertion, End, Stopped, EnterSuite, SuiteSetupReturns,
        LeaveSuite, PassOver, StartCase, SetupReturns, NothingToRun, BodyReturns, Landed,
        Repeat, AssertionHolds, AssertionFails, FixtureJumpsToDeadFrame,
        AssertionJumpsNowhere, EndCase, EndTeardownReturns, EndDone, vars, control, results
<1>. QED  BY <1>1, <1>2, <1>3

\* The total is zero exactly when the counters are.
LEMMA NothingPossible ==
  ASSUME NEW sc \in Scores, sc["EMPTY"] = 0
  PROVE  Possible(sc) = 0 <=> \A v \in CaseState \ {"EMPTY"} : ~ (sc[v] > 0)
<1>1. /\ sc["PASS"] \in Nat /\ sc["FAIL"] \in Nat /\ sc["TIMEOUT"] \in Nat
      /\ sc["SKIPPED"] \in Nat /\ sc["UNEXPECTED"] \in Nat
  BY DEF Scores, CaseState
<1>2. Possible(sc) = 0 <=> /\ sc["PASS"] = 0 /\ sc["FAIL"] = 0 /\ sc["TIMEOUT"] = 0
                           /\ sc["SKIPPED"] = 0 /\ sc["UNEXPECTED"] = 0
  <2>. DEFINE p == sc["PASS"]  f == sc["FAIL"]  t == sc["TIMEOUT"]
              k == sc["SKIPPED"]  u == sc["UNEXPECTED"]
  <2>1. Possible(sc) = p + f + t + k + u + 0
    BY DEF Possible
  <2>2. p \in Nat /\ f \in Nat /\ t \in Nat /\ k \in Nat /\ u \in Nat
    BY <1>1
  <2>. HIDE DEF p, f, t, k, u
  <2>3. p + f + t + k + u + 0 = 0 <=> p = 0 /\ f = 0 /\ t = 0 /\ k = 0 /\ u = 0
    BY <2>2
  <2>. QED  BY <2>1, <2>3 DEF p, f, t, k, u
<1>3. CaseState \ {"EMPTY"} = {"PASS", "FAIL", "TIMEOUT", "SKIPPED", "UNEXPECTED"}
  BY DEF CaseState
<1>. QED  BY <1>1, <1>2, <1>3

\* The first two messages of the summary: nothing was counted, or all that was
\* counted passed.
LEMMA FeedbackMeans ==
  ASSUME NEW sc \in Scores
  PROVE  /\ SummaryFeedback(sc) = "NoTestsWereRun" <=> Possible(sc) = 0
         /\ SummaryFeedback(sc) = "Perfect" => Possible(sc) # 0 /\ sc["PASS"] = Possible(sc)
<1>. DEFINE tiers == Tiers(sc)
            f == FirstTier(tiers)
<1>1. DOMAIN tiers = 1 .. 10 /\ tiers[10].when
  BY DEF Tiers
<1>2. f \in 1 .. 10 /\ tiers[f].when /\ \A j \in 1 .. f - 1 : ~ tiers[j].when
  <2>. HIDE DEF tiers
  <2>. QED  BY <1>1, FirstTierExists, 10 \in Nat, 10 > 0
<1>3. /\ tiers[1].when <=> Possible(sc) = 0
      /\ tiers[2].when <=> 100 * sc["PASS"] = 100 * Possible(sc)
      /\ \A i \in 1 .. 10 : /\ tiers[i].pool = "NoTestsWereRun" <=> i = 1
                            /\ tiers[i].pool = "Perfect" <=> i = 2
  <2>1. tiers[1].when <=> Possible(sc) = 0
    BY DEF Tiers
  <2>2. tiers[2].when <=> 100 * sc["PASS"] = 100 * Possible(sc)
    BY DEF Tiers
  <2>3. /\ tiers[1].pool = "NoTestsWereRun" /\ tiers[2].pool = "Perfect"
        /\ tiers[3].pool = "NearPerfect" /\ tiers[4].pool = "Good"
        /\ tiers[5].pool = "Warning" /\ tiers[6].pool = "Critical"
        /\ tiers[7].pool = "Encouragement" /\ tiers[8].pool = "Suggestions"
        /\ tiers[9].pool = "Motivation" /\ tiers[10].pool = "Humor"
    BY DEF Tiers
  <2>4. 1 .. 10 = {1, 2, 3, 4, 5, 6, 7, 8, 9, 10}
    OBVIOUS
  <2>. HIDE DEF tiers
  <2>. QED  BY <2>1, <2>2, <2>3, <2>4
<1>4. sc["PASS"] \in Nat /\ Possible(sc) \in Nat
  BY ScoreTypes DEF Scores, CaseState
<1>5. tiers[1].when => f = 1
  BY <1>2
<1>6. f = 2 => ~ tiers[1].when
  BY <1>2
<1>7. SummaryFeedback(sc) = tiers[f].pool
  BY DEF SummaryFeedback
<1>. HIDE DEF tiers, f
<1>. QED  BY <1>2, <1>3, <1>4, <1>5, <1>6, <1>7

\* Once there is a summary, a counter it read is positive exactly when a case
\* was given that outcome.
LEMMA CountersMean ==
  ASSUME TypeInv, CountedOnce, BoardInv, summary # Null, NEW v \in CaseState \ {"EMPTY"}
  PROVE  engine.score[v] > 0 <=> \E c \in AllCases : counted[c] > 0 /\ state[c] = v
<1>1. \A c \in AllCases : c \in Case /\ (counted[c] > 0 <=> counted[c] = 1)
  BY RegisteredFacts DEF AllCases, TypeInv, TypeOK, CountedOnce
<1>2. \A s \in Suite : Closed(s)
  BY DEF Closed
<1>3. engine.score[v] > 0 <=> \E s \in Suite : Scored(s, v) # {}
  BY <1>2 DEF BoardInv
<1>. QED  BY <1>1, <1>3 DEF Scored, ScoredCases, AllCases

\* "Perfect" is said only when something passed and no counted case of any
\* suite did worse; "No tests were run." exactly when every body that ran
\* asserted nothing and no case has another outcome.
THEOREM SummaryTellsOutcomes ==
  ASSUME CatchableFixtures
  PROVE  Spec => []SummaryMeansOutcomes
<1>1. Init => SummaryInv /\ BoardInv /\ ExecutedInv
  <2>. SUFFICES ASSUME Init PROVE SummaryInv /\ BoardInv /\ ExecutedInv
    OBVIOUS
  <2>1. SummaryInv /\ ExecutedInv
    BY DEF Init, SummaryInv, RunOver, ExecutedInv
  <2>2. \A v \in CaseState : engine.score[v] = 0 /\ \A s \in Suite : Scored(s, v) = {}
    <3>1. \A v \in CaseState : engine.score[v] = 0
      BY DEF Init, ZeroTally, ZeroScore
    <3>2. \A s \in Suite, v \in CaseState : Scored(s, v) = {}
      BY RegisteredFacts DEF Init, Scored, ScoredCases
    <3>. QED  BY <3>1, <3>2
  <2>3. summary = Null /\ "EMPTY" \in CaseState
    BY DEF Init, CaseState
  <2>. QED  BY <2>1, <2>2, <2>3 DEF BoardInv
<1>2. TypeInv /\ RunInv /\ SummaryInv /\ BoardInv /\ ExecutedInv => SummaryMeansOutcomes
  <2>. SUFFICES ASSUME TypeInv, RunInv, SummaryInv, BoardInv, ExecutedInv, summary # Null
                PROVE  SummaryMeansOutcomes
    BY OptionAssumption DEF SummaryMeansOutcomes, FeedbackPool
  <2>. DEFINE sc == engine.score
  <2>1. sc \in Scores /\ summary = SummaryFeedback(sc) /\ sc["EMPTY"] = 0
    BY DEF TypeInv, TypeOK, Tallies, BoardInv
  <2>2. /\ \A c \in executed : c \in AllCases /\ counted[c] = 1
        /\ \A c \in AllCases : state[c] \in CaseState
    <3>1. ~ InTest
      BY DEF SummaryInv, RunOver, InTest
    <3>. QED  BY <3>1, RegisteredFacts DEF ExecutedInv, TypeInv, TypeOK, AllCases
  <2>3. \A v \in CaseState \ {"EMPTY"} :
          sc[v] > 0 <=> \E c \in AllCases : counted[c] > 0 /\ state[c] = v
    BY CountersMean DEF RunInv
  <2>4. \A v \in CaseState : sc[v] \in Nat
    BY <2>1 DEF Scores
  <2>. HIDE DEF sc
  <2>5. ASSUME summary = "Perfect"
        PROVE  /\ \E c \in AllCases : counted[c] > 0 /\ state[c] = "PASS"
               /\ \A c \in AllCases : counted[c] > 0 => state[c] \in {"PASS", "EMPTY"}
    <3>1. Possible(sc) # 0 /\ sc["PASS"] = Possible(sc)
      BY <2>1, <2>5, FeedbackMeans
    <3>2. sc["PASS"] > 0 /\ \A v \in CaseState \ {"PASS", "EMPTY"} : ~ (sc[v] > 0)
      BY <2>4, <3>1 DEF Possible, CaseState
    <3>3. \A c \in AllCases : counted[c] > 0 => state[c] \in {"PASS", "EMPTY"}
      BY <2>2, <2>3, <3>2
    <3>4. "PASS" \in CaseState \ {"EMPTY"}
      BY DEF CaseState
    <3>. QED  BY <2>3, <3>2, <3>3, <3>4
  <2>6. summary = "NoTestsWereRun"
          <=> \A v \in CaseState \ {"EMPTY"} : ~ (sc[v] > 0)
    <3>1. summary = "NoTestsWereRun" <=> Possible(sc) = 0
      BY <2>1, FeedbackMeans
    <3>2. Possible(sc) = 0 <=> \A v \in CaseState \ {"EMPTY"} : ~ (sc[v] > 0)
      BY <2>1, NothingPossible
    <3>. QED  BY <3>1, <3>2
  <2>7. (\A v \in CaseState \ {"EMPTY"} : ~ (sc[v] > 0))
          <=> \A c \in AllCases : counted[c] > 0 => state[c] = "EMPTY"
    BY <2>2, <2>3
  <2>8. (\A c \in AllCases : counted[c] > 0 => state[c] = "EMPTY")
          => \A c \in executed : state[c] = "EMPTY"
    BY <2>2
  <2>. QED  BY <2>5, <2>6, <2>7, <2>8 DEF SummaryMeansOutcomes
<1>. QED
  BY ScoreCorrect, SummaryStep, BoardStep, ExecutedStep, <1>1, <1>2, PTL DEF Spec

=============================================================================
