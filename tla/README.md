# fossil-test in TLA+

Fossil Test is a unit test framework in C.  A program registers suites of
cases, `fossil_maip_run_all` runs them, each assertion that fails jumps out of
the case with `longjmp`, and a summary prints the score.  This directory models
that program (`src/code/logic`) in TLA+, checks the models with TLC and proves
the main results with TLAPS.  Paths below are relative to `src/code/logic`
unless they say otherwise.

## 1. Inventory

| Component | State | Operations | Hard behaviour | What makes it correct |
|---|---|---|---|---|
| Engine (`test.c` 38-64, 579-888, 1586-1653) | engine, suites, cases in one array per suite; `test_jump_buffer` and `_ASSERT_COUNT`, both global | start, run_all, run_suite, filter, sort, shuffle, run_test, summary, end | callbacks that leave by `longjmp`, through a buffer that may be stale; pointers into an array that is then permuted; repetitions; `fail_fast` | every selected case runs once, gets one truthful outcome, and the fixtures around it are paired; the run ends |
| Scores (`test.c` 112-151, 874-885, 893-1273; `test.h` 43-62) | six counters and two totals per suite and for the engine | update_score, the sums of run_all, summary_feedback | counting once, after the last write of the state; an outcome that is never counted; overlapping thresholds | the counters are the census of the outcomes; the message fits the counters |
| Registration (`test.c` 67-109, macros of `test.h`) | growing arrays of suites and cases, by value | add_suite, add_case | failed reallocation; copies that share an array | nothing registered is lost or seen half |
| Command line (`common.c` 199-1020) | the pallet: options of run, filter, sort, shuffle, show, report, color, theme, info | pallet_create and one parser per command | a parser returns where the next command starts; defaults are set by the command that is parsed; options with no reader and readers with no option | the pallet says what the words of the command line say |
| Assertion report (`test.c` 1670-2303) | last hash and count of repeats | detect_root_cause, detect_ti, output | order of keyword tests; static state between failures | equal failures in a row are counted |
| Assumptions (`fossil/maip/assume.h`) | none | one macro per kind of condition | casts before comparing; NaN; results that wrapped around; macros that call functions with effects | the condition tested is the one named, for every value of the type |
| Case display (`test.c` 178-565, 1275-1584) | none | show_cases, heading, scoreboard, timestamp | filters of its own | shows the cases asked for |
| BDD steps (`test.c` 2308-2474) | none | print a line | - | - |
| Mock (`mock.c`) | list of recorded calls and their AI contexts; redirected stdout, its buffer, open files | init, destroy, add_call, set/create/destroy of a context, capture_output, compare | an allocation failing half-way; a captured function that does not return | memory is accounted for; the list is the log of the calls; text stays where it was printed |
| Mark (`mark.c`) | one record per benchmark; one shared start time | init, start, stop, stats, reset, destroy, scoped | two benchmarks at once; capacity and warm-up | samples are those of the benchmark; indices in range |
| Sanity (`sanity.c`) | none | one wrapper per system call | - | - |
| Utilities (`common.c` 20-228, 841-905, 1020-3089) | none | hash, Levenshtein, Soap text filters, strings, memory, input/output, host information | boundaries of strings | each computes its definition |
| Runner generator (`src/code/tests/tools/runner.py`) | none | writes `main`: start, import groups, run all, summary, end | - | order of the calls |

The generated `main` calls `fossil_maip_start`, which parses the command line
into `engine->pallet`; the groups register suites and cases; `run_all` calls
`run_suite` for each suite, this the filter, sort and shuffle functions and then
`run_test` for each selected pointer; `run_test` calls the user's setup, body and
teardown; these call assertions, and Mock, Mark and Sanity, which call back into
nothing.  A failed assertion prints its report and jumps to `test_jump_buffer`.

All of it is one thread.  What is hard is not scheduling but control flow: the
engine hands control to code that may come back at another place than it was
called from, and the engine's state lives in globals and arrays shared by
activations that follow one another.

## 2. Plan

Modules, in the order of their writing.

1. `Score`, `Runner`, `Verdicts`: the engine, and the abstract run it implements.
   Proofs: `RunnerProofs`, `VerdictProofs`.
2. `Pallet`, `Suggest`: the command line as a scanner over words with its exits, and
   the suggestion for an unknown word.  Proofs: `PalletProofs`, `SuggestProofs`.
3. `Widths`, `Bits`, `CString`, composed by `Assume`: the macros of `assume.h` and the
   functions they call.  Proofs: `AssumeProofs`.
4. `Mock` and its abstract specification `CallLog`: the list of calls when allocations
   fail.  Proofs: `MockProofs`.
5. `Capture`: stdout redirected around a function that may be left by a jump.
   Proofs: `CaptureProofs`.
6. `Mark`: several benchmarks on one timer.  Proofs: `MarkProofs`.

What could follow: registration with failing reallocation, ending in `Registered` of
`Runner`; a run over `Pallet` and `Runner` together, in which the pallets of `Runner`
are those the scanner returns; the Soap filters as functions on words; and theorems
about the remaining macros of `Assume`.

## 3. The model of the engine

`Score.tla` holds the data: an outcome, a score as a function from outcomes to
counters, `Count` (update_score), `AddScores` (run_all) and `SummaryFeedback`.

`Runner.tla` holds the program.  A step is the code between two callbacks, and
`pc` says where the program is:

| `pc` | the program is |
|---|---|
| `NextSuite` | in the loop of `run_all`, `si` is `i + 1` |
| `SuiteSetup`, `SuiteTeardown` | in the suite's fixtures |
| `NextCase` | in the loop of `run_suite`; `todo` are the pointers still to follow |
| `Setup`, `Body`, `Teardown` | in the callback of the case `cur` |
| `Landed` | in the else branch of `setjmp` |
| `End`, `EndTeardown` | in `fossil_maip_end` |
| `Done`, `Undefined` | out of `main`; in undefined behaviour that ended the process |

Correspondence, beyond the names the actions share with the code:

- A pointer `fossil_maip_case_t *` is a slot `<suite, index>`.  The filter returns
  slots; `SuiteSetupReturns` collects them and permutes `slots[si]` afterwards, as
  the code does.
- `test_jump_buffer` is `buffer`: the locals `setjmp` saved, and `act`, the number
  of the activation of `run_test` that saved them.  A failed assertion is one of
  three actions: `AssertionFails` when that activation is the running one,
  `FixtureJumpsToDeadFrame` when it has returned and another one runs, and
  `AssertionJumpsNowhere` when there is none.  Where C leaves the outcome
  undefined, the model has a choice of some that a build can produce.  A jump
  from a fixture of a case takes the dead frame to lie where the running one does,
  as it does between two cases of a suite: it goes on in the else branch with all
  the locals of the one or all of the other, or crashes.  Mixtures of the two are not
  in the model, nor where a jump ends up when `filtered_cases`, an array of the
  suite's length (`test.c` 837), has moved the frame.  A jump from a suite's fixture,
  or from a teardown that `fossil_maip_end` called, is a crash in the model, though
  a build may come out in the else branch and score the last case again.
- The loop variable `i` of the repetitions is not volatile, so after `longjmp` it
  is either the value at `setjmp` or the current one.
- The shuffle is the loop of swaps of the code (`Swapped`, `Shuffled`), with any
  number for `rand() % (i + 1)`; `qsort`, which belongs to the C library, leaves any
  arrangement in order of the keys.
- Time is one bit: the body took longer than the timeout, or not.
- `visited`, `executed`, `counted`, `up`, `evidence` and `failedOnce` are history:
  no guard reads them.

`Verdicts.tla` is the abstract run: suites are judged in order, a case gets at
most one verdict and keeps it, and closing a suite adds the census of its
verdicts to the board.  `Runner` implements it under the mapping at `V` in
`Runner.tla`: the verdict of a case is its state once counted.

### The command line

`Pallet.tla` is `fossil_maip_pallet_create` and the parsers it calls.  `pos` is the
loop index that is current, `i` of `pallet_create` or `j` of a parser, and `cmd` says
which parser runs (`Null`: none).  The options of the parsers with a loop are two
tables, `Valued` and `Switches`, and one action each: `TakeValue`, `SetSwitch`,
`SubHelp`, `IgnoreWord`; `BeginCommand` sets the defaults, `EndCommand` returns and,
for `info`, prints and usually exits.  `help`, `color` and `theme` are one step each.
`status` is `returned` when the pallet is handed to the engine, or what was given
to `exit`.  A word is a string; `atoi` and the split at commas are constants,
since the library computes them.  Fields of the pallet that nothing reads or
writes are left out, and failing allocations, which this part does not look at.

A command line is given to the model as clauses, a command with groups of words,
and the scanner sees only their concatenation.  This makes it possible to say
what a line means without a scanner (`MeaningOf`): in each field, what the last
group says that sets it, in the clause in force.  Which option a field belongs to is
taken from the documentation (`OptionOf`: the comments of `common.h` 237-305), not from
the parsers.  So `PalletMeansClauses` says where the two differ: it leaves
out the field `only` and lines with `--skip` (`SkipFree`).  `OptionsAreHeeded` is the
promise without exceptions, which the code does not keep.

`Shows` is the filter of `fossil_maip_show_cases`, which reads the part `show` of the
pallet.  `DisplayMeansClauses` compares it with what the clauses of a line ask for
(`AgreesWithShow`), unless they leave the result to the default; what happens then is
part of `OptionsAreHeeded`.

`Suggest.tla` is `levenshtein_distance` row by row and `find_best_match` candidate by
candidate.  It is compared with the edit distance defined by alignments of the
two words, which shares nothing with the table.

### The assumptions

`Assume.tla` is a test body: it makes a call, one `ASSUME_` macro with arguments,
`verdict` becomes the condition the macro hands to `maip_test_assert_internal`, and
the body goes on (`GoOn`) or is left (`Aborted`).  There is one action per section
of `assume.h`; `Form` is a call, with the name of its type, ITS or NOT, the rest of
its name and its arguments.

`Widths.tla` holds the integer macros, one operator per type as in the header: the
operands are cast, by remainder, and compared.  A type of `w` bits has `2 * Half[w]`
values.  Nothing in the macros depends on the widths but that they are finite, so
`Half` is a constant: TLC takes types of 4, 8, 16 and 32 values, the proofs any.
Operands are taken from the edges of each type and beyond.
`Bits.tla` represents a word by the set of its positions that are 1; a shift by the
whole width, which C does not define, is a choice of results.  `CString.tla` has
strings as sequences of characters, the string functions of `common.c` as recursive
functions on their positions, and the null pointer apart; the first scan of
`maip_io_cstr_replace` (2822-2833) is the loop of `maip_io_cstr_count` (3009-3021) over
again, so `CountOf` stands for both.  Floating point numbers are
a few integers with an infinity and NaN, since the macros only subtract and compare.
Memory is a sequence of bytes; `left` is what a call leaves of it.

### Mocks and captures

`Mock.tla` is the list of calls.  Every allocation may fail, so a step goes from one
allocation to the next, and `pc` names the allocation that is due: in `add_call`,
`call`, `name`, `arguments`, the four fields of an argument, `fill` (the text AI_NULL
for a string without data), `undo`, then the context, and `append`.  `heap` is a
function from allocated blocks to contents.  Blocks are named by their role, the call
and the argument they are allocated for, and a number, so that names do not depend
on the order of allocations, which keeps the states few and loses nothing: only
identity is compared.  The pointers of a call, of its arguments and of a context are
functions from the places where they stand; `Free` frees what they name and sets
`faulty` when a block is not allocated or named at two places.  `destroy` takes a
step per call.

`CallLog.tla` is what the list promises: a sequence to which the call that was asked
for is appended, and which is emptied at once.  A request holds the call given to
`add_call` until it is recorded or given up; on the way, parts of it may get lost.
`Mock` implements it under the mapping at `Log` in `Mock.tla`: the log is what the chain
from `head` reads as, and empty from the first step of `destroy`; the request is what
`add_call` was given, with the arguments whose data could not be copied (`lost`, a
history).  What is recorded is the call of the request; AI_NULL stands for data only
in a string that had none, or whose data got lost (`MayRecord`).  The second is against
a comment of the code, which `OnlyNullIsFilled` shows.

`Capture.tla` is `fossil_mock_capture_output` with what it changes outside of the
program: what descriptor 1 refers to, the C library's buffer, files and descriptors
that are open.  The library may flush its buffer at any time.  A capture may get no
file (`NotOpened`), no redirection (`NotRedirected`), or run; inside, the function
prints, starts another capture, returns (`End`), or fails an assertion (`Abort`),
whose message is printed and whose jump leaves all captures at once.  The `dup2` that
restores stdout (`mock.c` 332), whose result the code ignores, is taken to succeed.

### Benchmarks

`Mark.tla` has any number of `fossil_mark_t` objects and the variable `start_time` of
`mark.c`, which all of them and `TEST_BENCHMARK` (`StartTimer`) share.  The clock is an
action of its own.  The array of samples is a function from its cells, of which the new
ones are `Garbage` after malloc and realloc; `qsort` puts the samples into an order that
does not decrease (`Sorted`), whichever it is.  A test sets `num_warmup` in the object itself,
before the first iteration.  `begun` and `alone` are history: when a benchmark was
started, and whether nothing else started the timer since.

## 4. Runs

| Run | Instance | Shows |
|---|---|---|
| `core` | two suites with cases, an empty one between; six pallets; bodies that pass, fail, hang or assert nothing | no case is counted twice; the counters of PASS, FAIL, TIMEOUT, SKIPPED and UNEXPECTED, and `total_possible`, are the census of the states; nobody is forgotten; a perfect summary is deserved, and the summary says "No tests were run." only if nobody had an outcome that is counted; teardowns that fail_fast put off are made up for at the end; `Verdicts` is implemented, and with it the sums of run_all are the census of the suites that have finished; the run ends |
| `cases` | one suite of three, one without a body, one whose teardown asserts; eleven pallets with every filter, sort, shuffle and repetition | no case is lost to sorting and shuffling; shuffle by a field is the order of execution; outcomes are truthful; a failure sticks under fail_fast; fixtures are paired; failures land where they belong |
| `fixtures` | setups, teardowns and suite fixtures that assert | types and totals hold whatever undefined behaviour does; fail_fast always stops |
| `clauses` | all lines of up to three of 27 clauses: every command, values that look like commands or options, words that are unknown, missing or misplaced | a good line is read as its clauses mean, and so is its show clause by the display, with the exceptions named above; success without tests only on request; the scan ends |
| `suggest` | all words of up to four letters out of four, the ten commands | the first of the commands nearest by edit distance is suggested |
| `assume` | types of 4 to 32 values with 17 operands at their edges; words of 4 bits; strings of up to four of two characters, one a space; regions of two bytes | for values of its type a macro judges the plain relation; of ITS and NOT exactly one holds, with the exceptions named; when overflow, tolerances, rotations, counting, replacing, splitting and trimming do what they are named for |
| `mock` | up to two calls of up to two arguments, contexts of the list, of calls and of the test; one failing allocation anywhere | nothing leaks; nothing is freed twice; the list is one chain; it implements `CallLog`, so each record is the call that was asked for |
| `mark` | two benchmarks, arrays of one cell at first, warm-up 0 or 1, up to three iterations, two ticks | samples fit their array; total, least and greatest are those of the samples; a sample is as long as its benchmark ran unless the timer was started in between; the median is in the middle |
| `capture` | up to three captures, nested or one after another, five bytes, buffers of 1 and 3 | every byte arrives where stdout was when it was printed; a capture returns what its own function printed, cut to the buffer; only a jump leaves stdout redirected |

Bounds.  The runs of the engine use `MCRunner.tla`, with `MaxAsserts = 1` (the engine
only asks whether there was an assertion at all) and the pallets listed there.
Every pallet is one a command line produces, except for those with `only` or
`skip`, fields no option sets.  Two cases in one suite are enough for one to
affect the next, three for a permutation to be more than a swap; the empty suite
is a branch of its own; two repetitions show a state overwritten.  Three clauses
are enough for a command to be given twice with another between, which tells the
last clause from the first, and a reset from none.  Two calls give a list a head
that is not its tail; one failing allocation, at any place, reaches every error
path, and a second could only lead to one of them again or leave another field of a
context null.  An array of one cell
grows at the second and third iteration; two samples are an even number and three
an odd one; two benchmarks are enough to share a timer, and are interchangeable,
so states are taken up to symmetry.  A buffer of one byte holds only the
terminator.  Three files allow a capture within a capture, after one that a jump
left.

A program that has stopped stutters by a step of its own, and at the bounds of
`mock` and `mark` a destruction or a reset remains possible, so deadlock is checked in
all runs.

Three more runs each show one sentence of the documentation or of the source
violated by the code; PROJECT.json quotes them under "findings":

| Run | What happens |
|---|---|
| `tag_filter` | the filtered pointers are used after the array was shuffled, so other cases run than those selected |
| `options` | `run --only` fills `only_cases`, while run_test reads `run.only`, which stays null; `show` without `--result` hides every case, since the default of the parser is no outcome the display knows |
| `fill` | a string whose copy failed becomes AI_NULL as if it had been null, and the check behind it misses that |

Other places where documentation and code differ, without a run of their own:

- `--fail-fast` is "Stop on the first failure" (`common.c` 232), but it ends the
  repetitions of the case only; later cases run.
- The feedback "No tests were run." is chosen when every body ran and none asserted,
  as an EMPTY case is in no total: `SummaryMeansOutcomes` says exactly that.
- `fossil_maip_end` calls the teardown of every case, also of those that never ran,
  where `test.h` 445-446 has it called after a case has been executed;
  `LeftoversAreTornDown` states the other direction, which holds.
- `run --skip <test>` ignores the option and takes the name for an unknown command,
  which ends the program (`common.c` 234, 447-450); it is the other part of
  `OptionsAreHeeded`.
- The scoreboard has a line for Empty (`test.c` 1479), and update_score a label for it
  (136-138) that its guard (117) makes unreachable: the counter stays 0
  (`EmptyIsNeverCounted`).
- `ASSUME_ITS_ZERO_MEMORY`, "Assumes that the given memory is zeroed.", clears the
  memory and holds (`assume.h` 1757-1763); so does `ASSUME_ITS_SECURE_CLEARED` (3036), and
  `ASSUME_NOT_ZERO_MEMORY` (1772) clears it and fails.
- `fossil_benchmark_avg_time` "returns the average elapsed time in seconds"
  (`fossil/maip/mark.h` 101), but the average is calculated by a function that no other
  calls and no header declares (`mark.c` 186, 234), and stays 0.
- `run_suite` shuffles right after it sorts, whether or not shuffle was given
  (`test.c` 842-843), so `sort` does not order the execution.
- The feedback for more than 60% failures is never chosen, because the test for 40%
  comes first (`test.c` 1244, 1248).
- `color --help` and `theme --help` fail, against `src/README.md` 52; `--info`,
  `--dry-run`, `--host` (`src/README.md` 37-39) and `timeout=` (`common.c` 214) are
  unknown words.
- `assume_duration` multiplies by the unit where it should divide (`mark.c` 74).
- The message of an assertion that fails inside a captured function goes to the
  temporary file, so the terminal shows nothing of it, nor of what follows
  (`StdoutIsRestored` describes this exactly).

Assumptions on fixtures.  In `core` and `cases` no setup asserts, because a setup
runs before `setjmp`; `fixtures` drops that, and there neither
`OutcomeMatchesEvidence` nor `Terminates` is claimed: a failed assertion of a teardown
calls the same teardown again, which can go on for ever.

Fairness.  Liveness is checked under weak fairness of `Next` as a whole: the
engine is sequential code and goes on as long as it can, and a callback is
taken to return.  `MaxAsserts` makes the second part true in the model: a body
makes finitely many assertions.  No fairness is assumed of any single choice, so
a teardown may fail every time.  `Assume`, `Mock`, `Mark` and `Capture` have none:
what they do next is up to the test, and their properties are about what it did.

## 5. Proofs

`RunnerProofs` (no assumption but those on the constants):

- `TypeCorrect`.  `TypeOK` is not inductive.  That the current case is a registered
  one needs `SlotsInv`, each array is an arrangement of the registered one, and
  that `todo` stays within suite `si` needs `LoopInv`, there is nothing to do where
  `si` moves.
- `NoCaseIsLost`, from `SlotsInv`.  A swap of two places rearranges an array
  (`SwapArranges`), so each turn of the loop of the shuffle does (`TurnArranges`), and, by
  the least number of turns at which it would not, the loop as a whole
  (`ShuffledArranges`).  Of `qsort` it is assumed that it rearranges.  A rearranged array has
  the same cases and the same length.
- `TotalsAlwaysAgree`, from `TotalsInv`.
- `LeftoversAreAllTornDown`.  What the property says of the end alone is kept from the
  start by `TornInv`: only registered cases are ever set up, the loop of
  `fossil_maip_end` still has to come to each that is up, and when it is done none is.
- `ShuffledTestsRunInOrder`.  `TurnInv` says that the slots whose turn has come are those
  no longer in `todo`, that the frame, and the frame a failure would jump to, are among
  them, and that the array of a suite that is running stays in the order the shuffle
  gave it; so no slot still to come has a smaller key than the case at hand.

`VerdictProofs`, under `CatchableFixtures`: setups make no assertions, and a
teardown does only in a case with a body.  Without it, failures jump through
stale buffers and the results are false (the run `fixtures` has such behaviours).
The invariant `RunInv` adds to the above: the running activation works on a slot
not in `todo` whose case has no outcome yet (`FrameInv`); the buffer holds this
very iteration (`BufferInv`); slots to come are uncounted (`PendingInv`); evidence
and state agree (`EvidenceInv`).  From it: `CountedAtMostOnce`,
`OutcomesAreTruthful`, `FailuresStick`, `FixturesArePaired`, `FailuresAlwaysLand`.
`NobodyIsForgotten` needs `CountingInv` as well: without a filter, a slot whose turn has
passed holds a case that was counted.

Under the same assumption: `ScoreInv`, each counter of a suite is the
cardinality of the set of its scored cases with that outcome, and the counter of
`EMPTY` is 0.  Three steps score a case; the lemma `ScoringSteps` reduces them to
one, `ScoresCase`, and all others leave counted cases alone (`QuietSteps`).  This
gives `ScoreIsTheCensus`, where `total_possible` needs that the sets of cases with
different outcomes are disjoint; `EmptyIsNeverCounted`, that the sixth counter is right
exactly as long as no EMPTY case was scored; and, with `SummaryInv`, the refinement
`RunnerImplementsVerdicts`: scoring a case maps to `Judge`, leaving a suite to
`Close`, everything else to a stutter.  Without the assumption both fail: a
failure that lands in a dead frame may change the state of a case already scored.
`SummaryTellsOutcomes` joins three invariants: the summary is that of the engine's score
once it is made, a counter of the engine is positive exactly if a closed suite
has scored a case so (`BoardInv`), and a case whose body was started is counted or
being run (`ExecutedInv`).

`PalletProofs`, for every set of command lines made of clauses whose words are strings
that `atoi` reads as integers, if every option begins with a dash, no command does, a
null pointer is no string and no outcome is called "all": `ScannerTypes`, with one lemma for the steps that set defaults and one
for those that assign a field; `SuccessIsRequested`, which needs that the word of
the command whose parser runs was read before (`CommandWasRead`), since the exit of
`info` comes long after its word.  `PalletMeans` and `DisplayMeans` rest on `ScanInv`, which holds
of lines of well-formed clauses.  The scanner sees words and the meaning is one of
clauses, so the first lemmas say where each clause and group lies in argv
(`ClausePlaces`, `GroupPlaces`, from what `FlattenSeq` does to sequences of any length).
`ScanInv` says that the scanner is before a clause or before a group of one, wherever a
parser stopped, and that each field of the pallet is what was read so far says of
it (`Says`): the last setter in force, else the defaults, else zero.  A command that begins
puts the groups before it out of force (`BeginSays`), a group that sets a field is the last
for it (`OptionSays`), a clause of another command says nothing (`ClauseIsRead`), and
the whole line says what `MeaningOf` means (`WholeLineSays`).  `DocumentedIsRead` is
the bridge between documentation and parsers: a clause that is well formed by
`OptionOf`, without `--skip`, is one whose every group the parser of its command knows.
`DefaultShowsNothing` says how far `OptionsAreHeeded` fails for the display.

`SuggestProofs`, for all words and lists of commands: `SuggestionIsNearest`.  The distance
of the property is the least cost of an alignment of the two words: which letters
of one are kept as which of the other.  `NearestStep` shows the recurrence of the code
for it, by cases on what an alignment does with the two last letters; `RowOfDistances`
carries that along a row, and `RowExists` that the recursive row is defined.  The
invariant `SuggestInv` says that the row on hand holds distances of the word's
beginning (`RowInv`) and that the best so far is that of the candidates passed (`BestInv`).

`AssumeProofs`, for every number of values of each width, words of any width and all
operands, assuming of the numbers only that they are integers, that an infinity is
beyond the finite ones and that NaN is no integer, and of the strings that they are
sequences of characters and that no empty one is looked for:

- The invariant `CallInv` is that the call being judged has one of the known forms and that
  the verdict is its condition.  Two lemmas on the remainder, that a cast keeps the
  values of its type and that a value at most one period away comes back by one
  period, give `OnlyNarrowingMisleadsHolds`, `OverflowIsFoundHolds`, with one lemma per
  operation and signedness, and `ToleranceMeansDistanceHolds`.
- `OppositesDisagreeHolds`, from `DecidedInv`: a call is `Decided` if its condition and that of
  its other form are as the property says.  Every call that an action judges is
  decided; there is one lemma per section, since each macro spells its negative form
  in its own way.
- `BitTricksWorkHolds`.  A rotation by `k` is the set of the positions whose `Origin` was set,
  even if `k` is 0 and the shift by the whole width is undefined (`RotationsAre`);
  `Origin` and `Target` are inverse, so the rotations are, and a rotated word is as
  large as the word.  `v - 1` has none of the bits of `v` from the lowest down, so `v & (v - 1)`
  is `v` less its lowest bit.  `WordsInv` says that the operands are words.
- `CountIsMostHolds`, `BuffersFitHolds`, `StringsAgreeHolds`, with `StringsInv`: the arguments are
  strings.  The scans go from left to right, so what each makes of a string is a
  function of the position it has come to that is defined by the one at a later
  position; that there is one is proved once (`DownwardRecursion`), and what is said of it goes by
  induction from the end (`DownwardInduction`).  Counting is brought to steps of one
  character (`CountStep`), the steps in which `maip_io_cstr_replace` fills its buffer, so
  both lengths change alike (`WrittenAsMeasured`).  The count is the greatest because of the
  occurrences that begin within the first match at most one can be kept
  (`OneMoreIsMost`).  A piece that does not begin with a delimiter is its first
  character and the piece from the next position (`PieceBegins`), so the pieces join to what is
  left without the delimiters.  Trimming leaves what lies between the first and the last
  character that is not trimmed, and padding moves these by one.

`MarkProofs`, for any set of benchmarks, capacity and warm-ups.  `TimerInv`: the timer was
started no earlier than any running benchmark, and at the same time as one that
has been alone.  `MarkInv`: the objects are well formed, and what `SamplesFit` says.
The capacity is doubled before the iterations reach it, so the room for samples,
of which there are no more than iterations, follows.  From both:
`SamplesFitHolds`, `ExactUnlessOverlappedHolds`.  `ArrayInv`: each array is as long as its object
says, holds in the cell of every sample a time the clock can show, and is summed up by
the object.  The bound on the times is needed because the smallest duration starts at
`DBL_MAX`, which must not be less than the first sample.  A stop adds one cell to the
total; sorting changes no total, because a total is the same in every order
(`TotalPermuted`).  `SummaryIsOfSamplesHolds` follows, and `MedianInTheMiddleHolds` with it: an order
that sorts exists for arrays of every length (`SortingOrderExists`), and the cells below the median
of a sorted array are in its first half (`MedianOf`).

`CaptureProofs`, for any nesting.  `TextInv` is enough for `TextStaysInItsPlaceHolds`: what is
in the buffer belongs to the file that is stdout now, because each change of stdout
flushes.  `FramesInv` says that the captures going on are a chain, the saved stdout of
each being the file of the next one out, with files that differ; from it
`StdoutIsRestoredHolds`.  `CapturedIsPrintedHolds` rests on `CapturedInv`: the
file that was read last is in use by no capture that is going on or was left by a
jump, so nothing is printed to it any more.

`MockProofs`, for any functions, arguments, contexts, bounds and places where
allocations fail, assuming only that the bounds are natural numbers, that an
argument is a string or is not, and that null is no context and no request.  None of
the three properties is inductive.  The invariant has six parts, and each is kept by a step
that starts in those before it:

- `TypeInv`, and `PcInv`: in which order a function takes its steps, and which
  pointers it has not set yet.  What an error path frees depends on how far the copy
  came, so memory cannot be accounted for without it.
- `MemoryInv`: every block has one owner.  The owners are the call and the context being
  made, each call of the list, the context of each, the test and the list; the pointers
  of an owner name distinct blocks, two owners none in common, and together they name
  what is allocated.  A step moves blocks between at most two owners
  (a call that is appended passes from `new` to its place in the list), and the lemmas on
  `Accounted` (one block added, one owner freed, one renamed) reduce each action to that.
- `ListInv`: `Chain`, the function that follows `next` from `head`, runs through all calls once
  and ends at `tail`; while `destroy` is under way, the calls it has passed are freed
  and those to come are not.  That a function defined by recursion is what the
  lemmas say of it is proved by the least number at which it would not be, and a step
  that appends extends it by the new call.
- `RecordInv`: of the call being made, what has been copied is what was given, and
  data that were given and not copied are among those lost.
- `LostInv`: only arguments of that call get lost, and none between two calls.

From the first four: `ListAndMemory`, `MemoryIsAlwaysAccountedFor`, `ListIsAlwaysAChain`.  With the
others, `MockImplementsCallLog`: `add_call` begins with `Ask`; a copy of data that fails maps to
`Lose`; the step that leaves `add_call` maps to `Record` after appending and to `GiveUp`
on an error path (`RequestStep`); the first step of a `destroy` to `Clear`; everything
else, a context that is replaced included, to a stutter, since no step touches a
block that a call of the list owns.

Only model-checked: liveness (`Terminates`, `FailFastStops`), which is out of the
prover's reach.  Every other property that a passing run checks is proved.  What the
runs of the kind `violation` refute is shown by their traces, and `DefaultShowsNothing`
says of one of them how far it fails.

## 6. Not modelled

"components" in PROJECT.json has the parts with their status.

- Wording, colours, layouts and themes; the random pick of a message; the report of a
  failed assertion, whose keywords and repeat count decide words only.
- Sanity, host information and BDD steps, which keep no state; generated and build
  files, example tests.
- Registration: the macros add cases and then the suite, before the run begins, and
  the outcome is the constant `Registered` of `Runner`.
- Of the engine: elapsed times as numbers, the width of int in comparators (an order
  that is none gives qsort no meaning to state) and counters, null arguments of the
  public functions (the generated `main` passes none), programs that call `run_all`
  twice.
- Of the assumptions: the Soap macros (`assume.h` 2532-2569), whose text filters are
  tables of words; the two that compare the bytes of hashes are those that compare
  memory.
- Of the mocks: `fossil_mock_print` and `compare_output`, the confidence of a context, and
  a context set to itself, which frees what it is about to copy.
- Of the benchmarks: deviation and report, scoped benchmarks, `assume_duration`, memory
  that runs out, and a clock that is set back.
- Of the utilities: letter case and formatting, the Soap filters, console input and
  output, and calls with an empty substring, which do not return.
