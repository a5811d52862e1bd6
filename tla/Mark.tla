-------------------------------- MODULE Mark --------------------------------
(***************************************************************************)
(* Benchmarks (src/code/logic/mark.c): the objects of type fossil_mark_t   *)
(* and the one timer they share.  fossil_test_start_benchmark keeps the    *)
(* time in a variable of the file, and every benchmark, as well as a test  *)
(* that uses TEST_BENCHMARK, starts that timer.                            *)
(*                                                                         *)
(* Time is counted in ticks of the clock, which does not run backwards.    *)
(* Cell n of an array of the code is element n + 1 of the array here.      *)
(* Memory is not exhausted.                                                *)
(***************************************************************************)
EXTENDS Integers, FiniteSets, Functions

CONSTANTS
  Benchmark,      \* the objects
  FirstCapacity,  \* what init gives an array: 100 in the code
  Warmup,         \* what a test may set num_warmup to
  MaxTime,        \* bound on the clock
  MaxIterations   \* bound on num_iterations

ASSUME CapacityAssumption == FirstCapacity \in Nat \ {0}
ASSUME WarmupAssumption == Warmup \subseteq Nat
ASSUME BoundsAssumption == MaxTime \in Nat /\ MaxIterations \in Nat

VARIABLES
  now,              \* the clock
  start_time,       \* the variable of the file
  mark,             \* the objects: what counts and sums up the samples,
  iteration_times,  \* their arrays,
  stats,            \* and the statistics
  begun,            \* when a benchmark was last set running (not in the code)
  alone             \* whether the timer was not started since (not in the code)

vars == << now, start_time, mark, iteration_times, stats, begun, alone >>

Garbage == -1   \* a cell that malloc or realloc left as it was
DBL_MAX == MaxTime + 1

\* What fossil_benchmark_init makes of an object.
New == [num_samples |-> 0, num_iterations |-> 0, num_warmup |-> 0, total_duration |-> 0,
        min_duration |-> DBL_MAX, max_duration |-> 0, capacity |-> FirstCapacity,
        running |-> FALSE]
NewArray == [n \in 1 .. FirstCapacity |-> Garbage]
NoStats == [mean_duration |-> << 0, 1 >>, double_median |-> 0]

Init ==
  /\ now = 0
  /\ start_time = 0
  /\ mark = [b \in Benchmark |-> New]
  /\ iteration_times = [b \in Benchmark |-> NewArray]
  /\ stats = [b \in Benchmark |-> NoStats]
  /\ begun = [b \in Benchmark |-> 0]
  /\ alone = [b \in Benchmark |-> FALSE]

Tick ==
  /\ now < MaxTime
  /\ now' = now + 1
  /\ UNCHANGED << start_time, mark, iteration_times, stats, begun, alone >>

-----------------------------------------------------------------------------
(* The timer                                                               *)

fossil_test_start_benchmark == start_time' = now

fossil_test_stop_benchmark == now - start_time

\* A test starts the timer itself (TEST_BENCHMARK).
StartTimer ==
  /\ fossil_test_start_benchmark
  /\ alone' = [b \in Benchmark |-> FALSE]
  /\ UNCHANGED << now, mark, iteration_times, stats, begun >>

-----------------------------------------------------------------------------
(* The operations of a benchmark; the scoped forms call start and stop.    *)

\* Mutant of Start: a benchmark that runs is started again.
StartAgain(b) ==
  /\ fossil_test_start_benchmark
  /\ mark' = [mark EXCEPT ![b].running = TRUE]
  /\ begun' = IF mark[b].running THEN begun ELSE [begun EXCEPT ![b] = now]
  /\ alone' = [c \in Benchmark |-> c = b]
  /\ UNCHANGED << now, iteration_times, stats >>

Start(b) ==
  /\ ~ mark[b].running
  /\ fossil_test_start_benchmark
  /\ mark' = [mark EXCEPT ![b].running = TRUE]
  /\ begun' = [begun EXCEPT ![b] = now]
  /\ alone' = [c \in Benchmark |-> c = b]
  /\ UNCHANGED << now, iteration_times, stats >>

\* Mutant of Full: the array is found full one iteration late.
FullLate(m) == m.num_iterations > m.capacity

Full(m) == m.num_iterations >= m.capacity

\* What an iteration that took elapsed makes of the object, its array doubled
\* when it is full.
Sampled(m, elapsed) ==
  [m EXCEPT
     !.capacity = IF Full(m) THEN 2 * @ ELSE @,
     !.total_duration = @ + elapsed,
     !.min_duration = IF elapsed < @ THEN elapsed ELSE @,
     !.max_duration = IF elapsed > @ THEN elapsed ELSE @,
     !.num_samples = @ + 1,
     !.num_iterations = @ + 1,
     !.running = FALSE]

\* ... and of the array.
Grown(t, m) ==
  IF Full(m) THEN [n \in 1 .. 2 * m.capacity |-> IF n <= m.capacity THEN t[n] ELSE Garbage]
             ELSE t

Written(t, m, elapsed) ==
  [Grown(t, m) EXCEPT ![m.num_iterations - m.num_warmup + 1] = elapsed]

\* An iteration of the warm-up is not recorded.
StopWarmup(b) ==
  /\ mark[b].running
  /\ mark[b].num_iterations < MaxIterations
  /\ mark[b].num_iterations < mark[b].num_warmup
  /\ mark' = [mark EXCEPT ![b].num_iterations = @ + 1, ![b].running = FALSE]
  /\ UNCHANGED << now, start_time, iteration_times, stats, begun, alone >>

Stop(b) ==
  /\ mark[b].running
  /\ mark[b].num_iterations < MaxIterations
  /\ mark[b].num_iterations >= mark[b].num_warmup
  /\ mark' = [mark EXCEPT ![b] = Sampled(@, fossil_test_stop_benchmark)]
  /\ iteration_times' =
       [iteration_times EXCEPT ![b] = Written(@, mark[b], fossil_test_stop_benchmark)]
  /\ UNCHANGED << now, start_time, stats, begun, alone >>

\* Mutant of Sorted: the samples stay in the order of the iterations.
Unsorted(b) == iteration_times[b]

\* Taken in the order p, the first n cells of t do not decrease.
Sorts(p, t, n) == \A i, j \in 1 .. n : i < j => t[p[i]] <= t[p[j]]

\* qsort of the samples, in their place.
Sorted(b) ==
  LET t == iteration_times[b]
      n == mark[b].num_samples
      order == CHOOSE p \in Injection(1 .. n, 1 .. n) : Sorts(p, t, n)
  IN  [i \in DOMAIN t |-> IF i <= n THEN t[order[i]] ELSE t[i]]

\* Twice the median of the first n cells of t, which are sorted.
DoubleMedian(t, n) ==
  IF n % 2 = 0 THEN t[n \div 2] + t[n \div 2 + 1] ELSE 2 * t[n \div 2 + 1]

\* The mean is kept as a fraction.  (The deviation is not modelled.)
CalculateStats(b) ==
  /\ mark[b].num_samples > 0
  /\ UNCHANGED << now, start_time, mark, begun, alone >>
  /\ iteration_times' = [iteration_times EXCEPT ![b] = Sorted(b)]
  /\ stats' = [stats EXCEPT ![b] =
       [mean_duration |-> << mark[b].total_duration, mark[b].num_samples >>,
        double_median |-> DoubleMedian(iteration_times'[b], mark[b].num_samples)]]

\* Mutant of Cleared: the smallest duration is kept.
ClearedButMin(m) ==
  [m EXCEPT !.num_samples = 0, !.num_iterations = 0, !.total_duration = 0, !.max_duration = 0]

Cleared(m) ==
  [m EXCEPT !.num_samples = 0, !.num_iterations = 0, !.total_duration = 0,
            !.min_duration = DBL_MAX, !.max_duration = 0]

\* What was recorded is forgotten; a benchmark that runs goes on running, and
\* the warm-up, the array and its capacity stay.
Reset(b) ==
  /\ mark' = [mark EXCEPT ![b] = Cleared(@)]
  /\ stats' = [stats EXCEPT ![b] = NoStats]
  /\ UNCHANGED << now, start_time, iteration_times, begun, alone >>

\* A test sets the field before the first iteration: no function does.
SetWarmup(b) ==
  /\ mark[b].num_iterations = 0
  /\ \E w \in Warmup : mark' = [mark EXCEPT ![b].num_warmup = w]
  /\ UNCHANGED << now, start_time, iteration_times, stats, begun, alone >>

\* destroy and init: the object is used again.
Renew(b) ==
  /\ mark' = [mark EXCEPT ![b] = New]
  /\ iteration_times' = [iteration_times EXCEPT ![b] = NewArray]
  /\ stats' = [stats EXCEPT ![b] = NoStats]
  /\ UNCHANGED << now, start_time, begun, alone >>

Next ==
  \/ Tick \/ StartTimer
  \/ \E b \in Benchmark : Start(b) \/ StopWarmup(b) \/ Stop(b) \/ CalculateStats(b)
                            \/ Reset(b) \/ SetWarmup(b) \/ Renew(b)

Spec == Init /\ [][Next]_vars

-----------------------------------------------------------------------------
(* Properties                                                              *)

\* A step that records a sample of b.
Recorded(b) == mark'[b].num_samples = mark[b].num_samples + 1

NewSample(b) == mark'[b].total_duration - mark[b].total_duration

\* Although all benchmarks share one timer (mark.c:33), what one records is
\* never longer than it ran, and is exactly that long unless the timer was
\* started for something else in between.
ExactUnlessOverlapped ==
  [][\A b \in Benchmark : Recorded(b) =>
       /\ NewSample(b) >= 0
       /\ NewSample(b) <= now - begun[b]
       /\ alone[b] => NewSample(b) = now - begun[b]]_vars

\* The capacity is compared with the iterations, and the array indexed by the
\* iterations less the warm-up (mark.c:160-165): the samples are those of the
\* iterations after the warm-up, and the array always has room for them.
SamplesFit ==
  \A b \in Benchmark :
    /\ mark[b].num_samples <= mark[b].capacity
    /\ mark[b].num_samples = IF mark[b].num_iterations < mark[b].num_warmup THEN 0
                             ELSE mark[b].num_iterations - mark[b].num_warmup

\* The sum of the first n cells of t.
Total(t, n) ==
  LET sum[k \in 0 .. n] == IF k = 0 THEN 0 ELSE sum[k - 1] + t[k]
  IN  sum[n]

\* What m says of the durations is true of the samples in t.
Summarizes(m, t) ==
  LET all == {t[n] : n \in 1 .. m.num_samples}
  IN  /\ Garbage \notin all
      /\ m.total_duration = Total(t, m.num_samples)
      /\ \A d \in all : m.min_duration <= d /\ d <= m.max_duration
      /\ IF all = {} THEN m.min_duration = DBL_MAX /\ m.max_duration = 0
         ELSE {m.min_duration, m.max_duration} \subseteq all

\* Every sample that is counted was written to its cell and stays there,
\* whatever was grown, sorted, or reset and measured again; and the total, the
\* smallest and the largest duration are those of the samples in the array.
SummaryIsOfSamples == \A b \in Benchmark : Summarizes(mark[b], iteration_times[b])

\* When the statistics are calculated, at most half of the samples are below
\* the median, and at most half above.
MedianInTheMiddle ==
  [][\A b \in Benchmark : CalculateStats(b) =>
       LET n == mark[b].num_samples
           t == iteration_times[b]
           median == stats'[b].double_median
       IN  /\ 2 * Cardinality({k \in 1 .. n : 2 * t[k] < median}) <= n
           /\ 2 * Cardinality({k \in 1 .. n : 2 * t[k] > median}) <= n]_vars

=============================================================================
