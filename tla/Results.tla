------------------------------- MODULE Results -------------------------------
(***************************************************************************)
(* The results of a test: test_results_t and its operations in             *)
(* result_mgmt.c (C port), class TestResults and TestResultUtils.cpp (C++  *)
(* port).  A result collects the times of an attempt, computes statistics  *)
(* when it is full, is judged by the pass criteria, cleared for the next   *)
(* attempt or copied, and is published with the scores computed from it.   *)
(*                                                                         *)
(* The tests use results in three ways: one result, judged and cleared     *)
(* until it passes (kind "single"); one result and a copy of the last      *)
(* attempt that passed (kind "search", the timer test); and a result for   *)
(* each thread (kind "multi", the multi_thread test).                      *)
(*                                                                         *)
(* Times are small integers, percentages are integers.  A median is twice  *)
(* its value, so that the mean of two middle elements is an integer.       *)
(***************************************************************************)
EXTENDS Integers, FiniteSets, FiniteSetsExt, Functions

CONSTANTS
  Times,        \* the times a measurement may take
  Sizes,        \* values of max_entries
  Ranges,       \* values of range_percentage
  Accepts,      \* values of acceptable_percentage
  MaxTries      \* a bound on the attempts

ASSUME ResultsAssumption ==
  /\ Times \subseteq Nat \ {0}
  /\ Sizes \subseteq Nat \ {0}
  /\ Ranges \subseteq 0 .. 100
  /\ Accepts \subseteq 0 .. 100
  /\ MaxTries \in Nat

VARIABLES
  setup,      \* port, kind of the test, max_entries and the percentages
  obj,        \* the results
  heap,       \* the arrays of values
  freed,      \* arrays that were freed
  stage,      \* "fill", "judged", "published" or "abort"
  kept,       \* the copy holds an attempt that passed
  tries,      \* attempts so far
  verdict,    \* the verdict on the last attempt
  published,  \* the results in the result table
  score       \* what generate_combined_score made of them

resultVars == << setup, obj, heap, freed, stage, kept, tries, verdict, published, score >>

Kinds == {"single", "search", "multi"}

Setups == [port : {"c", "cpp"}, kind : Kinds, size : Sizes, range : Ranges, accept : Accepts]

InC == setup.port = "c"

(* Results 1 and 2; values points to an array.  A new result has no times. *)
Created(i) ==
  [values |-> i, entries |-> 0, min |-> 0, max |-> 0, updated |-> FALSE,
   median |-> 0, mean |-> 0]

(* The sums of a combined score and the times its extremes come from.      *)
Scores == [count : Nat, consistency : Nat, slowest : Nat, fastest : Nat]

NoScore == [count |-> 0, consistency |-> 0, slowest |-> 0, fastest |-> 0]

ResultsInit ==
  /\ setup \in Setups
  /\ obj = [i \in {1, 2} |-> Created(i)]
  /\ heap = [i \in {1, 2} |-> [n \in 1 .. setup.size |-> 0]]
  /\ freed = {}
  /\ stage = "fill" /\ kept = FALSE /\ tries = 0
  /\ verdict = FALSE /\ published = {} /\ score = NoScore

(* The results the test measures into.                                     *)
Measured == IF setup.kind = "multi" THEN {1, 2} ELSE {1}

-----------------------------------------------------------------------------
(* Statistics of the first n elements of an array.                         *)
Sum(f, n) == SumFunctionOnSet(f, 1 .. n)

(* Sorting them puts element p[i] in place i.                              *)
Sorted(f, n) ==
  LET InOrder(p) == \A i, j \in 1 .. n : i < j => p[i] # p[j] /\ f[p[i]] <= f[p[j]]
      order == CHOOSE p \in [1 .. n -> 1 .. n] : InOrder(p)
  IN  [i \in 1 .. n |-> f[order[i]]]

(* get_median and setMedian.  The C port drops the half of a median.       *)
GetMedian(f, n) ==
  LET s == Sorted(f, n)
  IN  IF n % 2 = 1 THEN 2 * s[n \div 2 + 1]
      ELSE IF InC THEN 2 * ((s[n \div 2] + s[n \div 2 + 1]) \div 2)
      ELSE s[n \div 2] + s[n \div 2 + 1]

ComputeMean(f, n) == Sum(f, n) \div n

(* The extremes: the C port starts with the first entry, the C++ port with *)
(* a flag for the least time and with zero for the greatest.               *)
NewMin(r, t) ==
  IF (IF InC THEN r.entries = 0 ELSE ~r.updated) \/ t < r.min THEN t ELSE r.min

NewMax(r, t) == IF (InC /\ r.entries = 0) \/ t > r.max THEN t ELSE r.max

(* add_entry and setValuesAtNextIndex.                                     *)
AddEntry(i, t) ==
  LET r == obj[i]
      n == r.entries + 1
      f == [heap[r.values] EXCEPT ![n] = t]
      full == n = setup.size
  IN  /\ stage = "fill" /\ r.entries < setup.size
      /\ heap' = [heap EXCEPT ![r.values] = f]
      /\ obj' = [obj EXCEPT ![i] =
           [r EXCEPT !.entries = n, !.min = NewMin(r, t), !.max = NewMax(r, t),
                     !.updated = TRUE,
                     !.median = IF full THEN GetMedian(f, n) ELSE r.median,
                     !.mean = IF full THEN ComputeMean(f, n) ELSE r.mean]]
      /\ UNCHANGED << setup, freed, stage, kept, tries, verdict, published, score >>

(* check_pass_criteria and checkStdDev: enough times are within the range  *)
(* around the median.                                                      *)
Conforming(r) ==
  {n \in 1 .. r.entries :
     LET t == 200 * heap[r.values][n]
     IN  t <= r.median * (100 + setup.range) /\ t >= r.median * (100 - setup.range)}

MinAcceptable(r) == (r.entries * setup.accept) \div 100

Passes(r) == Cardinality(Conforming(r)) >= MinAcceptable(r)

Full(r) == r.entries = setup.size

(* The C++ port asserts that both percentages lie between 0 and 100.       *)
AssertionHolds == InC \/ {setup.range, setup.accept} \subseteq 1 .. 99

\* A mutant: CloneResults that leaves the pointer of the source.
CloneResultsShallow(dest, source) ==
  /\ obj' = [obj EXCEPT ![dest] = obj[source]]
  /\ UNCHANGED heap

(* clone_results and cloneValues: a copy of every member, and of the       *)
(* values into the array the destination has.                              *)
CloneResults(dest, source) ==
  LET to == obj[dest].values
      from == obj[source].values
  IN  /\ obj' = [obj EXCEPT ![dest] = [obj[source] EXCEPT !.values = to]]
      /\ heap' = [heap EXCEPT ![to] =
           [n \in 1 .. setup.size |->
              IF n <= obj[source].entries THEN heap[from][n] ELSE heap[to][n]]]

(* The verdict on an attempt.  The search copies every attempt that passes. *)
CheckPassCriteria ==
  /\ stage = "fill" /\ AssertionHolds
  /\ \A i \in Measured : Full(obj[i])
  /\ stage' = "judged" /\ tries' = tries + 1
  /\ verdict' = \A i \in Measured : Passes(obj[i])
  /\ IF setup.kind = "search" /\ verdict'
       THEN CloneResults(2, 1) /\ kept' = TRUE
       ELSE UNCHANGED << obj, heap, kept >>
  /\ UNCHANGED << setup, freed, published, score >>

AssertionFails ==
  /\ stage = "fill" /\ ~AssertionHolds
  /\ \A i \in Measured : Full(obj[i])
  /\ stage' = "abort"
  /\ UNCHANGED << setup, obj, heap, freed, kept, tries, verdict, published, score >>

-----------------------------------------------------------------------------
\* A mutant: Cleared that keeps the flag of the least time.
ClearedKeepingMin(r) ==
  IF InC THEN [r EXCEPT !.entries = 0]
  ELSE [r EXCEPT !.entries = 0, !.max = 0, !.median = 0, !.mean = 0]

(* free_chain forgets the entries only, removeOldValues all statistics.    *)
Cleared(r) ==
  IF InC THEN [r EXCEPT !.entries = 0]
  ELSE [r EXCEPT !.entries = 0, !.min = 0, !.max = 0, !.updated = FALSE,
                 !.median = 0, !.mean = 0]

ClearAll == [i \in {1, 2} |-> IF i \in Measured THEN Cleared(obj[i]) ELSE obj[i]]

(* Another attempt: after a failure, or to search for less work.           *)
Retry ==
  /\ stage = "judged" /\ tries < MaxTries
  /\ kept \/ ~verdict
  /\ obj' = ClearAll
  /\ stage' = "fill"
  /\ UNCHANGED << setup, heap, freed, kept, tries, verdict, published, score >>

-----------------------------------------------------------------------------
(* get_contribution.  med is four times the median, so percent is          *)
(* 400 * value / med; the fractions are dropped.                           *)
BelowMedian(value, med) == 10 * ((400 * value + 10 * med) \div (10 * med))

\* A mutant: AboveMedian that forgets to subtract from 100.
AboveMedianUnsubtracted(value, med) == 10 * ((400 * value - 100 * med) \div (10 * med))

AboveMedian(value, med) == 100 - 10 * ((400 * value - 100 * med) \div (10 * med))

GetContribution(value, med) ==
  CASE 4 * value = med -> 100
    [] value = 0 -> 10
    [] 4 * value >= 2 * med -> 0
    [] value > 0 /\ 4 * value < med -> BelowMedian(value, med)
    [] OTHER -> AboveMedian(value, med)

(* The results whose times make the score: result_length of the C port     *)
(* stays 1.                                                                *)
Counted(results) == IF InC THEN {Min(results)} ELSE results

\* A mutant: Seed that starts from the copy.
SeedOther(results) == Max({1, 2} \ results)

(* The result whose first time the extremes start from.                    *)
Seed(results) == IF InC THEN Max(results) ELSE Min(results)

(* generate_combined_score.  The extremes of the throughput are kept as    *)
(* the times they are computed from, the consistency score as the sum that *)
(* is divided by the number of times.                                      *)
GenerateCombinedScore(objects, results) ==
  LET Value(i, n) == heap[objects[i].values][n]
      Entries(i) == 1 .. objects[i].entries
      med == objects[Min(results)].median + objects[Max(results)].median
      times == {Value(Seed(results), 1)} \cup
               UNION {{Value(i, n) : n \in Entries(i)} : i \in Counted(results)}
      Share(i) == Sum([n \in Entries(i) |-> GetContribution(Value(i, n), med)],
                      objects[i].entries)
  IN  [count |-> Sum([i \in {1, 2} |-> IF i \in Counted(results) THEN objects[i].entries ELSE 0], 2),
       consistency |-> Sum([i \in {1, 2} |-> IF i \in Counted(results) THEN Share(i) ELSE 0], 2),
       slowest |-> Max(times), fastest |-> Min(times)]

Add(results, objects) ==
  /\ obj' = objects
  /\ published' = results
  /\ score' = GenerateCombinedScore(objects, results)
  /\ stage' = "published"
  /\ UNCHANGED << setup, heap, kept, tries, verdict >>

(* A test publishes the attempt it ends with, when it has passed or there  *)
(* were enough of them.                                                    *)
AddResultToResultTable ==
  /\ stage = "judged" /\ setup.kind = "single"
  /\ Add({1}, obj) /\ UNCHANGED freed

(* The timer test publishes its copy, and deletes the other result.        *)
PublishSearch ==
  /\ stage = "judged" /\ setup.kind = "search"
  /\ IF kept THEN Add({2}, obj) /\ freed' = {obj[1].values}
             ELSE Add({1}, obj) /\ UNCHANGED freed

(* The multi_thread test of the C port frees the chains after every        *)
(* attempt that failed, the last one included, before it computes scores.  *)
PublishMulti ==
  /\ stage = "judged" /\ setup.kind = "multi"
  /\ Add({1, 2}, IF InC /\ ~verdict THEN ClearAll ELSE obj)
  /\ UNCHANGED freed

ResultsNext ==
  \/ \E i \in Measured, t \in Times : AddEntry(i, t)
  \/ CheckPassCriteria
  \/ AssertionFails
  \/ Retry
  \/ AddResultToResultTable
  \/ PublishSearch
  \/ PublishMulti

ResultsSpec == ResultsInit /\ [][ResultsNext]_resultVars

-----------------------------------------------------------------------------
(* Values of a result, as they stand in its array now.                     *)
Values(r) == {heap[r.values][n] : n \in 1 .. r.entries}

(* Twice the median m of a result lies in the middle: as many of its times *)
(* are less as are greater.  The C port may be half a unit too low.        *)
IsMedian(r) ==
  LET Less(m) == {n \in 1 .. r.entries : 2 * heap[r.values][n] < m}
      Greater(m) == {n \in 1 .. r.entries : 2 * heap[r.values][n] > m}
  IN  \E m \in {r.median} \cup (IF InC THEN {r.median + 1} ELSE {}) :
        /\ 2 * Cardinality(Less(m)) <= r.entries
        /\ 2 * Cardinality(Greater(m)) <= r.entries

(* What is reported of a result describes the times in it, after any       *)
(* number of attempts, clears and copies: its extremes, its mean and its   *)
(* median are those of the values its pointer leads to.                    *)
StatsDescribeValues ==
  \A i \in {1, 2} :
    LET r == obj[i]
    IN  Full(r) /\ r.values \notin freed =>
          /\ r.min = Min(Values(r)) /\ r.max = Max(Values(r))
          /\ r.min <= r.mean /\ r.mean <= r.max
          /\ IsMedian(r)

(* A test that is reported as passed publishes results that do pass: the   *)
(* times that go to the report are those of an attempt that met the        *)
(* criteria, and their memory was not freed.                               *)
PassedWhatIsPublished ==
  stage = "published" /\ (kept \/ verdict) =>
    \A i \in published : Passes(obj[i]) /\ obj[i].values \notin freed

(* The verdict and the score agree: when a test of one result passes, the  *)
(* times within the range contribute at least what a time at its upper end *)
(* does, so the consistency score has a lower bound.                       *)
PassMeansConsistent ==
  stage = "published" /\ (kept \/ verdict) /\ setup.kind # "multi" =>
    score.consistency >= ((score.count * setup.accept) \div 100) * (100 - setup.range)

(* A score is computed from all times of the published results, and its    *)
(* extremes are among them.  The C port counts one thread only, and none   *)
(* when the multi_thread test has failed.                                  *)
ScoreOfPublished ==
  stage = "published" /\ (InC => setup.kind # "multi") =>
    /\ score.count = Sum([i \in {1, 2} |-> IF i \in published THEN obj[i].entries ELSE 0], 2)
    /\ score.count > 0
    /\ {score.slowest, score.fastest} \subseteq UNION {Values(obj[i]) : i \in published}

-----------------------------------------------------------------------------
(* The inductive invariant.                                                *)
Stages == {"fill", "judged", "published", "abort"}

ResultsTypeOK ==
  /\ setup \in Setups
  /\ obj \in [{1, 2} -> [values : {1, 2}, entries : 0 .. setup.size, min : Nat, max : Nat,
                         updated : BOOLEAN, median : Nat, mean : Nat]]
  /\ heap \in [{1, 2} -> [1 .. setup.size -> Nat]]
  /\ freed \subseteq {1, 2}
  /\ stage \in Stages
  /\ kept \in BOOLEAN /\ verdict \in BOOLEAN
  /\ tries \in Nat
  /\ published \subseteq {1, 2}
  /\ score \in Scores

(* A result with times in array f: they are measured times, its extremes   *)
(* are the least and the greatest, and the statistics of a full result are *)
(* those of the array.                                                     *)
Describes(r, f) ==
  LET in == 1 .. r.entries
  IN  /\ \A n \in in : f[n] \in Times /\ r.min <= f[n] /\ f[n] <= r.max
      /\ r.entries > 0 => (\E n \in in : f[n] = r.min) /\ (\E n \in in : f[n] = r.max)
      /\ ~InC => (r.updated <=> r.entries > 0) /\ (r.entries = 0 => r.max = 0)
      /\ Full(r) => r.median = GetMedian(f, setup.size) /\ r.mean = ComputeMean(f, setup.size)

(* Each result has the array it was created with, and describes it.        *)
OwnArrays == \A i \in {1, 2} : obj[i].values = i /\ Describes(obj[i], heap[i])

(* What a verdict and a copy stand for until the results are published.    *)
VerdictInv ==
  /\ stage = "judged" => \A i \in Measured : Full(obj[i])
  /\ stage = "judged" /\ verdict =>
       (setup.kind = "search" => kept) /\ \A i \in Measured : Passes(obj[i])
  /\ kept => setup.kind = "search" /\ Full(obj[2]) /\ Passes(obj[2])
  /\ stage # "published" => freed = {}

ResultsIInv ==
  /\ ResultsTypeOK /\ OwnArrays /\ VerdictInv
  /\ PassedWhatIsPublished /\ PassMeansConsistent /\ ScoreOfPublished
=============================================================================
