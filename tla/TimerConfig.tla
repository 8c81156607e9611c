----------------------------- MODULE TimerConfig -----------------------------
(***************************************************************************)
(* The timer_config test of the three ports (timer_config.c,               *)
(* timer_config.cpp, TimerConfig.java).  It doubles the length of a sleep  *)
(* until the measured times meet the pass criteria and then searches for   *)
(* the least sleep that does.  While it runs, the C and Java ports replace *)
(* the percentages of the pass criteria, which all tests share.            *)
(*                                                                         *)
(* A run at a quantum is abstracted to its outcome: how the median stands  *)
(* to the clock accuracy, and whether the values meet the percentages.     *)
(* When the machine is regular the outcome meets both exactly from the     *)
(* quantum "least" on; when it is not, every run has any outcome.          *)
(* ConfigTests composes this test with the other config tests.             *)
(***************************************************************************)
EXTENDS Integers

CONSTANTS
  FirstQuantum,  \* NANOSLEEP_TIME
  Threshold,     \* bmtest->_threshold
  LongSleep      \* a bound: a sleep this long is longer than the clock step

VARIABLES
  env,        \* the port, the machine and the input file; never changes
  phase,      \* where the test is
  num,        \* num, the quantum that is doubled
  prev,       \* prev_num, the lower end of the search
  count,      \* failed attempts that count
  lo, hi,     \* start_quantum and stop_quantum
  published,  \* the quantum and the outcome of the run that is published
  failed,     \* quanta with a run that did not pass
  altered     \* the shared percentages are those of the config test

vars == << env, phase, num, prev, count, lo, hi, published, failed, altered >>

Ports == {"c", "cpp", "java"}

(* lax: the input file asks for less than the config test does; faulty:    *)
(* calls to the clock, to nanosleep or to the disk may fail.               *)
Envs == [port : Ports, regular : BOOLEAN, least : 0 .. LongSleep, lax : BOOLEAN,
         faulty : BOOLEAN]

Outcomes == [median : {"below", "at", "above"}, steady : BOOLEAN]

Good(o) == o.median = "above" /\ o.steady

(* The outcomes a run of quantum q may have.                               *)
Run(q) ==
  {o \in Outcomes : /\ q >= LongSleep => o.median = "above"
                    /\ env.regular => (Good(o) <=> q >= env.least)}

Nothing == [quantum |-> -1, outcome |-> [median |-> "below", steady |-> FALSE]]

(* previousQuantum of the C++ port has no initial value: before, inside or *)
(* after the range it should delimit.                                      *)
TooHigh == 4 * (FirstQuantum + LongSleep)
Garbage == {-2, 0, TooHigh}

Init ==
  /\ env \in Envs
  /\ phase = "start"
  /\ num = FirstQuantum
  /\ prev \in IF env.port = "cpp" THEN Garbage ELSE {0}
  /\ count = 0
  /\ lo = 0 /\ hi = 0
  /\ published = Nothing
  /\ failed = {}
  /\ altered = FALSE

(* The C and Java ports put the percentages of the config tests in place   *)
(* of laxer ones of the input file; the C++ port keeps its own copy.       *)
Start ==
  /\ phase = "start"
  /\ phase' = "double"
  /\ altered' = (env.port # "cpp" /\ env.lax)
  /\ UNCHANGED << env, num, prev, count, lo, hi, published, failed >>

Publish(q, o) == published' = [quantum |-> q, outcome |-> o]

(* One attempt of the doubling loop, with outcome o: it passes, it is the  *)
(* last one that counts, or the quantum is doubled.                        *)
Attempt(o, passes, counts, nextPrev) ==
  /\ phase = "double"
  /\ count' = IF counts /\ ~passes THEN count + 1 ELSE count
  /\ \/ /\ passes
        /\ phase' = "search"
        /\ lo' = prev /\ hi' = num
        /\ Publish(num, o)
        /\ UNCHANGED << num, prev, failed >>
     \/ /\ ~passes /\ counts /\ count' = Threshold
        /\ phase' = "finish"
        /\ Publish(num, o)
        /\ failed' = failed \cup {num}
        /\ UNCHANGED << num, prev, lo, hi >>
     \/ /\ ~passes /\ ~(counts /\ count' = Threshold)
        /\ num' = 2 * num /\ prev' = nextPrev
        /\ failed' = failed \cup {num}
        /\ UNCHANGED << phase, lo, hi, published >>
  /\ UNCHANGED << env, altered >>

-----------------------------------------------------------------------------
(* The doubling loop.  In the C port every attempt moves the lower end of  *)
(* the search, and only those above the clock accuracy count.              *)
\* A mutant: DoubleC that moves prev_num after the doubling.
DoubleCFromNext ==
  env.port = "c" /\ \E o \in Run(num) :
    Attempt(o, Good(o), o.median = "above", 2 * num)

DoubleC ==
  env.port = "c" /\ \E o \in Run(num) :
    Attempt(o, Good(o), o.median = "above", num)

(* The C++ port also accepts a median equal to the clock accuracy, and     *)
(* moves the lower end only after an attempt that counts.                  *)
DoubleCpp ==
  env.port = "cpp" /\ \E o \in Run(num) :
    LET long == o.median # "below"
    IN  Attempt(o, long /\ o.steady, long, IF long THEN num ELSE prev)

(* The Java port counts every attempt and searches from zero.  After the   *)
(* last attempt it doubles the quantum once more, and publishes that       *)
(* quantum with the times of the last one.                                 *)
DoubleJava ==
  /\ env.port = "java" /\ phase = "double"
  /\ count < Threshold
  /\ \E o \in Run(num) :
       IF Good(o)
         THEN Attempt(o, TRUE, TRUE, 0)
         ELSE /\ count' = count + 1
              /\ num' = 2 * num
              /\ Publish(num', o)
              /\ phase' = IF count' = Threshold THEN "finish" ELSE "double"
              /\ failed' = failed \cup {num}
              /\ UNCHANGED << env, prev, lo, hi, altered >>

(* A run aborts the program when nanosleep fails, and in the C port when   *)
(* the clock does: an attempt of the doubling loop or a probe of the       *)
(* search.                                                                 *)
RunFails ==
  /\ env.faulty /\ env.port # "java"
  /\ phase = "double" \/ (phase = "search" /\ lo <= hi)
  /\ phase' = "abort"
  /\ UNCHANGED << env, num, prev, count, lo, hi, published, failed, altered >>

(* A sleep that is interrupted ends the test with no result.               *)
InterruptJava ==
  /\ env.port = "java" /\ phase = "double"
  /\ phase' = "null"
  /\ UNCHANGED << env, num, prev, count, lo, hi, published, failed, altered >>

-----------------------------------------------------------------------------
(* The binary search.  Integer division of C, C++ and Java drops the       *)
(* fraction towards zero.                                                  *)
Half(n) == IF n < 0 THEN -((-n) \div 2) ELSE n \div 2

(* The Java port does not compare with the clock here.                     *)
Accepts(o) == IF env.port = "java" THEN o.steady ELSE Good(o)

Probe(mid, next) ==
  \E o \in Run(mid) :
    IF Accepts(o)
      THEN Publish(mid, o) /\ hi' = mid - 1 /\ UNCHANGED << lo, failed >>
      ELSE failed' = failed \cup {mid} /\ lo' = next /\ UNCHANGED << hi, published >>

(* nanosleep refuses a negative time, and the test aborts.                 *)
Search ==
  /\ phase = "search" /\ lo <= hi
  /\ LET mid == Half(lo + hi)
     IN  \/ mid >= 0 /\ Probe(mid, mid + 1) /\ UNCHANGED phase
         \/ mid < 0 /\ phase' = "abort" /\ UNCHANGED << lo, hi, published, failed >>
  /\ UNCHANGED << env, num, prev, count, altered >>

SearchDone ==
  /\ phase = "search" /\ lo > hi
  /\ phase' = "finish"
  /\ UNCHANGED << env, num, prev, count, lo, hi, published, failed, altered >>

\* A mutant: Finish that forgets the percentages.
FinishWithoutRevert ==
  /\ phase = "finish"
  /\ phase' = "end"
  /\ UNCHANGED << env, num, prev, count, lo, hi, published, failed, altered >>

Finish ==
  /\ phase = "finish"
  /\ phase' = "end"
  /\ altered' = FALSE
  /\ UNCHANGED << env, num, prev, count, lo, hi, published, failed >>

Next ==
  \/ Start
  \/ DoubleC
  \/ DoubleCpp
  \/ DoubleJava
  \/ RunFails
  \/ InterruptJava
  \/ Search
  \/ SearchDone
  \/ Finish

-----------------------------------------------------------------------------
(* "Perform binary search and find out least quantum of work that needs to *)
(* be done in order to get the test pass."  On a regular machine the C     *)
(* port publishes the least quantum that passes; on any machine the        *)
(* quantum below the published one failed, unless it was out of range.  So *)
(* does the C++ port when its uninitialised lower end is not too high.     *)
Bracketed == env.port = "c" \/ (env.port = "cpp" /\ prev <= num)

(* And the outcome is that of a run of the published quantum, good or not. *)
LeastQuantum ==
  phase \in {"finish", "end"} =>
    /\ Bracketed /\ Good(published.outcome) =>
         /\ env.regular => published.quantum = env.least
         /\ published.quantum = prev \/ published.quantum - 1 \in failed
    /\ env.regular /\ env.port # "java" =>
         Good(published.outcome) <=> published.quantum >= env.least

-----------------------------------------------------------------------------
(* What makes LeastQuantum inductive, part by part.                        *)
Numbers ==
  /\ num \in Nat \ {0} /\ prev \in Int
  /\ count \in 0 .. Threshold
  /\ lo \in Int /\ hi \in Int
  /\ failed \subseteq Nat

TypeOK ==
  /\ Numbers
  /\ env \in Envs
  /\ phase \in {"start", "double", "search", "finish", "end", "null", "abort"}
  /\ published \in [quantum : Int, outcome : Outcomes]
  /\ altered \in BOOLEAN

(* No attempt is made beyond the threshold, the percentages are those of   *)
(* the input file before and after the test, and the test aborts when a    *)
(* run fails or, in the C++ port, for want of an initial lower end.        *)
PhaseInv ==
  /\ phase \in {"start", "double"} => count < Threshold
  /\ phase \in {"start", "end"} \/ env.port = "cpp" => ~altered
  /\ phase = "null" => env.port = "java"
  /\ phase = "abort" =>
       env.port # "java" /\ (env.faulty \/ (env.port = "cpp" /\ prev < 0))

(* A regular machine fails below the least quantum only, and what is       *)
(* published is the outcome of its quantum.                                *)
OutcomeInv ==
  env.regular =>
    /\ \A q \in failed : q < env.least
    /\ phase \in {"search", "finish", "end"} /\ env.port # "java" =>
         (Good(published.outcome) <=> published.quantum >= env.least)

(* The lower end of the search is a quantum that has failed or where it    *)
(* was at first; too high it is only while the quanta are low.             *)
LowerEndInv ==
  /\ prev \in failed \/ prev = 0
       \/ (env.port = "cpp" /\ (prev = -2 \/ (prev = TooHigh /\ 2 * num < TooHigh)))
  /\ env.port = "c" => prev <= num
  /\ env.port # "cpp" /\ phase = "search" => lo >= 0

(* The search keeps the least quantum that is not known to fail between lo *)
(* and hi + 1, where the published one is; before one was accepted in the  *)
(* search the published one is hi.                                         *)
SearchInv ==
  phase = "search" =>
    /\ published.quantum >= 0
    /\ lo = prev \/ lo - 1 \in failed
    /\ \/ hi = published.quantum - 1
       \/ /\ hi = num /\ published.quantum = num
          /\ lo > hi => prev >= num \/ num - 1 \in failed
    /\ Bracketed => lo <= hi + 1

IInv == TypeOK /\ PhaseInv /\ OutcomeInv /\ LowerEndInv /\ SearchInv /\ LeastQuantum

=============================================================================
