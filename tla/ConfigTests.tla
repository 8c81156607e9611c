----------------------------- MODULE ConfigTests -----------------------------
(***************************************************************************)
(* The config tests of the C port (config_test/) and of the C++ port       *)
(* (config_tests/): clock, integer rate, float rate, memory cache, disk    *)
(* read and disk write, composed with the timer test of TimerConfig.  The  *)
(* harness runs them one after the other in the order of the input file.   *)
(*                                                                         *)
(* All but the clock and the timer double an amount of work until the      *)
(* median time of a round exceeds the accuracy of the clock and the values *)
(* meet the percentages, or Threshold rounds above the clock have not.     *)
(* What the tests share is the result of the clock test, the percentages   *)
(* and the name of the temporary file.  The Java port is here for its      *)
(* timer test only.                                                        *)
(*                                                                         *)
(* A round is abstracted to its outcome; work from machine.long units on   *)
(* is above the clock.  An int has Width bits; the overflow of a signed    *)
(* int is undefined and wraps around in the builds at hand.                *)
(***************************************************************************)
EXTENDS Integers, FiniteSets

CONSTANTS
  Threshold,     \* bmtest->_threshold
  Width,         \* the width of an int
  FirstRate,     \* the 100 operations of the first round, in units
  FirstArray,    \* DEF_ARRAY_SIZE in units
  BlockSize,     \* get_block_size() in units
  Speeds,        \* the values of machine.long
  FirstQuantum,  \* NANOSLEEP_TIME
  LongSleep,     \* a bound of TimerConfig
  MaxTests       \* a bound on the tests of one run of the program

ASSUME ConfigTestsAssumption ==
  /\ {Threshold, Width, FirstRate, FirstArray, BlockSize} \subseteq Nat \ {0}
  /\ {FirstQuantum, LongSleep, MaxTests} \subseteq Nat \ {0}
  /\ Speeds \subseteq Nat \ {0}

VARIABLES
  env, tphase, tnum, prev, tcount, lo, hi, published, failed, altered,
  machine,    \* how long work is above the clock; whether the clock is coarse
  current,    \* the test that runs, "idle", or how the program ends
  ran,        \* the tests that have begun
  table,      \* the tests that have a result in the table
  num,        \* num or sub_iters of the test that runs
  count,      \* its rounds that count
  file,       \* units in the temporary file, -1 when there is none
  last,       \* the result that was added last, and the work it was measured on
  unfair      \* tests judged with no clock or by another test's percentages

Timer == INSTANCE TimerConfig WITH phase <- tphase, num <- tnum, count <- tcount

timerVars == << env, tphase, tnum, prev, tcount, lo, hi, published, failed, altered >>
loopVars == << num, count, file, last, unfair >>
vars == << timerVars, machine, current, ran, table, loopVars >>

Max(a, b) == IF a < b THEN b ELSE a

(* The value of the int that the arithmetic leaves.                        *)
Wrap(n) == LET m == n % 2^Width IN IF m < 2^(Width - 1) THEN m ELSE m - 2^Width

Doubling == {"int_rate", "float_rate", "mcache", "disk_read", "disk_write"}

NoResult == [test |-> "none", amount |-> 0, work |-> 0]

Init ==
  /\ Timer!Init
  /\ machine \in [long : Speeds, coarse : BOOLEAN]
  /\ current = "idle" /\ ran = {} /\ table = {}
  /\ num = 0 /\ count = 0
  /\ file = -1 /\ last = NoResult /\ unfair = {}

-----------------------------------------------------------------------------
(* The harness starts a test that has not run.                             *)
MayBegin(test) == current = "idle" /\ test \notin ran /\ Cardinality(ran) < MaxTests

Running(port, test) == env.port = port /\ current = test

Stop(state) == current' = state /\ UNCHANGED << ran, table, loopVars >>

(* get_min_exec_time of the C port needs the result of the clock test;     *)
(* getClockAccuracy of the C++ port answers -1 without it.                 *)
NoClock == "clock" \notin table

GetMinExecTime(go) == IF NoClock THEN Stop("crash") ELSE go

(* A test begins with its first amount of work.                            *)
Set(test, first) ==
  /\ current' = test /\ ran' = ran \cup {test}
  /\ num' = first /\ count' = 0
  /\ last' = NoResult
  /\ UNCHANGED << table, file, unfair >>

Begin(port, test, first) ==
  /\ env.port = port /\ MayBegin(test)
  /\ IF port = "c" THEN GetMinExecTime(Set(test, first)) ELSE Set(test, first)

(* How the median of a round of this work may stand to the clock.  A round *)
(* of no work takes no longer than the clock itself.                       *)
ExceedsClock(work) ==
  IF NoClock THEN {TRUE}
  ELSE IF work <= 0 THEN {FALSE}
  ELSE IF work >= machine.long THEN {TRUE}
  ELSE BOOLEAN

AddResult(amount, work) ==
  /\ table' = table \cup {current}
  /\ last' = [test |-> current, amount |-> amount, work |-> work]
  /\ current' = "idle"
  /\ num' = 0 /\ count' = 0

\* A mutant: Retry that forgets how many rounds have failed.
RetryAfresh(long) ==
  /\ num' = Wrap(2 * num) /\ count' = 0
  /\ UNCHANGED << current, table, last >>

Retry(long) ==
  /\ num' = Wrap(2 * num)
  /\ count' = IF long THEN count + 1 ELSE count
  /\ UNCHANGED << current, table, last >>

\* A mutant: Round that publishes the amount of the next round.
RoundPublishingNext(amount, work) ==
  \E long \in ExceedsClock(work), steady \in BOOLEAN :
    /\ IF long /\ (steady \/ count + 1 = Threshold)
         THEN AddResult(Wrap(2 * amount), work)
         ELSE Retry(long)
    /\ unfair' = IF long /\ (NoClock \/ altered) THEN unfair \cup {current} ELSE unfair
    /\ UNCHANGED ran

(* A round that measures work and would publish amount: above the clock it *)
(* passes, is the last one, or is repeated with twice the work like one    *)
(* below the clock.                                                        *)
Round(amount, work) ==
  \E long \in ExceedsClock(work), steady \in BOOLEAN :
    /\ IF long /\ (steady \/ count + 1 = Threshold)
         THEN AddResult(amount, work)
         ELSE Retry(long)
    /\ unfair' = IF long /\ (NoClock \/ altered) THEN unfair \cup {current} ELSE unfair
    /\ UNCHANGED ran

(* The C port gives up without a result when the clock fails.              *)
ClockFails == env.faulty /\ Stop("idle")

(* A file that cannot be opened, filled, read or written in full aborts    *)
(* the program.                                                            *)
DiskFails == env.faulty /\ Stop("abort")

-----------------------------------------------------------------------------
(* The clock test is a single round, whose verdict nobody reads.           *)
RunClock(port) ==
  /\ env.port = port /\ MayBegin("clock")
  /\ ran' = ran \cup {"clock"}
  /\ table' = table \cup {"clock"}
  /\ UNCHANGED loopVars

ClockC == RunClock("c") /\ UNCHANGED current

(* The C++ port asserts that the clock has a resolution.                   *)
ClockCpp ==
  /\ RunClock("cpp")
  /\ current' = IF machine.coarse THEN "abort" ELSE current

(* A loop of num operations; the C port looks at the clock.                *)
RateRound(n) ==
  \/ Round(n, Max(0, n)) /\ UNCHANGED file
  \/ env.port = "c" /\ ClockFails

IntRateC ==
  \/ Begin("c", "int_rate", FirstRate)
  \/ Running("c", "int_rate") /\ RateRound(num)

FloatRateC ==
  \/ Begin("c", "float_rate", FirstRate)
  \/ Running("c", "float_rate") /\ RateRound(num)

IntRateCpp ==
  \/ Begin("cpp", "int_rate", FirstRate)
  \/ Running("cpp", "int_rate") /\ RateRound(num)

FloatRateCpp ==
  \/ Begin("cpp", "float_rate", FirstRate)
  \/ Running("cpp", "float_rate") /\ RateRound(num)

(* An array of num bytes; no array has a negative size.                    *)
McacheC ==
  \/ Begin("c", "mcache", FirstArray)
  \/ /\ Running("c", "mcache")
     /\ IF num < 0 THEN Stop("abort")
        ELSE (Round(num, num) /\ UNCHANGED file) \/ ClockFails

McacheCpp ==
  \/ Begin("cpp", "mcache", FirstArray)
  \/ /\ Running("cpp", "mcache")
     /\ IF num <= 0 THEN Stop("abort") ELSE Round(num, num) /\ UNCHANGED file

-----------------------------------------------------------------------------
(* The disk tests: num sub-iterations over a block.                        *)
Work == BlockSize * Max(0, num)

Amount == Wrap(BlockSize * num)

(* The file that is left when the test ends (here) or goes on (there).     *)
LeavesFile(here, there) == file' = IF current' = "idle" THEN here ELSE there

\* A mutant: DiskReadC that fills the file before the first round only.
DiskReadCFilledOnce ==
  \/ Begin("c", "disk_read", 2)
  \/ /\ Running("c", "disk_read")
     /\ LET filled == IF num = 2 THEN Max(0, Amount) ELSE file
        IN  IF filled < Work THEN Stop("short_read")
            ELSE Round(Amount, Work) /\ LeavesFile(-1, filled)

(* The file is filled before every round and removed at the end of the     *)
(* test.  A short read aborts the program, and so does a clock that fails. *)
DiskReadC ==
  \/ Begin("c", "disk_read", 2)
  \/ /\ Running("c", "disk_read")
     /\ LET filled == Max(0, Amount)
        IN  IF filled < Work THEN Stop("short_read")
            ELSE Round(Amount, Work) /\ LeavesFile(-1, filled)
  \/ Running("c", "disk_read") /\ DiskFails

(* Nothing looks at a clock that fails here, but a short write aborts.     *)
DiskWriteC ==
  \/ Begin("c", "disk_write", 1)
  \/ Running("c", "disk_write") /\ Round(Amount, Work) /\ LeavesFile(-1, Work)
  \/ Running("c", "disk_write") /\ DiskFails

(* The C++ port also allocates a buffer of the whole size, and removes the *)
(* file after a round that is repeated only.                               *)
DiskReadCpp ==
  \/ Begin("cpp", "disk_read", 2)
  \/ /\ Running("cpp", "disk_read")
     /\ IF Amount < 0 THEN Stop("abort")
        ELSE Round(Amount, Work) /\ LeavesFile(Work, -1)
  \/ Running("cpp", "disk_read") /\ DiskFails

DiskWriteCpp ==
  \/ Begin("cpp", "disk_write", 2)
  \/ Running("cpp", "disk_write") /\ Round(Amount, Work) /\ LeavesFile(Work, -1)
  \/ Running("cpp", "disk_write") /\ DiskFails

-----------------------------------------------------------------------------
(* The timer test takes its steps in TimerConfig.                          *)
BeginTimer ==
  /\ MayBegin("timer")
  /\ IF env.port = "c" THEN GetMinExecTime(Set("timer", 0)) ELSE Set("timer", 0)
  /\ UNCHANGED timerVars

TimerStep ==
  /\ current = "timer"
  /\ Timer!Next
  /\ unfair' = IF NoClock /\ env.port # "java" THEN unfair \cup {"timer"} ELSE unfair
  /\ UNCHANGED << current, ran, table, num, count, file, last >>

TimerReturns ==
  /\ current = "timer" /\ tphase \in {"end", "null", "abort"}
  /\ current' = IF tphase = "abort" THEN "abort" ELSE "idle"
  /\ table' = IF tphase = "end" THEN table \cup {"timer"} ELSE table
  /\ UNCHANGED << timerVars, ran, loopVars >>

(* The input file need not hold every test.                                *)
NoMoreTests == current = "idle" /\ Stop("end")

WorkTests ==
  \/ ClockC \/ ClockCpp
  \/ IntRateC \/ IntRateCpp
  \/ FloatRateC \/ FloatRateCpp
  \/ McacheC \/ McacheCpp
  \/ DiskReadC \/ DiskReadCpp
  \/ DiskWriteC \/ DiskWriteCpp
  \/ NoMoreTests

Next ==
  /\ \/ WorkTests /\ UNCHANGED timerVars
     \/ BeginTimer
     \/ TimerStep
     \/ TimerReturns
  /\ UNCHANGED machine

Spec == Init /\ [][Next]_vars

FairSpec == Spec /\ WF_vars(Next)

-----------------------------------------------------------------------------
(* TimerConfig: the published sleep is the least that passes, and was      *)
(* measured.                                                               *)
LeastQuantum == Timer!LeastQuantum

(* No int overflows: the first round certain to be above the clock, and    *)
(* all the rounds that may fail after it, fit.                             *)
First(test) ==
  CASE test \in {"int_rate", "float_rate"} -> FirstRate
    [] test = "mcache" -> FirstArray
    [] test = "disk_read" -> 2 * BlockSize
    [] test = "disk_write" -> 2 * BlockSize

Fits(test) == Max(First(test), machine.long) * 2^Threshold <= 2^(Width - 1)

(* What a config test reports is the work it has measured: the amount that *)
(* stands in the table is that of the round whose times stand there, and   *)
(* some work was done; when an int overflows, that much only if the clock  *)
(* test has run.                                                           *)
ResultsMeasured ==
  last.test \in Doubling =>
    /\ Fits(last.test) => last.amount = last.work /\ last.work > 0
    /\ last.test \notin unfair => last.work > 0

(* Every test is judged by the accuracy of the clock and by the            *)
(* percentages of the input file.  Only the C++ port goes on when the      *)
(* clock test has not run before.                                          *)
FairlyJudged == unfair # {} => env.port = "cpp"

(* A test ends the program for one of these reasons only: a C port with no *)
(* clock test; a coarse clock or the uninitialised lower end of the timer  *)
(* test in the C++ port; a call that fails in the timer test or a disk     *)
(* test; an int that overflows.  So on a machine where no call fails the C *)
(* port, once it has run the clock test, is ended by overflow alone.       *)
AbortsExplained ==
  /\ current = "crash" => env.port = "c" /\ NoClock
  /\ current = "short_read" => env.port = "c" /\ ~Fits("disk_read")
  /\ current = "abort" =>
       \/ env.port = "cpp" /\ (machine.coarse \/ (tphase = "abort" /\ prev < 0))
       \/ env.faulty /\ (ran \ table) \cap {"timer", "disk_read", "disk_write"} # {}
       \/ \E test \in {"mcache", "disk_read"} \cap (ran \ table) : ~Fits(test)

(* What makes these inductive, part by part.  A test that runs has begun   *)
(* once, has no result yet, and is there in its port; the C port has a     *)
(* clock for it.                                                           *)
RunInv ==
  /\ current \in {"idle", "timer", "end", "crash", "abort", "short_read"} \cup Doubling
  /\ table \subseteq ran
  /\ current \in Doubling \cup {"timer"} => current \in ran \ table
  /\ current \in Doubling => env.port # "java"
  /\ current \in Doubling \cup {"timer"} /\ env.port = "c" => ~NoClock
  /\ current \notin {"timer", "abort"} => tphase \in {"start", "end", "null"}

(* The work of the next round, as a positive int.                          *)
Units(test) == IF test \in {"disk_read", "disk_write"} THEN BlockSize * num ELSE num

WorkInv ==
  /\ num \in Int /\ machine.long \in Nat \ {0}
  /\ current \in Doubling =>
       /\ count \in 0 .. Threshold - 1
       /\ Fits(current) =>
            num > 0 /\ Units(current) < Max(First(current), machine.long) * 2^(count + 1)

IInv ==
  /\ Timer!IInv
  /\ RunInv /\ WorkInv /\ FairlyJudged /\ ResultsMeasured /\ AbortsExplained

Ended == current \in {"end", "crash", "abort", "short_read"}

(* The doublings end when no int overflows.                                *)
AllFit ==
  \A n \in {FirstRate, FirstArray, 2 * BlockSize, machine.long} :
    n * 2^Threshold <= 2^(Width - 1)

Ends == <>(Ended \/ ~AllFit)
=============================================================================
