# A verification project for RTMB

RTMB (Real Time Micro Benchmark) measures how fit a machine is for real-time
work. It exists three times, as a C program (`src/rtmb_c`), a C++ program
(`src/rtmb_cpp`) and a Java program (`src/rtmb_java`), with a few Java tools
that format reports (`src/rtmb_tools`). Each port is a harness that reads a
command line and an input file, runs *config tests* that calibrate the machine
and then *tests*, and scores the results. The tests are where the concurrency
is: they start threads at real-time priorities, line them up, measure, and
decide whether to measure again.

## 1. Inventory

| component | state it keeps | operations | hard behaviours | correct when |
|---|---|---|---|---|
| start gate (C, C++) | a static counter, `tsyncers` (mutex, condition variable), `parent_sema` (the same) | `lock_inc_counter`, `lock_dec_counter`, the parent's polling, broadcast and waiting loop | waits without predicates, a counter read without a lock, one broadcast and one signal that may find nobody | nobody measures before everybody is there; the broadcast reaches everybody; the parent always goes on |
| multi_thread test (C, C++) | one result a thread, a consolidated result, the attempt number | `multi_thread`, `run_multi_thread_test`, `create_multi_threads`, `start_multi_thread_test`, `cleanup` | retries over static state, clock failures inside a worker, freeing the synchronisers | the last thread measures alone; a pass rests on measurements of every thread |
| thread_priority test (C, C++) | one result a priority (first and last stop time) | `thread_priority`, `create_start_threads`, `_start` | the verdict is about an order of events of many threads | the verdict is taken over all threads; a failure means an inversion |
| event_dispatch test (C, C++, Java) | `is_receiver_started`, two mutexes and condition variables, arrays of times | `signal_sender_start`, `signal_receiver_start`, `run_event_dispatch_test`, `event_dispatch` | a hand-over without predicates that works only because of who holds the lock when; clocks read with or without it | no signal is lost; each time covers exactly its round trips; runs are independent |
| timer_config test (all ports) | the quantum, the search range, the shared percentages | doubling, binary search, the return paths | a noisy predicate, an uninitialised bound, shared data altered for the duration of the test | the published quantum is the least that passes; the percentages are put back |
| other config tests (C, C++) | an amount of work, a result, a temporary file | run, judge, double, retry | int overflow of the amount, a missing clock result, a file that is shorter than what is read | they end, with a result that belongs to the work that was measured, judged by the clock and the percentages of the input file |
| net_io test (C, C++) | two sockets, `stay_alive`, a server thread, message sizes and counts on both sides | connect with retries, echo, doubling, clean-up | the clean-up paths against a running server, messages in pieces | messages stay whole; the server uses no freed memory; times are those of answers; both ends stop |
| multi_cpu test (C++, Java) | children or helper threads, a counter, files, a shared start time | fork or start, measure, reap or await, scan | children that die or keep silent, children of earlier attempts, helpers that count themselves | every helper is waited for and what is judged is theirs |
| GarbageGenerationTest (Java) | a static counter, results of the workers | increment, decrement, await | one counter under two locks | as above |
| periodic_event test (C, C++) | a timer, `done`, `events_fired`, an array of times | arm, handler, wait, disarm and delete | the handler runs in any thread, in two at a time, and later than its attempt | the times are those of this attempt's timer; the array is not overrun; the wait ends; no timer is left |
| Java gates (MultiThreadTest, ThreadPriorityTest) | a counter object, a monitor, static flags | monitors `wait`/`notifyAll`, `join` | notifications before the wait, values read before `join` | as for the start gate |
| result management (`result_mgmt.c`, TestResults, TestResultUtils) | entries, extremes, median, mean; copies | `add_entry`, `check_pass_criteria`, `free_chain`, `clone_results`, `generate_combined_score` | statistics that outlive the values, shared arrays, verdicts over empty results | statistics describe the values; what is reported as passed does pass; a score is made of what is published |
| harness (all ports) | the list of tests, their iterations, the -t list, the result table | parse, run config tests, run tests, score | order of tests decided by list reversal, iterations multiplied in place, statuses ignored | config tests run first and once; each test runs as often and as long as asked for |
| NetIOTest, CompilationTest, RTSJ tests (Java), lock_consistency, time_accuracy | small | see "Not modelled" | | not modelled |
| reporting, report tools | none of their own | print | none | not modelled |

How they interact: the harness loads each test as a shared object (C, C++) or
a class made by a factory (Java), in a thread of its own that it joins, so tests
never overlap and the concurrency is inside a test, apart from signal handlers,
children and connections that outlive one. Tests read the result table (the
clock accuracy from clock_config, the ideal sleep from timer_config) and the
shared acceptable percentages, and return their results to the harness, which
stores and scores them.

The hazards this code is exposed to, each at its line, are in `PROJECT.json`
under `hazards`, with the properties that cover them or the reason why none does.

## 2. Modules

| module | models | uses |
|---|---|---|
| `StartGate` | the counter, `tsyncers` and `parent_sema`: one action per lock section or unlocked read | |
| `MultiThread`, `MCMultiThread` | the multi_thread test of the C and C++ ports, its instance | extends `StartGate` |
| `ThreadPriority`, `MCThreadPriority` | the thread_priority test of both ports, its instance | extends `StartGate` |
| `PingPong` | abstract specification: control goes back and forth | |
| `EventDispatch` | the event_dispatch test of the three ports | instantiates `PingPong` |
| `TimerConfig` | the timer_config test of the three ports | |
| `ConfigTests` | the sequence of config tests of the C and C++ ports | instantiates `TimerConfig` |
| `NetIO` | the net_io test of both ports, client and server | |
| `PeriodicEvent` | the periodic_event test of both ports, the timer and the handler | |
| `Helpers` | the multi_cpu tests of the C++ and Java ports and GarbageGenerationTest | |
| `JavaGate`, `MCJavaGate` | the gates of MultiThreadTest and ThreadPriorityTest, their instance | |
| `Results` | results over attempts, clears, copies and scores, in both ports | |
| `Harness`, `MCHarness` | the harness of the three ports, its instance | |
| `StartGateProofs` | theorems on the two tests that use the gate | extends `MultiThread`, `ThreadPriority`, `TLAPS` |
| `ScoreProofs` | theorems on results and on the harness, and on the sums, sorted arrays and selected lists they are made of | extends `Results`, `Harness`, `TLAPS` |
| `EventDispatchProofs`, `ConfigTestsProofs`, `NetIOProofs`, `PeriodicEventProofs`, `HelpersProofs`, `JavaGateProofs` | theorems and their proofs | extend their modules, `TLAPS`; `ConfigTestsProofs` is also about `TimerConfig` |

The inductive invariant that a proof rests on (`IInv` and its parts) stands at the
end of the module it is about, next to the properties, so that TLC can check it.
`ThreadPriority` and `Results` name their specification and invariants
`PrioritySpec`, `PriorityTypeOK`, `ResultsSpec`, `ResultsIInv`, ..., so that one
module of proofs can extend them and `MultiThread` or `Harness`, whose names are
`Spec`, `TypeOK` and `IInv`.

Definitions whose comment starts with "A mutant:" are not part of any
specification. Each is a plausible mistake in the definition after it, and
serves to show that a property would notice that mistake.

### StartGate

`counter` is the static counter, `tmutex` the owner of `tsyncers->mutex`, `tpc`
and `ppc` the places of the threads and the parent. A worker holds the mutex
from its increment to its wait (`IncCounter`, `WaitForStart`), and across the
call that signals the parent (`DecCounter`, `SignalParent`); these are separate
steps because others may run in between. The sections under `parent_sema->mutex`
contain a single call each, so one step stands for lock, call and unlock. The
parent's reads of the counter (`PollCounter`, `DrainCheck`) are made without a
lock and are steps of their own. The deadline of the parent's
`pthread_cond_timedwait` is an absolute time in 1970: the wait returns at once.
`env` holds what differs between runs but never within one: the port, whether
wakeups may be spurious, whether `get_cur_time` may fail. `Gated` are the threads
that go through the gate, `Solo` the last thread of multi_thread, which does not.

### MultiThread

The code's times are not modelled; whether a result meets the criteria is a free
choice, except that a result with no entry always does (`check_pass_criteria`,
`num_entries` 0). `entries`, `summary`, `ret`, `attempts` and `published` follow
`num_entries` of the two kinds of results, `ret`, `retry_number` and what is handed
to the result table. The C++ port differs where the module's header says so.

### ThreadPriority

The clock is abstracted to the order of the stop times, which is all the verdict
looks at; `reported` is what the result table gets. All threads are `Gated`. No
scheduler is modelled: an order that a correct real-time scheduler
forbids is possible, which is the point, as the test exists to detect it.

### EventDispatch

`nlock` is the owner of `wait_notify_lock`; a thread that waits on
`wait_notify_condn` releases it. `spurious` says whether waits may return on their
own, `port` whose code it is; neither changes within a behaviour. Of the safety
properties `SignalsFindWaiters` and `TimedRoundTrips` begin with `~spurious`.
`sent`, `answered`, `began` and `timed` are history variables: they count signals
and remember when the sender started its clock. The ports differ in when they read
it: the C port twice with the lock held, the C++ port the second time after
unlocking (`signal_notifier.cpp:67`), the Java port before it has the lock and after
it has let it go (`SenderReadsClock`, `SenderRecords`). The receiver may be in its
next major iteration then, and `TimedRoundTrips` says that the interval covers the
round trips of this one all the same. Java's `wait`, `notify` and `synchronized` are
used as the condition variables and the mutex are. The refinement maps
`sent = answered` to "the sender has control".

### TimerConfig and ConfigTests

A run at a quantum is reduced to its outcome: below, at or above the clock
accuracy, and steady or not. On a *regular* machine the outcome is good exactly
from some quantum on; otherwise any outcome is possible at any time, up to the
bound `LongSleep`, from which on a sleep is longer than the clock step. A run may
also abort the program, in the doubling or in the search (`RunFails`): in the C port
when the clock or `nanosleep` fails, in the C++ port when `nanosleep` does.

`ConfigTests` runs up to `MaxTests` config tests in any order, the timer test in the
steps of `TimerConfig` (`Timer == INSTANCE ...`), with what they share: the result
table, the percentages, the temporary file. An `int` has `Width` bits and wraps
around as the builds do. `machine.long` is the work from which on a round is above
the clock; `file` is the length of the temporary file, as its two loops write and
read it; `last` and `unfair` are history variables: the work behind the last result,
and the tests that were judged without a clock accuracy or by the percentages of the
timer test. `Fits` says that the first round certain to be above the clock, and all
that may fail after it, have their amount in an `int`; without a clock accuracy the
C++ port takes every round for long, and of a first round that does not fit nothing
is promised. The uninitialised lower end of the C++ timer test has a value before,
in or after every range the search may start with (`Garbage`). `env.faulty` says
whether calls to the clock, to `nanosleep` or to the disk may fail: then the rate
tests of the C port give up without a result (`ClockFails`), and a file that cannot
be opened, filled, read or written in full aborts the program in both ports
(`DiskFails`). `AbortsExplained` lists the reasons for which a test may end the
program. On a machine where no call fails it leaves the C port, with a clock result,
none but the overflow, and the C++ port a coarse clock and the lower end besides.
Memory that cannot be allocated is not modelled.

### NetIO

The sockets are external and modelled by what the code relies on: `bound` (which
run's server listens on the port), `conn`, `up` and `down` (units under way in each
direction), `shut` and `broken`. A message is its length in units; `recv` returns
any part of what has arrived; that of the server does so only if `env.pieces`.
`offset` is how far the server has moved `buffer` on after a part, `SendFrom` where
its answer starts: the C port sends `rcv_msg`, the C++ port `msgSize` bytes from
`buffer` (`net_io_config.cpp:246-248`, `:266`). Of the content of an answer the
model keeps what that makes of it (`answer`, a history variable): the message that
was received, the bytes from further on in the buffer (`"shifted"`), or less than
that, where the bytes beyond the buffer cannot be read, `send` does not send all and
the server leaves (`"cut"`, `ServerReadsBeyond`). So `WholeMessages` says two
things: on both ends each message and each answer has the length the other expects;
and the answer is the message received, in the C port however `recv` cuts it, in the
C++ port only where the server's `recv` returns it in one piece. `stay` is
`stay_alive` or says that `serv_args` was freed; reading it then gives any value.
`env.slow` allows a thread to be held up for longer than the ten seconds after which
the other one gives up. `short` (history) counts the times recorded for an answer
that did not arrive whole. `RunAgain` is a second run in the same process, which
meets the listening socket that the first may have left.

### PeriodicEvent

The signal of the timer is directed at the process and blocked by no thread, so
the kernel may run the handler in the thread of the test or in the main thread
of the harness, which waits in `pthread_join` (`env.elsewhere`). The handler
is a step for each access of a variable: the builds are made without
optimisation (`common/setup.linux:47`), and `events_fired += 1` is a read and a
write. Expirations while a signal is pending are lost, and a deleted timer may
leave its signal. `from` says which timer a handler was called for, and so what
its time is worth. `crossed`, `overlapped` and `robbed` are history variables:
a handler or signal has outlived its attempt, two handlers have run at a time, a
handler has deleted the timer of a later attempt. A handler that cannot read its clock
aborts the program (`ClockFails`), and its timers and signals go with it.

What the C port does after the wait is modelled as it is: it sets the timer to
an absolute time that is over, so that it expires once more, and then deletes it
a second time. Both ports differ in the order of the two resets, in the last
attempt (the C++ port makes one attempt less than the threshold) and in an early
return (`return ERROR` of a `bool` function, which its caller takes for true).

### Helpers

Three tests in one module because they do the same thing with different means:
start helpers for every CPU, wait, read what they left. `helper[k][i]` is the
state of helper `i` of attempt `k`; `file` is what a measured helper has left,
by the attempt it is from. `counter` is the count of the two Java tests, `left`
is `childsToExit`. Monitors are steps except where two locks guard one
variable: the increment of GarbageGenerationTest is a read and a write, and so
is the decrement, whose lock is held in between. `spoils` (history) notes a
child that was left behind, a child that ended well without having measured, and
a lost update.

### JavaGate

A Java monitor gives what the C ports lack: the flag is tested in a loop with the
lock held, and the parent of MultiThreadTest notifies and waits in one
`synchronized` block. A block is one step, except that a worker's increment of
the counter and its test of the flag are two, since the parent reads the one and
writes the other without the lock. `mon` is the owner of the lock between the
two. `notify` wakes any one waiter. A *run* is a turn of the loop of
MultiThreadTest or one ThreadPriorityTest; runs follow each other in any order,
over the same static flag and counter. `stopTime` is reduced to whether it is
set (`stopped`), `stale` records the workers whose stop time was read before.
`canStartWork` of `WorkerThread` is not volatile, so a worker that holds the lock
may miss it until the parent has had the lock; the counter is not volatile
either, and is read here as if it were.

### Results

Results are records that point into `heap`, so that a copy may share an array
and a freed array may be used. Tests use results in three ways (`setup.kind`): one
result that is judged and cleared until it passes, one with a copy of the last
attempt that passed, and one a thread. `setup` also has the port, `max_entries` and
the two percentages; `stage` says whether the test measures, has judged or has
published. A median is doubled to stay an integer, and divisions truncate where the
code's do. `qsort` is modelled by what it does, an order of the entries in which
none is less than the one before it (`Sorted`).

### Harness

One step reads the parameters, one runs a test, one computes the score. `tests` and
`names` are the lists of the input file and of -t as the port holds them (the C port
builds both backwards), `Only` is a loop over a list that picks elements of it,
`todo` what the loop of `launch_tests` still has to run, `iters` the iterations
stored in the entries of the list, `table` the tests with a result. The geometric
mean is reduced to what can go wrong with it: `factors` counts how often a test
enters the product, `counted` is the number whose root is taken. How a test ends is
a free choice among the ways the port has: it cannot be loaded, it reports an error,
it records a result, in the C port it dereferences the missing result of a config
test (`crash`), in the C++ port a failed config test aborts, in the Java port it is
not eligible or was preset by an option. `tried` is a history of what was run with
how many iterations. `env.mode` is the real-time mode, `Multiplier` what the file
gives for each mode, and `multiplier` what the tests are given
(`RealTimeMultipliers`). The C++ port reads the values of the guaranteed mode into
the record of the hard mode, so that in hard mode either multiplier may be the one,
depending on the order of the lines; the record of the guaranteed mode is a pointer
that is never set, behind which stands any number (`Strays`) unless reading it ends
the program. `RunAsAsked` promises the iterations of `input.txt` where the code can
keep the promise (`Promised`): for the first run of a test in the C and Java ports,
for every run in soft mode in the C++ port. That each test is run as often as it is
named is promised in every mode. Which config test a test looks up (`Reads`) is
given for one test that looks up the clock accuracy and one that looks up the ideal
sleep. Not modelled: the lines of the input file and of the command line, whose
valid results are the constants, and reports.

## 3. Runs

| run | bounds | shows |
|---|---|---|
| `multi_thread` | 3 CPUs, 2 measurements, 2 attempts, every `env` | nobody sleeps through the broadcast, the last thread is alone, the synchronisers are freed in time, a pass was measured, only the lost wakeup blocks, the gate opens |
| `mt_lost_wakeup` | 2 CPUs, 1 measurement, 1 attempt | violation: the parent may sleep for ever |
| `thread_priority` | 2 threads at each of 3 priorities, symmetric | the verdict is over all threads; a failure has an inversion |
| `event_dispatch` | 3 major iterations, 2 rejections, 2 or 4 round trips, 3 ports, wakeups spurious or not | no lost signal, exact times, independent runs, the refinement of `PingPong`, every run ends; with spurious wakeups the announcement still holds |
| `config_tests` | 3 tests of 7 in any order, 2 rounds above the clock, an `int` of 6 bits, machines of 2 speeds, regular or not, calls that fail or not, 3 ports | the least quantum, results of the work measured, fair verdicts, explained aborts, an end |
| `net_io` | sizes 2 to 4, 2 exchanges a round, 2 rounds, 1 retry, 2 runs, threads held up or not, a server whose `recv` returns parts or not | whole messages, safe release, honest times, an end |
| `periodic_event` | 2 events, 3 attempts, both ports, one or two threads for the handler | the times of this attempt, no overrun, no armed timer left, every wait ends |
| `helpers` | 2 CPUs (4 children or threads), 2 attempts | verdicts on own results, an end |
| `results` | 4 times, 2 or 3 entries, 2 attempts after the first, 2 ranges, 2 acceptable percentages | statistics describe values, what passed passes, a pass bounds the score, scores of what is published |
| `harness` | 4 tests in 3 orders, up to two names, 3 modes with a multiplier each, quick or not, one processor or more, any preset | config tests first, no crash without a failure, each test as asked, a mean over all |
| `java_gate` | 2 gated workers and the last, 3 runs of either kind, spurious wakeups or not | work in turn, stop times read after the work, every run ends |
| `java_stop_times` | 1 run | violation: a stop time is read before it is stored |

Why the bounds are enough. Three CPUs give two gated threads and the last one, so
that two can be in different places of the gate while the third is yet to be
created; two attempts show what one leaves to the next; two measurements distinguish
the last from the others. For the safety properties the theorems remove the bounds.
Two threads per priority are the least for which the first and last stop time
differ. Three major iterations let the receiver be ahead of the sender with one to
come. A width of 6 bits overflows after two or three doublings, before and after the
clock is exceeded. Three config tests allow one between clock and timer, and one
that meets the file or the percentages another has left. Two units are the least
message that can arrive in two parts, 4 is one doubling, two runs show what one
leaves to the next. Two events are the least of which overlapping handlers can skip
one; three attempts are two of the C++ port, so that both ports have an attempt with
one before it, and the C port one whose predecessor was itself disturbed. Two CPUs
and two attempts let a child of the first attempt write over the file of one of the
second. Three entries have a middle and two have none, and the times lie inside, at
the edge of and outside the ranges. Three orders of the file are the two that ship
and one with a benchmark between the config tests; two names are the least for which
the first can affect the second, and for a test to be named twice; the multipliers
of the modes differ from each other and from the one stray value. Three Java runs
allow one test between two of the other.

Type invariants (`TypeOK`, `PriorityTypeOK`, `ResultsTypeOK`) are stated in every
module whose variables need one. All are proved, for every value of the constants
(that of `TimerConfig` as part of the invariant of `ConfigTests`), and so none is in
a run.

What the exceptions in the properties mean. Several properties begin with a
condition that excludes what the code does not guarantee. `~spurious` and `env.slow`
are assumptions about the environment, made for the parts of a property that need
them; the runs include the behaviours in which they are false. `crossed`,
`overlapped` and `robbed` (`PeriodicEvent`), `"lost update"`, `"left behind"` and
`"silent"` (`Helpers`), `~tid` in the C port, `env.pieces` in the C++ port and
`answer = "cut"` (`NetIO`), what is not `Promised` (`Harness`) and `~opened`
(`JavaGate`) are things that really go wrong in the code: the property then says that
nothing else breaks the promise.

TLC's own check for deadlock is off, as the specifications stop when a test has
ended. `MultiThread`, `EventDispatch` and `JavaGate` say instead where each thread
waits (`ParentBlocked`, `WorkerBlocked(t)`, `SenderBlocked`, `ReceiverBlocked`) and
when all of them may: never before the end (`NeverAllWait`), or only after the lost
wakeup (`OnlyLostWakeupBlocks`). These predicates are the negations of the guards;
TLC found them true in the states without a successor and in no other, when the
modules were written. A wait that ends by itself, as in the polling loops of the C
port or in ThreadPriorityTest, does not count: that such a loop ends is a matter of the
liveness properties. `NeverAllWait` is proved and in no run.

### Findings

* `mt_lost_wakeup`: between the parent's test of the counter
  (`multi_thread_test.c:305`) and its wait (`:307`) the last worker may
  decrement and signal; the comment at `:304` promises that the parent waits
  for all threads to complete, and it waits longer than that. A fair schedule
  does not help.
* `java_stop_times`: `ThreadPriorityTest.java:165` reads the stop time of a thread
  before it joins it (`:170`), and the thread stores it after its notification
  (`WorkerThread.java:170`): the verdict may rest on a zero.

### Seen while modelling: part of the models, and excluded from the properties

What follows is what the code does, and what the models do too. No property claims
that it is right: the properties exclude it or say nothing of it.

Threads and gates. In the C port of multi_thread a failed clock in the last, ungated
thread leaves the counter at -1 and the next attempt polls for ever; in
thread_priority a thread that cannot read its start time is never counted and the
parent polls for ever; the C++ port of multi_thread publishes no verdict because an
inner `rc` hides the outer one. The C++ criterion of thread_priority passes the
order high, medium, high, medium, low, low, although its comment
(`thread_priority_test.cpp:213`) describes a stronger one than the code tests
(`:224`). `setStartStatus` of `WorkerThread` ignores its argument (`:126`), so in a
second ThreadPriorityTest (`-t` may name it twice) the workers do not wait; one of
them may leave before the last has entered, the counter then never is the number of
threads, and the parent waits for ever, ten seconds at a time: `~opened` excludes
it.

Harness. `input.txt:28` promises iterations times multiplier, while `get_iters`
(`RTMB_launch_tests.c:50`) and `updateIterations` (`SpecTest.java:111`) store the
product where the next run of the same test starts from. `TestConfig.java`
compares only the first name of -t with the tests of the file (`:149`, an
iterator that is not made anew): an unknown first name drops all names, a known
one lets unknown ones through. The C++ port on one processor ends the whole run
when a test fails, unless it is one of the tests for several processors
(`applicableTest` reads as if it were meant the other way round), so `RunAsAsked`
excludes one processor; the Java port refuses a config test only if it is the
first name and otherwise returns when it gets to it; the C port runs a config
test that is named a second time. The C++ port stores the guaranteed multiplier in the
record of the hard mode (`InputParams.cpp:195`), although `input.txt:26` promises the
product of iterations and "the multiplier value (eg: hard.multiplier,soft.multiplier)";
the file it ships gives all modes the same one, so nobody notices. With the option for
the guaranteed mode it copies the values from a pointer that is never set
(`InputParams.cpp:283`, `RTMB.cpp:209`).

Config tests. `get_min_exec_time` of the C port dereferences a missing clock
result, `getClockAccuracy` of the C++ port answers -1, by which every round is
long enough; the doubling of an `int` overflows on a machine that never meets the
criteria; the C++ port leaves its temporary file when it gives up; the Java timer
test doubles the quantum after the last attempt and publishes it with the times
of the one before, and leaves the percentages altered when its sleep is
interrupted.

Network test. The C port goes on when it never connected, and its first `send` then
ends the program; the C++ port gives up when the last of its attempts to connect
succeeded; a server of the C port that meets the end of the connection early leaves
its socket listening, so that a second run cannot bind; a local address that is not
found makes the C port free `serv_args` under the running server; an answer of zero
bytes is recorded as a time; the C++ port closes its socket before it clears
`stayAlive`. Where `recv` returns a message in parts the C++ server sends `msgSize`
bytes from `buffer` after having advanced it (`net_io_config.cpp:246`, `:266`): not
the message, and bytes from beyond the array.

Results. `result_length` stays 1 in `generate_combined_score` of the C port, so
the score of multi_thread is that of one thread, and after a failure that of no
times, 0/0; the contribution of a time is asymmetric (90 % of the median counts
100, 110 % counts 90); the C++ port asserts that the percentages lie strictly
between 0 and 100.

Timers and helpers. With the handler in two threads an event may be skipped, its
slot judged as time zero, or stored one element after the array; a handler that is
held up until the next attempt deletes the next timer, and the wait of that
attempt has no end; the code of the test may be unloaded while a signal is
pending; the C port publishes a result without times when its last attempt could
not arm the timer; the C++ port judges an array of zeros when it could not set up
the handler. In multi_cpu a child that fails leaves the others unreaped, and they
write the same files as those of the next attempt; children whose thread was not
created exit as if all was well; `scanFile` of the C++ port never fails. In the
Java port the parent may look at the counter before any helper has counted itself,
which ends in a TestIncompleteException, and a retry ends in an
ArrayIndexOutOfBoundsException (`MultiCpuTest.java:223`). An update of the counter
of GarbageGenerationTest may be lost, and the parent then waits for ever or judges
workers that still run.

### Seen while modelling, and not modelled

* `pthread_create(...) == -1` (`multi_thread_test.c:431`, `thread_priority_test.c:390`,
  the same in the C++ port and in its config tests) is never true, as errors are
  positive numbers. A thread that could not be created is missing: the parent of a gate
  polls for ever, a config test of the C++ port joins an identifier that was never set.
  In the models every thread is created, but for the server of `NetIO`
  (`ServerNotStarted`).
* Allocations that fail, most of which abort the program.
* `normalize_result` of the C port, which is never called.
* The percentages of the guaranteed mode replace those of the hard mode in the C++ port
  as the multiplier does; of the shipped 99.9 and 20 nothing is left but 99.999 and 10.
  Percentages are parameters of `Results`, and where they come from is left out.
* The double destruction of a mutex in the C++ destructor of event_dispatch.

## 4. Fairness

`MultiThread`: weak fairness of the parent and of each worker. The workers are
as many as the CPUs, block when they wait, and run at one priority, so each gets
a CPU; a mutex is held for a bounded time, and a thread that can take it whenever
it is scheduled is not kept off it for ever while the others are in finite loops.
`EventDispatch`: weak fairness of the parent, the sender and the receiver, which
have one priority and block. `JavaGate`: weak fairness of the parent and of each
worker, for the same reasons; each worker holds the lock between two steps once a
run, so whoever wants it gets it. `NetIO`: weak fairness of client and server,
two threads that block with a limit of ten seconds when they wait. `ConfigTests`
is sequential: weak fairness of the one next step. `PeriodicEvent`: the thread of
the test (whose `sigtimedwait` ends after thirty seconds at the latest), each
handler, the expiration of an armed timer and the delivery of a pending signal.
`Helpers`: the parent and each helper; the children sleep and compute for a
bounded time. Wakeups that nobody sent, failures and lost signals are never
assumed to happen. `Harness`, `Results` and `ThreadPriority` have safety
properties only.

## 5. Proofs

Every invariant that a passing run checks is also a theorem, for every value of the
constants that the assumptions allow. `Invariance` in each of the modules is
`Spec => []IInv` (`[](~spurious => IInv)` for `EventDispatch`), `TypeCorrect` the type
invariant that follows from it (`PriorityInvariance`, `ResultsInvariance`,
`HarnessInvariance` and likewise `...TypeCorrect` in the modules that are about two
specifications). Hardly a property is inductive: the `IInv` of a concurrent test adds
where the other threads can be for each place of one of them, that of a
sequential part what a list or an array will be needed for later, which is what the
code relies on and nowhere says.

`StartGateProofs` is about the two tests that use `StartGate`. It begins with lemmas
on the cardinality of `Inside`, the threads between `lock_inc_counter` and
`lock_dec_counter`: what it becomes when a thread enters, leaves or stays. The
assumptions of `MultiThread` and `ThreadPriority` hold side by side, so that no
theorem rests on a contradiction between them. That is why `MultiThread` assumes at
most one thread in `Solo` and not exactly one: the code creates exactly one, and the
theorems do not need it.

For the multi_thread test it proves, for every finite set of gated threads, every
number of iterations and every threshold (`GateAssumption`,
`MultiThreadAssumption`), `BroadcastReaches`, `LastAlone`, `Teardown`,
`CounterExact`, `PassIsMeasured` and `OnlyTheWakeup`. `IInv` conjoins the type
invariant with `MutexInv` (who owns the mutex is where an owner can be), `PhaseInv`
(for each phase of the parent, where the workers can be: in particular that beyond
the broadcast nobody is before or in the wait, and that beyond the waiting loop all
gated threads have ended), `CountInv` (how the counter relates to the number of
threads inside the gate; equal when the clock cannot fail, at most that number
otherwise) and `JoinInv` (joined threads have ended). `CountInv` is what makes the
unlocked reads of the counter meaningful: the parent concludes from `counter = 0`
that nobody is inside. The proof has one lemma per action, each with one step per
conjunct. `PassIsMeasured` is proved from `IInv` and `MeasuredInv`, which follows a
thread's entries through its loop, and through the clearing between two attempts.
`OnlyTheWakeup` goes through the places of the parent: who owns the mutex is where
an owner goes on (`OwnerGoesOn`), beyond the broadcast no thread is in the wait, so
that a thread that is waited for and has not ended can go on, and `SpawnInv` gives
the parent a thread to create or to join.

For the thread_priority test it proves, for every finite set of threads with any
priorities (`GateAssumption`, `ThreadPriorityAssumption`), `CompleteVerdict` and
`NoFalseAlarm`. The counter is exact in this test (`PriorityCountInv`), so that its
return to zero means that all have left; as many stop times are recorded as threads
have stopped, one at least for each of their priorities (`StopInv`); and a non-empty
set of stop times has a first and a last one (`ExtremeInv`, kept rather than proved
by induction over the set). A failure compares the extremes of two priorities, and
these are the two stop times of the inversion.

`NetIOProofs` proves, for every range of message sizes, number of exchanges,
threshold, number of retries and number of runs (`NetIOAssumption`),
`ReleaseIsSafe`, `MessagesAreWhole` and `TimesAreHonest`. The crux is
`MessageInv`: client and server count exchanges and double the size each on its
own, and `Expects` says at every place of the server which message, and of which
size, it is or will be waiting for. A message is on its way up (`ToServer`), on
its way down while the server is already at the next one (`ToClient`), or nowhere
(`Idle`). `ReleaseInv` and `MeasuringInv` say who may have left or closed before
whom; each part is kept given the parts before it. `AnswerInv` is what is left of the
content: `offset` moves only after a part, so that without parts, or in the C port, the
answer is the message, and a server whose answer was cut has ended.

`PeriodicEventProofs` proves, for every number of events and every threshold
(`PeriodicEventAssumption`), with the handler in one thread or two,
`TimesAreOwn`, `NoOverrun` and `NoTimerLeft`. `AttemptInv` dates timers, signals
and handlers by the attempt they are from. `DeleteInv` is why no timer is left:
an armed timer that is not waited for has a handler that is about to delete it, or
a handler of an earlier attempt has taken its place. `CalmInv` says that all
signals and handlers are of this attempt when none has outlived one, `CountInv`
that of two handlers only one can be beyond the last element while the other is
not about to add, and `AloneInv` that one handler at a time fills the array in
order.

`JavaGateProofs` proves, for every finite set of gated workers and every number of
runs (`JavaGateAssumption`), `InTurn`, `ReadWhenFinished` and `NoDeadlock`. The
counter is exact, and `MultiInv` and `PriorityInv` give the places of the workers
for each place of the parent of the one and of the other test; the cases of a flag
that an earlier run left set and of spurious wakeups are part of the statements. For
`NoDeadlock`, `NotifyInv` says who is there to notify. The wait of the parent and
the gate of the workers use one monitor and one condition: that `notify` of the last
gated worker finds the parent rests on no worker being in the wait by then, and that
`notifyAll` finds a worker at all on there being two of them, of which only one can
be between its increment and its test (`MonInv`).

`EventDispatchProofs` proves, for every number of major iterations and every
threshold (`EventDispatchAssumption`), in the three ports:

* `NoSignalLost` (signals find a waiter in both directions) and `ExactTimes`,
  whose statements begin with `~spurious`,
* `AnnouncedFirst`, `NothingLeftBehind` and `NoDeadlock`, which hold with spurious
  wakeups too,
* `HandOver`: `Spec => Alternates`, the refinement of `PingPong`, where
  `SenderSignal` is a `Dispatch`, `ReceiverAnswer` a `Return`, and every other
  step leaves the abstract state alone.

`IInv` says for each place of the sender where the receiver can be
(`BeforeMajor`, `RoundTrip`, `AfterAnswer`, `AfterMajor`), how far each has
counted, who owns the lock (`LockInv`), how the history variables follow
(`CountInv`), and what holds outside a run (`RunInv`). The crux is
`ReceiverAhead`: the receiver may leave a major iteration and announce itself
for the next while the sender has yet to wake, and the announcement then is
still there when the sender looks for it. `MaxSubs`, the bound of the runs, is
only a guard of `TooFast`, and the proof holds for every value of it. With
spurious wakeups `NoSignalLost`, `ExactTimes` and `HandOver` are false: the waits on
`wait_notify_condn` are not in loops. What is left is `AnyWakeupInv`: the handshake
that begins a major iteration tests `is_receiver_started` in a loop, so that the
sender is never ahead of the receiver, and who holds the lock is where an
owner can be, so that both have let it go when the parent has joined them. For
`NoDeadlock` it is enough when wakeups are spurious, since only the lock then stops a
thread; when they are not, `IInv` says that the receiver is on its way while the
sender waits.

`HelpersProofs` proves, for every number of CPUs and every threshold
(`HelpersAssumption`), in the three tests, `JudgedOnOwnResults`. The parent of the
multi_cpu test of the C++ port waits for as many children as it has started, and any
child answers, those of an earlier attempt too; the parents of the Java tests wait for
a counter. `CountsInv` says that the number the parent waits for is that of the
helpers of this attempt which are yet to be accounted for (`Out`), in
GarbageGenerationTest as long as no update was lost; the lemmas on `Out` say how one
step of one helper changes that number. `SettledInv` is what the parent may conclude
when it is zero. `FilesInv` dates the files by the attempt that wrote them, unless a
child was left behind or kept silent, or an update was lost: then a file may be of
another attempt, and the property excludes just these.

`ConfigTestsProofs` proves, for every width of an `int`, every threshold, every
first amount of work, block size and speed of the machine, and every order of the tests
(`ConfigTestsAssumption`), `LeastPublished`, `MeasuredOrOverflown`, `JudgedFairly` and
`AbortsForAReason`. Two things make them inductive. For the timer test it is
what a binary search keeps (`SearchInv`): the quantum below `lo` failed, or `lo`
is where the search began, and the published quantum is the one above `hi`, or
`hi` itself as long as nothing was accepted; with `LowerEndInv`, where the search
may begin, and `OutcomeInv`, that on a regular machine only quanta below `least`
fail, `lo > hi` leaves one candidate. For the other tests it is `WorkInv`: the
work of the next round is below the larger of the first amount and the speed of the
machine, times a power of two for each round that counted, because a round below
the clock has done less than the machine may take and so may be
doubled without being counted. The sum of these doublings is what `Fits` allows
for. The prover knows nothing of powers; `Power` takes `2^(n+1) = 2 * 2^n` from the
number of subsets of a set with one more element (`FS_SUBSET`), and `Doubled` is
the arithmetic that the rounds rest on. `RunInv` joins both: which test may be
running, and that the percentages are those of the input file whenever it is not the
timer test. `AbortsForAReason` follows from `PhaseInv`, by which the timer test
aborts when a run fails or for want of an initial lower end, and from the part of
`AbortsExplained` that concerns the other tests, which is inductive with `RunInv`.

`ScoreProofs` is about `Results` and `Harness`, for every set of times, sizes and
percentages and any number of attempts (`ResultsAssumption`), and for any input
files without repetitions, any lists of names after -t, any iterations, any
multiplier of each mode and any value behind the unset pointer
(`HarnessAssumption`). What makes these two hard to prove about is their data: sums
over arrays, sorted arrays, lists that are filtered and reversed. Induction over
such data is out of the prover's reach as a rule, so the first part gets by without
it: among the subsets of a finite set with a given property one is smallest
(`SmallestSet`), and so what holds of the empty set and is not lost when an element
is added holds of every finite set (`SetInduction`). From this follow

* `SumOf`: the recursion behind `SumFunctionOnSet` has a solution, and a sum is that of
  any one element and of the rest; `SumAtLeast`, `SumAtMost`: its bounds;
* `SortingExists`: every array can be sorted, so that the `CHOOSE` in `Sorted` chooses;
  `Middle`: what stands in the middle of the sorted array has at most half of the times
  below it and at most half above;
* `Enumerates`, `OnlySelects`: `Only` keeps what is in the set, in order;
  `OccurrencesOnly`, `OccurrencesReverse`, `OccurrencesTail`: how often a name
  occurs in what becomes of a list.

For the results it proves `StatsOfValues`, `PassedIsPublished`, `PassIsConsistent` and
`ScoreIsOfPublished`. `ResultsIInv` conjoins the type invariant with `OwnArrays` (each
result has the array it was created with, also after a copy, and its statistics
describe it while it fills: `Describes`), `VerdictInv` (what a verdict and a copy stand
for until they are published) and the three properties about what is published.
`Describes` is what survives `free_chain` of the C port, which forgets the entries
and nothing else: the extremes start anew with the first entry, and the stale median
and mean are not read before the result is full again. `PassIsConsistent` rests on
`Contribution`: whatever is dropped by the two integer divisions in `get_contribution`,
a time within the range contributes at least 100 less the range. It needs
times that are not zero (a time of zero contributes 10), and does not hold for
several results, whose medians are averaged.

For the harness it proves `ConfigRunsFirst`, `CrashAfterFailure`, `AskedIsRun` and
`MeanOfEnough`. `IInv` conjoins the type invariant with `ReadInv` (the lists stay as
they were read, and the multiplier is one that the port may have read), `ConfigInv`
(only config tests are in the plan of their phase, and each one of the file is in it
or was tried), `OrderInv` (in the plan of the C port clock comes before timer when
the file has them the other way round), `ItersInv` (iterations are multiplied at the
first run of a test), `CountInv` (what was tried and what is still to run add up to
what was asked for, name by name) and `FactorInv` (in the C port each factor is of a
test in the table, whose size is taken; in the others each factor was counted when
its test was run). The three ports run a test in three actions that have one shape,
`Attempt`, and the lemmas are about that.

Only model-checked. Liveness under fairness is out of the prover's reach, and so is
`ENABLED`: `GateOpens`, `RunsEnd`, `RunEnds`, `Ends` and `WaitEnds` are checked on the
instances of the runs. Their safety part is proved where there is one
(`OnlyTheWakeup`, `NoDeadlock`). The two violations are counterexamples of TLC.

## 6. What could be added

1. The average score of `result_mgmt.c` and the histogram data as operators in
   `Results`; `SumOf` and `SortingExists` are what theorems about them need.
2. NetIOTest of the Java port as a third port of `NetIO`.

## 7. Not modelled

* Parsing of the input file and of the command line: text processing; the harness
  models start from what a well formed file and valid options give.
* Reporting and the report tools: they format the results.
* NetIOTest and NetIOConfigServerThread (Java): the same protocol over streams,
  with a server that is stopped by closing its socket.
* CompilationTest, the bytecode tests and the RTSJ tests of the Java port: they
  need the virtual machine's compiler or the RTSJ library, whose behaviour is
  outside the repository.
* lock_consistency and time_accuracy: one thread that takes a lock or reads a
  clock in a loop; their retry loop is that of `Results` (kind "single").
* The work itself: matrix multiplications, the contents of files and messages, and
  the values of times, which are choices of the models.
