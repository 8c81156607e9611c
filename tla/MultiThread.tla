----------------------------- MODULE MultiThread -----------------------------
(***************************************************************************)
(* The multi_thread test of the C port (multi_thread_test.c) and of the    *)
(* C++ port (multi_thread_test.cpp).  One attempt starts one worker per    *)
(* online CPU through the start gate, waits for all of them to leave, runs *)
(* one more worker alone, and checks every worker's times; attempts are    *)
(* repeated until one passes or the threshold is reached.                  *)
(*                                                                         *)
(* The two ports differ in these places: the C++ port resets the counter   *)
(* before each attempt, joins the gated workers before it starts the last  *)
(* one, has no error path when the clock cannot be read, and publishes no  *)
(* verdict.                                                                *)
(*                                                                         *)
(* Times are not modelled: whether a result meets the pass criteria is a   *)
(* choice.  Thread creation order and join order are abstracted to sets.   *)
(***************************************************************************)
EXTENDS StartGate

CONSTANTS
  Iterations,  \* bmtest->_iterations, the measurements of each thread
  Threshold    \* bmtest->_threshold, the attempts allowed

ASSUME MultiThreadAssumption ==
  /\ \A s, u \in Solo : s = u   \* one last thread at most
  /\ Iterations \in Nat \ {0}
  /\ Threshold \in Nat \ {0}

VARIABLES
  iter,        \* the loop variable of each thread's measuring loop
  entries,     \* results[i].num_entries
  summary,     \* result_consolidator->num_entries
  joined,      \* threads joined and checked in this attempt
  ret,         \* run_multi_thread_test's ret: no check has failed yet
  attempts,    \* retry_number: attempts that failed
  alive,       \* tsyncers and parent_sema are allocated
  published    \* what the result table holds for the test

vars == << gateVars, env, iter, entries, summary, joined, ret, attempts,
           alive, published >>

resultVars == << iter, entries >>
attemptVars == << summary, joined, ret, attempts, alive, published >>

ParentPC == {"sample", "attempt", "spawn", "poll", "pollwait", "broadcast",
             "drain", "park", "parked", "joingated", "spawnlast", "join",
             "end"}

Init ==
  /\ env \in Envs
  /\ counter = 0
  /\ tmutex = Nobody
  /\ tpc = [t \in Threads |-> "none"]
  /\ ppc = "sample"
  /\ iter = [t \in Threads |-> 0]
  /\ entries = [t \in Threads |-> 0]
  /\ summary = 0
  /\ joined = {}
  /\ ret = TRUE
  /\ attempts = 0
  /\ alive = FALSE
  /\ published = "none"

-----------------------------------------------------------------------------
(* The parent: multi_thread and run_multi_thread_test.                     *)

(* The sample run sizes the work quantum; a clock failure in it ends the   *)
(* test with ERROR and no entry in the result table.                       *)
SampleRun ==
  /\ ppc = "sample"
  /\ \/ ppc' = "attempt" /\ UNCHANGED published
     \/ env.clockfail /\ ppc' = "end" /\ published' = "error"
  /\ UNCHANGED << counter, tmutex, tpc, env, resultVars, summary, joined, ret,
                  attempts, alive >>

(* The C++ port sets the counter to zero and empties every result before   *)
(* an attempt; the C port carries the counter over and empties the results *)
(* after a failed attempt.                                                 *)
CounterAtStart == IF env.port = "cpp" THEN 0 ELSE counter

NoEntries == [t \in Threads |-> 0]

BeginAttempt ==
  /\ ppc = "attempt" /\ attempts < Threshold
  /\ ppc' = "spawn"
  /\ tpc' = [t \in Threads |-> "none"]
  /\ counter' = CounterAtStart
  /\ iter' = NoEntries
  /\ entries' = IF env.port = "cpp" THEN NoEntries ELSE entries
  /\ summary' = IF env.port = "cpp" THEN 0 ELSE summary
  /\ joined' = {}
  /\ ret' = TRUE
  /\ alive' = TRUE
  /\ UNCHANGED << tmutex, env, attempts, published >>

(* pthread_create succeeds, here and in SpawnLast.  Its errors are         *)
(* positive numbers; the code compares with -1 and would not notice one.   *)
Spawn(t) ==
  /\ ppc = "spawn" /\ t \in Gated /\ tpc[t] = "none"
  /\ Goto(t, "new")
  /\ ppc' = IF \A u \in Gated \ {t} : tpc[u] # "none" THEN "poll" ELSE "spawn"
  /\ UNCHANGED << counter, tmutex, env, resultVars, attemptVars >>

ParentGate ==
  /\ \/ PollCounter
     \/ PollWait
     \/ Broadcast
     \/ DrainCheck(IF env.port = "cpp" THEN "joingated" ELSE "spawnlast")
     \/ Park
     \/ env.spurious /\ ParentSpuriousWakeup
  /\ UNCHANGED << env, resultVars, attemptVars >>

JoinGated ==
  /\ ppc = "joingated"
  /\ \A t \in Gated : tpc[t] = "done"
  /\ ppc' = "spawnlast"
  /\ UNCHANGED << counter, tmutex, tpc, env, resultVars, attemptVars >>

SpawnLast(t) ==
  /\ ppc = "spawnlast" /\ t \in Solo
  /\ Goto(t, "new")
  /\ ppc' = "join"
  /\ UNCHANGED << counter, tmutex, env, resultVars, attemptVars >>

(* Join a thread, check its result and add its median to the summary; the  *)
(* C++ port joins every thread before it checks the first.  A result with  *)
(* no entry meets every criterion.                                         *)
Check(t) ==
  /\ joined' = joined \cup {t}
  /\ summary' = summary + 1
  /\ \E ok \in BOOLEAN : (entries[t] = 0 => ok) /\ ret' = (ret /\ ok)
  /\ UNCHANGED << gateVars, env, resultVars, attempts, alive, published >>

\* A mutant: Join that does not wait.
JoinUnfinished(t) == ppc = "join" /\ t \in Threads \ joined /\ Check(t)

Join(t) ==
  /\ ppc = "join" /\ t \in Threads \ joined
  /\ \A u \in (IF env.port = "cpp" THEN Threads ELSE {t}) : tpc[u] = "done"
  /\ Check(t)

(* Check the summary, free the synchronisers, and publish or retry.  Only  *)
(* the C port hands a verdict to the result table: multi_thread of the C++ *)
(* port declares a second rc inside its loop and drops it.                 *)
Verdict(v) == IF env.port = "c" THEN v ELSE "scored"

EntriesAfterFailure == IF env.port = "c" THEN NoEntries ELSE entries

FinishAttempt ==
  /\ ppc = "join" /\ joined = Threads
  /\ alive' = FALSE
  /\ \/ /\ ret
        /\ ppc' = "end"
        /\ published' = Verdict("pass")
        /\ UNCHANGED << attempts, entries, summary >>
     \/ /\ attempts' = attempts + 1
        /\ entries' = EntriesAfterFailure
        /\ summary' = IF env.port = "c" THEN 0 ELSE summary
        /\ IF attempts' = Threshold
             THEN ppc' = "end" /\ published' = Verdict("fail")
             ELSE ppc' = "attempt" /\ UNCHANGED published
  /\ UNCHANGED << counter, tmutex, tpc, env, iter, joined, ret >>

-----------------------------------------------------------------------------
(* The workers: start_multi_thread_test and _start.                        *)

(* One measurement; the last one takes a gated thread to lock_dec_counter. *)
\* A mutant: Measure that leaves the loop one short.
MeasureOneShort(t) ==
  /\ tpc[t] = "work"
  /\ entries' = [entries EXCEPT ![t] = @ + 1]
  /\ iter' = [iter EXCEPT ![t] = @ + 1]
  /\ Goto(t, IF iter[t] + 1 < Iterations - 1 THEN "work"
             ELSE IF t \in Gated THEN "leave" ELSE "done")
  /\ UNCHANGED << counter, tmutex, ppc, env, attemptVars >>

Measure(t) ==
  /\ tpc[t] = "work"
  /\ entries' = [entries EXCEPT ![t] = @ + 1]
  /\ iter' = [iter EXCEPT ![t] = @ + 1]
  /\ Goto(t, IF iter[t] + 1 < Iterations THEN "work"
             ELSE IF t \in Gated THEN "leave" ELSE "done")
  /\ UNCHANGED << counter, tmutex, ppc, env, attemptVars >>

(* The error path decrements the counter whichever thread takes it, the    *)
(* last one, which never incremented it, included.                         *)
ClockFailure(t) ==
  /\ env.clockfail /\ tpc[t] = "work"
  /\ Goto(t, "leave")
  /\ UNCHANGED << counter, tmutex, ppc, env, resultVars, attemptVars >>

WorkerGate(t) ==
  /\ \/ IncCounter(t)
     \/ WaitForStart(t)
     \/ env.spurious /\ SpuriousWakeup(t)
     \/ PassGate(t)
     \/ SkipGate(t)
     \/ DecCounter(t)
     \/ SignalParent(t)
  /\ UNCHANGED << env, resultVars, attemptVars >>

Parent ==
  \/ SampleRun
  \/ BeginAttempt
  \/ ParentGate
  \/ JoinGated
  \/ FinishAttempt
  \/ \E t \in Threads : Spawn(t) \/ SpawnLast(t) \/ Join(t)

Worker(t) == Measure(t) \/ ClockFailure(t) \/ WorkerGate(t)

Next == Parent \/ \E t \in Threads : Worker(t)

Spec == Init /\ [][Next]_vars

(* Every thread has a CPU or gets one: the workers are as many as the      *)
(* online CPUs, they block in the gate, and all run at one priority.       *)
Fairness == WF_vars(Parent) /\ \A t \in Threads : WF_vars(Worker(t))

FairSpec == Spec /\ Fairness

-----------------------------------------------------------------------------
(* Properties.                                                             *)

TypeOK ==
  /\ env \in Envs
  /\ counter \in Int
  /\ tmutex \in Threads \cup {Nobody}
  /\ tpc \in [Threads -> ThreadPC]
  /\ ppc \in ParentPC
  /\ iter \in [Threads -> Nat]
  /\ entries \in [Threads -> Nat]
  /\ summary \in Nat
  /\ joined \in SUBSET Threads
  /\ ret \in BOOLEAN
  /\ attempts \in 0 .. Threshold
  /\ alive \in BOOLEAN
  /\ published \in {"none", "error", "pass", "fail", "scored"}

(* The broadcast is sent when nobody can still be on the way into the      *)
(* wait: afterwards no thread is left asleep in lock_inc_counter, whatever *)
(* the wakeups and clock failures of this and earlier attempts.            *)
BroadcastReachesAll ==
  ppc \in {"drain", "park", "parked", "joingated", "spawnlast", "join"} =>
    \A t \in Threads : tpc[t] \notin {"counted", "waiting"}

(* The last thread is the undisturbed reference of the scores: it never    *)
(* measures while a gated thread is in its loop or yet to enter it.        *)
LastRunsAlone ==
  \A s \in Solo : tpc[s] = "work" =>
     \A t \in Gated : tpc[t] \in {"signal", "done"}

(* cleanup destroys the mutexes and condition variables only when no       *)
(* thread can touch them any more.                                         *)
SafeTeardown == ~alive => \A t \in Threads : tpc[t] \in {"none", "done"}

(* A test that passes has measured every iteration of every thread, as     *)
(* long as the clock can be read; with clock failures a thread that never  *)
(* measured meets the criteria with no entry at all.                       *)
PassMeansMeasured ==
  published \in {"pass", "scored"} /\ ~env.clockfail =>
    \A t \in Threads : entries[t] = Iterations

(* The counter the parent reads without a lock is the number of threads    *)
(* between lock_inc_counter and lock_dec_counter; a clock failure of the   *)
(* last thread, which was never counted, breaks it.                        *)
CounterCountsInside == ~env.clockfail => counter = Cardinality(Inside)

(* Where the parent and a worker can go no further on their own: what they *)
(* wait for has not happened, or the test is over.  The negations of the   *)
(* guards; the wait of the polling loop returns by itself.                 *)
ParentBlocked ==
  \/ ppc = "end"
  \/ ppc = "attempt" /\ attempts = Threshold
  \/ ppc = "spawn" /\ \A t \in Gated : tpc[t] # "none"
  \/ ppc = "broadcast" /\ tmutex # Nobody
  \/ ppc = "parked" /\ ~env.spurious
  \/ ppc = "joingated" /\ \E t \in Gated : tpc[t] # "done"
  \/ /\ ppc = "join" /\ joined # Threads
     /\ \A t \in Threads \ joined :
          \E u \in (IF env.port = "cpp" THEN Threads ELSE {t}) : tpc[u] # "done"

WorkerBlocked(t) ==
  \/ tpc[t] \in {"none", "done"}
  \/ tpc[t] = "new" /\ t \in Gated /\ tmutex # Nobody
  \/ tpc[t] = "waiting" /\ ~env.spurious
  \/ tpc[t] \in {"woken", "leave"} /\ tmutex # Nobody

Blocked == ParentBlocked /\ \A t \in Threads : WorkerBlocked(t)

(* The parent saw a non-zero counter, the last thread signalled, and only  *)
(* then did the parent sleep.                                              *)
LostWakeup == ppc = "parked" /\ counter = 0 /\ \A t \in Gated : tpc[t] = "done"

(* The only state in which all threads wait before the test ends is the    *)
(* lost wakeup: no retry, failure or order of the threads leaves them      *)
(* waiting for each other.                                                 *)
OnlyLostWakeupBlocks == Blocked => ppc = "end" \/ LostWakeup

(* Without spurious wakeups and clock failures every attempt gets past the *)
(* polling loop and broadcasts.                                            *)
GateOpens ==
  (ppc = "poll" /\ ~env.spurious /\ ~env.clockfail) ~> (ppc = "drain")

(* "Parent thread waits for all threads to complete": when they have       *)
(* completed, the wait ends.                                               *)
ParentNotices ==
  (/\ ppc \in {"drain", "park", "parked"}
   /\ \A t \in Gated : tpc[t] = "done"
   /\ ~env.spurious /\ ~env.clockfail)
    ~> (ppc \in {"joingated", "spawnlast"})

-----------------------------------------------------------------------------
(* The inductive invariant, in named parts.                                *)

(* A thread owns tsyncers->mutex exactly where the code holds it.          *)
MutexInv == \A t \in Threads : tmutex = t <=> tpc[t] \in {"counted", "signal"}

(* Which threads can be where, by the position of the parent.              *)
PhaseInv ==
  /\ ppc = "sample" => \A t \in Threads : tpc[t] = "none"
  /\ ppc \in {"attempt", "end"} => \A t \in Threads : tpc[t] \in {"none", "done"}
  /\ ppc \notin {"attempt", "join", "end"} => \A s \in Solo : tpc[s] = "none"
  /\ ppc = "broadcast" => \A t \in Gated : tpc[t] \notin {"none", "new"}
  /\ ppc \in {"drain", "park", "parked"} =>
       \A t \in Gated : tpc[t] \in {"woken", "work", "leave", "signal", "done"}
  /\ ppc \in {"joingated", "spawnlast", "join"} =>
       \A t \in Gated : tpc[t] \in {"signal", "done"}
  /\ \A s \in Solo : tpc[s] \in {"none", "new", "work", "leave", "done"}
  /\ \A s \in Solo : tpc[s] = "leave" => env.clockfail
  /\ ppc # "end" => attempts < Threshold
  /\ alive <=> ppc \notin {"sample", "attempt", "end"}

(* The counter never overtakes the threads inside the gate; it is behind   *)
(* only after a clock failure of the last thread, and then the parent      *)
(* stays in the polling loop of the next attempt.                          *)
CountInv ==
  /\ counter <= Cardinality(Inside)
  /\ ~env.clockfail => counter = Cardinality(Inside)
  /\ ppc \in {"broadcast", "drain", "park", "parked", "joingated", "spawnlast"}
       => counter = Cardinality(Inside)

(* What has been joined has ended.                                         *)
JoinInv == \A t \in joined : tpc[t] = "done"

IInv == TypeOK /\ MutexInv /\ PhaseInv /\ CountInv /\ JoinInv

(* There is a thread to create as long as the parent creates threads, and  *)
(* the last one is there when it joins them.                               *)
SpawnInv ==
  /\ ppc = "spawn" => \E t \in Gated : tpc[t] = "none"
  /\ ppc = "join" => \A s \in Solo : tpc[s] # "none"

(* Without clock failures a thread adds one entry for each turn of its     *)
(* loop to a result that was empty when the attempt began.                 *)
MeasuredInv ==
  ~env.clockfail =>
    /\ ppc \in {"sample", "attempt"} /\ env.port = "c" =>
         \A t \in Threads : entries[t] = 0
    /\ ppc \notin {"sample", "attempt", "end"} => \A t \in Threads :
         /\ tpc[t] \in {"none", "new", "counted", "waiting", "woken"} =>
              iter[t] = 0 /\ entries[t] = 0
         /\ tpc[t] = "work" => iter[t] = entries[t] /\ iter[t] < Iterations
         /\ tpc[t] \in {"leave", "signal", "done"} => entries[t] = Iterations
    /\ published \in {"pass", "scored"} =>
         ppc = "end" /\ \A t \in Threads : entries[t] = Iterations

=============================================================================
