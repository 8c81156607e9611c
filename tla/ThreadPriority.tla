---------------------------- MODULE ThreadPriority ----------------------------
(***************************************************************************)
(* The thread_priority test of the C port (thread_priority_test.c) and of  *)
(* the C++ port (thread_priority_test.cpp).  As many threads as online     *)
(* CPUs are started at each of three priorities; they go through the start *)
(* gate, compute, and record the time at which they stop.  The test fails  *)
(* when the first and last stop times of the priorities are out of order.  *)
(*                                                                         *)
(* The clock is abstracted to the order in which the stop times are read:  *)
(* stops lists the priorities in that order, and the mintime and maxtime   *)
(* of a priority are its first and last positions (0 when it has no entry, *)
(* as in a fresh test_results_t).  Two equal times are not modelled.       *)
(***************************************************************************)
EXTENDS StartGate, Sequences

(* Every thread of this test goes through the gate: it has no use for Solo. *)
CONSTANTS Prio   \* the priority each thread is created with

LOW_PRIORITY == 0
MED_PRIORITY == 1
HIGH_PRIORITY == 2

Priorities == {LOW_PRIORITY, MED_PRIORITY, HIGH_PRIORITY}

ASSUME ThreadPriorityAssumption ==
  /\ Prio \in [Gated -> Priorities]
  /\ \A p \in Priorities : \E t \in Gated : Prio[t] = p

VARIABLES
  stops,       \* priorities of the recorded stop times, in time order
  reported    \* what the result table holds for the test

priorityVars == << gateVars, env, stops, reported >>

PriorityParentPC == {"spawn", "poll", "pollwait", "broadcast", "drain", "park",
                     "parked", "join", "verdict", "end"}

PriorityInit ==
  /\ env \in Envs
  /\ counter = 0
  /\ tmutex = Nobody
  /\ tpc = [t \in Threads |-> "none"]
  /\ ppc = "spawn"
  /\ stops = << >>
  /\ reported = "none"

-----------------------------------------------------------------------------
(* The parent: thread_priority and create_start_threads, which creates the *)
(* threads of the highest priority first.  pthread_create succeeds: an     *)
(* error, a positive number, would go unnoticed where it is compared with  *)
(* -1, and the parent would wait for a thread that is not there.           *)
Create(t) ==
  /\ ppc = "spawn" /\ tpc[t] = "none"
  /\ \A u \in Gated : Prio[u] > Prio[t] => tpc[u] # "none"
  /\ Goto(t, "new")
  /\ ppc' = IF \A u \in Gated \ {t} : tpc[u] # "none" THEN "poll" ELSE "spawn"
  /\ UNCHANGED << counter, tmutex, env, stops, reported >>

PriorityParentGate ==
  /\ \/ PollCounter
     \/ PollWait
     \/ Broadcast
     \/ DrainCheck("join")
     \/ Park
     \/ env.spurious /\ ParentSpuriousWakeup
  /\ UNCHANGED << env, stops, reported >>

\* A mutant: JoinAll that does not wait.
NoJoin ==
  /\ ppc = "join"
  /\ ppc' = "verdict"
  /\ UNCHANGED << counter, tmutex, tpc, env, stops, reported >>

JoinAll ==
  /\ ppc = "join"
  /\ \A t \in Gated : tpc[t] = "done"
  /\ ppc' = "verdict"
  /\ UNCHANGED << counter, tmutex, tpc, env, stops, reported >>

-----------------------------------------------------------------------------
(* The verdict, over the first and last stop times of the priorities.      *)
StopsOf(p) == {i \in DOMAIN stops : stops[i] = p}

First(p) ==
  IF StopsOf(p) = {} THEN 0
  ELSE CHOOSE i \in StopsOf(p) : \A j \in StopsOf(p) : i <= j

Last(p) ==
  IF StopsOf(p) = {} THEN 0
  ELSE CHOOSE i \in StopsOf(p) : \A j \in StopsOf(p) : i >= j

PassC ==
  \/ /\ Last(HIGH_PRIORITY) < First(LOW_PRIORITY)
     /\ Last(HIGH_PRIORITY) < First(MED_PRIORITY)
  \/ Last(MED_PRIORITY) < First(LOW_PRIORITY)

\* A mutant: PassCpp with one comparison reversed.
PassCppReversedFirst ==
  \A p, q \in Priorities : p > q => ~(First(p) < First(q) \/ Last(p) > Last(q))

PassCpp ==
  \A p, q \in Priorities : p > q => ~(First(p) > First(q) \/ Last(p) > Last(q))

Judge ==
  /\ ppc = "verdict"
  /\ LET pass == IF env.port = "c" THEN PassC ELSE PassCpp
     IN  reported' = IF pass THEN "pass" ELSE "fail"
  /\ ppc' = "end"
  /\ UNCHANGED << counter, tmutex, tpc, env, stops >>

-----------------------------------------------------------------------------
(* The workers: _start.                                                    *)

(* Without a start time a thread ends before it is counted.                *)
NoStartTime(t) ==
  /\ env.clockfail /\ tpc[t] = "new"
  /\ Goto(t, "done")
  /\ UNCHANGED << counter, tmutex, ppc, env, stops, reported >>

(* Read the stop time and add it to the results of the priority; add_entry *)
(* and setValuesAtNextIndex keep the extremes under the result's mutex, in *)
(* any order.                                                              *)
RecordStop(t) ==
  /\ tpc[t] = "work"
  /\ stops' = Append(stops, Prio[t])
  /\ Goto(t, "leave")
  /\ UNCHANGED << counter, tmutex, ppc, env, reported >>

NoStopTime(t) ==
  /\ env.clockfail /\ tpc[t] = "work"
  /\ Goto(t, "leave")
  /\ UNCHANGED << counter, tmutex, ppc, env, stops, reported >>

PriorityWorkerGate(t) ==
  /\ \/ IncCounter(t)
     \/ WaitForStart(t)
     \/ env.spurious /\ SpuriousWakeup(t)
     \/ PassGate(t)
     \/ DecCounter(t)
     \/ SignalParent(t)
  /\ UNCHANGED << env, stops, reported >>

PriorityParent ==
  \/ PriorityParentGate
  \/ JoinAll
  \/ Judge
  \/ \E t \in Gated : Create(t)

PriorityWorker(t) ==
  NoStartTime(t) \/ RecordStop(t) \/ NoStopTime(t) \/ PriorityWorkerGate(t)

PriorityNext == PriorityParent \/ \E t \in Gated : PriorityWorker(t)

PrioritySpec == PriorityInit /\ [][PriorityNext]_priorityVars

-----------------------------------------------------------------------------
PriorityTypeOK ==
  /\ env \in Envs
  /\ counter \in 0 .. Cardinality(Gated)
  /\ tmutex \in Threads \cup {Nobody}
  /\ tpc \in [Threads -> ThreadPC]
  /\ ppc \in PriorityParentPC
  /\ stops \in Seq(Priorities)
  /\ reported \in {"none", "pass", "fail"}

(* The verdict is taken over the stop times of all the threads, and        *)
(* cleanup frees the synchronisers when no thread can touch them, although *)
(* the waiting loop ends before the last thread has unlocked its mutexes.  *)
VerdictOnAll ==
  ppc \in {"verdict", "end"} =>
    /\ \A t \in Gated : tpc[t] = "done"
    /\ ~env.clockfail => Len(stops) = Cardinality(Gated)

(* No false alarm: a test reported as failed had a thread that stopped     *)
(* before a thread of a higher priority.                                   *)
Inversion == \E i, j \in DOMAIN stops : i < j /\ stops[i] < stops[j]

FailMeansInversion == reported = "fail" /\ ~env.clockfail => Inversion

-----------------------------------------------------------------------------
(* The inductive invariant behind the two properties above.                *)

(* The counter that the parent reads without a lock is exact.              *)
PriorityCountInv == counter = Cardinality(Inside)

Stopped == {t \in Gated : tpc[t] \in {"leave", "signal", "done"}}

(* Each thread that has stopped is in the results of its priority.         *)
StopInv ==
  ~env.clockfail =>
    /\ Len(stops) = Cardinality(Stopped)
    /\ \A t \in Stopped : StopsOf(Prio[t]) # {}

(* A priority with a stop time has a first and a last one.                 *)
ExtremeInv ==
  \A p \in Priorities : StopsOf(p) # {} =>
    /\ \E i \in StopsOf(p) : \A j \in StopsOf(p) : i <= j
    /\ \E i \in StopsOf(p) : \A j \in StopsOf(p) : i >= j

EndInv ==
  /\ ppc \in {"verdict", "end"} => \A t \in Gated : tpc[t] = "done"
  /\ reported # "none" => ppc = "end"
  /\ FailMeansInversion

PriorityIInv == PriorityTypeOK /\ PriorityCountInv /\ StopInv /\ ExtremeInv /\ EndInv

=============================================================================
