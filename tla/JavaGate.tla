------------------------------ MODULE JavaGate ------------------------------
(***************************************************************************)
(* The gates of the Java tests MultiThreadTest and ThreadPriorityTest, on  *)
(* the monitors of their workers (MatrixMultiplierThread, WorkerThread).   *)
(* Both count the threads in the one SyncCounter of the program; each      *)
(* worker class has a static flag canStartWork and a static lock.  The     *)
(* harness runs the tests, and MultiThreadTest its attempts, one after the *)
(* other: a run below is an attempt of the one or a test of the other.     *)
(*                                                                         *)
(* A synchronized block is one step, except around the test of the flag:   *)
(* the parent writes the flag and reads the counter without the lock.      *)
(* Those reads and writes take effect at once.                             *)
(***************************************************************************)
EXTENDS Naturals, FiniteSets

CONSTANTS
  Gated,     \* the workers that MultiThreadTest starts first
  Last,      \* the worker that it starts when they have finished
  MaxRuns    \* a bound on the runs

Threads == Gated \cup {Last}
Kinds == {"multi", "priority"}

ASSUME JavaGateAssumption ==
  /\ IsFiniteSet(Gated) /\ Cardinality(Gated) > 1
  /\ Last \notin Gated
  /\ "free" \notin Threads
  /\ MaxRuns \in Nat

VARIABLES
  spurious,   \* whether a wait may return without a notification; constant
  test,       \* which test runs, or ran last
  runs,       \* how many runs there were
  counter,    \* SyncCounter.counter
  canStart,   \* canStartWork of the worker class of each test
  opened,     \* whether it was already set when the run started
  mon,        \* who holds the lock between two steps
  ppc,        \* where the parent is
  tpc,        \* where each worker is
  stopped,    \* workers whose stopTime is set
  current,    \* the worker whose stopTime was read last
  collected,  \* workers whose stopTime was read and that were joined
  stale       \* workers whose stopTime was read before it was set

runVars == << spurious, test, runs, opened >>
collectVars == << current, collected, stale >>
vars == << runVars, counter, canStart, mon, ppc, tpc, stopped, collectVars >>

Init ==
  /\ spurious \in BOOLEAN
  /\ test \in Kinds
  /\ runs = 0
  /\ counter = 0
  /\ canStart = [k \in Kinds |-> FALSE]
  /\ opened = FALSE
  /\ mon = "free"
  /\ ppc = "idle"
  /\ tpc = [t \in Threads |-> "off"]
  /\ stopped = {}
  /\ current = Last
  /\ collected = {}
  /\ stale = {}

(* A waiting thread that is notified competes for the lock again.          *)
Woken(woken) == [t \in Threads |-> IF t \in woken THEN "woken" ELSE tpc[t]]

Waiting == {t \in Threads : tpc[t] = "waiting"}

ParentGoto(from, to) == ppc = from /\ ppc' = to

-----------------------------------------------------------------------------
(* MultiThreadTest.benchMarkTest, one turn of its loop.                    *)

NewRun(kind, started) ==
  /\ runs < MaxRuns /\ runs' = runs + 1
  /\ test' = kind
  /\ tpc' = [t \in Threads |-> IF t \in started THEN "start" ELSE "off"]
  /\ stopped' = {} /\ collected' = {} /\ stale' = {}
  /\ UNCHANGED << spurious, mon, current >>

RunMultiThread ==
  /\ ParentGoto("idle", "poll")
  /\ NewRun("multi", Gated)
  /\ counter' = 0
  /\ canStart' = [canStart EXCEPT !["multi"] = FALSE]
  /\ opened' = FALSE

\* A mutant: PollGated that compares with one fewer.
PollGatedOneShort ==
  /\ ParentGoto("poll", "open")
  /\ counter = Cardinality(Gated) - 1
  /\ UNCHANGED << runVars, counter, canStart, mon, tpc, stopped, collectVars >>

PollGated ==
  /\ ParentGoto("poll", "open")
  /\ counter = Cardinality(Gated)
  /\ UNCHANGED << runVars, counter, canStart, mon, tpc, stopped, collectVars >>

OpenGate ==
  /\ ParentGoto("open", "notify")
  /\ canStart' = [canStart EXCEPT !["multi"] = TRUE]
  /\ UNCHANGED << runVars, counter, mon, tpc, stopped, collectVars >>

NotifyAndWait ==
  /\ ParentGoto("notify", "waiting") /\ mon = "free"
  /\ tpc' = Woken(Waiting)
  /\ UNCHANGED << runVars, counter, canStart, mon, stopped, collectVars >>

(* Out of the wait, which is in no loop: close the gate, start the last.   *)
StartLast ==
  /\ ParentGoto("woken", "pollLast") /\ mon = "free"
  /\ canStart' = [canStart EXCEPT !["multi"] = FALSE]
  /\ tpc' = [tpc EXCEPT ![Last] = "start"]
  /\ UNCHANGED << runVars, counter, mon, stopped, collectVars >>

PollLast ==
  /\ ParentGoto("pollLast", "notifyLast")
  /\ counter = 1
  /\ UNCHANGED << runVars, counter, canStart, mon, tpc, stopped, collectVars >>

\* A mutant: NotifyLastAndWait that opens the gate without notifying.
OpenLastAndWait ==
  /\ ParentGoto("notifyLast", "waitingLast") /\ mon = "free"
  /\ canStart' = [canStart EXCEPT !["multi"] = TRUE]
  /\ UNCHANGED << runVars, counter, mon, tpc, stopped, collectVars >>

(* This time the flag is set with the lock held.                           *)
NotifyLastAndWait ==
  /\ ParentGoto("notifyLast", "waitingLast") /\ mon = "free"
  /\ canStart' = [canStart EXCEPT !["multi"] = TRUE]
  /\ tpc' = Woken(Waiting)
  /\ UNCHANGED << runVars, counter, mon, stopped, collectVars >>

JoinThreads ==
  /\ ParentGoto("wokenLast", "idle") /\ mon = "free"
  /\ \A t \in Threads : tpc[t] = "end"
  /\ UNCHANGED << runVars, counter, canStart, mon, tpc, stopped, collectVars >>

-----------------------------------------------------------------------------
(* ThreadPriorityTest.benchMarkTest.  It resets neither the counter nor    *)
(* the flag; setStartStatus of WorkerThread can only set it.               *)
RunThreadPriority ==
  /\ ParentGoto("idle", "pollAll")
  /\ NewRun("priority", Threads)
  /\ opened' = canStart["priority"]
  /\ UNCHANGED << counter, canStart >>

(* Wait until the counter has a value: read it without the lock, then take *)
(* the lock to wait, at most ten seconds.                                  *)
AwaitCount(n, poll, try, wait, next) ==
  /\ \/ ParentGoto(poll, IF counter = n THEN next ELSE try)
     \/ ParentGoto(try, wait) /\ mon = "free"
     \/ ParentGoto(wait, poll) /\ mon = "free"
  /\ UNCHANGED << runVars, counter, canStart, mon, tpc, stopped, collectVars >>

AwaitAllCounted ==
  AwaitCount(Cardinality(Threads), "pollAll", "tryAll", "waitAll", "openAll")

OpenAll ==
  /\ ParentGoto("openAll", "notifyAll")
  /\ canStart' = [canStart EXCEPT !["priority"] = TRUE]
  /\ UNCHANGED << runVars, counter, mon, tpc, stopped, collectVars >>

NotifyAll ==
  /\ ParentGoto("notifyAll", "drain") /\ mon = "free"
  /\ tpc' = Woken(Waiting)
  /\ UNCHANGED << runVars, counter, canStart, mon, stopped, collectVars >>

\* A mutant: AwaitDrained that is content with one thread left.
AwaitOneLeft == AwaitCount(1, "drain", "tryDrain", "waitDrain", "collect")

AwaitDrained == AwaitCount(0, "drain", "tryDrain", "waitDrain", "collect")

(* For each worker: read its stop time, then join it.                      *)
ReadStopTime ==
  /\ ParentGoto("collect", "join")
  /\ \E t \in Threads \ collected :
       /\ current' = t
       /\ stale' = IF t \in stopped THEN stale ELSE stale \cup {t}
  /\ UNCHANGED << runVars, counter, canStart, mon, tpc, stopped, collected >>

JoinThread ==
  /\ tpc[current] = "end"
  /\ collected' = collected \cup {current}
  /\ ParentGoto("join", IF collected' = Threads THEN "idle" ELSE "collect")
  /\ UNCHANGED << runVars, counter, canStart, mon, tpc, stopped, current, stale >>

-----------------------------------------------------------------------------
(* The workers: run() of both classes.                                     *)

IncrementCounter(t) ==
  /\ tpc[t] = "start" /\ mon = "free"
  /\ mon' = t
  /\ counter' = counter + 1
  /\ tpc' = [tpc EXCEPT ![t] = "test"]
  /\ UNCHANGED << runVars, canStart, ppc, stopped, collectVars >>

(* canStartWork of WorkerThread is not volatile: until the parent has    *)
(* the lock a worker need not see that it is set.                          *)
FlagSeen == {canStart[test]} \cup (IF ppc = "notifyAll" THEN {FALSE} ELSE {})

(* while (canStartWork == false) lock.wait(), with the lock held.          *)
EnterOrWait(t) ==
  \E seen \in FlagSeen :
    tpc' = [tpc EXCEPT ![t] = IF seen THEN "work" ELSE "waiting"]

TestStart(t) ==
  /\ tpc[t] = "test" /\ mon = t
  /\ mon' = "free"
  /\ EnterOrWait(t)
  /\ UNCHANGED << runVars, counter, canStart, ppc, stopped, collectVars >>

Resume(t) ==
  /\ tpc[t] = "woken" /\ mon = "free"
  /\ EnterOrWait(t)
  /\ UNCHANGED << runVars, counter, canStart, mon, ppc, stopped, collectVars >>

(* notify wakes one thread that waits: a worker, or the parent, for whom   *)
(* it makes no difference in a wait that may also time out.                *)
Notify(t) ==
  LET goes == [tpc EXCEPT ![t] = "stop"]
  IN  \/ ppc \in {"waitAll", "waitDrain"} /\ tpc' = goes /\ UNCHANGED ppc
      \/ ParentGoto("waiting", "woken") /\ tpc' = goes
      \/ ParentGoto("waitingLast", "wokenLast") /\ tpc' = goes
      \/ \E u \in Waiting : tpc' = [goes EXCEPT ![u] = "woken"] /\ UNCHANGED ppc
      \/ /\ Waiting = {}
         /\ ppc \notin {"waiting", "waitingLast", "waitAll", "waitDrain"}
         /\ tpc' = goes /\ UNCHANGED ppc

FinishWork(t) ==
  /\ tpc[t] = "work" /\ mon = "free"
  /\ counter' = counter - 1
  /\ IF counter' = 0 THEN Notify(t)
     ELSE tpc' = [tpc EXCEPT ![t] = "stop"] /\ UNCHANGED ppc
  /\ UNCHANGED << runVars, canStart, mon, stopped, collectVars >>

(* WorkerThread sets stopTime here; MatrixMultiplierThread only returns.   *)
SetStopTime(t) ==
  /\ tpc[t] = "stop"
  /\ tpc' = [tpc EXCEPT ![t] = "end"]
  /\ stopped' = IF test = "priority" THEN stopped \cup {t} ELSE stopped
  /\ UNCHANGED << runVars, counter, canStart, mon, ppc, collectVars >>

SpuriousWakeup ==
  /\ spurious
  /\ \/ \E t \in Waiting : tpc' = Woken({t}) /\ UNCHANGED ppc
     \/ ParentGoto("waiting", "woken") /\ UNCHANGED tpc
     \/ ParentGoto("waitingLast", "wokenLast") /\ UNCHANGED tpc
  /\ UNCHANGED << runVars, counter, canStart, mon, stopped, collectVars >>

-----------------------------------------------------------------------------
Parent ==
  \/ RunMultiThread
  \/ PollGated
  \/ OpenGate
  \/ NotifyAndWait
  \/ StartLast
  \/ PollLast
  \/ NotifyLastAndWait
  \/ JoinThreads
  \/ RunThreadPriority
  \/ AwaitAllCounted
  \/ OpenAll
  \/ NotifyAll
  \/ AwaitDrained
  \/ ReadStopTime
  \/ JoinThread

Worker(t) ==
  \/ IncrementCounter(t)
  \/ TestStart(t)
  \/ Resume(t)
  \/ FinishWork(t)
  \/ SetStopTime(t)

Next == Parent \/ (\E t \in Threads : Worker(t)) \/ SpuriousWakeup

Spec == Init /\ [][Next]_vars

(* The parent and each worker run on a CPU of their own or block, and the  *)
(* lock is held for a bounded time, a bounded number of times.             *)
Fairness == WF_vars(Parent) /\ \A t \in Threads : WF_vars(Worker(t))

FairSpec == Spec /\ Fairness

-----------------------------------------------------------------------------
ParentPC == {"idle", "poll", "open", "notify", "waiting", "woken", "pollLast",
             "notifyLast", "waitingLast", "wokenLast", "pollAll", "tryAll",
             "waitAll", "openAll", "notifyAll", "drain", "tryDrain",
             "waitDrain", "collect", "join"}

ThreadPC == {"off", "start", "test", "waiting", "woken", "work", "stop", "end"}

TypeOK ==
  /\ spurious \in BOOLEAN
  /\ test \in Kinds
  /\ runs \in 0 .. MaxRuns
  /\ counter \in 0 .. Cardinality(Threads)
  /\ canStart \in [Kinds -> BOOLEAN]
  /\ opened \in BOOLEAN
  /\ mon \in Threads \cup {"free"}
  /\ ppc \in ParentPC
  /\ tpc \in [Threads -> ThreadPC]
  /\ stopped \subseteq Threads
  /\ current \in Threads
  /\ collected \subseteq Threads
  /\ stale \subseteq Threads

Starters == IF test = "multi" THEN Gated ELSE Threads

(* "wait for every thread to start": no worker works before all of them    *)
(* are counted, even when waits return on their own; unless an earlier run *)
(* of ThreadPriorityTest left the flag set.  And the last worker of        *)
(* MultiThreadTest measures alone, unless a wait returns on its own.       *)
WorkInTurn ==
  /\ ~opened /\ (\E t \in Starters : tpc[t] \in {"work", "stop", "end"}) =>
       \A t \in Starters : tpc[t] # "start"
  /\ ~spurious /\ test = "multi" /\ tpc[Last] = "work" =>
       \A t \in Gated : tpc[t] \in {"stop", "end"}

(* The stop time of a worker is read after it has finished its work.       *)
FinishedWhenRead ==
  ppc \in {"collect", "join"} => \A t \in Threads : tpc[t] \in {"stop", "end"}

(* "returns the stop time of task": it is set when it is read.             *)
StopTimesSet == stale = {}

(* Where the parent and a worker can go no further on their own.  The      *)
(* polling loops of MultiThreadTest wait for the counter; the waits of     *)
(* ThreadPriorityTest end after ten seconds.                               *)
ParentBlocked ==
  \/ ppc = "idle" /\ runs = MaxRuns
  \/ ppc = "poll" /\ counter # Cardinality(Gated)
  \/ ppc = "pollLast" /\ counter # 1
  \/ ppc \in {"waiting", "waitingLast"} /\ ~spurious
  \/ /\ ppc \in {"notify", "woken", "notifyLast", "tryAll", "waitAll", "notifyAll",
                  "tryDrain", "waitDrain"}
     /\ mon # "free"
  \/ ppc = "wokenLast" /\ (mon # "free" \/ \E t \in Threads : tpc[t] # "end")
  \/ ppc = "collect" /\ collected = Threads
  \/ ppc = "join" /\ tpc[current] # "end"

WorkerBlocked(t) ==
  \/ tpc[t] \in {"off", "end"}
  \/ tpc[t] = "waiting" /\ ~spurious
  \/ tpc[t] \in {"start", "woken", "work"} /\ mon # "free"
  \/ tpc[t] = "test" /\ mon # t

(* The parent and the workers never all wait before the last run has       *)
(* ended: when the parent is in a wait without a condition, some worker is *)
(* still to notify it, and when it polls, some worker is still to count    *)
(* itself, in either test, with spurious wakeups or without.               *)
NeverAllWait ==
  ParentBlocked /\ (\A t \in Threads : WorkerBlocked(t)) => ppc = "idle"

(* Every run ends, with no notification lost although none of the waits of *)
(* MultiThreadTest tests a condition; unless one returns on its own, or    *)
(* the flag was left set.                                                  *)
RunsEnd ==
  (ppc # "idle" /\ ~opened /\ (spurious => test = "priority")) ~> (ppc = "idle")
-----------------------------------------------------------------------------
(* The inductive invariant behind WorkInTurn, FinishedWhenRead and         *)
(* NeverAllWait.                                                           *)

Inside == {t \in Threads : tpc[t] \in {"test", "waiting", "woken", "work"}}

(* The counter that the parent reads without the lock is exact.            *)
CountInv == counter = Cardinality(Inside)

Before == {"start", "test", "waiting", "woken"}
Finished == {"stop", "end"}

Counting == {"pollAll", "tryAll", "waitAll"}
BeforeLast == {"poll", "open", "notify", "waiting", "woken"}
AfterGated == {"woken", "pollLast", "notifyLast", "waitingLast", "wokenLast"}
PriorityPC == Counting \cup {"openAll", "notifyAll", "drain", "tryDrain", "waitDrain",
                             "collect", "join"}
MultiPC == BeforeLast \cup AfterGated

(* Where the parent is tells which test runs, and where the workers are.   *)
MultiInv ==
  /\ ppc \in MultiPC => test = "multi"
  /\ ppc = "poll" => ~canStart["multi"] /\ \A t \in Gated : tpc[t] \in Before
  /\ ppc \in BeforeLast => tpc[Last] = "off"
  /\ ppc \in MultiPC \ {"poll"} => \A t \in Gated : tpc[t] \notin {"off", "start"}
  /\ ~spurious /\ ppc \in AfterGated => \A t \in Gated : tpc[t] \in Finished

PriorityInv ==
  /\ ppc \in PriorityPC => test = "priority"
  /\ ppc \in Counting /\ ~opened =>
       ~canStart["priority"] /\ \A t \in Threads : tpc[t] \in Before
  /\ ppc \in PriorityPC \ Counting => \A t \in Threads : tpc[t] \notin {"off", "start"}
  /\ ppc \in PriorityPC \ {"collect", "join"} => collected = {}
  /\ ppc \in {"collect", "join"} =>
       /\ \A t \in Threads : tpc[t] \in Finished
       /\ \A t \in collected : tpc[t] = "end"

IdleInv == ppc = "idle" => \A t \in Threads : tpc[t] \in {"off", "end"}

(* The lock is held across two steps by the worker that tests the flag.    *)
MonInv == \A t \in Threads : mon = t <=> tpc[t] = "test"

(* Somebody is there to be notified, and then to notify the parent: of two *)
(* gated workers one has let the other have the lock, and waits.           *)
NotifyInv ==
  /\ ppc \in {"poll", "open", "pollLast", "notifyLast"} => ~canStart["multi"]
  /\ ppc \in {"pollLast", "notifyLast"} => tpc[Last] \in Before
  /\ ppc \in {"waitingLast", "wokenLast"} => tpc[Last] # "off"
  /\ ppc \in {"collect", "join"} => collected # Threads
  /\ ~spurious =>
       /\ ppc = "poll" => \A t \in Gated : tpc[t] \in {"start", "test", "waiting"}
       /\ ppc = "open" => \A t \in Gated : tpc[t] \in {"test", "waiting"}
       /\ ppc = "notify" => \E t \in Gated : tpc[t] = "waiting"
       /\ ppc = "notifyLast" => tpc[Last] # "start"
       /\ ppc \in {"notify", "waiting", "waitingLast"} => canStart["multi"]
       /\ ppc = "waiting" =>
            /\ \A t \in Gated : tpc[t] \in {"woken", "work"} \cup Finished
            /\ \E t \in Gated : tpc[t] \in {"woken", "work"}
       /\ ppc = "waitingLast" => tpc[Last] \in {"woken", "work"}
       /\ ppc = "wokenLast" => tpc[Last] \in Finished

IInv ==
  /\ TypeOK /\ CountInv /\ MultiInv /\ PriorityInv /\ IdleInv
  /\ MonInv /\ NotifyInv

=============================================================================
