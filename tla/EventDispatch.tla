---------------------------- MODULE EventDispatch ----------------------------
(***************************************************************************)
(* The event_dispatch test of the three ports (event_dispatch_test.c and   *)
(* signal_notifier.c in the C port, EventDispatchTest in the Java port).   *)
(* A sender and a receiver thread hand control to each other through       *)
(* wait_notify_condn; before each major iteration the receiver announces   *)
(* itself through is_receiver_started.                                     *)
(* The parent runs both threads, judges the times, and runs them again     *)
(* with twice the sub-iterations until the times are acceptable.           *)
(*                                                                         *)
(* wait_notify_lock has an owner.  ready_lock does not: each of its        *)
(* sections is one step, up to the wait in wait_till_receiver_started.     *)
(* The times are not modelled, only the round trips they stand for.  The   *)
(* C port reads both clocks with wait_notify_lock held, the C++ port the   *)
(* second and the Java port both of them without it.                       *)
(***************************************************************************)
EXTENDS Naturals

CONSTANTS
  Majors,      \* evt_dispatch_major_iterations
  Threshold,   \* bmtest->_threshold
  MaxSubs      \* a bound: so many round trips take longer than the clock step

ASSUME EventDispatchAssumption ==
  /\ Majors \in Nat \ {0}
  /\ Threshold \in Nat \ {0}
  /\ MaxSubs \in Nat \ {0}

VARIABLES
  port,       \* "c", "cpp" or "java"; constant
  spurious,   \* whether condition variables may wake without a signal; constant
  ppc,        \* where the parent is
  subs,       \* evt_dispatch_sub_iterations
  retries,    \* retry_number
  entries,    \* result->num_entries
  started,    \* is_receiver_started
  nlock,      \* owner of wait_notify_lock
  spc,        \* where the sender is
  rpc,        \* where the receiver is
  major,      \* major_iteration of each thread
  sub,        \* sub_iteration of each thread
  sent,       \* signals of the sender so far
  answered,   \* signals of the receiver so far
  began,      \* answers when the sender started its clock
  timed       \* round trips inside the interval the sender last timed

envVars == << port, spurious >>
parentVars == << ppc, subs, retries, entries >>
tripVars == << sent, answered, began, timed >>
vars == << envVars, parentVars, started, nlock, spc, rpc, major, sub, tripVars >>

Sides == {"sender", "receiver"}

Zero == [t \in Sides |-> 0]

(* The C++ port starts from one and doubles before each run.               *)
MIN_SUB_ITERATION == 2

Init ==
  /\ port \in {"c", "cpp", "java"}
  /\ spurious \in BOOLEAN
  /\ ppc = "run"
  /\ subs = MIN_SUB_ITERATION
  /\ retries = 0
  /\ entries = 0
  /\ started = FALSE
  /\ nlock = "free"
  /\ spc = "off"
  /\ rpc = "off"
  /\ major = Zero
  /\ sub = Zero
  /\ sent = 0
  /\ answered = 0
  /\ began = 0
  /\ timed = 0

Acquire(t) == nlock = "free" /\ nlock' = t
Release(t) == nlock = t /\ nlock' = "free"

(* pthread_cond_signal on wait_notify_condn wakes one of the waiters.      *)
SignalNotify(sNext, rNext) ==
  \/ /\ rpc = "waiting" /\ rpc' = "woken" /\ spc' = sNext
  \/ /\ spc = "waiting" /\ spc' = "woken" /\ rpc' = rNext
  \/ /\ spc # "waiting" /\ rpc # "waiting" /\ spc' = sNext /\ rpc' = rNext

-----------------------------------------------------------------------------
(* The parent: event_dispatch and run_event_dispatch_test.                 *)

StartThreads ==
  /\ ppc = "run"
  /\ ppc' = "join"
  /\ spc' = "ready" /\ rpc' = "lock"
  /\ major' = Zero /\ sub' = Zero
  /\ UNCHANGED << subs, retries, entries, started, nlock, tripVars >>

(* Join both threads and add one time for each major iteration.            *)
JoinThreads ==
  /\ ppc = "join" /\ spc = "end" /\ rpc = "end"
  /\ ppc' = "judge"
  /\ entries' = entries + Majors
  /\ UNCHANGED << subs, retries, started, nlock, spc, rpc, major, sub, tripVars >>

(* The median is not above the clock accuracy: more work, not counted.     *)
TooFast ==
  /\ ppc = "judge" /\ subs < MaxSubs
  /\ ppc' = "run"
  /\ subs' = 2 * subs /\ entries' = 0
  /\ UNCHANGED << retries, started, nlock, spc, rpc, major, sub, tripVars >>

Accept ==
  /\ ppc = "judge"
  /\ ppc' = "end"
  /\ UNCHANGED << subs, retries, entries, started, nlock, spc, rpc, major, sub,
                  tripVars >>

(* The Java port doubles the work also after the last attempt.             *)
Reject ==
  /\ ppc = "judge"
  /\ retries' = retries + 1
  /\ IF retries' = Threshold
       THEN ppc' = "end" /\ UNCHANGED entries
       ELSE ppc' = "run" /\ entries' = 0
  /\ subs' = IF retries' = Threshold /\ port # "java" THEN subs ELSE 2 * subs
  /\ UNCHANGED << started, nlock, spc, rpc, major, sub, tripVars >>

-----------------------------------------------------------------------------
(* The sender: signal_sender_start and wait_till_receiver_started.         *)

AfterAnnouncement == IF port = "java" THEN "start" ELSE "lock"

\* A mutant: WaitTillReceiverStarted that leaves the flag set.
KeepStarted ==
  /\ spc = "ready"
  /\ spc' = IF started THEN AfterAnnouncement ELSE "readywait"
  /\ UNCHANGED << parentVars, started, nlock, rpc, major, sub, tripVars >>

WaitTillReceiverStarted ==
  /\ spc = "ready"
  /\ spc' = IF started THEN AfterAnnouncement ELSE "readywait"
  /\ started' = FALSE
  /\ UNCHANGED << parentVars, nlock, rpc, major, sub, tripVars >>

(* The wait on ready_condn is in a loop: a spurious wakeup only rechecks.  *)
ReadySpuriousWakeup ==
  /\ spurious /\ spc = "readywait"
  /\ spc' = "ready"
  /\ UNCHANGED << parentVars, started, nlock, rpc, major, sub, tripVars >>

(* The Java port starts the interval that is timed before it has the lock. *)
SenderReadsClock ==
  /\ spc = "start"
  /\ spc' = "lock"
  /\ began' = answered
  /\ UNCHANGED << parentVars, started, nlock, rpc, major, sub, sent, answered,
                  timed >>

(* Take wait_notify_lock; the C and C++ ports start the interval here.     *)
SenderLock ==
  /\ spc = "lock" /\ Acquire("sender")
  /\ spc' = "signal"
  /\ began' = IF port = "java" THEN began ELSE answered
  /\ UNCHANGED << parentVars, started, rpc, major, sub, sent, answered, timed >>

\* A mutant: SenderSignal that unlocks before the wait.
SenderSignalUnlocking ==
  /\ spc = "signal" /\ Release("sender")
  /\ SignalNotify("wait", rpc)
  /\ sent' = sent + 1
  /\ UNCHANGED << parentVars, started, major, sub, answered, began, timed >>

SenderSignal ==
  /\ spc = "signal"
  /\ SignalNotify("wait", rpc)
  /\ sent' = sent + 1
  /\ UNCHANGED << parentVars, started, nlock, major, sub, answered, began, timed >>

\* A mutant: SenderWait that unlocks and locks instead of waiting.
SenderYield ==
  /\ spc = "wait" /\ Release("sender")
  /\ spc' = "woken"
  /\ UNCHANGED << parentVars, started, rpc, major, sub, tripVars >>

SenderWait ==
  /\ spc = "wait" /\ Release("sender")
  /\ spc' = "waiting"
  /\ UNCHANGED << parentVars, started, rpc, major, sub, tripVars >>

\* A mutant: SenderResume that leaves the loop one short.
SenderResumeOneShort ==
  /\ spc = "woken" /\ Acquire("sender")
  /\ sub' = [sub EXCEPT !["sender"] = @ + 1]
  /\ IF sub'["sender"] < subs - 1
       THEN spc' = "signal" /\ UNCHANGED timed
       ELSE /\ spc' = "unlock"
            /\ timed' = IF port = "c" THEN answered - began ELSE timed
  /\ UNCHANGED << parentVars, started, rpc, major, sent, answered, began >>

(* Back from the wait with the lock: the next sub-iteration, or the end of *)
(* the timed interval in the C port.                                       *)
SenderResume ==
  /\ spc = "woken" /\ Acquire("sender")
  /\ sub' = [sub EXCEPT !["sender"] = @ + 1]
  /\ IF sub'["sender"] < subs
       THEN spc' = "signal" /\ UNCHANGED timed
       ELSE /\ spc' = "unlock"
            /\ timed' = IF port = "c" THEN answered - began ELSE timed
  /\ UNCHANGED << parentVars, started, rpc, major, sent, answered, began >>

SenderUnlock ==
  /\ spc = "unlock" /\ Release("sender")
  /\ spc' = "stop"
  /\ UNCHANGED << parentVars, started, rpc, major, sub, tripVars >>

(* The time is recorded; in the C++ and Java ports the interval ends here. *)
SenderRecords ==
  /\ spc = "stop"
  /\ timed' = IF port = "c" THEN timed ELSE answered - began
  /\ major' = [major EXCEPT !["sender"] = @ + 1]
  /\ sub' = [sub EXCEPT !["sender"] = 0]
  /\ spc' = IF major'["sender"] < Majors THEN "ready" ELSE "end"
  /\ UNCHANGED << parentVars, started, nlock, rpc, sent, answered, began >>

-----------------------------------------------------------------------------
(* The receiver: signal_receiver_start and set_receiver_started.           *)

ReceiverLock ==
  /\ rpc = "lock" /\ Acquire("receiver")
  /\ rpc' = "announce"
  /\ UNCHANGED << parentVars, started, spc, major, sub, tripVars >>

(* set_receiver_started, with wait_notify_lock held.                       *)
SetReceiverStarted ==
  /\ rpc = "announce"
  /\ started' = TRUE
  /\ spc' = IF spc = "readywait" THEN "ready" ELSE spc
  /\ rpc' = "wait"
  /\ UNCHANGED << parentVars, nlock, major, sub, tripVars >>

ReceiverWait ==
  /\ rpc = "wait" /\ Release("receiver")
  /\ rpc' = "waiting"
  /\ UNCHANGED << parentVars, started, spc, major, sub, tripVars >>

(* Back from the wait with the lock: answer, then wait again or leave.     *)
ReceiverResume ==
  /\ rpc = "woken" /\ Acquire("receiver")
  /\ rpc' = "answer"
  /\ UNCHANGED << parentVars, started, spc, major, sub, tripVars >>

ReceiverAnswer ==
  /\ rpc = "answer"
  /\ sub' = [sub EXCEPT !["receiver"] = @ + 1]
  /\ SignalNotify(spc, IF sub'["receiver"] < subs THEN "wait" ELSE "unlock")
  /\ answered' = answered + 1
  /\ UNCHANGED << parentVars, started, nlock, major, sent, began, timed >>

ReceiverUnlock ==
  /\ rpc = "unlock" /\ Release("receiver")
  /\ major' = [major EXCEPT !["receiver"] = @ + 1]
  /\ sub' = [sub EXCEPT !["receiver"] = 0]
  /\ rpc' = IF major'["receiver"] < Majors THEN "lock" ELSE "end"
  /\ UNCHANGED << parentVars, started, spc, tripVars >>

(* Neither wait on wait_notify_condn is in a loop.                         *)
NotifySpuriousWakeup ==
  /\ spurious
  /\ \/ spc = "waiting" /\ spc' = "woken" /\ UNCHANGED rpc
     \/ rpc = "waiting" /\ rpc' = "woken" /\ UNCHANGED spc
  /\ UNCHANGED << parentVars, started, nlock, major, sub, tripVars >>

-----------------------------------------------------------------------------
Parent ==
  /\ StartThreads \/ JoinThreads \/ TooFast \/ Accept \/ Reject
  /\ UNCHANGED envVars

Sender ==
  /\ \/ WaitTillReceiverStarted
     \/ SenderReadsClock
     \/ SenderLock
     \/ SenderSignal
     \/ SenderWait
     \/ SenderResume
     \/ SenderUnlock
     \/ SenderRecords
  /\ UNCHANGED envVars

Receiver ==
  /\ \/ ReceiverLock
     \/ SetReceiverStarted
     \/ ReceiverWait
     \/ ReceiverResume
     \/ ReceiverAnswer
     \/ ReceiverUnlock
  /\ UNCHANGED envVars

SpuriousWakeup ==
  /\ ReadySpuriousWakeup \/ NotifySpuriousWakeup
  /\ UNCHANGED envVars

Next ==
  \/ Parent
  \/ Sender
  \/ Receiver
  \/ SpuriousWakeup

Spec == Init /\ [][Next]_vars

(* The threads have the same priority and block when they wait.            *)
Fairness == WF_vars(Parent) /\ WF_vars(Sender) /\ WF_vars(Receiver)

FairSpec == Spec /\ Fairness

-----------------------------------------------------------------------------
SenderPC == {"off", "ready", "readywait", "start", "lock", "signal", "wait",
             "waiting", "woken", "unlock", "stop", "end"}

ReceiverPC == {"off", "lock", "announce", "wait", "waiting", "woken", "answer",
               "unlock", "end"}

TypeOK ==
  /\ ppc \in {"run", "join", "judge", "end"}
  /\ subs \in Nat
  /\ retries \in 0 .. Threshold
  /\ entries \in Nat
  /\ started \in BOOLEAN
  /\ nlock \in Sides \cup {"free"}
  /\ spc \in SenderPC
  /\ rpc \in ReceiverPC
  /\ major \in [Sides -> Nat]
  /\ sub \in [Sides -> Nat]
  /\ sent \in Nat /\ answered \in Nat /\ timed \in Nat

(* "receiver is waiting for signal. let us send signal": whenever the      *)
(* sender signals, the receiver is in its wait, so no signal is lost and   *)
(* none wakes the sender itself.                                           *)
ReceiverIsWaiting == spc = "signal" => rpc = "waiting"

(* Even with spurious wakeups the sender enters a major iteration only     *)
(* after the receiver has announced itself for that same iteration.        *)
SenderAwaitsAnnouncement ==
  spc \in {"start", "lock", "signal", "wait", "waiting", "woken", "unlock",
           "stop"} =>
    \/ major["sender"] < major["receiver"]
    \/ /\ major["sender"] = major["receiver"]
       /\ rpc \notin {"off", "lock", "announce"}

(* The receiver's answer finds the sender in its wait.                     *)
SenderIsWaiting == rpc = "answer" => spc = "waiting"

(* No signal is lost in either direction, although neither wait tests a    *)
(* condition: each finds the other thread in its wait.                     *)
SignalsFindWaiters == ~spurious => ReceiverIsWaiting /\ SenderIsWaiting

(* Each time that is recorded is the time of exactly sub-iterations round  *)
(* trips, although the two threads count them separately, the receiver may *)
(* be a major iteration ahead when the sender reads the clock, and not all *)
(* ports read it with the lock held.                                       *)
TimedRoundTrips ==
  ~spurious /\ ppc = "join" /\ major["sender"] > 0 => timed = subs

(* A run leaves nothing behind for the next: the static flag, which is not *)
(* reset, is down, and the locks are free when they are destroyed.         *)
CleanBetweenRuns == ppc # "join" => ~started /\ nlock = "free"

(* Where each can go no further on its own.                                *)
ParentBlocked == ppc = "end" \/ (ppc = "join" /\ ~(spc = "end" /\ rpc = "end"))

SenderBlocked ==
  \/ spc \in {"off", "end"}
  \/ spc \in {"readywait", "waiting"} /\ ~spurious
  \/ spc \in {"lock", "woken"} /\ nlock # "free"

ReceiverBlocked ==
  \/ rpc \in {"off", "end"}
  \/ rpc = "waiting" /\ ~spurious
  \/ rpc \in {"lock", "woken"} /\ nlock # "free"

(* The threads never both wait, for the lock, for the announcement or for  *)
(* each other's signal, and a thread never waits for one that has ended.   *)
NeverAllWait == ParentBlocked /\ SenderBlocked /\ ReceiverBlocked => ppc = "end"

(* The hand-over implements the alternation the benchmark times, across    *)
(* major iterations and runs: control is with the receiver from each       *)
(* signal of the sender to the receiver's answer.  With spurious wakeups   *)
(* it does not, and the mapping shows a test that never begins.            *)
Turn == IF spurious \/ sent = answered THEN "sender" ELSE "receiver"

Trips == IF spurious THEN 0 ELSE answered

Trip == INSTANCE PingPong WITH turn <- Turn, trips <- Trips

Alternates == Trip!Spec

(* What makes the above inductive: who owns the lock is where an owner can *)
(* be; for each place of the sender, where the receiver can be; how far    *)
(* the counts of the two have moved.  True when no wakeup is spurious.     *)
LockInv ==
  /\ nlock = "sender" <=> spc \in {"signal", "wait", "unlock"}
  /\ nlock = "receiver" <=> rpc \in {"announce", "wait", "answer", "unlock"}

InSameMajor(r) ==
  /\ major["receiver"] = major["sender"] /\ major["sender"] < Majors
  /\ rpc \in r

(* The receiver is done with the major iteration of the sender.            *)
ReceiverAhead ==
  /\ major["receiver"] = major["sender"] + 1
  /\ sub["receiver"] = 0
  /\ \/ major["receiver"] < Majors /\ ~started /\ rpc \in {"lock", "announce"}
     \/ major["receiver"] < Majors /\ started /\ rpc \in {"wait", "waiting"}
     \/ major["receiver"] = Majors /\ ~started /\ rpc = "end"

BeforeMajor ==
  spc \in {"ready", "readywait", "start", "lock"} =>
    /\ sub = Zero
    /\ \/ /\ spc \in {"ready", "readywait"} /\ ~started
          /\ InSameMajor({"lock", "announce"})
       \/ spc = "ready" /\ started /\ InSameMajor({"wait", "waiting"})
       \/ /\ spc \in {"start", "lock"} /\ ~started
          /\ InSameMajor({"wait", "waiting"})

RoundTrip ==
  spc \in {"signal", "wait", "waiting"} =>
    /\ sub["receiver"] = sub["sender"] /\ sub["sender"] < subs
    /\ ~started
    /\ InSameMajor(CASE spc = "signal"  -> {"waiting"}
                     [] spc = "wait"    -> {"woken"}
                     [] spc = "waiting" -> {"woken", "answer"})

AfterAnswer ==
  spc = "woken" =>
    /\ sub["sender"] < subs
    /\ \/ /\ sub["receiver"] = sub["sender"] + 1 /\ ~started
          /\ IF sub["receiver"] < subs THEN InSameMajor({"wait", "waiting"})
             ELSE InSameMajor({"unlock"})
       \/ sub["sender"] + 1 = subs /\ ReceiverAhead

AfterMajor == spc \in {"unlock", "stop"} => sub["sender"] = subs /\ ReceiverAhead

RunInv ==
  IF ppc = "join"
    THEN /\ spc # "off" /\ entries = 0
         /\ spc = "end" => /\ ~started /\ rpc = "end"
                           /\ major["receiver"] = major["sender"]
    ELSE /\ << spc, rpc >> \in {<< "off", "off" >>, << "end", "end" >>}
         /\ ~started
         /\ entries = IF ppc = "run" THEN 0 ELSE Majors

CountInv ==
  /\ sent = IF spc \in {"wait", "waiting"} THEN answered + 1 ELSE answered
  /\ spc \in {"signal", "wait", "waiting"} => answered = began + sub["sender"]
  /\ spc = "woken" => answered = began + sub["sender"] + 1
  /\ spc = "lock" /\ port = "java" => answered = began
  /\ spc \in {"unlock", "stop"} =>
       IF port = "c" THEN timed = subs ELSE answered = began + subs
  /\ ppc = "join" /\ major["sender"] > 0 => timed = subs

Bounds ==
  /\ port \in {"c", "cpp", "java"}
  /\ began \in Nat
  /\ subs > 0
  /\ ppc # "end" => retries < Threshold

IInv ==
  /\ TypeOK
  /\ Bounds
  /\ LockInv
  /\ BeforeMajor /\ RoundTrip /\ AfterAnswer /\ AfterMajor
  /\ RunInv
  /\ CountInv

(* The same for SenderAwaitsAnnouncement, with spurious wakeups too: the    *)
(* receiver has announced itself at least as often as the sender has       *)
(* entered a major iteration, and once more while the flag is up.          *)
Entered ==
  major["sender"] +
    IF spc \in {"start", "lock", "signal", "wait", "waiting", "woken", "unlock",
                "stop"} THEN 1 ELSE 0

Announced ==
  major["receiver"] +
    IF rpc \in {"wait", "waiting", "woken", "answer", "unlock"} THEN 1 ELSE 0

AnnouncementInv == Entered + (IF started THEN 1 ELSE 0) <= Announced

ThreadsInv ==
  /\ IF spc = "end" THEN major["sender"] = Majors ELSE major["sender"] < Majors
  /\ IF rpc = "end" THEN major["receiver"] = Majors
                    ELSE major["receiver"] < Majors
  /\ ppc # "join" =>
       << spc, rpc >> \in {<< "off", "off" >>, << "end", "end" >>} /\ ~started
  /\ ppc = "join" => spc # "off" /\ rpc # "off"
  /\ began <= answered

AnyWakeupInv == TypeOK /\ Bounds /\ LockInv /\ ThreadsInv /\ AnnouncementInv

(* Every run ends, unless a wait returns on its own.                       *)
RunsEnd == (ppc = "join") ~> (ppc = "judge" \/ spurious)
=============================================================================
