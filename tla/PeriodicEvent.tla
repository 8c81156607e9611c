---------------------------- MODULE PeriodicEvent ----------------------------
(***************************************************************************)
(* The periodic_event test of the C port (periodic_event_test.c) and of    *)
(* the C++ port (PeriodicEventTest.cpp).  Each attempt arms a periodic     *)
(* timer and waits in a loop until the handler of its signal has stored    *)
(* the times of Events expirations and sees one more.  The harness runs    *)
(* the test in a thread of its own and unloads its code afterwards.        *)
(*                                                                         *)
(* The signal is sent to the process and blocked by nobody: the thread of  *)
(* the test handles it between two of its own steps, or the main thread    *)
(* of the harness does, at the same time as anything else.  A thread does  *)
(* not handle the signal while it is in the handler; of a signal that is   *)
(* pending there is one.  Whether the deletion of a timer also removes its *)
(* pending signal is not specified.                                        *)
(*                                                                         *)
(* A time is abstracted to the attempt whose timer it belongs to.  Every   *)
(* access of the handler to a variable is a step, as the builds do not     *)
(* optimise.                                                               *)
(***************************************************************************)
EXTENDS Naturals

CONSTANTS
  Events,      \* iterations
  Threshold    \* bmtest->_threshold

ASSUME PeriodicEventAssumption ==
  /\ Events \in Nat \ {0}
  /\ Threshold \in Nat \ {0}

VARIABLES
  env,         \* the port, and whether the main thread may handle the signal
  apc,         \* where the test is
  attempt,     \* sub_iters
  done,
  fired,       \* events_fired
  slots,       \* dispatch_times; 0 where nothing was stored
  beyond,      \* something was stored after the end of dispatch_times
  timer,       \* of each attempt: "none", "idle" or "armed"
  timerId,     \* timer_id
  pending,     \* the timer whose signal is pending, or 0
  hpc,         \* where the handler is in each thread
  from,        \* the timer of the signal it handles
  loaded,      \* events_fired as it has read it
  crossed,     \* a signal or a handler has outlived its attempt (history)
  overlapped,  \* two handlers have run at a time (history)
  robbed       \* a handler has deleted the timer of a later attempt (history)

testVars == << env, apc, attempt >>
eventVars == << done, fired, slots, beyond >>
timerVars == << timer, timerId, pending >>
handlerVars == << hpc, from, loaded >>
historyVars == << crossed, overlapped, robbed >>
vars == << testVars, eventVars, timerVars, handlerVars, historyVars >>

Handlers == {"test", "main"}

InC == env.port = "c"

Init ==
  /\ env \in [port : {"c", "cpp"}, elsewhere : BOOLEAN]
  /\ apc = "begin" /\ attempt = 0
  /\ done = FALSE /\ fired = 0
  /\ slots = [i \in 1 .. Events |-> 0] /\ beyond = FALSE
  /\ timer = [k \in 1 .. Threshold |-> "none"] /\ timerId = 0 /\ pending = 0
  /\ hpc = [h \in Handlers |-> "none"]
  /\ from = [h \in Handlers |-> 0]
  /\ loaded = [h \in Handlers |-> 0]
  /\ crossed = FALSE /\ overlapped = FALSE /\ robbed = FALSE

-----------------------------------------------------------------------------
(* The thread of the test: periodic_event and do_run.  It is not in the    *)
(* handler, and a signal that only it can handle interrupts it at once.    *)
Runs(pc) ==
  /\ apc = pc
  /\ hpc["test"] = "none"
  /\ pending = 0 \/ env.elsewhere

Goto(pc) == apc' = pc /\ UNCHANGED << env, attempt >>

(* The C++ port makes one attempt less than the threshold.                 *)
LastAttempt == IF InC THEN Threshold ELSE Threshold - 1

(* Another attempt gets another array of zeros.                            *)
BeginAttempt ==
  /\ Runs("begin") /\ attempt < LastAttempt
  /\ attempt' = attempt + 1
  /\ apc' = "setup"
  /\ slots' = [i \in 1 .. Events |-> 0]
  /\ crossed' = (crossed \/ pending # 0 \/ hpc["main"] # "none")
  /\ UNCHANGED << env, done, fired, beyond, timerVars, handlerVars, overlapped, robbed >>

(* Out of attempts: the C port publishes what it has, the C++ port aborts  *)
(* unless the last attempt was measured, in which case it is here not.     *)
OutOfAttempts ==
  /\ Runs("begin") /\ attempt = LastAttempt
  /\ Goto("ended")
  /\ UNCHANGED << eventVars, timerVars, handlerVars, historyVars >>

CreateTimer ==
  /\ Runs("setup")
  /\ timer' = [timer EXCEPT ![attempt] = "idle"]
  /\ timerId' = attempt
  /\ Goto("reset")
  /\ UNCHANGED << pending, eventVars, handlerVars, historyVars >>

(* No clock, no timer or no handler.  Where there is no handler the C++    *)
(* port returns ERROR, -1, which its caller takes for true.                *)
NoTimer ==
  /\ Runs("setup")
  /\ Goto("begin") \/ (~InC /\ Goto("judge"))
  /\ UNCHANGED << eventVars, timerVars, handlerVars, historyVars >>

ResetDone == done' = FALSE /\ UNCHANGED fired

ResetFired == fired' = 0 /\ UNCHANGED done

\* A mutant: Reset that keeps events_fired.
ResetDoneOnly ==
  /\ Runs("reset")
  /\ ResetDone
  /\ Goto("arm")
  /\ UNCHANGED << slots, beyond, timerVars, handlerVars, historyVars >>

(* The C port resets done first, the C++ port events_fired.                *)
Reset ==
  /\ \/ Runs("reset") /\ Goto("resetnext") /\ (IF InC THEN ResetDone ELSE ResetFired)
     \/ Runs("resetnext") /\ Goto("arm") /\ (IF InC THEN ResetFired ELSE ResetDone)
  /\ UNCHANGED << slots, beyond, timerVars, handlerVars, historyVars >>

(* timer_settime fails when the timer is gone, and in the C++ port, which  *)
(* writes the whole period into tv_nsec, when that is a second or more.    *)
ArmTimer ==
  /\ Runs("arm")
  /\ \/ /\ timer[timerId] = "idle"
        /\ timer' = [timer EXCEPT ![timerId] = "armed"]
        /\ Goto("wait")
     \/ /\ timer[timerId] = "none" \/ ~InC
        /\ Goto("begin") /\ UNCHANGED timer
  /\ UNCHANGED << timerId, pending, eventVars, handlerVars, historyVars >>

(* sigtimedwait returns when the thread has handled the signal, or after   *)
(* half a minute.                                                          *)
LeaveWait ==
  /\ Runs("wait") /\ done
  /\ Goto(IF InC THEN "disarm" ELSE "judge")
  /\ UNCHANGED << eventVars, timerVars, handlerVars, historyVars >>

(* The C port sets the timer to the time of the first event, which is      *)
(* over: the timer, if it is still there, expires once more and at once.   *)
Disarm ==
  /\ Runs("disarm")
  /\ IF timer[timerId] = "none" THEN UNCHANGED << timer, pending >>
     ELSE /\ timer' = [timer EXCEPT ![timerId] = "idle"]
          /\ pending' = IF pending = 0 THEN timerId ELSE pending
  /\ Goto("delete")
  /\ UNCHANGED << timerId, eventVars, handlerVars, historyVars >>

(* timer_delete on timer_id; there may be no such timer any more.          *)
DeleteTimer ==
  /\ timer' = [timer EXCEPT ![timerId] = "none"]
  /\ pending' \in {pending} \cup (IF pending = timerId THEN {0} ELSE {})
  /\ UNCHANGED timerId

Delete ==
  /\ Runs("delete")
  /\ DeleteTimer
  /\ Goto("judge")
  /\ UNCHANGED << eventVars, handlerVars, historyVars >>

(* The times are added and judged.                                         *)
Judge ==
  /\ Runs("judge")
  /\ Goto("ended") \/ Goto("begin")
  /\ UNCHANGED << eventVars, timerVars, handlerVars, historyVars >>

Test ==
  \/ BeginAttempt \/ OutOfAttempts \/ CreateTimer \/ NoTimer \/ Reset
  \/ ArmTimer \/ LeaveWait \/ Disarm \/ Delete \/ Judge

-----------------------------------------------------------------------------
(* The kernel.                                                             *)

Expire ==
  /\ pending = 0 /\ apc # "ended"
  /\ \E k \in 1 .. Threshold : timer[k] = "armed" /\ pending' = k
  /\ UNCHANGED << testVars, eventVars, timer, timerId, handlerVars, historyVars >>

Deliver ==
  /\ pending # 0 /\ apc # "ended"
  /\ \E h \in IF env.elsewhere THEN Handlers ELSE {"test"} :
       /\ hpc[h] = "none"
       /\ hpc' = [hpc EXCEPT ![h] = "check"]
       /\ from' = [from EXCEPT ![h] = pending]
       /\ overlapped' = (overlapped \/ \E g \in Handlers : hpc[g] # "none")
  /\ pending' = 0
  /\ UNCHANGED << testVars, eventVars, timer, timerId, loaded, crossed, robbed >>

-----------------------------------------------------------------------------
(* The handler: timer_expiry_handler, in thread h.                         *)
Handles(h, pc) == hpc[h] = pc /\ apc # "ended"

HandlerGoto(h, pc) ==
  /\ hpc' = [hpc EXCEPT ![h] = pc]
  /\ UNCHANGED << testVars, from >>

(* The handler begins by reading the clock, and aborts the program when it *)
(* cannot: the timers and the pending signal go with the process.          *)
ClockFails(h) ==
  /\ Handles(h, "check")
  /\ apc' = "aborted"
  /\ timer' = [k \in 1 .. Threshold |-> "none"] /\ pending' = 0
  /\ hpc' = [g \in Handlers |-> "none"]
  /\ UNCHANGED << env, attempt, eventVars, timerId, from, loaded, historyVars >>

CheckDone(h) ==
  /\ Handles(h, "check")
  /\ HandlerGoto(h, IF done THEN "none" ELSE "compare")
  /\ UNCHANGED << eventVars, timerVars, loaded, historyVars >>

\* A mutant: Compare that allows one event more.
CompareAtMost(h) ==
  /\ Handles(h, "compare")
  /\ HandlerGoto(h, IF fired <= Events THEN "store" ELSE "mark")
  /\ UNCHANGED << eventVars, timerVars, loaded, historyVars >>

Compare(h) ==
  /\ Handles(h, "compare")
  /\ HandlerGoto(h, IF fired < Events THEN "store" ELSE "mark")
  /\ UNCHANGED << eventVars, timerVars, loaded, historyVars >>

(* dispatch_times[events_fired] = fired_time                               *)
Store(h) ==
  /\ Handles(h, "store")
  /\ IF fired < Events
       THEN slots' = [slots EXCEPT ![fired + 1] = from[h]] /\ UNCHANGED beyond
       ELSE beyond' = TRUE /\ UNCHANGED slots
  /\ HandlerGoto(h, "load")
  /\ UNCHANGED << done, fired, timerVars, loaded, historyVars >>

(* events_fired += 1                                                       *)
Load(h) ==
  /\ Handles(h, "load")
  /\ loaded' = [loaded EXCEPT ![h] = fired]
  /\ HandlerGoto(h, "add")
  /\ UNCHANGED << eventVars, timerVars, historyVars >>

Add(h) ==
  /\ Handles(h, "add")
  /\ fired' = loaded[h] + 1
  /\ HandlerGoto(h, "none")
  /\ UNCHANGED << done, slots, beyond, timerVars, loaded, historyVars >>

\* A mutant: MarkDone that forgets done.
MarkNothing(h) ==
  /\ Handles(h, "mark")
  /\ HandlerGoto(h, "delete")
  /\ UNCHANGED << eventVars, timerVars, loaded, historyVars >>

MarkDone(h) ==
  /\ Handles(h, "mark")
  /\ done' = TRUE
  /\ HandlerGoto(h, "delete")
  /\ UNCHANGED << fired, slots, beyond, timerVars, loaded, historyVars >>

\* A mutant: HandlerDeletes that does not delete.
HandlerKeeps(h) ==
  /\ Handles(h, "delete")
  /\ HandlerGoto(h, "none")
  /\ UNCHANGED << eventVars, timerVars, loaded, historyVars >>

HandlerDeletes(h) ==
  /\ Handles(h, "delete")
  /\ DeleteTimer
  /\ robbed' = (robbed \/ from[h] # timerId)
  /\ HandlerGoto(h, "none")
  /\ UNCHANGED << eventVars, loaded, crossed, overlapped >>

Handler(h) ==
  \/ ClockFails(h) \/ CheckDone(h) \/ Compare(h) \/ Store(h) \/ Load(h)
  \/ Add(h) \/ MarkDone(h) \/ HandlerDeletes(h)

Next == Test \/ Expire \/ Deliver \/ \E h \in Handlers : Handler(h)

Spec == Init /\ [][Next]_vars

(* An armed timer expires, a pending signal is handled, and both threads   *)
(* run on; the wait of the test has a limit.                               *)
FairSpec ==
  /\ Spec
  /\ WF_vars(Test) /\ WF_vars(Expire) /\ WF_vars(Deliver)
  /\ \A h \in Handlers : WF_vars(Handler(h))

-----------------------------------------------------------------------------
TypeOK ==
  /\ env \in [port : {"c", "cpp"}, elsewhere : BOOLEAN]
  /\ apc \in {"begin", "setup", "reset", "resetnext", "arm", "wait", "disarm",
              "delete", "judge", "ended", "aborted"}
  /\ attempt \in 0 .. Threshold
  /\ done \in BOOLEAN /\ fired \in Nat /\ beyond \in BOOLEAN
  /\ slots \in [1 .. Events -> 0 .. Threshold]
  /\ timer \in [1 .. Threshold -> {"none", "idle", "armed"}]
  /\ timerId \in 0 .. Threshold /\ pending \in 0 .. Threshold
  /\ hpc \in [Handlers -> {"none", "check", "compare", "store", "load", "add",
                           "mark", "delete"}]
  /\ from \in [Handlers -> 0 .. Threshold] /\ loaded \in [Handlers -> Nat]
  /\ crossed \in BOOLEAN /\ overlapped \in BOOLEAN /\ robbed \in BOOLEAN

(* The times that are judged are those of the events of this attempt: all  *)
(* of them, when no signal and no handler has outlived an attempt and no   *)
(* two handlers have run at a time; two may store into one place and skip  *)
(* another.  (The C++ port also judges an attempt that had no handler.)    *)
OwnEvents ==
  apc = "judge" /\ ~crossed =>
    \A i \in 1 .. Events :
      \/ slots[i] = attempt
      \/ slots[i] = 0 /\ (overlapped \/ ~InC)

(* Nothing is stored after the end of dispatch_times, unless two handlers  *)
(* have run at a time, and then by one element at most, or something has   *)
(* outlived an attempt.                                                    *)
StoresInside ==
  ~crossed =>
    /\ beyond => overlapped
    /\ fired <= IF overlapped THEN Events + 1 ELSE Events

(* When the code of the handler is unloaded no timer goes on to expire,    *)
(* unless a handler has yet to delete it or has deleted a later one in its *)
(* place.                                                                  *)
QuietAtEnd ==
  apc = "ended" =>
    \A k \in 1 .. Threshold :
      timer[k] = "armed" => robbed \/ \E h \in Handlers : hpc[h] = "delete"

(* Every wait ends, whichever thread handles the signals and however they  *)
(* overlap, unless a handler that began in an earlier attempt deletes the  *)
(* timer of this one.                                                      *)
WaitEnds == apc = "wait" ~> (apc # "wait" \/ robbed)
-----------------------------------------------------------------------------
(* The inductive invariant behind the three safety properties.             *)

Active(h) == hpc[h] # "none"
Arming == apc \in {"setup", "reset", "resetnext", "arm"}

(* Nothing comes from an attempt that has not armed its timer.             *)
AttemptInv ==
  /\ \A k \in 1 .. Threshold : timer[k] # "none" => k <= attempt
  /\ pending <= attempt /\ \A h \in Handlers : from[h] <= attempt
  /\ apc \in {"reset", "resetnext", "arm", "wait", "disarm", "delete"} =>
       timerId = attempt
  /\ apc \notin {"begin", "ended", "aborted"} => attempt > 0
  /\ Arming =>
       /\ pending # attempt /\ timer[attempt] # "armed"
       /\ \A h \in Handlers : Active(h) => from[h] # attempt

(* An armed timer that nobody waits for is going to be deleted, unless its *)
(* handler finds a later one in its place.                                 *)
DeleteInv ==
  ~robbed =>
    /\ \A k \in 1 .. Threshold :
         timer[k] = "armed" /\ ~(k = timerId /\ apc = "wait" /\ ~done) =>
           \E h \in Handlers :
             hpc[h] = "delete" /\ (from[h] = timerId => k = timerId)
    /\ done /\ (apc = "arm" \/ (apc = "resetnext" /\ InC)) =>
         \E h \in Handlers : hpc[h] = "delete" /\ from[h] # timerId

(* When nothing outlives an attempt, the signals and the handlers are of   *)
(* the timer that was armed last.                                          *)
CalmInv ==
  ~crossed =>
    /\ ~robbed
    /\ Arming => pending = 0 /\ \A h \in Handlers : hpc[h] = "none"
    /\ pending \in {0, attempt}
    /\ \A h \in Handlers : Active(h) => from[h] = attempt /\ timerId = attempt
    /\ pending # 0 => timerId = attempt
    /\ \A k \in 1 .. Threshold :
         timer[k] = "armed" =>
           k = attempt /\ k = timerId /\ (apc = "wait" \/ done)
    /\ apc = "arm" => ~done /\ fired = 0
    /\ apc = "resetnext" => IF InC THEN ~done ELSE fired = 0
    /\ InC /\ apc \in {"disarm", "delete", "judge"} => done

Adding == {"store", "load", "add"}

(* Of two handlers only one can be beyond the last element, and the other  *)
(* one then is not about to add.                                           *)
CountInv ==
  ~crossed =>
    /\ fired <= Events + 1
    /\ \A h \in Handlers :
         /\ hpc[h] \in {"store", "load"} => fired <= Events
         /\ hpc[h] = "add" => loaded[h] <= Events
         /\ hpc[h] \in {"store", "load"} /\ fired >= Events =>
              \A g \in Handlers \ {h} : hpc[g] \notin Adding
         /\ hpc[h] = "add" /\ loaded[h] >= Events =>
              fired >= Events /\ \A g \in Handlers \ {h} : hpc[g] \notin Adding

(* The array holds nothing of an earlier attempt.                          *)
SlotsInv == ~crossed => \A i \in 1 .. Events : slots[i] \in {0, attempt}

(* Alone, a handler stores the events one after the other.                 *)
AloneInv ==
  ~crossed /\ ~overlapped =>
    /\ ~beyond /\ fired <= Events
    /\ \A h \in Handlers : \A g \in Handlers : Active(h) /\ Active(g) => g = h
    /\ \A h \in Handlers :
         /\ hpc[h] \in Adding \cup {"compare"} => ~done
         /\ hpc[h] \in {"store", "load", "add"} => fired < Events
         /\ hpc[h] = "add" => loaded[h] = fired
         /\ hpc[h] \in {"load", "add"} => slots[fired + 1] = attempt
         /\ hpc[h] = "mark" => fired = Events
    /\ done /\ apc # "resetnext" => fired = Events
    /\ apc \in {"wait", "disarm", "delete"} \/ (InC /\ apc = "judge") =>
         \A i \in 1 .. fired : slots[i] = attempt

IInv ==
  /\ TypeOK /\ AttemptInv /\ DeleteInv /\ CalmInv
  /\ CountInv /\ SlotsInv /\ AloneInv

=============================================================================
