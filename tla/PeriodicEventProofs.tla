------------------------- MODULE PeriodicEventProofs -------------------------
(***************************************************************************)
(* Safety of the periodic event test for every number of events and every  *)
(* threshold, in both ports and with the handler in one or two threads.    *)
(***************************************************************************)
EXTENDS PeriodicEvent, TLAPS

(* The test starts in the inductive invariant. *)
LEMMA InitIInv == Init => IInv
<1> SUFFICES ASSUME Init PROVE IInv
  OBVIOUS
<1>1. TypeOK
  <2>1. /\ hpc \in [Handlers -> {"none"}]
        /\ from \in [Handlers -> {0}] /\ loaded \in [Handlers -> {0}]
    BY DEF Init
  <2>2. /\ slots \in [1 .. Events -> {0}]
        /\ timer \in [1 .. Threshold -> {"none"}]
    BY DEF Init
  <2>3. /\ fired \in Nat /\ attempt \in 0 .. Threshold
        /\ timerId \in 0 .. Threshold /\ pending \in 0 .. Threshold
    BY PeriodicEventAssumption DEF PeriodicEventAssumption, Init
  <2>6. /\ done \in BOOLEAN /\ beyond \in BOOLEAN
        /\ crossed \in BOOLEAN /\ overlapped \in BOOLEAN /\ robbed \in BOOLEAN
    BY Zenon DEF Init
  <2>4. /\ env \in [port : {"c", "cpp"}, elsewhere : BOOLEAN]
        /\ apc = "begin"
    BY DEF Init
  <2>5. /\ slots \in [1 .. Events -> 0 .. Threshold]
        /\ from \in [Handlers -> 0 .. Threshold] /\ loaded \in [Handlers -> Nat]
    BY <2>1, <2>2, PeriodicEventAssumption DEF PeriodicEventAssumption
  <2> QED
    BY <2>1, <2>2, <2>3, <2>4, <2>5, <2>6 DEF TypeOK
<1>2. AttemptInv /\ DeleteInv /\ CalmInv
  BY DEF Init, AttemptInv, DeleteInv, CalmInv, Active, Arming, Handlers, InC
<1>3. CountInv /\ SlotsInv /\ AloneInv
  BY PeriodicEventAssumption
  DEF PeriodicEventAssumption, Init, CountInv, SlotsInv, AloneInv, Active,
      Adding, Handlers, InC
<1> QED
  BY <1>1, <1>2, <1>3 DEF IInv

-----------------------------------------------------------------------------
(* Each part of the invariant is kept by every step, given the parts it    *)
(* needs.                                                                  *)

(* Every variable keeps its type. *)
LEMMA TypeStep ==
  ASSUME TypeOK, AttemptInv, [Next]_vars
  PROVE  TypeOK'
<1> USE PeriodicEventAssumption DEF TypeOK, PeriodicEventAssumption,
        AttemptInv, testVars, eventVars, timerVars, handlerVars, historyVars,
        InC, Handlers
<1>1. CASE UNCHANGED vars
  BY <1>1 DEF vars
<1>2. CASE BeginAttempt
  BY <1>2 DEF BeginAttempt, LastAttempt, Runs
<1>3. CASE OutOfAttempts
  BY <1>3 DEF OutOfAttempts, Runs, Goto
<1>4. CASE CreateTimer
  BY <1>4 DEF CreateTimer, Runs, Goto
<1>5. CASE NoTimer
  BY <1>5 DEF NoTimer, Runs, Goto
<1>6. CASE Reset
  <2>1. fired' \in {fired, 0} /\ apc' \in {"resetnext", "arm"}
    BY <1>6 DEF Reset, ResetDone, ResetFired, Runs, Goto
  <2>2. UNCHANGED << env, attempt, slots, beyond, timerVars, handlerVars,
                     historyVars >>
    BY <1>6 DEF Reset, Goto
  <2>3. done' \in BOOLEAN
    <3>1. CASE ResetDone
      BY <3>1, Zenon DEF ResetDone
    <3>2. CASE ResetFired
      BY <3>2 DEF ResetFired
    <3> QED
      BY <1>6, <3>1, <3>2 DEF Reset
  <2> QED
    BY <2>1, <2>2, <2>3
<1>7. CASE ArmTimer
  BY <1>7 DEF ArmTimer, Runs, Goto
<1>8. CASE LeaveWait
  BY <1>8 DEF LeaveWait, Runs, Goto
<1>9. CASE Disarm
  BY <1>9 DEF Disarm, Runs, Goto
<1>10. CASE Delete
  BY <1>10 DEF Delete, DeleteTimer, Runs, Goto
<1>11. CASE Judge
  BY <1>11 DEF Judge, Runs, Goto
<1>12. CASE Expire
  BY <1>12 DEF Expire
<1>13. CASE Deliver
  BY <1>13 DEF Deliver
<1>14. ASSUME NEW h \in Handlers, Handler(h)
     PROVE  TypeOK'
  <2>1. CASE ClockFails(h)
    BY <2>1 DEF ClockFails, Handles, HandlerGoto
  <2>2. CASE CheckDone(h)
    BY <2>2 DEF CheckDone, Handles, HandlerGoto
  <2>3. CASE Compare(h)
    BY <2>3 DEF Compare, Handles, HandlerGoto
  <2>4. CASE Store(h)
    <3>1. slots' \in [1 .. Events -> 0 .. Threshold] /\ beyond' \in BOOLEAN
      <4>1. CASE fired < Events
        BY <2>4, <4>1 DEF Store
      <4>2. CASE ~(fired < Events)
        BY <2>4, <4>2 DEF Store
      <4> QED
        BY <4>1, <4>2
    <3>2. hpc' \in [Handlers -> {"none", "check", "compare", "store", "load",
                                 "add", "mark", "delete"}]
      BY <2>4 DEF Store, HandlerGoto
    <3>3. UNCHANGED << testVars, from, done, fired, timerVars, loaded,
                       historyVars >>
      BY <2>4 DEF Store, HandlerGoto
    <3> QED
      BY <3>1, <3>2, <3>3
  <2>5. CASE Load(h)
    BY <2>5 DEF Load, Handles, HandlerGoto
  <2>6. CASE Add(h)
    BY <2>6 DEF Add, Handles, HandlerGoto
  <2>7. CASE MarkDone(h)
    BY <2>7 DEF MarkDone, Handles, HandlerGoto
  <2>8. CASE HandlerDeletes(h)
    <3>1. timer' \in [1 .. Threshold -> {"none", "idle", "armed"}]
      BY <2>8 DEF HandlerDeletes, DeleteTimer
    <3>2. pending' \in 0 .. Threshold
      BY <2>8 DEF HandlerDeletes, DeleteTimer
    <3>3. hpc' \in [Handlers -> {"none", "check", "compare", "store", "load",
                                 "add", "mark", "delete"}]
      BY <2>8 DEF HandlerDeletes, HandlerGoto
    <3> QED
      BY <2>8, <3>1, <3>2, <3>3 DEF HandlerDeletes, HandlerGoto, DeleteTimer
  <2> QED
    BY <1>14, <2>1, <2>2, <2>3, <2>4, <2>5, <2>6, <2>7, <2>8 DEF Handler
<1> QED
  BY <1>1, <1>2, <1>3, <1>4, <1>5, <1>6, <1>7, <1>8, <1>9, <1>10, <1>11, <1>12,
     <1>13, <1>14
  DEF Next, Test

(* Nothing comes from an attempt that has not armed its timer. *)
LEMMA AttemptStep ==
  ASSUME TypeOK, AttemptInv, [Next]_vars
  PROVE  AttemptInv'
<1> USE PeriodicEventAssumption DEF TypeOK, PeriodicEventAssumption,
        AttemptInv, Active, Arming, testVars, eventVars, timerVars,
        handlerVars, historyVars, InC, Handlers
<1>1. CASE UNCHANGED vars
  BY <1>1 DEF vars
<1>2. CASE BeginAttempt
  BY <1>2 DEF BeginAttempt, LastAttempt, Runs
<1>3. CASE OutOfAttempts
  BY <1>3 DEF OutOfAttempts, Runs, Goto
<1>4. CASE CreateTimer
  BY <1>4 DEF CreateTimer, Runs, Goto
<1>5. CASE NoTimer
  BY <1>5 DEF NoTimer, Runs, Goto
<1>6. CASE Reset
  BY <1>6 DEF Reset, ResetDone, ResetFired, Runs, Goto
<1>7. CASE ArmTimer
  BY <1>7 DEF ArmTimer, Runs, Goto
<1>8. CASE LeaveWait
  BY <1>8 DEF LeaveWait, Runs, Goto
<1>9. CASE Disarm
  BY <1>9 DEF Disarm, Runs, Goto
<1>10. CASE Delete
  BY <1>10 DEF Delete, DeleteTimer, Runs, Goto
<1>11. CASE Judge
  BY <1>11 DEF Judge, Runs, Goto
<1>12. CASE Expire
  BY <1>12 DEF Expire
<1>13. CASE Deliver
  BY <1>13 DEF Deliver
<1>14. ASSUME NEW h \in Handlers, Handler(h)
     PROVE  AttemptInv'
  <2>1. CASE ClockFails(h)
    BY <2>1 DEF ClockFails, Handles, HandlerGoto
  <2>2. CASE CheckDone(h)
    BY <2>2 DEF CheckDone, Handles, HandlerGoto
  <2>3. CASE Compare(h)
    BY <2>3 DEF Compare, Handles, HandlerGoto
  <2>4. CASE Store(h)
    BY <2>4 DEF Store, Handles, HandlerGoto
  <2>5. CASE Load(h)
    BY <2>5 DEF Load, Handles, HandlerGoto
  <2>6. CASE Add(h)
    BY <2>6 DEF Add, Handles, HandlerGoto
  <2>7. CASE MarkDone(h)
    BY <2>7 DEF MarkDone, Handles, HandlerGoto
  <2>8. CASE HandlerDeletes(h)
    BY <2>8 DEF HandlerDeletes, Handles, HandlerGoto, DeleteTimer
  <2> QED
    BY <1>14, <2>1, <2>2, <2>3, <2>4, <2>5, <2>6, <2>7, <2>8 DEF Handler
<1> QED
  BY <1>1, <1>2, <1>3, <1>4, <1>5, <1>6, <1>7, <1>8, <1>9, <1>10, <1>11, <1>12,
     <1>13, <1>14
  DEF Next, Test

(* An armed timer is waited for or has a handler that deletes it. *)
LEMMA DeleteStep ==
  ASSUME TypeOK, AttemptInv, DeleteInv, [Next]_vars
  PROVE  DeleteInv'
<1> USE PeriodicEventAssumption DEF TypeOK, PeriodicEventAssumption,
        AttemptInv, DeleteInv, Active, Arming, testVars, eventVars, timerVars,
        handlerVars, historyVars, InC, Handlers
<1>1. CASE UNCHANGED vars
  BY <1>1 DEF vars
<1>2. CASE BeginAttempt
  BY <1>2 DEF BeginAttempt, LastAttempt, Runs
<1>3. CASE OutOfAttempts
  BY <1>3 DEF OutOfAttempts, Runs, Goto
<1>4. CASE CreateTimer
  BY <1>4 DEF CreateTimer, Runs, Goto
<1>5. CASE NoTimer
  BY <1>5 DEF NoTimer, Runs, Goto
<1>6. CASE Reset
  BY <1>6 DEF Reset, ResetDone, ResetFired, Runs, Goto
<1>7. CASE ArmTimer
  BY <1>7 DEF ArmTimer, Runs, Goto
<1>8. CASE LeaveWait
  BY <1>8 DEF LeaveWait, Runs, Goto
<1>9. CASE Disarm
  BY <1>9 DEF Disarm, Runs, Goto
<1>10. CASE Delete
  BY <1>10 DEF Delete, DeleteTimer, Runs, Goto
<1>11. CASE Judge
  BY <1>11 DEF Judge, Runs, Goto
<1>12. CASE Expire
  BY <1>12 DEF Expire
<1>13. CASE Deliver
  BY <1>13 DEF Deliver
<1>14. ASSUME NEW h \in Handlers, Handler(h)
     PROVE  DeleteInv'
  <2>1. CASE ClockFails(h)
    BY <2>1 DEF ClockFails, Handles, HandlerGoto
  <2>2. CASE CheckDone(h)
    BY <2>2 DEF CheckDone, Handles, HandlerGoto
  <2>3. CASE Compare(h)
    BY <2>3 DEF Compare, Handles, HandlerGoto
  <2>4. CASE Store(h)
    BY <2>4 DEF Store, Handles, HandlerGoto
  <2>5. CASE Load(h)
    BY <2>5 DEF Load, Handles, HandlerGoto
  <2>6. CASE Add(h)
    BY <2>6 DEF Add, Handles, HandlerGoto
  <2>7. CASE MarkDone(h)
    BY <2>7 DEF MarkDone, Handles, HandlerGoto
  <2>8. CASE HandlerDeletes(h)
    <3>1. CASE robbed'
      BY <3>1
    <3>2. CASE ~robbed'
      <4>1. ~robbed /\ from[h] = timerId
        BY <2>8, <3>2 DEF HandlerDeletes
      <4>2. timer' = [timer EXCEPT ![timerId] = "none"]
        BY <2>8 DEF HandlerDeletes, DeleteTimer
      <4>3. hpc' = [hpc EXCEPT ![h] = "none"]
        BY <2>8 DEF HandlerDeletes, HandlerGoto
      <4>4. UNCHANGED << apc, env, done, timerId, from >>
        BY <2>8 DEF HandlerDeletes, HandlerGoto, DeleteTimer
      <4> QED
        BY <3>2, <4>1, <4>2, <4>3, <4>4
    <3> QED
      BY <3>1, <3>2
  <2> QED
    BY <1>14, <2>1, <2>2, <2>3, <2>4, <2>5, <2>6, <2>7, <2>8 DEF Handler
<1> QED
  BY <1>1, <1>2, <1>3, <1>4, <1>5, <1>6, <1>7, <1>8, <1>9, <1>10, <1>11, <1>12,
     <1>13, <1>14
  DEF Next, Test

(* Without stragglers all signals and handlers are of one attempt. *)
LEMMA CalmStep ==
  ASSUME TypeOK, AttemptInv, DeleteInv, CalmInv, [Next]_vars
  PROVE  CalmInv'
<1> USE PeriodicEventAssumption DEF TypeOK, PeriodicEventAssumption,
        AttemptInv, DeleteInv, CalmInv, Active, Arming, testVars, eventVars,
        timerVars, handlerVars, historyVars, InC, Handlers
<1>1. CASE UNCHANGED vars
  BY <1>1 DEF vars
<1>2. CASE BeginAttempt
  BY <1>2 DEF BeginAttempt, LastAttempt, Runs
<1>3. CASE OutOfAttempts
  BY <1>3 DEF OutOfAttempts, Runs, Goto
<1>4. CASE CreateTimer
  BY <1>4 DEF CreateTimer, Runs, Goto
<1>5. CASE NoTimer
  BY <1>5 DEF NoTimer, Runs, Goto
<1>6. CASE Reset
  BY <1>6 DEF Reset, ResetDone, ResetFired, Runs, Goto
<1>7. CASE ArmTimer
  BY <1>7 DEF ArmTimer, Runs, Goto
<1>8. CASE LeaveWait
  BY <1>8 DEF LeaveWait, Runs, Goto
<1>9. CASE Disarm
  BY <1>9 DEF Disarm, Runs, Goto
<1>10. CASE Delete
  BY <1>10 DEF Delete, DeleteTimer, Runs, Goto
<1>11. CASE Judge
  BY <1>11 DEF Judge, Runs, Goto
<1>12. CASE Expire
  BY <1>12 DEF Expire
<1>13. CASE Deliver
  BY <1>13 DEF Deliver
<1>14. ASSUME NEW h \in Handlers, Handler(h)
     PROVE  CalmInv'
  <2>1. CASE ClockFails(h)
    BY <2>1 DEF ClockFails, Handles, HandlerGoto
  <2>2. CASE CheckDone(h)
    BY <2>2 DEF CheckDone, Handles, HandlerGoto
  <2>3. CASE Compare(h)
    BY <2>3 DEF Compare, Handles, HandlerGoto
  <2>4. CASE Store(h)
    BY <2>4 DEF Store, Handles, HandlerGoto
  <2>5. CASE Load(h)
    BY <2>5 DEF Load, Handles, HandlerGoto
  <2>6. CASE Add(h)
    BY <2>6 DEF Add, Handles, HandlerGoto
  <2>7. CASE MarkDone(h)
    BY <2>7 DEF MarkDone, Handles, HandlerGoto
  <2>8. CASE HandlerDeletes(h)
    BY <2>8 DEF HandlerDeletes, Handles, HandlerGoto, DeleteTimer
  <2> QED
    BY <1>14, <2>1, <2>2, <2>3, <2>4, <2>5, <2>6, <2>7, <2>8 DEF Handler
<1> QED
  BY <1>1, <1>2, <1>3, <1>4, <1>5, <1>6, <1>7, <1>8, <1>9, <1>10, <1>11, <1>12,
     <1>13, <1>14
  DEF Next, Test

(* Two handlers pass the end of the array by one at most. *)
LEMMA CountStep ==
  ASSUME TypeOK, CalmInv, CountInv, [Next]_vars
  PROVE  CountInv'
<1> USE PeriodicEventAssumption DEF TypeOK, PeriodicEventAssumption, CalmInv,
        CountInv, Active, Arming, Adding, testVars, eventVars, timerVars,
        handlerVars, historyVars, InC, Handlers
<1>1. CASE UNCHANGED vars
  BY <1>1 DEF vars
<1>2. CASE BeginAttempt
  BY <1>2 DEF BeginAttempt, LastAttempt, Runs
<1>3. CASE OutOfAttempts
  BY <1>3 DEF OutOfAttempts, Runs, Goto
<1>4. CASE CreateTimer
  BY <1>4 DEF CreateTimer, Runs, Goto
<1>5. CASE NoTimer
  BY <1>5 DEF NoTimer, Runs, Goto
<1>6. CASE Reset
  BY <1>6 DEF Reset, ResetDone, ResetFired, Runs, Goto
<1>7. CASE ArmTimer
  BY <1>7 DEF ArmTimer, Runs, Goto
<1>8. CASE LeaveWait
  BY <1>8 DEF LeaveWait, Runs, Goto
<1>9. CASE Disarm
  BY <1>9 DEF Disarm, Runs, Goto
<1>10. CASE Delete
  BY <1>10 DEF Delete, DeleteTimer, Runs, Goto
<1>11. CASE Judge
  BY <1>11 DEF Judge, Runs, Goto
<1>12. CASE Expire
  BY <1>12 DEF Expire
<1>13. CASE Deliver
  BY <1>13 DEF Deliver
<1>14. ASSUME NEW h \in Handlers, Handler(h)
     PROVE  CountInv'
  <2>1. CASE ClockFails(h)
    BY <2>1 DEF ClockFails, Handles, HandlerGoto
  <2>2. CASE CheckDone(h)
    BY <2>2 DEF CheckDone, Handles, HandlerGoto
  <2>3. CASE Compare(h)
    BY <2>3 DEF Compare, Handles, HandlerGoto
  <2>4. CASE Store(h)
    BY <2>4 DEF Store, Handles, HandlerGoto
  <2>5. CASE Load(h)
    BY <2>5 DEF Load, Handles, HandlerGoto
  <2>6. CASE Add(h)
    BY <2>6 DEF Add, Handles, HandlerGoto
  <2>7. CASE MarkDone(h)
    BY <2>7 DEF MarkDone, Handles, HandlerGoto
  <2>8. CASE HandlerDeletes(h)
    BY <2>8 DEF HandlerDeletes, Handles, HandlerGoto, DeleteTimer
  <2> QED
    BY <1>14, <2>1, <2>2, <2>3, <2>4, <2>5, <2>6, <2>7, <2>8 DEF Handler
<1> QED
  BY <1>1, <1>2, <1>3, <1>4, <1>5, <1>6, <1>7, <1>8, <1>9, <1>10, <1>11, <1>12,
     <1>13, <1>14
  DEF Next, Test

(* Without stragglers the array has times of this attempt only. *)
LEMMA SlotsStep ==
  ASSUME TypeOK, AttemptInv, CalmInv, SlotsInv, [Next]_vars
  PROVE  SlotsInv'
<1> USE PeriodicEventAssumption DEF TypeOK, PeriodicEventAssumption, CalmInv,
        SlotsInv, Active, testVars, eventVars, timerVars, handlerVars,
        historyVars, InC, Handlers
<1>1. CASE UNCHANGED vars
  BY <1>1 DEF vars
<1>2. CASE BeginAttempt
  BY <1>2 DEF BeginAttempt, LastAttempt, Runs
<1>3. CASE OutOfAttempts
  BY <1>3 DEF OutOfAttempts, Runs, Goto
<1>4. CASE CreateTimer
  BY <1>4 DEF CreateTimer, Runs, Goto
<1>5. CASE NoTimer
  BY <1>5 DEF NoTimer, Runs, Goto
<1>6. CASE Reset
  BY <1>6 DEF Reset, ResetDone, ResetFired, Runs, Goto
<1>7. CASE ArmTimer
  BY <1>7 DEF ArmTimer, Runs, Goto
<1>8. CASE LeaveWait
  BY <1>8 DEF LeaveWait, Runs, Goto
<1>9. CASE Disarm
  BY <1>9 DEF Disarm, Runs, Goto
<1>10. CASE Delete
  BY <1>10 DEF Delete, DeleteTimer, Runs, Goto
<1>11. CASE Judge
  BY <1>11 DEF Judge, Runs, Goto
<1>12. CASE Expire
  BY <1>12 DEF Expire
<1>13. CASE Deliver
  BY <1>13 DEF Deliver
<1>14. ASSUME NEW h \in Handlers, Handler(h)
     PROVE  SlotsInv'
  <2>1. CASE ClockFails(h)
    BY <2>1 DEF ClockFails, Handles, HandlerGoto
  <2>2. CASE CheckDone(h)
    BY <2>2 DEF CheckDone, Handles, HandlerGoto
  <2>3. CASE Compare(h)
    BY <2>3 DEF Compare, Handles, HandlerGoto
  <2>4. CASE Store(h)
    BY <2>4 DEF Store, Handles, HandlerGoto
  <2>5. CASE Load(h)
    BY <2>5 DEF Load, Handles, HandlerGoto
  <2>6. CASE Add(h)
    BY <2>6 DEF Add, Handles, HandlerGoto
  <2>7. CASE MarkDone(h)
    BY <2>7 DEF MarkDone, Handles, HandlerGoto
  <2>8. CASE HandlerDeletes(h)
    BY <2>8 DEF HandlerDeletes, Handles, HandlerGoto, DeleteTimer
  <2> QED
    BY <1>14, <2>1, <2>2, <2>3, <2>4, <2>5, <2>6, <2>7, <2>8 DEF Handler
<1> QED
  BY <1>1, <1>2, <1>3, <1>4, <1>5, <1>6, <1>7, <1>8, <1>9, <1>10, <1>11, <1>12,
     <1>13, <1>14
  DEF Next, Test

(* Alone, a handler stores the events one after the other. *)
LEMMA AloneStep ==
  ASSUME TypeOK, CalmInv, AloneInv, [Next]_vars
  PROVE  AloneInv'
<1> USE PeriodicEventAssumption DEF TypeOK, PeriodicEventAssumption, CalmInv,
        AloneInv, Active, Arming, Adding, testVars, eventVars, timerVars,
        handlerVars, historyVars, InC, Handlers
<1>1. CASE UNCHANGED vars
  BY <1>1 DEF vars
<1>2. CASE BeginAttempt
  BY <1>2 DEF BeginAttempt, LastAttempt, Runs
<1>3. CASE OutOfAttempts
  BY <1>3 DEF OutOfAttempts, Runs, Goto
<1>4. CASE CreateTimer
  BY <1>4 DEF CreateTimer, Runs, Goto
<1>5. CASE NoTimer
  BY <1>5 DEF NoTimer, Runs, Goto
<1>6. CASE Reset
  BY <1>6 DEF Reset, ResetDone, ResetFired, Runs, Goto
<1>7. CASE ArmTimer
  BY <1>7 DEF ArmTimer, Runs, Goto
<1>8. CASE LeaveWait
  BY <1>8 DEF LeaveWait, Runs, Goto
<1>9. CASE Disarm
  BY <1>9 DEF Disarm, Runs, Goto
<1>10. CASE Delete
  BY <1>10 DEF Delete, DeleteTimer, Runs, Goto
<1>11. CASE Judge
  BY <1>11 DEF Judge, Runs, Goto
<1>12. CASE Expire
  BY <1>12 DEF Expire
<1>13. CASE Deliver
  <2> PICK h \in Handlers :
        /\ hpc[h] = "none"
        /\ hpc' = [hpc EXCEPT ![h] = "check"]
        /\ from' = [from EXCEPT ![h] = pending]
        /\ overlapped' = (overlapped \/ \E g \in Handlers : hpc[g] # "none")
    BY <1>13 DEF Deliver
  <2>1. CASE crossed \/ overlapped \/ \E g \in Handlers : hpc[g] # "none"
    BY <1>13, <2>1 DEF Deliver
  <2>2. CASE ~crossed /\ ~overlapped /\ \A g \in Handlers : hpc[g] = "none"
    BY <1>13, <2>2 DEF Deliver
  <2> QED
    BY <2>1, <2>2
<1>14. ASSUME NEW h \in Handlers, Handler(h)
     PROVE  AloneInv'
  <2>1. CASE ClockFails(h)
    BY <2>1 DEF ClockFails, Handles, HandlerGoto
  <2>2. CASE CheckDone(h)
    BY <2>2 DEF CheckDone, Handles, HandlerGoto
  <2>3. CASE Compare(h)
    BY <2>3 DEF Compare, Handles, HandlerGoto
  <2>4. CASE Store(h)
    <3>1. CASE crossed \/ overlapped
      BY <2>4, <3>1 DEF Store, Handles, HandlerGoto
    <3>2. CASE ~crossed /\ ~overlapped
      <4>1. /\ hpc[h] = "store" /\ ~done /\ from[h] = attempt /\ fired < Events
            /\ \A g \in Handlers : g # h => hpc[g] = "none"
        BY <2>4, <3>2 DEF Store, Handles
      <4>2. /\ hpc' = [hpc EXCEPT ![h] = "load"]
            /\ slots' = [slots EXCEPT ![fired + 1] = attempt]
        BY <2>4, <4>1 DEF Store, HandlerGoto
      <4>3. UNCHANGED << testVars, done, fired, beyond, timerVars, loaded, from, historyVars >>
        BY <2>4, <4>1 DEF Store, HandlerGoto
      <4> QED
        BY <3>2, <4>1, <4>2, <4>3
    <3> QED
      BY <3>1, <3>2
  <2>5. CASE Load(h)
    <3>1. CASE crossed \/ overlapped
      BY <2>5, <3>1 DEF Load, Handles, HandlerGoto
    <3>2. CASE ~crossed /\ ~overlapped
      <4>1. /\ hpc[h] = "load" /\ ~done /\ from[h] = attempt /\ fired < Events
            /\ \A g \in Handlers : g # h => hpc[g] = "none"
        BY <2>5, <3>2 DEF Load, Handles
      <4>2. /\ hpc' = [hpc EXCEPT ![h] = "add"]
            /\ loaded' = [loaded EXCEPT ![h] = fired]
        BY <2>5, <4>1 DEF Load, HandlerGoto
      <4>3. UNCHANGED << testVars, eventVars, timerVars, from, historyVars >>
        BY <2>5, <4>1 DEF Load, HandlerGoto
      <4> QED
        BY <3>2, <4>1, <4>2, <4>3
    <3> QED
      BY <3>1, <3>2
  <2>6. CASE Add(h)
    <3>1. CASE crossed \/ overlapped
      BY <2>6, <3>1 DEF Add, Handles, HandlerGoto
    <3>2. CASE ~crossed /\ ~overlapped
      <4>1. /\ hpc[h] = "add" /\ ~done /\ fired < Events /\ loaded[h] = fired
            /\ slots[fired + 1] = attempt
            /\ \A g \in Handlers : g # h => hpc[g] = "none"
        BY <2>6, <3>2 DEF Add, Handles
      <4>2. hpc' = [hpc EXCEPT ![h] = "none"] /\ fired' = fired + 1
        BY <2>6, <4>1 DEF Add, HandlerGoto
      <4>3. UNCHANGED << testVars, done, slots, beyond, timerVars, loaded, from,
                         historyVars >>
        BY <2>6 DEF Add, HandlerGoto
      <4> QED
        BY <3>2, <4>1, <4>2, <4>3
    <3> QED
      BY <3>1, <3>2
  <2>7. CASE MarkDone(h)
    BY <2>7 DEF MarkDone, Handles, HandlerGoto
  <2>8. CASE HandlerDeletes(h)
    BY <2>8 DEF HandlerDeletes, Handles, HandlerGoto, DeleteTimer
  <2> QED
    BY <1>14, <2>1, <2>2, <2>3, <2>4, <2>5, <2>6, <2>7, <2>8 DEF Handler
<1> QED
  BY <1>1, <1>2, <1>3, <1>4, <1>5, <1>6, <1>7, <1>8, <1>9, <1>10, <1>11, <1>12,
     <1>13, <1>14
  DEF Next, Test

-----------------------------------------------------------------------------
(* The invariant holds in every reachable state. *)
THEOREM Invariance == Spec => []IInv
<1>1. IInv /\ [Next]_vars => IInv'
  BY TypeStep, AttemptStep, DeleteStep, CalmStep, CountStep, SlotsStep,
     AloneStep
  DEF IInv
<1> QED
  BY <1>1, InitIInv, PTL DEF Spec

(* Every variable keeps its type; no attempt passes the threshold. *)
THEOREM TypeCorrect == Spec => []TypeOK
<1>1. IInv => TypeOK
  BY DEF IInv
<1> QED
  BY <1>1, Invariance, PTL

(* The times that are judged are those of the timer of this attempt. *)
THEOREM TimesAreOwn == Spec => []OwnEvents
<1>1. IInv => OwnEvents
  BY DEF IInv, TypeOK, CalmInv, SlotsInv, AloneInv, InC, Arming, OwnEvents
<1> QED
  BY <1>1, Invariance, PTL

(* The array is overrun by overlapping handlers alone, by one element. *)
THEOREM NoOverrun == Spec => []StoresInside
<1>1. IInv => StoresInside
  BY DEF IInv, TypeOK, CountInv, AloneInv, StoresInside
<1> QED
  BY <1>1, Invariance, PTL

(* No timer goes on when the code is unloaded, but for a handler that has  *)
(* yet to delete it or has deleted another one.                            *)
THEOREM NoTimerLeft == Spec => []QuietAtEnd
<1>1. IInv => QuietAtEnd
  BY DEF IInv, TypeOK, DeleteInv, QuietAtEnd
<1> QED
  BY <1>1, Invariance, PTL
=============================================================================
