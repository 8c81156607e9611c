---------------------------- MODULE JavaGateProofs ----------------------------
(***************************************************************************)
(* The gates of the Java tests for every number of workers and of runs,    *)
(* with waits that may return on their own: nobody works before all are    *)
(* counted, the last worker works alone, the stop times are read when the  *)
(* work is over, and parent and workers never all wait.                    *)
(***************************************************************************)
EXTENDS JavaGate, FiniteSetTheorems, TLAPS

(* The threads inside are finitely many, at most all of the threads. *)
LEMMA InsideFinite ==
  /\ IsFiniteSet(Threads)
  /\ IsFiniteSet(Inside)
  /\ Cardinality(Inside) \in Nat
  /\ Cardinality(Threads) \in Nat
  /\ Cardinality(Inside) = 0 => Inside = {}
  /\ Cardinality(Inside) = Cardinality(Threads) => Inside = Threads
<1>1. IsFiniteSet(Threads)
  BY JavaGateAssumption, FS_AddElement DEF JavaGateAssumption, Threads
<1>2. Inside \subseteq Threads
  BY DEF Inside
<1> QED
  BY <1>1, <1>2, FS_Subset, FS_CardinalityType, FS_EmptySet

(* When the last worker is off, the count of the others is complete. *)
LEMMA AllGatedInside ==
  ASSUME CountInv, tpc[Last] = "off", counter = Cardinality(Gated)
  PROVE  Gated \subseteq Inside
<1>1. Inside \subseteq Gated
  BY DEF Inside, Threads
<1> QED
  BY <1>1, JavaGateAssumption, FS_Subset DEF JavaGateAssumption, CountInv

(* There are two gated workers. *)
LEMMA TwoGated == \A u : \E t \in Gated : t # u
<1> SUFFICES ASSUME NEW u, \A t \in Gated : t = u PROVE FALSE
  OBVIOUS
<1>1. Gated = {} \/ Gated = {u}
  OBVIOUS
<1> QED
  BY <1>1, JavaGateAssumption, FS_EmptySet, FS_Singleton DEF JavaGateAssumption

(* An exact counter is in its range. *)
LEMMA CounterRange ==
  ASSUME CountInv'
  PROVE  counter' \in 0 .. Cardinality(Threads)
<1>1. Inside' \subseteq Threads
  BY DEF Inside
<1>2. /\ Cardinality(Inside') \in Nat
      /\ Cardinality(Threads) \in Nat
      /\ Cardinality(Inside') <= Cardinality(Threads)
  BY <1>1, InsideFinite, FS_Subset, FS_CardinalityType
<1> QED
  BY <1>2 DEF CountInv

(* The gates start in the inductive invariant. *)
LEMMA InitIInv == Init => IInv
<1> SUFFICES ASSUME Init PROVE IInv
  OBVIOUS
<1>1. Inside = {} /\ Cardinality({}) = 0
  BY FS_EmptySet DEF Init, Inside
<1>2. CountInv
  BY <1>1 DEF Init, CountInv
<1>3. MultiInv /\ PriorityInv /\ IdleInv
  BY DEF Init, MultiInv, PriorityInv, IdleInv, MultiPC, PriorityPC, BeforeLast,
         AfterGated, Counting
<1>4. TypeOK
  <2>1. counter \in 0 .. Cardinality(Threads)
    BY InsideFinite DEF Init
  <2>2. runs \in 0 .. MaxRuns
    BY JavaGateAssumption DEF JavaGateAssumption, Init
  <2>3. canStart \in [Kinds -> BOOLEAN] /\ tpc \in [Threads -> ThreadPC]
    BY DEF Init, ThreadPC
  <2> QED
    BY <2>1, <2>2, <2>3 DEF Init, TypeOK, ParentPC, Threads
<1>5. MonInv /\ NotifyInv
  BY JavaGateAssumption DEF JavaGateAssumption, Init, MonInv, NotifyInv
<1> QED
  BY <1>2, <1>3, <1>4, <1>5 DEF IInv

-----------------------------------------------------------------------------
(* Each part of the invariant is kept by every step, given the parts it    *)
(* needs.                                                                  *)

(* The counter is that of the threads inside. *)
LEMMA CountStep ==
  ASSUME IInv, [Next]_vars
  PROVE  CountInv'
<1> USE DEF CountInv, Inside, runVars, collectVars
<1> tpc \in [Threads -> ThreadPC]
  BY DEF IInv, TypeOK
<1> MultiInv /\ IdleInv /\ CountInv
  BY DEF IInv
<1>1. CASE UNCHANGED vars
  BY <1>1 DEF vars
<1>2. CASE RunMultiThread
  <2>1. Inside' = {}
    BY <1>2 DEF RunMultiThread, NewRun
  <2> QED
    BY <1>2, <2>1, FS_EmptySet DEF RunMultiThread
<1>3. CASE RunThreadPriority
  <2>1. Inside = {} /\ Inside' = {}
    BY <1>3 DEF RunThreadPriority, NewRun, ParentGoto, IdleInv
  <2> QED
    BY <1>3, <2>1 DEF RunThreadPriority
<1>4. CASE PollGated
  <2>1. Inside' = Inside
    BY <1>4 DEF PollGated, ParentGoto
  <2> QED
    BY <1>4, <2>1 DEF PollGated
<1>5. CASE OpenGate
  <2>1. Inside' = Inside
    BY <1>5 DEF OpenGate, ParentGoto
  <2> QED
    BY <1>5, <2>1 DEF OpenGate
<1>6. CASE NotifyAndWait
  <2>1. Inside' = Inside
    BY <1>6 DEF NotifyAndWait, ParentGoto, Woken, Waiting
  <2> QED
    BY <1>6, <2>1 DEF NotifyAndWait
<1>7. CASE StartLast
  <2>1. tpc[Last] = "off"
    BY <1>7 DEF StartLast, ParentGoto, MultiInv, BeforeLast
  <2>2. Inside' = Inside
    BY <1>7, <2>1 DEF StartLast
  <2> QED
    BY <1>7, <2>2 DEF StartLast
<1>8. CASE PollLast
  <2>1. Inside' = Inside
    BY <1>8 DEF PollLast, ParentGoto
  <2> QED
    BY <1>8, <2>1 DEF PollLast
<1>9. CASE NotifyLastAndWait
  <2>1. Inside' = Inside
    BY <1>9 DEF NotifyLastAndWait, ParentGoto, Woken, Waiting
  <2> QED
    BY <1>9, <2>1 DEF NotifyLastAndWait
<1>10. CASE JoinThreads
  <2>1. Inside' = Inside
    BY <1>10 DEF JoinThreads, ParentGoto
  <2> QED
    BY <1>10, <2>1 DEF JoinThreads
<1>11. CASE AwaitAllCounted
  <2>1. Inside' = Inside
    BY <1>11 DEF AwaitAllCounted, AwaitCount, ParentGoto
  <2> QED
    BY <1>11, <2>1 DEF AwaitAllCounted, AwaitCount
<1>12. CASE OpenAll
  <2>1. Inside' = Inside
    BY <1>12 DEF OpenAll, ParentGoto
  <2> QED
    BY <1>12, <2>1 DEF OpenAll
<1>13. CASE NotifyAll
  <2>1. Inside' = Inside
    BY <1>13 DEF NotifyAll, ParentGoto, Woken, Waiting
  <2> QED
    BY <1>13, <2>1 DEF NotifyAll
<1>14. CASE AwaitDrained
  <2>1. Inside' = Inside
    BY <1>14 DEF AwaitDrained, AwaitCount, ParentGoto
  <2> QED
    BY <1>14, <2>1 DEF AwaitDrained, AwaitCount
<1>15. CASE ReadStopTime
  <2>1. Inside' = Inside
    BY <1>15 DEF ReadStopTime, ParentGoto
  <2> QED
    BY <1>15, <2>1 DEF ReadStopTime
<1>16. CASE JoinThread
  <2>1. Inside' = Inside
    BY <1>16 DEF JoinThread, ParentGoto
  <2> QED
    BY <1>16, <2>1 DEF JoinThread
<1>17. ASSUME NEW t \in Threads, IncrementCounter(t)
       PROVE  CountInv'
  <2>1. Inside' = Inside \cup {t} /\ t \notin Inside
    BY <1>17 DEF IncrementCounter
  <2> QED
    BY <1>17, <2>1, InsideFinite, FS_AddElement DEF IncrementCounter
<1>18. ASSUME NEW t \in Threads, TestStart(t)
       PROVE  CountInv'
  <2>1. Inside' = Inside
    BY <1>18 DEF TestStart, EnterOrWait, FlagSeen
  <2> QED
    BY <1>18, <2>1 DEF TestStart
<1>19. ASSUME NEW t \in Threads, Resume(t)
       PROVE  CountInv'
  <2>1. Inside' = Inside
    BY <1>19 DEF Resume, EnterOrWait, FlagSeen
  <2> QED
    BY <1>19, <2>1 DEF Resume
<1>20. ASSUME NEW t \in Threads, FinishWork(t)
       PROVE  CountInv'
  <2>1. Inside' = Inside \ {t} /\ t \in Inside
    BY <1>20 DEF FinishWork, Notify, Waiting
  <2> QED
    BY <1>20, <2>1, InsideFinite, FS_RemoveElement DEF FinishWork
<1>21. ASSUME NEW t \in Threads, SetStopTime(t)
       PROVE  CountInv'
  <2>1. Inside' = Inside
    BY <1>21 DEF SetStopTime
  <2> QED
    BY <1>21, <2>1 DEF SetStopTime
<1>22. CASE SpuriousWakeup
  <2>1. Inside' = Inside
    BY <1>22 DEF SpuriousWakeup, Woken, Waiting, ParentGoto
  <2> QED
    BY <1>22, <2>1 DEF SpuriousWakeup
<1> QED
  BY <1>1, <1>2, <1>3, <1>4, <1>5, <1>6, <1>7, <1>8, <1>9, <1>10, <1>11, <1>12,
     <1>13, <1>14, <1>15, <1>16, <1>17, <1>18, <1>19, <1>20, <1>21, <1>22
  DEF Next, Parent, Worker

(* Type correctness. *)
LEMMA TypeStep ==
  ASSUME IInv, CountInv', [Next]_vars
  PROVE  TypeOK'
<1> USE CounterRange DEF TypeOK, ParentPC, ThreadPC, Kinds, runVars,
        collectVars
<1> TypeOK
  BY DEF IInv
<1>1. CASE UNCHANGED vars
  BY <1>1 DEF vars
<1>2. CASE RunMultiThread
  <2>1. runs' \in 0 .. MaxRuns
    BY <1>2, JavaGateAssumption DEF JavaGateAssumption, RunMultiThread, NewRun
  <2>2. tpc' \in [Threads -> ThreadPC]
    BY <1>2 DEF RunMultiThread, NewRun
  <2>3. counter' \in 0 .. Cardinality(Threads)
    OBVIOUS
  <2> QED
    BY <1>2, <2>1, <2>2, <2>3 DEF RunMultiThread, NewRun, ParentGoto
<1>3. CASE RunThreadPriority
  <2>1. runs' \in 0 .. MaxRuns
    BY <1>3, JavaGateAssumption DEF JavaGateAssumption, RunThreadPriority, NewRun
  <2>2. tpc' \in [Threads -> ThreadPC]
    BY <1>3 DEF RunThreadPriority, NewRun
  <2>3. counter' \in 0 .. Cardinality(Threads)
    OBVIOUS
  <2> QED
    BY <1>3, <2>1, <2>2, <2>3 DEF RunThreadPriority, NewRun, ParentGoto
<1>4. CASE PollGated
  BY <1>4 DEF PollGated, ParentGoto
<1>5. CASE OpenGate
  BY <1>5 DEF OpenGate, ParentGoto
<1>6. CASE NotifyAndWait
  BY <1>6 DEF NotifyAndWait, ParentGoto, Woken, Waiting
<1>7. CASE StartLast
  BY <1>7 DEF StartLast, ParentGoto
<1>8. CASE PollLast
  BY <1>8 DEF PollLast, ParentGoto
<1>9. CASE NotifyLastAndWait
  BY <1>9 DEF NotifyLastAndWait, ParentGoto, Woken, Waiting
<1>10. CASE JoinThreads
  BY <1>10 DEF JoinThreads, ParentGoto
<1>11. CASE AwaitAllCounted
  BY <1>11 DEF AwaitAllCounted, AwaitCount, ParentGoto
<1>12. CASE OpenAll
  BY <1>12 DEF OpenAll, ParentGoto
<1>13. CASE NotifyAll
  BY <1>13 DEF NotifyAll, ParentGoto, Woken, Waiting
<1>14. CASE AwaitDrained
  BY <1>14 DEF AwaitDrained, AwaitCount, ParentGoto
<1>15. CASE ReadStopTime
  BY <1>15 DEF ReadStopTime, ParentGoto
<1>16. CASE JoinThread
  BY <1>16 DEF JoinThread, ParentGoto
<1>17. ASSUME NEW t \in Threads, IncrementCounter(t)
       PROVE  TypeOK'
  BY <1>17 DEF IncrementCounter
<1>18. ASSUME NEW t \in Threads, TestStart(t)
       PROVE  TypeOK'
  BY <1>18 DEF TestStart, EnterOrWait, FlagSeen
<1>19. ASSUME NEW t \in Threads, Resume(t)
       PROVE  TypeOK'
  BY <1>19 DEF Resume, EnterOrWait, FlagSeen
<1>20. ASSUME NEW t \in Threads, FinishWork(t)
       PROVE  TypeOK'
  BY <1>20 DEF FinishWork, Notify, Waiting, ParentGoto
<1>21. ASSUME NEW t \in Threads, SetStopTime(t)
       PROVE  TypeOK'
  BY <1>21 DEF SetStopTime
<1>22. CASE SpuriousWakeup
  BY <1>22 DEF SpuriousWakeup, Woken, Waiting, ParentGoto
<1> QED
  BY <1>1, <1>2, <1>3, <1>4, <1>5, <1>6, <1>7, <1>8, <1>9, <1>10, <1>11, <1>12,
     <1>13, <1>14, <1>15, <1>16, <1>17, <1>18, <1>19, <1>20, <1>21, <1>22
  DEF Next, Parent, Worker

(* The places in MultiThreadTest. *)
LEMMA MultiStep ==
  ASSUME IInv, [Next]_vars
  PROVE  MultiInv'
<1> USE JavaGateAssumption DEF JavaGateAssumption, Threads, Kinds, MultiInv,
        MultiPC, BeforeLast, AfterGated, Before, Finished, runVars, collectVars
<1> /\ tpc \in [Threads -> ThreadPC] /\ canStart \in [Kinds -> BOOLEAN]
    /\ MultiInv /\ CountInv /\ PriorityInv
  BY DEF IInv, TypeOK
<1>1. CASE UNCHANGED vars
  BY <1>1 DEF vars
<1>2. CASE RunMultiThread
  BY <1>2 DEF RunMultiThread, NewRun, ParentGoto
<1>3. CASE RunThreadPriority
  BY <1>3 DEF RunThreadPriority, NewRun, ParentGoto
<1>4. CASE PollGated
  <2>1. Gated \subseteq Inside
    BY <1>4, AllGatedInside DEF PollGated, ParentGoto
  <2> QED
    BY <1>4, <2>1 DEF PollGated, ParentGoto, Inside
<1>5. CASE OpenGate
  BY <1>5 DEF OpenGate, ParentGoto
<1>6. CASE NotifyAndWait
  BY <1>6 DEF NotifyAndWait, ParentGoto, Woken, Waiting
<1>7. CASE StartLast
  BY <1>7 DEF StartLast, ParentGoto
<1>8. CASE PollLast
  BY <1>8 DEF PollLast, ParentGoto
<1>9. CASE NotifyLastAndWait
  BY <1>9 DEF NotifyLastAndWait, ParentGoto, Woken, Waiting
<1>10. CASE JoinThreads
  BY <1>10 DEF JoinThreads, ParentGoto
<1>11. CASE AwaitAllCounted
  BY <1>11 DEF AwaitAllCounted, AwaitCount, ParentGoto
<1>12. CASE OpenAll
  BY <1>12 DEF OpenAll, ParentGoto
<1>13. CASE NotifyAll
  BY <1>13 DEF NotifyAll, ParentGoto, Woken, Waiting
<1>14. CASE AwaitDrained
  BY <1>14 DEF AwaitDrained, AwaitCount, ParentGoto
<1>15. CASE ReadStopTime
  BY <1>15 DEF ReadStopTime, ParentGoto
<1>16. CASE JoinThread
  BY <1>16 DEF JoinThread, ParentGoto
<1>17. ASSUME NEW t \in Threads, IncrementCounter(t)
       PROVE  MultiInv'
  BY <1>17 DEF IncrementCounter
<1>18. ASSUME NEW t \in Threads, TestStart(t)
       PROVE  MultiInv'
  BY <1>18 DEF TestStart, EnterOrWait, FlagSeen
<1>19. ASSUME NEW t \in Threads, Resume(t)
       PROVE  MultiInv'
  BY <1>19 DEF Resume, EnterOrWait, FlagSeen
<1>20. ASSUME NEW t \in Threads, FinishWork(t)
       PROVE  MultiInv'
  <2>1. counter' = 0 => Inside' = {}
    <3>1. IsFiniteSet(Inside')
      BY InsideFinite, FS_Subset DEF Inside
    <3>2. CountInv'
      BY CountStep
    <3> QED
      BY <3>1, <3>2, FS_EmptySet DEF CountInv
  <2>2. /\ tpc' \in [Threads -> ThreadPC]
        /\ tpc' # tpc
        /\ tpc'[t] = "stop"
        /\ \A u \in Threads : u # t =>
             tpc'[u] = tpc[u] \/ (tpc[u] = "waiting" /\ tpc'[u] = "woken")
    BY <1>20 DEF FinishWork, Notify, Waiting, ThreadPC
  <2>3. /\ tpc[t] = "work"
        /\ UNCHANGED << test, canStart, spurious >>
        /\ \/ ppc' = ppc
           \/ counter' = 0 /\ ppc = "waiting" /\ ppc' = "woken"
           \/ counter' = 0 /\ ppc = "waitingLast" /\ ppc' = "wokenLast"
    BY <1>20 DEF FinishWork, Notify, ParentGoto
  <2>4. counter' = 0 /\ ppc \in MultiPC \ {"poll"} =>
          \A u \in Gated : tpc'[u] \in Finished
    BY <2>1, <2>2, <2>3 DEF Inside, ThreadPC
  <2> QED
    BY <2>2, <2>3, <2>4
<1>21. ASSUME NEW t \in Threads, SetStopTime(t)
       PROVE  MultiInv'
  BY <1>21 DEF SetStopTime
<1>22. CASE SpuriousWakeup
  BY <1>22 DEF SpuriousWakeup, Woken, Waiting, ParentGoto
<1> QED
  BY <1>1, <1>2, <1>3, <1>4, <1>5, <1>6, <1>7, <1>8, <1>9, <1>10, <1>11, <1>12,
     <1>13, <1>14, <1>15, <1>16, <1>17, <1>18, <1>19, <1>20, <1>21, <1>22
  DEF Next, Parent, Worker

(* The places in ThreadPriorityTest. *)
LEMMA PriorityStep ==
  ASSUME IInv, [Next]_vars
  PROVE  PriorityInv'
<1> USE DEF Kinds, PriorityInv, PriorityPC, Counting, Before, Finished,
        runVars, collectVars
<1> /\ tpc \in [Threads -> ThreadPC] /\ canStart \in [Kinds -> BOOLEAN]
    /\ current \in Threads /\ collected \subseteq Threads
    /\ PriorityInv /\ CountInv /\ MultiInv
  BY DEF IInv, TypeOK
<1>1. CASE UNCHANGED vars
  BY <1>1 DEF vars
<1>2. CASE RunMultiThread
  BY <1>2 DEF RunMultiThread, NewRun, ParentGoto
<1>3. CASE RunThreadPriority
  BY <1>3 DEF RunThreadPriority, NewRun, ParentGoto
<1>4. CASE PollGated
  BY <1>4 DEF PollGated, ParentGoto
<1>5. CASE OpenGate
  BY <1>5 DEF OpenGate, ParentGoto
<1>6. CASE NotifyAndWait
  BY <1>6 DEF NotifyAndWait, ParentGoto, Woken, Waiting
<1>7. CASE StartLast
  BY <1>7 DEF StartLast, ParentGoto
<1>8. CASE PollLast
  BY <1>8 DEF PollLast, ParentGoto
<1>9. CASE NotifyLastAndWait
  BY <1>9 DEF NotifyLastAndWait, ParentGoto, Woken, Waiting
<1>10. CASE JoinThreads
  BY <1>10 DEF JoinThreads, ParentGoto
<1>11. CASE AwaitAllCounted
  <2>1. counter = Cardinality(Threads) => Inside = Threads
    BY InsideFinite DEF CountInv
  <2> QED
    BY <1>11, <2>1 DEF AwaitAllCounted, AwaitCount, ParentGoto, Inside
<1>12. CASE OpenAll
  BY <1>12 DEF OpenAll, ParentGoto
<1>13. CASE NotifyAll
  BY <1>13 DEF NotifyAll, ParentGoto, Woken, Waiting
<1>14. CASE AwaitDrained
  <2>1. counter = 0 => Inside = {}
    BY InsideFinite DEF CountInv
  <2>2. counter = 0 /\ ppc = "drain" => \A t \in Threads : tpc[t] \in Finished
    BY <2>1 DEF Inside, ThreadPC
  <2> QED
    BY <1>14, <2>2 DEF AwaitDrained, AwaitCount, ParentGoto
<1>15. CASE ReadStopTime
  BY <1>15 DEF ReadStopTime, ParentGoto
<1>16. CASE JoinThread
  BY <1>16 DEF JoinThread, ParentGoto
<1>17. ASSUME NEW t \in Threads, IncrementCounter(t)
       PROVE  PriorityInv'
  BY <1>17 DEF IncrementCounter
<1>18. ASSUME NEW t \in Threads, TestStart(t)
       PROVE  PriorityInv'
  BY <1>18 DEF TestStart, EnterOrWait, FlagSeen
<1>19. ASSUME NEW t \in Threads, Resume(t)
       PROVE  PriorityInv'
  BY <1>19 DEF Resume, EnterOrWait, FlagSeen
<1>20. ASSUME NEW t \in Threads, FinishWork(t)
       PROVE  PriorityInv'
  BY <1>20 DEF FinishWork, Notify, Waiting, ParentGoto
<1>21. ASSUME NEW t \in Threads, SetStopTime(t)
       PROVE  PriorityInv'
  BY <1>21 DEF SetStopTime
<1>22. CASE SpuriousWakeup
  BY <1>22 DEF SpuriousWakeup, Woken, Waiting, ParentGoto
<1> QED
  BY <1>1, <1>2, <1>3, <1>4, <1>5, <1>6, <1>7, <1>8, <1>9, <1>10, <1>11, <1>12,
     <1>13, <1>14, <1>15, <1>16, <1>17, <1>18, <1>19, <1>20, <1>21, <1>22
  DEF Next, Parent, Worker

(* All threads have ended between two runs. *)
LEMMA IdleStep ==
  ASSUME IInv, [Next]_vars
  PROVE  IdleInv'
<1> USE DEF IdleInv, runVars, collectVars
<1> /\ tpc \in [Threads -> ThreadPC] /\ current \in Threads
    /\ IdleInv /\ PriorityInv
  BY DEF IInv, TypeOK
<1>1. CASE UNCHANGED vars
  BY <1>1 DEF vars
<1>2. CASE RunMultiThread
  BY <1>2 DEF RunMultiThread, NewRun, ParentGoto
<1>3. CASE RunThreadPriority
  BY <1>3 DEF RunThreadPriority, NewRun, ParentGoto
<1>4. CASE PollGated
  BY <1>4 DEF PollGated, ParentGoto
<1>5. CASE OpenGate
  BY <1>5 DEF OpenGate, ParentGoto
<1>6. CASE NotifyAndWait
  BY <1>6 DEF NotifyAndWait, ParentGoto, Woken, Waiting
<1>7. CASE StartLast
  BY <1>7 DEF StartLast, ParentGoto
<1>8. CASE PollLast
  BY <1>8 DEF PollLast, ParentGoto
<1>9. CASE NotifyLastAndWait
  BY <1>9 DEF NotifyLastAndWait, ParentGoto, Woken, Waiting
<1>10. CASE JoinThreads
  BY <1>10 DEF JoinThreads, ParentGoto
<1>11. CASE AwaitAllCounted
  BY <1>11 DEF AwaitAllCounted, AwaitCount, ParentGoto
<1>12. CASE OpenAll
  BY <1>12 DEF OpenAll, ParentGoto
<1>13. CASE NotifyAll
  BY <1>13 DEF NotifyAll, ParentGoto, Woken, Waiting
<1>14. CASE AwaitDrained
  BY <1>14 DEF AwaitDrained, AwaitCount, ParentGoto
<1>15. CASE ReadStopTime
  BY <1>15 DEF ReadStopTime, ParentGoto
<1>16. CASE JoinThread
  BY <1>16 DEF JoinThread, ParentGoto, PriorityInv
<1>17. ASSUME NEW t \in Threads, IncrementCounter(t)
       PROVE  IdleInv'
  BY <1>17 DEF IncrementCounter
<1>18. ASSUME NEW t \in Threads, TestStart(t)
       PROVE  IdleInv'
  BY <1>18 DEF TestStart, EnterOrWait, FlagSeen
<1>19. ASSUME NEW t \in Threads, Resume(t)
       PROVE  IdleInv'
  BY <1>19 DEF Resume, EnterOrWait, FlagSeen
<1>20. ASSUME NEW t \in Threads, FinishWork(t)
       PROVE  IdleInv'
  BY <1>20 DEF FinishWork, Notify, Waiting, ParentGoto
<1>21. ASSUME NEW t \in Threads, SetStopTime(t)
       PROVE  IdleInv'
  BY <1>21 DEF SetStopTime
<1>22. CASE SpuriousWakeup
  BY <1>22 DEF SpuriousWakeup, Woken, Waiting, ParentGoto
<1> QED
  BY <1>1, <1>2, <1>3, <1>4, <1>5, <1>6, <1>7, <1>8, <1>9, <1>10, <1>11, <1>12,
     <1>13, <1>14, <1>15, <1>16, <1>17, <1>18, <1>19, <1>20, <1>21, <1>22
  DEF Next, Parent, Worker

(* The lock is held across two steps by the worker that tests the flag. *)
LEMMA MonStep ==
  ASSUME IInv, [Next]_vars
  PROVE  MonInv'
<1> USE JavaGateAssumption DEF JavaGateAssumption, MonInv, runVars, collectVars
<1> tpc \in [Threads -> ThreadPC] /\ MonInv /\ IdleInv
  BY DEF IInv, TypeOK
<1>1. CASE UNCHANGED vars
  BY <1>1 DEF vars
<1>2. CASE RunMultiThread
  BY <1>2 DEF RunMultiThread, NewRun, ParentGoto, IdleInv
<1>3. CASE RunThreadPriority
  BY <1>3 DEF RunThreadPriority, NewRun, ParentGoto, IdleInv
<1>4. CASE PollGated
  BY <1>4 DEF PollGated, ParentGoto
<1>5. CASE OpenGate
  BY <1>5 DEF OpenGate, ParentGoto
<1>6. CASE NotifyAndWait
  BY <1>6 DEF NotifyAndWait, ParentGoto, Woken, Waiting
<1>7. CASE StartLast
  BY <1>7 DEF StartLast, ParentGoto, Threads
<1>8. CASE PollLast
  BY <1>8 DEF PollLast, ParentGoto
<1>9. CASE NotifyLastAndWait
  BY <1>9 DEF NotifyLastAndWait, ParentGoto, Woken, Waiting
<1>10. CASE JoinThreads
  BY <1>10 DEF JoinThreads, ParentGoto
<1>11. CASE AwaitAllCounted
  BY <1>11 DEF AwaitAllCounted, AwaitCount, ParentGoto
<1>12. CASE OpenAll
  BY <1>12 DEF OpenAll, ParentGoto
<1>13. CASE NotifyAll
  BY <1>13 DEF NotifyAll, ParentGoto, Woken, Waiting
<1>14. CASE AwaitDrained
  BY <1>14 DEF AwaitDrained, AwaitCount, ParentGoto
<1>15. CASE ReadStopTime
  BY <1>15 DEF ReadStopTime, ParentGoto
<1>16. CASE JoinThread
  BY <1>16 DEF JoinThread, ParentGoto
<1>17. ASSUME NEW t \in Threads, IncrementCounter(t)
       PROVE  MonInv'
  BY <1>17 DEF IncrementCounter
<1>18. ASSUME NEW t \in Threads, TestStart(t)
       PROVE  MonInv'
  BY <1>18 DEF TestStart, EnterOrWait, FlagSeen
<1>19. ASSUME NEW t \in Threads, Resume(t)
       PROVE  MonInv'
  BY <1>19 DEF Resume, EnterOrWait, FlagSeen
<1>20. ASSUME NEW t \in Threads, FinishWork(t)
       PROVE  MonInv'
  BY <1>20 DEF FinishWork, Notify, Waiting, ParentGoto
<1>21. ASSUME NEW t \in Threads, SetStopTime(t)
       PROVE  MonInv'
  BY <1>21 DEF SetStopTime
<1>22. CASE SpuriousWakeup
  BY <1>22 DEF SpuriousWakeup, Woken, Waiting, ParentGoto
<1> QED
  BY <1>1, <1>2, <1>3, <1>4, <1>5, <1>6, <1>7, <1>8, <1>9, <1>10, <1>11, <1>12,
     <1>13, <1>14, <1>15, <1>16, <1>17, <1>18, <1>19, <1>20, <1>21, <1>22
  DEF Next, Parent, Worker


(* Who is there to notify, and to be notified. *)
LEMMA NotifyStep ==
  ASSUME IInv, [Next]_vars
  PROVE  NotifyInv'
<1> USE JavaGateAssumption DEF JavaGateAssumption, Threads, Kinds, NotifyInv,
        Before, Finished, runVars, collectVars
<1> /\ tpc \in [Threads -> ThreadPC] /\ canStart \in [Kinds -> BOOLEAN]
    /\ current \in Threads /\ collected \subseteq Threads
    /\ MultiInv /\ PriorityInv /\ CountInv /\ MonInv /\ NotifyInv
  BY DEF IInv, TypeOK
<1>1. CASE UNCHANGED vars
  BY <1>1 DEF vars
<1>2. CASE RunMultiThread
  BY <1>2 DEF RunMultiThread, NewRun, ParentGoto
<1>3. CASE RunThreadPriority
  BY <1>3 DEF RunThreadPriority, NewRun, ParentGoto
<1>4. CASE PollGated
  <2>1. tpc[Last] = "off"
    BY <1>4 DEF PollGated, ParentGoto, MultiInv, BeforeLast
  <2>2. Gated \subseteq Inside
    BY <1>4, <2>1, AllGatedInside DEF PollGated
  <2> QED
    BY <1>4, <2>2 DEF PollGated, ParentGoto, Inside
<1>5. CASE OpenGate
  <2>1. PICK t \in Gated : tpc[t] # "test"
    BY TwoGated DEF MonInv
  <2> QED
    BY <1>5, <2>1 DEF OpenGate, ParentGoto
<1>6. CASE NotifyAndWait
  <2>1. \A t \in Gated : tpc[t] \notin {"off", "start", "test"}
    BY <1>6 DEF NotifyAndWait, ParentGoto, MonInv, MultiInv, MultiPC, BeforeLast
  <2>2. /\ ppc = "notify" /\ ppc' = "waiting"
        /\ UNCHANGED << canStart, spurious >>
        /\ tpc' = [t \in Threads |-> IF tpc[t] = "waiting" THEN "woken" ELSE tpc[t]]
    BY <1>6 DEF NotifyAndWait, ParentGoto, Woken, Waiting
  <2> QED
    BY <2>1, <2>2 DEF ThreadPC
<1>7. CASE StartLast
  BY <1>7 DEF StartLast, ParentGoto
<1>8. CASE PollLast
  <2>1. ~spurious => \A t \in Gated : tpc[t] \in Finished
    BY <1>8 DEF PollLast, ParentGoto, MultiInv, AfterGated
  <2>2. Inside # {}
    <3>1. Cardinality({}) = 0 /\ Cardinality(Inside) = 1
      BY <1>8, FS_EmptySet DEF PollLast, CountInv
    <3> QED
      BY <3>1
  <2> QED
    BY <1>8, <2>1, <2>2 DEF PollLast, ParentGoto, Inside
<1>9. CASE NotifyLastAndWait
  <2>1. tpc[Last] # "test"
    BY <1>9 DEF NotifyLastAndWait, ParentGoto, MonInv
  <2> QED
    BY <1>9, <2>1 DEF NotifyLastAndWait, ParentGoto, Woken, Waiting
<1>10. CASE JoinThreads
  BY <1>10 DEF JoinThreads, ParentGoto
<1>11. CASE AwaitAllCounted
  BY <1>11 DEF AwaitAllCounted, AwaitCount, ParentGoto
<1>12. CASE OpenAll
  BY <1>12 DEF OpenAll, ParentGoto
<1>13. CASE NotifyAll
  BY <1>13 DEF NotifyAll, ParentGoto, Woken, Waiting
<1>14. CASE AwaitDrained
  BY <1>14 DEF AwaitDrained, AwaitCount, ParentGoto, PriorityInv, PriorityPC
<1>15. CASE ReadStopTime
  BY <1>15 DEF ReadStopTime, ParentGoto
<1>16. CASE JoinThread
  BY <1>16 DEF JoinThread, ParentGoto
<1>17. ASSUME NEW t \in Threads, IncrementCounter(t)
       PROVE  NotifyInv'
  BY <1>17 DEF IncrementCounter
<1>18. ASSUME NEW t \in Threads, TestStart(t)
       PROVE  NotifyInv'
  BY <1>18 DEF TestStart, EnterOrWait, FlagSeen, MultiInv, MultiPC, BeforeLast,
         AfterGated
<1>19. ASSUME NEW t \in Threads, Resume(t)
       PROVE  NotifyInv'
  BY <1>19 DEF Resume, EnterOrWait, FlagSeen, MultiInv, MultiPC, BeforeLast, AfterGated
<1>20. ASSUME NEW t \in Threads, FinishWork(t)
       PROVE  NotifyInv'
  <2>1. counter' = 0 <=> Inside' = {}
    <3>1. IsFiniteSet(Inside')
      BY InsideFinite, FS_Subset DEF Inside
    <3>2. CountInv'
      BY CountStep
    <3> QED
      BY <3>1, <3>2, FS_EmptySet DEF CountInv
  <2>2. /\ tpc' \in [Threads -> ThreadPC]
        /\ tpc[t] = "work" /\ tpc'[t] = "stop"
        /\ \A u \in Threads : u # t =>
             tpc'[u] = tpc[u] \/ (counter' = 0 /\ tpc[u] = "waiting" /\ tpc'[u] = "woken")
    BY <1>20 DEF FinishWork, Notify, Waiting, ThreadPC
  <2>3. /\ UNCHANGED << canStart, spurious, collected >>
        /\ \/ ppc' = ppc
           \/ ppc = "waiting" /\ ppc' = "woken"
           \/ ppc = "waitingLast" /\ ppc' = "wokenLast"
        /\ counter' = 0 /\ Waiting = {} => ppc' \notin {"waiting", "waitingLast"}
    BY <1>20 DEF FinishWork, Notify, ParentGoto
  <2>4. \A u \in Threads : tpc'[u] \in {"test", "waiting", "woken", "work"} => counter' # 0
    BY <2>1 DEF Inside
  <2>5. counter' # 0 => \E u \in Threads : tpc'[u] \in {"test", "waiting", "woken", "work"}
    BY <2>1 DEF Inside
  <2>6. \A u \in Threads : u # t => tpc'[u] = tpc[u]
    BY <2>2, <2>4
  <2>7. ASSUME ~spurious, ppc = "waiting", ppc' = "waiting"
        PROVE  \E u \in Gated : tpc'[u] \in {"woken", "work"}
    <3>1. tpc[Last] = "off" /\ \A u \in Gated : tpc[u] \in {"woken", "work"} \cup Finished
      BY <2>7 DEF MultiInv, BeforeLast
    <3>2. Waiting = {}
      BY <3>1 DEF Waiting
    <3>3. PICK u \in Threads : tpc'[u] \in {"test", "waiting", "woken", "work"}
      BY <2>3, <2>5, <2>7, <3>2
    <3> QED
      BY <2>2, <2>6, <3>1, <3>3
  <2>8. ASSUME ~spurious, ppc = "waitingLast", ppc' = "waitingLast"
        PROVE  tpc'[Last] \in {"woken", "work"}
    <3>1. tpc[Last] \in {"woken", "work"} /\ \A u \in Gated : tpc[u] \in Finished
      BY <2>8 DEF MultiInv, AfterGated
    <3>2. Waiting = {}
      BY <3>1 DEF Waiting
    <3>3. PICK u \in Threads : tpc'[u] \in {"test", "waiting", "woken", "work"}
      BY <2>3, <2>5, <2>8, <3>2
    <3> QED
      BY <2>2, <2>6, <3>1, <3>3
  <2>9. ASSUME ~spurious, ppc = "waitingLast", ppc' = "wokenLast"
        PROVE  tpc'[Last] \in Finished
    <3>1. \A u \in Gated : tpc[u] \in Finished
      BY <2>9 DEF MultiInv, AfterGated
    <3> QED
      BY <2>2, <3>1
  <2> QED
    BY <2>2, <2>3, <2>6, <2>7, <2>8, <2>9
<1>21. ASSUME NEW t \in Threads, SetStopTime(t)
       PROVE  NotifyInv'
  BY <1>21 DEF SetStopTime
<1>22. CASE SpuriousWakeup
  BY <1>22 DEF SpuriousWakeup, Woken, Waiting, ParentGoto
<1> QED
  BY <1>1, <1>2, <1>3, <1>4, <1>5, <1>6, <1>7, <1>8, <1>9, <1>10, <1>11, <1>12,
     <1>13, <1>14, <1>15, <1>16, <1>17, <1>18, <1>19, <1>20, <1>21, <1>22
  DEF Next, Parent, Worker


-----------------------------------------------------------------------------
(* The invariant holds in every reachable state. *)
THEOREM Invariance == Spec => []IInv
<1>1. IInv /\ [Next]_vars => IInv'
  BY CountStep, TypeStep, MultiStep, PriorityStep, IdleStep, MonStep, NotifyStep
  DEF IInv
<1> QED
  BY <1>1, InitIInv, PTL DEF Spec

(* Type correctness: the counter never leaves 0 .. threads. *)
THEOREM TypeCorrect == Spec => []TypeOK
<1>1. IInv => TypeOK
  BY DEF IInv
<1> QED
  BY <1>1, Invariance, PTL

(* No worker works before all are counted, and the last one works alone. *)
THEOREM InTurn == Spec => []WorkInTurn
<1>1. IInv => WorkInTurn
  BY DEF IInv, TypeOK, MultiInv, PriorityInv, IdleInv, MultiPC, PriorityPC,
         BeforeLast, AfterGated, Counting, Before, Finished, ParentPC, Kinds,
         Threads, Starters, WorkInTurn
<1> QED
  BY <1>1, Invariance, PTL

(* The stop times are read when the work is over. *)
THEOREM ReadWhenFinished == Spec => []FinishedWhenRead
<1>1. IInv => FinishedWhenRead
  BY DEF IInv, PriorityInv, Finished, FinishedWhenRead
<1> QED
  BY <1>1, Invariance, PTL

(* When no worker can go on, the lock is free, and each worker has ended   *)
(* or never started, or waits for a notification.                          *)
LEMMA BlockedWorkers ==
  ASSUME IInv, \A t \in Threads : WorkerBlocked(t)
  PROVE  /\ mon = "free"
         /\ \A t \in Threads :
              tpc[t] \in {"off", "end"} \/ (tpc[t] = "waiting" /\ ~spurious)
<1>1. mon = "free"
  BY DEF IInv, TypeOK, MonInv, WorkerBlocked
<1>2. \A t \in Threads : tpc[t] # "test"
  BY <1>1, JavaGateAssumption DEF JavaGateAssumption, IInv, MonInv
<1> QED
  BY <1>1, <1>2 DEF WorkerBlocked

(* The parent and the workers never all wait before the last run has ended, *)
(* in either test, with spurious wakeups or without.                        *)
THEOREM NoDeadlock == Spec => []NeverAllWait
<1>1. IInv => NeverAllWait
  <2> SUFFICES ASSUME IInv, ParentBlocked, ppc # "idle",
                      \A t \in Threads : WorkerBlocked(t)
               PROVE  FALSE
    BY DEF NeverAllWait
  <2> USE DEF IInv, Threads
  <2>1. /\ mon = "free"
        /\ \A t \in Threads :
             tpc[t] \in {"off", "end"} \/ (tpc[t] = "waiting" /\ ~spurious)
    BY BlockedWorkers
  <2>2. CASE ppc = "poll" /\ counter # Cardinality(Gated)
    <3>1. tpc[Last] = "off" /\ \A t \in Gated : tpc[t] = "waiting"
      BY <2>1, <2>2 DEF MultiInv, BeforeLast, Before
    <3>2. Inside = Gated
      BY <3>1 DEF Inside
    <3> QED
      BY <2>2, <3>2 DEF CountInv
  <2>3. CASE ppc = "pollLast" /\ counter # 1
    <3>1. tpc[Last] = "waiting" /\ \A t \in Gated : tpc[t] \in Finished
      BY <2>1, <2>3 DEF NotifyInv, MultiInv, AfterGated, Before
    <3>2. Inside = {Last}
      BY <3>1 DEF Inside, Finished
    <3> QED
      BY <2>3, <3>2, FS_Singleton DEF CountInv
  <2>4. CASE ppc \in {"waiting", "waitingLast"} /\ ~spurious
    BY <2>1, <2>4 DEF NotifyInv
  <2>5. CASE ppc = "wokenLast" /\ \E t \in Threads : tpc[t] # "end"
    BY <2>1, <2>5 DEF NotifyInv, MultiInv, MultiPC, AfterGated, Finished
  <2>6. CASE ppc = "collect" /\ collected = Threads
    BY <2>6 DEF NotifyInv
  <2>7. CASE ppc = "join" /\ tpc[current] # "end"
    BY <2>1, <2>7 DEF PriorityInv, Finished, TypeOK
  <2> QED
    BY <2>1, <2>2, <2>3, <2>4, <2>5, <2>6, <2>7 DEF ParentBlocked
<1> QED
  BY <1>1, Invariance, PTL
=============================================================================
