---------------------------- MODULE HelpersProofs ----------------------------
(***************************************************************************)
(* The helpers for any number of processors and attempts: the verdict is   *)
(* taken on the times of the attempt that is judged.                       *)
(***************************************************************************)
EXTENDS Helpers, FiniteSetTheorems, TLAPS

-----------------------------------------------------------------------------
(* How a step of one helper changes the number the parent waits for.       *)

(* They are finitely many, and none when there are zero. *)
LEMMA OutFinite ==
  /\ IsFiniteSet(Out)
  /\ Cardinality(Out) \in Nat
  /\ Cardinality(Out) = 0 <=> Out = {}
<1>1. IsFiniteSet(1 .. 2 * Cpus)
  BY HelpersAssumption, FS_Interval DEF HelpersAssumption
<1>2. Out \subseteq 1 .. 2 * Cpus
  BY DEF Out
<1> QED
  BY <1>1, <1>2, FS_Subset, FS_CardinalityType, FS_EmptySet

(* A helper of the attempt comes to be waited for. *)
LEMMA Joins ==
  ASSUME TypeOK, attempt \in Attempts, NEW i \in 1 .. 2 * Cpus, NEW state,
         helper[attempt][i] \notin Pending, state \in Pending,
         Becomes(attempt, i, state), UNCHANGED << kind, attempt >>
  PROVE  Cardinality(Out') = Cardinality(Out) + 1
<1>1. Out' = Out \cup {i} /\ i \notin Out
  BY DEF TypeOK, HelperTypes, States, Out, Pending, Becomes
<1> QED
  BY <1>1, OutFinite, FS_AddElement

(* A helper of the attempt is no longer waited for. *)
LEMMA Leaves ==
  ASSUME TypeOK, attempt \in Attempts, NEW i \in 1 .. 2 * Cpus, NEW state,
         helper[attempt][i] \in Pending, state \notin Pending,
         Becomes(attempt, i, state), UNCHANGED << kind, attempt >>
  PROVE  /\ Cardinality(Out') = Cardinality(Out) - 1
         /\ Cardinality(Out) > 0
<1>1. Out' = Out \ {i} /\ i \in Out
  BY DEF TypeOK, HelperTypes, States, Out, Pending, Becomes
<1> QED
  BY <1>1, OutFinite, FS_RemoveElement, FS_EmptySet

(* Any other step of a helper leaves them the same. *)
LEMMA Stays ==
  ASSUME TypeOK, NEW k \in Attempts, NEW i \in 1 .. 2 * Cpus, NEW state,
         k = attempt => (helper[k][i] \in Pending <=> state \in Pending),
         Becomes(k, i, state), UNCHANGED << kind, attempt >>
  PROVE  Out' = Out
BY DEF TypeOK, HelperTypes, States, Out, Pending, Becomes

(* The helper that the parent starts, and the one it scans. *)
LEMMA NextHelper ==
  ASSUME ParentTypes, ParentInv
  PROVE  /\ attempt \in 0 .. Threshold /\ 0 \in 0 .. Threshold
         /\ ppc \notin {"begin", "ended"} => attempt \in Attempts
         /\ ppc = "start" /\ next <= 2 * Cpus => next \in 1 .. 2 * Cpus
         /\ ppc = "counting" => next \in 1 .. 2 * Cpus
         /\ ppc = "scan" /\ next <= 2 * Cpus => next \in Measured
BY HelpersAssumption
DEF HelpersAssumption, ParentTypes, ParentInv, Attempts, Measured

(* A step of a helper, pointwise. *)
LEMMA Moves ==
  ASSUME TypeOK, NEW k \in Attempts, NEW i \in 1 .. 2 * Cpus,
         NEW state \in States, Becomes(k, i, state)
  PROVE  /\ helper' \in [Attempts -> [1 .. 2 * Cpus -> States]]
         /\ helper'[k][i] = state
         /\ \A m \in Attempts, j \in 1 .. 2 * Cpus :
              m # k \/ j # i => helper'[m][j] = helper[m][j]
BY DEF TypeOK, HelperTypes, Becomes

(* Only workers are uncounted in the monitor of the parent. *)
LEMMA Counting ==
  ASSUME ParentTypes, HelpersInv, NEW k \in Attempts, NEW i \in 1 .. 2 * Cpus,
         helper[k][i] = "uncounting"
  PROVE  kind = "workers" /\ i \in Measured
<1>1. HelperInv(k, i)
  BY DEF HelpersInv
<1>2. kind = "workers" /\ i >= Cpus + 1
  BY <1>1, HelpersAssumption
  DEF HelpersAssumption, ParentTypes, HelperInv, StatesOf, First
<1> QED
  BY <1>2, HelpersAssumption DEF HelpersAssumption, Measured

(* A helper that was started goes on to another state of its kind. *)
LEMMA GoesOn ==
  ASSUME TypeOK, HelpersInv,
         NEW k \in Attempts, NEW i \in 1 .. 2 * Cpus,
         NEW state \in StatesOf \ {"none"},
         helper[k][i] # "none", Becomes(k, i, state),
         UNCHANGED << kind, attempt, next >>,
         ppc' = ppc \/ {ppc, ppc'} \cap {"start", "counting", "ended"} = {}
  PROVE  HelpersInv'
<1>1. state \in States
  BY DEF TypeOK, ParentTypes, StatesOf, States
<1> SUFFICES ASSUME NEW m \in Attempts, NEW j \in 1 .. 2 * Cpus
             PROVE  HelperInv(m, j)'
  BY DEF HelpersInv, Attempts
<1>2. HelperInv(m, j)
  BY DEF HelpersInv
<1>3. helper'[m][j] = IF m = k /\ j = i THEN state ELSE helper[m][j]
  BY <1>1, Moves
<1>4. StatesOf' = StatesOf /\ First' = First /\ (Started(j)' <=> Started(j))
  BY DEF StatesOf, First, Started
<1> QED
  BY <1>2, <1>3, <1>4 DEF HelperInv

-----------------------------------------------------------------------------
(* Each step preserves each part of the invariant.                         *)

(* The variables of the parent keep their types. *)
LEMMA ParentTypesStep ==
  ASSUME IInv, [Next]_vars PROVE ParentTypes'
<1>0. ParentTypes /\ ParentInv /\ CountsInv /\ ReadInv
  BY DEF IInv, TypeOK
<1> USE <1>0, HelpersAssumption DEF HelpersAssumption, countVars, dataVars
<1>1. CASE Parent
  <2>1. CASE BeginAttempt
    BY <2>1 DEF BeginAttempt, Nothing, ParentTypes, ParentInv, Attempts, First
  <2>2. CASE OutOfAttempts
    BY <2>2 DEF OutOfAttempts, Goto, ParentTypes, ParentInv, Attempts, First
  <2>3. CASE StartHelper
    BY <2>3 DEF StartHelper, ParentTypes, ParentInv, Attempts, First
  <2>4. CASE ForkFails
    BY <2>4 DEF ForkFails, Goto, ParentTypes, ParentInv, Attempts, First
  <2>5. CASE ReadCounter
    BY <2>5 DEF ReadCounter, Goto, ParentTypes, ParentInv, Attempts, First
  <2>6. CASE StartWorker
    BY <2>6 DEF StartWorker, Goto, ParentTypes, ParentInv, Attempts, First
  <2>7. CASE AllStarted
    BY <2>7 DEF AllStarted, Goto, ParentTypes, ParentInv, Attempts, First
  <2>8. CASE Reap
    BY <2>8 DEF Reap, Reaped, ParentTypes, ParentInv, Attempts, First
  <2>9. CASE ReapFailed
    BY <2>9 DEF ReapFailed, Goto, ParentTypes, ParentInv, Attempts, First
  <2>10. CASE AllReaped
    BY <2>10 DEF AllReaped, Goto, ParentTypes, ParentInv, Attempts, First
  <2>11. CASE Await
    BY <2>11 DEF Await, Goto, ParentTypes, ParentInv, Attempts, First
  <2>12. CASE Scan
    BY <2>12 DEF Scan, ParentTypes, ParentInv, Attempts, First
  <2>13. CASE Incomplete
    BY <2>13 DEF Incomplete, Goto, ParentTypes, ParentInv, Attempts, First
  <2>14. CASE AllScanned
    BY <2>14 DEF AllScanned, Goto, ParentTypes, ParentInv, Attempts, First
  <2>15. CASE Judge
    BY <2>15 DEF Judge, Goto, ParentTypes, ParentInv, Attempts, First
  <2> QED
    BY <1>1, <2>1, <2>2, <2>3, <2>4, <2>5, <2>6, <2>7, <2>8, <2>9, <2>10,
       <2>11, <2>12, <2>13, <2>14, <2>15 DEF Parent
<1>2. CASE SpuriousWakeup
  BY <1>2 DEF SpuriousWakeup, Goto, ParentTypes, ParentInv, Attempts, First
<1>3. ASSUME NEW k \in Attempts, NEW i \in 1 .. 2 * Cpus, Helper(k, i)
     PROVE  ParentTypes'
  <2>1. CASE CountItself(k, i)
    BY <2>1 DEF CountItself, Is, ParentTypes, ParentInv, Attempts, First
  <2>2. CASE Work(k, i)
    BY <2>2 DEF Work, Is, ParentTypes, ParentInv, Attempts, First
  <2>3. CASE WorkFails(k, i)
    BY <2>3 DEF WorkFails, Is, ParentTypes, ParentInv, Attempts, First
  <2>4. CASE ChildFails(k, i)
    BY <2>4 DEF ChildFails, Is, ParentTypes, ParentInv, Attempts, First
  <2>5. CASE ChildSilent(k, i)
    BY <2>5 DEF ChildSilent, Is, ParentTypes, ParentInv, Attempts, First
  <2>6. CASE UncountItself(k, i)
    <3>1. k = attempt /\ helper[k][i] \in Pending /\ "looking" \notin Pending
      BY <1>3, <2>6
      DEF IInv, ParentTypes, ParentInv, HelpersInv, HelperInv, UncountItself, Is,
          Pending, Attempts
    <3>2. Cardinality(Out) > 0
      BY <3>1, <2>6, Leaves DEF IInv, UncountItself
    <3> QED
      BY <3>2, <2>6, OutFinite DEF UncountItself, CountsInv, Is, ParentTypes
  <2>7. CASE Look(k, i)
    BY <2>7 DEF Look, Is, ParentTypes, ParentInv, Attempts, First
  <2>8. CASE NotifyParent(k, i)
    BY <2>8 DEF NotifyParent, Is, Wakes, ParentTypes, ParentInv, Attempts,
       First
  <2>9. CASE BeginUncount(k, i)
    BY <2>9 DEF BeginUncount, Is, ParentTypes, ParentInv, Attempts, First
  <2>10. CASE EndUncount(k, i)
    <3>1. kind = "workers" /\ i \in Measured
      BY <1>3, <2>10, Counting DEF IInv, EndUncount, Is
    <3>2. workerRead > 0
      BY <1>3, <2>10, <3>1 DEF ReadInv, LockFree, EndUncount, Is
    <3>3. counter' \in Nat /\ workerRead' \in Nat /\ parentRead' \in Nat
      <4>1. counter' = workerRead - 1 /\ UNCHANGED << parentRead, workerRead >>
        BY <2>10 DEF EndUncount
      <4> QED
        BY <3>2, <4>1 DEF ParentTypes
    <3>4. ppc' \in {ppc, "await"}
      BY <2>10 DEF EndUncount, Wakes
    <3> QED
      BY <3>3, <3>4, <2>10 DEF EndUncount, ParentTypes
  <2> QED
    BY <1>3, <2>1, <2>2, <2>3, <2>4, <2>5, <2>6, <2>7, <2>8, <2>9, <2>10 DEF
       Helper
<1>4. CASE UNCHANGED vars
  BY <1>4 DEF vars, ParentTypes, ParentInv, Attempts, First
<1> QED
  BY <1>1, <1>2, <1>3, <1>4 DEF Next

(* The variables of the helpers keep their types. *)
LEMMA HelperTypesStep ==
  ASSUME IInv, [Next]_vars PROVE HelperTypes'
<1>0. TypeOK /\ HelperTypes /\ ParentTypes /\ ParentInv
  BY DEF IInv, TypeOK
<1> USE <1>0, HelpersAssumption DEF HelpersAssumption, countVars, dataVars
<1>1. CASE Parent
  <2>1. CASE BeginAttempt
    <3>1. Nothing \in [Measured -> 0 .. Threshold]
      BY NextHelper DEF Nothing
    <3> QED
      BY <2>1, <3>1 DEF BeginAttempt, HelperTypes
  <2>2. CASE OutOfAttempts
    BY <2>2 DEF OutOfAttempts, Goto, HelperTypes, States
  <2>3. CASE StartHelper
    <3>1. next \in 1 .. 2 * Cpus /\ attempt \in Attempts
      BY <2>3, NextHelper DEF StartHelper
    <3> QED
      BY <3>1, <2>3, Moves DEF StartHelper, TypeOK, HelperTypes, States
  <2>4. CASE ForkFails
    BY <2>4 DEF ForkFails, Goto, HelperTypes, States
  <2>5. CASE ReadCounter
    BY <2>5 DEF ReadCounter, Goto, HelperTypes, States
  <2>6. CASE StartWorker
    <3>1. next \in 1 .. 2 * Cpus /\ attempt \in Attempts
      BY <2>6, NextHelper DEF StartWorker
    <3> QED
      BY <3>1, <2>6, Moves DEF StartWorker, Lost, TypeOK, HelperTypes, States
  <2>7. CASE AllStarted
    BY <2>7 DEF AllStarted, Goto, HelperTypes, States
  <2>8. CASE Reap
    BY <2>8, Moves DEF Reap, Reaped, HelperTypes, States
  <2>9. CASE ReapFailed
    BY <2>9, Moves DEF ReapFailed, Goto, HelperTypes, States
  <2>10. CASE AllReaped
    BY <2>10 DEF AllReaped, Goto, HelperTypes, States
  <2>11. CASE Await
    BY <2>11 DEF Await, Goto, HelperTypes, States
  <2>12. CASE Scan
    <3>1. next \in Measured
      BY <2>12, NextHelper DEF Scan
    <3>2. file[next] \in 0 .. Threshold /\ 0 \in 0 .. Threshold
      BY <3>1, NextHelper DEF HelperTypes
    <3>3. scanned' \in [Measured -> 0 .. Threshold]
      BY <3>2, <2>12 DEF Scan, HelperTypes
    <3>4. file' \in [Measured -> 0 .. Threshold]
      BY <3>2, <2>12 DEF Scan, HelperTypes
    <3> QED
      BY <3>3, <3>4, <2>12 DEF Scan, HelperTypes
  <2>13. CASE Incomplete
    BY <2>13 DEF Incomplete, Goto, HelperTypes, States
  <2>14. CASE AllScanned
    BY <2>14 DEF AllScanned, Goto, HelperTypes, States
  <2>15. CASE Judge
    BY <2>15 DEF Judge, Goto, HelperTypes, States
  <2> QED
    BY <1>1, <2>1, <2>2, <2>3, <2>4, <2>5, <2>6, <2>7, <2>8, <2>9, <2>10,
       <2>11, <2>12, <2>13, <2>14, <2>15 DEF Parent
<1>2. CASE SpuriousWakeup
  BY <1>2 DEF SpuriousWakeup, Goto, HelperTypes, States
<1>3. ASSUME NEW k \in Attempts, NEW i \in 1 .. 2 * Cpus, Helper(k, i)
     PROVE  HelperTypes'
  <2>1. CASE CountItself(k, i)
    BY <2>1, <1>3, Moves DEF CountItself, Is, HelperTypes, States
  <2>2. CASE Work(k, i)
    <3>1. k \in 0 .. Threshold
      BY <1>3 DEF Attempts
    <3>2. file' \in [Measured -> 0 .. Threshold]
      BY <3>1, <2>2 DEF Work, HelperTypes
    <3> QED
      BY <3>2, <2>2, <1>3, Moves DEF Work, TypeOK, HelperTypes, States
  <2>3. CASE WorkFails(k, i)
    BY <2>3, <1>3, Moves DEF WorkFails, Is, HelperTypes, States
  <2>4. CASE ChildFails(k, i)
    BY <2>4, <1>3, Moves DEF ChildFails, Is, HelperTypes, States
  <2>5. CASE ChildSilent(k, i)
    BY <2>5, <1>3, Moves DEF ChildSilent, Is, HelperTypes, States
  <2>6. CASE UncountItself(k, i)
    BY <2>6, <1>3, Moves DEF UncountItself, Is, HelperTypes, States
  <2>7. CASE Look(k, i)
    BY <2>7, <1>3, Moves DEF Look, Is, HelperTypes, States
  <2>8. CASE NotifyParent(k, i)
    BY <2>8, <1>3, Moves DEF NotifyParent, Is, Wakes, HelperTypes, States
  <2>9. CASE BeginUncount(k, i)
    BY <2>9, <1>3, Moves DEF BeginUncount, Is, HelperTypes, States
  <2>10. CASE EndUncount(k, i)
    BY <2>10, <1>3, Moves DEF EndUncount, Is, Wakes, HelperTypes, States
  <2> QED
    BY <1>3, <2>1, <2>2, <2>3, <2>4, <2>5, <2>6, <2>7, <2>8, <2>9, <2>10 DEF
       Helper
<1>4. CASE UNCHANGED vars
  BY <1>4 DEF vars, HelperTypes, States
<1> QED
  BY <1>1, <1>2, <1>3, <1>4 DEF Next

(* How far the parent has come. *)
LEMMA ParentStep ==
  ASSUME IInv, [Next]_vars PROVE ParentInv'
<1>0. ParentTypes /\ ParentInv
  BY DEF IInv, TypeOK
<1> USE <1>0, HelpersAssumption DEF HelpersAssumption, countVars, dataVars
<1>1. CASE Parent
  <2>1. CASE BeginAttempt
    BY <2>1 DEF BeginAttempt, Nothing, ParentTypes, ParentInv, First
  <2>2. CASE OutOfAttempts
    BY <2>2 DEF OutOfAttempts, Goto, ParentTypes, ParentInv, First
  <2>3. CASE StartHelper
    BY <2>3 DEF StartHelper, ParentTypes, ParentInv, First
  <2>4. CASE ForkFails
    BY <2>4 DEF ForkFails, Goto, ParentTypes, ParentInv, First
  <2>5. CASE ReadCounter
    BY <2>5 DEF ReadCounter, Goto, ParentTypes, ParentInv, First
  <2>6. CASE StartWorker
    BY <2>6 DEF StartWorker, Goto, ParentTypes, ParentInv, First
  <2>7. CASE AllStarted
    BY <2>7 DEF AllStarted, Goto, ParentTypes, ParentInv, First
  <2>8. CASE Reap
    BY <2>8 DEF Reap, Reaped, ParentTypes, ParentInv, First
  <2>9. CASE ReapFailed
    BY <2>9 DEF ReapFailed, Goto, ParentTypes, ParentInv, First
  <2>10. CASE AllReaped
    BY <2>10 DEF AllReaped, Goto, ParentTypes, ParentInv, First
  <2>11. CASE Await
    BY <2>11 DEF Await, Goto, ParentTypes, ParentInv, First
  <2>12. CASE Scan
    BY <2>12 DEF Scan, ParentTypes, ParentInv, First
  <2>13. CASE Incomplete
    BY <2>13 DEF Incomplete, Goto, ParentTypes, ParentInv, First
  <2>14. CASE AllScanned
    BY <2>14 DEF AllScanned, Goto, ParentTypes, ParentInv, First
  <2>15. CASE Judge
    BY <2>15 DEF Judge, Goto, ParentTypes, ParentInv, First
  <2> QED
    BY <1>1, <2>1, <2>2, <2>3, <2>4, <2>5, <2>6, <2>7, <2>8, <2>9, <2>10,
       <2>11, <2>12, <2>13, <2>14, <2>15 DEF Parent
<1>2. CASE SpuriousWakeup
  BY <1>2 DEF SpuriousWakeup, Goto, ParentTypes, ParentInv, First
<1>3. ASSUME NEW k \in Attempts, NEW i \in 1 .. 2 * Cpus, Helper(k, i)
     PROVE  ParentInv'
  <2>1. CASE CountItself(k, i)
    BY <2>1 DEF CountItself, Is, ParentTypes, ParentInv, First
  <2>2. CASE Work(k, i)
    BY <2>2 DEF Work, Is, ParentTypes, ParentInv, First
  <2>3. CASE WorkFails(k, i)
    BY <2>3 DEF WorkFails, Is, ParentTypes, ParentInv, First
  <2>4. CASE ChildFails(k, i)
    BY <2>4 DEF ChildFails, Is, ParentTypes, ParentInv, First
  <2>5. CASE ChildSilent(k, i)
    BY <2>5 DEF ChildSilent, Is, ParentTypes, ParentInv, First
  <2>6. CASE UncountItself(k, i)
    BY <2>6 DEF UncountItself, Is, ParentTypes, ParentInv, First
  <2>7. CASE Look(k, i)
    BY <2>7 DEF Look, Is, ParentTypes, ParentInv, First
  <2>8. CASE NotifyParent(k, i)
    BY <2>8 DEF NotifyParent, Is, Wakes, ParentTypes, ParentInv, First
  <2>9. CASE BeginUncount(k, i)
    BY <2>9 DEF BeginUncount, Is, ParentTypes, ParentInv, First
  <2>10. CASE EndUncount(k, i)
    BY <2>10 DEF EndUncount, Is, Wakes, ParentTypes, ParentInv, First
  <2> QED
    BY <1>3, <2>1, <2>2, <2>3, <2>4, <2>5, <2>6, <2>7, <2>8, <2>9, <2>10 DEF
       Helper
<1>4. CASE UNCHANGED vars
  BY <1>4 DEF vars, ParentTypes, ParentInv, First
<1> QED
  BY <1>1, <1>2, <1>3, <1>4 DEF Next

(* The parent goes on without starting a helper. *)
LEMMA StandStill ==
  ASSUME HelpersInv, UNCHANGED << kind, attempt, helper >>,
         \/ ppc' = "ended"
         \/ ppc # "ended" /\ \A i \in 1 .. 2 * Cpus : Started(i)' <=> Started(i)
  PROVE  HelpersInv'
<1> SUFFICES ASSUME NEW k \in Attempts, NEW i \in 1 .. 2 * Cpus
             PROVE  HelperInv(k, i)'
  BY DEF HelpersInv, Attempts
<1>1. HelperInv(k, i)
  BY DEF HelpersInv
<1>2. StatesOf' = StatesOf /\ First' = First
  BY DEF StatesOf, First
<1> QED
  BY <1>1, <1>2 DEF HelperInv, Started

(* Where the helpers are. *)
LEMMA HelpersStep ==
  ASSUME IInv, [Next]_vars PROVE HelpersInv'
<1>0. TypeOK /\ ParentTypes /\ ParentInv /\ HelpersInv
  BY DEF IInv, TypeOK
<1> USE <1>0, HelpersAssumption DEF HelpersAssumption, countVars, dataVars
<1>1. CASE Parent
  <2>1. CASE BeginAttempt
    <3> SUFFICES ASSUME NEW k \in Attempts, NEW i \in 1 .. 2 * Cpus
                 PROVE  HelperInv(k, i)'
      BY DEF HelpersInv, Attempts
    <3>1. HelperInv(k, i)
      BY DEF HelpersInv
    <3> QED
      BY <3>1, <2>1
      DEF HelperInv, StatesOf, Started, First, ParentTypes, ParentInv, Attempts,
          BeginAttempt
  <2>2. CASE OutOfAttempts
    BY <2>2, StandStill DEF Started, ParentTypes, OutOfAttempts, Goto
  <2>3. CASE StartHelper
    <3> SUFFICES ASSUME NEW k \in Attempts, NEW i \in 1 .. 2 * Cpus
                 PROVE  HelperInv(k, i)'
      BY DEF HelpersInv, Attempts
    <3>1. HelperInv(k, i)
      BY DEF HelpersInv
    <3>2. next \in 1 .. 2 * Cpus /\ attempt \in Attempts
      BY <2>3, NextHelper DEF StartHelper
    <3>3. helper'[k][i] = IF k = attempt /\ i = next THEN "ready" ELSE helper[k][i]
      BY <3>2, <2>3, Moves DEF StartHelper, States
    <3> QED
      BY <3>1, <3>2, <3>3, <2>3
      DEF HelperInv, StatesOf, Started, First, ParentTypes, ParentInv, Attempts,
          StartHelper
  <2>4. CASE ForkFails
    BY <2>4, StandStill DEF Started, ParentTypes, ForkFails, Goto
  <2>5. CASE ReadCounter
    BY <2>5, StandStill DEF Started, ParentTypes, ReadCounter, Goto
  <2>6. CASE StartWorker
    <3> SUFFICES ASSUME NEW k \in Attempts, NEW i \in 1 .. 2 * Cpus
                 PROVE  HelperInv(k, i)'
      BY DEF HelpersInv, Attempts
    <3>1. HelperInv(k, i)
      BY DEF HelpersInv
    <3>2. next \in 1 .. 2 * Cpus /\ attempt \in Attempts
      BY <2>6, NextHelper DEF StartWorker
    <3>3. helper'[k][i] = IF k = attempt /\ i = next THEN "ready" ELSE helper[k][i]
      BY <3>2, <2>6, Moves DEF StartWorker, States
    <3> QED
      BY <3>1, <3>2, <3>3, <2>6
      DEF HelperInv, StatesOf, Started, First, ParentTypes, ParentInv, Attempts,
          StartWorker, Goto
  <2>7. CASE AllStarted
    BY <2>7, StandStill DEF Started, ParentTypes, AllStarted, Goto
  <2>8. CASE Reap
    <3>1. PICK k \in Attempts, i \in 1 .. 2 * Cpus :
            helper[k][i] \in {"ended", "failed"} /\ Becomes(k, i, "reaped")
      BY <2>8 DEF Reap
    <3>2. "reaped" \in StatesOf
      BY <2>8 DEF Reap, ParentInv, StatesOf
    <3> QED
      BY <3>1, <3>2, <2>8, GoesOn DEF Reap
  <2>9. CASE ReapFailed
    <3>1. PICK k \in Attempts, i \in 1 .. 2 * Cpus :
            helper[k][i] \in {"ended", "failed"} /\ Becomes(k, i, "reaped")
      BY <2>9 DEF ReapFailed, Goto
    <3>2. "reaped" \in StatesOf
      BY <2>9 DEF ReapFailed, Goto, ParentInv, StatesOf
    <3> QED
      BY <3>1, <3>2, <2>9, GoesOn DEF ReapFailed, Goto
  <2>10. CASE AllReaped
    BY <2>10, StandStill DEF Started, ParentTypes, AllReaped, Goto
  <2>11. CASE Await
    BY <2>11, StandStill DEF Started, ParentTypes, Await, Goto
  <2>12. CASE Scan
    BY <2>12, StandStill DEF Started, ParentTypes, Scan
  <2>13. CASE Incomplete
    BY <2>13, StandStill DEF Started, ParentTypes, Incomplete, Goto
  <2>14. CASE AllScanned
    BY <2>14, StandStill DEF Started, ParentTypes, AllScanned, Goto
  <2>15. CASE Judge
    BY <2>15, StandStill DEF Started, ParentTypes, Judge, Goto
  <2> QED
    BY <1>1, <2>1, <2>2, <2>3, <2>4, <2>5, <2>6, <2>7, <2>8, <2>9, <2>10,
       <2>11, <2>12, <2>13, <2>14, <2>15 DEF Parent
<1>2. CASE SpuriousWakeup
  BY <1>2, StandStill DEF Started, ParentTypes, SpuriousWakeup, Goto
<1>3. ASSUME NEW k \in Attempts, NEW i \in 1 .. 2 * Cpus, Helper(k, i)
     PROVE  HelpersInv'
  <2>1. CASE CountItself(k, i)
    <3>1. HelperInv(k, i)
      BY <1>3 DEF HelpersInv
    <3> QED
      BY <1>3, <2>1, <3>1, GoesOn
      DEF ParentTypes, HelperInv, StatesOf, Attempts, CountItself, Is
  <2>2. CASE Work(k, i)
    <3>1. HelperInv(k, i)
      BY <1>3 DEF HelpersInv
    <3> QED
      BY <1>3, <2>2, <3>1, GoesOn
      DEF ParentTypes, HelperInv, StatesOf, Attempts, Work, Is
  <2>3. CASE WorkFails(k, i)
    <3>1. HelperInv(k, i)
      BY <1>3 DEF HelpersInv
    <3> QED
      BY <1>3, <2>3, <3>1, GoesOn
      DEF ParentTypes, HelperInv, StatesOf, Attempts, WorkFails, Is
  <2>4. CASE ChildFails(k, i)
    <3>1. HelperInv(k, i)
      BY <1>3 DEF HelpersInv
    <3> QED
      BY <1>3, <2>4, <3>1, GoesOn
      DEF ParentTypes, HelperInv, StatesOf, Attempts, ChildFails, Is
  <2>5. CASE ChildSilent(k, i)
    <3>1. HelperInv(k, i)
      BY <1>3 DEF HelpersInv
    <3> QED
      BY <1>3, <2>5, <3>1, GoesOn
      DEF ParentTypes, HelperInv, StatesOf, Attempts, ChildSilent, Is
  <2>6. CASE UncountItself(k, i)
    <3>1. HelperInv(k, i)
      BY <1>3 DEF HelpersInv
    <3> QED
      BY <1>3, <2>6, <3>1, GoesOn
      DEF ParentTypes, HelperInv, StatesOf, Attempts, UncountItself, Is
  <2>7. CASE Look(k, i)
    <3>1. HelperInv(k, i)
      BY <1>3 DEF HelpersInv
    <3> QED
      BY <1>3, <2>7, <3>1, GoesOn
      DEF ParentTypes, HelperInv, StatesOf, Attempts, Look, Is
  <2>8. CASE NotifyParent(k, i)
    <3>1. HelperInv(k, i)
      BY <1>3 DEF HelpersInv
    <3> QED
      BY <1>3, <2>8, <3>1, GoesOn
      DEF ParentTypes, HelperInv, StatesOf, Attempts, NotifyParent, Is, Wakes
  <2>9. CASE BeginUncount(k, i)
    <3>1. HelperInv(k, i)
      BY <1>3 DEF HelpersInv
    <3> QED
      BY <1>3, <2>9, <3>1, GoesOn
      DEF ParentTypes, HelperInv, StatesOf, Attempts, BeginUncount, Is
  <2>10. CASE EndUncount(k, i)
    <3>1. HelperInv(k, i)
      BY <1>3 DEF HelpersInv
    <3> QED
      BY <1>3, <2>10, <3>1, GoesOn
      DEF ParentTypes, HelperInv, StatesOf, Attempts, EndUncount, Is, Wakes
  <2> QED
    BY <1>3, <2>1, <2>2, <2>3, <2>4, <2>5, <2>6, <2>7, <2>8, <2>9, <2>10 DEF
       Helper
<1>4. CASE UNCHANGED vars
  BY <1>4 DEF vars, HelpersInv, HelperInv, StatesOf, Started, First
<1> QED
  BY <1>1, <1>2, <1>3, <1>4 DEF Next

(* Only an action that puts a worker into the monitor can disturb it. *)
LEMMA NobodyEnters ==
  ASSUME TypeOK, ReadInv, NEW k \in Attempts, NEW i \in 1 .. 2 * Cpus,
         NEW state \in States \ {"uncounting"},
         Becomes(k, i, state), UNCHANGED workerRead
  PROVE  ReadInv'
<1> SUFFICES ASSUME NEW m \in Attempts, NEW j \in Measured,
                    helper'[m][j] = "uncounting"
             PROVE  workerRead' > 0
  BY DEF ReadInv, LockFree, Attempts, Measured
<1>1. j \in 1 .. 2 * Cpus
  BY HelpersAssumption DEF HelpersAssumption, Measured
<1>2. helper[m][j] = "uncounting"
  BY <1>1, Moves
<1> QED
  BY <1>2 DEF ReadInv, LockFree

(* A worker in the monitor has read a counter that is not zero. *)
LEMMA ReadStep ==
  ASSUME IInv, [Next]_vars PROVE ReadInv'
<1>0. TypeOK /\ ParentTypes /\ ParentInv /\ ReadInv
  BY DEF IInv, TypeOK
<1> USE <1>0, HelpersAssumption DEF HelpersAssumption, countVars, dataVars
<1>1. CASE Parent
  <2>1. CASE BeginAttempt
    BY <2>1 DEF BeginAttempt, Nothing, ReadInv, LockFree, Attempts, Measured
  <2>2. CASE OutOfAttempts
    BY <2>2 DEF OutOfAttempts, Goto, ReadInv, LockFree, Attempts, Measured
  <2>3. CASE StartHelper
    <3>1. next \in 1 .. 2 * Cpus /\ attempt \in Attempts
      BY <2>3, NextHelper DEF StartHelper
    <3> QED
      BY <3>1, <2>3, NobodyEnters DEF StartHelper, States
  <2>4. CASE ForkFails
    BY <2>4 DEF ForkFails, Goto, ReadInv, LockFree, Attempts, Measured
  <2>5. CASE ReadCounter
    BY <2>5 DEF ReadCounter, Goto, ReadInv, LockFree, Attempts, Measured
  <2>6. CASE StartWorker
    <3>1. next \in 1 .. 2 * Cpus /\ attempt \in Attempts
      BY <2>6, NextHelper DEF StartWorker
    <3> QED
      BY <3>1, <2>6, NobodyEnters DEF StartWorker, States
  <2>7. CASE AllStarted
    BY <2>7 DEF AllStarted, Goto, ReadInv, LockFree, Attempts, Measured
  <2>8. CASE Reap
    BY <2>8, NobodyEnters DEF Reap, States
  <2>9. CASE ReapFailed
    BY <2>9, NobodyEnters DEF ReapFailed, States
  <2>10. CASE AllReaped
    BY <2>10 DEF AllReaped, Goto, ReadInv, LockFree, Attempts, Measured
  <2>11. CASE Await
    BY <2>11 DEF Await, Goto, ReadInv, LockFree, Attempts, Measured
  <2>12. CASE Scan
    BY <2>12 DEF Scan, ReadInv, LockFree, Attempts, Measured
  <2>13. CASE Incomplete
    BY <2>13 DEF Incomplete, Goto, ReadInv, LockFree, Attempts, Measured
  <2>14. CASE AllScanned
    BY <2>14 DEF AllScanned, Goto, ReadInv, LockFree, Attempts, Measured
  <2>15. CASE Judge
    BY <2>15 DEF Judge, Goto, ReadInv, LockFree, Attempts, Measured
  <2> QED
    BY <1>1, <2>1, <2>2, <2>3, <2>4, <2>5, <2>6, <2>7, <2>8, <2>9, <2>10,
       <2>11, <2>12, <2>13, <2>14, <2>15 DEF Parent
<1>2. CASE SpuriousWakeup
  BY <1>2 DEF SpuriousWakeup, Goto, ReadInv, LockFree, Attempts, Measured
<1>3. ASSUME NEW k \in Attempts, NEW i \in 1 .. 2 * Cpus, Helper(k, i)
     PROVE  ReadInv'
  <2>1. CASE CountItself(k, i)
    BY <1>3, <2>1, NobodyEnters DEF CountItself, States
  <2>2. CASE Work(k, i)
    BY <1>3, <2>2, NobodyEnters DEF Work, States
  <2>3. CASE WorkFails(k, i)
    BY <1>3, <2>3, NobodyEnters DEF WorkFails, States
  <2>4. CASE ChildFails(k, i)
    BY <1>3, <2>4, NobodyEnters DEF ChildFails, States
  <2>5. CASE ChildSilent(k, i)
    BY <1>3, <2>5, NobodyEnters DEF ChildSilent, States
  <2>6. CASE UncountItself(k, i)
    BY <1>3, <2>6, NobodyEnters DEF UncountItself, States
  <2>7. CASE Look(k, i)
    BY <1>3, <2>7, NobodyEnters DEF Look, States
  <2>8. CASE NotifyParent(k, i)
    BY <1>3, <2>8, NobodyEnters DEF NotifyParent, States
  <2>9. CASE BeginUncount(k, i)
    <3>1. CASE counter > 0
      BY <3>1, <2>9 DEF BeginUncount, ReadInv
    <3>2. CASE ~(counter > 0)
      <4>1. Becomes(k, i, "ended") /\ LockFree
        BY <3>2, <2>9 DEF BeginUncount
      <4> SUFFICES ASSUME NEW m \in Attempts, NEW j \in Measured
                   PROVE  helper'[m][j] # "uncounting"
        BY DEF ReadInv, LockFree, Attempts, Measured
      <4>2. j \in 1 .. 2 * Cpus
        BY DEF Measured
      <4> QED
        BY <1>3, <4>1, <4>2, Moves DEF LockFree, States
    <3> QED
      BY <3>1, <3>2
  <2>10. CASE EndUncount(k, i)
    BY <1>3, <2>10, NobodyEnters DEF EndUncount, States
  <2> QED
    BY <1>3, <2>1, <2>2, <2>3, <2>4, <2>5, <2>6, <2>7, <2>8, <2>9, <2>10 DEF
       Helper
<1>4. CASE UNCHANGED vars
  BY <1>4 DEF vars, ReadInv, LockFree
<1> QED
  BY <1>1, <1>2, <1>3, <1>4 DEF Next

(* The count stays right when nobody comes to be waited for or ceases to be. *)
LEMMA CountKept ==
  ASSUME CountsInv, Out' = Out, UNCHANGED << kind, left, counter >>,
         spoils' = {} => spoils = {},
         kind = "processes" /\ ppc' \in {"start", "reap"} => ppc \in {"start", "reap"}
  PROVE  CountsInv'
BY DEF CountsInv

(* A helper that is there and has not ended is of the attempt, when no child *)
(* was left behind. *)
LEMMA OfThisAttempt ==
  ASSUME ParentTypes, ParentInv, HelpersInv, SettledInv,
         kind = "threads" \/ spoils = {},
         NEW k \in Attempts, NEW i \in 1 .. 2 * Cpus,
         helper[k][i] \notin {"none", "ended", "reaped"}
  PROVE  k = attempt
<1>1. k <= attempt
  BY DEF HelpersInv, HelperInv, Attempts, ParentTypes
<1>2. kind = "threads" => attempt <= 1
  BY DEF ParentInv
<1>3. spoils = {} => ~(k < attempt)
  BY DEF SettledInv
<1> QED
  BY <1>1, <1>2, <1>3 DEF Attempts, ParentTypes

(* What the parent waits for is the number of those it waits for. *)
LEMMA CountsStep ==
  ASSUME IInv, [Next]_vars PROVE CountsInv'
<1>0. TypeOK /\ ParentTypes /\ ParentInv /\ HelpersInv /\ CountsInv /\ SettledInv
  BY DEF IInv, TypeOK
<1> USE <1>0, HelpersAssumption DEF HelpersAssumption, countVars, dataVars
<1>1. CASE Parent
  <2>1. CASE BeginAttempt
    <3>1. attempt' \in Attempts
      BY <2>1 DEF BeginAttempt, ParentTypes, Attempts
    <3>2. Out' = {}
      <4> SUFFICES ASSUME NEW i \in 1 .. 2 * Cpus PROVE helper'[attempt'][i] \notin Pending'
        BY DEF Out
      <4>1. HelperInv(attempt', i) /\ attempt' > attempt
        BY <3>1, <2>1 DEF HelpersInv, BeginAttempt, ParentTypes
      <4>2. helper'[attempt'][i] = "none"
        BY <4>1, <2>1 DEF HelperInv, BeginAttempt
      <4> QED
        BY <4>2, <2>1 DEF Pending, BeginAttempt, ParentTypes
    <3>3. Cardinality(Out') = 0
      BY <3>2, FS_EmptySet
    <3>4. kind = "threads" \/ (kind = "workers" /\ spoils = {}) => Out = {}
      BY <2>1 DEF Out, Attempts, ParentInv, SettledInv, BeginAttempt
    <3> QED
      BY <3>3, <3>4, <2>1, FS_EmptySet DEF CountsInv, BeginAttempt, ParentTypes
  <2>2. CASE OutOfAttempts
    <3>1. Out' = Out
      BY <2>2 DEF Out, Pending, OutOfAttempts, Goto
    <3> QED
      BY <3>1, <2>2, CountKept DEF OutOfAttempts, Goto, ParentInv
  <2>3. CASE StartHelper
    <3>1. next \in 1 .. 2 * Cpus /\ attempt \in Attempts
      BY <2>3, NextHelper DEF StartHelper
    <3>2. helper[attempt][next] = "none"
      BY <3>1, <2>3
      DEF HelpersInv, HelperInv, Started, StartHelper, ParentInv, First, ParentTypes
    <3>3. CASE kind = "processes"
      <4>1. "ready" \in Pending /\ "none" \notin Pending
        BY <3>3 DEF Pending
      <4>2. Cardinality(Out') = Cardinality(Out) + 1
        BY <3>1, <3>2, <4>1, <2>3, Joins DEF StartHelper
      <4> QED
        BY <3>3, <4>2, <2>3 DEF CountsInv, StartHelper
    <3>4. CASE kind = "threads"
      <4>1. "ready" \notin Pending /\ "none" \notin Pending
        BY <3>4 DEF Pending
      <4>2. Out' = Out
        BY <3>1, <3>2, <4>1, <2>3, Stays DEF StartHelper
      <4> QED
        BY <3>4, <4>2, <2>3 DEF CountsInv, StartHelper
    <3> QED
      BY <3>3, <3>4, <2>3 DEF StartHelper, ParentTypes
  <2>4. CASE ForkFails
    <3>1. Out' = Out
      BY <2>4 DEF Out, Pending, ForkFails, Goto
    <3> QED
      BY <3>1, <2>4, CountKept DEF ForkFails, Goto, ParentInv
  <2>5. CASE ReadCounter
    <3>1. Out' = Out
      BY <2>5 DEF Out, Pending, ReadCounter, Goto
    <3> QED
      BY <3>1, <2>5, CountKept DEF ReadCounter, Goto, ParentInv
  <2>6. CASE StartWorker
    <3>1. next \in 1 .. 2 * Cpus /\ attempt \in Attempts
      BY <2>6, NextHelper DEF StartWorker
    <3>2. helper[attempt][next] = "none"
      BY <3>1, <2>6
      DEF HelpersInv, HelperInv, Started, StartWorker, ParentInv, First, ParentTypes
    <3>3. kind = "workers"
      BY <2>6 DEF StartWorker, ParentInv
    <3>4. "ready" \in Pending /\ "none" \notin Pending
      BY <3>3 DEF Pending
    <3>5. Cardinality(Out') = Cardinality(Out) + 1
      BY <3>1, <3>2, <3>4, <2>6, Joins DEF StartWorker, Goto
    <3>6. spoils' = {} => spoils = {} /\ counter = parentRead
      BY <2>6 DEF StartWorker, Lost
    <3> QED
      BY <3>3, <3>5, <3>6, <2>6 DEF CountsInv, StartWorker, Goto
  <2>7. CASE AllStarted
    <3>1. Out' = Out
      BY <2>7 DEF Out, Pending, AllStarted, Goto
    <3> QED
      BY <3>1, <2>7, CountKept DEF AllStarted, Goto, ParentInv
  <2>8. CASE Reap
    <3>1. PICK k \in Attempts, i \in 1 .. 2 * Cpus :
            helper[k][i] = "ended" /\ Becomes(k, i, "reaped") /\ Reaped(k)
      BY <2>8 DEF Reap
    <3>2. kind = "processes" /\ "ended" \in Pending /\ "reaped" \notin Pending
      BY <2>8 DEF Reap, ParentInv, Pending
    <3>3. CASE k = attempt
      <4>1. Cardinality(Out') = Cardinality(Out) - 1
        BY <3>1, <3>2, <3>3, <2>8, Leaves DEF Reap
      <4> QED
        BY <3>1, <3>2, <3>3, <4>1, <2>8 DEF CountsInv, Reap, Reaped
    <3>4. CASE k # attempt
      <4>1. Out' = Out
        BY <3>1, <3>4, <2>8, Stays DEF Reap
      <4> QED
        BY <3>1, <3>4, <4>1, <2>8, CountKept DEF Reap, Reaped
    <3> QED
      BY <3>3, <3>4
  <2>9. CASE ReapFailed
    <3>1. kind = "processes" /\ kind' = kind /\ ppc' = "begin"
      BY <2>9 DEF ReapFailed, ParentInv, Goto
    <3> QED
      BY <3>1 DEF CountsInv
  <2>10. CASE AllReaped
    <3>1. Out' = Out
      BY <2>10 DEF Out, Pending, AllReaped, Goto
    <3> QED
      BY <3>1, <2>10, CountKept DEF AllReaped, Goto, ParentInv
  <2>11. CASE Await
    <3>1. Out' = Out
      BY <2>11 DEF Out, Pending, Await, Goto
    <3> QED
      BY <3>1, <2>11, CountKept DEF Await, Goto, ParentInv
  <2>12. CASE Scan
    <3>1. Out' = Out
      BY <2>12 DEF Out, Pending, Scan
    <3> QED
      BY <3>1, <2>12, CountKept DEF Scan, ParentInv
  <2>13. CASE Incomplete
    <3>1. Out' = Out
      BY <2>13 DEF Out, Pending, Incomplete, Goto
    <3> QED
      BY <3>1, <2>13, CountKept DEF Incomplete, Goto, ParentInv
  <2>14. CASE AllScanned
    <3>1. Out' = Out
      BY <2>14 DEF Out, Pending, AllScanned, Goto
    <3> QED
      BY <3>1, <2>14, CountKept DEF AllScanned, Goto, ParentInv
  <2>15. CASE Judge
    <3>1. Out' = Out
      BY <2>15 DEF Out, Pending, Judge, Goto
    <3> QED
      BY <3>1, <2>15, CountKept DEF Judge, Goto, ParentInv
  <2> QED
    BY <1>1, <2>1, <2>2, <2>3, <2>4, <2>5, <2>6, <2>7, <2>8, <2>9, <2>10,
       <2>11, <2>12, <2>13, <2>14, <2>15 DEF Parent
<1>2. CASE SpuriousWakeup
  <3>1. Out' = Out
    BY <1>2 DEF Out, Pending, SpuriousWakeup, Goto
  <3> QED
    BY <3>1, <1>2, CountKept DEF SpuriousWakeup, Goto, ParentInv
<1>3. ASSUME NEW k \in Attempts, NEW i \in 1 .. 2 * Cpus, Helper(k, i)
     PROVE  CountsInv'
  <2>1. CASE CountItself(k, i)
    <3>1. k = attempt
      BY <1>3, <2>1, OfThisAttempt DEF CountItself, Is
    <3>2. "ready" \notin Pending /\ "running" \in Pending
      BY <2>1 DEF CountItself, Pending
    <3>3. Cardinality(Out') = Cardinality(Out) + 1
      BY <1>3, <3>1, <3>2, <2>1, Joins DEF CountItself, Is
    <3> QED
      BY <3>3, <2>1 DEF CountsInv, CountItself
  <2>2. CASE Work(k, i)
    <3>1. HelperInv(k, i)
      BY <1>3 DEF HelpersInv
    <3>2. Out' = Out
      BY <1>3, <3>1, <2>2, Stays
      DEF HelperInv, StatesOf, Pending, ParentTypes, Work, Is
    <3> QED
      BY <3>2, <2>2, CountKept DEF Work, Is
  <2>3. CASE WorkFails(k, i)
    <3>1. HelperInv(k, i)
      BY <1>3 DEF HelpersInv
    <3>2. Out' = Out
      BY <1>3, <3>1, <2>3, Stays
      DEF HelperInv, StatesOf, Pending, ParentTypes, WorkFails, Is
    <3> QED
      BY <3>2, <2>3, CountKept DEF WorkFails, Is
  <2>4. CASE ChildFails(k, i)
    <3>1. HelperInv(k, i)
      BY <1>3 DEF HelpersInv
    <3>2. Out' = Out
      BY <1>3, <3>1, <2>4, Stays
      DEF HelperInv, StatesOf, Pending, ParentTypes, ChildFails, Is
    <3> QED
      BY <3>2, <2>4, CountKept DEF ChildFails, Is
  <2>5. CASE ChildSilent(k, i)
    <3>1. HelperInv(k, i)
      BY <1>3 DEF HelpersInv
    <3>2. Out' = Out
      BY <1>3, <3>1, <2>5, Stays
      DEF HelperInv, StatesOf, Pending, ParentTypes, ChildSilent, Is
    <3> QED
      BY <3>2, <2>5, CountKept DEF ChildSilent, Is
  <2>6. CASE UncountItself(k, i)
    <3>1. k = attempt
      BY <1>3, <2>6, OfThisAttempt DEF UncountItself, Is
    <3>2. "leaving" \in Pending /\ "looking" \notin Pending
      BY <2>6 DEF UncountItself, Pending
    <3>3. Cardinality(Out') = Cardinality(Out) - 1
      BY <1>3, <3>1, <3>2, <2>6, Leaves DEF UncountItself, Is
    <3> QED
      BY <3>3, <2>6 DEF CountsInv, UncountItself
  <2>7. CASE Look(k, i)
    <3>1. HelperInv(k, i)
      BY <1>3 DEF HelpersInv
    <3>2. Out' = Out
      BY <1>3, <3>1, <2>7, Stays
      DEF HelperInv, StatesOf, Pending, ParentTypes, Look, Is
    <3> QED
      BY <3>2, <2>7, CountKept DEF Look, Is
  <2>8. CASE NotifyParent(k, i)
    <3>1. HelperInv(k, i)
      BY <1>3 DEF HelpersInv
    <3>2. Out' = Out
      BY <1>3, <3>1, <2>8, Stays
      DEF HelperInv, StatesOf, Pending, ParentTypes, NotifyParent, Is, Wakes
    <3> QED
      BY <3>2, <2>8, CountKept DEF NotifyParent, Is, Wakes
  <2>9. CASE BeginUncount(k, i)
    <3>1. kind = "workers" /\ kind' = kind /\ spoils' = spoils
      BY <2>9 DEF BeginUncount
    <3>2. CASE spoils = {}
      <4>1. k = attempt
        BY <1>3, <2>9, <3>2, OfThisAttempt DEF BeginUncount, Is
      <4>2. i \in Out /\ "leaving" \in Pending /\ "uncounting" \in Pending
        BY <1>3, <3>1, <4>1, <2>9 DEF Out, Pending, BeginUncount, Is
      <4>3. counter > 0
        BY <3>1, <3>2, <4>2, OutFinite DEF CountsInv
      <4>4. Out' = Out
        BY <1>3, <4>2, <4>3, <2>9, Stays DEF BeginUncount, Is
      <4> QED
        BY <4>4, <2>9, CountKept DEF BeginUncount
    <3> QED
      BY <3>1, <3>2 DEF CountsInv
  <2>10. CASE EndUncount(k, i)
    <3>1. kind = "workers" /\ kind' = kind
      BY <1>3, <2>10, Counting DEF EndUncount, Is
    <3>2. CASE spoils' = {}
      <4>1. spoils = {} /\ counter' = counter - 1
        BY <3>2, <2>10 DEF EndUncount
      <4>2. k = attempt
        BY <1>3, <2>10, <4>1, OfThisAttempt DEF EndUncount, Is
      <4>3. "uncounting" \in Pending /\ "ended" \notin Pending
        BY <3>1 DEF Pending
      <4>4. Cardinality(Out') = Cardinality(Out) - 1
        BY <1>3, <4>2, <4>3, <2>10, Leaves DEF EndUncount, Is
      <4> QED
        BY <3>1, <4>1, <4>4 DEF CountsInv
    <3> QED
      BY <3>1, <3>2 DEF CountsInv
  <2> QED
    BY <1>3, <2>1, <2>2, <2>3, <2>4, <2>5, <2>6, <2>7, <2>8, <2>9, <2>10 DEF
       Helper
<1>4. CASE UNCHANGED vars
  BY <1>4 DEF vars, CountsInv, Out, Pending
<1> QED
  BY <1>1, <1>2, <1>3, <1>4 DEF Next

(* A step of a helper that is there leaves settled what was. *)
LEMMA SettledKept ==
  ASSUME TypeOK, HelpersInv, SettledInv,
         NEW k \in Attempts, NEW i \in 1 .. 2 * Cpus, NEW state \in States,
         helper[k][i] \notin {"none", "ended", "reaped"}, Becomes(k, i, state),
         kind = "threads" \/ Out' \subseteq Out,
         UNCHANGED << kind, attempt >>, spoils' = {} => spoils = {},
         ppc' = ppc \/ ppc' = "await"
  PROVE  SettledInv'
<1>1. /\ kind = "processes" /\ ppc' \in {"scan", "judge"} => Out' = {}
      /\ kind # "threads" /\ spoils' = {} /\ ppc' \in {"begin", "scan", "judge"} => Out' = {}
  BY DEF SettledInv
<1>2. ASSUME spoils' = {}, NEW m \in Attempts, NEW j \in 1 .. 2 * Cpus, m < attempt
      PROVE  helper'[m][j] \in {"none", "ended", "reaped"}
  <2>1. helper[m][j] \in {"none", "ended", "reaped"}
    BY <1>2 DEF SettledInv
  <2>2. helper'[m][j] = helper[m][j]
    BY <1>2, <2>1, Moves
  <2> QED
    BY <2>1, <2>2
<1> QED
  BY <1>1, <1>2 DEF SettledInv, Attempts

(* A helper that is waited for makes a step: nobody else comes to be. *)
LEMMA Shrinks ==
  ASSUME TypeOK, NEW k \in Attempts, NEW i \in 1 .. 2 * Cpus,
         NEW state \in States,
         helper[k][i] \in Pending, Becomes(k, i, state), UNCHANGED << kind, attempt >>
  PROVE  Out' \subseteq Out
<1>1. Pending' = Pending
  BY DEF Pending
<1>2. ASSUME NEW j \in Out' PROVE j \in Out
  BY <1>1, <1>2, Moves DEF Out
<1> QED
  BY <1>2

(* What is settled stays so. *)
LEMMA SettledStep ==
  ASSUME IInv, [Next]_vars PROVE SettledInv'
<1>0. TypeOK /\ ParentTypes /\ ParentInv /\ HelpersInv /\ CountsInv /\ SettledInv
  BY DEF IInv, TypeOK
<1> USE <1>0, HelpersAssumption DEF HelpersAssumption, countVars, dataVars
<1>1. CASE Parent
  <2>1. CASE BeginAttempt
    <3>1. ppc' = "start"
      BY <2>1 DEF BeginAttempt
    <3>2. ASSUME spoils' = {}, NEW k \in Attempts, NEW i \in 1 .. 2 * Cpus, k < attempt'
          PROVE  helper'[k][i] \in {"none", "ended", "reaped"}
      <4>1. spoils = {} /\ helper' = helper /\ attempt' = attempt + 1 /\ ppc = "begin"
        BY <3>2, <2>1 DEF BeginAttempt
      <4>2. CASE k < attempt
        BY <4>1, <4>2 DEF SettledInv
      <4>3. CASE k = attempt
        <5>1. kind # "threads" /\ Out = {}
          BY <4>1, <4>3 DEF SettledInv, ParentInv, Attempts
        <5>2. helper[k][i] \notin Pending
          BY <4>3, <5>1 DEF Out
        <5>3. HelperInv(k, i)
          BY DEF HelpersInv
        <5> QED
          BY <4>1, <5>1, <5>2, <5>3 DEF HelperInv, StatesOf, Pending, ParentTypes
      <4> QED
        BY <3>2, <4>1, <4>2, <4>3 DEF Attempts, ParentTypes
    <3> QED
      BY <3>1, <3>2 DEF SettledInv, Attempts
  <2>2. CASE OutOfAttempts
    <3>1. Out' = Out
      BY <2>2 DEF Out, Pending, OutOfAttempts, Goto
    <3> QED
      BY <3>1, <2>2 DEF SettledInv, ParentInv, Attempts, OutOfAttempts, Goto
  <2>3. CASE StartHelper
    <3>1. next \in 1 .. 2 * Cpus /\ attempt \in Attempts /\ "ready" \in States
      BY <2>3, NextHelper DEF StartHelper, States
    <3>2. ppc' \notin {"begin", "scan", "judge"}
      BY <2>3 DEF StartHelper
    <3>3. ASSUME spoils' = {}, NEW k \in Attempts, NEW i \in 1 .. 2 * Cpus, k < attempt'
          PROVE  helper'[k][i] \in {"none", "ended", "reaped"}
      <4>1. spoils = {} /\ attempt' = attempt /\ Becomes(attempt, next, "ready")
        BY <3>3, <2>3 DEF StartHelper
      <4>2. k # attempt
        BY <3>3, <4>1 DEF Attempts, ParentTypes
      <4>3. helper'[k][i] = helper[k][i]
        BY <3>1, <4>1, <4>2, Moves
      <4> QED
        BY <3>3, <4>1, <4>3 DEF SettledInv
    <3> QED
      BY <3>2, <3>3 DEF SettledInv, Attempts
  <2>4. CASE ForkFails
    <3>1. Out' = Out
      BY <2>4 DEF Out, Pending, ForkFails, Goto
    <3> QED
      BY <3>1, <2>4 DEF SettledInv, ParentInv, Attempts, ForkFails, Goto
  <2>5. CASE ReadCounter
    <3>1. Out' = Out
      BY <2>5 DEF Out, Pending, ReadCounter, Goto
    <3> QED
      BY <3>1, <2>5 DEF SettledInv, ParentInv, Attempts, ReadCounter, Goto
  <2>6. CASE StartWorker
    <3>1. next \in 1 .. 2 * Cpus /\ attempt \in Attempts /\ "ready" \in States
      BY <2>6, NextHelper DEF StartWorker, States
    <3>2. ppc' \notin {"begin", "scan", "judge"}
      BY <2>6 DEF StartWorker, Goto
    <3>3. ASSUME spoils' = {}, NEW k \in Attempts, NEW i \in 1 .. 2 * Cpus, k < attempt'
          PROVE  helper'[k][i] \in {"none", "ended", "reaped"}
      <4>1. spoils = {} /\ attempt' = attempt /\ Becomes(attempt, next, "ready")
        BY <3>3, <2>6 DEF StartWorker, Goto
      <4>2. k # attempt
        BY <3>3, <4>1 DEF Attempts, ParentTypes
      <4>3. helper'[k][i] = helper[k][i]
        BY <3>1, <4>1, <4>2, Moves
      <4> QED
        BY <3>3, <4>1, <4>3 DEF SettledInv
    <3> QED
      BY <3>2, <3>3 DEF SettledInv, Attempts
  <2>7. CASE AllStarted
    <3>1. Out' = Out
      BY <2>7 DEF Out, Pending, AllStarted, Goto
    <3> QED
      BY <3>1, <2>7 DEF SettledInv, ParentInv, Attempts, AllStarted, Goto
  <2>8. CASE Reap
    <3>1. PICK k \in Attempts, i \in 1 .. 2 * Cpus :
            helper[k][i] = "ended" /\ Becomes(k, i, "reaped")
      BY <2>8 DEF Reap
    <3>2. ASSUME spoils' = {}, NEW m \in Attempts, NEW j \in 1 .. 2 * Cpus, m < attempt'
          PROVE  helper'[m][j] \in {"none", "ended", "reaped"}
      <4>1. spoils = {} /\ attempt' = attempt
        BY <3>2, <2>8 DEF Reap
      <4>2. helper'[m][j] \in {helper[m][j], "reaped"}
        BY <3>1, Moves DEF States
      <4> QED
        BY <3>2, <4>1, <4>2 DEF SettledInv
    <3> QED
      BY <3>2, <2>8 DEF SettledInv, Reap, Attempts
  <2>9. CASE ReapFailed
    <3>1. spoils' # {} /\ ppc' = "begin"
      BY <2>9 DEF ReapFailed, Goto
    <3> QED
      BY <3>1 DEF SettledInv
  <2>10. CASE AllReaped
    <3>1. Out' = Out
      BY <2>10 DEF Out, Pending, AllReaped, Goto
    <3>2. Out = {}
      BY <2>10, OutFinite DEF CountsInv, AllReaped, ParentInv
    <3> QED
      BY <3>1, <3>2, <2>10 DEF SettledInv, AllReaped, Goto, Attempts
  <2>11. CASE Await
    <3>1. Out' = Out
      BY <2>11 DEF Out, Pending, Await, Goto
    <3>2. kind = "workers" /\ spoils = {} /\ ~(counter > 0) => Out = {}
      BY OutFinite DEF CountsInv, ParentTypes
    <3>3. kind # "processes"
      BY <2>11 DEF ParentInv, Await
    <3> QED
      BY <3>1, <3>2, <3>3, <2>11 DEF SettledInv, Await, Goto, Attempts, ParentTypes
  <2>12. CASE Scan
    <3>1. Out' = Out
      BY <2>12 DEF Out, Pending, Scan
    <3> QED
      BY <3>1, <2>12 DEF SettledInv, ParentInv, Attempts, Scan
  <2>13. CASE Incomplete
    <3>1. Out' = Out
      BY <2>13 DEF Out, Pending, Incomplete, Goto
    <3> QED
      BY <3>1, <2>13 DEF SettledInv, ParentInv, Attempts, Incomplete, Goto
  <2>14. CASE AllScanned
    <3>1. Out' = Out
      BY <2>14 DEF Out, Pending, AllScanned, Goto
    <3> QED
      BY <3>1, <2>14 DEF SettledInv, ParentInv, Attempts, AllScanned, Goto
  <2>15. CASE Judge
    <3>1. Out' = Out
      BY <2>15 DEF Out, Pending, Judge, Goto
    <3> QED
      BY <3>1, <2>15 DEF SettledInv, ParentInv, Attempts, Judge, Goto
  <2> QED
    BY <1>1, <2>1, <2>2, <2>3, <2>4, <2>5, <2>6, <2>7, <2>8, <2>9, <2>10,
       <2>11, <2>12, <2>13, <2>14, <2>15 DEF Parent
<1>2. CASE SpuriousWakeup
  <3>1. Out' = Out
    BY <1>2 DEF Out, Pending, SpuriousWakeup, Goto
  <3> QED
    BY <3>1, <1>2 DEF SettledInv, ParentInv, Attempts, SpuriousWakeup, Goto
<1>3. ASSUME NEW k \in Attempts, NEW i \in 1 .. 2 * Cpus, Helper(k, i)
     PROVE  SettledInv'
  <2>1. CASE CountItself(k, i)
    <3>1. kind = "threads"
      BY <2>1 DEF CountItself
    <3> QED
      BY <1>3, <3>1, <2>1, SettledKept DEF States, CountItself, Is
  <2>2. CASE Work(k, i)
    <3>1. HelperInv(k, i)
      BY <1>3 DEF HelpersInv
    <3>2. Out' = Out
      BY <1>3, <3>1, <2>2, Stays
      DEF HelperInv, StatesOf, Pending, ParentTypes, Work, Is
    <3> QED
      BY <1>3, <3>2, <2>2, SettledKept DEF States, Work, Is
  <2>3. CASE WorkFails(k, i)
    <3>1. HelperInv(k, i)
      BY <1>3 DEF HelpersInv
    <3>2. Out' = Out
      BY <1>3, <3>1, <2>3, Stays
      DEF HelperInv, StatesOf, Pending, ParentTypes, WorkFails, Is
    <3> QED
      BY <1>3, <3>2, <2>3, SettledKept DEF States, WorkFails, Is
  <2>4. CASE ChildFails(k, i)
    <3>1. HelperInv(k, i)
      BY <1>3 DEF HelpersInv
    <3>2. Out' = Out
      BY <1>3, <3>1, <2>4, Stays
      DEF HelperInv, StatesOf, Pending, ParentTypes, ChildFails, Is
    <3> QED
      BY <1>3, <3>2, <2>4, SettledKept DEF States, ChildFails, Is
  <2>5. CASE ChildSilent(k, i)
    <3>1. HelperInv(k, i)
      BY <1>3 DEF HelpersInv
    <3>2. Out' = Out
      BY <1>3, <3>1, <2>5, Stays
      DEF HelperInv, StatesOf, Pending, ParentTypes, ChildSilent, Is
    <3> QED
      BY <1>3, <3>2, <2>5, SettledKept DEF States, ChildSilent, Is
  <2>6. CASE UncountItself(k, i)
    <3>1. kind = "threads"
      BY <2>6 DEF UncountItself
    <3> QED
      BY <1>3, <3>1, <2>6, SettledKept DEF States, UncountItself, Is
  <2>7. CASE Look(k, i)
    <3>1. HelperInv(k, i)
      BY <1>3 DEF HelpersInv
    <3>2. Out' = Out
      BY <1>3, <3>1, <2>7, Stays
      DEF HelperInv, StatesOf, Pending, ParentTypes, Look, Is
    <3> QED
      BY <1>3, <3>2, <2>7, SettledKept DEF States, Look, Is
  <2>8. CASE NotifyParent(k, i)
    <3>1. HelperInv(k, i)
      BY <1>3 DEF HelpersInv
    <3>2. Out' = Out
      BY <1>3, <3>1, <2>8, Stays
      DEF HelperInv, StatesOf, Pending, ParentTypes, NotifyParent, Is, Wakes
    <3> QED
      BY <1>3, <3>2, <2>8, SettledKept DEF States, NotifyParent, Is, Wakes
  <2>9. CASE BeginUncount(k, i)
    <3>1. kind = "workers"
      BY <1>3, <2>9, Counting DEF BeginUncount, Is
    <3>2. PICK state \in {"uncounting", "ended"} : Becomes(k, i, state)
      BY <2>9 DEF BeginUncount
    <3>3. "leaving" \in Pending
      BY <3>1 DEF Pending
    <3>4. Out' \subseteq Out
      BY <1>3, <3>2, <3>3, <2>9, Shrinks DEF BeginUncount, Is, States
    <3>5. ppc' \in {ppc, "await"} /\ (spoils' = {} => spoils = {})
      BY <2>9 DEF BeginUncount, Wakes
    <3> QED
      BY <1>3, <3>2, <3>4, <3>5, <2>9, SettledKept DEF States, BeginUncount, Is
  <2>10. CASE EndUncount(k, i)
    <3>1. kind = "workers"
      BY <1>3, <2>10, Counting DEF EndUncount, Is
    <3>2. PICK state \in {"uncounting", "ended"} : Becomes(k, i, state)
      BY <2>10 DEF EndUncount
    <3>3. "uncounting" \in Pending
      BY <3>1 DEF Pending
    <3>4. Out' \subseteq Out
      BY <1>3, <3>2, <3>3, <2>10, Shrinks DEF EndUncount, Is, States
    <3>5. ppc' \in {ppc, "await"} /\ (spoils' = {} => spoils = {})
      BY <2>10 DEF EndUncount, Wakes
    <3> QED
      BY <1>3, <3>2, <3>4, <3>5, <2>10, SettledKept DEF States, EndUncount, Is
  <2> QED
    BY <1>3, <2>1, <2>2, <2>3, <2>4, <2>5, <2>6, <2>7, <2>8, <2>9, <2>10 DEF
       Helper
<1>4. CASE UNCHANGED vars
  BY <1>4 DEF vars, SettledInv, Out, Pending
<1> QED
  BY <1>1, <1>2, <1>3, <1>4 DEF Next

(* A step of a helper that leaves no file. *)
LEMMA FilesKept ==
  ASSUME TypeOK, FilesInv,
         NEW k \in Attempts, NEW i \in 1 .. 2 * Cpus, NEW state \in States,
         Becomes(k, i, state),
         kind = "processes" /\ state \in {"ended", "reaped"} =>
           helper[k][i] \in {"ended", "reaped"} \/ spoils' # {},
         kind = "workers" /\ state \in {"leaving", "uncounting", "ended"} =>
           helper[k][i] \in {"leaving", "uncounting", "ended"},
         UNCHANGED << kind, attempt, next, file, scanned >>,
         spoils' = {} => spoils = {},
         ppc' = ppc \/ ppc' = "await",
         ppc \in {"start", "reap"} => attempt > 0
  PROVE  FilesInv'
<1> SUFFICES ASSUME spoils' = {}, NEW j \in Measured PROVE FileInv(j)'
  BY DEF FilesInv, Measured
<1>1. FileInv(j)
  BY DEF FilesInv
<1>2. j \in 1 .. 2 * Cpus
  BY HelpersAssumption DEF HelpersAssumption, Measured
<1>3. attempt > 0 => attempt \in Attempts
  BY HelpersAssumption DEF HelpersAssumption, TypeOK, ParentTypes, Attempts
<1>4. attempt > 0 =>
        helper'[attempt][j] = IF attempt = k /\ j = i THEN state ELSE helper[attempt][j]
  BY <1>2, <1>3, Moves
<1> QED
  BY <1>1, <1>4 DEF FileInv

(* What is measured is left where the parent looks for it. *)
LEMMA FilesStep ==
  ASSUME IInv, [Next]_vars PROVE FilesInv'
<1>0. TypeOK /\ ParentTypes /\ HelperTypes /\ ParentInv /\ HelpersInv /\ CountsInv /\ SettledInv /\ FilesInv
  BY DEF IInv, TypeOK
<1> USE <1>0, HelpersAssumption DEF HelpersAssumption, countVars, dataVars
<1>1. CASE Parent
  <2>1. CASE BeginAttempt
    <3> SUFFICES ASSUME spoils' = {}, NEW i \in Measured PROVE FileInv(i)'
      BY DEF FilesInv, Measured
    <3>1. FileInv(i)
      BY <2>1 DEF FilesInv, BeginAttempt
    <3>2. i \in 1 .. 2 * Cpus
      BY DEF Measured
    <3>3. attempt' \in Attempts /\ attempt' > attempt
      BY <2>1 DEF BeginAttempt, ParentTypes, Attempts
    <3>4. HelperInv(attempt', i)
      BY <3>2, <3>3 DEF HelpersInv
    <3>5. helper'[attempt'][i] = "none" /\ ppc' = "start"
      BY <3>3, <3>4, <2>1 DEF HelperInv, BeginAttempt
    <3>6. kind = "threads" => file'[i] = 0
      BY <3>1, <2>1 DEF FileInv, ParentInv, BeginAttempt
    <3> QED
      BY <3>5, <3>6, <2>1 DEF FileInv, BeginAttempt
  <2>2. CASE OutOfAttempts
    <3> SUFFICES ASSUME spoils' = {}, NEW i \in Measured PROVE FileInv(i)'
      BY DEF FilesInv, Measured
    <3>1. FileInv(i)
      BY <2>2 DEF FilesInv, OutOfAttempts, Goto
    <3> QED
      BY <3>1, <2>2 DEF FileInv, ParentInv, OutOfAttempts, Goto
  <2>3. CASE StartHelper
    <3> SUFFICES ASSUME spoils' = {}, NEW i \in Measured PROVE FileInv(i)'
      BY DEF FilesInv, Measured
    <3>1. FileInv(i)
      BY <2>3 DEF FilesInv, StartHelper
    <3>2. i \in 1 .. 2 * Cpus
      BY DEF Measured
    <3>3. next \in 1 .. 2 * Cpus /\ attempt \in Attempts /\ "ready" \in States
      BY <2>3, NextHelper DEF StartHelper, States
    <3>4. Becomes(attempt, next, "ready") /\ ppc' \in {"start", "counting"}
      BY <2>3 DEF StartHelper
    <3>5. helper'[attempt][i] \in {"ready", helper[attempt][i]}
      BY <3>2, <3>3, <3>4, Moves
    <3>6. UNCHANGED << kind, attempt, file >> /\ (ppc = "start" \/ kind = "workers")
      BY <2>3 DEF StartHelper, ParentInv
    <3> QED
      BY <3>1, <3>4, <3>5, <3>6 DEF FileInv
  <2>4. CASE ForkFails
    <3> SUFFICES ASSUME spoils' = {}, NEW i \in Measured PROVE FileInv(i)'
      BY DEF FilesInv, Measured
    <3>1. FileInv(i)
      BY <2>4 DEF FilesInv, ForkFails, Goto
    <3> QED
      BY <3>1, <2>4 DEF FileInv, ParentInv, ForkFails, Goto
  <2>5. CASE ReadCounter
    <3> SUFFICES ASSUME spoils' = {}, NEW i \in Measured PROVE FileInv(i)'
      BY DEF FilesInv, Measured
    <3>1. FileInv(i)
      BY <2>5 DEF FilesInv, ReadCounter, Goto
    <3> QED
      BY <3>1, <2>5 DEF FileInv, ParentInv, ReadCounter, Goto
  <2>6. CASE StartWorker
    <3> SUFFICES ASSUME spoils' = {}, NEW i \in Measured PROVE FileInv(i)'
      BY DEF FilesInv, Measured
    <3>1. FileInv(i)
      BY <2>6 DEF FilesInv, StartWorker, Goto
    <3>2. i \in 1 .. 2 * Cpus
      BY DEF Measured
    <3>3. next \in 1 .. 2 * Cpus /\ attempt \in Attempts /\ "ready" \in States
      BY <2>6, NextHelper DEF StartWorker, States
    <3>4. Becomes(attempt, next, "ready") /\ ppc' \in {"start", "counting"}
      BY <2>6 DEF StartWorker, Goto
    <3>5. helper'[attempt][i] \in {"ready", helper[attempt][i]}
      BY <3>2, <3>3, <3>4, Moves
    <3>6. UNCHANGED << kind, attempt, file >> /\ (ppc = "start" \/ kind = "workers")
      BY <2>6 DEF StartWorker, Goto, ParentInv
    <3> QED
      BY <3>1, <3>4, <3>5, <3>6 DEF FileInv
  <2>7. CASE AllStarted
    <3> SUFFICES ASSUME spoils' = {}, NEW i \in Measured PROVE FileInv(i)'
      BY DEF FilesInv, Measured
    <3>1. FileInv(i)
      BY <2>7 DEF FilesInv, AllStarted, Goto
    <3> QED
      BY <3>1, <2>7 DEF FileInv, ParentInv, AllStarted, Goto
  <2>8. CASE Reap
    <3>1. PICK k \in Attempts, i \in 1 .. 2 * Cpus :
            helper[k][i] = "ended" /\ Becomes(k, i, "reaped")
      BY <2>8 DEF Reap
    <3>2. kind = "processes" /\ attempt > 0
      BY <2>8 DEF Reap, ParentInv
    <3> QED
      BY <3>1, <3>2, <2>8, FilesKept DEF Reap, States
  <2>9. CASE ReapFailed
    <3>1. spoils' # {}
      BY <2>9 DEF ReapFailed
    <3> QED
      BY <3>1 DEF FilesInv
  <2>10. CASE AllReaped
    <3> SUFFICES ASSUME spoils' = {}, NEW i \in Measured PROVE FileInv(i)'
      BY DEF FilesInv, Measured
    <3>1. FileInv(i)
      BY <2>10 DEF FilesInv, AllReaped
    <3>2. i \in 1 .. 2 * Cpus /\ attempt \in Attempts /\ kind = "processes"
      BY <2>10, NextHelper DEF Measured, AllReaped, ParentInv
    <3>3. Out = {}
      BY <2>10, OutFinite DEF CountsInv, AllReaped, ParentInv
    <3>4. HelperInv(attempt, i) /\ helper[attempt][i] \notin Pending
      BY <3>2, <3>3 DEF HelpersInv, Out
    <3>5. helper[attempt][i] # "none"
      BY <3>2, <3>4, <2>10 DEF HelperInv, Started, First, AllReaped
    <3>6. file[i] = attempt
      BY <3>1, <3>2, <3>4, <3>5, <2>10 DEF HelperInv, StatesOf, Pending, FileInv, AllReaped
    <3>7. ~(i < next')
      BY <2>10 DEF AllReaped, Measured
    <3> QED
      BY <3>2, <3>6, <3>7, <2>10 DEF FileInv, AllReaped, Goto
  <2>11. CASE Await
    <3> SUFFICES ASSUME spoils' = {}, NEW i \in Measured PROVE FileInv(i)'
      BY DEF FilesInv, Measured
    <3>1. FileInv(i)
      BY <2>11 DEF FilesInv, Await, Goto
    <3>2. ppc' = "scan" => ~(i < next')
      BY <2>11 DEF Await, Goto, Measured
    <3>3. kind # "processes" /\ ppc' \in {"asleep", "scan"}
      BY <2>11 DEF ParentInv, Await, Goto
    <3> QED
      BY <3>1, <3>2, <3>3, <2>11 DEF FileInv, Await, Goto
  <2>12. CASE Scan
    <3> SUFFICES ASSUME spoils' = {}, NEW i \in Measured PROVE FileInv(i)'
      BY DEF FilesInv, Measured
    <3>1. FileInv(i) /\ FileInv(next) /\ next \in Measured /\ spoils = {}
      BY <2>12, NextHelper DEF FilesInv, Scan
    <3>2. file[next] = attempt
      <4>1. CASE kind = "processes"
        BY <3>1, <4>1, <2>12 DEF FileInv, Scan, Measured
      <4>2. CASE kind = "threads"
        BY <3>1, <4>2, <2>12 DEF FileInv, Scan
      <4>3. CASE kind = "workers"
        <5>1. next \in 1 .. 2 * Cpus /\ attempt \in Attempts /\ attempt > 0
          BY <3>1, <2>12, NextHelper DEF Measured, Scan, Attempts
        <5>2. Out = {}
          BY <3>1, <4>3, <2>12 DEF SettledInv, Scan
        <5>3. HelperInv(attempt, next) /\ helper[attempt][next] \notin Pending
          BY <5>1, <5>2 DEF HelpersInv, Out
        <5>4. helper[attempt][next] # "none"
          BY <3>1, <4>3, <5>3, <2>12 DEF HelperInv, Started, First, Scan, Measured
        <5>5. helper[attempt][next] = "ended"
          BY <4>3, <5>3, <5>4 DEF HelperInv, StatesOf, Pending
        <5> QED
          BY <3>1, <4>3, <5>1, <5>5 DEF FileInv
      <4> QED
        BY <4>1, <4>2, <4>3 DEF ParentTypes
    <3>3. scanned'[i] = IF i = next THEN attempt ELSE scanned[i]
      BY <3>1, <3>2, <2>12 DEF Scan, HelperTypes
    <3>4. i # next \/ kind # "processes" => file'[i] = file[i]
      BY <2>12 DEF Scan, HelperTypes
    <3>5. i < next' => i < next \/ i = next
      BY <2>12 DEF Scan, ParentTypes, Measured
    <3>6. i >= next' => i >= next /\ i # next
      BY <2>12 DEF Scan, ParentTypes, Measured
    <3> QED
      BY <3>1, <3>3, <3>4, <3>5, <3>6, <2>12 DEF FileInv, Scan
  <2>13. CASE Incomplete
    <3> SUFFICES ASSUME spoils' = {}, NEW i \in Measured PROVE FileInv(i)'
      BY DEF FilesInv, Measured
    <3>1. FileInv(i)
      BY <2>13 DEF FilesInv, Incomplete, Goto
    <3> QED
      BY <3>1, <2>13 DEF FileInv, ParentInv, Incomplete, Goto
  <2>14. CASE AllScanned
    <3> SUFFICES ASSUME spoils' = {}, NEW i \in Measured PROVE FileInv(i)'
      BY DEF FilesInv, Measured
    <3>1. FileInv(i)
      BY <2>14 DEF FilesInv, AllScanned, Goto
    <3> QED
      BY <3>1, <2>14 DEF FileInv, ParentInv, AllScanned, Goto
  <2>15. CASE Judge
    <3> SUFFICES ASSUME spoils' = {}, NEW i \in Measured PROVE FileInv(i)'
      BY DEF FilesInv, Measured
    <3>1. FileInv(i)
      BY <2>15 DEF FilesInv, Judge, Goto
    <3> QED
      BY <3>1, <2>15 DEF FileInv, ParentInv, Judge, Goto
  <2> QED
    BY <1>1, <2>1, <2>2, <2>3, <2>4, <2>5, <2>6, <2>7, <2>8, <2>9, <2>10,
       <2>11, <2>12, <2>13, <2>14, <2>15 DEF Parent
<1>2. CASE SpuriousWakeup
  <3> SUFFICES ASSUME spoils' = {}, NEW i \in Measured PROVE FileInv(i)'
    BY DEF FilesInv, Measured
  <3>1. FileInv(i)
    BY <1>2 DEF FilesInv, SpuriousWakeup, Goto
  <3> QED
    BY <3>1, <1>2 DEF FileInv, ParentInv, SpuriousWakeup, Goto
<1>3. ASSUME NEW k \in Attempts, NEW i \in 1 .. 2 * Cpus, Helper(k, i)
     PROVE  FilesInv'
  <2>1. CASE CountItself(k, i)
    <3>1. HelperInv(k, i)
      BY <1>3 DEF HelpersInv
    <3> QED
      BY <1>3, <3>1, <2>1, FilesKept
      DEF HelperInv, StatesOf, States, ParentInv, CountItself, Is
  <2>2. CASE Work(k, i)
    <3> SUFFICES ASSUME spoils' = {}, NEW j \in Measured PROVE FileInv(j)'
      BY DEF FilesInv, Measured
    <3>1. FileInv(j) /\ spoils = {}
      BY <2>2 DEF FilesInv, Work
    <3>2. k = attempt
      BY <1>3, <3>1, <2>2, OfThisAttempt DEF Work, Is
    <3>3. PICK state \in States \ {"reaped"} : Becomes(k, i, state)
      BY <2>2 DEF Work, States
    <3>4. j \in 1 .. 2 * Cpus
      BY DEF Measured
    <3>5. j # i => helper'[attempt][j] = helper[attempt][j]
      BY <1>3, <3>2, <3>3, <3>4, Moves
    <3>7. j # i => file'[j] = file[j]
      BY <2>2 DEF Work, HelperTypes
    <3>6. j = i => file'[j] = attempt
      BY <3>2, <2>2 DEF Work, HelperTypes
    <3> QED
      BY <3>1, <3>5, <3>6, <3>7, <2>2 DEF FileInv, Work
  <2>3. CASE WorkFails(k, i)
    <3>1. HelperInv(k, i)
      BY <1>3 DEF HelpersInv
    <3> QED
      BY <1>3, <3>1, <2>3, FilesKept
      DEF HelperInv, StatesOf, States, ParentInv, WorkFails, Is
  <2>4. CASE ChildFails(k, i)
    <3>1. HelperInv(k, i)
      BY <1>3 DEF HelpersInv
    <3> QED
      BY <1>3, <3>1, <2>4, FilesKept
      DEF HelperInv, StatesOf, States, ParentInv, ChildFails, Is
  <2>5. CASE ChildSilent(k, i)
    <3>1. HelperInv(k, i)
      BY <1>3 DEF HelpersInv
    <3> QED
      BY <1>3, <3>1, <2>5, FilesKept
      DEF HelperInv, StatesOf, States, ParentInv, ChildSilent, Is
  <2>6. CASE UncountItself(k, i)
    <3>1. HelperInv(k, i)
      BY <1>3 DEF HelpersInv
    <3> QED
      BY <1>3, <3>1, <2>6, FilesKept
      DEF HelperInv, StatesOf, States, ParentInv, UncountItself, Is
  <2>7. CASE Look(k, i)
    <3>1. HelperInv(k, i)
      BY <1>3 DEF HelpersInv
    <3> QED
      BY <1>3, <3>1, <2>7, FilesKept
      DEF HelperInv, StatesOf, States, ParentInv, Look, Is
  <2>8. CASE NotifyParent(k, i)
    <3>1. HelperInv(k, i)
      BY <1>3 DEF HelpersInv
    <3> QED
      BY <1>3, <3>1, <2>8, FilesKept
      DEF HelperInv, StatesOf, States, ParentInv, NotifyParent, Is, Wakes
  <2>9. CASE BeginUncount(k, i)
    <3>1. HelperInv(k, i)
      BY <1>3 DEF HelpersInv
    <3> QED
      BY <1>3, <3>1, <2>9, FilesKept
      DEF HelperInv, StatesOf, States, ParentInv, BeginUncount, Is
  <2>10. CASE EndUncount(k, i)
    <3>1. HelperInv(k, i) /\ kind = "workers"
      BY <1>3, <2>10, Counting DEF HelpersInv, EndUncount, Is
    <3>2. ppc' \in {ppc, "await"} /\ (spoils' = {} => spoils = {})
      BY <2>10 DEF EndUncount, Wakes
    <3> QED
      BY <1>3, <3>1, <3>2, <2>10, FilesKept DEF States, ParentInv, EndUncount, Is
  <2> QED
    BY <1>3, <2>1, <2>2, <2>3, <2>4, <2>5, <2>6, <2>7, <2>8, <2>9, <2>10 DEF
       Helper
<1>4. CASE UNCHANGED vars
  BY <1>4 DEF vars, FilesInv, FileInv
<1> QED
  BY <1>1, <1>2, <1>3, <1>4 DEF Next

-----------------------------------------------------------------------------
(* Initially nothing was started. *)
LEMMA InitIInv ==
  ASSUME Init PROVE IInv
<1> USE HelpersAssumption DEF HelpersAssumption
<1>1. helper \in [Attempts -> [1 .. 2 * Cpus -> States]]
  BY DEF Init, States
<1>2. file \in [Measured -> 0 .. Threshold] /\ scanned = file
  BY DEF Init, Nothing
<1>3. TypeOK
  <2>1. ParentTypes
    BY DEF Init, ParentTypes
  <2>2. HelperTypes
    BY <1>1, <1>2 DEF Init, HelperTypes
  <2> QED
    BY <2>1, <2>2 DEF TypeOK
<1>4. ParentInv
  BY DEF Init, ParentInv, First
<1>5. \A k \in Attempts, i \in 1 .. 2 * Cpus : helper[k][i] = "none"
  BY DEF Init
<1>6. HelpersInv
  BY <1>5 DEF Init, HelpersInv, HelperInv, StatesOf, Started, Attempts
<1>7. Out = {} /\ Cardinality(Out) = 0
  <2>1. Out = {}
    BY DEF Init, Out, Attempts
  <2> QED
    BY <2>1, FS_EmptySet
<1>8. CountsInv /\ SettledInv
  BY <1>7 DEF Init, CountsInv, SettledInv, Attempts
<1>9. ReadInv
  <2>1. Measured \subseteq 1 .. 2 * Cpus
    BY DEF Measured
  <2> QED
    BY <1>5, <2>1 DEF ReadInv, LockFree
<1>10. FilesInv
  BY DEF Init, FilesInv, FileInv, Nothing
<1> QED
  BY <1>3, <1>4, <1>6, <1>8, <1>9, <1>10 DEF IInv

(* What the parent waits for is what it counts, whatever the helpers do,    *)
(* and what it reads was left by those it has waited for.                   *)
THEOREM Invariance == Spec => []IInv
<1>1. IInv /\ [Next]_vars => IInv'
  BY ParentTypesStep, HelperTypesStep, ParentStep, HelpersStep, CountsStep,
     ReadStep, SettledStep, FilesStep DEF IInv, TypeOK
<1> QED
  BY <1>1, InitIInv, PTL DEF Spec

(* The variables keep their types; so childsToExit and the counters of the  *)
(* parents never go below zero, although a child of an earlier attempt can  *)
(* be reaped and an update of a counter can get lost.                       *)
THEOREM TypeCorrect == Spec => []TypeOK
<1>1. IInv => TypeOK
  BY DEF IInv
<1> QED
  BY <1>1, Invariance, PTL

(* The verdict is taken on times of its own attempt, with every child of it *)
(* reaped.                                                                  *)
THEOREM JudgedOnOwnResults == Spec => []OwnResults
<1>1. ASSUME IInv PROVE OwnResults
  <2> SUFFICES ASSUME ppc = "judge"
               PROVE  /\ kind = "processes" =>
                           \A i \in 1 .. 2 * Cpus : helper[attempt][i] = "reaped"
                      /\ spoils = {} => \A i \in Measured : scanned[i] = attempt
    BY DEF OwnResults
  <2> USE <1>1, HelpersAssumption DEF HelpersAssumption
  <2>1. attempt \in Attempts
    BY NextHelper DEF IInv, TypeOK
  <2>2. ASSUME kind = "processes", NEW i \in 1 .. 2 * Cpus
        PROVE  helper[attempt][i] = "reaped"
    <3>1. HelperInv(attempt, i)
      BY <2>1 DEF IInv, HelpersInv
    <3>2. helper[attempt][i] \notin Pending
      BY <2>1, <2>2 DEF IInv, SettledInv, Out
    <3>3. helper[attempt][i] # "none"
      BY <2>2, <3>1 DEF HelperInv, Started, First
    <3> QED
      BY <2>2, <3>1, <3>2, <3>3 DEF HelperInv, StatesOf, Pending
  <2>3. ASSUME spoils = {}, NEW i \in Measured PROVE scanned[i] = attempt
    <3>1. FileInv(i)
      BY <2>3 DEF IInv, FilesInv
    <3>2. i < next
      BY DEF IInv, TypeOK, ParentTypes, ParentInv, Measured
    <3> QED
      BY <3>1, <3>2 DEF FileInv
  <2> QED
    BY <2>2, <2>3
<1> QED
  BY <1>1, Invariance, PTL
==============================================================================
