--------------------------- MODULE StartGateProofs ---------------------------
(***************************************************************************)
(* Safety of the two tests that go through the start gate: multi_thread    *)
(* for every number of CPUs, iterations and attempts, thread_priority for  *)
(* every number of threads at each priority, in both ports, with spurious  *)
(* wakeups and clock failures.                                             *)
(***************************************************************************)
EXTENDS MultiThread, ThreadPriority, FiniteSetTheorems, TLAPS

-----------------------------------------------------------------------------
(* How one step of one thread changes the number of threads inside.        *)

(* The threads inside are finitely many, and at most all of the gated ones. *)
LEMMA InsideFinite ==
  /\ IsFiniteSet(Inside)
  /\ Cardinality(Inside) \in Nat
  /\ Cardinality(Gated) \in Nat
  /\ Cardinality(Inside) <= Cardinality(Gated)
  /\ Cardinality(Inside) = Cardinality(Gated) => Inside = Gated
  /\ Cardinality(Inside) = 0 <=> Inside = {}
<1>1. Inside \subseteq Gated
  BY DEF Inside
<1> QED
  BY <1>1, GateAssumption, FS_Subset, FS_CardinalityType, FS_EmptySet
  DEF GateAssumption

(* A gated thread that enters makes one more inside. *)
LEMMA Enter ==
  ASSUME NEW t \in Gated, NEW to \in InsidePC, tpc \in [Threads -> ThreadPC],
         tpc[t] \notin InsidePC, Goto(t, to)
  PROVE  Cardinality(Inside') = Cardinality(Inside) + 1
<1>1. Inside' = Inside \cup {t} /\ t \notin Inside
  BY DEF Inside, Goto, Threads
<1> QED
  BY <1>1, InsideFinite, FS_AddElement

(* A gated thread that leaves makes one fewer inside. *)
LEMMA Exit ==
  ASSUME NEW t \in Gated, NEW to \in ThreadPC \ InsidePC,
         tpc \in [Threads -> ThreadPC], tpc[t] \in InsidePC, Goto(t, to)
  PROVE  Cardinality(Inside') = Cardinality(Inside) - 1
<1>1. Inside' = Inside \ {t} /\ t \in Inside
  BY DEF Inside, Goto, Threads
<1> QED
  BY <1>1, InsideFinite, FS_RemoveElement

(* A thread that stays on its side of the gate changes nothing. *)
LEMMA Stay ==
  ASSUME NEW t \in Threads, NEW to \in ThreadPC,
         tpc \in [Threads -> ThreadPC],
         t \in Gated => (tpc[t] \in InsidePC <=> to \in InsidePC),
         Goto(t, to)
  PROVE  Inside' = Inside
BY DEF Inside, Goto, Threads

-----------------------------------------------------------------------------
(* The test starts in the inductive invariant. *)
LEMMA InitIInv == Init => IInv
<1> SUFFICES ASSUME Init PROVE IInv
  OBVIOUS
<1>1. Inside = {}
  BY DEF Init, Inside, InsidePC, Threads
<1>2. Cardinality(Inside) = 0
  BY <1>1, FS_EmptySet
<1>3. TypeOK
  <2>1. /\ env \in Envs /\ ppc \in ParentPC /\ alive \in BOOLEAN /\ ret \in BOOLEAN
    BY DEF Init, ParentPC
  <2>2. /\ counter \in Int /\ summary \in Nat /\ attempts \in 0 .. Threshold
    BY MultiThreadAssumption DEF Init, MultiThreadAssumption
  <2>3. /\ tpc \in [Threads -> ThreadPC]
        /\ iter \in [Threads -> Nat]
        /\ entries \in [Threads -> Nat]
    BY DEF Init, ThreadPC
  <2> QED
    BY <2>1, <2>2, <2>3 DEF Init, TypeOK
<1>4. MutexInv /\ JoinInv /\ CountInv
  BY <1>2, GateAssumption
  DEF Init, MutexInv, CountInv, JoinInv, GateAssumption, Threads
<1>5. PhaseInv
  BY MultiThreadAssumption DEF Init, PhaseInv, Threads, MultiThreadAssumption
<1> QED
  BY <1>3, <1>4, <1>5 DEF IInv

(* The sample run keeps the inductive invariant. *)
LEMMA SampleRunIInv ==
  ASSUME IInv, SampleRun
  PROVE  IInv'
<1>1. TypeOK'
  BY MultiThreadAssumption
  DEF IInv, TypeOK, SampleRun, resultVars, MultiThreadAssumption, ThreadPC,
        ParentPC
<1>2. Inside' = Inside
  BY DEF Inside, SampleRun, resultVars
<1>3. MutexInv'
  BY GateAssumption
  DEF IInv, TypeOK, MutexInv, SampleRun, resultVars, GateAssumption, Threads
<1>4. PhaseInv'
  BY GateAssumption, InsideFinite
  DEF IInv, TypeOK, MutexInv, PhaseInv, CountInv, SampleRun, resultVars,
        GateAssumption, Threads, Inside, InsidePC, ThreadPC, ParentPC
<1>5. CountInv'
  BY <1>2, InsideFinite, GateAssumption
  DEF IInv, TypeOK, PhaseInv, CountInv, SampleRun, resultVars, ParentPC,
        GateAssumption, Threads
<1>6. JoinInv'
  BY DEF IInv, TypeOK, JoinInv, PhaseInv, SampleRun, resultVars, Threads
<1> QED
  BY <1>1, <1>3, <1>4, <1>5, <1>6 DEF IInv

(* The start of an attempt keeps the inductive invariant. *)
LEMMA BeginAttemptIInv ==
  ASSUME IInv, BeginAttempt
  PROVE  IInv'
<1>1. TypeOK'
  BY MultiThreadAssumption
  DEF IInv, TypeOK, BeginAttempt, CounterAtStart, NoEntries,
        MultiThreadAssumption, ThreadPC, ParentPC
<1>2. Inside = {} /\ Inside' = {} /\ Cardinality({}) = 0
  BY FS_EmptySet DEF IInv, PhaseInv, Inside, InsidePC, Threads, BeginAttempt
<1>3. MutexInv'
  BY GateAssumption
  DEF IInv, TypeOK, PhaseInv, MutexInv, BeginAttempt, CounterAtStart,
        NoEntries, GateAssumption, Threads
<1>4. PhaseInv'
  BY GateAssumption, InsideFinite
  DEF IInv, TypeOK, MutexInv, PhaseInv, CountInv, BeginAttempt,
        CounterAtStart, NoEntries, GateAssumption, Threads, Inside, InsidePC,
        ThreadPC, ParentPC
<1>5. CountInv'
  BY <1>2, InsideFinite, GateAssumption
  DEF IInv, TypeOK, PhaseInv, CountInv, BeginAttempt, CounterAtStart,
        NoEntries, ParentPC, GateAssumption, Threads
<1>6. JoinInv'
  BY DEF IInv, TypeOK, JoinInv, PhaseInv, BeginAttempt, CounterAtStart,
        NoEntries, Threads
<1> QED
  BY <1>1, <1>3, <1>4, <1>5, <1>6 DEF IInv

(* Creating a gated worker keeps the inductive invariant. *)
LEMMA SpawnIInv ==
  ASSUME IInv, NEW t \in Threads, Spawn(t)
  PROVE  IInv'
<1>1. TypeOK'
  BY MultiThreadAssumption
  DEF IInv, TypeOK, Spawn, Goto, resultVars, attemptVars,
        MultiThreadAssumption, ThreadPC, ParentPC
<1>2. Inside' = Inside
  BY Stay
  DEF IInv, TypeOK, Spawn, Goto, resultVars, attemptVars, ThreadPC, InsidePC,
        Threads
<1>3. MutexInv'
  BY GateAssumption
  DEF IInv, TypeOK, MutexInv, Spawn, Goto, resultVars, attemptVars,
        GateAssumption, Threads
<1>4. PhaseInv'
  BY GateAssumption, InsideFinite
  DEF IInv, TypeOK, MutexInv, PhaseInv, CountInv, Spawn, Goto, resultVars,
        attemptVars, GateAssumption, Threads, Inside, InsidePC, ThreadPC,
        ParentPC
<1>5. CountInv'
  BY <1>2, InsideFinite, GateAssumption
  DEF IInv, TypeOK, PhaseInv, CountInv, Spawn, Goto, resultVars, attemptVars,
        ParentPC, GateAssumption, Threads
<1>6. JoinInv'
  BY DEF IInv, TypeOK, JoinInv, PhaseInv, Spawn, Goto, resultVars,
        attemptVars, Threads
<1> QED
  BY <1>1, <1>3, <1>4, <1>5, <1>6 DEF IInv

(* A read of the counter in the polling loop keeps the inductive invariant. *)
LEMMA PollCounterIInv ==
  ASSUME IInv, PollCounter, UNCHANGED << env, resultVars, attemptVars >>
  PROVE  IInv'
<1>1. TypeOK'
  BY MultiThreadAssumption
  DEF IInv, TypeOK, PollCounter, resultVars, attemptVars,
        MultiThreadAssumption, ThreadPC, ParentPC
<1>2. Inside' = Inside
  BY DEF Inside, PollCounter, resultVars, attemptVars
<1>3. MutexInv'
  BY GateAssumption
  DEF IInv, TypeOK, MutexInv, PollCounter, resultVars, attemptVars,
        GateAssumption, Threads
<1>4. PhaseInv'
  BY GateAssumption, InsideFinite
  DEF IInv, TypeOK, MutexInv, PhaseInv, CountInv, PollCounter, resultVars,
        attemptVars, GateAssumption, Threads, Inside, InsidePC, ThreadPC,
        ParentPC
<1>5. CountInv'
  BY <1>2, InsideFinite, GateAssumption
  DEF IInv, TypeOK, PhaseInv, CountInv, PollCounter, resultVars, attemptVars,
        ParentPC, GateAssumption, Threads
<1>6. JoinInv'
  BY DEF IInv, TypeOK, JoinInv, PhaseInv, PollCounter, resultVars,
        attemptVars, Threads
<1> QED
  BY <1>1, <1>3, <1>4, <1>5, <1>6 DEF IInv

(* The timed wait of the polling loop keeps the inductive invariant. *)
LEMMA PollWaitIInv ==
  ASSUME IInv, PollWait, UNCHANGED << env, resultVars, attemptVars >>
  PROVE  IInv'
<1>1. TypeOK'
  BY MultiThreadAssumption
  DEF IInv, TypeOK, PollWait, resultVars, attemptVars, MultiThreadAssumption,
        ThreadPC, ParentPC
<1>2. Inside' = Inside
  BY DEF Inside, PollWait, resultVars, attemptVars
<1>3. MutexInv'
  BY GateAssumption
  DEF IInv, TypeOK, MutexInv, PollWait, resultVars, attemptVars,
        GateAssumption, Threads
<1>4. PhaseInv'
  BY GateAssumption, InsideFinite
  DEF IInv, TypeOK, MutexInv, PhaseInv, CountInv, PollWait, resultVars,
        attemptVars, GateAssumption, Threads, Inside, InsidePC, ThreadPC,
        ParentPC
<1>5. CountInv'
  BY <1>2, InsideFinite, GateAssumption
  DEF IInv, TypeOK, PhaseInv, CountInv, PollWait, resultVars, attemptVars,
        ParentPC, GateAssumption, Threads
<1>6. JoinInv'
  BY DEF IInv, TypeOK, JoinInv, PhaseInv, PollWait, resultVars, attemptVars,
        Threads
<1> QED
  BY <1>1, <1>3, <1>4, <1>5, <1>6 DEF IInv

(* Going to sleep on parent_sema keeps the inductive invariant. *)
LEMMA ParkIInv ==
  ASSUME IInv, Park, UNCHANGED << env, resultVars, attemptVars >>
  PROVE  IInv'
<1>1. TypeOK'
  BY MultiThreadAssumption
  DEF IInv, TypeOK, Park, resultVars, attemptVars, MultiThreadAssumption,
        ThreadPC, ParentPC
<1>2. Inside' = Inside
  BY DEF Inside, Park, resultVars, attemptVars
<1>3. MutexInv'
  BY GateAssumption
  DEF IInv, TypeOK, MutexInv, Park, resultVars, attemptVars, GateAssumption,
        Threads
<1>4. PhaseInv'
  BY GateAssumption, InsideFinite
  DEF IInv, TypeOK, MutexInv, PhaseInv, CountInv, Park, resultVars,
        attemptVars, GateAssumption, Threads, Inside, InsidePC, ThreadPC,
        ParentPC
<1>5. CountInv'
  BY <1>2, InsideFinite, GateAssumption
  DEF IInv, TypeOK, PhaseInv, CountInv, Park, resultVars, attemptVars,
        ParentPC, GateAssumption, Threads
<1>6. JoinInv'
  BY DEF IInv, TypeOK, JoinInv, PhaseInv, Park, resultVars, attemptVars,
        Threads
<1> QED
  BY <1>1, <1>3, <1>4, <1>5, <1>6 DEF IInv

(* A spurious wakeup of the parent keeps the inductive invariant. *)
LEMMA ParentSpuriousWakeupIInv ==
  ASSUME IInv, ParentSpuriousWakeup, UNCHANGED << env, resultVars, attemptVars >>
  PROVE  IInv'
<1>1. TypeOK'
  BY MultiThreadAssumption
  DEF IInv, TypeOK, ParentSpuriousWakeup, resultVars, attemptVars,
        MultiThreadAssumption, ThreadPC, ParentPC
<1>2. Inside' = Inside
  BY DEF Inside, ParentSpuriousWakeup, resultVars, attemptVars
<1>3. MutexInv'
  BY GateAssumption
  DEF IInv, TypeOK, MutexInv, ParentSpuriousWakeup, resultVars, attemptVars,
        GateAssumption, Threads
<1>4. PhaseInv'
  BY GateAssumption, InsideFinite
  DEF IInv, TypeOK, MutexInv, PhaseInv, CountInv, ParentSpuriousWakeup,
        resultVars, attemptVars, GateAssumption, Threads, Inside, InsidePC,
        ThreadPC, ParentPC
<1>5. CountInv'
  BY <1>2, InsideFinite, GateAssumption
  DEF IInv, TypeOK, PhaseInv, CountInv, ParentSpuriousWakeup, resultVars,
        attemptVars, ParentPC, GateAssumption, Threads
<1>6. JoinInv'
  BY DEF IInv, TypeOK, JoinInv, PhaseInv, ParentSpuriousWakeup, resultVars,
        attemptVars, Threads
<1> QED
  BY <1>1, <1>3, <1>4, <1>5, <1>6 DEF IInv

(* A test of the counter in the waiting loop keeps the inductive invariant. *)
LEMMA DrainCheckIInv ==
  ASSUME IInv, NEW next \in {"joingated", "spawnlast"}, DrainCheck(next),
         UNCHANGED << env, resultVars, attemptVars >>
  PROVE  IInv'
<1>1. TypeOK'
  BY MultiThreadAssumption
  DEF IInv, TypeOK, DrainCheck, resultVars, attemptVars,
        MultiThreadAssumption, ThreadPC, ParentPC
<1>2. Inside' = Inside
  BY DEF Inside, DrainCheck, resultVars, attemptVars
<1>3. MutexInv'
  BY GateAssumption
  DEF IInv, TypeOK, MutexInv, DrainCheck, resultVars, attemptVars,
        GateAssumption, Threads
<1>4. PhaseInv'
  BY GateAssumption, InsideFinite
  DEF IInv, TypeOK, MutexInv, PhaseInv, CountInv, DrainCheck, resultVars,
        attemptVars, GateAssumption, Threads, Inside, InsidePC, ThreadPC,
        ParentPC
<1>5. CountInv'
  BY <1>2, InsideFinite, GateAssumption
  DEF IInv, TypeOK, PhaseInv, CountInv, DrainCheck, resultVars, attemptVars,
        ParentPC, GateAssumption, Threads
<1>6. JoinInv'
  BY DEF IInv, TypeOK, JoinInv, PhaseInv, DrainCheck, resultVars, attemptVars,
        Threads
<1> QED
  BY <1>1, <1>3, <1>4, <1>5, <1>6 DEF IInv

(* The broadcast keeps the inductive invariant. *)
LEMMA BroadcastIInv ==
  ASSUME IInv, Broadcast, UNCHANGED << env, resultVars, attemptVars >>
  PROVE  IInv'
<1>1. TypeOK'
  BY MultiThreadAssumption
  DEF IInv, TypeOK, Broadcast, resultVars, attemptVars, MultiThreadAssumption,
        ThreadPC, ParentPC
<1>2. Inside' = Inside
  BY DEF IInv, TypeOK, Inside, InsidePC, Broadcast, Threads
<1>3. MutexInv'
  BY GateAssumption
  DEF IInv, TypeOK, MutexInv, Broadcast, resultVars, attemptVars,
        GateAssumption, Threads
<1>4. PhaseInv'
  BY GateAssumption, InsideFinite
  DEF IInv, TypeOK, MutexInv, PhaseInv, CountInv, Broadcast, resultVars,
        attemptVars, GateAssumption, Threads, Inside, InsidePC, ThreadPC,
        ParentPC
<1>5. CountInv'
  BY <1>2, InsideFinite, GateAssumption
  DEF IInv, TypeOK, PhaseInv, CountInv, Broadcast, resultVars, attemptVars,
        ParentPC, GateAssumption, Threads
<1>6. JoinInv'
  BY DEF IInv, TypeOK, JoinInv, PhaseInv, Broadcast, resultVars, attemptVars,
        Threads
<1> QED
  BY <1>1, <1>3, <1>4, <1>5, <1>6 DEF IInv

(* The joins of the C++ port keeps the inductive invariant. *)
LEMMA JoinGatedIInv ==
  ASSUME IInv, JoinGated
  PROVE  IInv'
<1>1. TypeOK'
  BY MultiThreadAssumption
  DEF IInv, TypeOK, JoinGated, resultVars, attemptVars, MultiThreadAssumption,
        ThreadPC, ParentPC
<1>2. Inside' = Inside
  BY DEF Inside, JoinGated, resultVars, attemptVars
<1>3. MutexInv'
  BY GateAssumption
  DEF IInv, TypeOK, MutexInv, JoinGated, resultVars, attemptVars,
        GateAssumption, Threads
<1>4. PhaseInv'
  BY GateAssumption, InsideFinite
  DEF IInv, TypeOK, MutexInv, PhaseInv, CountInv, JoinGated, resultVars,
        attemptVars, GateAssumption, Threads, Inside, InsidePC, ThreadPC,
        ParentPC
<1>5. CountInv'
  BY <1>2, InsideFinite, GateAssumption
  DEF IInv, TypeOK, PhaseInv, CountInv, JoinGated, resultVars, attemptVars,
        ParentPC, GateAssumption, Threads
<1>6. JoinInv'
  BY DEF IInv, TypeOK, JoinInv, PhaseInv, JoinGated, resultVars, attemptVars,
        Threads
<1> QED
  BY <1>1, <1>3, <1>4, <1>5, <1>6 DEF IInv

(* Creating the last worker keeps the inductive invariant. *)
LEMMA SpawnLastIInv ==
  ASSUME IInv, NEW t \in Threads, SpawnLast(t)
  PROVE  IInv'
<1>1. TypeOK'
  BY MultiThreadAssumption
  DEF IInv, TypeOK, SpawnLast, Goto, resultVars, attemptVars,
        MultiThreadAssumption, ThreadPC, ParentPC
<1>2. Inside' = Inside
  BY Stay, GateAssumption
  DEF IInv, TypeOK, SpawnLast, ThreadPC, GateAssumption
<1>3. MutexInv'
  BY GateAssumption
  DEF IInv, TypeOK, PhaseInv, MutexInv, SpawnLast, Goto, resultVars,
        attemptVars, GateAssumption, Threads
<1>4. PhaseInv'
  BY GateAssumption, InsideFinite
  DEF IInv, TypeOK, MutexInv, PhaseInv, CountInv, SpawnLast, Goto, resultVars,
        attemptVars, GateAssumption, Threads, Inside, InsidePC, ThreadPC,
        ParentPC
<1>5. CountInv'
  BY <1>2, InsideFinite, GateAssumption
  DEF IInv, TypeOK, PhaseInv, CountInv, SpawnLast, Goto, resultVars,
        attemptVars, ParentPC, GateAssumption, Threads
<1>6. JoinInv'
  BY DEF IInv, TypeOK, JoinInv, PhaseInv, SpawnLast, Goto, resultVars,
        attemptVars, Threads
<1> QED
  BY <1>1, <1>3, <1>4, <1>5, <1>6 DEF IInv

(* Joining and checking a worker keeps the inductive invariant. *)
LEMMA JoinIInv ==
  ASSUME IInv, NEW t \in Threads, Join(t)
  PROVE  IInv'
<1>1. TypeOK'
  BY MultiThreadAssumption
  DEF IInv, TypeOK, Join, Check, gateVars, resultVars, MultiThreadAssumption,
        ThreadPC, ParentPC
<1>2. Inside' = Inside
  BY DEF Inside, Join, Check, gateVars, resultVars
<1>3. MutexInv'
  BY GateAssumption
  DEF IInv, TypeOK, MutexInv, Join, Check, gateVars, resultVars,
        GateAssumption, Threads
<1>4. PhaseInv'
  BY GateAssumption, InsideFinite
  DEF IInv, TypeOK, MutexInv, PhaseInv, CountInv, Join, Check, gateVars,
        resultVars, GateAssumption, Threads, Inside, InsidePC, ThreadPC,
        ParentPC
<1>5. CountInv'
  BY <1>2, InsideFinite, GateAssumption
  DEF IInv, TypeOK, PhaseInv, CountInv, Join, Check, gateVars, resultVars,
        ParentPC, GateAssumption, Threads
<1>6. JoinInv'
  BY DEF IInv, TypeOK, JoinInv, PhaseInv, Join, Check, gateVars, resultVars,
        Threads
<1> QED
  BY <1>1, <1>3, <1>4, <1>5, <1>6 DEF IInv

(* The end of an attempt keeps the inductive invariant. *)
LEMMA FinishAttemptIInv ==
  ASSUME IInv, FinishAttempt
  PROVE  IInv'
<1>1. attempts + 1 \in 0 .. Threshold
  BY MultiThreadAssumption
  DEF IInv, TypeOK, PhaseInv, FinishAttempt, MultiThreadAssumption
<1>2. TypeOK'
  <2>1. /\ attempts' \in 0 .. Threshold
        /\ entries' \in [Threads -> Nat]
        /\ summary' \in Nat
    BY <1>1 DEF IInv, TypeOK, FinishAttempt, EntriesAfterFailure, NoEntries
  <2>2. /\ ppc' \in ParentPC
        /\ published' \in {"none", "error", "pass", "fail", "scored"}
        /\ alive' \in BOOLEAN
    BY DEF IInv, TypeOK, FinishAttempt, Verdict, ParentPC
  <2> QED
    BY <2>1, <2>2 DEF IInv, TypeOK, FinishAttempt
<1>3. \A t \in Threads : tpc'[t] = "done"
  BY DEF IInv, JoinInv, FinishAttempt
<1>4. ppc' # "end" => attempts' < Threshold
  BY <1>1, MultiThreadAssumption DEF FinishAttempt, MultiThreadAssumption
<1>5. PhaseInv'
  <2>1. ppc' \in {"end", "attempt"} /\ alive' = FALSE
    BY DEF FinishAttempt
  <2> QED
    BY <2>1, <1>3, <1>4 DEF PhaseInv, Threads
<1>6. Inside' = Inside
  BY DEF Inside, FinishAttempt
<1>7. MutexInv' /\ JoinInv'
  BY DEF IInv, MutexInv, JoinInv, FinishAttempt
<1>8. CountInv'
  BY <1>6 DEF IInv, CountInv, FinishAttempt
<1> QED
  BY <1>2, <1>5, <1>7, <1>8 DEF IInv

(* A measurement keeps the inductive invariant. *)
LEMMA MeasureIInv ==
  ASSUME IInv, NEW t \in Threads, Measure(t)
  PROVE  IInv'
<1>1. TypeOK'
  BY MultiThreadAssumption
  DEF IInv, TypeOK, Measure, Goto, attemptVars, MultiThreadAssumption,
        ThreadPC, ParentPC
<1>2. Inside' = Inside
  BY Stay, MultiThreadAssumption
  DEF IInv, TypeOK, Measure, ThreadPC, InsidePC, MultiThreadAssumption
<1>3. MutexInv'
  BY GateAssumption
  DEF IInv, TypeOK, MutexInv, Measure, Goto, attemptVars, GateAssumption,
        Threads
<1>4. PhaseInv'
  BY GateAssumption, InsideFinite
  DEF IInv, TypeOK, MutexInv, PhaseInv, CountInv, Measure, Goto, attemptVars,
        GateAssumption, Threads, Inside, InsidePC, ThreadPC, ParentPC
<1>5. CountInv'
  BY <1>2, InsideFinite, GateAssumption
  DEF IInv, TypeOK, PhaseInv, CountInv, Measure, Goto, attemptVars, ParentPC,
        GateAssumption, Threads
<1>6. JoinInv'
  BY DEF IInv, TypeOK, JoinInv, PhaseInv, Measure, Goto, attemptVars, Threads
<1> QED
  BY <1>1, <1>3, <1>4, <1>5, <1>6 DEF IInv

(* A failure to read the clock keeps the inductive invariant. *)
LEMMA ClockFailureIInv ==
  ASSUME IInv, NEW t \in Threads, ClockFailure(t)
  PROVE  IInv'
<1>1. TypeOK'
  BY MultiThreadAssumption
  DEF IInv, TypeOK, ClockFailure, Goto, resultVars, attemptVars,
        MultiThreadAssumption, ThreadPC, ParentPC
<1>2. Inside' = Inside
  BY Stay DEF IInv, TypeOK, ClockFailure, ThreadPC, InsidePC
<1>3. MutexInv'
  BY GateAssumption
  DEF IInv, TypeOK, MutexInv, ClockFailure, Goto, resultVars, attemptVars,
        GateAssumption, Threads
<1>4. PhaseInv'
  BY GateAssumption, InsideFinite
  DEF IInv, TypeOK, MutexInv, PhaseInv, CountInv, ClockFailure, Goto,
        resultVars, attemptVars, GateAssumption, Threads, Inside, InsidePC,
        ThreadPC, ParentPC
<1>5. CountInv'
  BY <1>2, InsideFinite, GateAssumption
  DEF IInv, TypeOK, PhaseInv, CountInv, ClockFailure, Goto, resultVars,
        attemptVars, ParentPC, GateAssumption, Threads
<1>6. JoinInv'
  BY DEF IInv, TypeOK, JoinInv, PhaseInv, ClockFailure, Goto, resultVars,
        attemptVars, Threads
<1> QED
  BY <1>1, <1>3, <1>4, <1>5, <1>6 DEF IInv

(* Counting oneself in lock_inc_counter keeps the inductive invariant. *)
LEMMA IncCounterIInv ==
  ASSUME IInv, NEW t \in Threads, IncCounter(t),
         UNCHANGED << env, resultVars, attemptVars >>
  PROVE  IInv'
<1>1. TypeOK'
  BY MultiThreadAssumption
  DEF IInv, TypeOK, IncCounter, Goto, resultVars, attemptVars,
        MultiThreadAssumption, ThreadPC, ParentPC
<1>2. Cardinality(Inside') = Cardinality(Inside) + 1
  BY Enter DEF IInv, TypeOK, IncCounter, InsidePC
<1>3. MutexInv'
  BY GateAssumption
  DEF IInv, TypeOK, MutexInv, IncCounter, Goto, resultVars, attemptVars,
        GateAssumption, Threads
<1>4. PhaseInv'
  BY GateAssumption, InsideFinite
  DEF IInv, TypeOK, MutexInv, PhaseInv, CountInv, IncCounter, Goto,
        resultVars, attemptVars, GateAssumption, Threads, Inside, InsidePC,
        ThreadPC, ParentPC
<1>5. CountInv'
  BY <1>2, InsideFinite, GateAssumption
  DEF IInv, TypeOK, PhaseInv, CountInv, IncCounter, Goto, resultVars,
        attemptVars, ParentPC, GateAssumption, Threads
<1>6. JoinInv'
  BY DEF IInv, TypeOK, JoinInv, PhaseInv, IncCounter, Goto, resultVars,
        attemptVars, Threads
<1> QED
  BY <1>1, <1>3, <1>4, <1>5, <1>6 DEF IInv

(* Going to sleep in lock_inc_counter keeps the inductive invariant. *)
LEMMA WaitForStartIInv ==
  ASSUME IInv, NEW t \in Threads, WaitForStart(t),
         UNCHANGED << env, resultVars, attemptVars >>
  PROVE  IInv'
<1>1. TypeOK'
  BY MultiThreadAssumption
  DEF IInv, TypeOK, WaitForStart, Goto, resultVars, attemptVars,
        MultiThreadAssumption, ThreadPC, ParentPC
<1>2. Inside' = Inside
  BY Stay DEF IInv, TypeOK, WaitForStart, ThreadPC, InsidePC
<1>3. MutexInv'
  BY GateAssumption
  DEF IInv, TypeOK, MutexInv, WaitForStart, Goto, resultVars, attemptVars,
        GateAssumption, Threads
<1>4. PhaseInv'
  BY GateAssumption, InsideFinite
  DEF IInv, TypeOK, MutexInv, PhaseInv, CountInv, WaitForStart, Goto,
        resultVars, attemptVars, GateAssumption, Threads, Inside, InsidePC,
        ThreadPC, ParentPC
<1>5. CountInv'
  BY <1>2, InsideFinite, GateAssumption
  DEF IInv, TypeOK, PhaseInv, CountInv, WaitForStart, Goto, resultVars,
        attemptVars, ParentPC, GateAssumption, Threads
<1>6. JoinInv'
  BY DEF IInv, TypeOK, JoinInv, PhaseInv, WaitForStart, Goto, resultVars,
        attemptVars, Threads
<1> QED
  BY <1>1, <1>3, <1>4, <1>5, <1>6 DEF IInv

(* A spurious wakeup of a worker keeps the inductive invariant. *)
LEMMA SpuriousWakeupIInv ==
  ASSUME IInv, NEW t \in Threads, SpuriousWakeup(t),
         UNCHANGED << env, resultVars, attemptVars >>
  PROVE  IInv'
<1>1. TypeOK'
  BY MultiThreadAssumption
  DEF IInv, TypeOK, SpuriousWakeup, Goto, resultVars, attemptVars,
        MultiThreadAssumption, ThreadPC, ParentPC
<1>2. Inside' = Inside
  BY Stay DEF IInv, TypeOK, SpuriousWakeup, ThreadPC, InsidePC
<1>3. MutexInv'
  BY GateAssumption
  DEF IInv, TypeOK, MutexInv, SpuriousWakeup, Goto, resultVars, attemptVars,
        GateAssumption, Threads
<1>4. PhaseInv'
  BY GateAssumption, InsideFinite
  DEF IInv, TypeOK, MutexInv, PhaseInv, CountInv, SpuriousWakeup, Goto,
        resultVars, attemptVars, GateAssumption, Threads, Inside, InsidePC,
        ThreadPC, ParentPC
<1>5. CountInv'
  BY <1>2, InsideFinite, GateAssumption
  DEF IInv, TypeOK, PhaseInv, CountInv, SpuriousWakeup, Goto, resultVars,
        attemptVars, ParentPC, GateAssumption, Threads
<1>6. JoinInv'
  BY DEF IInv, TypeOK, JoinInv, PhaseInv, SpuriousWakeup, Goto, resultVars,
        attemptVars, Threads
<1> QED
  BY <1>1, <1>3, <1>4, <1>5, <1>6 DEF IInv

(* Leaving lock_inc_counter keeps the inductive invariant. *)
LEMMA PassGateIInv ==
  ASSUME IInv, NEW t \in Threads, PassGate(t),
         UNCHANGED << env, resultVars, attemptVars >>
  PROVE  IInv'
<1>1. TypeOK'
  BY MultiThreadAssumption
  DEF IInv, TypeOK, PassGate, Goto, resultVars, attemptVars,
        MultiThreadAssumption, ThreadPC, ParentPC
<1>2. Inside' = Inside
  BY Stay DEF IInv, TypeOK, PassGate, ThreadPC, InsidePC
<1>3. MutexInv'
  BY GateAssumption
  DEF IInv, TypeOK, MutexInv, PassGate, Goto, resultVars, attemptVars,
        GateAssumption, Threads
<1>4. PhaseInv'
  BY GateAssumption, InsideFinite
  DEF IInv, TypeOK, MutexInv, PhaseInv, CountInv, PassGate, Goto, resultVars,
        attemptVars, GateAssumption, Threads, Inside, InsidePC, ThreadPC,
        ParentPC
<1>5. CountInv'
  BY <1>2, InsideFinite, GateAssumption
  DEF IInv, TypeOK, PhaseInv, CountInv, PassGate, Goto, resultVars,
        attemptVars, ParentPC, GateAssumption, Threads
<1>6. JoinInv'
  BY DEF IInv, TypeOK, JoinInv, PhaseInv, PassGate, Goto, resultVars,
        attemptVars, Threads
<1> QED
  BY <1>1, <1>3, <1>4, <1>5, <1>6 DEF IInv

(* Starting the last worker keeps the inductive invariant. *)
LEMMA SkipGateIInv ==
  ASSUME IInv, NEW t \in Threads, SkipGate(t),
         UNCHANGED << env, resultVars, attemptVars >>
  PROVE  IInv'
<1>1. TypeOK'
  BY MultiThreadAssumption
  DEF IInv, TypeOK, SkipGate, Goto, resultVars, attemptVars,
        MultiThreadAssumption, ThreadPC, ParentPC
<1>2. Inside' = Inside
  BY Stay, GateAssumption DEF IInv, TypeOK, SkipGate, ThreadPC, GateAssumption
<1>3. MutexInv'
  BY GateAssumption
  DEF IInv, TypeOK, MutexInv, SkipGate, Goto, resultVars, attemptVars,
        GateAssumption, Threads
<1>4. PhaseInv'
  BY GateAssumption, InsideFinite
  DEF IInv, TypeOK, MutexInv, PhaseInv, CountInv, SkipGate, Goto, resultVars,
        attemptVars, GateAssumption, Threads, Inside, InsidePC, ThreadPC,
        ParentPC
<1>5. CountInv'
  BY <1>2, InsideFinite, GateAssumption
  DEF IInv, TypeOK, PhaseInv, CountInv, SkipGate, Goto, resultVars,
        attemptVars, ParentPC, GateAssumption, Threads
<1>6. JoinInv'
  BY DEF IInv, TypeOK, JoinInv, PhaseInv, SkipGate, Goto, resultVars,
        attemptVars, Threads
<1> QED
  BY <1>1, <1>3, <1>4, <1>5, <1>6 DEF IInv

(* Signalling the parent keeps the inductive invariant. *)
LEMMA SignalParentIInv ==
  ASSUME IInv, NEW t \in Threads, SignalParent(t),
         UNCHANGED << env, resultVars, attemptVars >>
  PROVE  IInv'
<1>1. TypeOK'
  BY MultiThreadAssumption
  DEF IInv, TypeOK, SignalParent, Goto, resultVars, attemptVars,
        MultiThreadAssumption, ThreadPC, ParentPC
<1>2. Inside' = Inside
  BY Stay DEF IInv, TypeOK, SignalParent, ThreadPC, InsidePC
<1>3. MutexInv'
  BY GateAssumption
  DEF IInv, TypeOK, MutexInv, SignalParent, Goto, resultVars, attemptVars,
        GateAssumption, Threads
<1>4. PhaseInv'
  BY GateAssumption, InsideFinite
  DEF IInv, TypeOK, MutexInv, PhaseInv, CountInv, SignalParent, Goto,
        resultVars, attemptVars, GateAssumption, Threads, Inside, InsidePC,
        ThreadPC, ParentPC
<1>5. CountInv'
  BY <1>2, InsideFinite, GateAssumption
  DEF IInv, TypeOK, PhaseInv, CountInv, SignalParent, Goto, resultVars,
        attemptVars, ParentPC, GateAssumption, Threads
<1>6. JoinInv'
  BY DEF IInv, TypeOK, JoinInv, PhaseInv, SignalParent, Goto, resultVars,
        attemptVars, Threads
<1> QED
  BY <1>1, <1>3, <1>4, <1>5, <1>6 DEF IInv

(* lock_dec_counter keeps the inductive invariant. *)
LEMMA DecCounterIInv ==
  ASSUME IInv, NEW t \in Threads, DecCounter(t),
         UNCHANGED << env, resultVars, attemptVars >>
  PROVE  IInv'
<1>1. TypeOK'
  BY MultiThreadAssumption
  DEF IInv, TypeOK, DecCounter, Goto, resultVars, attemptVars,
        MultiThreadAssumption, ThreadPC, ParentPC
<1>2. /\ t \in Gated => Cardinality(Inside') = Cardinality(Inside) - 1
      /\ t \notin Gated => Inside' = Inside /\ Inside = {} /\ counter <= 0
  <2>1. CASE t \in Gated
    BY <2>1, Exit, GateAssumption
    DEF IInv, TypeOK, DecCounter, ThreadPC, InsidePC, GateAssumption
  <2>2. CASE t \notin Gated
    <3>1. Inside' = Inside
      BY <2>2, Stay DEF IInv, TypeOK, DecCounter, ThreadPC, Threads
    <3>2. ppc = "join"
      BY <2>2 DEF IInv, PhaseInv, TypeOK, ParentPC, DecCounter, Threads
    <3>3. Inside = {}
      BY <3>2 DEF IInv, PhaseInv, Inside, InsidePC
    <3> QED
      BY <2>2, <3>1, <3>3, InsideFinite DEF IInv, CountInv
  <2> QED
    BY <2>1, <2>2
<1>3. MutexInv'
  BY GateAssumption
  DEF IInv, TypeOK, MutexInv, DecCounter, Goto, resultVars, attemptVars,
        GateAssumption, Threads
<1>4. PhaseInv'
  BY GateAssumption, InsideFinite
  DEF IInv, TypeOK, MutexInv, PhaseInv, CountInv, DecCounter, Goto,
        resultVars, attemptVars, GateAssumption, Threads, Inside, InsidePC,
        ThreadPC, ParentPC
<1>5. CountInv'
  BY <1>2, InsideFinite, GateAssumption
  DEF IInv, TypeOK, PhaseInv, CountInv, DecCounter, Goto, resultVars,
        attemptVars, ParentPC, GateAssumption, Threads
<1>6. JoinInv'
  BY DEF IInv, TypeOK, JoinInv, PhaseInv, DecCounter, Goto, resultVars,
        attemptVars, Threads
<1> QED
  BY <1>1, <1>3, <1>4, <1>5, <1>6 DEF IInv

-----------------------------------------------------------------------------
(* Every step keeps the inductive invariant: one named step per action.    *)
LEMMA NextIInv == IInv /\ [Next]_vars => IInv'
<1> SUFFICES ASSUME IInv, [Next]_vars PROVE IInv'
  OBVIOUS
<1>1. CASE UNCHANGED vars
  <2>1. Inside' = Inside
    BY <1>1 DEF vars, gateVars, Inside
  <2> QED
    BY <1>1, <2>1
    DEF IInv, TypeOK, MutexInv, PhaseInv, CountInv, JoinInv, vars, gateVars
<1>2. CASE SampleRun \/ BeginAttempt \/ JoinGated \/ FinishAttempt
  BY <1>2, SampleRunIInv, BeginAttemptIInv, JoinGatedIInv, FinishAttemptIInv
<1>3. CASE ParentGate
  BY <1>3, PollCounterIInv, PollWaitIInv, BroadcastIInv, DrainCheckIInv,
     ParkIInv, ParentSpuriousWakeupIInv
  DEF ParentGate
<1>4. ASSUME NEW t \in Threads, Spawn(t) \/ SpawnLast(t) \/ Join(t)
      PROVE  IInv'
  BY <1>4, SpawnIInv, SpawnLastIInv, JoinIInv
<1>5. ASSUME NEW t \in Threads, Measure(t) \/ ClockFailure(t)
      PROVE  IInv'
  BY <1>5, MeasureIInv, ClockFailureIInv
<1>6. ASSUME NEW t \in Threads, WorkerGate(t)
      PROVE  IInv'
  BY <1>6, IncCounterIInv, WaitForStartIInv, SpuriousWakeupIInv, PassGateIInv,
     SkipGateIInv, DecCounterIInv, SignalParentIInv
  DEF WorkerGate
<1> QED
  BY <1>1, <1>2, <1>3, <1>4, <1>5, <1>6 DEF Next, Parent, Worker

(* The invariant holds in every reachable state, for every set of CPUs.    *)
THEOREM Invariance == Spec => []IInv
BY InitIInv, NextIInv, PTL DEF Spec

(* Type correctness of the whole test.                                     *)
THEOREM TypeCorrect == Spec => []TypeOK
<1>1. IInv => TypeOK
  BY DEF IInv
<1> QED
  BY <1>1, Invariance, PTL

(* No thread is left asleep in lock_inc_counter after the broadcast.       *)
THEOREM BroadcastReaches == Spec => []BroadcastReachesAll
<1>1. IInv => BroadcastReachesAll
  BY DEF IInv, PhaseInv, BroadcastReachesAll, Threads
<1> QED
  BY <1>1, Invariance, PTL

(* The reference measurement of the last thread is never disturbed.        *)
THEOREM LastAlone == Spec => []LastRunsAlone
<1>1. IInv => LastRunsAlone
  BY DEF IInv, TypeOK, PhaseInv, ParentPC, LastRunsAlone, Threads
<1> QED
  BY <1>1, Invariance, PTL

(* Nobody uses a mutex or a condition variable that cleanup has destroyed. *)
THEOREM Teardown == Spec => []SafeTeardown
<1>1. IInv => SafeTeardown
  BY DEF IInv, TypeOK, PhaseInv, ParentPC, SafeTeardown, Threads
<1> QED
  BY <1>1, Invariance, PTL

(* The counter is exact as long as the clock can be read.                  *)
THEOREM CounterExact == Spec => []CounterCountsInside
<1>1. IInv => CounterCountsInside
  BY DEF IInv, CountInv, CounterCountsInside
<1> QED
  BY <1>1, Invariance, PTL
-----------------------------------------------------------------------------
(* The entries, on top of the inductive invariant.                         *)

(* Every step keeps the entries in line with the loops of the threads. *)
LEMMA MeasuredStep ==
  ASSUME IInv, MeasuredInv, [Next]_vars
  PROVE  MeasuredInv'
<1> USE MultiThreadAssumption
    DEF MultiThreadAssumption, MeasuredInv, PhaseInv
<1> /\ PhaseInv /\ JoinInv
    /\ env \in Envs /\ ppc \in ParentPC
    /\ tpc \in [Threads -> ThreadPC]
    /\ iter \in [Threads -> Nat] /\ entries \in [Threads -> Nat]
    /\ joined \subseteq Threads
  BY DEF IInv, TypeOK
<1>1. CASE UNCHANGED vars
  BY <1>1 DEF vars, gateVars, resultVars, attemptVars
<1>2. CASE SampleRun
  BY <1>2 DEF SampleRun, resultVars
<1>3. CASE BeginAttempt
  <2>1. ~env.clockfail => \A t \in Threads : entries'[t] = 0
    <3>1. env.port \in {"c", "cpp"}
      BY DEF Envs
    <3> QED
      BY <1>3, <3>1 DEF BeginAttempt, NoEntries
  <2>2. \A t \in Threads : tpc'[t] = "none" /\ iter'[t] = 0
    BY <1>3 DEF BeginAttempt, NoEntries
  <2>3. published \notin {"pass", "scored"} \/ env.clockfail
    BY <1>3 DEF BeginAttempt
  <2>4. ppc' = "spawn" /\ UNCHANGED << env, published >>
    BY <1>3 DEF BeginAttempt
  <2> QED
    BY <2>1, <2>2, <2>3, <2>4
<1>4. CASE JoinGated
  BY <1>4 DEF JoinGated, resultVars, attemptVars
<1>5. CASE FinishAttempt
  BY <1>5 DEF FinishAttempt, EntriesAfterFailure, NoEntries, Verdict, JoinInv
<1>6. CASE ParentGate
  BY <1>6 DEF ParentGate, PollCounter, PollWait, Broadcast, DrainCheck, Park,
      ParentSpuriousWakeup, resultVars, attemptVars
<1>7. ASSUME NEW t \in Threads, Spawn(t)
      PROVE  MeasuredInv'
  BY <1>7 DEF Spawn, Goto, resultVars, attemptVars
<1>8. ASSUME NEW t \in Threads, SpawnLast(t)
      PROVE  MeasuredInv'
  BY <1>8 DEF SpawnLast, Goto, resultVars, attemptVars
<1>9. ASSUME NEW t \in Threads, Join(t)
      PROVE  MeasuredInv'
  BY <1>9 DEF Join, Check, gateVars, resultVars
<1>10. ASSUME NEW t \in Threads, Measure(t)
       PROVE  MeasuredInv'
  BY <1>10 DEF Measure, Goto, attemptVars
<1>11. ASSUME NEW t \in Threads, ClockFailure(t)
       PROVE  MeasuredInv'
  BY <1>11 DEF ClockFailure
<1>12. ASSUME NEW t \in Threads, WorkerGate(t)
       PROVE  MeasuredInv'
  BY <1>12 DEF WorkerGate, IncCounter, WaitForStart, SpuriousWakeup, PassGate,
      SkipGate, DecCounter, SignalParent, Goto, resultVars, attemptVars
<1> QED
  BY <1>1, <1>2, <1>3, <1>4, <1>5, <1>6, <1>7, <1>8, <1>9, <1>10, <1>11, <1>12
  DEF Next, Parent, Worker

(* A test that passes has measured every iteration of every thread. *)
THEOREM PassIsMeasured == Spec => []PassMeansMeasured
<1>1. Init => MeasuredInv
  BY DEF Init, MeasuredInv
<1>2. MeasuredInv => PassMeansMeasured
  BY DEF MeasuredInv, PassMeansMeasured
<1> QED
  BY <1>1, <1>2, MeasuredStep, Invariance, PTL DEF Spec

-----------------------------------------------------------------------------
(* Nothing blocks the test but the lost wakeup.                            *)

LEMMA SpawnStep ==
  ASSUME IInv, SpawnInv, [Next]_vars
  PROVE  SpawnInv'
<1> USE MultiThreadAssumption, GateAssumption
    DEF MultiThreadAssumption, GateAssumption, SpawnInv
<1> tpc \in [Threads -> ThreadPC]
  BY DEF IInv, TypeOK
<1>1. CASE UNCHANGED vars
  BY <1>1 DEF vars, gateVars
<1>2. CASE SampleRun
  BY <1>2 DEF SampleRun
<1>3. CASE BeginAttempt
  BY <1>3 DEF BeginAttempt, Threads
<1>4. CASE JoinGated
  BY <1>4 DEF JoinGated
<1>5. CASE FinishAttempt
  BY <1>5 DEF FinishAttempt
<1>6. CASE ParentGate
  BY <1>6 DEF ParentGate, PollCounter, PollWait, Broadcast, DrainCheck, Park,
      ParentSpuriousWakeup, Threads
<1>7. ASSUME NEW t \in Threads, Spawn(t)
      PROVE  SpawnInv'
  BY <1>7 DEF Spawn, Goto, Threads
<1>8. ASSUME NEW t \in Threads, SpawnLast(t)
      PROVE  SpawnInv'
  BY <1>8 DEF SpawnLast, Goto, Threads
<1>9. ASSUME NEW t \in Threads, Join(t)
      PROVE  SpawnInv'
  BY <1>9 DEF Join, Check, gateVars
<1>10. ASSUME NEW t \in Threads, Worker(t)
       PROVE  SpawnInv'
  <2>1. PICK to : to # "none" /\ tpc[t] # "none" /\ Goto(t, to)
    BY <1>10 DEF Worker, Measure, ClockFailure, WorkerGate, IncCounter, WaitForStart,
       SpuriousWakeup, PassGate, SkipGate, DecCounter, SignalParent, Goto
  <2>2. ppc' = ppc \/ ppc' = "drain"
    BY <1>10 DEF Worker, Measure, ClockFailure, WorkerGate, IncCounter, WaitForStart,
       SpuriousWakeup, PassGate, SkipGate, DecCounter, SignalParent
  <2> QED
    BY <2>1, <2>2 DEF Goto, Threads
<1> QED
  BY <1>1, <1>2, <1>3, <1>4, <1>5, <1>6, <1>7, <1>8, <1>9, <1>10 DEF Next, Parent

(* Whoever owns tsyncers->mutex can go on and let it go. *)
LEMMA OwnerGoesOn ==
  ASSUME IInv, \A t \in Threads : WorkerBlocked(t)
  PROVE  tmutex = Nobody
<1>1. tmutex \in Threads \cup {Nobody} /\ MutexInv
  BY DEF IInv, TypeOK
<1>2. \A t \in Threads : tpc[t] \notin {"counted", "signal"}
  BY DEF WorkerBlocked
<1> QED
  BY <1>1, <1>2 DEF MutexInv

(* All threads wait in no state but the end and the lost wakeup.           *)
THEOREM OnlyTheWakeup == Spec => []OnlyLostWakeupBlocks
<1>1. Init => SpawnInv
  BY DEF Init, SpawnInv
<1>2. ASSUME IInv, SpawnInv, Blocked PROVE ppc = "end" \/ LostWakeup
  <2>1. tmutex = Nobody /\ ParentBlocked
    BY <1>2, OwnerGoesOn DEF Blocked
  <2>2. \A t \in Threads : tpc[t] \in {"none", "done"} \/ (tpc[t] = "waiting" /\ ~env.spurious)
    BY <1>2, <2>1 DEF Blocked, WorkerBlocked
  <2>3. PhaseInv /\ CountInv /\ JoinInv /\ joined \subseteq Threads
    BY <1>2 DEF IInv, TypeOK
  <2>4. Gated \subseteq Threads /\ Solo \subseteq Threads /\ Threads = Gated \cup Solo
    BY DEF Threads
  <2>5. CASE ppc \in {"attempt", "spawn", "broadcast"}
    BY <1>2, <2>1, <2>3, <2>5, MultiThreadAssumption
    DEF PhaseInv, SpawnInv, ParentBlocked, MultiThreadAssumption
  <2>6. CASE ppc = "parked"
    <3>1. \A t \in Gated : tpc[t] = "done"
      BY <2>2, <2>3, <2>4, <2>6 DEF PhaseInv
    <3>2. Inside = {}
      BY <3>1 DEF Inside, InsidePC
    <3>3. Cardinality(Inside) = 0
      BY <3>2, FS_EmptySet
    <3> QED
      BY <2>3, <2>6, <3>1, <3>3 DEF CountInv, LostWakeup
  <2>7. CASE ppc \in {"joingated", "join"}
    <3>1. \A t \in Gated : tpc[t] = "done"
      BY <2>2, <2>3, <2>4, <2>7 DEF PhaseInv
    <3>2. ppc = "join" => \A s \in Solo : tpc[s] = "done"
      BY <1>2, <2>2, <2>3, <2>4 DEF PhaseInv, SpawnInv
    <3> QED
      BY <2>1, <2>3, <2>4, <2>7, <3>1, <3>2 DEF ParentBlocked
  <2> QED
    BY <2>1, <2>5, <2>6, <2>7 DEF ParentBlocked
<1>3. IInv /\ SpawnInv => OnlyLostWakeupBlocks
  BY <1>2 DEF OnlyLostWakeupBlocks
<1> QED
  BY <1>1, <1>3, SpawnStep, Invariance, PTL DEF Spec

-----------------------------------------------------------------------------
(* Facts about the threads that have stopped.                              *)

(* The threads that have stopped are finitely many. *)
LEMMA StoppedFinite == IsFiniteSet(Stopped)
<1>1. Stopped \subseteq Gated
  BY DEF Stopped
<1> QED
  BY <1>1, GateAssumption, FS_Subset DEF GateAssumption

(* A stop time that is recorded comes after all the others: it is the last *)
(* of its priority, and the first one if there was none.                   *)
LEMMA AppendStop ==
  ASSUME PriorityTypeOK, NEW q \in Priorities, stops' = Append(stops, q), NEW p
  PROVE  /\ stops' \in Seq(Priorities)
         /\ Len(stops') = Len(stops) + 1
         /\ StopsOf(p)' = IF p = q THEN StopsOf(p) \cup {Len(stops) + 1}
                          ELSE StopsOf(p)
         /\ StopsOf(p) \subseteq 1 .. Len(stops)
         /\ Len(stops) \in Nat
<1>1. stops \in Seq(Priorities)
  BY DEF PriorityTypeOK
<1>2. /\ stops' \in Seq(Priorities)
      /\ Len(stops') = Len(stops) + 1
      /\ Len(stops) \in Nat
      /\ DOMAIN stops = 1 .. Len(stops)
      /\ DOMAIN stops' = 1 .. Len(stops) + 1
      /\ \A i \in 1 .. Len(stops) : stops'[i] = stops[i]
      /\ stops'[Len(stops) + 1] = q
  BY <1>1
<1>3. /\ StopsOf(p) = {i \in 1 .. Len(stops) : stops[i] = p}
      /\ StopsOf(p)' = {i \in 1 .. Len(stops) + 1 : stops'[i] = p}
  BY <1>2 DEF StopsOf
<1> QED
  BY <1>2, <1>3

(* The first and the last stop time of a priority that has one are stop    *)
(* times of it.                                                            *)
LEMMA Extremes ==
  ASSUME PriorityIInv, NEW p \in Priorities, StopsOf(p) # {}
  PROVE  /\ First(p) \in StopsOf(p)
         /\ Last(p) \in StopsOf(p)
         /\ \A i \in StopsOf(p) : First(p) <= i /\ i <= Last(p)
<1>1. StopsOf(p) \subseteq Nat
  BY DEF PriorityIInv, PriorityTypeOK, StopsOf
<1>2. PICK i \in StopsOf(p) : \A j \in StopsOf(p) : i <= j
  BY DEF PriorityIInv, ExtremeInv
<1>3. PICK k \in StopsOf(p) : \A j \in StopsOf(p) : k >= j
  BY DEF PriorityIInv, ExtremeInv
<1>4. First(p) \in StopsOf(p) /\ \A j \in StopsOf(p) : First(p) <= j
  BY <1>2 DEF First
<1>5. Last(p) \in StopsOf(p) /\ \A j \in StopsOf(p) : Last(p) >= j
  BY <1>3 DEF Last
<1> QED
  BY <1>1, <1>4, <1>5

(* The judgement of either port: when every priority has a stop time, a    *)
(* verdict other than pass means that some thread stopped before one of a  *)
(* higher priority.                                                        *)
LEMMA JudgeSound ==
  ASSUME PriorityIInv, \A p \in Priorities : StopsOf(p) # {}
  PROVE  /\ ~PassC => Inversion
         /\ ~PassCpp => Inversion
<1>1. \A p \in Priorities :
        /\ First(p) \in StopsOf(p)
        /\ Last(p) \in StopsOf(p)
        /\ \A i \in StopsOf(p) : First(p) <= i /\ i <= Last(p)
  BY Extremes
<1>2. \A p \in Priorities : \A i \in StopsOf(p) :
        i \in DOMAIN stops /\ i \in Nat /\ stops[i] = p
  BY DEF PriorityIInv, PriorityTypeOK, StopsOf
<1>3. ASSUME NEW p \in Priorities, NEW q \in Priorities, p > q,
             NEW i \in StopsOf(q), NEW j \in StopsOf(p), i < j
      PROVE  Inversion
  BY <1>2, <1>3 DEF Inversion, Priorities
<1>4. ASSUME ~PassC PROVE Inversion
  <2>1. MED_PRIORITY \in Priorities /\ LOW_PRIORITY \in Priorities
        /\ MED_PRIORITY > LOW_PRIORITY
    BY DEF Priorities, MED_PRIORITY, LOW_PRIORITY
  <2>2. ~(Last(MED_PRIORITY) < First(LOW_PRIORITY))
    BY <1>4 DEF PassC
  <2>3. First(LOW_PRIORITY) # Last(MED_PRIORITY)
    BY <1>1, <1>2, <2>1 DEF MED_PRIORITY, LOW_PRIORITY
  <2>4. First(LOW_PRIORITY) < Last(MED_PRIORITY)
    BY <1>1, <1>2, <2>1, <2>2, <2>3
  <2> QED
    BY <1>1, <1>3, <2>1, <2>4
<1>5. ASSUME ~PassCpp PROVE Inversion
  <2>1. PICK p \in Priorities, q \in Priorities :
          p > q /\ (First(p) > First(q) \/ Last(p) > Last(q))
    BY <1>5 DEF PassCpp
  <2>2. CASE First(p) > First(q)
    <3>1. First(q) < First(p)
      BY <1>1, <1>2, <2>2
    <3> QED
      BY <1>1, <1>3, <2>1, <3>1
  <2>3. CASE Last(p) > Last(q)
    <3>1. Last(q) < Last(p)
      BY <1>1, <1>2, <2>3
    <3> QED
      BY <1>1, <1>3, <2>1, <3>1
  <2> QED
    BY <2>1, <2>2, <2>3
<1> QED
  BY <1>4, <1>5

-----------------------------------------------------------------------------
(* What the steps have in common.                                          *)

(* An exact counter is in its range. *)
LEMMA CounterRange ==
  ASSUME PriorityCountInv'
  PROVE  counter' \in 0 .. Cardinality(Gated)
<1>1. Inside' \subseteq Gated
  BY DEF Inside
<1>2. /\ Cardinality(Inside') \in Nat
      /\ Cardinality(Gated) \in Nat
      /\ Cardinality(Inside') <= Cardinality(Gated)
  BY <1>1, GateAssumption, FS_Subset, FS_CardinalityType DEF GateAssumption
<1> QED
  BY <1>2 DEF PriorityCountInv

(* A step in which nobody stops keeps what the results say. *)
LEMMA NobodyStops ==
  ASSUME PriorityIInv, UNCHANGED << env, stops >>, Stopped' = Stopped
  PROVE  StopInv' /\ ExtremeInv'
<1>1. \A p : StopsOf(p)' = StopsOf(p)
  BY DEF StopsOf
<1> QED
  BY <1>1 DEF PriorityIInv, StopInv, ExtremeInv

(* Before the verdict nothing is published. *)
LEMMA BeforeVerdict ==
  ASSUME PriorityIInv, UNCHANGED reported,
         ppc \notin {"verdict", "end"}, ppc' \notin {"verdict", "end"}
  PROVE  EndInv'
<1>1. reported = "none"
  BY DEF PriorityIInv, EndInv
<1> QED
  BY <1>1 DEF EndInv, FailMeansInversion

(* While a thread still runs the parent is before the verdict. *)
LEMMA StillRunning ==
  ASSUME PriorityIInv, NEW t \in Gated, tpc[t] # "done"
  PROVE  ppc \notin {"verdict", "end"}
BY DEF PriorityIInv, EndInv

(* A thread that moves between two places on the same side of its stop.    *)
LEMMA NoStop ==
  ASSUME PriorityIInv, NEW t \in Gated, NEW to \in ThreadPC, Goto(t, to),
         tpc[t] \in {"leave", "signal", "done"} <=> to \in {"leave", "signal", "done"}
  PROVE  Stopped' = Stopped
<1>1. tpc \in [Threads -> ThreadPC]
  BY DEF PriorityIInv, PriorityTypeOK
<1> QED
  BY <1>1 DEF Stopped, Goto

-----------------------------------------------------------------------------
(* The test starts in the inductive invariant. *)
LEMMA PriorityInitIInv == PriorityInit => PriorityIInv
<1> SUFFICES ASSUME PriorityInit PROVE PriorityIInv
  OBVIOUS
<1>1. Inside = {} /\ Stopped = {} /\ Cardinality({}) = 0
  BY FS_EmptySet DEF PriorityInit, Inside, InsidePC, Stopped, Threads
<1>2. PriorityCountInv
  BY <1>1 DEF PriorityInit, PriorityCountInv
<1>3. PriorityTypeOK
  <2>1. counter \in 0 .. Cardinality(Gated)
    BY InsideFinite DEF PriorityInit
  <2>2. stops \in Seq(Priorities)
    BY DEF PriorityInit
  <2> QED
    BY <2>1, <2>2 DEF PriorityInit, PriorityTypeOK, ThreadPC, PriorityParentPC
<1>4. \A p : StopsOf(p) = {}
  BY DEF PriorityInit, StopsOf
<1>5. StopInv /\ ExtremeInv
  BY <1>1, <1>4 DEF PriorityInit, StopInv, ExtremeInv
<1>6. EndInv
  BY DEF PriorityInit, EndInv, FailMeansInversion
<1> QED
  BY <1>2, <1>3, <1>5, <1>6 DEF PriorityIInv

-----------------------------------------------------------------------------
(* The steps of the parent.                                                *)

(* A step of the parent that moves no thread keeps all but the verdict. *)
LEMMA ParentMoves ==
  ASSUME PriorityIInv, UNCHANGED << counter, tmutex, tpc, env, stops >>,
         ppc' \in PriorityParentPC, reported' \in {"none", "pass", "fail"}
  PROVE  PriorityTypeOK' /\ PriorityCountInv' /\ StopInv' /\ ExtremeInv'
<1>1. PriorityTypeOK'
  BY DEF PriorityIInv, PriorityTypeOK
<1>2. Inside' = Inside /\ Stopped' = Stopped
  BY DEF Inside, Stopped
<1>3. PriorityCountInv'
  BY <1>2 DEF PriorityIInv, PriorityCountInv
<1> QED
  BY <1>1, <1>2, <1>3, NobodyStops

(* Creating a thread keeps the inductive invariant. *)
LEMMA CreateStep ==
  ASSUME PriorityIInv, NEW t \in Gated, Create(t)
  PROVE  PriorityIInv'
<1>1. tpc \in [Threads -> ThreadPC] /\ tpc[t] = "none" /\ Goto(t, "new")
  BY DEF PriorityIInv, PriorityTypeOK, Create
<1>2. Inside' = Inside
  BY <1>1, Stay DEF ThreadPC, InsidePC, Threads
<1>3. Stopped' = Stopped
  BY <1>1, NoStop DEF ThreadPC
<1>4. PriorityTypeOK'
  BY DEF PriorityIInv, PriorityTypeOK, Create, Goto, ThreadPC, PriorityParentPC
<1>5. PriorityCountInv'
  BY <1>2 DEF PriorityIInv, PriorityCountInv, Create
<1>6. StopInv' /\ ExtremeInv'
  BY <1>3, NobodyStops DEF Create
<1>7. EndInv'
  BY BeforeVerdict DEF Create
<1> QED
  BY <1>4, <1>5, <1>6, <1>7 DEF PriorityIInv

(* The broadcast keeps the inductive invariant. *)
LEMMA BroadcastStep ==
  ASSUME PriorityIInv, Broadcast, UNCHANGED << env, stops, reported >>
  PROVE  PriorityIInv'
<1>1. tpc \in [Threads -> ThreadPC]
  BY DEF PriorityIInv, PriorityTypeOK
<1>2. Inside' = Inside
  BY <1>1 DEF Inside, InsidePC, Broadcast, Threads
<1>3. Stopped' = Stopped
  BY <1>1 DEF Stopped, Broadcast, Threads
<1>4. PriorityTypeOK'
  BY DEF PriorityIInv, PriorityTypeOK, Broadcast, ThreadPC, PriorityParentPC
<1>5. PriorityCountInv'
  BY <1>2 DEF PriorityIInv, PriorityCountInv, Broadcast
<1>6. StopInv' /\ ExtremeInv'
  BY <1>3, NobodyStops
<1>7. EndInv'
  BY BeforeVerdict DEF Broadcast
<1> QED
  BY <1>4, <1>5, <1>6, <1>7 DEF PriorityIInv

(* The other steps of the parent through the gate keep the invariant. *)
LEMMA ParentGateStep == ASSUME PriorityIInv, PriorityParentGate PROVE PriorityIInv'
<1>1. CASE Broadcast
  BY <1>1, BroadcastStep DEF PriorityParentGate
<1>2. CASE PollCounter \/ PollWait \/ DrainCheck("join") \/ Park
             \/ ParentSpuriousWakeup
  <2>1. /\ UNCHANGED << counter, tmutex, tpc, env, stops, reported >>
        /\ ppc \notin {"verdict", "end"}
        /\ ppc' \in PriorityParentPC \ {"verdict", "end"}
    BY <1>2
    DEF PriorityParentGate, PollCounter, PollWait, DrainCheck, Park,
        ParentSpuriousWakeup, PriorityParentPC
  <2>2. reported' \in {"none", "pass", "fail"}
    BY <2>1 DEF PriorityIInv, PriorityTypeOK
  <2> QED
    BY <2>1, <2>2, ParentMoves, BeforeVerdict DEF PriorityIInv
<1> QED
  BY <1>1, <1>2 DEF PriorityParentGate

(* The join is what makes the verdict complete. *)
LEMMA JoinAllStep == ASSUME PriorityIInv, JoinAll PROVE PriorityIInv'
<1>1. PriorityTypeOK' /\ PriorityCountInv' /\ StopInv' /\ ExtremeInv'
  <2>1. ppc' \in PriorityParentPC /\ reported' \in {"none", "pass", "fail"}
    BY DEF PriorityIInv, PriorityTypeOK, JoinAll, PriorityParentPC
  <2> QED
    BY <2>1, ParentMoves DEF JoinAll
<1>2. EndInv'
  BY DEF PriorityIInv, EndInv, JoinAll, FailMeansInversion
<1> QED
  BY <1>1, <1>2 DEF PriorityIInv

(* The verdict is a failure only when there is an inversion. *)
LEMMA JudgeStep == ASSUME PriorityIInv, Judge PROVE PriorityIInv'
<1>1. PriorityTypeOK' /\ PriorityCountInv' /\ StopInv' /\ ExtremeInv'
  <2>1. ppc' \in PriorityParentPC /\ reported' \in {"none", "pass", "fail"}
    BY DEF Judge, PriorityParentPC
  <2> QED
    BY <2>1, ParentMoves DEF Judge
<1>2. FailMeansInversion'
  <2> SUFFICES ASSUME reported' = "fail", ~env.clockfail
               PROVE  Inversion'
    BY DEF FailMeansInversion, Judge
  <2>1. ~PassC \/ ~PassCpp
    BY DEF Judge
  <2>2. \A t \in Gated : t \in Stopped
    BY DEF PriorityIInv, EndInv, Judge, Stopped
  <2>3. \A p \in Priorities : StopsOf(p) # {}
    BY <2>2, ThreadPriorityAssumption
    DEF PriorityIInv, StopInv, ThreadPriorityAssumption
  <2>4. Inversion
    BY <2>1, <2>3, JudgeSound
  <2> QED
    BY <2>4 DEF Inversion, Judge
<1>3. EndInv'
  BY <1>2 DEF PriorityIInv, EndInv, Judge
<1> QED
  BY <1>1, <1>3 DEF PriorityIInv

-----------------------------------------------------------------------------
(* The steps of a worker.                                                  *)

(* A worker that gets no start time keeps the inductive invariant. *)
LEMMA NoStartTimeStep ==
  ASSUME PriorityIInv, NEW t \in Gated, NoStartTime(t)
  PROVE  PriorityIInv'
<1>1. tpc \in [Threads -> ThreadPC] /\ tpc[t] = "new" /\ Goto(t, "done")
  BY DEF PriorityIInv, PriorityTypeOK, NoStartTime
<1>2. Inside' = Inside
  BY <1>1, Stay DEF ThreadPC, InsidePC, Threads
<1>3. PriorityTypeOK'
  BY DEF PriorityIInv, PriorityTypeOK, NoStartTime, Goto, ThreadPC
<1>4. PriorityCountInv'
  BY <1>2 DEF PriorityIInv, PriorityCountInv, NoStartTime
<1>5. \A p : StopsOf(p)' = StopsOf(p)
  BY DEF StopsOf, NoStartTime
<1>6. StopInv' /\ ExtremeInv'
  BY <1>5 DEF PriorityIInv, StopInv, ExtremeInv, NoStartTime
<1>7. EndInv'
  BY <1>1, StillRunning, BeforeVerdict DEF NoStartTime
<1> QED
  BY <1>3, <1>4, <1>6, <1>7 DEF PriorityIInv

(* A worker that gets no stop time keeps the inductive invariant. *)
LEMMA NoStopTimeStep ==
  ASSUME PriorityIInv, NEW t \in Gated, NoStopTime(t)
  PROVE  PriorityIInv'
<1>1. tpc \in [Threads -> ThreadPC] /\ tpc[t] = "work" /\ Goto(t, "leave")
  BY DEF PriorityIInv, PriorityTypeOK, NoStopTime
<1>2. Inside' = Inside
  BY <1>1, Stay DEF ThreadPC, InsidePC, Threads
<1>3. PriorityTypeOK'
  BY DEF PriorityIInv, PriorityTypeOK, NoStopTime, Goto, ThreadPC
<1>4. PriorityCountInv'
  BY <1>2 DEF PriorityIInv, PriorityCountInv, NoStopTime
<1>5. \A p : StopsOf(p)' = StopsOf(p)
  BY DEF StopsOf, NoStopTime
<1>6. StopInv' /\ ExtremeInv'
  BY <1>5 DEF PriorityIInv, StopInv, ExtremeInv, NoStopTime
<1>7. EndInv'
  BY <1>1, StillRunning, BeforeVerdict DEF NoStopTime
<1> QED
  BY <1>3, <1>4, <1>6, <1>7 DEF PriorityIInv

(* A worker that records its stop time keeps the inductive invariant. *)
LEMMA RecordStopStep ==
  ASSUME PriorityIInv, NEW t \in Gated, RecordStop(t)
  PROVE  PriorityIInv'
<1>1. tpc \in [Threads -> ThreadPC] /\ tpc[t] = "work" /\ Goto(t, "leave")
  BY DEF PriorityIInv, PriorityTypeOK, RecordStop
<1>2. Prio[t] \in Priorities /\ stops' = Append(stops, Prio[t])
  BY ThreadPriorityAssumption
  DEF RecordStop, ThreadPriorityAssumption
<1>3. PriorityTypeOK
  BY DEF PriorityIInv
<1>4. /\ stops' \in Seq(Priorities)
      /\ Len(stops') = Len(stops) + 1
      /\ Len(stops) \in Nat
      /\ \A p : StopsOf(p) \subseteq 1 .. Len(stops)
      /\ \A p : StopsOf(p)' = IF p = Prio[t] THEN StopsOf(p) \cup {Len(stops) + 1}
                               ELSE StopsOf(p)
  BY <1>2, <1>3, AppendStop
<1>5. Inside' = Inside
  BY <1>1, Stay DEF ThreadPC, InsidePC, Threads
<1>6. PriorityTypeOK'
  BY <1>4 DEF PriorityIInv, PriorityTypeOK, RecordStop, Goto, ThreadPC
<1>7. PriorityCountInv'
  BY <1>5 DEF PriorityIInv, PriorityCountInv, RecordStop
<1>8. StopInv'
  <2>1. Stopped' = Stopped \cup {t} /\ t \notin Stopped
    BY <1>1 DEF Stopped, Goto, Threads
  <2>2. Cardinality(Stopped') = Cardinality(Stopped) + 1
    BY <2>1, StoppedFinite, FS_AddElement
  <2>3. ASSUME ~env.clockfail, NEW u \in Stopped'
        PROVE  StopsOf(Prio[u])' # {}
    BY <1>4, <2>1, <2>3 DEF PriorityIInv, StopInv
  <2>4. ASSUME ~env.clockfail
        PROVE  Len(stops') = Cardinality(Stopped')
    BY <1>4, <2>2, <2>4 DEF PriorityIInv, StopInv
  <2> QED
    BY <2>3, <2>4 DEF StopInv, RecordStop
<1>9. ExtremeInv'
  <2> SUFFICES ASSUME NEW p \in Priorities, StopsOf(p)' # {}
               PROVE  /\ \E i \in StopsOf(p)' : \A j \in StopsOf(p)' : i <= j
                      /\ \E i \in StopsOf(p)' : \A j \in StopsOf(p)' : i >= j
    BY DEF ExtremeInv
  <2>1. CASE p # Prio[t]
    BY <1>4, <2>1 DEF PriorityIInv, ExtremeInv
  <2>2. CASE p = Prio[t] /\ StopsOf(p) = {}
    BY <1>4, <2>2
  <2>3. CASE p = Prio[t] /\ StopsOf(p) # {}
    <3> DEFINE new == Len(stops) + 1
    <3>1. StopsOf(p)' = StopsOf(p) \cup {new} /\ new \in Nat
      BY <1>4, <2>3
    <3>2. \A j \in StopsOf(p) : j \in Nat /\ j <= new
      BY <1>4
    <3>3. PICK i \in StopsOf(p) : \A j \in StopsOf(p) : i <= j
      BY <2>3 DEF PriorityIInv, ExtremeInv
    <3>4. i \in StopsOf(p)' /\ \A j \in StopsOf(p)' : i <= j
      BY <3>1, <3>2, <3>3
    <3>5. new \in StopsOf(p)' /\ \A j \in StopsOf(p)' : new >= j
      BY <3>1, <3>2
    <3> QED
      BY <3>4, <3>5
  <2> QED
    BY <2>1, <2>2, <2>3
<1>10. EndInv'
  BY <1>1, StillRunning, BeforeVerdict DEF RecordStop
<1> QED
  BY <1>6, <1>7, <1>8, <1>9, <1>10 DEF PriorityIInv

(* A worker that is counted keeps the inductive invariant. *)
LEMMA IncCounterStep ==
  ASSUME PriorityIInv, NEW t \in Gated, IncCounter(t),
         UNCHANGED << env, stops, reported >>
  PROVE  PriorityIInv'
<1>1. /\ tpc \in [Threads -> ThreadPC] /\ tpc[t] = "new"
      /\ Goto(t, "counted") /\ t \in Gated
  BY DEF PriorityIInv, PriorityTypeOK, IncCounter
<1>2. Cardinality(Inside') = Cardinality(Inside) + 1
  BY <1>1, Enter DEF InsidePC
<1>3. PriorityCountInv'
  BY <1>2 DEF PriorityIInv, PriorityCountInv, IncCounter
<1>4. PriorityTypeOK'
  BY <1>3, CounterRange
  DEF PriorityIInv, PriorityTypeOK, IncCounter, Goto, ThreadPC, Threads
<1>5. StopInv' /\ ExtremeInv'
  BY <1>1, NoStop, NobodyStops DEF ThreadPC
<1>6. EndInv'
  BY <1>1, StillRunning, BeforeVerdict DEF IncCounter
<1> QED
  BY <1>3, <1>4, <1>5, <1>6 DEF PriorityIInv

(* A worker that is no longer counted keeps the inductive invariant. *)
LEMMA DecCounterStep ==
  ASSUME PriorityIInv, NEW t \in Gated, DecCounter(t),
         UNCHANGED << env, stops, reported >>
  PROVE  PriorityIInv'
<1>1. PICK to \in {"signal", "done"} :
        /\ tpc \in [Threads -> ThreadPC] /\ tpc[t] = "leave"
        /\ Goto(t, to)
  BY DEF PriorityIInv, PriorityTypeOK, DecCounter
<1>3. Cardinality(Inside') = Cardinality(Inside) - 1
  BY <1>1, Exit DEF InsidePC, ThreadPC
<1>4. PriorityCountInv'
  BY <1>3 DEF PriorityIInv, PriorityCountInv, DecCounter
<1>5. PriorityTypeOK'
  BY <1>4, CounterRange
  DEF PriorityIInv, PriorityTypeOK, DecCounter, Goto, ThreadPC, Threads
<1>6. StopInv' /\ ExtremeInv'
  BY <1>1, NoStop, NobodyStops DEF ThreadPC
<1>7. EndInv'
  BY <1>1, StillRunning, BeforeVerdict DEF DecCounter
<1> QED
  BY <1>4, <1>5, <1>6, <1>7 DEF PriorityIInv

(* The other steps of a worker through the gate keep the invariant. *)
LEMMA WaitingStep ==
  ASSUME PriorityIInv, NEW t \in Gated, UNCHANGED << env, stops, reported >>,
         WaitForStart(t) \/ SpuriousWakeup(t) \/ PassGate(t) \/ SignalParent(t)
  PROVE  PriorityIInv'
<1>1. PICK to \in {"waiting", "woken", "work", "done"} :
        /\ tpc \in [Threads -> ThreadPC] /\ Goto(t, to)
        /\ tpc[t] \in InsidePC <=> to \in InsidePC
        /\ tpc[t] \in {"leave", "signal", "done"} <=> to \in {"leave", "signal", "done"}
        /\ tpc[t] # "done"
  BY DEF PriorityIInv, PriorityTypeOK, WaitForStart, SpuriousWakeup, PassGate,
         SignalParent, InsidePC
<1>2. Inside' = Inside
  BY <1>1, Stay DEF ThreadPC, Threads
<1>3. PriorityCountInv'
  BY <1>2
  DEF PriorityIInv, PriorityCountInv, WaitForStart, SpuriousWakeup, PassGate,
      SignalParent
<1>4. PriorityTypeOK'
  BY <1>1
  DEF PriorityIInv, PriorityTypeOK, WaitForStart, SpuriousWakeup, PassGate,
      SignalParent, Goto,
      ThreadPC, PriorityParentPC
<1>5. StopInv' /\ ExtremeInv'
  BY <1>1, NoStop, NobodyStops DEF ThreadPC
<1>6. EndInv'
  BY <1>1, StillRunning, BeforeVerdict
  DEF WaitForStart, SpuriousWakeup, PassGate, SignalParent
<1> QED
  BY <1>3, <1>4, <1>5, <1>6 DEF PriorityIInv

-----------------------------------------------------------------------------
(* Every step keeps the inductive invariant. *)
LEMMA PriorityNextIInv ==
  PriorityIInv /\ [PriorityNext]_priorityVars => PriorityIInv'
<1> SUFFICES ASSUME PriorityIInv, [PriorityNext]_priorityVars PROVE PriorityIInv'
  OBVIOUS
<1>1. CASE UNCHANGED priorityVars
  <2>1. /\ UNCHANGED << counter, tmutex, tpc, ppc, env, stops, reported >>
        /\ ppc' \in PriorityParentPC
        /\ reported' \in {"none", "pass", "fail"}
    BY <1>1 DEF priorityVars, gateVars, PriorityIInv, PriorityTypeOK
  <2>2. EndInv'
    BY <2>1 DEF PriorityIInv, EndInv, FailMeansInversion, Inversion
  <2> QED
    BY <2>1, <2>2, ParentMoves DEF PriorityIInv
<1>2. CASE PriorityParent
  BY <1>2, ParentGateStep, JoinAllStep, JudgeStep, CreateStep DEF PriorityParent
<1>3. ASSUME NEW t \in Gated, PriorityWorker(t)
      PROVE  PriorityIInv'
  BY <1>3, NoStartTimeStep, RecordStopStep, NoStopTimeStep, IncCounterStep,
     DecCounterStep, WaitingStep
  DEF PriorityWorker, PriorityWorkerGate
<1> QED
  BY <1>1, <1>2, <1>3 DEF PriorityNext

(* The invariant holds in every reachable state, for every number of       *)
(* threads, with spurious wakeups and clock failures.                      *)
THEOREM PriorityInvariance == PrioritySpec => []PriorityIInv
BY PriorityInitIInv, PriorityNextIInv, PTL DEF PrioritySpec

(* Type correctness: the shared counter never leaves 0 .. threads.         *)
THEOREM PriorityTypeCorrect == PrioritySpec => []PriorityTypeOK
<1>1. PriorityIInv => PriorityTypeOK
  BY DEF PriorityIInv
<1> QED
  BY <1>1, PriorityInvariance, PTL

(* The verdict is taken over the stop times of all the threads, and no     *)
(* thread is left when the synchronisers are freed.                        *)
THEOREM CompleteVerdict == PrioritySpec => []VerdictOnAll
<1>1. PriorityIInv => VerdictOnAll
  <2> SUFFICES ASSUME PriorityIInv, ppc \in {"verdict", "end"}
               PROVE  /\ \A t \in Gated : tpc[t] = "done"
                      /\ ~env.clockfail => Len(stops) = Cardinality(Gated)
    BY DEF VerdictOnAll
  <2>1. \A t \in Gated : tpc[t] = "done"
    BY DEF PriorityIInv, EndInv
  <2>2. Stopped = Gated
    BY <2>1 DEF Stopped
  <2> QED
    BY <2>1, <2>2 DEF PriorityIInv, StopInv
<1> QED
  BY <1>1, PriorityInvariance, PTL

(* Neither port reports a failure when the threads stopped in the order of *)
(* their priorities.                                                       *)
THEOREM NoFalseAlarm == PrioritySpec => []FailMeansInversion
<1>1. PriorityIInv => FailMeansInversion
  BY DEF PriorityIInv, EndInv
<1> QED
  BY <1>1, PriorityInvariance, PTL
=============================================================================
