------------------------- MODULE EventDispatchProofs -------------------------
(***************************************************************************)
(* The hand-over of the event_dispatch test for every number of major      *)
(* iterations and every threshold.  When no wakeup is spurious no signal   *)
(* is lost, the times are those of the round trips, and it implements      *)
(* PingPong; whatever wakes a thread, the sender awaits the announcement,  *)
(* a run leaves nothing to the next, and the threads never all wait.       *)
(***************************************************************************)
EXTENDS EventDispatch, TLAPS

(* The test starts in the inductive invariant. *)
LEMMA InitIInv == Init => IInv
<1> SUFFICES ASSUME Init PROVE IInv
  OBVIOUS
<1>1. TypeOK
  <2>1. started \in BOOLEAN
    BY DEF Init
  <2>2. major \in [Sides -> Nat] /\ sub \in [Sides -> Nat]
    BY DEF Init, Zero
  <2> QED
    BY <2>1, <2>2, EventDispatchAssumption
    DEF EventDispatchAssumption, Init, TypeOK, SenderPC, ReceiverPC,
        MIN_SUB_ITERATION
<1>2. Bounds
  BY EventDispatchAssumption
  DEF EventDispatchAssumption, Init, Bounds, MIN_SUB_ITERATION
<1>3. LockInv
  BY DEF Init, LockInv
<1>4. BeforeMajor /\ RoundTrip /\ AfterAnswer /\ AfterMajor
  BY DEF Init, BeforeMajor, RoundTrip, AfterAnswer, AfterMajor
<1>5. RunInv /\ CountInv
  BY DEF Init, RunInv, CountInv
<1> QED
  BY <1>1, <1>2, <1>3, <1>4, <1>5 DEF IInv

-----------------------------------------------------------------------------
(* Each step preserves it: one lemma for each action, with one step for    *)
(* each part.                                                              *)

(* A run starts with both threads before their first major iteration. *)
LEMMA StartThreadsStep ==
  ASSUME IInv, port' = port, StartThreads PROVE IInv'
<1>1. TypeOK'
  BY DEF StartThreads, tripVars, IInv, TypeOK, Zero, SenderPC, ReceiverPC
<1>2. LockInv'
  BY DEF StartThreads, tripVars, IInv, LockInv, RunInv
<1>3. BeforeMajor'
  BY EventDispatchAssumption
  DEF EventDispatchAssumption, StartThreads, tripVars, IInv, BeforeMajor,
       RunInv, InSameMajor, Zero, Sides
<1>4. CountInv'
  BY DEF StartThreads, tripVars, IInv, RunInv, CountInv, Zero, Sides
<1>5. Bounds' /\ RoundTrip' /\ AfterAnswer' /\ AfterMajor' /\ RunInv'
  BY DEF StartThreads, tripVars, IInv, Bounds, RoundTrip, AfterAnswer,
       AfterMajor, RunInv
<1> QED
  BY <1>1, <1>2, <1>3, <1>4, <1>5 DEF IInv

(* When both threads have ended the flag is down and the locks are free. *)
LEMMA JoinThreadsStep ==
  ASSUME IInv, port' = port, JoinThreads PROVE IInv'
<1>1. TypeOK'
  BY EventDispatchAssumption
  DEF EventDispatchAssumption, JoinThreads, tripVars, IInv, TypeOK
<1>2. RunInv'
  BY EventDispatchAssumption
  DEF EventDispatchAssumption, JoinThreads, tripVars, IInv, RunInv
<1>3. Bounds' /\ LockInv' /\ BeforeMajor' /\ RoundTrip' /\ AfterAnswer' /\
     AfterMajor' /\ CountInv'
  BY DEF JoinThreads, tripVars, IInv, Bounds, LockInv, BeforeMajor, RoundTrip,
       AfterAnswer, AfterMajor, CountInv
<1> QED
  BY <1>1, <1>2, <1>3 DEF IInv

(* A run that was too fast is repeated from a clean state. *)
LEMMA TooFastStep ==
  ASSUME IInv, port' = port, TooFast PROVE IInv'
<1>1. Bounds'
  BY DEF TooFast, tripVars, IInv, Bounds, TypeOK
<1>2. BeforeMajor'
  BY DEF TooFast, tripVars, IInv, BeforeMajor, InSameMajor
<1>3. RoundTrip'
  BY DEF TooFast, tripVars, IInv, TypeOK, RoundTrip, InSameMajor, Sides
<1>4. AfterAnswer'
  BY DEF TooFast, tripVars, IInv, AfterAnswer, RunInv
<1>5. AfterMajor'
  BY DEF TooFast, tripVars, IInv, AfterMajor, RunInv
<1>6. CountInv'
  BY DEF TooFast, tripVars, IInv, RunInv, CountInv
<1>7. TypeOK' /\ LockInv' /\ RunInv'
  BY DEF TooFast, tripVars, IInv, TypeOK, LockInv, RunInv
<1> QED
  BY <1>1, <1>2, <1>3, <1>4, <1>5, <1>6, <1>7 DEF IInv

(* A result that is accepted is kept. *)
LEMMA AcceptStep ==
  ASSUME IInv, port' = port, Accept PROVE IInv'
<1>1. BeforeMajor'
  BY DEF Accept, tripVars, IInv, BeforeMajor, InSameMajor
<1>2. RoundTrip'
  BY DEF Accept, tripVars, IInv, RoundTrip, InSameMajor
<1>3. AfterAnswer'
  BY DEF Accept, tripVars, IInv, AfterAnswer, InSameMajor, ReceiverAhead
<1>4. AfterMajor'
  BY DEF Accept, tripVars, IInv, AfterMajor, ReceiverAhead
<1>5. TypeOK' /\ Bounds' /\ LockInv' /\ RunInv' /\ CountInv'
  BY DEF Accept, tripVars, IInv, TypeOK, Bounds, LockInv, RunInv, CountInv
<1> QED
  BY <1>1, <1>2, <1>3, <1>4, <1>5 DEF IInv

(* A rejected result is emptied, unless it is the last. *)
LEMMA RejectStep ==
  ASSUME IInv, port' = port, Reject PROVE IInv'
<1>1. TypeOK' /\ Bounds'
  BY EventDispatchAssumption
  DEF EventDispatchAssumption, Reject, tripVars, IInv, Bounds, TypeOK
<1>2. BeforeMajor'
  BY DEF Reject, tripVars, IInv, BeforeMajor, InSameMajor
<1>3. RoundTrip'
  BY DEF Reject, tripVars, IInv, TypeOK, RoundTrip, InSameMajor, Sides
<1>4. AfterAnswer'
  BY DEF Reject, tripVars, IInv, AfterAnswer, RunInv
<1>5. AfterMajor'
  BY DEF Reject, tripVars, IInv, AfterMajor, RunInv
<1>6. CountInv'
  BY DEF Reject, tripVars, IInv, RunInv, CountInv
<1>7. LockInv' /\ RunInv'
  BY DEF Reject, tripVars, IInv, LockInv, RunInv
<1> QED
  BY <1>1, <1>2, <1>3, <1>4, <1>5, <1>6, <1>7 DEF IInv

(* The sender goes on only after the announcement for this major iteration. *)
LEMMA WaitTillReceiverStartedStep ==
  ASSUME IInv, port' = port, WaitTillReceiverStarted PROVE IInv'
<1>1. TypeOK'
  <2>1. spc' \in SenderPC
    BY DEF WaitTillReceiverStarted, AfterAnnouncement, SenderPC
  <2>2. started' \in BOOLEAN
    BY DEF WaitTillReceiverStarted
  <2> QED
    BY <2>1, <2>2
    DEF WaitTillReceiverStarted, AfterAnnouncement, IInv, TypeOK, parentVars,
        tripVars
<1>2. BeforeMajor'
  BY DEF WaitTillReceiverStarted, AfterAnnouncement, parentVars, tripVars,
      IInv, BeforeMajor,
       InSameMajor
<1>3. Bounds' /\ LockInv' /\ RoundTrip' /\ AfterAnswer' /\ AfterMajor' /\
     RunInv' /\ CountInv'
  BY DEF WaitTillReceiverStarted, AfterAnnouncement, parentVars, tripVars,
      IInv, Bounds, LockInv,
       RoundTrip, AfterAnswer, AfterMajor, RunInv, CountInv
<1> QED
  BY <1>1, <1>2, <1>3 DEF IInv

(* Between the announcement and the first signal nobody answers. *)
LEMMA SenderReadsClockStep ==
  ASSUME IInv, port' = port, SenderReadsClock PROVE IInv'
<1>1. TypeOK'
  BY DEF SenderReadsClock, parentVars, IInv, TypeOK, SenderPC
<1>2. Bounds'
  BY DEF SenderReadsClock, parentVars, IInv, Bounds, TypeOK
<1>3. BeforeMajor'
  BY DEF SenderReadsClock, parentVars, IInv, BeforeMajor, InSameMajor
<1>4. LockInv' /\ RoundTrip' /\ AfterAnswer' /\ AfterMajor' /\ RunInv' /\
     CountInv'
  BY DEF SenderReadsClock, parentVars, IInv, LockInv, RoundTrip, AfterAnswer,
       AfterMajor, RunInv, CountInv
<1> QED
  BY <1>1, <1>2, <1>3, <1>4 DEF IInv

(* The sender gets the lock only when the receiver is in its wait. *)
LEMMA SenderLockStep ==
  ASSUME IInv, port' = port, SenderLock PROVE IInv'
<1>1. TypeOK'
  BY DEF SenderLock, Acquire, parentVars, IInv, TypeOK, Sides, SenderPC
<1>2. Bounds'
  BY DEF SenderLock, Acquire, parentVars, IInv, Bounds, TypeOK
<1>3. RoundTrip'
  BY DEF SenderLock, Acquire, parentVars, IInv, Bounds, LockInv, BeforeMajor,
       RoundTrip, InSameMajor, Zero, Sides
<1>4. CountInv'
  BY DEF SenderLock, Acquire, parentVars, IInv, BeforeMajor, CountInv, Zero,
       Sides
<1>5. LockInv' /\ BeforeMajor' /\ AfterAnswer' /\ AfterMajor' /\ RunInv'
  BY DEF SenderLock, Acquire, parentVars, IInv, LockInv, BeforeMajor,
       AfterAnswer, AfterMajor, RunInv
<1> QED
  BY <1>1, <1>2, <1>3, <1>4, <1>5 DEF IInv

(* The signal finds the receiver in its wait. *)
LEMMA SenderSignalStep ==
  ASSUME IInv, port' = port, SenderSignal PROVE IInv'
<1>1. TypeOK'
  BY DEF SenderSignal, SignalNotify, parentVars, IInv, TypeOK, SenderPC,
       ReceiverPC
<1>2. RoundTrip'
  BY DEF SenderSignal, SignalNotify, parentVars, IInv, RoundTrip, InSameMajor
<1>3. Bounds' /\ LockInv' /\ BeforeMajor' /\ AfterAnswer' /\ AfterMajor' /\
     RunInv' /\ CountInv'
  BY DEF SenderSignal, SignalNotify, parentVars, IInv, Bounds, LockInv,
       BeforeMajor, AfterAnswer, AfterMajor, RunInv, CountInv
<1> QED
  BY <1>1, <1>2, <1>3 DEF IInv

(* The sender waits while the receiver is yet to answer. *)
LEMMA SenderWaitStep ==
  ASSUME IInv, port' = port, SenderWait PROVE IInv'
<1>1. TypeOK'
  BY DEF SenderWait, Release, parentVars, tripVars, IInv, TypeOK, SenderPC
<1>2. RoundTrip'
  BY DEF SenderWait, Release, parentVars, tripVars, IInv, RoundTrip,
       InSameMajor
<1>3. Bounds' /\ LockInv' /\ BeforeMajor' /\ AfterAnswer' /\ AfterMajor' /\
     RunInv' /\ CountInv'
  BY DEF SenderWait, Release, parentVars, tripVars, IInv, Bounds, LockInv,
       BeforeMajor, AfterAnswer, AfterMajor, RunInv, CountInv
<1> QED
  BY <1>1, <1>2, <1>3 DEF IInv

(* The sender resumes after the answer, with one more round trip done. *)
LEMMA SenderResumeStep ==
  ASSUME IInv, port' = port, SenderResume PROVE IInv'
<1>1. TypeOK'
  BY DEF SenderResume, Acquire, parentVars, IInv, Bounds, TypeOK, CountInv,
       Sides, SenderPC
<1>2. RoundTrip'
  BY DEF SenderResume, Acquire, parentVars, IInv, TypeOK, LockInv, RoundTrip,
       AfterAnswer, InSameMajor, Sides
<1>3. AfterMajor'
  BY DEF SenderResume, Acquire, parentVars, IInv, LockInv, AfterAnswer,
       AfterMajor, InSameMajor, ReceiverAhead
<1>4. CountInv'
  BY DEF SenderResume, Acquire, parentVars, IInv, Bounds, TypeOK, AfterAnswer,
       CountInv, Sides
<1>5. Bounds' /\ LockInv' /\ BeforeMajor' /\ AfterAnswer' /\ RunInv'
  BY DEF SenderResume, Acquire, parentVars, IInv, Bounds, LockInv,
       BeforeMajor, AfterAnswer, RunInv
<1> QED
  BY <1>1, <1>2, <1>3, <1>4, <1>5 DEF IInv

(* When the sender lets the lock go the receiver is one major iteration     *)
(* ahead.                                                                   *)
LEMMA SenderUnlockStep ==
  ASSUME IInv, port' = port, SenderUnlock PROVE IInv'
<1>1. TypeOK'
  BY DEF SenderUnlock, Release, parentVars, tripVars, IInv, TypeOK, Sides,
       SenderPC
<1>2. AfterMajor'
  BY DEF SenderUnlock, Release, parentVars, tripVars, IInv, AfterMajor,
       ReceiverAhead
<1>3. Bounds' /\ LockInv' /\ BeforeMajor' /\ RoundTrip' /\ AfterAnswer' /\
     RunInv' /\ CountInv'
  BY DEF SenderUnlock, Release, parentVars, tripVars, IInv, Bounds, LockInv,
       BeforeMajor, RoundTrip, AfterAnswer, RunInv, CountInv
<1> QED
  BY <1>1, <1>2, <1>3 DEF IInv

(* The time that is recorded is that of the round trips, also when the     *)
(* clock is read now, without the lock.                                    *)
LEMMA SenderRecordsStep ==
  ASSUME IInv, port' = port, SenderRecords PROVE IInv'
<1>1. timed' \in Nat /\ timed' = subs
  BY DEF SenderRecords, IInv, TypeOK, Bounds, CountInv
<1>2. TypeOK'
  <2>1. major' \in [Sides -> Nat] /\ sub' \in [Sides -> Nat]
    BY DEF SenderRecords, IInv, TypeOK, Sides
  <2>2. spc' \in SenderPC
    BY DEF SenderRecords, SenderPC
  <2> QED
    BY <1>1, <2>1, <2>2 DEF SenderRecords, parentVars, IInv, TypeOK
<1>3. BeforeMajor'
  <2>1. sub \in [Sides -> Nat] /\ sub["receiver"] = 0
    BY DEF IInv, TypeOK, AfterMajor, ReceiverAhead, SenderRecords
  <2>2. sub' = [sub EXCEPT !["sender"] = 0]
    BY DEF SenderRecords
  <2>3. sub' = Zero
    BY <2>1, <2>2 DEF Zero, Sides
  <2> QED
    BY <2>3
    DEF SenderRecords, IInv, TypeOK, AfterMajor, ReceiverAhead, Sides,
        BeforeMajor, InSameMajor, parentVars
<1>4. RunInv'
  <2>1. ppc = "join" /\ entries = 0 /\ ReceiverAhead
    BY DEF SenderRecords, IInv, RunInv, AfterMajor
  <2>2. /\ major'["sender"] = major["sender"] + 1
        /\ major'["receiver"] = major["receiver"]
    BY DEF SenderRecords, IInv, TypeOK, Sides
  <2>3. spc' = "end" => ~(major'["sender"] < Majors)
    BY DEF SenderRecords
  <2> QED
    BY <2>1, <2>2, <2>3 DEF SenderRecords, parentVars, RunInv, ReceiverAhead
<1>5. CountInv'
  BY <1>1 DEF SenderRecords, parentVars, IInv, TypeOK, CountInv
<1>6. Bounds' /\ LockInv' /\ RoundTrip' /\ AfterAnswer' /\ AfterMajor'
  BY DEF SenderRecords, parentVars, IInv, Bounds, LockInv, RoundTrip,
       AfterAnswer, AfterMajor
<1> QED
  BY <1>1, <1>2, <1>3, <1>4, <1>5, <1>6 DEF IInv

(* The receiver gets the lock between the steps of the sender. *)
LEMMA ReceiverLockStep ==
  ASSUME IInv, port' = port, ReceiverLock PROVE IInv'
<1>1. TypeOK'
  BY DEF ReceiverLock, Acquire, parentVars, tripVars, IInv, TypeOK, Sides,
       ReceiverPC
<1>2. BeforeMajor'
  BY DEF ReceiverLock, Acquire, parentVars, tripVars, IInv, BeforeMajor,
       InSameMajor
<1>3. RoundTrip'
  BY DEF ReceiverLock, Acquire, parentVars, tripVars, IInv, RoundTrip,
       InSameMajor
<1>4. AfterAnswer'
  BY DEF ReceiverLock, Acquire, parentVars, tripVars, IInv, AfterAnswer,
       InSameMajor, ReceiverAhead
<1>5. AfterMajor'
  BY DEF ReceiverLock, Acquire, parentVars, tripVars, IInv, AfterMajor,
       ReceiverAhead
<1>6. Bounds' /\ LockInv' /\ RunInv' /\ CountInv'
  BY DEF ReceiverLock, Acquire, parentVars, tripVars, IInv, Bounds, LockInv,
       RunInv, CountInv
<1> QED
  BY <1>1, <1>2, <1>3, <1>4, <1>5, <1>6 DEF IInv

(* The receiver announces the major iteration it is in. *)
LEMMA SetReceiverStartedStep ==
  ASSUME IInv, port' = port, SetReceiverStarted PROVE IInv'
<1>1. TypeOK'
  BY DEF SetReceiverStarted, parentVars, tripVars, IInv, TypeOK, SenderPC,
       ReceiverPC
<1>2. BeforeMajor'
  BY DEF SetReceiverStarted, parentVars, tripVars, IInv, BeforeMajor,
       InSameMajor
<1>3. RoundTrip'
  BY DEF SetReceiverStarted, parentVars, tripVars, IInv, RoundTrip,
       InSameMajor
<1>4. AfterAnswer'
  BY DEF SetReceiverStarted, parentVars, tripVars, IInv, AfterAnswer,
       InSameMajor, ReceiverAhead
<1>5. AfterMajor'
  BY DEF SetReceiverStarted, parentVars, tripVars, IInv, AfterMajor,
       ReceiverAhead
<1>6. Bounds' /\ LockInv' /\ RunInv' /\ CountInv'
  BY DEF SetReceiverStarted, parentVars, tripVars, IInv, Bounds, LockInv,
       RunInv, CountInv
<1> QED
  BY <1>1, <1>2, <1>3, <1>4, <1>5, <1>6 DEF IInv

(* The receiver lets the lock go as it starts to wait. *)
LEMMA ReceiverWaitStep ==
  ASSUME IInv, port' = port, ReceiverWait PROVE IInv'
<1>1. TypeOK'
  BY DEF ReceiverWait, Release, parentVars, tripVars, IInv, TypeOK, ReceiverPC
<1>2. BeforeMajor'
  BY DEF ReceiverWait, Release, parentVars, tripVars, IInv, BeforeMajor,
       InSameMajor
<1>3. RoundTrip'
  BY DEF ReceiverWait, Release, parentVars, tripVars, IInv, RoundTrip,
       InSameMajor
<1>4. AfterAnswer'
  BY DEF ReceiverWait, Release, parentVars, tripVars, IInv, AfterAnswer,
       InSameMajor, ReceiverAhead
<1>5. AfterMajor'
  BY DEF ReceiverWait, Release, parentVars, tripVars, IInv, AfterMajor,
       ReceiverAhead
<1>6. Bounds' /\ LockInv' /\ RunInv' /\ CountInv'
  BY DEF ReceiverWait, Release, parentVars, tripVars, IInv, Bounds, LockInv,
       RunInv, CountInv
<1> QED
  BY <1>1, <1>2, <1>3, <1>4, <1>5, <1>6 DEF IInv

(* The receiver resumes when the sender waits. *)
LEMMA ReceiverResumeStep ==
  ASSUME IInv, port' = port, ReceiverResume PROVE IInv'
<1>1. TypeOK'
  BY DEF ReceiverResume, Acquire, parentVars, tripVars, IInv, TypeOK, Sides,
       ReceiverPC
<1>2. BeforeMajor'
  BY DEF ReceiverResume, Acquire, parentVars, tripVars, IInv, BeforeMajor,
       InSameMajor
<1>3. RoundTrip'
  BY DEF ReceiverResume, Acquire, parentVars, tripVars, IInv, LockInv,
       RoundTrip, InSameMajor
<1>4. AfterAnswer'
  BY DEF ReceiverResume, Acquire, parentVars, tripVars, IInv, AfterAnswer,
       InSameMajor, ReceiverAhead
<1>5. AfterMajor'
  BY DEF ReceiverResume, Acquire, parentVars, tripVars, IInv, AfterMajor,
       ReceiverAhead
<1>6. Bounds' /\ LockInv' /\ RunInv' /\ CountInv'
  BY DEF ReceiverResume, Acquire, parentVars, tripVars, IInv, Bounds, LockInv,
       RunInv, CountInv
<1> QED
  BY <1>1, <1>2, <1>3, <1>4, <1>5, <1>6 DEF IInv

(* The answer finds the sender in its wait and completes a round trip. *)
LEMMA ReceiverAnswerStep ==
  ASSUME IInv, port' = port, ReceiverAnswer PROVE IInv'
<1>1. TypeOK'
  BY DEF ReceiverAnswer, SignalNotify, parentVars, IInv, TypeOK, Sides,
       SenderPC, ReceiverPC
<1>2. BeforeMajor'
  BY DEF ReceiverAnswer, SignalNotify, parentVars, IInv, BeforeMajor,
       InSameMajor
<1>3. RoundTrip'
  BY DEF ReceiverAnswer, SignalNotify, parentVars, IInv, RoundTrip,
       InSameMajor
<1>4. AfterAnswer'
  BY DEF ReceiverAnswer, SignalNotify, parentVars, IInv, TypeOK, RoundTrip,
       AfterAnswer, InSameMajor, ReceiverAhead, Sides
<1>5. AfterMajor'
  BY DEF ReceiverAnswer, SignalNotify, parentVars, IInv, AfterMajor,
       ReceiverAhead
<1>6. CountInv'
  <2>1. spc = "waiting"
    BY DEF ReceiverAnswer, IInv, TypeOK, SenderPC, RunInv, BeforeMajor,
         RoundTrip, AfterAnswer, AfterMajor, InSameMajor, ReceiverAhead
  <2>2. spc' = "woken" /\ sent' = sent /\ answered' = answered + 1
    BY <2>1 DEF ReceiverAnswer, SignalNotify
  <2> QED
    BY <2>1, <2>2 DEF ReceiverAnswer, parentVars, IInv, TypeOK, CountInv
<1>7. Bounds' /\ LockInv' /\ RunInv'
  BY DEF ReceiverAnswer, SignalNotify, parentVars, IInv, Bounds, LockInv,
       RunInv
<1> QED
  BY <1>1, <1>2, <1>3, <1>4, <1>5, <1>6, <1>7 DEF IInv

(* The receiver may end a major iteration before the sender does. *)
LEMMA ReceiverUnlockStep ==
  ASSUME IInv, port' = port, ReceiverUnlock PROVE IInv'
<1>1. TypeOK'
  BY DEF ReceiverUnlock, Release, parentVars, tripVars, IInv, TypeOK,
       ReceiverPC
<1>2. BeforeMajor'
  BY DEF ReceiverUnlock, Release, parentVars, tripVars, IInv, BeforeMajor,
       InSameMajor
<1>3. RoundTrip'
  BY DEF ReceiverUnlock, Release, parentVars, tripVars, IInv, RoundTrip,
       InSameMajor
<1>4. AfterAnswer'
  BY EventDispatchAssumption
  DEF EventDispatchAssumption, ReceiverUnlock, Release, parentVars, tripVars,
       IInv, TypeOK, AfterAnswer, InSameMajor, ReceiverAhead, Sides
<1>5. AfterMajor'
  BY DEF ReceiverUnlock, Release, parentVars, tripVars, IInv, AfterMajor,
       ReceiverAhead
<1>6. Bounds' /\ LockInv' /\ RunInv' /\ CountInv'
  BY DEF ReceiverUnlock, Release, parentVars, tripVars, IInv, Bounds, LockInv,
       RunInv, CountInv
<1> QED
  BY <1>1, <1>2, <1>3, <1>4, <1>5, <1>6 DEF IInv

(* A step that changes nothing. *)
LEMMA StutterStep == ASSUME IInv, UNCHANGED vars PROVE IInv'
BY DEF vars, envVars, parentVars, tripVars, IInv, TypeOK, Bounds, LockInv,
    BeforeMajor,
       RoundTrip, AfterAnswer, AfterMajor, RunInv, CountInv, InSameMajor,
       ReceiverAhead

(* No step of the specification leaves the inductive invariant. *)
LEMMA Preserved == ASSUME IInv, [Next]_vars, ~spurious PROVE IInv'
<1>1. CASE Parent
  BY <1>1, StartThreadsStep, JoinThreadsStep, TooFastStep, AcceptStep,
     RejectStep
  DEF Parent, envVars
<1>2. CASE Sender
  BY <1>2, WaitTillReceiverStartedStep, SenderReadsClockStep, SenderLockStep,
       SenderSignalStep,
     SenderWaitStep, SenderResumeStep, SenderUnlockStep, SenderRecordsStep
  DEF Sender, envVars
<1>3. CASE Receiver
  BY <1>3, ReceiverLockStep, SetReceiverStartedStep, ReceiverWaitStep,
     ReceiverResumeStep, ReceiverAnswerStep, ReceiverUnlockStep
  DEF Receiver, envVars
<1>4. CASE SpuriousWakeup
  BY <1>4 DEF SpuriousWakeup, ReadySpuriousWakeup, NotifySpuriousWakeup
<1>5. CASE UNCHANGED vars
  BY <1>5, StutterStep
<1> QED
  BY <1>1, <1>2, <1>3, <1>4, <1>5 DEF Next

-----------------------------------------------------------------------------
(* The parts of the inductive invariant always hold. *)
THEOREM Invariance == Spec => [](~spurious => IInv)
<1>1. Init => (~spurious => IInv)
  BY InitIInv
<1>2. (~spurious => IInv) /\ [Next]_vars => (~spurious => IInv)'
  <2>1. [Next]_vars => spurious' = spurious
    BY DEF Next, Parent, Sender, Receiver, SpuriousWakeup, vars, envVars
  <2> QED
    BY <2>1, Preserved
<1> QED
  BY <1>1, <1>2, PTL DEF Spec

(* The sender is in its wait wherever the receiver is about to answer. *)
LEMMA AnswerIsHeard == IInv => SenderIsWaiting
BY DEF IInv, TypeOK, SenderPC, RunInv, BeforeMajor, RoundTrip, AfterAnswer,
       AfterMajor, InSameMajor, ReceiverAhead, SenderIsWaiting

(* Each signal of the sender finds the receiver in its wait, and each      *)
(* answer of the receiver finds the sender in its wait.                    *)
THEOREM NoSignalLost == Spec => []SignalsFindWaiters
<1>1. (~spurious => IInv) => SignalsFindWaiters
  <2>1. IInv => ReceiverIsWaiting
    BY DEF IInv, RoundTrip, InSameMajor, ReceiverIsWaiting
  <2> QED
    BY <2>1, AnswerIsHeard DEF SignalsFindWaiters
<1> QED
  BY Invariance, <1>1, PTL

(* Each time that is recorded covers the round trips that were asked for. *)
THEOREM ExactTimes == Spec => []TimedRoundTrips
<1>1. (~spurious => IInv) => TimedRoundTrips
  BY DEF IInv, CountInv, TimedRoundTrips
<1> QED
  BY Invariance, <1>1, PTL

(* The hand-over implements the alternation that the test times. *)
THEOREM HandOver == Spec => Alternates
<1>1. Init => Trip!Init
  BY DEF Init, Trip!Init, Turn, Trips
<1>2. (~spurious => IInv) /\ [Next]_vars => [Trip!Next]_<< Turn, Trips >>
  <2> SUFFICES ASSUME ~spurious => IInv, [Next]_vars
               PROVE [Trip!Next]_<< Turn, Trips >>
    OBVIOUS
  <2>1. spurious' = spurious
    BY DEF Next, Parent, Sender, Receiver, SpuriousWakeup, vars, envVars
  <2>2. CASE spurious
    BY <2>1, <2>2 DEF Turn, Trips
  <2>3. CASE ~spurious /\ SenderSignal
    <3>1. sent = answered /\ sent' = sent + 1 /\ answered' = answered
      BY <2>3 DEF SenderSignal, IInv, CountInv
    <3>2. sent \in Nat
      BY <2>3 DEF IInv, TypeOK
    <3> QED
      BY <2>1, <2>3, <3>1, <3>2 DEF Trip!Next, Trip!Dispatch, Turn, Trips
  <2>4. CASE ~spurious /\ ReceiverAnswer
    <3>1. spc = "waiting"
      BY <2>4, AnswerIsHeard DEF ReceiverAnswer, SenderIsWaiting
    <3>2. sent = answered + 1 /\ sent' = sent /\ answered' = answered + 1
      BY <2>4, <3>1 DEF ReceiverAnswer, IInv, CountInv
    <3>3. answered \in Nat
      BY <2>4 DEF IInv, TypeOK
    <3> QED
      BY <2>1, <2>4, <3>2, <3>3 DEF Trip!Next, Trip!Return, Turn, Trips
  <2>5. CASE ~SenderSignal /\ ~ReceiverAnswer
    <3>1. sent' = sent /\ answered' = answered
      BY <2>5
      DEF Next, Parent, Sender, Receiver, vars, tripVars, StartThreads,
          JoinThreads, TooFast, Accept, Reject, WaitTillReceiverStarted,
          SenderReadsClock, SenderLock, SenderWait, SenderResume,
          SenderUnlock, SenderRecords, ReceiverLock,
          SetReceiverStarted, ReceiverWait, ReceiverResume, ReceiverUnlock,
          SpuriousWakeup, ReadySpuriousWakeup, NotifySpuriousWakeup
    <3> QED
      BY <2>1, <3>1 DEF Turn, Trips
  <2> QED
    BY <2>2, <2>3, <2>4, <2>5
<1> QED
  BY <1>1, <1>2, Invariance, PTL DEF Spec, Alternates, Trip!Spec

-----------------------------------------------------------------------------
(* With spurious wakeups as well: the announcements of the receiver.       *)

(* The test starts with no thread, no announcement and free locks. *)
LEMMA InitAnyWakeup == Init => AnyWakeupInv
BY InitIInv, EventDispatchAssumption
DEF EventDispatchAssumption, IInv, Init, AnyWakeupInv, ThreadsInv, AnnouncementInv,
    Entered, Announced, Zero, Sides

(* Every variable has its type, and the attempts end in time. *)
LEMMA TypesStep == ASSUME AnyWakeupInv, [Next]_vars PROVE (TypeOK /\ Bounds)'
<1> USE EventDispatchAssumption DEF EventDispatchAssumption, AnyWakeupInv,
        TypeOK, Bounds, ThreadsInv, SenderPC, ReceiverPC, envVars, parentVars,
        tripVars
<1>1. CASE Parent
  <2>1. CASE StartThreads
    BY <1>1, <2>1 DEF Parent, StartThreads, Zero, Sides
  <2>2. CASE JoinThreads
    BY <1>1, <2>2 DEF Parent, JoinThreads
  <2>3. CASE TooFast
    BY <1>1, <2>3 DEF Parent, TooFast
  <2>4. CASE Accept
    BY <1>1, <2>4 DEF Parent, Accept
  <2>5. CASE Reject
    BY <1>1, <2>5 DEF Parent, Reject
  <2> QED
    BY <1>1, <2>1, <2>2, <2>3, <2>4, <2>5 DEF Parent
<1>2. CASE Sender
  <2>1. CASE WaitTillReceiverStarted
    BY <1>2, <2>1 DEF Sender, WaitTillReceiverStarted, AfterAnnouncement
  <2>2. CASE SenderReadsClock
    BY <1>2, <2>2 DEF Sender, SenderReadsClock
  <2>3. CASE SenderLock
    BY <1>2, <2>3 DEF Sender, SenderLock, Acquire, Sides
  <2>4. CASE SenderSignal
    BY <1>2, <2>4 DEF Sender, SenderSignal, SignalNotify
  <2>5. CASE SenderWait
    BY <1>2, <2>5 DEF Sender, SenderWait, Release, Sides
  <2>6. CASE SenderResume
    BY <1>2, <2>6 DEF Sender, SenderResume, Acquire, Sides
  <2>7. CASE SenderUnlock
    BY <1>2, <2>7 DEF Sender, SenderUnlock, Release, Sides
  <2>8. CASE SenderRecords
    BY <1>2, <2>8 DEF Sender, SenderRecords, Sides
  <2> QED
    BY <1>2, <2>1, <2>2, <2>3, <2>4, <2>5, <2>6, <2>7, <2>8 DEF Sender
<1>3. CASE Receiver
  <2>1. CASE ReceiverLock
    BY <1>3, <2>1 DEF Receiver, ReceiverLock, Acquire, Sides
  <2>2. CASE SetReceiverStarted
    BY <1>3, <2>2 DEF Receiver, SetReceiverStarted
  <2>3. CASE ReceiverWait
    BY <1>3, <2>3 DEF Receiver, ReceiverWait, Release, Sides
  <2>4. CASE ReceiverResume
    BY <1>3, <2>4 DEF Receiver, ReceiverResume, Acquire, Sides
  <2>5. CASE ReceiverAnswer
    BY <1>3, <2>5 DEF Receiver, ReceiverAnswer, SignalNotify, Sides
  <2>6. CASE ReceiverUnlock
    BY <1>3, <2>6 DEF Receiver, ReceiverUnlock, Release, Sides
  <2> QED
    BY <1>3, <2>1, <2>2, <2>3, <2>4, <2>5, <2>6 DEF Receiver
<1>4. CASE SpuriousWakeup
  BY <1>4 DEF SpuriousWakeup, ReadySpuriousWakeup, NotifySpuriousWakeup
<1>5. CASE UNCHANGED vars
  BY <1>5 DEF vars
<1> QED
  BY <1>1, <1>2, <1>3, <1>4, <1>5 DEF Next

(* Who owns the lock is where an owner can be, however a wait returns. *)
LEMMA LockStep == ASSUME AnyWakeupInv, [Next]_vars PROVE LockInv'
<1> USE EventDispatchAssumption DEF EventDispatchAssumption, AnyWakeupInv,
        TypeOK, Bounds, ThreadsInv, SenderPC, ReceiverPC, LockInv, envVars,
        parentVars, tripVars
<1>1. CASE Parent
  <2>1. CASE StartThreads
    BY <1>1, <2>1 DEF Parent, StartThreads, Zero, Sides
  <2>2. CASE JoinThreads
    BY <1>1, <2>2 DEF Parent, JoinThreads
  <2>3. CASE TooFast
    BY <1>1, <2>3 DEF Parent, TooFast
  <2>4. CASE Accept
    BY <1>1, <2>4 DEF Parent, Accept
  <2>5. CASE Reject
    BY <1>1, <2>5 DEF Parent, Reject
  <2> QED
    BY <1>1, <2>1, <2>2, <2>3, <2>4, <2>5 DEF Parent
<1>2. CASE Sender
  <2>1. CASE WaitTillReceiverStarted
    BY <1>2, <2>1 DEF Sender, WaitTillReceiverStarted, AfterAnnouncement
  <2>2. CASE SenderReadsClock
    BY <1>2, <2>2 DEF Sender, SenderReadsClock
  <2>3. CASE SenderLock
    BY <1>2, <2>3 DEF Sender, SenderLock, Acquire
  <2>4. CASE SenderSignal
    BY <1>2, <2>4 DEF Sender, SenderSignal, SignalNotify
  <2>5. CASE SenderWait
    BY <1>2, <2>5 DEF Sender, SenderWait, Release
  <2>6. CASE SenderResume
    BY <1>2, <2>6 DEF Sender, SenderResume, Acquire, Sides
  <2>7. CASE SenderUnlock
    BY <1>2, <2>7 DEF Sender, SenderUnlock, Release
  <2>8. CASE SenderRecords
    BY <1>2, <2>8 DEF Sender, SenderRecords, Sides
  <2> QED
    BY <1>2, <2>1, <2>2, <2>3, <2>4, <2>5, <2>6, <2>7, <2>8 DEF Sender
<1>3. CASE Receiver
  <2>1. CASE ReceiverLock
    BY <1>3, <2>1 DEF Receiver, ReceiverLock, Acquire
  <2>2. CASE SetReceiverStarted
    BY <1>3, <2>2 DEF Receiver, SetReceiverStarted
  <2>3. CASE ReceiverWait
    BY <1>3, <2>3 DEF Receiver, ReceiverWait, Release
  <2>4. CASE ReceiverResume
    BY <1>3, <2>4 DEF Receiver, ReceiverResume, Acquire
  <2>5. CASE ReceiverAnswer
    BY <1>3, <2>5 DEF Receiver, ReceiverAnswer, SignalNotify, Sides
  <2>6. CASE ReceiverUnlock
    BY <1>3, <2>6 DEF Receiver, ReceiverUnlock, Release, Sides
  <2> QED
    BY <1>3, <2>1, <2>2, <2>3, <2>4, <2>5, <2>6 DEF Receiver
<1>4. CASE SpuriousWakeup
  BY <1>4 DEF SpuriousWakeup, ReadySpuriousWakeup, NotifySpuriousWakeup
<1>5. CASE UNCHANGED vars
  BY <1>5 DEF vars
<1> QED
  BY <1>1, <1>2, <1>3, <1>4, <1>5 DEF Next

(* How far the two threads have come, and that a run ends with the flag down. *)
LEMMA ThreadsStep == ASSUME AnyWakeupInv, [Next]_vars PROVE ThreadsInv'
<1> USE EventDispatchAssumption DEF EventDispatchAssumption, AnyWakeupInv,
        TypeOK, Bounds, ThreadsInv, SenderPC, ReceiverPC, AnnouncementInv,
        Entered, Announced, envVars, parentVars, tripVars
<1>1. CASE Parent
  <2>1. CASE StartThreads
    BY <1>1, <2>1 DEF Parent, StartThreads, Zero, Sides
  <2>2. CASE JoinThreads
    BY <1>1, <2>2 DEF Parent, JoinThreads
  <2>3. CASE TooFast
    BY <1>1, <2>3 DEF Parent, TooFast
  <2>4. CASE Accept
    BY <1>1, <2>4 DEF Parent, Accept
  <2>5. CASE Reject
    BY <1>1, <2>5 DEF Parent, Reject
  <2> QED
    BY <1>1, <2>1, <2>2, <2>3, <2>4, <2>5 DEF Parent
<1>2. CASE Sender
  <2>1. CASE WaitTillReceiverStarted
    BY <1>2, <2>1 DEF Sender, WaitTillReceiverStarted, AfterAnnouncement
  <2>2. CASE SenderReadsClock
    BY <1>2, <2>2 DEF Sender, SenderReadsClock
  <2>3. CASE SenderLock
    BY <1>2, <2>3 DEF Sender, SenderLock, Acquire
  <2>4. CASE SenderSignal
    BY <1>2, <2>4 DEF Sender, SenderSignal, SignalNotify
  <2>5. CASE SenderWait
    BY <1>2, <2>5 DEF Sender, SenderWait, Release
  <2>6. CASE SenderResume
    BY <1>2, <2>6 DEF Sender, SenderResume, Acquire, Sides
  <2>7. CASE SenderUnlock
    BY <1>2, <2>7 DEF Sender, SenderUnlock, Release
  <2>8. CASE SenderRecords
    BY <1>2, <2>8 DEF Sender, SenderRecords, Sides
  <2> QED
    BY <1>2, <2>1, <2>2, <2>3, <2>4, <2>5, <2>6, <2>7, <2>8 DEF Sender
<1>3. CASE Receiver
  <2>1. CASE ReceiverLock
    BY <1>3, <2>1 DEF Receiver, ReceiverLock, Acquire
  <2>2. CASE SetReceiverStarted
    BY <1>3, <2>2 DEF Receiver, SetReceiverStarted
  <2>3. CASE ReceiverWait
    BY <1>3, <2>3 DEF Receiver, ReceiverWait, Release
  <2>4. CASE ReceiverResume
    BY <1>3, <2>4 DEF Receiver, ReceiverResume, Acquire
  <2>5. CASE ReceiverAnswer
    BY <1>3, <2>5 DEF Receiver, ReceiverAnswer, SignalNotify, Sides
  <2>6. CASE ReceiverUnlock
    BY <1>3, <2>6 DEF Receiver, ReceiverUnlock, Release, Sides
  <2> QED
    BY <1>3, <2>1, <2>2, <2>3, <2>4, <2>5, <2>6 DEF Receiver
<1>4. CASE SpuriousWakeup
  BY <1>4 DEF SpuriousWakeup, ReadySpuriousWakeup, NotifySpuriousWakeup
<1>5. CASE UNCHANGED vars
  BY <1>5 DEF vars
<1> QED
  BY <1>1, <1>2, <1>3, <1>4, <1>5 DEF Next

(* The sender uses up an announcement with each major iteration it enters. *)
LEMMA AnnouncementStep == ASSUME AnyWakeupInv, [Next]_vars PROVE AnnouncementInv'
<1> USE EventDispatchAssumption DEF EventDispatchAssumption, AnyWakeupInv,
        TypeOK, Bounds, ThreadsInv, SenderPC, ReceiverPC, AnnouncementInv,
        Entered, Announced, envVars, parentVars, tripVars
<1>1. CASE Parent
  <2>1. CASE StartThreads
    BY <1>1, <2>1 DEF Parent, StartThreads, Zero, Sides
  <2>2. CASE JoinThreads
    BY <1>1, <2>2 DEF Parent, JoinThreads
  <2>3. CASE TooFast
    BY <1>1, <2>3 DEF Parent, TooFast
  <2>4. CASE Accept
    BY <1>1, <2>4 DEF Parent, Accept
  <2>5. CASE Reject
    BY <1>1, <2>5 DEF Parent, Reject
  <2> QED
    BY <1>1, <2>1, <2>2, <2>3, <2>4, <2>5 DEF Parent
<1>2. CASE Sender
  <2>1. CASE WaitTillReceiverStarted
    BY <1>2, <2>1 DEF Sender, WaitTillReceiverStarted, AfterAnnouncement, Sides
  <2>2. CASE SenderReadsClock
    BY <1>2, <2>2 DEF Sender, SenderReadsClock
  <2>3. CASE SenderLock
    BY <1>2, <2>3 DEF Sender, SenderLock, Acquire
  <2>4. CASE SenderSignal
    BY <1>2, <2>4 DEF Sender, SenderSignal, SignalNotify
  <2>5. CASE SenderWait
    BY <1>2, <2>5 DEF Sender, SenderWait, Release
  <2>6. CASE SenderResume
    BY <1>2, <2>6 DEF Sender, SenderResume, Acquire, Sides
  <2>7. CASE SenderUnlock
    BY <1>2, <2>7 DEF Sender, SenderUnlock, Release
  <2>8. CASE SenderRecords
    BY <1>2, <2>8 DEF Sender, SenderRecords, Sides
  <2> QED
    BY <1>2, <2>1, <2>2, <2>3, <2>4, <2>5, <2>6, <2>7, <2>8 DEF Sender
<1>3. CASE Receiver
  <2>1. CASE ReceiverLock
    BY <1>3, <2>1 DEF Receiver, ReceiverLock, Acquire
  <2>2. CASE SetReceiverStarted
    BY <1>3, <2>2 DEF Receiver, SetReceiverStarted, Sides
  <2>3. CASE ReceiverWait
    BY <1>3, <2>3 DEF Receiver, ReceiverWait, Release
  <2>4. CASE ReceiverResume
    BY <1>3, <2>4 DEF Receiver, ReceiverResume, Acquire
  <2>5. CASE ReceiverAnswer
    BY <1>3, <2>5 DEF Receiver, ReceiverAnswer, SignalNotify, Sides
  <2>6. CASE ReceiverUnlock
    BY <1>3, <2>6 DEF Receiver, ReceiverUnlock, Release, Sides
  <2> QED
    BY <1>3, <2>1, <2>2, <2>3, <2>4, <2>5, <2>6 DEF Receiver
<1>4. CASE SpuriousWakeup
  BY <1>4 DEF SpuriousWakeup, ReadySpuriousWakeup, NotifySpuriousWakeup
<1>5. CASE UNCHANGED vars
  BY <1>5 DEF vars
<1> QED
  BY <1>1, <1>2, <1>3, <1>4, <1>5 DEF Next

(* How the threads stand to each other, whether wakeups are spurious or not. *)
THEOREM AnyWakeup == Spec => []AnyWakeupInv
<1>1. AnyWakeupInv /\ [Next]_vars => AnyWakeupInv'
  BY TypesStep, LockStep, ThreadsStep, AnnouncementStep DEF AnyWakeupInv
<1> QED
  BY InitAnyWakeup, <1>1, PTL DEF Spec

(* Every variable keeps its type. *)
THEOREM TypeCorrect == Spec => []TypeOK
<1>1. AnyWakeupInv => TypeOK
  BY DEF AnyWakeupInv
<1> QED
  BY AnyWakeup, <1>1, PTL

(* Even with spurious wakeups the sender enters a major iteration only     *)
(* after the receiver has announced itself for that same iteration.        *)
THEOREM AnnouncedFirst == Spec => []SenderAwaitsAnnouncement
<1>1. AnyWakeupInv => SenderAwaitsAnnouncement
  BY DEF AnyWakeupInv, TypeOK, Sides, ReceiverPC, ThreadsInv, AnnouncementInv, Entered,
         Announced, SenderAwaitsAnnouncement
<1> QED
  BY AnyWakeup, <1>1, PTL

(* The static flag is down and the locks are free between two runs, even   *)
(* when wakeups were spurious.                                             *)
THEOREM NothingLeftBehind == Spec => []CleanBetweenRuns
<1>1. AnyWakeupInv => CleanBetweenRuns
  BY DEF AnyWakeupInv, TypeOK, Sides, LockInv, ThreadsInv, CleanBetweenRuns
<1> QED
  BY AnyWakeup, <1>1, PTL

(* A thread holds the lock only where it goes on. *)
LEMMA OwnersGoOn ==
  AnyWakeupInv /\ SenderBlocked /\ ReceiverBlocked => nlock = "free"
BY DEF AnyWakeupInv, TypeOK, Sides, LockInv, SenderBlocked, ReceiverBlocked

(* The threads never both wait, for the lock, for the announcement or for  *)
(* each other's signal, and none waits for a thread that has ended,        *)
(* whether wakeups are spurious or not.                                    *)
THEOREM NoDeadlock == Spec => []NeverAllWait
<1>1. AnyWakeupInv /\ (~spurious => IInv) => NeverAllWait
  <2> SUFFICES ASSUME AnyWakeupInv, ~spurious => IInv,
                      ParentBlocked, SenderBlocked, ReceiverBlocked, ppc # "end"
               PROVE FALSE
    BY DEF NeverAllWait
  <2>1. nlock = "free"
    BY OwnersGoOn
  <2>2. /\ ppc = "join" /\ spc # "off" /\ rpc # "off"
        /\ ~(spc = "end" /\ rpc = "end")
    BY DEF ParentBlocked, AnyWakeupInv, ThreadsInv
  <2>3. spc \in {"readywait", "waiting", "end"} /\ rpc \in {"waiting", "end"}
    BY <2>1, <2>2 DEF SenderBlocked, ReceiverBlocked
  <2>4. IInv
    BY <2>2, <2>3 DEF SenderBlocked, ReceiverBlocked
  <2>5. CASE spc = "end"
    BY <2>2, <2>4, <2>5 DEF IInv, RunInv
  <2>6. CASE spc = "waiting"
    BY <2>3, <2>4, <2>6 DEF IInv, RoundTrip, InSameMajor
  <2>7. CASE spc = "readywait"
    BY <2>3, <2>4, <2>7 DEF IInv, BeforeMajor, InSameMajor
  <2> QED
    BY <2>3, <2>5, <2>6, <2>7
<1> QED
  BY <1>1, AnyWakeup, Invariance, PTL
=============================================================================
