------------------------------- MODULE Helpers -------------------------------
(***************************************************************************)
(* The tests that start helpers for every CPU, wait until all have ended   *)
(* and judge what those that are measured have left:                       *)
(*   "processes"  multi_cpu of the C++ port (multi_cpu_test.cpp,           *)
(*                multi_cpu_impl.cpp): children that write files, reaped   *)
(*                with waitpid;                                            *)
(*   "threads"    MultiCpuTest of the Java port with                       *)
(*                MultiCpuHelperThread: threads that count themselves and  *)
(*                run a process each that writes a file;                   *)
(*   "workers"    GarbageGenerationTest of the Java port with GCWorker:    *)
(*                threads that the parent counts.                          *)
(*                                                                         *)
(* Helper i of the upper half is measured; the lower half, which disturbs  *)
(* them, is started first and is not there in "workers".  A file, or the   *)
(* object a worker adds its times to, is the attempt that its times are    *)
(* from.  A helper of an attempt that was given up may live on.            *)
(***************************************************************************)
EXTENDS Naturals, FiniteSets

CONSTANTS
  Cpus,        \* onlineCpus
  Threshold    \* the threshold of the test; a bound in "workers", where an
               \* attempt with times too short does not count

ASSUME HelpersAssumption ==
  /\ Cpus \in Nat \ {0}
  /\ Threshold \in Nat \ {0}

VARIABLES
  kind,
  ppc,         \* where the parent is
  attempt,
  next,        \* the helper it starts or scans next
  left,        \* childsToExit
  counter,
  parentRead,  \* counter as incrementCounter has read it
  workerRead,  \* counter as decrementCounter has read it
  helper,      \* of each attempt
  file,        \* what each measured helper has left; 0 is nothing
  scanned,     \* what the parent has read of it
  spoils       \* what has gone wrong so far (history)

countVars == << counter, parentRead, workerRead >>
dataVars == << file, scanned >>
vars == << kind, ppc, attempt, next, left, countVars, helper, dataVars, spoils >>

Attempts == 1 .. Threshold
Measured == Cpus + 1 .. 2 * Cpus

First == IF kind = "workers" THEN Cpus + 1 ELSE 1

Nothing == [i \in Measured |-> 0]

Init ==
  /\ kind \in {"processes", "threads", "workers"}
  /\ ppc = "begin" /\ attempt = 0 /\ next = 1 /\ left = 0
  /\ counter = 0 /\ parentRead = 0 /\ workerRead = 0
  /\ helper = [k \in Attempts |-> [i \in 1 .. 2 * Cpus |-> "none"]]
  /\ file = Nothing /\ scanned = Nothing
  /\ spoils = {}

Becomes(k, i, state) == helper' = [helper EXCEPT ![k][i] = state]

Goto(pc) == ppc' = pc /\ UNCHANGED << kind, attempt >>

-----------------------------------------------------------------------------
(* The parent: benchMarkTest, or multi_cpu and runMultiCpuTest.            *)

(* The objects the workers add to are emptied first.                       *)
BeginAttempt ==
  /\ ppc = "begin" /\ attempt < Threshold
  /\ ppc' = "start" /\ attempt' = attempt + 1 /\ next' = First /\ left' = 0
  /\ scanned' = Nothing
  /\ file' = IF kind = "workers" THEN Nothing ELSE file
  /\ UNCHANGED << kind, countVars, helper, spoils >>

OutOfAttempts ==
  /\ ppc = "begin" /\ attempt = Threshold
  /\ Goto("ended")
  /\ UNCHANGED << next, left, countVars, helper, dataVars, spoils >>

StartHelper ==
  /\ ppc = "start" /\ kind # "workers" /\ next <= 2 * Cpus
  /\ Becomes(attempt, next, "ready")
  /\ next' = next + 1 /\ left' = left + 1
  /\ UNCHANGED << kind, ppc, attempt, countVars, dataVars, spoils >>

(* fork fails: abort.                                                      *)
ForkFails ==
  /\ ppc = "start" /\ kind = "processes" /\ next <= 2 * Cpus
  /\ Goto("ended")
  /\ UNCHANGED << next, left, countVars, helper, dataVars, spoils >>

(* incrementCounter holds the lock of the class, which no worker takes.    *)
ReadCounter ==
  /\ ppc = "start" /\ kind = "workers" /\ next <= 2 * Cpus
  /\ parentRead' = counter
  /\ Goto("counting")
  /\ UNCHANGED << next, left, counter, workerRead, helper, dataVars, spoils >>

Lost == IF counter # parentRead THEN {"lost update"} ELSE {}

StartWorker ==
  /\ ppc = "counting"
  /\ counter' = parentRead + 1
  /\ spoils' = spoils \cup Lost
  /\ Becomes(attempt, next, "ready")
  /\ next' = next + 1
  /\ Goto("start")
  /\ UNCHANGED << left, parentRead, workerRead, dataVars >>

AllStarted ==
  /\ ppc = "start" /\ next > 2 * Cpus
  /\ Goto(IF kind = "processes" THEN "reap" ELSE "await")
  /\ UNCHANGED << next, left, countVars, helper, dataVars, spoils >>

\* A mutant: Reaped that takes any child for one of this attempt.
ReapedAny(k) == left' = left - 1

(* A child of an earlier attempt has none of the pids.                     *)
Reaped(k) == left' = IF k = attempt THEN left - 1 ELSE left

(* waitpid(-1)                                                             *)
Reap ==
  /\ ppc = "reap" /\ left > 0
  /\ \E k \in Attempts, i \in 1 .. 2 * Cpus :
       /\ helper[k][i] = "ended"
       /\ Becomes(k, i, "reaped")
       /\ Reaped(k)
  /\ UNCHANGED << kind, ppc, attempt, next, countVars, dataVars, spoils >>

(* The attempt is given up at the first child that ended abnormally.       *)
ReapFailed ==
  /\ ppc = "reap" /\ left > 0
  /\ \E k \in Attempts, i \in 1 .. 2 * Cpus :
       /\ helper[k][i] = "failed"
       /\ Becomes(k, i, "reaped")
  /\ spoils' = spoils \cup {"left behind"}
  /\ Goto("begin")
  /\ UNCHANGED << next, left, countVars, dataVars >>

AllReaped ==
  /\ ppc = "reap" /\ left = 0
  /\ next' = Cpus + 1
  /\ Goto("scan")
  /\ UNCHANGED << left, countVars, helper, dataVars, spoils >>

LockFree == \A k \in Attempts, i \in Measured : helper[k][i] # "uncounting"

(* The loop around wait, in its lock.                                      *)
Await ==
  /\ ppc = "await" /\ LockFree
  /\ IF counter > 0 THEN Goto("asleep") /\ UNCHANGED next
                    ELSE Goto("scan") /\ next' = Cpus + 1
  /\ UNCHANGED << left, countVars, helper, dataVars, spoils >>

SpuriousWakeup ==
  /\ ppc = "asleep"
  /\ Goto("await")
  /\ UNCHANGED << next, left, countVars, helper, dataVars, spoils >>

(* scanFile of the C++ port never fails, and the file is removed; that of  *)
(* the Java port throws TestIncompleteException when a time is not there.  *)
Scan ==
  /\ ppc = "scan" /\ next <= 2 * Cpus
  /\ kind = "threads" => file[next] # 0
  /\ scanned' = [scanned EXCEPT ![next] = file[next]]
  /\ file' = IF kind = "processes" THEN [file EXCEPT ![next] = 0] ELSE file
  /\ next' = next + 1
  /\ UNCHANGED << kind, ppc, attempt, left, countVars, helper, spoils >>

Incomplete ==
  /\ ppc = "scan" /\ next <= 2 * Cpus
  /\ kind = "threads" /\ file[next] = 0
  /\ Goto("ended")
  /\ UNCHANGED << next, left, countVars, helper, dataVars, spoils >>

AllScanned ==
  /\ ppc = "scan" /\ next > 2 * Cpus
  /\ Goto("judge")
  /\ UNCHANGED << next, left, countVars, helper, dataVars, spoils >>

(* The retry of MultiCpuTest ends in an ArrayIndexOutOfBoundsException.    *)
Judge ==
  /\ ppc = "judge"
  /\ Goto("ended") \/ (kind # "threads" /\ Goto("begin"))
  /\ UNCHANGED << next, left, countVars, helper, dataVars, spoils >>

Parent ==
  \/ BeginAttempt \/ OutOfAttempts \/ StartHelper \/ ForkFails \/ ReadCounter
  \/ StartWorker \/ AllStarted \/ Reap \/ ReapFailed \/ AllReaped \/ Await
  \/ Scan \/ Incomplete \/ AllScanned \/ Judge

-----------------------------------------------------------------------------
(* Helper i of attempt k.                                                  *)
Is(k, i, state) == helper[k][i] = state

(* A helper thread counts itself when it begins to run.                    *)
CountItself(k, i) ==
  /\ Is(k, i, "ready") /\ kind = "threads"
  /\ counter' = counter + 1
  /\ Becomes(k, i, "running")
  /\ UNCHANGED << kind, ppc, attempt, next, left, parentRead, workerRead, dataVars, spoils >>

(* What it measures it leaves where the parent looks for it.               *)
Work(k, i) ==
  /\ Is(k, i, IF kind = "threads" THEN "running" ELSE "ready")
  /\ file' = IF i \in Measured THEN [file EXCEPT ![i] = k] ELSE file
  /\ Becomes(k, i, IF kind = "processes" THEN "ended" ELSE "leaving")
  /\ UNCHANGED << kind, ppc, attempt, next, left, countVars, scanned, spoils >>

(* The process of a helper thread fails: it says so and goes on.           *)
WorkFails(k, i) ==
  /\ Is(k, i, "running")
  /\ Becomes(k, i, "leaving")
  /\ UNCHANGED << kind, ppc, attempt, next, left, countVars, dataVars, spoils >>

(* execlp fails, or the child is killed.                                   *)
ChildFails(k, i) ==
  /\ Is(k, i, "ready") /\ kind = "processes"
  /\ Becomes(k, i, "failed")
  /\ UNCHANGED << kind, ppc, attempt, next, left, countVars, dataVars, spoils >>

(* A child without a thread, or without a file, exits as if all was well.  *)
ChildSilent(k, i) ==
  /\ Is(k, i, "ready") /\ kind = "processes"
  /\ Becomes(k, i, "ended")
  /\ spoils' = spoils \cup {"silent"}
  /\ UNCHANGED << kind, ppc, attempt, next, left, countVars, dataVars >>

(* decrementCounter and getCounter of MultiCpuTest, each in the monitor.   *)
UncountItself(k, i) ==
  /\ Is(k, i, "leaving") /\ kind = "threads"
  /\ counter' = counter - 1
  /\ Becomes(k, i, "looking")
  /\ UNCHANGED << kind, ppc, attempt, next, left, parentRead, workerRead, dataVars, spoils >>

Look(k, i) ==
  /\ Is(k, i, "looking")
  /\ Becomes(k, i, IF counter = 0 THEN "notifying" ELSE "ended")
  /\ UNCHANGED << kind, ppc, attempt, next, left, countVars, dataVars, spoils >>

Wakes == IF ppc = "asleep" THEN "await" ELSE ppc

NotifyParent(k, i) ==
  /\ Is(k, i, "notifying")
  /\ Becomes(k, i, "ended")
  /\ ppc' = Wakes
  /\ UNCHANGED << kind, attempt, next, left, countVars, dataVars, spoils >>

(* decrementCounter of GarbageGenerationTest, in lockObject.               *)
BeginUncount(k, i) ==
  /\ Is(k, i, "leaving") /\ kind = "workers" /\ LockFree
  /\ workerRead' = counter
  /\ Becomes(k, i, IF counter > 0 THEN "uncounting" ELSE "ended")
  /\ UNCHANGED << kind, ppc, attempt, next, left, counter, parentRead, dataVars, spoils >>

\* A mutant: EndUncount that forgets the notification.
EndUncountSilently(k, i) ==
  /\ Is(k, i, "uncounting")
  /\ counter' = workerRead - 1
  /\ spoils' = spoils \cup IF counter # workerRead THEN {"lost update"} ELSE {}
  /\ Becomes(k, i, "ended")
  /\ UNCHANGED << kind, ppc, attempt, next, left, parentRead, workerRead, dataVars >>

EndUncount(k, i) ==
  /\ Is(k, i, "uncounting")
  /\ counter' = workerRead - 1
  /\ spoils' = spoils \cup IF counter # workerRead THEN {"lost update"} ELSE {}
  /\ ppc' = IF counter' = 0 THEN Wakes ELSE ppc
  /\ Becomes(k, i, "ended")
  /\ UNCHANGED << kind, attempt, next, left, parentRead, workerRead, dataVars >>

Helper(k, i) ==
  \/ CountItself(k, i) \/ Work(k, i) \/ WorkFails(k, i) \/ ChildFails(k, i)
  \/ ChildSilent(k, i) \/ UncountItself(k, i) \/ Look(k, i)
  \/ NotifyParent(k, i) \/ BeginUncount(k, i) \/ EndUncount(k, i)

Next ==
  \/ Parent
  \/ SpuriousWakeup
  \/ \E k \in Attempts, i \in 1 .. 2 * Cpus : Helper(k, i)

Spec == Init /\ [][Next]_vars

(* The operating system runs every thread and process that can run.        *)
FairSpec ==
  /\ Spec
  /\ WF_vars(Parent)
  /\ \A k \in Attempts, i \in 1 .. 2 * Cpus : WF_vars(Helper(k, i))

-----------------------------------------------------------------------------
ParentTypes ==
  /\ kind \in {"processes", "threads", "workers"}
  /\ ppc \in {"begin", "start", "counting", "reap", "await", "asleep", "scan",
              "judge", "ended"}
  /\ attempt \in 0 .. Threshold
  /\ next \in 1 .. 2 * Cpus + 1 /\ left \in 0 .. 2 * Cpus
  /\ counter \in Nat /\ parentRead \in Nat /\ workerRead \in Nat

States == {"none", "ready", "running", "leaving", "uncounting", "looking",
           "notifying", "ended", "failed", "reaped"}

HelperTypes ==
  /\ helper \in [Attempts -> [1 .. 2 * Cpus -> States]]
  /\ file \in [Measured -> 0 .. Threshold]
  /\ scanned \in [Measured -> 0 .. Threshold]
  /\ spoils \subseteq {"left behind", "silent", "lost update"}

TypeOK == ParentTypes /\ HelperTypes

(* The verdict is taken on times of this attempt alone: every child of the *)
(* attempt has been reaped, whichever other children waitpid answers with, *)
(* no helper is missing although the Java port counts them without joining *)
(* them, and nothing in a file or an object is older, unless children of   *)
(* an earlier attempt live, a child kept silent or the counter is wrong.   *)
OwnResults ==
  ppc = "judge" =>
    /\ kind = "processes" =>
         \A i \in 1 .. 2 * Cpus : helper[attempt][i] = "reaped"
    /\ spoils = {} => \A i \in Measured : scanned[i] = attempt

(* What makes OwnResults inductive, part by part.  A helper of the attempt *)
(* that the parent has started and that is not yet accounted for: a child  *)
(* that was not reaped, a thread that has counted itself and not yet       *)
(* uncounted, a worker that has been counted and is not yet uncounted.     *)
Pending ==
  CASE kind = "processes" -> {"ready", "ended", "failed"}
    [] kind = "threads"   -> {"running", "leaving"}
    [] kind = "workers"   -> {"ready", "leaving", "uncounting"}

Out ==
  {i \in 1 .. 2 * Cpus : attempt \in Attempts /\ helper[attempt][i] \in Pending}

(* Where the parent can be, and how far its loops have come.               *)
ParentInv ==
  /\ ppc = "reap" => kind = "processes"
  /\ ppc = "counting" => kind = "workers"
  /\ ppc \in {"await", "asleep"} => kind # "processes"
  /\ ppc \notin {"begin", "ended"} => attempt > 0
  /\ kind = "threads" => attempt <= 1 /\ (ppc = "begin" => attempt = 0)
  /\ ppc \in {"start", "counting"} => next >= First
  /\ ppc = "counting" => next <= 2 * Cpus
  /\ ppc = "start" /\ kind # "workers" => left = next - 1
  /\ ppc = "scan" => next > Cpus
  /\ ppc = "judge" => next > 2 * Cpus

(* Where the helpers of each kind can be, and which were started.          *)
StatesOf ==
  CASE kind = "processes" -> {"none", "ready", "ended", "failed", "reaped"}
    [] kind = "threads"   -> {"none", "ready", "running", "leaving", "looking",
                              "notifying", "ended"}
    [] kind = "workers"   -> {"none", "ready", "leaving", "uncounting", "ended"}

Started(i) == ppc \in {"start", "counting"} => i < next

HelperInv(k, i) ==
  /\ helper[k][i] \in StatesOf
  /\ k > attempt \/ i < First => helper[k][i] = "none"
  /\ k = attempt /\ ~Started(i) => helper[k][i] = "none"
  /\ k = attempt /\ i >= First /\ Started(i) /\ ppc # "ended" =>
       helper[k][i] # "none"

HelpersInv == \A k \in Attempts, i \in 1 .. 2 * Cpus : HelperInv(k, i)

(* The count of the parent is that of the helpers it waits for.            *)
CountsInv ==
  /\ kind = "processes" /\ ppc \in {"start", "reap"} => left = Cardinality(Out)
  /\ kind = "threads" => counter = Cardinality(Out)
  /\ kind = "workers" /\ spoils = {} => counter = Cardinality(Out)

(* What a worker in the monitor has read is not zero.                      *)
ReadInv == ~LockFree => workerRead > 0

(* When it has gone on it waits for none, and of the attempts before none  *)
(* lives on.                                                               *)
SettledInv ==
  /\ kind = "processes" /\ ppc \in {"scan", "judge"} => Out = {}
  /\ kind # "threads" /\ spoils = {} /\ ppc \in {"begin", "scan", "judge"} => Out = {}
  /\ spoils = {} => \A k \in Attempts, i \in 1 .. 2 * Cpus :
       k < attempt => helper[k][i] \in {"none", "ended", "reaped"}

(* What lies in the files and what was read of them.                       *)
FileInv(i) ==
  /\ kind = "processes" /\ ppc \in {"start", "reap"} =>
       (helper[attempt][i] \in {"ended", "reaped"} => file[i] = attempt)
  /\ kind = "threads" => file[i] \in {0, attempt}
  /\ kind = "workers" /\ attempt > 0 =>
       (helper[attempt][i] \in {"leaving", "uncounting", "ended"} => file[i] = attempt)
  /\ ppc = "scan" /\ kind = "processes" /\ i >= next => file[i] = attempt
  /\ ppc \in {"scan", "judge"} /\ i < next => scanned[i] = attempt

FilesInv == spoils = {} => \A i \in Measured : FileInv(i)

IInv ==
  /\ TypeOK /\ ParentInv /\ HelpersInv
  /\ CountsInv /\ ReadInv /\ SettledInv /\ FilesInv

(* The parent gets to an end whenever its helpers do, in spite of helpers  *)
(* that count themselves late, of children left behind and of wakeups that *)
(* nobody sent, unless the two locks of GarbageGenerationTest have let an  *)
(* update of the counter get lost.                                         *)
RunEnds == <>(ppc = "ended" \/ "lost update" \in spoils)
=============================================================================
