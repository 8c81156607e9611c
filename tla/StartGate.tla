------------------------------ MODULE StartGate ------------------------------
(***************************************************************************)
(* The start gate shared by the multi_thread and thread_priority tests of  *)
(* the C and C++ ports.  Worker threads announce themselves in a shared    *)
(* counter and wait on the condition variable tsyncers->cond; the parent   *)
(* polls the counter, broadcasts when everybody is there, and then sleeps  *)
(* on parent_sema->cond until the last worker to finish signals it.        *)
(*                                                                         *)
(* tsyncers->mutex has an owner (tmutex) because a worker holds it across  *)
(* steps.  Every section under parent_sema->mutex is one call between its  *)
(* lock and its unlock and is one step here, so that mutex needs no state. *)
(* The parent reads the counter with no lock held: a step of its own.      *)
(***************************************************************************)
EXTENDS Integers, FiniteSets

CONSTANTS
  Gated,     \* the threads that go through lock_inc_counter
  Solo,      \* the threads that skip it (multi_thread's last thread)
  Nobody     \* the owner of a free mutex

ASSUME GateAssumption ==
  /\ IsFiniteSet(Gated)
  /\ Gated # {}
  /\ Gated \cap Solo = {}
  /\ Nobody \notin Gated \cup Solo

VARIABLES
  env,       \* the port, and what the platform may do; never changes
  counter,   \* "static int counter"
  tmutex,    \* owner of tsyncers->mutex
  tpc,       \* where each thread is
  ppc        \* where the parent is

gateVars == << counter, tmutex, tpc, ppc >>

(* spurious: condition variables may wake without a signal.                *)
(* clockfail: get_cur_time may return ERROR (the C port only).             *)
Envs == {e \in [port : {"c", "cpp"}, spurious : BOOLEAN, clockfail : BOOLEAN] :
           e.clockfail => e.port = "c"}

Threads == Gated \cup Solo

ThreadPC == {"none", "new", "counted", "waiting", "woken", "work", "leave",
             "signal", "done"}

(* The threads that have incremented the counter and not decremented it.   *)
InsidePC == {"counted", "waiting", "woken", "work", "leave"}
Inside == {t \in Gated : tpc[t] \in InsidePC}

Goto(t, to) == tpc' = [tpc EXCEPT ![t] = to]

-----------------------------------------------------------------------------
(* lock_inc_counter: lock, count oneself, wait for the broadcast.  There   *)
(* is no predicate around the wait, so a spurious wakeup passes the gate.  *)

IncCounter(t) ==
  /\ tpc[t] = "new" /\ t \in Gated
  /\ tmutex = Nobody
  /\ tmutex' = t
  /\ counter' = counter + 1
  /\ Goto(t, "counted")
  /\ UNCHANGED ppc

\* A mutant: WaitForStart that sleeps with the mutex held.
WaitHoldingMutex(t) ==
  /\ tpc[t] = "counted"
  /\ Goto(t, "waiting")
  /\ UNCHANGED << counter, tmutex, ppc >>

WaitForStart(t) ==
  /\ tpc[t] = "counted"
  /\ tmutex' = Nobody
  /\ Goto(t, "waiting")
  /\ UNCHANGED << counter, ppc >>

SpuriousWakeup(t) ==
  /\ tpc[t] = "waiting"
  /\ Goto(t, "woken")
  /\ UNCHANGED << counter, tmutex, ppc >>

PassGate(t) ==
  /\ tpc[t] = "woken"
  /\ tmutex = Nobody
  /\ Goto(t, "work")
  /\ UNCHANGED << counter, tmutex, ppc >>

SkipGate(t) ==
  /\ tpc[t] = "new" /\ t \in Solo
  /\ Goto(t, "work")
  /\ UNCHANGED << counter, tmutex, ppc >>

-----------------------------------------------------------------------------
(* lock_dec_counter: the thread that brings the counter to zero signals    *)
(* the parent while it still holds tsyncers->mutex.                        *)

DecCounter(t) ==
  /\ tpc[t] = "leave"
  /\ tmutex = Nobody
  /\ counter' = counter - 1
  /\ IF counter - 1 = 0
       THEN tmutex' = t /\ Goto(t, "signal")
       ELSE tmutex' = tmutex /\ Goto(t, "done")
  /\ UNCHANGED ppc

(* A signal that finds no waiter is lost.                                  *)
SignalParent(t) ==
  /\ tpc[t] = "signal"
  /\ tmutex' = Nobody
  /\ Goto(t, "done")
  /\ ppc' = IF ppc = "parked" THEN "drain" ELSE ppc
  /\ UNCHANGED counter

-----------------------------------------------------------------------------
(* The parent.  The deadline of its pthread_cond_timedwait is the absolute *)
(* time of one second past the epoch, so the wait returns at once.         *)

\* A mutant: PollCounter that does not wait for the last thread.
PollOneShort ==
  /\ ppc = "poll"
  /\ ppc' = IF counter = Cardinality(Gated) - 1 THEN "broadcast" ELSE "pollwait"
  /\ UNCHANGED << counter, tmutex, tpc >>

PollCounter ==
  /\ ppc = "poll"
  /\ ppc' = IF counter = Cardinality(Gated) THEN "broadcast" ELSE "pollwait"
  /\ UNCHANGED << counter, tmutex, tpc >>

PollWait ==
  /\ ppc = "pollwait"
  /\ ppc' = "poll"
  /\ UNCHANGED << counter, tmutex, tpc >>

\* A mutant: Broadcast that does not take the mutex.
BroadcastUnlocked ==
  /\ ppc = "broadcast"
  /\ tpc' = [t \in Threads |-> IF tpc[t] = "waiting" THEN "woken" ELSE tpc[t]]
  /\ ppc' = "drain"
  /\ UNCHANGED << counter, tmutex >>

Broadcast ==
  /\ ppc = "broadcast"
  /\ tmutex = Nobody
  /\ tpc' = [t \in Threads |-> IF tpc[t] = "waiting" THEN "woken" ELSE tpc[t]]
  /\ ppc' = "drain"
  /\ UNCHANGED << counter, tmutex >>

(* while (counter != 0): the test is made outside parent_sema->mutex.      *)
DrainCheck(next) ==
  /\ ppc = "drain"
  /\ ppc' = IF counter = 0 THEN next ELSE "park"
  /\ UNCHANGED << counter, tmutex, tpc >>

Park ==
  /\ ppc = "park"
  /\ ppc' = "parked"
  /\ UNCHANGED << counter, tmutex, tpc >>

ParentSpuriousWakeup ==
  /\ ppc = "parked"
  /\ ppc' = "drain"
  /\ UNCHANGED << counter, tmutex, tpc >>
=============================================================================
