-------------------------- MODULE ConfigTestsProofs --------------------------
(***************************************************************************)
(* The config tests for every width of an int, every threshold and every   *)
(* machine: the least sleep is found, results are of the work that was     *)
(* measured, tests are judged fairly, and aborts have a reason.            *)
(***************************************************************************)
EXTENDS ConfigTests, FiniteSetTheorems, TLAPS

-----------------------------------------------------------------------------
(* The timer test, by the parts of its invariant.                          *)

(* Quanta are integers. *)
LEMMA Quanta ==
  ASSUME Timer!TypeOK PROVE env.least \in Nat /\ published.quantum \in Int
BY ConfigTestsAssumption DEF ConfigTestsAssumption, Timer!TypeOK, Timer!Envs

(* An attempt of the doubling loop of the C or C++ port, in what they share. *)
Attempted(o, passes, counts, next) ==
  /\ o \in Timer!Outcomes /\ o \in Timer!Run(tnum)
  /\ Timer!Attempt(o, passes, counts, next)
  /\ Timer!Good(o) => passes
  /\ env.port = "c" /\ passes => Timer!Good(o)
  /\ next = tnum \/ (env.port = "cpp" /\ next = prev /\ o.median = "below" /\ ~counts)

LEMMA Attempts ==
  ASSUME Timer!DoubleC \/ Timer!DoubleCpp
  PROVE  \E o, passes, counts, next : Attempted(o, passes, counts, next)
<1>1. CASE Timer!DoubleC
  <2>1. PICK o \in Timer!Run(tnum) :
          Timer!Attempt(o, Timer!Good(o), o.median = "above", tnum)
    BY <1>1 DEF Timer!DoubleC
  <2>2. Attempted(o, Timer!Good(o), o.median = "above", tnum)
    BY <2>1 DEF Attempted, Timer!Run
  <2> QED
    BY <2>2
<1>2. CASE Timer!DoubleCpp
  <2>1. PICK o \in Timer!Run(tnum) :
          Timer!Attempt(o, o.median # "below" /\ o.steady, o.median # "below",
                        IF o.median # "below" THEN tnum ELSE prev)
    BY <1>2 DEF Timer!DoubleCpp
  <2>2. Attempted(o, o.median # "below" /\ o.steady, o.median # "below",
                  IF o.median # "below" THEN tnum ELSE prev)
    BY <1>2, <2>1 DEF Attempted, Timer!Run, Timer!Good, Timer!DoubleCpp
  <2> QED
    BY <2>2
<1> QED
  BY <1>1, <1>2

(* The variables of the timer test keep their types. *)
LEMMA TimerTypes ==
  ASSUME Timer!IInv, Timer!Next PROVE Timer!TypeOK'
<1>0. Timer!TypeOK /\ Timer!Numbers /\ Timer!PhaseInv
  BY DEF Timer!IInv, Timer!TypeOK
<1> USE <1>0, ConfigTestsAssumption DEF ConfigTestsAssumption
<1>1. CASE Timer!Start
  BY <1>1 DEF Timer!Start, Timer!TypeOK, Timer!Numbers
<1>2. CASE Timer!DoubleC
  <2>1. PICK o, passes, counts, next : Attempted(o, passes, counts, next)
    BY <1>2, Attempts
  <2> USE <2>1 DEF Attempted, Timer!Attempt
  <2>2. UNCHANGED << env, altered >> /\ tphase' \in {"double", "search", "finish"}
    OBVIOUS
  <2>3. /\ tnum' \in Nat \ {0} /\ prev' \in Int /\ failed' \subseteq Nat
        /\ lo' \in Int /\ hi' \in Int
    BY DEF Timer!Numbers
  <2>4. tcount' \in 0 .. Threshold
    BY DEF Timer!Numbers, Timer!PhaseInv
  <2>5. published' \in [quantum : Int, outcome : Timer!Outcomes]
    BY DEF Timer!TypeOK, Timer!Numbers, Timer!Publish
  <2> QED
    BY <2>2, <2>3, <2>4, <2>5 DEF Timer!TypeOK, Timer!Numbers
<1>3. CASE Timer!DoubleCpp
  <2>1. PICK o, passes, counts, next : Attempted(o, passes, counts, next)
    BY <1>3, Attempts
  <2> USE <2>1 DEF Attempted, Timer!Attempt
  <2>2. UNCHANGED << env, altered >> /\ tphase' \in {"double", "search", "finish"}
    OBVIOUS
  <2>3. /\ tnum' \in Nat \ {0} /\ prev' \in Int /\ failed' \subseteq Nat
        /\ lo' \in Int /\ hi' \in Int
    BY DEF Timer!Numbers
  <2>4. tcount' \in 0 .. Threshold
    BY DEF Timer!Numbers, Timer!PhaseInv
  <2>5. published' \in [quantum : Int, outcome : Timer!Outcomes]
    BY DEF Timer!TypeOK, Timer!Numbers, Timer!Publish
  <2> QED
    BY <2>2, <2>3, <2>4, <2>5 DEF Timer!TypeOK, Timer!Numbers
<1>4. CASE Timer!DoubleJava
  <2>1. PICK o \in Timer!Run(tnum) :
          IF Timer!Good(o)
            THEN Timer!Attempt(o, TRUE, TRUE, 0)
            ELSE /\ tcount' = tcount + 1
                 /\ tnum' = 2 * tnum
                 /\ Timer!Publish(tnum', o)
                 /\ tphase' = IF tcount' = Threshold THEN "finish" ELSE "double"
                 /\ failed' = failed \cup {tnum}
                 /\ UNCHANGED << env, prev, lo, hi, altered >>
    BY <1>4 DEF Timer!DoubleJava
  <2>2. UNCHANGED << env, altered, prev >> /\ tphase' \in {"double", "search", "finish"}
    BY <2>1 DEF Timer!Attempt
  <2>3. /\ tnum' \in Nat \ {0} /\ failed' \subseteq Nat
        /\ lo' \in Int /\ hi' \in Int
    <3>1. /\ tnum' \in {tnum, 2 * tnum} /\ lo' \in {lo, prev} /\ hi' \in {hi, tnum}
          /\ failed' \in {failed, failed \cup {tnum}}
      BY <2>1 DEF Timer!Attempt
    <3> QED
      BY <3>1 DEF Timer!Numbers
  <2>4. tcount' \in 0 .. Threshold
    BY <1>4, <2>1 DEF Timer!Numbers, Timer!DoubleJava, Timer!Attempt
  <2>5. published' \in [quantum : Int, outcome : Timer!Outcomes]
    BY <2>1, <2>3 DEF Timer!TypeOK, Timer!Attempt, Timer!Publish, Timer!Run
  <2> QED
    BY <2>2, <2>3, <2>4, <2>5 DEF Timer!TypeOK, Timer!Numbers
<1>5. CASE Timer!RunFails
  BY <1>5 DEF Timer!RunFails, Timer!TypeOK, Timer!Numbers
<1>6. CASE Timer!InterruptJava
  BY <1>6 DEF Timer!InterruptJava, Timer!TypeOK, Timer!Numbers
<1>7. CASE Timer!Search
  <2>1. Timer!Half(lo + hi) \in Int
    BY DEF Timer!Half, Timer!Numbers
  <2>2. /\ tphase' \in {"search", "abort"} /\ lo' \in Int /\ hi' \in Int
        /\ failed' \subseteq Nat
    BY <1>7, <2>1 DEF Timer!Search, Timer!Probe, Timer!Numbers
  <2>3. published' \in [quantum : Int, outcome : Timer!Outcomes]
    BY <1>7, <2>1 DEF Timer!Search, Timer!Probe, Timer!Publish, Timer!Run, Timer!TypeOK
  <2> QED
    BY <2>2, <2>3, <1>7 DEF Timer!Search, Timer!TypeOK, Timer!Numbers
<1>8. CASE Timer!SearchDone
  BY <1>8 DEF Timer!SearchDone, Timer!TypeOK, Timer!Numbers
<1>9. CASE Timer!Finish
  BY <1>9 DEF Timer!Finish, Timer!TypeOK, Timer!Numbers
<1> QED
  BY <1>1, <1>2, <1>3, <1>4, <1>5, <1>6, <1>7, <1>8, <1>9 DEF Timer!Next

(* The phases of the timer test. *)
LEMMA TimerPhase ==
  ASSUME Timer!IInv, Timer!Next PROVE Timer!PhaseInv'
<1>0. Timer!TypeOK /\ Timer!Numbers /\ Timer!PhaseInv /\ Timer!LowerEndInv /\ Timer!SearchInv
  BY DEF Timer!IInv, Timer!TypeOK
<1> USE <1>0, ConfigTestsAssumption DEF ConfigTestsAssumption
<1>1. CASE Timer!Start
  BY <1>1 DEF Timer!Start, Timer!Numbers, Timer!PhaseInv
<1>2. CASE Timer!DoubleC
  BY <1>2 DEF Timer!DoubleC, Timer!Attempt, Timer!Publish, Timer!Numbers,
     Timer!PhaseInv
<1>3. CASE Timer!DoubleCpp
  BY <1>3 DEF Timer!DoubleCpp, Timer!Attempt, Timer!Publish, Timer!Numbers,
     Timer!PhaseInv
<1>4. CASE Timer!DoubleJava
  BY <1>4 DEF Timer!DoubleJava, Timer!Attempt, Timer!Publish, Timer!Numbers,
     Timer!PhaseInv
<1>5. CASE Timer!RunFails
  BY <1>5 DEF Timer!RunFails, Timer!Numbers, Timer!PhaseInv
<1>6. CASE Timer!InterruptJava
  BY <1>6 DEF Timer!InterruptJava, Timer!Numbers, Timer!PhaseInv
<1>7. CASE Timer!Search
  <2>1. CASE tphase' = "search"
    BY <1>7, <2>1 DEF Timer!Search, Timer!PhaseInv
  <2>2. CASE tphase' = "abort" /\ Timer!Half(lo + hi) < 0
    <3>1. tphase = "search" /\ UNCHANGED << env, prev, altered >>
      BY <1>7 DEF Timer!Search
    <3>2. lo \in Int /\ hi \in Int /\ prev \in Int /\ failed \subseteq Nat
      BY DEF Timer!Numbers
    <3>3. hi >= -1 /\ (lo = prev \/ lo - 1 \in failed)
      BY <3>1, Quanta DEF Timer!SearchInv
    <3>4. lo < 0
      BY <2>2, <3>2, <3>3 DEF Timer!Half
    <3>5. prev < 0
      BY <3>2, <3>3, <3>4
    <3>6. env.port = "cpp"
      BY <3>2, <3>5 DEF Timer!LowerEndInv
    <3> QED
      BY <2>2, <3>1, <3>5, <3>6 DEF Timer!PhaseInv
  <2> QED
    BY <1>7, <2>1, <2>2 DEF Timer!Search
<1>8. CASE Timer!SearchDone
  BY <1>8 DEF Timer!SearchDone, Timer!Numbers, Timer!PhaseInv
<1>9. CASE Timer!Finish
  BY <1>9 DEF Timer!Finish, Timer!Numbers, Timer!PhaseInv
<1> QED
  BY <1>1, <1>2, <1>3, <1>4, <1>5, <1>6, <1>7, <1>8, <1>9 DEF Timer!Next

(* A run that is not good adds its quantum to those that failed. *)
LEMMA FailedBelow ==
  ASSUME Timer!TypeOK, Timer!OutcomeInv, env.regular, NEW n \in Int, NEW o,
         Timer!Good(o) <=> n >= env.least,
         failed' = failed \/ (failed' = failed \cup {n} /\ ~Timer!Good(o))
  PROVE  \A q \in failed' : q < env.least
<1>1. \A q \in failed : q < env.least
  BY DEF Timer!OutcomeInv
<1>2. \A q \in failed' : q \in failed \/ (q = n /\ ~Timer!Good(o))
  OBVIOUS
<1>3. env.least \in Nat
  BY Quanta
<1> QED
  BY <1>1, <1>2, <1>3

(* What failed is too short on a regular machine. *)
LEMMA TimerOutcome ==
  ASSUME Timer!IInv, Timer!Next PROVE Timer!OutcomeInv'
<1>0. Timer!TypeOK /\ Timer!Numbers /\ Timer!OutcomeInv
  BY DEF Timer!IInv, Timer!TypeOK
<1> USE <1>0, ConfigTestsAssumption DEF ConfigTestsAssumption
<1>1. CASE Timer!Start
  BY <1>1 DEF Timer!Start, Timer!OutcomeInv
<1>2. CASE Timer!DoubleC
  <2>1. PICK o, passes, counts, next : Attempted(o, passes, counts, next)
    BY <1>2, Attempts
  <2> SUFFICES ASSUME env.regular
               PROVE  /\ \A q \in failed' : q < env.least
                      /\ tphase' # "double" =>
                           (Timer!Good(published'.outcome) <=> published'.quantum >= env.least)
    BY <2>1 DEF Attempted, Timer!Attempt, Timer!OutcomeInv
  <2>2. Timer!Good(o) <=> tnum >= env.least
    BY <2>1 DEF Attempted, Timer!Run
  <2>3. failed' = failed \/ (failed' = failed \cup {tnum} /\ ~Timer!Good(o))
    BY <2>1 DEF Attempted, Timer!Attempt
  <2>4. tphase' # "double" => published' = [quantum |-> tnum, outcome |-> o]
    BY <2>1 DEF Attempted, Timer!Attempt, Timer!Publish
  <2>5. \A q \in failed' : q < env.least
    BY <2>2, <2>3, FailedBelow DEF Timer!Numbers
  <2> QED
    BY <2>2, <2>4, <2>5
<1>3. CASE Timer!DoubleCpp
  <2>1. PICK o, passes, counts, next : Attempted(o, passes, counts, next)
    BY <1>3, Attempts
  <2> SUFFICES ASSUME env.regular
               PROVE  /\ \A q \in failed' : q < env.least
                      /\ tphase' # "double" =>
                           (Timer!Good(published'.outcome) <=> published'.quantum >= env.least)
    BY <2>1 DEF Attempted, Timer!Attempt, Timer!OutcomeInv
  <2>2. Timer!Good(o) <=> tnum >= env.least
    BY <2>1 DEF Attempted, Timer!Run
  <2>3. failed' = failed \/ (failed' = failed \cup {tnum} /\ ~Timer!Good(o))
    BY <2>1 DEF Attempted, Timer!Attempt
  <2>4. tphase' # "double" => published' = [quantum |-> tnum, outcome |-> o]
    BY <2>1 DEF Attempted, Timer!Attempt, Timer!Publish
  <2>5. \A q \in failed' : q < env.least
    BY <2>2, <2>3, FailedBelow DEF Timer!Numbers
  <2> QED
    BY <2>2, <2>4, <2>5
<1>4. CASE Timer!DoubleJava
  <2>1. env.port = "java" /\ env' = env
    BY <1>4 DEF Timer!DoubleJava, Timer!Attempt
  <2>2. PICK o \in Timer!Run(tnum) :
          failed' = failed \/ (failed' = failed \cup {tnum} /\ ~Timer!Good(o))
    BY <1>4 DEF Timer!DoubleJava, Timer!Attempt
  <2>3. env.regular => (Timer!Good(o) <=> tnum >= env.least)
    BY DEF Timer!Run
  <2>4. env.regular => \A q \in failed' : q < env.least
    BY <2>2, <2>3, FailedBelow DEF Timer!Numbers
  <2> QED
    BY <2>1, <2>4 DEF Timer!OutcomeInv
<1>5. CASE Timer!RunFails
  BY <1>5 DEF Timer!RunFails, Timer!OutcomeInv
<1>6. CASE Timer!InterruptJava
  BY <1>6 DEF Timer!InterruptJava, Timer!OutcomeInv
<1>7. CASE Timer!Search
  <2> DEFINE mid == Timer!Half(lo + hi)
  <2>1. mid \in Int
    BY DEF Timer!Half, Timer!Numbers
  <2>2. CASE tphase' = "abort"
    BY <1>7, <2>2 DEF Timer!Search, Timer!OutcomeInv
  <2>3. CASE tphase' # "abort"
    <3>1. PICK o \in Timer!Run(mid) :
            \/ /\ Timer!Accepts(o)
               /\ published' = [quantum |-> mid, outcome |-> o] /\ failed' = failed
            \/ /\ ~Timer!Accepts(o)
               /\ published' = published /\ failed' = failed \cup {mid}
      BY <1>7, <2>3 DEF Timer!Search, Timer!Probe, Timer!Publish
    <3>2. env.regular => (Timer!Good(o) <=> mid >= env.least)
      BY DEF Timer!Run
    <3>3. (Timer!Good(o) => Timer!Accepts(o)) /\ (env.port # "java" => Timer!Accepts(o) = Timer!Good(o))
      BY DEF Timer!Accepts, Timer!Good
    <3>4. UNCHANGED << env, tphase >> /\ tphase = "search"
      BY <1>7, <2>3 DEF Timer!Search
    <3> HIDE DEF mid
    <3>5. env.regular => \A q \in failed' : q < env.least
      BY <2>1, <3>1, <3>2, <3>3, FailedBelow
    <3> QED
      BY <3>1, <3>2, <3>3, <3>4, <3>5 DEF Timer!OutcomeInv
  <2> QED
    BY <2>2, <2>3
<1>8. CASE Timer!SearchDone
  BY <1>8 DEF Timer!SearchDone, Timer!OutcomeInv
<1>9. CASE Timer!Finish
  BY <1>9 DEF Timer!Finish, Timer!OutcomeInv
<1> QED
  BY <1>1, <1>2, <1>3, <1>4, <1>5, <1>6, <1>7, <1>8, <1>9 DEF Timer!Next

(* Where the search begins. *)
LEMMA TimerLowerEnd ==
  ASSUME Timer!IInv, Timer!Next PROVE Timer!LowerEndInv'
<1>0. Timer!TypeOK /\ Timer!Numbers /\ Timer!LowerEndInv
  BY DEF Timer!IInv, Timer!TypeOK
<1> USE <1>0, ConfigTestsAssumption DEF ConfigTestsAssumption
<1>1. CASE Timer!Start
  BY <1>1 DEF Timer!Start, Timer!LowerEndInv
<1>2. CASE Timer!DoubleC
  <2>1. PICK o, passes, counts, next : Attempted(o, passes, counts, next)
    BY <1>2, Attempts
  <2>2. o.median = "below" => tnum < LongSleep
    BY <2>1 DEF Attempted, Timer!Run, Timer!Numbers
  <2>3. env' = env
    BY <2>1 DEF Attempted, Timer!Attempt
  <2>4. CASE UNCHANGED << tnum, prev >> /\ failed \subseteq failed' /\ (tphase' = "search" => lo' = prev)
    BY <2>3, <2>4 DEF Timer!LowerEndInv, Timer!Numbers
  <2>5. CASE tphase' = "double" /\ tnum' = 2 * tnum /\ prev' = next /\ failed' = failed \cup {tnum}
    <3>1. CASE next = tnum
      BY <2>3, <2>5, <3>1 DEF Timer!LowerEndInv, Timer!Numbers
    <3>2. CASE env.port = "cpp" /\ next = prev /\ tnum < LongSleep
      BY <2>3, <2>5, <3>2 DEF Timer!LowerEndInv, Timer!TooHigh, Timer!Numbers
    <3> QED
      BY <2>1, <2>2, <3>1, <3>2 DEF Attempted
  <2> QED
    BY <2>1, <2>4, <2>5 DEF Attempted, Timer!Attempt
<1>3. CASE Timer!DoubleCpp
  <2>1. PICK o, passes, counts, next : Attempted(o, passes, counts, next)
    BY <1>3, Attempts
  <2>2. o.median = "below" => tnum < LongSleep
    BY <2>1 DEF Attempted, Timer!Run, Timer!Numbers
  <2>3. env' = env
    BY <2>1 DEF Attempted, Timer!Attempt
  <2>4. CASE UNCHANGED << tnum, prev >> /\ failed \subseteq failed' /\ (tphase' = "search" => lo' = prev)
    BY <2>3, <2>4 DEF Timer!LowerEndInv, Timer!Numbers
  <2>5. CASE tphase' = "double" /\ tnum' = 2 * tnum /\ prev' = next /\ failed' = failed \cup {tnum}
    <3>1. CASE next = tnum
      BY <2>3, <2>5, <3>1 DEF Timer!LowerEndInv, Timer!Numbers
    <3>2. CASE env.port = "cpp" /\ next = prev /\ tnum < LongSleep
      BY <2>3, <2>5, <3>2 DEF Timer!LowerEndInv, Timer!TooHigh, Timer!Numbers
    <3> QED
      BY <2>1, <2>2, <3>1, <3>2 DEF Attempted
  <2> QED
    BY <2>1, <2>4, <2>5 DEF Attempted, Timer!Attempt
<1>4. CASE Timer!DoubleJava
  <2>1. env.port = "java" /\ UNCHANGED << env, prev >> /\ failed \subseteq failed'
    BY <1>4 DEF Timer!DoubleJava, Timer!Attempt
  <2>2. tphase' = "search" => lo' = prev
    BY <1>4 DEF Timer!DoubleJava, Timer!Attempt
  <2> QED
    BY <2>1, <2>2 DEF Timer!LowerEndInv, Timer!Numbers
<1>5. CASE Timer!RunFails
  BY <1>5 DEF Timer!RunFails, Timer!LowerEndInv
<1>6. CASE Timer!InterruptJava
  BY <1>6 DEF Timer!InterruptJava, Timer!LowerEndInv
<1>7. CASE Timer!Search
  <2>1. UNCHANGED << env, tnum, prev >> /\ failed \subseteq failed'
    BY <1>7 DEF Timer!Search, Timer!Probe
  <2>2. tphase' = "search" /\ lo >= 0 => lo' >= 0
    BY <1>7 DEF Timer!Search, Timer!Probe, Timer!Half, Timer!Numbers
  <2>3. tphase = "search"
    BY <1>7 DEF Timer!Search
  <2> QED
    BY <2>1, <2>2, <2>3 DEF Timer!LowerEndInv
<1>8. CASE Timer!SearchDone
  BY <1>8 DEF Timer!SearchDone, Timer!LowerEndInv
<1>9. CASE Timer!Finish
  BY <1>9 DEF Timer!Finish, Timer!LowerEndInv
<1> QED
  BY <1>1, <1>2, <1>3, <1>4, <1>5, <1>6, <1>7, <1>8, <1>9 DEF Timer!Next

(* The search stays around the least quantum that passes. *)
LEMMA TimerSearch ==
  ASSUME Timer!IInv, Timer!Next PROVE Timer!SearchInv'
<1>0. Timer!TypeOK /\ Timer!Numbers /\ Timer!LowerEndInv /\ Timer!SearchInv
  BY DEF Timer!IInv, Timer!TypeOK
<1> USE <1>0, ConfigTestsAssumption DEF ConfigTestsAssumption
<1>1. CASE Timer!Start
  BY <1>1 DEF Timer!Start, Timer!SearchInv
<1>2. CASE Timer!DoubleC
  <2>1. PICK o, passes, counts, next : Attempted(o, passes, counts, next)
    BY <1>2, Attempts
  <2> SUFFICES ASSUME tphase' = "search" PROVE Timer!SearchInv'
    BY DEF Timer!SearchInv
  <2>2. /\ UNCHANGED << env, tnum, prev, failed >>
        /\ lo' = prev /\ hi' = tnum /\ published'.quantum = tnum
    BY <2>1 DEF Attempted, Timer!Attempt, Timer!Publish
  <2> QED
    BY <2>2 DEF Timer!SearchInv, Timer!Bracketed, Timer!Numbers, Timer!LowerEndInv
<1>3. CASE Timer!DoubleCpp
  <2>1. PICK o, passes, counts, next : Attempted(o, passes, counts, next)
    BY <1>3, Attempts
  <2> SUFFICES ASSUME tphase' = "search" PROVE Timer!SearchInv'
    BY DEF Timer!SearchInv
  <2>2. /\ UNCHANGED << env, tnum, prev, failed >>
        /\ lo' = prev /\ hi' = tnum /\ published'.quantum = tnum
    BY <2>1 DEF Attempted, Timer!Attempt, Timer!Publish
  <2> QED
    BY <2>2 DEF Timer!SearchInv, Timer!Bracketed, Timer!Numbers, Timer!LowerEndInv
<1>4. CASE Timer!DoubleJava
  <2> SUFFICES ASSUME tphase' = "search" PROVE Timer!SearchInv'
    BY DEF Timer!SearchInv
  <2>1. /\ env.port = "java" /\ UNCHANGED << env, tnum, prev, failed >>
        /\ lo' = prev /\ hi' = tnum /\ published'.quantum = tnum
    BY <1>4 DEF Timer!DoubleJava, Timer!Attempt, Timer!Publish
  <2> QED
    BY <2>1 DEF Timer!SearchInv, Timer!Bracketed, Timer!Numbers
<1>5. CASE Timer!RunFails
  BY <1>5 DEF Timer!RunFails, Timer!SearchInv
<1>6. CASE Timer!InterruptJava
  BY <1>6 DEF Timer!InterruptJava, Timer!SearchInv
<1>7. CASE Timer!Search
  <2> DEFINE mid == Timer!Half(lo + hi)
  <2> SUFFICES ASSUME tphase' = "search" PROVE Timer!SearchInv'
    BY DEF Timer!SearchInv
  <2>1. mid \in Int /\ mid >= 0 /\ lo <= mid /\ mid <= hi
    BY <1>7 DEF Timer!Search, Timer!Half, Timer!Numbers
  <2>2. UNCHANGED << env, tnum, prev >> /\ tphase = "search"
    BY <1>7 DEF Timer!Search
  <2>3. \/ published'.quantum = mid /\ hi' = mid - 1 /\ UNCHANGED << lo, failed >>
        \/ failed' = failed \cup {mid} /\ lo' = mid + 1 /\ UNCHANGED << hi, published >>
    BY <1>7 DEF Timer!Search, Timer!Probe, Timer!Publish
  <2>4. mid = hi => lo = hi \/ hi = 0
    BY <2>1 DEF Timer!Half, Timer!Numbers
  <2> HIDE DEF mid
  <2>5. CASE published'.quantum = mid /\ hi' = mid - 1 /\ UNCHANGED << lo, failed >>
    BY <2>1, <2>2, <2>5 DEF Timer!SearchInv, Timer!Numbers
  <2>6. CASE failed' = failed \cup {mid} /\ lo' = mid + 1 /\ UNCHANGED << hi, published >>
    <3>1. lo' - 1 \in failed' /\ lo' <= hi' + 1 /\ failed \subseteq failed'
      BY <2>1, <2>6 DEF Timer!Numbers
    <3>2. hi = tnum /\ lo' > hi => prev >= tnum \/ tnum - 1 \in failed
      BY <2>1, <2>2, <2>4, <2>6 DEF Timer!SearchInv, Timer!Numbers
    <3> QED
      BY <2>2, <2>6, <3>1, <3>2 DEF Timer!SearchInv
  <2> QED
    BY <2>3, <2>5, <2>6
<1>8. CASE Timer!SearchDone
  BY <1>8 DEF Timer!SearchDone, Timer!SearchInv
<1>9. CASE Timer!Finish
  BY <1>9 DEF Timer!Finish, Timer!SearchInv
<1> QED
  BY <1>1, <1>2, <1>3, <1>4, <1>5, <1>6, <1>7, <1>8, <1>9 DEF Timer!Next

(* What the search ends with is the least quantum that passes. *)
LEMMA TimerLeast ==
  ASSUME Timer!IInv, Timer!Next PROVE Timer!LeastQuantum'
<1>0. Timer!TypeOK /\ Timer!Numbers /\ Timer!OutcomeInv /\ Timer!LowerEndInv /\ Timer!SearchInv /\ Timer!LeastQuantum
  BY DEF Timer!IInv, Timer!TypeOK
<1> USE <1>0, ConfigTestsAssumption DEF ConfigTestsAssumption
<1>1. CASE Timer!Start
  BY <1>1 DEF Timer!Start, Timer!LeastQuantum, Timer!Bracketed
<1>2. CASE Timer!DoubleC
  <2>1. PICK o, passes, counts, next : Attempted(o, passes, counts, next)
    BY <1>2, Attempts
  <2> SUFFICES ASSUME tphase' \in {"finish", "end"} PROVE Timer!LeastQuantum'
    BY DEF Timer!LeastQuantum
  <2>2. ~Timer!Good(published'.outcome)
    BY <2>1 DEF Attempted, Timer!Attempt, Timer!Publish
  <2> QED
    BY <2>2, TimerOutcome DEF Timer!LeastQuantum, Timer!OutcomeInv
<1>3. CASE Timer!DoubleCpp
  <2>1. PICK o, passes, counts, next : Attempted(o, passes, counts, next)
    BY <1>3, Attempts
  <2> SUFFICES ASSUME tphase' \in {"finish", "end"} PROVE Timer!LeastQuantum'
    BY DEF Timer!LeastQuantum
  <2>2. ~Timer!Good(published'.outcome)
    BY <2>1 DEF Attempted, Timer!Attempt, Timer!Publish
  <2> QED
    BY <2>2, TimerOutcome DEF Timer!LeastQuantum, Timer!OutcomeInv
<1>4. CASE Timer!DoubleJava
  <2>1. env.port = "java" /\ env' = env
    BY <1>4 DEF Timer!DoubleJava, Timer!Attempt
  <2> QED
    BY <2>1 DEF Timer!LeastQuantum, Timer!Bracketed
<1>5. CASE Timer!RunFails
  BY <1>5 DEF Timer!RunFails, Timer!LeastQuantum, Timer!Bracketed
<1>6. CASE Timer!InterruptJava
  BY <1>6 DEF Timer!InterruptJava, Timer!LeastQuantum, Timer!Bracketed
<1>7. CASE Timer!Search
  BY <1>7 DEF Timer!Search, Timer!Probe, Timer!Publish, Timer!LeastQuantum,
     Timer!Bracketed
<1>8. CASE Timer!SearchDone
  <2>1. UNCHANGED << env, tnum, prev, lo, hi, published, failed >> /\ tphase = "search" /\ lo > hi
    BY <1>8 DEF Timer!SearchDone
  <2>2. ASSUME Timer!Bracketed
        PROVE  published.quantum = prev \/ published.quantum - 1 \in failed
    BY <2>1, <2>2, Quanta
    DEF Timer!SearchInv, Timer!Bracketed, Timer!LowerEndInv, Timer!Numbers
  <2>3. ASSUME Timer!Bracketed, Timer!Good(published.outcome), env.regular
        PROVE  published.quantum = env.least
    <3>1. env.least \in Nat /\ env.port # "java" /\ published.quantum \in Nat
      BY <2>1, <2>3, Quanta DEF Timer!Bracketed, Timer!SearchInv, Timer!Numbers
    <3>2. published.quantum >= env.least /\ \A q \in failed : q < env.least
      BY <2>1, <2>3, <3>1 DEF Timer!OutcomeInv
    <3>3. prev = published.quantum => prev = 0 \/ prev < env.least
      BY <2>3, <3>1, <3>2 DEF Timer!LowerEndInv, Timer!Bracketed, Timer!Numbers
    <3> QED
      BY <2>2, <2>3, <3>1, <3>2, <3>3
  <2> QED
    BY <2>1, <2>2, <2>3, TimerOutcome DEF Timer!LeastQuantum, Timer!OutcomeInv, Timer!Bracketed
<1>9. CASE Timer!Finish
  BY <1>9 DEF Timer!Finish, Timer!LeastQuantum, Timer!Bracketed
<1> QED
  BY <1>1, <1>2, <1>3, <1>4, <1>5, <1>6, <1>7, <1>8, <1>9 DEF Timer!Next

(* A step of the timer test keeps its invariant, and the other tests leave it *)
(* alone. *)
LEMMA TimerKeeps == Timer!IInv /\ Timer!Next => Timer!IInv'
BY TimerTypes, TimerPhase, TimerOutcome, TimerLowerEnd, TimerSearch, TimerLeast
DEF Timer!IInv

LEMMA TimerAlone == Timer!IInv /\ UNCHANGED timerVars => Timer!IInv'
BY DEF Timer!IInv, timerVars, Timer!TypeOK, Timer!Numbers, Timer!PhaseInv,
       Timer!OutcomeInv, Timer!LowerEndInv, Timer!SearchInv, Timer!LeastQuantum,
       Timer!Bracketed

-----------------------------------------------------------------------------
(* Powers of two and the width of an int.                                  *)

(* The subsets of 1 .. n + 1 are those of 1 .. n, with and without n + 1.    *)
LEMMA Power ==
  ASSUME NEW n \in Nat
  PROVE  2^n \in Nat \ {0} /\ 2^(n + 1) = 2 * 2^n
<1> DEFINE S == 1 .. n
           With == {A \cup {n + 1} : A \in SUBSET S}
<1>1. IsFiniteSet(S) /\ Cardinality(S) = n
  BY FS_Interval
<1>2. IsFiniteSet(1 .. n + 1) /\ Cardinality(1 .. n + 1) = n + 1
  BY FS_Interval
<1>3. IsFiniteSet(SUBSET S) /\ Cardinality(SUBSET S) = 2^n
  BY <1>1, FS_SUBSET
<1>4. Cardinality(SUBSET (1 .. n + 1)) = 2^(n + 1)
  BY <1>2, FS_SUBSET
<1>5. IsFiniteSet(With) /\ Cardinality(With) = 2^n
  <2> DEFINE f == [A \in SUBSET S |-> A \cup {n + 1}]
  <2>1. \A A, B \in SUBSET S : A \cup {n + 1} = B \cup {n + 1} => A = B
    OBVIOUS
  <2>2. f \in [SUBSET S -> With]
    OBVIOUS
  <2>3. f \in Injection(SUBSET S, With)
    BY <2>1, <2>2 DEF Injection, IsInjective
  <2>4. \A T \in With : \E A \in SUBSET S : f[A] = T
    OBVIOUS
  <2>5. f \in Bijection(SUBSET S, With)
    BY <2>2, <2>3, <2>4 DEF Bijection, Surjection
  <2> QED
    BY <2>5, <1>3, FS_Bijection DEF ExistsBijection
<1>6. SUBSET (1 .. n + 1) = (SUBSET S) \cup With
  <2>1. ASSUME NEW A \in SUBSET (1 .. n + 1), n + 1 \in A PROVE A \in With
    <3>1. A \ {n + 1} \in SUBSET S /\ A = (A \ {n + 1}) \cup {n + 1}
      BY <2>1
    <3> QED
      BY <3>1
  <2>2. ASSUME NEW A \in SUBSET (1 .. n + 1), n + 1 \notin A PROVE A \in SUBSET S
    BY <2>2
  <2>3. ASSUME NEW A \in SUBSET S
        PROVE  A \in SUBSET (1 .. n + 1) /\ A \cup {n + 1} \in SUBSET (1 .. n + 1)
    OBVIOUS
  <2>4. \A A \in With : A \in SUBSET (1 .. n + 1)
    BY <2>3
  <2>5. \A A \in SUBSET S : A \in SUBSET (1 .. n + 1)
    BY <2>3
  <2> HIDE DEF S, With
  <2>6. \A A : A \in SUBSET (1 .. n + 1) <=> A \in (SUBSET S) \cup With
    BY <2>1, <2>2, <2>4, <2>5, Zenon
  <2> QED
    BY <2>6, Zenon
<1>7. (SUBSET S) \cap With = {}
  OBVIOUS
<1>8. Cardinality(SUBSET (1 .. n + 1)) = 2^n + 2^n
  <2> HIDE DEF With, S
  <2>1. Cardinality((SUBSET S) \cup With) =
          Cardinality(SUBSET S) + Cardinality(With) - Cardinality((SUBSET S) \cap With)
    BY <1>3, <1>5, FS_Union
  <2>2. Cardinality((SUBSET S) \cap With) = 0
    BY <1>7, FS_EmptySet
  <2>3. 2^n \in Nat
    BY <1>3, FS_CardinalityType
  <2>4. Cardinality(SUBSET (1 .. n + 1)) = Cardinality((SUBSET S) \cup With)
    BY <1>6, Zenon
  <2> QED
    BY <1>3, <1>5, <2>1, <2>2, <2>3, <2>4
<1>9. 2^n \in Nat /\ 2^n # 0
  BY <1>3, FS_CardinalityType, FS_EmptySet
<1> QED
  BY <1>4, <1>8, <1>9

(* Powers grow. *)
LEMMA PowerGrows ==
  ASSUME NEW m \in Nat, NEW n \in Nat, m <= n PROVE 2^m <= 2^n
<1>1. IsFiniteSet(1 .. n) /\ Cardinality(1 .. n) = n /\ IsFiniteSet(1 .. m) /\ Cardinality(1 .. m) = m
  BY FS_Interval
<1>2. IsFiniteSet(SUBSET (1 .. n)) /\ SUBSET (1 .. m) \subseteq SUBSET (1 .. n)
  BY <1>1, FS_SUBSET
<1>3. Cardinality(SUBSET (1 .. m)) <= Cardinality(SUBSET (1 .. n))
  BY <1>2, FS_Subset
<1> QED
  BY <1>1, <1>3, FS_SUBSET

(* An int that fits is left as it is. *)
LEMMA Wraps ==
  ASSUME NEW n \in Int
  PROVE  Wrap(n) \in Int /\ (0 <= n /\ n < 2^(Width - 1) => Wrap(n) = n)
<1>1. Width - 1 \in Nat /\ Width = (Width - 1) + 1
  BY ConfigTestsAssumption DEF ConfigTestsAssumption
<1>2. 2^(Width - 1) \in Nat \ {0} /\ 2^Width = 2 * 2^(Width - 1)
  BY <1>1, Power
<1> DEFINE m == n % 2^Width
<1>3. m \in Int
  BY <1>2
<1>4. 0 <= n /\ n < 2^(Width - 1) => m = n
  BY <1>2
<1> HIDE DEF m
<1>5. Wrap(n) = IF m < 2^(Width - 1) THEN m ELSE m - 2^Width
  BY DEF Wrap, m
<1> QED
  BY <1>2, <1>3, <1>4, <1>5

(* The rounds that a test may make: as long as none overflows the work is   *)
(* below what the rounds that count allow, and twice the work fits.         *)
LEMMA Doubled ==
  ASSUME NEW m \in Nat \ {0}, NEW c \in 0 .. Threshold - 1, NEW u \in Nat,
         m * 2^Threshold <= 2^(Width - 1), u < m * 2^(c + 1)
  PROVE  /\ u < 2^(Width - 1)
         /\ c + 1 < Threshold => 2 * u < m * 2^(c + 2) /\ 2 * u < 2^(Width - 1)
         /\ u < m => 2 * u < m * 2^(c + 1) /\ 2 * u < 2^(Width - 1)
<1>1. Threshold \in Nat \ {0} /\ Width - 1 \in Nat
  BY ConfigTestsAssumption DEF ConfigTestsAssumption
<1>2. c \in Nat /\ c + 1 \in Nat /\ (c + 1) + 1 = c + 2 /\ Threshold \in Nat
  BY <1>1
<1> DEFINE p == 2^c
           q == 2^(c + 1)
           r == 2^(c + 2)
           t == 2^Threshold
           w == 2^(Width - 1)
<1>3. p \in Nat \ {0} /\ q = 2 * p /\ q \in Nat \ {0} /\ r = 2 * q /\ t \in Nat /\ w \in Nat
  BY <1>1, <1>2, Power
<1>4. q <= t /\ (c + 1 < Threshold => r <= t)
  BY <1>1, <1>2, PowerGrows
<1> HIDE DEF p, q, r, t, w
<1>5. m * q <= m * t /\ (c + 1 < Threshold => m * r <= m * t) /\ 2 * m <= m * q
  BY <1>3, <1>4
<1>6. m * r = 2 * (m * q) /\ m * q \in Nat /\ m * t \in Nat /\ m * r \in Nat
  BY <1>3
<1>7. m * t <= w /\ u < m * q
  BY DEF q, t, w
<1>8. /\ u < w
      /\ c + 1 < Threshold => 2 * u < m * r /\ 2 * u < w
      /\ u < m => 2 * u < m * q /\ 2 * u < w
  BY <1>3, <1>5, <1>6, <1>7
<1> QED
  BY <1>8 DEF q, r, w

-----------------------------------------------------------------------------
(* The other tests, by what their steps have in common.                    *)

(* The clock test, which ends the program of the C++ port on a coarse clock. *)
ClockRun ==
  /\ current = "idle"
  /\ current' = "idle" \/ (current' = "abort" /\ env.port = "cpp" /\ machine.coarse)
  /\ ran' = ran \cup {"clock"} /\ table' = table \cup {"clock"}
  /\ UNCHANGED loopVars

DiskTests == {"disk_read", "disk_write"}

Begins(test, first) ==
  /\ test \in Doubling /\ env.port # "java" /\ (env.port = "c" => ~NoClock)
  /\ MayBegin(test) /\ Set(test, first)
  /\ IF test \in DiskTests THEN first \in {1, 2} ELSE first = First(test)

Rounds(amount, work) ==
  /\ current \in Doubling
  /\ Round(amount, work)
  /\ IF current \in DiskTests THEN amount = Amount /\ work = Work
                              ELSE amount = num /\ work = Max(0, num)

Stops(state) ==
  /\ Stop(state)
  /\ \/ state = "crash" /\ env.port = "c" /\ NoClock /\ current = "idle"
     \/ state = "idle" /\ current \in Doubling
     \/ state = "short_read" /\ env.port = "c" /\ current = "disk_read" /\ Max(0, Amount) < Work
     \/ state = "abort" /\ current = "disk_read" /\ Amount < 0
     \/ state = "abort" /\ current \in DiskTests /\ env.faulty
     \/ state = "abort" /\ current = "mcache" /\ num <= 0
     \/ state = "end" /\ current = "idle"

WorkStep ==
  \/ ClockRun
  \/ \E test, first : Begins(test, first)
  \/ \E amount, work : Rounds(amount, work)
  \/ \E state : Stops(state)

(* A beginning, for each port. *)
LEMMA BeginsC ==
  ASSUME NEW test \in Doubling, NEW first, Begin("c", test, first),
         IF test \in DiskTests THEN first \in {1, 2} ELSE first = First(test)
  PROVE  WorkStep
<1>1. CASE NoClock
  <2>1. Stops("crash")
    BY <1>1 DEF Begin, GetMinExecTime, MayBegin, Stops
  <2> QED
    BY <2>1 DEF WorkStep
<1>2. CASE ~NoClock
  <2>1. Begins(test, first)
    BY <1>2 DEF Begin, GetMinExecTime, Begins
  <2> QED
    BY <2>1 DEF WorkStep
<1> QED
  BY <1>1, <1>2

LEMMA BeginsCpp ==
  ASSUME NEW test \in Doubling, NEW first, Begin("cpp", test, first),
         IF test \in DiskTests THEN first \in {1, 2} ELSE first = First(test)
  PROVE  WorkStep
<1>1. Begins(test, first)
  BY DEF Begin, Begins
<1> QED
  BY <1>1 DEF WorkStep

(* A disk that fails. *)
LEMMA DiskStops ==
  ASSUME NEW port, NEW test \in DiskTests, Running(port, test), DiskFails
  PROVE  WorkStep
<1>1. Stops("abort")
  BY DEF DiskFails, Running, Stops
<1> QED
  BY <1>1 DEF WorkStep

(* A round of the loop of operations. *)
LEMMA RateRounds ==
  ASSUME NEW port, NEW test \in {"int_rate", "float_rate"}, Running(port, test), RateRound(num)
  PROVE  WorkStep
<1>1. CASE Round(num, Max(0, num))
  <2>1. Rounds(num, Max(0, num))
    BY <1>1 DEF Rounds, Running, Doubling, DiskTests
  <2> QED
    BY <2>1 DEF WorkStep
<1>2. CASE ClockFails
  <2>1. Stops("idle")
    BY <1>2 DEF Stops, Running, Doubling, ClockFails
  <2> QED
    BY <2>1 DEF WorkStep
<1> QED
  BY <1>1, <1>2 DEF RateRound

LEMMA WorkSteps ==
  ASSUME num \in Int, WorkTests PROVE WorkStep
<1> USE DEF Doubling, DiskTests
<1>1. CASE ClockC \/ ClockCpp
  <2>1. ClockRun
    BY <1>1 DEF ClockC, ClockCpp, RunClock, MayBegin, ClockRun
  <2> QED
    BY <2>1 DEF WorkStep
<1>2. CASE IntRateC \/ IntRateCpp
  BY <1>2, BeginsC, BeginsCpp, RateRounds DEF IntRateC, IntRateCpp, First
<1>3. CASE FloatRateC \/ FloatRateCpp
  BY <1>3, BeginsC, BeginsCpp, RateRounds DEF FloatRateC, FloatRateCpp, First
<1>4. CASE McacheC \/ McacheCpp
  <2>1. CASE Begin("c", "mcache", FirstArray) \/ Begin("cpp", "mcache", FirstArray)
    BY <2>1, BeginsC, BeginsCpp DEF First
  <2>2. CASE current = "mcache" /\ (num >= 0 /\ Round(num, num))
    <3>1. Max(0, num) = num
      BY <2>2 DEF Max
    <3>2. Rounds(num, num)
      BY <2>2, <3>1 DEF Rounds
    <3> QED
      BY <3>2 DEF WorkStep
  <2>3. CASE current = "mcache" /\ num <= 0 /\ Stop("abort")
    <3>1. Stops("abort")
      BY <2>3 DEF Stops
    <3> QED
      BY <3>1 DEF WorkStep
  <2>4. CASE current = "mcache" /\ ClockFails
    <3>1. Stops("idle")
      BY <2>4 DEF Stops, ClockFails
    <3> QED
      BY <3>1 DEF WorkStep
  <2> QED
    BY <1>4, <2>1, <2>2, <2>3, <2>4 DEF McacheC, McacheCpp, Running
<1>5. CASE DiskReadC \/ DiskReadCpp
  <2>1. CASE Begin("c", "disk_read", 2) \/ Begin("cpp", "disk_read", 2)
    BY <2>1, BeginsC, BeginsCpp
  <2>2. CASE current = "disk_read" /\ Round(Amount, Work)
    <3>1. Rounds(Amount, Work)
      BY <2>2 DEF Rounds
    <3> QED
      BY <3>1 DEF WorkStep
  <2>3. CASE Running("c", "disk_read") /\ Max(0, Amount) < Work /\ Stop("short_read")
    <3>1. Stops("short_read")
      BY <2>3 DEF Stops, Running
    <3> QED
      BY <3>1 DEF WorkStep
  <2>4. CASE current = "disk_read" /\ Amount < 0 /\ Stop("abort")
    <3>1. Stops("abort")
      BY <2>4 DEF Stops
    <3> QED
      BY <3>1 DEF WorkStep
  <2>5. CASE DiskFails /\ \E port : Running(port, "disk_read")
    BY <2>5, DiskStops
  <2> QED
    BY <1>5, <2>1, <2>2, <2>3, <2>4, <2>5 DEF DiskReadC, DiskReadCpp, Running
<1>6. CASE DiskWriteC \/ DiskWriteCpp
  <2>1. CASE Begin("c", "disk_write", 1) \/ Begin("cpp", "disk_write", 2)
    BY <2>1, BeginsC, BeginsCpp
  <2>2. CASE current = "disk_write" /\ Round(Amount, Work)
    <3>1. Rounds(Amount, Work)
      BY <2>2 DEF Rounds
    <3> QED
      BY <3>1 DEF WorkStep
  <2>3. CASE DiskFails /\ \E port : Running(port, "disk_write")
    BY <2>3, DiskStops
  <2> QED
    BY <1>6, <2>1, <2>2, <2>3 DEF DiskWriteC, DiskWriteCpp, Running
<1>7. CASE NoMoreTests
  <2>1. Stops("end")
    BY <1>7 DEF NoMoreTests, Stops
  <2> QED
    BY <2>1 DEF WorkStep
<1> QED
  BY <1>1, <1>2, <1>3, <1>4, <1>5, <1>6, <1>7 DEF WorkTests

(* What a round does. *)
LEMMA RoundSteps ==
  ASSUME NEW amount, NEW work, Rounds(amount, work)
  PROVE  \E long \in ExceedsClock(work) :
           /\ \/ long /\ AddResult(amount, work)
              \/ ~(long /\ count + 1 = Threshold) /\ Retry(long)
           /\ unfair' = IF long /\ (NoClock \/ altered) THEN unfair \cup {current} ELSE unfair
           /\ UNCHANGED ran
BY DEF Rounds, Round

(* What a step keeps. *)
LEMMA TimerEnv == Timer!Next => UNCHANGED env
BY DEF Timer!Next, Timer!Start, Timer!DoubleC, Timer!DoubleCpp, Timer!DoubleJava,
       Timer!RunFails, Timer!InterruptJava, Timer!Search, Timer!SearchDone, Timer!Finish, Timer!Attempt

-----------------------------------------------------------------------------
(* The work of a test whose rounds fit.                                    *)

(* The numbers that the work is bounded by. *)
LEMMA Bounds ==
  ASSUME WorkInv, NEW test \in Doubling
  PROVE  /\ First(test) \in Nat \ {0}
         /\ Max(First(test), machine.long) \in Nat \ {0}
         /\ First(test) <= Max(First(test), machine.long)
         /\ machine.long <= Max(First(test), machine.long)
<1>1. First(test) \in Nat \ {0}
  BY ConfigTestsAssumption DEF ConfigTestsAssumption, First, Doubling
<1> QED
  BY <1>1 DEF WorkInv, Max

(* The work is at least the number of iterations, and doubles with it. *)
LEMMA Blocks ==
  ASSUME NEW b \in Nat \ {0}, NEW n \in Nat
  PROVE  b * n \in Nat /\ n <= b * n /\ b * (2 * n) = 2 * (b * n)
<1>1. b * n \in Nat /\ b * (2 * n) = 2 * (b * n)
  OBVIOUS
<1>2. n <= b * n
  OBVIOUS
<1> QED
  BY <1>1, <1>2

(* As long as nothing overflows the work is positive and an int, and it is  *)
(* what the amount says. *)
LEMMA Fitting ==
  ASSUME WorkInv, current \in Doubling, Fits(current)
  PROVE  /\ num \in Nat \ {0} /\ Units(current) \in Nat \ {0} /\ num <= Units(current)
         /\ Units(current) < 2^(Width - 1)
         /\ current \in DiskTests => Amount = Units(current) /\ Work = Units(current)
         /\ current \notin DiskTests => num = Units(current) /\ Max(0, num) = Units(current)
<1> DEFINE m == Max(First(current), machine.long)
<1>1. /\ num \in Nat \ {0} /\ count \in 0 .. Threshold - 1
      /\ Units(current) < m * 2^(count + 1) /\ m * 2^Threshold <= 2^(Width - 1)
  BY DEF WorkInv, Fits
<1>2. m \in Nat \ {0}
  BY Bounds
<1>3. BlockSize \in Nat \ {0}
  BY ConfigTestsAssumption DEF ConfigTestsAssumption
<1>4. BlockSize * num \in Nat /\ num <= BlockSize * num
  BY <1>1, <1>3, Blocks
<1>5. Units(current) = IF current \in DiskTests THEN BlockSize * num ELSE num
  BY DEF Units, DiskTests
<1>6. Units(current) \in Nat \ {0} /\ num <= Units(current)
  BY <1>1, <1>4, <1>5
<1>7. Max(0, num) = num
  BY <1>1 DEF Max
<1> HIDE DEF m
<1>8. Units(current) < 2^(Width - 1)
  BY <1>1, <1>2, <1>6, Doubled
<1>9. Wrap(Units(current)) = Units(current)
  BY <1>6, <1>8, Wraps
<1> QED
  BY <1>1, <1>5, <1>6, <1>7, <1>8, <1>9 DEF Amount, Work

(* A round below the clock did less work than the machine may take for it. *)
LEMMA BelowClock ==
  ASSUME WorkInv, NEW work \in Nat, NEW long \in ExceedsClock(work)
  PROVE  /\ long \in BOOLEAN
         /\ ~long => work < machine.long
         /\ long /\ ~NoClock => work > 0
<1>1. CASE NoClock
  BY <1>1 DEF ExceedsClock
<1>2. CASE ~NoClock /\ work <= 0
  <2>1. long \in {FALSE} /\ machine.long \in Nat \ {0}
    BY <1>2 DEF ExceedsClock, WorkInv
  <2> QED
    BY <1>2, <2>1
<1>3. CASE ~NoClock /\ ~(work <= 0)
  <2>1. IF work >= machine.long THEN long \in {TRUE} ELSE long \in BOOLEAN
    BY <1>3 DEF ExceedsClock
  <2>2. machine.long \in Nat \ {0}
    BY DEF WorkInv
  <2>3. CASE work >= machine.long
    <3>1. long = TRUE
      BY <2>1, <2>3
    <3> QED
      BY <1>3, <3>1
  <2>4. CASE ~(work >= machine.long)
    <3>1. long \in BOOLEAN
      BY <2>1, <2>4
    <3>2. work < machine.long /\ work > 0
      BY <1>3, <2>2, <2>4
    <3> QED
      BY <3>1, <3>2
  <2> QED
    BY <2>3, <2>4
<1> QED
  BY <1>1, <1>2, <1>3

-----------------------------------------------------------------------------
(* What every step keeps, part by part.                                    *)

(* The variables of the timer test, under any step. *)
LEMMA StepTimer == Timer!IInv /\ [Next]_vars => Timer!IInv'
<1> SUFFICES ASSUME Timer!IInv, [Next]_vars PROVE Timer!IInv'
  OBVIOUS
<1>1. CASE UNCHANGED timerVars
  BY <1>1, TimerAlone
<1>2. CASE Timer!Next
  BY <1>2, TimerKeeps
<1> QED
  BY <1>1, <1>2 DEF Next, BeginTimer, TimerStep, TimerReturns, vars

(* A step of the program is one of seven, and the machine stays as it is. *)
LEMMA Steps ==
  ASSUME num \in Int, [Next]_vars
  PROVE  /\ UNCHANGED << env, machine >>
         /\ \/ WorkStep /\ UNCHANGED timerVars
            \/ BeginTimer
            \/ TimerStep
            \/ TimerReturns
            \/ UNCHANGED vars
<1>1. CASE UNCHANGED vars
  BY <1>1 DEF vars, timerVars
<1>2. CASE WorkTests /\ UNCHANGED << timerVars, machine >>
  BY <1>2, WorkSteps DEF timerVars
<1>3. CASE BeginTimer /\ UNCHANGED machine
  BY <1>3 DEF BeginTimer, timerVars
<1>4. CASE TimerStep /\ UNCHANGED machine
  BY <1>4, TimerEnv DEF TimerStep
<1>5. CASE TimerReturns /\ UNCHANGED machine
  BY <1>5 DEF TimerReturns, timerVars
<1> QED
  BY <1>1, <1>2, <1>3, <1>4, <1>5 DEF Next

(* A test that runs has begun once and has no result. *)
LEMMA StepRun == IInv /\ [Next]_vars => RunInv'
<1> SUFFICES ASSUME IInv, [Next]_vars PROVE RunInv'
  OBVIOUS
<1>0. RunInv /\ WorkInv /\ Timer!PhaseInv /\ num \in Int
  BY DEF IInv, WorkInv, Timer!IInv
<1>1. UNCHANGED << env, machine >>
  BY <1>0, Steps
<1> USE <1>0, <1>1 DEF RunInv, NoClock, Doubling
<1>2. CASE WorkStep /\ UNCHANGED timerVars
  <2> tphase' = tphase
    BY <1>2 DEF timerVars
  <2>1. CASE ClockRun
    BY <2>1 DEF ClockRun
  <2>2. CASE \E test, first : Begins(test, first)
    BY <2>2 DEF Begins, MayBegin, Set
  <2>3. CASE \E amount, work : Rounds(amount, work)
    <3>1. PICK amount, work : Rounds(amount, work)
      BY <2>3
    <3>2. /\ current \in Doubling /\ ran' = ran
          /\ \/ current' = "idle" /\ table' = table \cup {current}
             \/ UNCHANGED << current, table >>
      BY <3>1, RoundSteps DEF Rounds, AddResult, Retry
    <3> QED
      BY <3>2
  <2>4. CASE \E state : Stops(state)
    BY <2>4 DEF Stops, Stop
  <2> QED
    BY <1>2, <2>1, <2>2, <2>3, <2>4 DEF WorkStep
<1>3. CASE BeginTimer
  <2>1. tphase' = tphase /\ current = "idle" /\ "timer" \notin ran
    BY <1>3 DEF BeginTimer, MayBegin, timerVars
  <2>2. \/ current' = "crash" /\ UNCHANGED << ran, table >>
        \/ /\ env.port = "c" => ~NoClock
           /\ current' = "timer" /\ ran' = ran \cup {"timer"} /\ table' = table
    BY <1>3 DEF BeginTimer, GetMinExecTime, Stop, Set
  <2> QED
    BY <2>1, <2>2
<1>4. CASE TimerStep
  BY <1>4 DEF TimerStep
<1>5. CASE TimerReturns
  BY <1>5 DEF TimerReturns, timerVars
<1>6. CASE UNCHANGED vars
  BY <1>6 DEF vars, timerVars
<1> QED
  BY <1>2, <1>3, <1>4, <1>5, <1>6, Steps

(* The work stays below what the rounds that have failed allow. *)
LEMMA StepWork == IInv /\ [Next]_vars => WorkInv'
<1> SUFFICES ASSUME IInv, [Next]_vars PROVE WorkInv'
  OBVIOUS
<1>0. RunInv /\ WorkInv /\ num \in Int /\ machine.long \in Nat \ {0}
  BY DEF IInv, WorkInv
<1>1. UNCHANGED machine
  BY <1>0, Steps
<1>2. CASE UNCHANGED << num, count >> /\ (current' \in Doubling => current' = current)
  BY <1>0, <1>1, <1>2 DEF WorkInv, Fits, Units
<1>3. CASE num' \in Int /\ current' \notin Doubling
  BY <1>0, <1>1, <1>3 DEF WorkInv
<1>4. ASSUME NEW test, NEW first, Begins(test, first) PROVE WorkInv'
  <2>1. current' = test /\ num' = first /\ count' = 0 /\ test \in Doubling
    BY <1>4 DEF Begins, Set
  <2>2. first \in Nat \ {0} /\ Units(test)' <= First(test)
    <3>1. BlockSize \in Nat \ {0} /\ First(test) \in Nat \ {0}
      BY <1>0, <2>1, Bounds, ConfigTestsAssumption DEF ConfigTestsAssumption
    <3>2. CASE test \in DiskTests
      <4>1. first \in {1, 2} /\ Units(test)' = BlockSize * first /\ First(test) = 2 * BlockSize
        BY <1>4, <2>1, <3>2 DEF Begins, Units, DiskTests, First
      <4> QED
        BY <3>1, <4>1
    <3>3. CASE test \notin DiskTests
      BY <1>4, <2>1, <3>1, <3>3 DEF Begins, Units, DiskTests
    <3> QED
      BY <3>2, <3>3
  <2> DEFINE m == Max(First(test), machine.long)
  <2>3. m \in Nat \ {0} /\ First(test) <= m /\ m' = m /\ First(test) \in Nat
    BY <1>0, <1>1, <2>1, Bounds DEF First
  <2>4. 0 + 1 \in Nat /\ 2^0 \in Nat \ {0} /\ 2^(0 + 1) = 2 * 2^0
    BY Power
  <2> HIDE DEF m
  <2>5. m < m * (2 * 2^0)
    BY <2>3, <2>4
  <2>6. Units(test)' \in Int
    BY <2>1, <2>2, ConfigTestsAssumption DEF Units, ConfigTestsAssumption
  <2>7. Units(test)' < m' * 2^(count' + 1)
    BY <2>1, <2>2, <2>3, <2>4, <2>5, <2>6
  <2>8. Threshold \in Nat \ {0}
    BY ConfigTestsAssumption DEF ConfigTestsAssumption
  <2> QED
    BY <1>0, <1>1, <2>1, <2>2, <2>7, <2>8 DEF WorkInv, m
<1>5. ASSUME NEW amount, NEW work, Rounds(amount, work) PROVE WorkInv'
  <2>1. PICK long \in ExceedsClock(work) :
           \/ long /\ AddResult(amount, work)
           \/ ~(long /\ count + 1 = Threshold) /\ Retry(long)
    BY <1>5, RoundSteps
  <2>2. CASE AddResult(amount, work)
    BY <1>3, <2>2 DEF AddResult, Doubling
  <2>3. CASE ~(long /\ count + 1 = Threshold) /\ Retry(long)
    <3>1. /\ current \in Doubling /\ current' = current
          /\ num' = Wrap(2 * num) /\ count' = IF long THEN count + 1 ELSE count
      BY <1>5, <2>3 DEF Rounds, Retry
    <3>2. num' \in Int
      BY <1>0, <3>1, Wraps
    <3>3. count \in 0 .. Threshold - 1 /\ Threshold \in Nat \ {0}
      BY <1>0, <3>1, ConfigTestsAssumption DEF WorkInv, ConfigTestsAssumption
    <3>4. count' \in 0 .. Threshold - 1
      BY <2>3, <3>1, <3>3
    <3>5. ASSUME Fits(current)
          PROVE  num' > 0 /\ Units(current)' < Max(First(current), machine.long) * 2^(count' + 1)
      <4> DEFINE m == Max(First(current), machine.long)
                 u == Units(current)
      <4>1. /\ num \in Nat \ {0} /\ u \in Nat \ {0} /\ num <= u /\ work = u
        BY <1>0, <1>5, <3>1, <3>5, Fitting DEF Rounds
      <4>2. m \in Nat \ {0} /\ machine.long <= m
        BY <1>0, <3>1, Bounds
      <4>3. u < m * 2^(count + 1) /\ m * 2^Threshold <= 2^(Width - 1)
        BY <1>0, <3>1, <3>5 DEF WorkInv, Fits
      <4>4. BlockSize \in Nat \ {0} /\ BlockSize * (2 * num) = 2 * (BlockSize * num)
        BY <4>1, Blocks, ConfigTestsAssumption DEF ConfigTestsAssumption
      <4>5. num' = 2 * num => u' = 2 * u
        BY <3>1, <4>4 DEF Units
      <4>6. ~long => u < m
        BY <1>0, <4>1, <4>2, BelowClock
      <4> HIDE DEF m, u
      <4>7. 2 * u < 2^(Width - 1) /\ 2 * u < m * 2^(count' + 1)
        <5>1. CASE long
          <6>1. count + 1 < Threshold /\ count' + 1 = count + 2
            BY <2>3, <3>1, <3>3, <5>1
          <6> QED
            BY <3>3, <4>1, <4>2, <4>3, <6>1, Doubled
        <5>2. CASE ~long
          <6>1. count' = count
            BY <3>1, <5>2
          <6> QED
            BY <3>3, <4>1, <4>2, <4>3, <4>6, <5>2, <6>1, Doubled
        <5> QED
          BY <5>1, <5>2
      <4>8. 2^(Width - 1) \in Nat
        BY Power, ConfigTestsAssumption DEF ConfigTestsAssumption
      <4>9. num' = 2 * num
        <5>1. 2 * num \in Int /\ 0 <= 2 * num /\ 2 * num < 2^(Width - 1)
          BY <4>1, <4>7, <4>8
        <5> QED
          BY <3>1, <5>1, Wraps
      <4> QED
        BY <4>1, <4>5, <4>7, <4>9 DEF m, u
    <3>6. Fits(current)' => Fits(current)
      BY <1>1, <3>1 DEF Fits, First
    <3> QED
      BY <1>0, <1>1, <3>1, <3>2, <3>4, <3>5, <3>6 DEF WorkInv, First
  <2> QED
    BY <2>1, <2>2, <2>3
<1>6. CASE WorkStep
  <2>1. CASE ClockRun
    BY <1>2, <2>1 DEF ClockRun, loopVars, Doubling
  <2>2. CASE \E state : Stops(state)
    BY <1>2, <2>2 DEF Stops, Stop, loopVars, Doubling
  <2> QED
    BY <1>4, <1>5, <1>6, <2>1, <2>2 DEF WorkStep
<1>7. CASE BeginTimer
  BY <1>0, <1>3, <1>7 DEF BeginTimer, GetMinExecTime, Stop, Set, loopVars, Doubling
<1>8. CASE TimerStep
  BY <1>2, <1>8 DEF TimerStep
<1>9. CASE TimerReturns
  BY <1>2, <1>9 DEF TimerReturns, loopVars, Doubling
<1>10. CASE UNCHANGED vars
  BY <1>2, <1>10 DEF vars, loopVars
<1> QED
  BY <1>0, <1>6, <1>7, <1>8, <1>9, <1>10, Steps

(* A test is judged with the accuracy of the clock and its own percentages. *)
LEMMA StepFair == IInv /\ [Next]_vars => FairlyJudged'
<1> SUFFICES ASSUME IInv, [Next]_vars PROVE FairlyJudged'
  OBVIOUS
<1>0. RunInv /\ FairlyJudged /\ Timer!PhaseInv /\ num \in Int
  BY DEF IInv, WorkInv, Timer!IInv
<1>1. UNCHANGED env
  BY <1>0, Steps
<1>2. CASE unfair' = unfair
  BY <1>0, <1>1, <1>2 DEF FairlyJudged
<1>3. ASSUME NEW amount, NEW work, Rounds(amount, work) PROVE FairlyJudged'
  <2>1. PICK long : unfair' = IF long /\ (NoClock \/ altered) THEN unfair \cup {current} ELSE unfair
    BY <1>3, RoundSteps
  <2>2. current \in Doubling
    BY <1>3 DEF Rounds
  <2>3. (NoClock \/ altered) => env.port # "c"
    BY <1>0, <2>2 DEF RunInv, Timer!PhaseInv, Doubling
  <2>4. env.port # "java"
    BY <1>0, <2>2 DEF RunInv
  <2>5. Timer!TypeOK
    BY DEF IInv, Timer!IInv
  <2>6. env.port \in {"c", "cpp", "java"}
    BY <2>5 DEF Timer!TypeOK, Timer!Envs, Timer!Ports
  <2> QED
    BY <1>0, <1>1, <2>1, <2>3, <2>4, <2>6 DEF FairlyJudged
<1>4. CASE WorkStep
  <2>1. CASE ClockRun
    BY <1>2, <2>1 DEF ClockRun, loopVars
  <2>2. CASE \E test, first : Begins(test, first)
    BY <1>2, <2>2 DEF Begins, Set
  <2>3. CASE \E state : Stops(state)
    BY <1>2, <2>3 DEF Stops, Stop, loopVars
  <2> QED
    BY <1>3, <1>4, <2>1, <2>2, <2>3 DEF WorkStep
<1>5. CASE BeginTimer
  BY <1>2, <1>5 DEF BeginTimer, GetMinExecTime, Stop, Set, loopVars
<1>6. CASE TimerStep
  <2>1. env.port \in {"c", "cpp", "java"}
    <3>1. Timer!TypeOK
      BY DEF IInv, Timer!IInv
    <3> QED
      BY <3>1 DEF Timer!TypeOK, Timer!Envs, Timer!Ports
  <2> QED
    BY <1>0, <1>1, <1>6, <2>1 DEF TimerStep, FairlyJudged, RunInv
<1>7. CASE TimerReturns
  BY <1>2, <1>7 DEF TimerReturns, loopVars
<1>8. CASE UNCHANGED vars
  BY <1>2, <1>8 DEF vars, loopVars
<1> QED
  BY <1>0, <1>4, <1>5, <1>6, <1>7, <1>8, Steps

(* The result that was added last was measured. *)
LEMMA StepMeasured == IInv /\ [Next]_vars => ResultsMeasured'
<1> SUFFICES ASSUME IInv, [Next]_vars PROVE ResultsMeasured'
  OBVIOUS
<1>0. RunInv /\ WorkInv /\ ResultsMeasured /\ num \in Int
  BY DEF IInv, WorkInv
<1>1. UNCHANGED machine
  BY <1>0, Steps
<1>2. CASE last' = last /\ unfair \subseteq unfair'
  BY <1>0, <1>1, <1>2 DEF ResultsMeasured, Fits, First
<1>3. CASE last' = NoResult
  BY <1>3 DEF ResultsMeasured, NoResult, Doubling
<1>4. ASSUME NEW amount, NEW work, Rounds(amount, work) PROVE ResultsMeasured'
  <2>1. PICK long \in ExceedsClock(work) :
           /\ \/ long /\ AddResult(amount, work)
              \/ ~(long /\ count + 1 = Threshold) /\ Retry(long)
           /\ unfair' = IF long /\ (NoClock \/ altered) THEN unfair \cup {current} ELSE unfair
    BY <1>4, RoundSteps
  <2>2. CASE Retry(long)
    BY <1>2, <2>1, <2>2 DEF Retry
  <2>3. CASE long /\ AddResult(amount, work)
    <3>1. /\ current \in Doubling /\ last'.test = current
          /\ last'.amount = amount /\ last'.work = work
      BY <1>4, <2>3 DEF Rounds, AddResult
    <3>2. Fits(current) => amount = work /\ work > 0
      BY <1>0, <1>4, <3>1, Fitting DEF Rounds
    <3>3. work \in Nat
      <4>1. Max(0, num) \in Nat
        BY <1>0 DEF Max
      <4>2. Work \in Nat
        BY <4>1, ConfigTestsAssumption DEF Work, ConfigTestsAssumption
      <4> QED
        BY <1>4, <4>1, <4>2 DEF Rounds
    <3>4. current \notin unfair' => work > 0
      BY <1>0, <2>1, <2>3, <3>3, BelowClock
    <3>5. Fits(last.test)' => Fits(current)
      BY <1>1, <3>1 DEF Fits, First
    <3> QED
      BY <3>1, <3>2, <3>4, <3>5 DEF ResultsMeasured
  <2> QED
    BY <2>1, <2>2, <2>3
<1>5. CASE WorkStep
  <2>1. CASE ClockRun
    BY <1>2, <2>1 DEF ClockRun, loopVars
  <2>2. CASE \E test, first : Begins(test, first)
    BY <1>3, <2>2 DEF Begins, Set
  <2>3. CASE \E state : Stops(state)
    BY <1>2, <2>3 DEF Stops, Stop, loopVars
  <2> QED
    BY <1>4, <1>5, <2>1, <2>2, <2>3 DEF WorkStep
<1>6. CASE BeginTimer
  BY <1>2, <1>3, <1>6 DEF BeginTimer, GetMinExecTime, Stop, Set, loopVars
<1>7. CASE TimerStep
  BY <1>2, <1>7 DEF TimerStep
<1>8. CASE TimerReturns
  BY <1>2, <1>8 DEF TimerReturns, loopVars
<1>9. CASE UNCHANGED vars
  BY <1>2, <1>9 DEF vars, loopVars
<1> QED
  BY <1>0, <1>5, <1>6, <1>7, <1>8, <1>9, Steps

(* The program is ended in the cases provided for. *)
LEMMA StepAborts == IInv /\ [Next]_vars => AbortsExplained'
<1> SUFFICES ASSUME IInv, [Next]_vars PROVE AbortsExplained'
  OBVIOUS
<1>0. RunInv /\ WorkInv /\ AbortsExplained /\ Timer!PhaseInv /\ num \in Int
  BY DEF IInv, WorkInv, Timer!IInv
<1>1. UNCHANGED << env, machine >>
  BY <1>0, Steps
<1>2. CASE current' \notin {"crash", "short_read", "abort"}
  BY <1>2 DEF AbortsExplained
<1>3. ASSUME NEW state, Stops(state), UNCHANGED timerVars PROVE AbortsExplained'
  <2>1. /\ current' = state /\ UNCHANGED << ran, table >>
    BY <1>3 DEF Stops, Stop
  <2>2. CASE current \in DiskTests /\ Fits(current)
    <3>1. Amount \in Nat /\ Work = Amount /\ current \in Doubling
      BY <1>0, <2>2, Fitting DEF DiskTests, Doubling
    <3>2. ~(Max(0, Amount) < Work) /\ ~(Amount < 0)
      BY <3>1 DEF Max
    <3>3. state \in {"idle", "end"} \/ (state = "abort" /\ current \in DiskTests /\ env.faulty)
      BY <1>3, <2>2, <3>2 DEF Stops, DiskTests
    <3>4. CASE state \in {"idle", "end"}
      BY <1>2, <2>1, <3>4
    <3>5. CASE state = "abort" /\ current \in DiskTests /\ env.faulty
      BY <1>0, <1>1, <2>1, <3>1, <3>5 DEF AbortsExplained, RunInv, DiskTests
    <3> QED
      BY <3>3, <3>4, <3>5
  <2>3. CASE current = "mcache" /\ Fits(current)
    <3>1. ~(num <= 0) /\ current \in Doubling
      BY <1>0, <2>3, Fitting DEF Doubling
    <3>2. state \in {"idle", "end"}
      BY <1>3, <2>3, <3>1 DEF Stops, DiskTests
    <3> QED
      BY <1>2, <2>1, <3>2
  <2>4. CASE current \notin DiskTests \cup {"mcache"} \/ ~Fits(current)
    <3>1. current \in {"mcache"} \cup DiskTests => current \in ran \ table
      BY <1>0 DEF RunInv, Doubling, DiskTests
    <3>2. \A test : Fits(test)' <=> Fits(test)
      BY <1>1 DEF Fits, First
    <3>3. \/ state \in {"idle", "end"}
          \/ state = "crash" /\ env.port = "c" /\ NoClock
          \/ state = "short_read" /\ env.port = "c" /\ ~Fits("disk_read")
          \/ state = "abort" /\ current \in {"mcache", "disk_read"} /\ ~Fits(current)
          \/ state = "abort" /\ current \in DiskTests /\ env.faulty
      BY <1>3, <2>4 DEF Stops, DiskTests
    <3> QED
      BY <1>1, <2>1, <3>1, <3>2, <3>3 DEF AbortsExplained, NoClock, DiskTests
  <2> QED
    BY <2>2, <2>3, <2>4
<1>4. CASE WorkStep /\ UNCHANGED timerVars
  <2>1. CASE ClockRun
    BY <1>1, <2>1 DEF ClockRun, AbortsExplained
  <2>2. CASE \E test, first : Begins(test, first)
    BY <1>2, <2>2 DEF Begins, Set, Doubling
  <2>3. CASE \E amount, work : Rounds(amount, work)
    <3>1. current' = "idle" \/ (current' = current /\ current \in Doubling)
      BY <2>3, RoundSteps DEF Rounds, AddResult, Retry
    <3> QED
      BY <1>2, <3>1 DEF Doubling
  <2> QED
    BY <1>3, <1>4, <2>1, <2>2, <2>3 DEF WorkStep
<1>5. CASE BeginTimer
  BY <1>1, <1>2, <1>5 DEF BeginTimer, GetMinExecTime, Stop, Set, AbortsExplained, NoClock
<1>6. CASE TimerStep
  BY <1>2, <1>6 DEF TimerStep
<1>7. CASE TimerReturns
  <2>1. current' = "idle" \/ (current' = "abort" /\ tphase' = "abort" /\ tphase = "abort")
    BY <1>7 DEF TimerReturns, timerVars
  <2> QED
    BY <1>0, <1>1, <1>2, <1>7, <2>1
    DEF TimerReturns, timerVars, AbortsExplained, RunInv, Timer!PhaseInv
<1>8. CASE UNCHANGED vars
  <2>1. UNCHANGED << env, machine, current, ran, table, tphase, prev >>
    BY <1>8 DEF vars, timerVars
  <2> QED
    BY <1>0, <2>1 DEF AbortsExplained, NoClock, Fits, First
<1> QED
  BY <1>0, <1>4, <1>5, <1>6, <1>7, <1>8, Steps

-----------------------------------------------------------------------------
(* The theorems.                                                           *)

(* The first states. *)
LEMMA InitTimer == Init => Timer!IInv
<1> SUFFICES ASSUME Init PROVE Timer!IInv
  OBVIOUS
<1> USE ConfigTestsAssumption DEF ConfigTestsAssumption
<1>0. Timer!Init
  BY DEF Init
<1>1. Timer!TypeOK
  <2>1. Timer!Numbers
    BY <1>0 DEF Timer!Init, Timer!Numbers, Timer!Garbage, Timer!TooHigh
  <2>2. Timer!Nothing \in [quantum : Int, outcome : Timer!Outcomes]
    BY DEF Timer!Nothing, Timer!Outcomes
  <2> QED
    BY <1>0, <2>1, <2>2 DEF Timer!Init, Timer!TypeOK
<1>2. Timer!PhaseInv /\ Timer!OutcomeInv /\ Timer!SearchInv /\ Timer!LeastQuantum
  BY <1>0 DEF Timer!Init, Timer!PhaseInv, Timer!OutcomeInv, Timer!SearchInv, Timer!LeastQuantum
<1>3. Timer!LowerEndInv
  BY <1>0 DEF Timer!Init, Timer!LowerEndInv, Timer!Garbage, Timer!TooHigh
<1> QED
  BY <1>1, <1>2, <1>3 DEF Timer!IInv

LEMMA InitHolds == Init => IInv
<1> SUFFICES ASSUME Init PROVE IInv
  OBVIOUS
<1>1. Timer!IInv
  BY InitTimer
<1>2. /\ machine \in [long : Speeds, coarse : BOOLEAN] /\ current = "idle" /\ ran = {} /\ table = {}
      /\ num = 0 /\ last = NoResult /\ unfair = {}
  BY DEF Init
<1>3. tphase = "start"
  BY DEF Init, Timer!Init
<1>4. machine.long \in Nat \ {0}
  BY <1>2, ConfigTestsAssumption DEF ConfigTestsAssumption
<1> QED
  BY <1>1, <1>2, <1>3, <1>4
  DEF IInv, RunInv, WorkInv, FairlyJudged, ResultsMeasured, AbortsExplained, Doubling, NoResult

(* The config tests, one after the other, keep the invariant that joins the *)
(* search of the timer test, the work of the others and what they share.    *)
THEOREM Invariance == Spec => []IInv
<1>1. IInv /\ [Next]_vars => IInv'
  BY StepTimer, StepRun, StepWork, StepFair, StepMeasured, StepAborts DEF IInv
<1> QED
  BY InitHolds, <1>1, PTL DEF Spec

(* The sleep that the C port publishes, and the C++ port when its lower end *)
(* is not too high, is the least that passes on a regular machine; on any   *)
(* machine the one below it failed.                                         *)
THEOREM LeastPublished == Spec => []LeastQuantum
<1>1. IInv => LeastQuantum
  BY DEF IInv, Timer!IInv, LeastQuantum
<1> QED
  BY Invariance, <1>1, PTL

(* What a config test reports is the work that it has measured, for every   *)
(* width of an int and threshold, as long as the rounds it may make fit.    *)
THEOREM MeasuredOrOverflown == Spec => []ResultsMeasured
<1>1. IInv => ResultsMeasured
  BY DEF IInv
<1> QED
  BY Invariance, <1>1, PTL

(* The C port judges every test by the accuracy of the clock and by the     *)
(* percentages of the input file, whatever the order of the tests.          *)
THEOREM JudgedFairly == Spec => []FairlyJudged
<1>1. IInv => FairlyJudged
  BY DEF IInv
<1> QED
  BY Invariance, <1>1, PTL

(* A test ends the program for want of a clock result in the C port, on a   *)
(* coarse clock or by the uninitialised lower end in the C++ port, when a   *)
(* call fails in the timer test or a disk test, or after an overflow.       *)
THEOREM AbortsForAReason == Spec => []AbortsExplained
<1>1. IInv => AbortsExplained
  BY DEF IInv
<1> QED
  BY Invariance, <1>1, PTL

==============================================================================
