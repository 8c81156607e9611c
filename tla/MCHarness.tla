------------------------------- MODULE MCHarness -------------------------------
(* The harness with the order of the tests in the files shipped with the C *)
(* port and with the C++ and Java ports, and with one mixed order; -t may  *)
(* name up to two tests, known or not.  Each mode has a multiplier of its  *)
(* own, and so has the record that a stray pointer finds.                  *)
EXTENDS Harness

MCMultiplier == [soft |-> 2, hard |-> 3, guaranteed |-> 5]

MCFiles ==
  {<< "rate", "sleeper", "timer", "clock" >>,
   << "clock", "timer", "rate", "sleeper" >>,
   << "timer", "rate", "clock", "sleeper" >>}

Nameable == {"clock", "rate", "sleeper", "unknown"}

MCNameLists == {<< >>} \cup [1 .. 1 -> Nameable] \cup [1 .. 2 -> Nameable]
=============================================================================
