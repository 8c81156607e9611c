--------------------------- MODULE MCThreadPriority ---------------------------
(* The thread_priority test; each of the three sets has one thread for     *)
(* each online CPU, and its threads are interchangeable.                   *)
EXTENDS ThreadPriority, TLC

CONSTANTS Highs, Meds, Lows

MCGated == Highs \cup Meds \cup Lows

MCPrio == [t \in MCGated |-> CASE t \in Highs -> HIGH_PRIORITY
                               [] t \in Meds  -> MED_PRIORITY
                               [] t \in Lows  -> LOW_PRIORITY]

SamePriority == Permutations(Highs) \cup Permutations(Meds) \cup Permutations(Lows)
=============================================================================
