------------------------------ MODULE PingPong ------------------------------
(***************************************************************************)
(* What the event_dispatch test promises to time: control passes to the    *)
(* receiver and comes back, one round trip after the other.                *)
(***************************************************************************)
EXTENDS Naturals

VARIABLES
  turn,    \* who has control
  trips    \* completed round trips

Init == turn = "sender" /\ trips = 0

Dispatch == turn = "sender" /\ turn' = "receiver" /\ UNCHANGED trips

Return == turn = "receiver" /\ turn' = "sender" /\ trips' = trips + 1

Next == Dispatch \/ Return

Spec == Init /\ [][Next]_<< turn, trips >>
=============================================================================
