------------------------------ MODULE MCJavaGate ------------------------------
(* The gates of the Java tests with two gated workers and the last one.    *)
EXTENDS JavaGate

CONSTANTS g1, g2

MCGated == {g1, g2}
=============================================================================
