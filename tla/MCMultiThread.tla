---------------------------- MODULE MCMultiThread ----------------------------
(* The multi_thread test on a machine with NCpus online CPUs.              *)
EXTENDS MultiThread

CONSTANTS NCpus

MCGated == 0 .. (NCpus - 1)

(* result_id = online_cpus marks the last thread.                          *)
MCSolo == {NCpus}

MCNobody == -1
=============================================================================
