-------------------------- MODULE MCOfflineHandover --------------------------
(* OfflineHandover with memory for two offline_control tasks.              *)
EXTENDS OfflineHandover

CONSTANTS s1, s2

TwoSlots == {s1, s2}
=============================================================================
