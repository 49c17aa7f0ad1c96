---------------------------- MODULE MCAlertQueue ----------------------------
(* Instances of AlertQueue for TLC.                                         *)
EXTENDS AlertQueue, TLC
=============================================================================
