---------------------------- MODULE MCListeners -----------------------------
(* Both listeners of a gateway, each made up to twice, by a scan and by a     *)
(* PUT.                                                                      *)
EXTENDS Listeners

CONSTANTS l1, l2, scan, put

=============================================================================
