-------------------------- MODULE MCPortLifecycle ---------------------------
(* PortLifecycle on a small instance: the two threads are two scans, or a   *)
(* scan and a Close; with two handles a port is replaced while the loop of  *)
(* its predecessor is still ending (PortLifecycleProofs has any number).    *)
EXTENDS PortLifecycle

CONSTANTS h1, h2, t1, t2, w1

=============================================================================
