------------------------------ MODULE MCFanout ------------------------------
(* Fanout with a queue of one chunk, so that a slow client is dropped, and  *)
(* two read loops that follow each other or overlap.  Subscribers meet only *)
(* in the snapshot of broadcast, which serves them one after the other.     *)
EXTENDS Fanout

CONSTANTS s1, b1, b2

=============================================================================
