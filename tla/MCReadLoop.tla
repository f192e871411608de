----------------------------- MODULE MCReadLoop -----------------------------
(* ReadLoop with a chunk of three bytes and a channel of two results:       *)
(* the channel fills, a chunk overflows, the timer fires with results       *)
(* waiting, and the error arrives with and without bytes.                   *)
EXTENDS ReadLoop

=============================================================================
