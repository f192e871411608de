--------------------------- MODULE MCConfigUpdates ---------------------------
(* Two requests at once, of any kind.  A PUT brings back the default,       *)
(* changes ports and settings, or is not valid.                             *)
EXTENDS ConfigUpdates

CONSTANTS r1, r2, all, some, s8n1, s7e1, invalid

SmallBodies == {[ports |-> all, settings |-> s8n1], [ports |-> some, settings |-> s7e1],
                [ports |-> some, settings |-> invalid]}

=============================================================================
