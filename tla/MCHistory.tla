----------------------------- MODULE MCHistory -----------------------------
(* History on a small instance.  Sizes 1 and 3 against a bound of 3 bytes  *)
(* make every eviction case happen: none, one record, several records for  *)
(* one large one, and (size 4) a record that exceeds the bound alone.      *)
(* Clients share nothing but the history, which they only read: one client *)
(* shows what any number would (HistoryProofs has them all).               *)
EXTENDS History

CONSTANT c1

=============================================================================
