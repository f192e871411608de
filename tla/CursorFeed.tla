----------------------------- MODULE CursorFeed -----------------------------
(***************************************************************************)
(* What the history of one serial port promises an API client, with the    *)
(* ring buffer, the long poll and the HTTP exchange left out.  Records are *)
(* numbered from 1 in the order they are published.  A reader holds a      *)
(* cursor; each advance hands it a run of consecutive records that ends at *)
(* its new cursor, and any record between the old cursor and that run is   *)
(* reported to it as lost.  Nothing is delivered twice and nothing         *)
(* disappears without the reader being told.                               *)
(***************************************************************************)
EXTENDS Naturals

CONSTANTS Clients,      \* the readers
          MaxSequence   \* bound on the number of records published

VARIABLES published,    \* how many records exist
          start,        \* where each reader began to follow the feed
          cursor,       \* the last record each reader has dealt with
          seen,         \* the records delivered to each reader
          lost          \* the records each reader was told it missed

feedVars == <<published, start, cursor, seen, lost>>

Init ==
  /\ published = 0
  /\ start  = [c \in Clients |-> 0]
  /\ cursor = [c \in Clients |-> 0]
  /\ seen   = [c \in Clients |-> {}]
  /\ lost   = [c \in Clients |-> {}]

Publish ==
  /\ published < MaxSequence
  /\ published' = published + 1
  /\ UNCHANGED <<start, cursor, seen, lost>>

\* A reader that has read nothing yet may begin at the end of the feed.
Join(c) ==
  /\ cursor[c] = 0
  /\ start'  = [start EXCEPT ![c] = published]
  /\ cursor' = [cursor EXCEPT ![c] = published]
  /\ UNCHANGED <<published, seen, lost>>

Advance(c) ==
  \E last \in (cursor[c] + 1)..published :
    \E first \in (cursor[c] + 1)..last :
      /\ seen'   = [seen EXCEPT ![c] = @ \cup first..last]
      /\ lost'   = [lost EXCEPT ![c] = @ \cup (cursor[c] + 1)..(first - 1)]
      /\ cursor' = [cursor EXCEPT ![c] = last]
      /\ UNCHANGED <<published, start>>

Next ==
  \/ Publish
  \/ \E c \in Clients : Join(c) \/ Advance(c)

Safety == Init /\ [][Next]_feedVars

\* A reader that is behind is eventually served.
Spec == Safety /\ \A c \in Clients : WF_feedVars(Advance(c))

=============================================================================
