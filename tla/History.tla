------------------------------ MODULE History -------------------------------
(***************************************************************************)
(* The record history of one SerialGateway (gateway.go) and the            *)
(* cursor-based long poll of GET /api/v1/read (api.go) on top of it.       *)
(*                                                                         *)
(* addRecord and RecordsAfter run under historyMu, so each is one atomic   *)
(* step.  HandleRead is several: it takes a snapshot, may sleep on the     *)
(* notify channel, takes a second snapshot and sends the response, and     *)
(* records are added between any two of these.  Each client is one HTTP    *)
(* reader that follows the documented workflow (docs.go:39-45): one        *)
(* request at a time, `after` set to the last next_after it received.      *)
(*                                                                         *)
(* A record is its sequence number and its size; the direction, timestamp  *)
(* and bytes travel with it unread.  The notify channel is the number of   *)
(* channels closed before it was made: channel n is closed iff n < notify. *)
(***************************************************************************)
EXTENDS Naturals, Sequences, SequencesExt

CONSTANTS
  Clients,          \* HTTP clients polling this port
  Sizes,            \* lengths len(data) of the records that are added
  Limits,           \* values of the `limit` query parameter
  MaxHistoryBytes,  \* maxHistoryBytes
  MaxSequence       \* bound on the number of records added

ASSUME HistoryAssumption ==
  /\ Sizes \subseteq Nat \ {0}
  /\ Limits \subseteq Nat \ {0}
  /\ MaxHistoryBytes \in Nat
  /\ MaxSequence \in Nat

VARIABLES
  history,        \* g.history, oldest record first
  historyBytes,   \* g.historyBytes
  sequence,       \* g.sequence, the number of the newest record
  notify,         \* g.notify
  pc,             \* where each client's request is in HandleRead
  cursor,         \* the client's cursor, sent as `after`
  limit,          \* `limit` of the request in progress
  chan,           \* the channel HandleRead sleeps on
  resp,           \* the response under way to the client
  start,          \* history variable: where the client began to follow
  seen,           \* history variable: the records delivered to the client
  lost            \* history variable: the records reported as truncated

storeVars == <<history, historyBytes, sequence, notify>>
clientVars == <<pc, cursor, limit, chan, resp, start, seen, lost>>
vars == <<storeVars, clientVars>>

Record == [sequence : Nat, size : Nat]
NoResponse == [records |-> <<>>, nextAfter |-> 0, hasMore |-> FALSE, truncated |-> FALSE]
Response == [records : Seq(Record), nextAfter : Nat, hasMore : BOOLEAN, truncated : BOOLEAN]

-----------------------------------------------------------------------------
(* The store: addRecord and RecordsAfter.                                  *)

\* Total length of the data held by a sequence of records.
Bytes(records) ==
  LET total[i \in 0..Len(records)] == IF i = 0 THEN 0 ELSE total[i - 1] + records[i].size
  IN  total[Len(records)]

EvictsAtTheBound(h, bytes, k) ==
  \/ bytes - Bytes(SubSeq(h, 1, k)) < MaxHistoryBytes
  \/ Len(h) - k <= 1

\* The eviction loop stops after dropping the k oldest records of h.
EvictionStops(h, bytes, k) ==
  \/ bytes - Bytes(SubSeq(h, 1, k)) <= MaxHistoryBytes
  \/ Len(h) - k <= 1

\* close(g.notify), and a fresh channel for the readers to come.
CloseNotify == notify' = notify + 1

\* addRecord: number the record, append it, evict from the front while the
\* history is too large and more than one record is left, and close the
\* channel that readers sleep on.
AddRecord(size) ==
  LET h == Append(history, [sequence |-> sequence + 1, size |-> size])
      bytes == historyBytes + size
  IN  /\ sequence < MaxSequence
      /\ sequence' = sequence + 1
      /\ \E k \in 0..Len(h) :
           /\ EvictionStops(h, bytes, k)
           /\ \A j \in 0..(k - 1) : ~EvictionStops(h, bytes, j)
           /\ history' = SubSeq(h, k + 1, Len(h))
           /\ historyBytes' = bytes - Bytes(SubSeq(h, 1, k))
      /\ CloseNotify
      /\ UNCHANGED clientVars

FirstFrom(after) ==
  LET later == {i \in 1..Len(history) : history[i].sequence >= after}
  IN  IF later = {} THEN Len(history) + 1
      ELSE CHOOSE i \in later : \A j \in later : i <= j

\* Index in the history of the first record after the cursor, or one past
\* the end.
FirstAfter(after) ==
  LET later == {i \in 1..Len(history) : history[i].sequence > after}
  IN  IF later = {} THEN Len(history) + 1
      ELSE CHOOSE i \in later : \A j \in later : i <= j

AllButTheNewest(after, max) ==
  LET first == FirstAfter(after)
      last == IF Len(history) - first > max THEN first + max - 1 ELSE Len(history) - 1
  IN  SubSeq(history, first, last)

\* RecordsAfter: at most max records, in order, from the first after the cursor.
RecordsAfter(after, max) ==
  LET first == FirstAfter(after)
      last == IF Len(history) - first + 1 > max THEN first + max - 1 ELSE Len(history)
  IN  SubSeq(history, first, last)

OldestSequence == IF history = <<>> THEN 0 ELSE history[1].sequence

-----------------------------------------------------------------------------
(* One request: HandleRead, and the client at the other end.               *)

NextAfterIsLatest(after, records) == sequence

NextAfter(after, records) ==
  IF records = <<>> THEN after ELSE records[Len(records)].sequence

HasMore(after, records) == NextAfter(after, records) < sequence

TruncatedLate(after, records) == records # <<>> /\ OldestSequence > after + 2

Truncated(after, records) == records # <<>> /\ OldestSequence > after + 1

\* The JSON response built from a snapshot.
Respond(c, records) ==
  /\ resp' = [resp EXCEPT ![c] =
       [records   |-> records,
        nextAfter |-> NextAfter(cursor[c], records),
        hasMore   |-> HasMore(cursor[c], records),
        truncated |-> Truncated(cursor[c], records)]]
  /\ pc' = [pc EXCEPT ![c] = "responding"]

\* The client sends a request, with or without wait_ms.  HandleRead takes its
\* first snapshot; it sleeps on the channel that came with the snapshot when
\* there is nothing to return and the client is willing to wait.
Request(c) ==
  /\ pc[c] = "idle"
  /\ \E max \in Limits, wait \in BOOLEAN :
       LET records == RecordsAfter(cursor[c], max) IN
       /\ limit' = [limit EXCEPT ![c] = max]
       /\ IF records = <<>> /\ wait
          THEN /\ pc' = [pc EXCEPT ![c] = "waiting"]
               /\ chan' = [chan EXCEPT ![c] = notify]
               /\ UNCHANGED resp
          ELSE /\ Respond(c, records)
               /\ UNCHANGED chan
  /\ UNCHANGED <<storeVars, cursor, start, seen, lost>>

\* The second snapshot, after the select returned.
SecondSnapshot(c) ==
  /\ Respond(c, RecordsAfter(cursor[c], limit[c]))
  /\ UNCHANGED <<storeVars, cursor, limit, chan, start, seen, lost>>

\* case <-notify
Wake(c) ==
  /\ pc[c] = "waiting"
  /\ chan[c] < notify
  /\ SecondSnapshot(c)

\* case <-timer.C
Timeout(c) ==
  /\ pc[c] = "waiting"
  /\ SecondSnapshot(c)

\* case <-r.Context().Done(), or the connection breaks while the response is
\* under way: the client has seen nothing and keeps its cursor.
Disconnect(c) ==
  /\ pc[c] \in {"waiting", "responding"}
  /\ pc' = [pc EXCEPT ![c] = "idle"]
  /\ resp' = [resp EXCEPT ![c] = NoResponse]
  /\ UNCHANGED <<storeVars, cursor, limit, chan, start, seen, lost>>

\* The client receives the response: it moves its cursor to next_after and
\* takes the records between its cursor and the first one returned for lost
\* if, and only if, history_truncated says so.
Receive(c) ==
  LET records == resp[c].records
      numbers == {records[i].sequence : i \in 1..Len(records)}
  IN  /\ pc[c] = "responding"
      /\ seen' = [seen EXCEPT ![c] = @ \cup numbers]
      /\ lost' = [lost EXCEPT ![c] =
           IF resp[c].truncated THEN @ \cup (cursor[c] + 1)..(records[1].sequence - 1) ELSE @]
      /\ cursor' = [cursor EXCEPT ![c] = resp[c].nextAfter]
      /\ pc' = [pc EXCEPT ![c] = "idle"]
      /\ resp' = [resp EXCEPT ![c] = NoResponse]
      /\ UNCHANGED <<storeVars, limit, chan, start>>

\* A client that has read nothing takes latest_sequence from /api/v1/ports
\* (Status) as its cursor.
Discover(c) ==
  /\ pc[c] = "idle"
  /\ cursor[c] = 0
  /\ cursor' = [cursor EXCEPT ![c] = sequence]
  /\ start' = [start EXCEPT ![c] = sequence]
  /\ UNCHANGED <<storeVars, pc, limit, chan, resp, seen, lost>>

-----------------------------------------------------------------------------
Init ==
  /\ history = <<>>
  /\ historyBytes = 0
  /\ sequence = 0
  /\ notify = 0
  /\ pc = [c \in Clients |-> "idle"]
  /\ cursor = [c \in Clients |-> 0]
  /\ limit = [c \in Clients |-> 0]
  /\ chan = [c \in Clients |-> 0]
  /\ resp = [c \in Clients |-> NoResponse]
  /\ start = [c \in Clients |-> 0]
  /\ seen = [c \in Clients |-> {}]
  /\ lost = [c \in Clients |-> {}]

Next ==
  \/ \E size \in Sizes : AddRecord(size)
  \/ \E c \in Clients :
       \/ Request(c) \/ Wake(c) \/ Timeout(c)
       \/ Disconnect(c) \/ Receive(c) \/ Discover(c)

Safety == Init /\ [][Next]_vars

\* The goroutine of a request runs once it is ready, a client keeps polling,
\* and not every response is lost on the way.  Nothing is assumed of the
\* timer: a reader must be woken by the record, not by its timeout.
Spec ==
  /\ Safety
  /\ \A c \in Clients : WF_vars(Request(c)) /\ WF_vars(Wake(c)) /\ SF_vars(Receive(c))

-----------------------------------------------------------------------------
(* Properties.                                                             *)

\* Every variable keeps the shape the code gives it (what historyBytes may be
\* is said by EvictsWhatItMust).
TypeOK ==
  /\ history \in Seq(Record)
  /\ sequence \in Nat
  /\ notify \in Nat
  /\ pc \in [Clients -> {"idle", "waiting", "responding"}]
  /\ cursor \in [Clients -> Nat]
  /\ limit \in [Clients -> Nat]
  /\ chan \in [Clients -> Nat]
  /\ resp \in [Clients -> Response]
  /\ start \in [Clients -> Nat]
  /\ seen \in [Clients -> SUBSET Nat]
  /\ lost \in [Clients -> SUBSET Nat]

\* The history is a window of consecutive numbers that ends at the newest
\* record, and it is never empty again once a record was added: eviction
\* (addRecord) takes from the old end only.
HistoryContiguous ==
  /\ sequence > 0 => history # <<>>
  /\ \A i \in 1..Len(history) : history[i].sequence = sequence - Len(history) + i

\* addRecord keeps its bound and evicts no more than it must, across any
\* sequence of records of any size: the byte count is that of what is held, it
\* exceeds the bound only for a single record that does so on its own, and the
\* newest record that is dropped would not have fitted with those that stay.
EvictsWhatItMust ==
  [][/\ historyBytes' = Bytes(history')
     /\ historyBytes' <= MaxHistoryBytes \/ Len(history') = 1
     /\ \A i \in 1..Len(history) :
          history[i].sequence + 1 = history'[1].sequence
            => history[i].size + historyBytes' > MaxHistoryBytes]_vars

\* A request asleep on a channel that is still open has nothing to be woken
\* for: HandleRead takes the channel together with the empty snapshot, so a
\* record added between the snapshot and the select is not slept through.
NoLostWakeup ==
  \A c \in Clients :
    pc[c] = "waiting" /\ cursor[c] < sequence => chan[c] < notify

\* Whatever the interleaving of records, evictions, waits and broken
\* connections, a client has every record between where it began and its
\* cursor, or was told by history_truncated that it missed it; it is not told
\* so of a record it has, or of one the gateway could still have given it.
NoSilentLoss ==
  \A c \in Clients :
    /\ seen[c] \cup lost[c] = (start[c] + 1)..cursor[c]
    /\ seen[c] \cap lost[c] = {}
    /\ \A n \in lost[c] : n < OldestSequence

\* A record reaches a client once and in order: a response holds, in rising
\* order, only records the client neither has nor was told it missed, even
\* when an earlier response was lost on the way and is asked for again.
NothingRedelivered ==
  \A c \in Clients :
    LET records == resp[c].records IN
    /\ \A i \in 1..Len(records) : records[i].sequence \notin seen[c] \cup lost[c]
    /\ \A i, j \in 1..Len(records) : i < j => records[i].sequence < records[j].sequence

\* A client that polls reaches every record that is added, without any help
\* from the timer of the long poll, though responses may be lost.
CatchesUp ==
  \A c \in Clients : \A n \in 1..MaxSequence : sequence >= n ~> cursor[c] >= n

\* The history and its long poll implement the feed of CursorFeed.
Feed == INSTANCE CursorFeed WITH published <- sequence
ImplementsFeed == Feed!Spec

=============================================================================
