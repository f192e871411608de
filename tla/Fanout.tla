------------------------------- MODULE Fanout -------------------------------
(***************************************************************************)
(* How one SerialGateway hands serial output to its clients (gateway.go):  *)
(* Subscribe, enqueue, broadcast, Unsubscribe and the writer goroutine of  *)
(* each subscriber, with the connection handler at the other end           *)
(* (handleTCP, handleTelnet, HandleWS) and Close.                          *)
(*                                                                         *)
(* A broadcast takes a snapshot of the subscribers under subscribersMu and *)
(* then offers the chunk to each without the lock, so subscribers come and *)
(* go meanwhile.  Loops are the read loops that flush into this gateway:   *)
(* one, or two while the loop of a port that was replaced is still ending. *)
(*                                                                         *)
(* A chunk is named by the loop and its number in that loop; a subscriber  *)
(* stands for one connection.                                              *)
(***************************************************************************)
EXTENDS Naturals, Sequences, FiniteSets, SequencesExt, Functions

CONSTANTS
  Subs,         \* subscribers, one per connection
  Loops,        \* read loops that broadcast
  None,         \* no subscriber
  QueueSize,    \* subscriberQueueSize
  MaxChunks     \* bound on the chunks of all loops together

ASSUME FanoutAssumption ==
  /\ None \notin Subs
  /\ QueueSize \in Nat \ {0}
  /\ MaxChunks \in Nat

VARIABLES
  members,      \* g.subscribers
  queue,        \* the channel `send` of each subscriber
  done,         \* the channel `done` is closed, and the connection with it
  writer,       \* where the writer goroutine of each subscriber is
  writing,      \* the chunk it is writing or failed to write, in a sequence of
                \* at most one
  handler,      \* where the connection handler of each subscriber is
  flushed,      \* how many chunks each loop has begun to flush
  bpc,          \* where each loop is in flush
  targets,      \* the snapshot of broadcast, as far as it is not dealt with
  at,           \* the subscriber broadcast is dealing with
  closing,      \* where Close is: "open", "closing" or "closed"
  closeTargets, \* the snapshot of Close, as far as it is not dealt with
  history,      \* the chunks in the order addRecord numbered them
  received,     \* history variable: what each client received
  overlapped,   \* history variable: two loops were in flush at once
  since         \* history variable: the chunks each loop broadcast before
                \* the subscriber was there

subVars == <<members, queue, done, writer, writing, handler, received, since>>
orderVars == <<history, overlapped>>
loopVars == <<flushed, bpc, targets, at, orderVars>>
closeVars == <<closing, closeTargets>>
vars == <<subVars, loopVars, closeVars>>

-----------------------------------------------------------------------------
(* Unsubscribe is two steps: take the subscriber out of the map, then stop *)
(* it.  Broadcast, the writer, the handler and Close all call it.          *)

Delete(s) == members' = members \ {s}

LeavesWriterRunning(s) == UNCHANGED done

\* stop: close(done) and close the connection, once.
Stop(s) == done' = [done EXCEPT ![s] = TRUE]

-----------------------------------------------------------------------------
(* Connections.                                                            *)

SnapshotsTaken(b) == IF bpc[b] \in {"flush", "snapshot"} THEN flushed[b] - 1 ELSE flushed[b]

\* Subscribe, which also starts the writer goroutine.
Subscribe(s) ==
  /\ handler[s] = "none"
  /\ members' = members \cup {s}
  /\ handler' = [handler EXCEPT ![s] = "reading"]
  /\ writer' = [writer EXCEPT ![s] = "select"]
  /\ since' = [since EXCEPT ![s] = [b \in Loops |-> SnapshotsTaken(b)]]
  /\ UNCHANGED <<queue, done, writing, received, loopVars, closeVars>>

\* The client leaves or its input cannot be written to the port; if the
\* connection was closed here, the read fails.
HandlerLeaves(s) ==
  /\ handler[s] = "reading"
  /\ handler' = [handler EXCEPT ![s] = "delete"]
  /\ UNCHANGED <<members, queue, done, writer, writing, received, since, loopVars, closeVars>>

HandlerDeletes(s) ==
  /\ handler[s] = "delete"
  /\ Delete(s)
  /\ handler' = [handler EXCEPT ![s] = "stop"]
  /\ UNCHANGED <<queue, done, writer, writing, received, since, loopVars, closeVars>>

HandlerStops(s) ==
  /\ handler[s] = "stop"
  /\ Stop(s)
  /\ handler' = [handler EXCEPT ![s] = "ended"]
  /\ UNCHANGED <<members, queue, writer, writing, received, since, loopVars, closeVars>>

\* Writer: case data := <-subscriber.send
WriterTakes(s) ==
  /\ writer[s] = "select"
  /\ queue[s] # <<>>
  /\ writing' = [writing EXCEPT ![s] = <<Head(queue[s])>>]
  /\ queue' = [queue EXCEPT ![s] = Tail(@)]
  /\ writer' = [writer EXCEPT ![s] = "write"]
  /\ UNCHANGED <<members, done, handler, received, since, loopVars, closeVars>>

\* Writer: case <-subscriber.done
SeesDone(s) == done[s]

WriterDone(s) ==
  /\ writer[s] = "select"
  /\ SeesDone(s)
  /\ writer' = [writer EXCEPT ![s] = "delete"]
  /\ UNCHANGED <<members, queue, done, writing, handler, received, since, loopVars, closeVars>>

\* write(data) succeeds, which it cannot once the connection is closed.
WriteSucceeds(s) ==
  /\ writer[s] = "write"
  /\ ~done[s]
  /\ received' = [received EXCEPT ![s] = @ \o writing[s]]
  /\ writing' = [writing EXCEPT ![s] = <<>>]
  /\ writer' = [writer EXCEPT ![s] = "select"]
  /\ UNCHANGED <<members, queue, done, handler, since, loopVars, closeVars>>

\* write(data) fails: the connection is closed or broken, or the client took
\* nothing for the five seconds of the write deadline.
WriteFails(s) ==
  /\ writer[s] = "write"
  /\ writer' = [writer EXCEPT ![s] = "delete"]
  /\ UNCHANGED <<members, queue, done, writing, handler, received, since, loopVars, closeVars>>

WriterDeletes(s) ==
  /\ writer[s] = "delete"
  /\ Delete(s)
  /\ writer' = [writer EXCEPT ![s] = "stop"]
  /\ UNCHANGED <<queue, done, writing, handler, received, since, loopVars, closeVars>>

WriterStops(s) ==
  /\ writer[s] = "stop"
  /\ Stop(s)
  /\ writer' = [writer EXCEPT ![s] = "ended"]
  /\ UNCHANGED <<members, queue, writing, handler, received, since, loopVars, closeVars>>

-----------------------------------------------------------------------------
(* flush in a read loop: addRecord, then broadcast.                        *)

Chunk(b) == <<b, flushed[b]>>

SkipsTheHistory == "snapshot"

\* flush calls addRecord before broadcast.
AfterTake == "flush"

\* flush takes its bytes out of pending.
BeginFlush(b) ==
  /\ bpc[b] = "idle"
  /\ FoldFunction(+, 0, flushed) < MaxChunks
  /\ flushed' = [flushed EXCEPT ![b] = @ + 1]
  /\ bpc' = [bpc EXCEPT ![b] = AfterTake]
  /\ overlapped' = (overlapped \/ \E other \in Loops \ {b} : bpc[other] # "idle")
  /\ UNCHANGED <<subVars, targets, at, history, closeVars>>

\* addRecord
Record(b) ==
  /\ bpc[b] = "flush"
  /\ history' = Append(history, Chunk(b))
  /\ bpc' = [bpc EXCEPT ![b] = "snapshot"]
  /\ UNCHANGED <<subVars, flushed, targets, at, overlapped, closeVars>>

\* broadcast: copy the subscribers under the read lock.
Snapshot(b) ==
  /\ bpc[b] = "snapshot"
  /\ targets' = [targets EXCEPT ![b] = members]
  /\ bpc' = [bpc EXCEPT ![b] = "next"]
  /\ UNCHANGED <<subVars, flushed, at, orderVars, closeVars>>

\* The next subscriber of the snapshot, in the order of a map iteration.
NextTarget(b) ==
  /\ bpc[b] = "next"
  /\ IF targets[b] = {}
     THEN /\ bpc' = [bpc EXCEPT ![b] = "idle"]
          /\ UNCHANGED <<targets, at>>
     ELSE /\ \E s \in targets[b] :
               /\ at' = [at EXCEPT ![b] = s]
               /\ targets' = [targets EXCEPT ![b] = @ \ {s}]
          /\ bpc' = [bpc EXCEPT ![b] = "check"]
  /\ UNCHANGED <<subVars, flushed, orderVars, closeVars>>

\* enqueue, first select: a subscriber that is done gets nothing.
Check(b) ==
  /\ bpc[b] = "check"
  /\ bpc' = [bpc EXCEPT ![b] = IF done[at[b]] THEN "delete" ELSE "offer"]
  /\ UNCHANGED <<subVars, flushed, targets, at, orderVars, closeVars>>

HasRoomForOneMore(s) == Len(queue[s]) <= QueueSize

HasRoom(s) == Len(queue[s]) < QueueSize

WaitsForRoom(s) == done[s]

\* enqueue may return false: default, or case <-s.done.
MayGiveUp(s) == ~HasRoom(s) \/ done[s]

\* enqueue, second select: the queue has room.  It is a choice even when the
\* subscriber is done by now.
Offer(b) ==
  /\ bpc[b] = "offer"
  /\ HasRoom(at[b])
  /\ queue' = [queue EXCEPT ![at[b]] = Append(@, Chunk(b))]
  /\ bpc' = [bpc EXCEPT ![b] = "next"]
  /\ at' = [at EXCEPT ![b] = None]
  /\ UNCHANGED <<members, done, writer, writing, handler, received, since, flushed, targets,
                 orderVars, closeVars>>

SkipsTheChunk == "next"

\* What broadcast does with a subscriber that did not take the chunk.
AfterRefusal == "delete"

\* enqueue, second select: the queue is full, or the subscriber is done.
OfferFails(b) ==
  /\ bpc[b] = "offer"
  /\ MayGiveUp(at[b])
  /\ bpc' = [bpc EXCEPT ![b] = AfterRefusal]
  /\ UNCHANGED <<subVars, flushed, targets, at, orderVars, closeVars>>

BroadcastDeletes(b) ==
  /\ bpc[b] = "delete"
  /\ Delete(at[b])
  /\ bpc' = [bpc EXCEPT ![b] = "stop"]
  /\ UNCHANGED <<queue, done, writer, writing, handler, received, since, flushed, targets, at,
                 orderVars, closeVars>>

BroadcastStops(b) ==
  /\ bpc[b] = "stop"
  /\ Stop(at[b])
  /\ bpc' = [bpc EXCEPT ![b] = "next"]
  /\ at' = [at EXCEPT ![b] = None]
  /\ UNCHANGED <<members, queue, writer, writing, handler, received, since, flushed, targets,
                 orderVars, closeVars>>

-----------------------------------------------------------------------------
(* Close, from its snapshot of the subscribers on; delete and stop of one  *)
(* subscriber are one step here, being two in every other caller.          *)

BeginClose ==
  /\ closing = "open"
  /\ closing' = "closing"
  /\ closeTargets' = members
  /\ UNCHANGED <<subVars, loopVars>>

CloseOne(s) ==
  /\ closing = "closing"
  /\ s \in closeTargets
  /\ closeTargets' = closeTargets \ {s}
  /\ Delete(s)
  /\ Stop(s)
  /\ UNCHANGED <<closing, queue, writer, writing, handler, received, since, loopVars>>

EndClose ==
  /\ closing = "closing"
  /\ closeTargets = {}
  /\ closing' = "closed"
  /\ UNCHANGED <<closeTargets, subVars, loopVars>>

-----------------------------------------------------------------------------
Init ==
  /\ members = {}
  /\ queue = [s \in Subs |-> <<>>]
  /\ done = [s \in Subs |-> FALSE]
  /\ writer = [s \in Subs |-> "none"]
  /\ writing = [s \in Subs |-> <<>>]
  /\ handler = [s \in Subs |-> "none"]
  /\ received = [s \in Subs |-> <<>>]
  /\ since = [s \in Subs |-> [b \in Loops |-> 0]]
  /\ flushed = [b \in Loops |-> 0]
  /\ bpc = [b \in Loops |-> "idle"]
  /\ targets = [b \in Loops |-> {}]
  /\ at = [b \in Loops |-> None]
  /\ history = <<>>
  /\ overlapped = FALSE
  /\ closing = "open"
  /\ closeTargets = {}

BroadcastStep(b) ==
  \/ Record(b) \/ Snapshot(b) \/ NextTarget(b) \/ Check(b)
  \/ Offer(b) \/ OfferFails(b) \/ BroadcastDeletes(b) \/ BroadcastStops(b)

WriterStep(s) ==
  \/ WriterTakes(s) \/ WriterDone(s) \/ WriteSucceeds(s) \/ WriteFails(s)
  \/ WriterDeletes(s) \/ WriterStops(s)

HandlerStep(s) == HandlerLeaves(s) \/ HandlerDeletes(s) \/ HandlerStops(s)

CloseStep == BeginClose \/ EndClose \/ \E s \in Subs : CloseOne(s)

Next ==
  \/ \E s \in Subs : Subscribe(s) \/ WriterStep(s) \/ HandlerStep(s)
  \/ \E b \in Loops : BeginFlush(b) \/ BroadcastStep(b)
  \/ CloseStep

Safety == Init /\ [][Next]_vars

\* Read loops and the goroutines of a connection run, its writes return within their
\* deadline, and reading a closed connection fails.  A client that reads its
\* connection is not obliged to leave.
Spec ==
  /\ Safety
  /\ \A b \in Loops : WF_vars(BroadcastStep(b))
  /\ \A s \in Subs :
       /\ WF_vars(WriterStep(s))
       /\ WF_vars(HandlerLeaves(s) /\ done[s])
       /\ WF_vars(HandlerDeletes(s) \/ HandlerStops(s))

-----------------------------------------------------------------------------
(* Properties.                                                             *)

\* Every variable keeps its shape, and the queues stay within their capacity.
TypeOK ==
  /\ members \subseteq Subs
  /\ queue \in [Subs -> Seq(Loops \X (Nat \ {0}))]
  /\ done \in [Subs -> BOOLEAN]
  /\ writer \in [Subs -> {"none", "select", "write", "delete", "stop", "ended"}]
  /\ writing \in [Subs -> Seq(Loops \X (Nat \ {0}))]
  /\ handler \in [Subs -> {"none", "reading", "delete", "stop", "ended"}]
  /\ received \in [Subs -> Seq(Loops \X (Nat \ {0}))]
  /\ since \in [Subs -> [Loops -> Nat]]
  /\ flushed \in [Loops -> Nat]
  /\ bpc \in [Loops -> {"idle", "flush", "snapshot", "next", "check", "offer", "delete", "stop"}]
  /\ targets \in [Loops -> SUBSET Subs]
  /\ at \in [Loops -> Subs \cup {None}]
  /\ history \in Seq(Loops \X (Nat \ {0}))
  /\ overlapped \in BOOLEAN
  /\ closing \in {"open", "closing", "closed"}
  /\ closeTargets \subseteq Subs
  /\ \A b \in Loops : bpc[b] \in {"check", "offer", "delete", "stop"} => at[b] # None
  /\ \A s \in Subs : Len(queue[s]) <= QueueSize

\* All that was queued for a subscriber and not thrown away, in order.
Stream(s) == received[s] \o writing[s] \o queue[s]

\* The numbers of the chunks of a loop in a stream.
NumbersOf(b, stream) == {n \in 1..flushed[b] : \E i \in 1..Len(stream) : stream[i] = <<b, n>>}

\* The snapshot of the broadcast has the subscriber, which has not been dealt with.
OnItsWay(b, s) ==
  \/ s \in targets[b]
  \/ at[b] = s /\ bpc[b] \in {"check", "offer", "delete", "stop"}

\* What a client gets of each read loop is in order and has no repetition and no
\* gap, from the first broadcast after it subscribed on: a client that is too
\* slow is cut off, it never silently misses a chunk.  One that is still in the
\* map is alive and has been queued every chunk broadcast since, but for the one
\* on its way to it.
NoGap ==
  \A s \in Subs, b \in Loops :
    LET stream == Stream(s)
    IN  /\ \A i, j \in 1..Len(stream) :
             i < j /\ stream[i][1] = stream[j][1] => stream[i][2] < stream[j][2]
        /\ \E last \in since[s][b]..SnapshotsTaken(b) :
             /\ NumbersOf(b, stream) = (since[s][b] + 1)..last
             /\ s \in members =>
                  ~done[s] /\ last = SnapshotsTaken(b) - (IF OnItsWay(b, s) THEN 1 ELSE 0)

\* As long as no two read loops are in flush at once, clients see chunks in
\* the order in which GET /api/v1/read returns them, across the replacement
\* of a port too, and none that the history does not have.
StreamFollowsHistory ==
  ~overlapped => \A s \in Subs : \E i \in 0..(Len(history) - Len(Stream(s))) :
                   Stream(s) = SubSeq(history, i + 1, i + Len(Stream(s)))

\* The steps broadcast has still to take, at most: five for a subscriber that it
\* has not come to, those left for the one it is at, and the end of its loop.
StepsLeft(b) ==
  5 * Cardinality(targets[b]) + CASE bpc[b] = "check"  -> 5
                                  [] bpc[b] = "offer"  -> 4
                                  [] bpc[b] = "delete" -> 3
                                  [] bpc[b] = "stop"   -> 2
                                  [] bpc[b] = "next"   -> 1
                                  [] OTHER             -> 0

\* A client that takes nothing does not hold up the read loop: whatever writers,
\* handlers and Close are at, a chunk that is on offer is taken or refused without
\* waiting for any of them, each step of a broadcast brings it nearer to its end,
\* and nobody else's step sets it back.
BroadcastNeverWaits ==
  [][\A b \in Loops :
       /\ bpc[b] = "offer" => HasRoom(at[b]) \/ MayGiveUp(at[b])
       /\ bpc[b] \in {"next", "check", "offer", "delete", "stop"} =>
            StepsLeft(b)' < StepsLeft(b) \/ UNCHANGED <<bpc[b], targets[b], at[b]>>]_vars

\* A client that was taken out of the map, by whoever, is not left waiting for
\* output that will never come: its connection is closed and both of its
\* goroutines end.
RemovedEnds ==
  \A s \in Subs :
    handler[s] # "none" /\ s \notin members ~> writer[s] = "ended" /\ handler[s] = "ended"

=============================================================================
