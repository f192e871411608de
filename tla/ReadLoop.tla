------------------------------ MODULE ReadLoop ------------------------------
(***************************************************************************)
(* The read loop of one attached port (gateway.go, readLoop): a reader     *)
(* goroutine that turns port.Read calls into results on the channel        *)
(* `reads`, and the loop that gathers results into `pending` until there   *)
(* is a full chunk, the coalescing timer fires, or the read fails, and     *)
(* then flushes: first addRecord, then broadcast.                          *)
(*                                                                         *)
(* The bytes of the device are numbered 1, 2, 3, ... in the order they     *)
(* leave it.  What happens to the port at the end of the loop is modelled  *)
(* by PortLifecycle; here it is the state "done".                          *)
(***************************************************************************)
EXTENDS Naturals, Sequences, SequencesExt

CONSTANTS
  MaxChunk,     \* maxRXChunkBytes: the read buffer, and a full chunk
  QueueSize,    \* capacity of the channel reads
  MaxBytes      \* bound on the bytes the device sends

ASSUME ReadLoopAssumption ==
  /\ MaxChunk \in Nat \ {0}
  /\ QueueSize \in Nat \ {0}
  /\ MaxBytes \in Nat

VARIABLES
  device,       \* "ok", or "failed" once unplugged or closed
  count,        \* how many bytes the device has delivered
  reader,       \* where the reader goroutine is
  result,       \* the readResult it is about to send
  reads,        \* the channel
  pc,           \* where the loop is
  ending,       \* the loop has seen an error
  pending,      \* bytes waiting to be flushed
  data,         \* what flush has taken out of pending
  timer,        \* timer and timerC: nil, armed, or fired and not yet received
  records,      \* the rx records added to the history
  sent          \* what was broadcast

readerVars == <<device, count, reader, result>>
loopVars == <<pc, ending, pending, data, timer, records, sent>>
vars == <<readerVars, reads, loopVars>>

NoResult == [data |-> <<>>, err |-> FALSE]

-----------------------------------------------------------------------------
(* The reader goroutine.                                                   *)

\* The device is unplugged or the handle closed.
Fail ==
  /\ device = "ok"
  /\ device' = "failed"
  /\ UNCHANGED <<count, reader, result, reads, loopVars>>

\* port.Read returns, possibly with both bytes and an error.
Read ==
  /\ reader = "reading"
  /\ \E n \in 0..MaxChunk, err \in BOOLEAN :
       /\ err <=> device = "failed"
       /\ count + n <= MaxBytes
       /\ result' = [data |-> [i \in 1..n |-> count + i], err |-> err]
       /\ count' = count + n
  /\ reader' = "sending"
  /\ UNCHANGED <<device, reads, loopVars>>

\* reads <- result, which blocks while the channel is full.
Send ==
  /\ reader = "sending"
  /\ Len(reads) < QueueSize
  /\ reads' = Append(reads, result)
  /\ reader' = IF result.err THEN "done" ELSE "reading"
  /\ result' = NoResult
  /\ UNCHANGED <<device, count, loopVars>>

-----------------------------------------------------------------------------
(* The loop.                                                               *)

\* rxCoalesceWindow has passed since the timer was made.
TimerFires ==
  /\ timer = "armed"
  /\ timer' = "fired"
  /\ UNCHANGED <<readerVars, reads, pc, ending, pending, data, records, sent>>

KeepsPending(bytes, otherwise) ==
  IF bytes = <<>>
  THEN pc' = otherwise /\ pending' = bytes /\ UNCHANGED data
  ELSE pc' = "record" /\ pending' = bytes /\ data' = bytes

\* flush, called with these bytes pending: nothing to do, or take them out and
\* go on to addRecord.  otherwise is where the loop goes without a flush.
Flush(bytes, otherwise) ==
  IF bytes = <<>>
  THEN pc' = otherwise /\ pending' = bytes /\ UNCHANGED data
  ELSE pc' = "record" /\ pending' = <<>> /\ data' = bytes

\* The timer is armed by the first bytes to become pending and not again by
\* those that follow.
TimerAfterData == IF timer = "nil" THEN "armed" ELSE timer

IgnoresError(err) == "select"

\* Where the loop goes when a result is dealt with.
AfterResult(err) == IF err THEN "exit" ELSE "select"

FullAbove(bytes) == Len(bytes) >= 2 * MaxChunk

Full(bytes) == Len(bytes) >= MaxChunk

\* case result := <-reads
ReceiveResult ==
  /\ pc = "select"
  /\ reads # <<>>
  /\ LET r == Head(reads)
         bytes == pending \o r.data
     IN  /\ ending' = r.err
         /\ IF r.data # <<>> /\ Full(bytes)
            THEN Flush(bytes, AfterResult(r.err)) /\ timer' = "nil"
            ELSE /\ pc' = AfterResult(r.err)
                 /\ pending' = bytes
                 /\ timer' = IF r.data # <<>> THEN TimerAfterData ELSE timer
                 /\ UNCHANGED data
  /\ reads' = Tail(reads)
  /\ UNCHANGED <<readerVars, records, sent>>

\* case <-timerC
ReceiveTimer ==
  /\ pc = "select"
  /\ timer = "fired"
  /\ timer' = "nil"
  /\ Flush(pending, "select")
  /\ UNCHANGED <<readerVars, reads, ending, records, sent>>

\* flush: g.addRecord("rx", data)
AddRecord ==
  /\ pc = "record"
  /\ records' = Append(records, data)
  /\ pc' = "broadcast"
  /\ UNCHANGED <<readerVars, reads, ending, pending, data, timer, sent>>

\* flush: g.broadcast(data); then the error, if there was one, or the select.
Broadcast ==
  /\ pc = "broadcast"
  /\ sent' = Append(sent, data)
  /\ data' = <<>>
  /\ pc' = AfterResult(ending)
  /\ UNCHANGED <<readerVars, reads, ending, pending, timer, records>>

LeavesPending == pc' = "done" /\ UNCHANGED <<pending, data>>

\* The deferred function flushes what is still pending.
FlushAtExit == Flush(pending, "done")

\* return: stop the timer and flush, then release the port.
Exit ==
  /\ pc = "exit"
  /\ timer' = "nil"
  /\ FlushAtExit
  /\ UNCHANGED <<readerVars, reads, ending, records, sent>>

-----------------------------------------------------------------------------
Init ==
  /\ device = "ok"
  /\ count = 0
  /\ reader = "reading"
  /\ result = NoResult
  /\ reads = <<>>
  /\ pc = "select"
  /\ ending = FALSE
  /\ pending = <<>>
  /\ data = <<>>
  /\ timer = "nil"
  /\ records = <<>>
  /\ sent = <<>>

Next ==
  \/ Fail \/ Read \/ Send
  \/ TimerFires
  \/ ReceiveResult \/ ReceiveTimer \/ AddRecord \/ Broadcast \/ Exit

Safety == Init /\ [][Next]_vars

\* Both goroutines run when they can, the timer fires, and select does not
\* pass over a ready case forever (it chooses among them at random).  A
\* device that works is not obliged to deliver anything, but Read returns
\* once it failed.
Spec ==
  /\ Safety
  /\ WF_vars(Read /\ device = "failed") /\ WF_vars(Send)
  /\ WF_vars(TimerFires)
  /\ SF_vars(ReceiveResult) /\ SF_vars(ReceiveTimer)
  /\ WF_vars(AddRecord) /\ WF_vars(Broadcast) /\ WF_vars(Exit)

-----------------------------------------------------------------------------
(* Properties.                                                             *)

\* Every variable keeps its shape; flush has bytes in hand exactly while it
\* is between taking them and broadcasting them.
TypeOK ==
  /\ device \in {"ok", "failed"}
  /\ count \in 0..MaxBytes
  /\ reader \in {"reading", "sending", "done"}
  /\ result \in [data : Seq(1..MaxBytes), err : BOOLEAN]
  /\ reads \in Seq([data : Seq(1..MaxBytes), err : BOOLEAN])
  /\ pc \in {"select", "record", "broadcast", "exit", "done"}
  /\ ending \in BOOLEAN
  /\ pending \in Seq(1..MaxBytes)
  /\ data \in Seq(1..MaxBytes)
  /\ timer \in {"nil", "armed", "fired"}
  /\ records \in Seq(Seq(1..MaxBytes))
  /\ sent \in Seq(Seq(1..MaxBytes))
  /\ data # <<>> <=> pc \in {"record", "broadcast"}

\* No byte read from the port is lost, doubled or out of order: what was
\* recorded, what flush has in hand, what is pending, what is queued and what
\* the reader is about to queue are together what the device delivered.
\* Bytes that come with the error and bytes pending at the exit included.
BytesInOrder ==
  LET queued == FlattenSeq([i \in 1..Len(reads) |-> reads[i].data])
      inHand == IF pc = "record" THEN data ELSE <<>>
  IN  FlattenSeq(records) \o inHand \o pending \o queued \o result.data = [i \in 1..count |-> i]

\* When the loop sits in its select with bytes pending, a timer is there to
\* flush them should the device say no more.
NoStrandedBytes == pc = "select" /\ pending # <<>> => timer # "nil"

\* A record is never empty, and a burst makes it less than two chunks long.
RecordsBounded == \A i \in 1..Len(records) : Len(records[i]) \in 1..(2 * MaxChunk - 1)

\* A subscriber never receives what the history does not have yet.
HistoryBeforeSubscribers == IsPrefix(sent, records)

\* Every byte that is read is recorded, though the device may fall silent or
\* never pause, and results may be waiting whenever the timer fires.
EveryByteIsRecorded ==
  \A n \in 1..MaxBytes : count >= n ~> Len(FlattenSeq(records)) >= n

\* When the device fails, both goroutines end: the reader is not left blocked
\* on the channel by a loop that has gone.
BothEnd == device = "failed" ~> pc = "done" /\ reader = "done"

=============================================================================
