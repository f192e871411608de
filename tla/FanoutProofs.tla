---------------------------- MODULE FanoutProofs ----------------------------
(***************************************************************************)
(* Proofs about Fanout for any number of connections, read loops and       *)
(* chunks and any size of the queue.                                       *)
(*                                                                         *)
(* The argument: what a subscriber was queued of a loop always ends at     *)
(* some chunk, and that chunk is the last one the loop broadcast, or the   *)
(* one before it while the broadcast still has the subscriber to deal      *)
(* with.  A subscriber that is refused a chunk is out of the map before    *)
(* the next snapshot is taken, so it is not offered a later one; that is   *)
(* also why the statement must speak of subscribers that were taken out    *)
(* of the map but are still in a snapshot.  The order of the history       *)
(* follows when one loop at a time is in flush: the chunk in its hands is  *)
(* then the newest record.                                                 *)
(***************************************************************************)
EXTENDS Fanout, FiniteSetTheorems, SequenceTheorems, TLAPS

\* A chunk is going to be offered to a subscriber: the snapshot of the broadcast
\* has it, or enqueue has begun and not refused.
ToBeOffered(b, s) == s \in targets[b] \/ (at[b] = s /\ bpc[b] \in {"check", "offer"})

\* Where a subscriber stands.
SubInv(s) ==
  /\ handler[s] = "none" =>
       /\ s \notin members /\ s \notin closeTargets
       /\ writer[s] = "none" /\ ~done[s]
       /\ received[s] = <<>> /\ writing[s] = <<>> /\ queue[s] = <<>>
       /\ \A b \in Loops : s \notin targets[b] /\ at[b] # s
  /\ s \in members => ~done[s] /\ handler[s] \in {"reading", "delete"} /\ writer[s] # "stop"
  /\ writer[s] = "select" => writing[s] = <<>>

\* Where a loop stands.
LoopInv(b) ==
  /\ bpc[b] \in {"idle", "flush", "snapshot"} => targets[b] = {}
  /\ bpc[b] \in {"idle", "flush", "snapshot", "next"} <=> at[b] = None
  /\ bpc[b] = "stop" => at[b] \notin members
  /\ at[b] \notin targets[b]
  /\ bpc[b] # "idle" => flushed[b] > 0

\* The numbers of a loop rise in what a subscriber was queued.
Rising(s) ==
  \A i, j \in 1..Len(Stream(s)) :
    i < j /\ Stream(s)[i][1] = Stream(s)[j][1] => Stream(s)[i][2] < Stream(s)[j][2]

\* They begin after the broadcasts before it subscribed and end at `last`.
UpTo(s, b, last) ==
  /\ \A i \in 1..Len(Stream(s)) :
       Stream(s)[i][1] = b => Stream(s)[i][2] > since[s][b] /\ Stream(s)[i][2] <= last
  /\ \A n \in (since[s][b] + 1)..last : \E i \in 1..Len(Stream(s)) : Stream(s)[i] = <<b, n>>

\* Nothing of the loop is missing but for what a broadcast still has to offer.
Complete(s, b) ==
  \E last \in since[s][b]..SnapshotsTaken(b) :
    /\ UpTo(s, b, last)
    /\ ToBeOffered(b, s) => last = SnapshotsTaken(b) - 1
    /\ s \in members => last = SnapshotsTaken(b) - (IF OnItsWay(b, s) THEN 1 ELSE 0)

\* One loop at a time is in flush, and the record of the chunk in its hands is the last one.
OneAtATime ==
  /\ \A b, c \in Loops : b = c \/ bpc[b] = "idle" \/ bpc[c] = "idle"
  /\ \A b \in Loops : bpc[b] \notin {"idle", "flush"} =>
       Len(history) > 0 /\ history[Len(history)] = Chunk(b)

\* A stretch of the history that ends with record e.
Stretch(s, e) ==
  \A i \in 1..Len(Stream(s)) : Stream(s)[i] = history[e - Len(Stream(s)) + i]

\* The newest record that a subscriber in the map was queued.
Newest(s) ==
  Len(history) - (IF \E b \in Loops : bpc[b] = "snapshot" \/ OnItsWay(b, s) THEN 1 ELSE 0)

\* What a subscriber was queued is a stretch of the history, up to the newest record
\* while it is in the map, or to the one before while that is yet to be offered.
Follows(s) ==
  \E e \in Len(Stream(s))..Len(history) :
    /\ Stretch(s, e)
    /\ s \in members => e = Newest(s)
    /\ (\E b \in Loops : ToBeOffered(b, s)) => e = Len(history) - 1

\* All of it that does not speak of the order of chunks.
Shape ==
  /\ TypeOK
  /\ \A s \in Subs : SubInv(s)
  /\ \A b \in Loops : LoopInv(b)

\* The inductive invariant.
FanoutInv ==
  /\ Shape
  /\ \A s \in Subs : Rising(s)
  /\ \A s \in Subs, b \in Loops : Complete(s, b)
  /\ ~overlapped => OneAtATime /\ \A s \in Subs : Follows(s)

\* The names of chunks.
Chunks == Loops \X (Nat \ {0})

-----------------------------------------------------------------------------
(* Streams.                                                                *)

LEMMA StreamType ==
  ASSUME TypeOK, NEW s \in Subs
  PROVE  Stream(s) \in Seq(Chunks) /\ Len(Stream(s)) \in Nat
<1>1. received[s] \in Seq(Chunks) /\ writing[s] \in Seq(Chunks) /\ queue[s] \in Seq(Chunks)
  BY DEF TypeOK, Chunks
<1>2. received[s] \o writing[s] \in Seq(Chunks)
  BY <1>1, ConcatProperties
<1>3. Stream(s) \in Seq(Chunks)
  BY <1>1, <1>2, ConcatProperties DEF Stream
<1> QED
  BY <1>3, LenProperties

\* The head of a queue can be moved to the front of it.
LEMMA HeadThenTail ==
  ASSUME NEW T, NEW q \in Seq(T), q # <<>>
  PROVE  <<Head(q)>> \in Seq(T) /\ Tail(q) \in Seq(T) /\ <<Head(q)>> \o Tail(q) = q
<1>1. Head(q) \in T /\ Tail(q) \in Seq(T)
  BY HeadTailProperties
<1>2. Len(q) \in Nat \ {0} /\ Len(Tail(q)) = Len(q) - 1
  BY HeadTailProperties, EmptySeq
<1>3. \A i \in 1..Len(Tail(q)) : Tail(q)[i] = q[i + 1]
  BY HeadTailProperties
<1>4. <<Head(q)>> \in Seq(T) /\ Len(<<Head(q)>>) = 1 /\ <<Head(q)>>[1] = q[1]
  BY <1>1
<1>5. <<Head(q)>> \o Tail(q) \in Seq(T) /\ Len(<<Head(q)>> \o Tail(q)) = Len(q)
  BY <1>1, <1>2, <1>4, ConcatProperties
<1>6. \A i \in 1..Len(q) : (<<Head(q)>> \o Tail(q))[i] = q[i]
  <2> TAKE i \in 1..Len(q)
  <2>1. (<<Head(q)>> \o Tail(q))[i] =
          IF i <= 1 THEN <<Head(q)>>[i] ELSE Tail(q)[i - 1]
    BY <1>1, <1>2, <1>4, ConcatProperties
  <2>2. CASE i = 1
    BY <2>1, <2>2, <1>4
  <2>3. CASE i > 1
    BY <2>1, <2>3, <1>2, <1>3
  <2> QED
    BY <1>2, <2>2, <2>3
<1> QED
  BY <1>1, <1>4, <1>5, <1>6, SeqEqual

LEMMA HeadMovesOn ==
  ASSUME NEW T, NEW r \in Seq(T), NEW q \in Seq(T), q # <<>>
  PROVE  (r \o <<Head(q)>>) \o Tail(q) = r \o q
<1> DEFINE h == <<Head(q)>>
           t == Tail(q)
<1>1. h \in Seq(T) /\ t \in Seq(T)
  BY HeadThenTail
<1>2. h \o t = q
  BY HeadThenTail
<1> HIDE DEF h, t
<1>3. (r \o h) \o t = r \o (h \o t)
  BY <1>1
<1>4. (r \o h) \o t = r \o q
  BY <1>2, <1>3
<1> QED
  BY <1>4 DEF h, t

\* A chunk moves from the queue to the writer and on to the client; the stream
\* stays the same.
LEMMA WriterTakesKeepsStream ==
  ASSUME FanoutInv, NEW t \in Subs, WriterTakes(t), NEW s \in Subs
  PROVE  Stream(s)' = Stream(s)
<1>1. received[s] \in Seq(Chunks) /\ queue[s] \in Seq(Chunks)
  BY DEF FanoutInv, Shape, TypeOK, Chunks
<1>2. CASE s = t
  <2>1. writing[s] = <<>> /\ queue[s] # <<>>
    BY <1>2 DEF FanoutInv, Shape, SubInv, WriterTakes
  <2>2. /\ received'[s] = received[s]
        /\ writing'[s] = <<Head(queue[s])>>
        /\ queue'[s] = Tail(queue[s])
    BY <1>2 DEF WriterTakes, FanoutInv, Shape, TypeOK
  <2>3. /\ <<Head(queue[s])>> \in Seq(Chunks) /\ Tail(queue[s]) \in Seq(Chunks)
        /\ <<Head(queue[s])>> \o Tail(queue[s]) = queue[s]
    BY <1>1, <2>1, HeadThenTail
  <2>4. (received[s] \o <<Head(queue[s])>>) \o Tail(queue[s]) = received[s] \o queue[s]
    BY <1>1, <2>1, HeadMovesOn
  <2>5. Stream(s)' = (received[s] \o <<Head(queue[s])>>) \o Tail(queue[s])
    BY <2>2 DEF Stream
  <2>6. Stream(s) = received[s] \o queue[s]
    BY <1>1, <2>1, ConcatEmptySeq DEF Stream
  <2> QED
    BY <2>4, <2>5, <2>6
<1>3. CASE s # t
  BY <1>3 DEF WriterTakes, Stream, FanoutInv, Shape, TypeOK
<1> QED
  BY <1>2, <1>3

LEMMA WriteSucceedsKeepsStream ==
  ASSUME FanoutInv, NEW t \in Subs, WriteSucceeds(t), NEW s \in Subs
  PROVE  Stream(s)' = Stream(s)
<1>1. received[s] \in Seq(Chunks) /\ writing[s] \in Seq(Chunks) /\ queue[s] \in Seq(Chunks)
  BY DEF FanoutInv, Shape, TypeOK, Chunks
<1>2. CASE s = t
  <2>1. /\ received'[s] = received[s] \o writing[s]
        /\ writing'[s] = <<>>
        /\ queue'[s] = queue[s]
    BY <1>2 DEF WriteSucceeds, FanoutInv, Shape, TypeOK
  <2>2. received[s] \o writing[s] \in Seq(Chunks)
    BY <1>1, ConcatProperties
  <2> QED
    BY <2>1, <2>2, ConcatEmptySeq DEF Stream
<1>3. CASE s # t
  BY <1>3 DEF WriteSucceeds, Stream, FanoutInv, Shape, TypeOK
<1> QED
  BY <1>2, <1>3

\* Appending to the second of two sequences appends to both.
LEMMA AppendToConcat ==
  ASSUME NEW T, NEW r \in Seq(T), NEW q \in Seq(T), NEW e \in T
  PROVE  /\ Len(r \o Append(q, e)) = Len(r \o q) + 1
         /\ \A i \in 1..Len(r \o q) : (r \o Append(q, e))[i] = (r \o q)[i]
         /\ (r \o Append(q, e))[Len(r \o q) + 1] = e
<1>1. /\ Append(q, e) \in Seq(T)
      /\ Len(Append(q, e)) = Len(q) + 1
      /\ \A i \in 1..Len(q) : Append(q, e)[i] = q[i]
      /\ Append(q, e)[Len(q) + 1] = e
  OBVIOUS
<1>2. Len(r) \in Nat /\ Len(q) \in Nat
  BY LenProperties
<1>3. /\ Len(r \o Append(q, e)) = Len(r) + Len(q) + 1
      /\ \A i \in 1..Len(r) + Len(q) + 1 :
           (r \o Append(q, e))[i] = IF i <= Len(r) THEN r[i] ELSE Append(q, e)[i - Len(r)]
  BY <1>1, <1>2, ConcatProperties
<1>4. /\ Len(r \o q) = Len(r) + Len(q)
      /\ \A i \in 1..Len(r) + Len(q) :
           (r \o q)[i] = IF i <= Len(r) THEN r[i] ELSE q[i - Len(r)]
  BY ConcatProperties
<1>5. \A i \in 1..Len(r \o q) : (r \o Append(q, e))[i] = (r \o q)[i]
  <2> TAKE i \in 1..Len(r \o q)
  <2>1. CASE i <= Len(r)
    BY <2>1, <1>2, <1>3, <1>4
  <2>2. CASE i > Len(r)
    <3>1. i - Len(r) \in 1..Len(q)
      BY <2>2, <1>2, <1>4
    <3> QED
      BY <2>2, <3>1, <1>1, <1>2, <1>3, <1>4
  <2> QED
    BY <1>2, <1>4, <2>1, <2>2
<1>6. (r \o Append(q, e))[Len(r \o q) + 1] = e
  <2>1. /\ Len(r \o q) + 1 \in 1..Len(r) + Len(q) + 1
        /\ ~(Len(r \o q) + 1 <= Len(r))
        /\ Len(r \o q) + 1 - Len(r) = Len(q) + 1
    BY <1>2, <1>4
  <2> QED
    BY <2>1, <1>1, <1>3
<1> QED
  BY <1>3, <1>4, <1>5, <1>6

\* An offered chunk becomes the last of the stream.
LEMMA OfferAppends ==
  ASSUME FanoutInv, NEW b \in Loops, Offer(b), NEW s \in Subs, at[b] = s
  PROVE  /\ Len(Stream(s)') = Len(Stream(s)) + 1
         /\ \A i \in 1..Len(Stream(s)) : Stream(s)'[i] = Stream(s)[i]
         /\ Stream(s)'[Len(Stream(s)) + 1] = Chunk(b)
<1>1. Chunk(b) \in Chunks
  BY DEF FanoutInv, Shape, TypeOK, LoopInv, Offer, Chunk, Chunks
<1>2. received[s] \o writing[s] \in Seq(Chunks) /\ queue[s] \in Seq(Chunks)
  <2>1. received[s] \in Seq(Chunks) /\ writing[s] \in Seq(Chunks) /\ queue[s] \in Seq(Chunks)
    BY DEF FanoutInv, Shape, TypeOK, Chunks
  <2> QED
    BY <2>1, ConcatProperties
<1>3. /\ queue'[s] = Append(queue[s], Chunk(b))
      /\ received' = received /\ writing' = writing
  BY DEF Offer, FanoutInv, Shape, TypeOK
<1>4. /\ Stream(s) = (received[s] \o writing[s]) \o queue[s]
      /\ Stream(s)' = (received[s] \o writing[s]) \o Append(queue[s], Chunk(b))
  BY <1>3 DEF Stream
<1> DEFINE r == received[s] \o writing[s]
           q == queue[s]
           e == Chunk(b)
<1>5. Stream(s) = r \o q /\ Stream(s)' = r \o Append(q, e)
  BY <1>4
<1>6. r \in Seq(Chunks) /\ q \in Seq(Chunks) /\ e \in Chunks
  BY <1>1, <1>2
<1> HIDE DEF r, q, e
<1>7. /\ Len(r \o Append(q, e)) = Len(r \o q) + 1
      /\ \A i \in 1..Len(r \o q) : (r \o Append(q, e))[i] = (r \o q)[i]
      /\ (r \o Append(q, e))[Len(r \o q) + 1] = e
  BY <1>6, AppendToConcat
<1>8. /\ Len(Stream(s)') = Len(Stream(s)) + 1
      /\ \A i \in 1..Len(Stream(s)) : Stream(s)'[i] = Stream(s)[i]
      /\ Stream(s)'[Len(Stream(s)) + 1] = e
  BY <1>5, <1>7
<1> QED
  BY <1>8 DEF e

-----------------------------------------------------------------------------
(* Types, and where subscribers and loops stand.                           *)

LEMMA SnapshotsTakenType ==
  ASSUME Shape, NEW b \in Loops
  PROVE  SnapshotsTaken(b) \in Nat
<1>1. flushed[b] \in Nat /\ (bpc[b] = "flush" \/ bpc[b] = "snapshot" => flushed[b] > 0)
  BY DEF Shape, TypeOK, LoopInv
<1> QED
  BY <1>1 DEF SnapshotsTaken

LEMMA SubscribeShape ==
  ASSUME Shape, NEW t \in Subs, Subscribe(t)
  PROVE  Shape'
<1> USE FanoutAssumption DEF Shape, Subscribe, subVars, loopVars, orderVars, closeVars
<1>1. TypeOK'
  <2>1. \A b \in Loops : SnapshotsTaken(b) \in Nat
    BY SnapshotsTakenType
  <2>2. since' \in [Subs -> [Loops -> Nat]]
    BY <2>1 DEF TypeOK
  <2> QED
    BY <2>2 DEF TypeOK
<1>2. ASSUME NEW s \in Subs
      PROVE  SubInv(s)'
  BY DEF TypeOK, SubInv, LoopInv
<1>3. ASSUME NEW b \in Loops
      PROVE  LoopInv(b)'
  BY DEF TypeOK, SubInv, LoopInv
<1> QED
  BY <1>1, <1>2, <1>3

LEMMA WriterTakesShape ==
  ASSUME Shape, NEW t \in Subs, WriterTakes(t)
  PROVE  Shape'
<1> USE FanoutAssumption DEF Shape, WriterTakes, subVars, loopVars, orderVars, closeVars
<1>1. TypeOK'
  <2>1. queue[t] \in Seq(Chunks) /\ queue[t] # <<>>
    BY DEF TypeOK, Chunks
  <2>2. /\ <<Head(queue[t])>> \in Seq(Chunks) /\ Tail(queue[t]) \in Seq(Chunks)
        /\ Len(Tail(queue[t])) = Len(queue[t]) - 1
    BY <2>1, HeadThenTail, HeadTailProperties
  <2>3. Len(queue[t]) \in Nat
    BY <2>1, LenProperties
  <2>4. writing' \in [Subs -> Seq(Chunks)] /\ queue' \in [Subs -> Seq(Chunks)]
    BY <2>2 DEF TypeOK, Chunks
  <2>5. \A s \in Subs : Len(queue'[s]) <= QueueSize
    BY <2>2, <2>3 DEF TypeOK
  <2> QED
    BY <2>4, <2>5 DEF TypeOK, Chunks
<1>2. ASSUME NEW s \in Subs
      PROVE  SubInv(s)'
  BY ZenonT(60) DEF TypeOK, SubInv, LoopInv
<1>3. ASSUME NEW b \in Loops
      PROVE  LoopInv(b)'
  BY DEF TypeOK, SubInv, LoopInv
<1> QED
  BY <1>1, <1>2, <1>3

LEMMA WriterDoneShape ==
  ASSUME Shape, NEW t \in Subs, WriterDone(t)
  PROVE  Shape'
<1> USE FanoutAssumption DEF Shape, WriterDone, SeesDone, subVars, loopVars, orderVars, closeVars
<1>1. TypeOK'
  BY DEF TypeOK, LoopInv
<1>2. ASSUME NEW s \in Subs
      PROVE  SubInv(s)'
  BY DEF TypeOK, SubInv, LoopInv
<1>3. ASSUME NEW b \in Loops
      PROVE  LoopInv(b)'
  BY DEF TypeOK, SubInv, LoopInv
<1> QED
  BY <1>1, <1>2, <1>3

LEMMA WriteSucceedsShape ==
  ASSUME Shape, NEW t \in Subs, WriteSucceeds(t)
  PROVE  Shape'
<1> USE FanoutAssumption DEF Shape, WriteSucceeds, subVars, loopVars, orderVars, closeVars
<1>1. TypeOK'
  <2>1. received[t] \in Seq(Chunks) /\ writing[t] \in Seq(Chunks)
    BY DEF TypeOK, Chunks
  <2>2. received[t] \o writing[t] \in Seq(Chunks)
    BY <2>1, ConcatProperties
  <2> DEFINE r == received[t] \o writing[t]
  <2>3. received' = [received EXCEPT ![t] = r] /\ received \in [Subs -> Seq(Chunks)]
    BY DEF TypeOK, Chunks
  <2>4. r \in Seq(Chunks)
    BY <2>2
  <2> HIDE DEF r
  <2>5. received' \in [Subs -> Seq(Chunks)] 
    BY <2>3, <2>4
  <2>6. writing' \in [Subs -> Seq(Chunks)]
    BY DEF TypeOK, Chunks
  <2> QED
    BY <2>5, <2>6 DEF TypeOK, Chunks
<1>2. ASSUME NEW s \in Subs
      PROVE  SubInv(s)'
  BY DEF TypeOK, SubInv, LoopInv
<1>3. ASSUME NEW b \in Loops
      PROVE  LoopInv(b)'
  BY DEF TypeOK, SubInv, LoopInv
<1> QED
  BY <1>1, <1>2, <1>3

LEMMA WriteFailsShape ==
  ASSUME Shape, NEW t \in Subs, WriteFails(t)
  PROVE  Shape'
<1> USE FanoutAssumption DEF Shape, WriteFails, subVars, loopVars, orderVars, closeVars
<1>1. TypeOK'
  BY DEF TypeOK, LoopInv
<1>2. ASSUME NEW s \in Subs
      PROVE  SubInv(s)'
  BY DEF TypeOK, SubInv, LoopInv
<1>3. ASSUME NEW b \in Loops
      PROVE  LoopInv(b)'
  BY DEF TypeOK, SubInv, LoopInv
<1> QED
  BY <1>1, <1>2, <1>3

LEMMA WriterDeletesShape ==
  ASSUME Shape, NEW t \in Subs, WriterDeletes(t)
  PROVE  Shape'
<1> USE FanoutAssumption DEF Shape, WriterDeletes, Delete, subVars, loopVars, orderVars, closeVars
<1>1. TypeOK'
  BY DEF TypeOK, LoopInv
<1>2. ASSUME NEW s \in Subs
      PROVE  SubInv(s)'
  BY DEF TypeOK, SubInv, LoopInv
<1>3. ASSUME NEW b \in Loops
      PROVE  LoopInv(b)'
  BY DEF TypeOK, SubInv, LoopInv
<1> QED
  BY <1>1, <1>2, <1>3

LEMMA WriterStopsShape ==
  ASSUME Shape, NEW t \in Subs, WriterStops(t)
  PROVE  Shape'
<1> USE FanoutAssumption DEF Shape, WriterStops, Stop, subVars, loopVars, orderVars, closeVars
<1>1. TypeOK'
  BY DEF TypeOK, LoopInv
<1>2. ASSUME NEW s \in Subs
      PROVE  SubInv(s)'
  BY DEF TypeOK, SubInv, LoopInv
<1>3. ASSUME NEW b \in Loops
      PROVE  LoopInv(b)'
  BY DEF TypeOK, SubInv, LoopInv
<1> QED
  BY <1>1, <1>2, <1>3

LEMMA HandlerLeavesShape ==
  ASSUME Shape, NEW t \in Subs, HandlerLeaves(t)
  PROVE  Shape'
<1> USE FanoutAssumption DEF Shape, HandlerLeaves, subVars, loopVars, orderVars, closeVars
<1>1. TypeOK'
  BY DEF TypeOK, LoopInv
<1>2. ASSUME NEW s \in Subs
      PROVE  SubInv(s)'
  BY DEF TypeOK, SubInv, LoopInv
<1>3. ASSUME NEW b \in Loops
      PROVE  LoopInv(b)'
  BY DEF TypeOK, SubInv, LoopInv
<1> QED
  BY <1>1, <1>2, <1>3

LEMMA HandlerDeletesShape ==
  ASSUME Shape, NEW t \in Subs, HandlerDeletes(t)
  PROVE  Shape'
<1> USE FanoutAssumption DEF Shape, HandlerDeletes, Delete, subVars, loopVars, orderVars, closeVars
<1>1. TypeOK'
  BY DEF TypeOK, LoopInv
<1>2. ASSUME NEW s \in Subs
      PROVE  SubInv(s)'
  BY DEF TypeOK, SubInv, LoopInv
<1>3. ASSUME NEW b \in Loops
      PROVE  LoopInv(b)'
  BY DEF TypeOK, SubInv, LoopInv
<1> QED
  BY <1>1, <1>2, <1>3

LEMMA HandlerStopsShape ==
  ASSUME Shape, NEW t \in Subs, HandlerStops(t)
  PROVE  Shape'
<1> USE FanoutAssumption DEF Shape, HandlerStops, Stop, subVars, loopVars, orderVars, closeVars
<1>1. TypeOK'
  BY DEF TypeOK, LoopInv
<1>2. ASSUME NEW s \in Subs
      PROVE  SubInv(s)'
  <2>1. CASE s = t
    BY <2>1, ZenonT(60) DEF TypeOK, SubInv
  <2>2. CASE s # t
    BY <2>2 DEF TypeOK, SubInv
  <2> QED
    BY <2>1, <2>2
<1>3. ASSUME NEW b \in Loops
      PROVE  LoopInv(b)'
  BY DEF TypeOK, SubInv, LoopInv
<1> QED
  BY <1>1, <1>2, <1>3

LEMMA CloseOneShape ==
  ASSUME Shape, NEW t \in Subs, CloseOne(t)
  PROVE  Shape'
<1> USE FanoutAssumption DEF Shape, CloseOne, Delete, Stop, subVars, loopVars, orderVars, closeVars
<1>1. TypeOK'
  BY DEF TypeOK, LoopInv
<1>2. ASSUME NEW s \in Subs
      PROVE  SubInv(s)'
  BY DEF TypeOK, SubInv, LoopInv
<1>3. ASSUME NEW b \in Loops
      PROVE  LoopInv(b)'
  BY DEF TypeOK, SubInv, LoopInv
<1> QED
  BY <1>1, <1>2, <1>3

\* BeginFlush without the bound on the number of chunks.
LEMMA BeginFlushEffect ==
  ASSUME NEW l \in Loops, BeginFlush(l)
  PROVE  /\ bpc[l] = "idle"
         /\ flushed' = [flushed EXCEPT ![l] = @ + 1]
         /\ bpc' = [bpc EXCEPT ![l] = "flush"]
         /\ overlapped' = (overlapped \/ \E other \in Loops \ {l} : bpc[other] # "idle")
         /\ UNCHANGED <<subVars, targets, at, history, closeVars>>
BY Zenon DEF BeginFlush, AfterTake

LEMMA BeginFlushShape ==
  ASSUME Shape, NEW l \in Loops, BeginFlush(l)
  PROVE  Shape'
<1> USE FanoutAssumption, BeginFlushEffect DEF Shape, subVars, orderVars, closeVars
<1>1. TypeOK'
  <2>1. flushed' \in [Loops -> Nat]
    BY DEF TypeOK
  <2>2. overlapped' \in BOOLEAN
    BY Zenon
  <2> QED
    BY <2>1, <2>2, ZenonT(60) DEF TypeOK
<1>2. ASSUME NEW s \in Subs
      PROVE  SubInv(s)'
  BY DEF TypeOK, SubInv, LoopInv
<1>3. ASSUME NEW b \in Loops
      PROVE  LoopInv(b)'
  <2>1. flushed'[b] >= flushed[b] /\ (b = l => flushed'[b] > 0)
    BY DEF TypeOK
  <2> QED
    BY <2>1 DEF TypeOK, LoopInv
<1> QED
  BY <1>1, <1>2, <1>3

LEMMA RecordShape ==
  ASSUME Shape, NEW l \in Loops, Record(l)
  PROVE  Shape'
<1> USE FanoutAssumption DEF Shape, Record, Chunk, subVars, loopVars, orderVars, closeVars
<1>1. TypeOK'
  <2>0. flushed[l] \in Nat /\ flushed[l] > 0
    BY DEF TypeOK, LoopInv
  <2>1. Chunk(l) \in Chunks
    BY <2>0 DEF Chunks
  <2>2. history' \in Seq(Chunks)
    BY <2>1 DEF TypeOK, Chunks
  <2> QED
    BY <2>2 DEF TypeOK, Chunks
<1>2. ASSUME NEW s \in Subs
      PROVE  SubInv(s)'
  BY DEF TypeOK, SubInv, LoopInv
<1>3. ASSUME NEW b \in Loops
      PROVE  LoopInv(b)'
  BY DEF TypeOK, SubInv, LoopInv
<1> QED
  BY <1>1, <1>2, <1>3

LEMMA SnapshotShape ==
  ASSUME Shape, NEW l \in Loops, Snapshot(l)
  PROVE  Shape'
<1> USE FanoutAssumption DEF Shape, Snapshot, subVars, loopVars, orderVars, closeVars
<1>1. TypeOK'
  BY DEF TypeOK, LoopInv
<1>2. ASSUME NEW s \in Subs
      PROVE  SubInv(s)'
  BY DEF TypeOK, SubInv, LoopInv
<1>3. ASSUME NEW b \in Loops
      PROVE  LoopInv(b)'
  BY DEF TypeOK, SubInv, LoopInv
<1> QED
  BY <1>1, <1>2, <1>3

LEMMA NextTargetShape ==
  ASSUME Shape, NEW l \in Loops, NextTarget(l)
  PROVE  Shape'
<1> USE FanoutAssumption DEF Shape, NextTarget, subVars, loopVars, orderVars, closeVars
<1>1. CASE targets[l] = {}
  <2>1. bpc' = [bpc EXCEPT ![l] = "idle"] /\ UNCHANGED <<targets, at>>
    BY <1>1
  <2>2. TypeOK'
    BY <2>1 DEF TypeOK
  <2>3. ASSUME NEW s \in Subs
        PROVE  SubInv(s)'
    BY <2>1 DEF TypeOK, SubInv
  <2>4. ASSUME NEW b \in Loops
        PROVE  LoopInv(b)'
    BY <1>1, <2>1 DEF TypeOK, LoopInv
  <2> QED
    BY <2>2, <2>3, <2>4
<1>2. CASE targets[l] # {}
  <2>1. PICK t \in targets[l] :
          /\ at' = [at EXCEPT ![l] = t]
          /\ targets' = [targets EXCEPT ![l] = @ \ {t}]
    BY <1>2
  <2>2. bpc' = [bpc EXCEPT ![l] = "check"] /\ t \in Subs
    BY <1>2 DEF TypeOK
  <2>3. TypeOK'
    BY <2>1, <2>2 DEF TypeOK
  <2>4. ASSUME NEW s \in Subs
        PROVE  SubInv(s)'
    BY <2>1, <2>2 DEF TypeOK, SubInv
  <2>5. ASSUME NEW b \in Loops
        PROVE  LoopInv(b)'
    BY <2>1, <2>2 DEF TypeOK, LoopInv
  <2> QED
    BY <2>3, <2>4, <2>5
<1> QED
  BY <1>1, <1>2

LEMMA CheckShape ==
  ASSUME Shape, NEW l \in Loops, Check(l)
  PROVE  Shape'
<1> USE FanoutAssumption DEF Shape, Check, subVars, loopVars, orderVars, closeVars
<1>1. TypeOK'
  BY DEF TypeOK, LoopInv
<1>2. ASSUME NEW s \in Subs
      PROVE  SubInv(s)'
  BY DEF TypeOK, SubInv, LoopInv
<1>3. ASSUME NEW b \in Loops
      PROVE  LoopInv(b)'
  BY DEF TypeOK, SubInv, LoopInv
<1> QED
  BY <1>1, <1>2, <1>3

LEMMA OfferShape ==
  ASSUME Shape, NEW l \in Loops, Offer(l)
  PROVE  Shape'
<1> USE FanoutAssumption DEF Shape, Offer, HasRoom, Chunk, subVars, loopVars, orderVars, closeVars
<1>1. TypeOK'
  <2>1. at[l] \in Subs /\ Chunk(l) \in Chunks
    BY DEF TypeOK, LoopInv, Chunks
  <2>2. /\ queue[at[l]] \in Seq(Chunks) /\ Len(queue[at[l]]) \in Nat
        /\ Len(queue[at[l]]) < QueueSize
    BY <2>1 DEF TypeOK, Chunks
  <2>3. /\ Append(queue[at[l]], Chunk(l)) \in Seq(Chunks)
        /\ Len(Append(queue[at[l]], Chunk(l))) = Len(queue[at[l]]) + 1
    BY <2>1, <2>2
  <2>4. queue' \in [Subs -> Seq(Chunks)]
    BY <2>1, <2>3 DEF TypeOK, Chunks
  <2>5. \A s \in Subs : Len(queue'[s]) <= QueueSize
    BY <2>1, <2>2, <2>3 DEF TypeOK
  <2>6. bpc' \in [Loops -> {"idle", "flush", "snapshot", "next", "check", "offer", "delete", "stop"}]
    BY DEF TypeOK
  <2> QED
    BY <2>4, <2>5, <2>6 DEF TypeOK, Chunks
<1>2. ASSUME NEW s \in Subs
      PROVE  SubInv(s)'
  BY DEF TypeOK, SubInv, LoopInv
<1>3. ASSUME NEW b \in Loops
      PROVE  LoopInv(b)'
  BY DEF TypeOK, SubInv, LoopInv
<1> QED
  BY <1>1, <1>2, <1>3

LEMMA OfferFailsShape ==
  ASSUME Shape, NEW l \in Loops, OfferFails(l)
  PROVE  Shape'
<1> USE FanoutAssumption DEF Shape, OfferFails, AfterRefusal, MayGiveUp, HasRoom, subVars, loopVars, orderVars, closeVars
<1>1. TypeOK'
  BY DEF TypeOK, LoopInv
<1>2. ASSUME NEW s \in Subs
      PROVE  SubInv(s)'
  BY DEF TypeOK, SubInv, LoopInv
<1>3. ASSUME NEW b \in Loops
      PROVE  LoopInv(b)'
  BY DEF TypeOK, SubInv, LoopInv
<1> QED
  BY <1>1, <1>2, <1>3

LEMMA BroadcastDeletesShape ==
  ASSUME Shape, NEW l \in Loops, BroadcastDeletes(l)
  PROVE  Shape'
<1> USE FanoutAssumption DEF Shape, BroadcastDeletes, Delete, subVars, loopVars, orderVars, closeVars
<1>1. TypeOK'
  BY DEF TypeOK, LoopInv
<1>2. ASSUME NEW s \in Subs
      PROVE  SubInv(s)'
  BY DEF TypeOK, SubInv, LoopInv
<1>3. ASSUME NEW b \in Loops
      PROVE  LoopInv(b)'
  BY DEF TypeOK, SubInv, LoopInv
<1> QED
  BY <1>1, <1>2, <1>3

LEMMA BroadcastStopsShape ==
  ASSUME Shape, NEW l \in Loops, BroadcastStops(l)
  PROVE  Shape'
<1> USE FanoutAssumption DEF Shape, BroadcastStops, Stop, subVars, loopVars, orderVars, closeVars
<1>1. TypeOK'
  BY DEF TypeOK, LoopInv
<1>2. ASSUME NEW s \in Subs
      PROVE  SubInv(s)'
  BY DEF TypeOK, SubInv, LoopInv
<1>3. ASSUME NEW b \in Loops
      PROVE  LoopInv(b)'
  BY DEF TypeOK, SubInv, LoopInv
<1> QED
  BY <1>1, <1>2, <1>3

LEMMA BeginCloseShape ==
  ASSUME Shape, BeginClose
  PROVE  Shape'
<1> USE FanoutAssumption DEF Shape, BeginClose, subVars, loopVars, orderVars, closeVars
<1>1. TypeOK'
  BY DEF TypeOK, LoopInv
<1>2. ASSUME NEW s \in Subs
      PROVE  SubInv(s)'
  BY DEF TypeOK, SubInv, LoopInv
<1>3. ASSUME NEW b \in Loops
      PROVE  LoopInv(b)'
  BY DEF TypeOK, SubInv, LoopInv
<1> QED
  BY <1>1, <1>2, <1>3

LEMMA EndCloseShape ==
  ASSUME Shape, EndClose
  PROVE  Shape'
<1> USE FanoutAssumption DEF Shape, EndClose, subVars, loopVars, orderVars, closeVars
<1>1. TypeOK'
  BY DEF TypeOK, LoopInv
<1>2. ASSUME NEW s \in Subs
      PROVE  SubInv(s)'
  BY DEF TypeOK, SubInv, LoopInv
<1>3. ASSUME NEW b \in Loops
      PROVE  LoopInv(b)'
  BY DEF TypeOK, SubInv, LoopInv
<1> QED
  BY <1>1, <1>2, <1>3

-----------------------------------------------------------------------------
(* Most steps leave the streams and the broadcasts as they are.            *)

LEMMA RisingKept ==
  ASSUME NEW s \in Subs, Rising(s), Stream(s)' = Stream(s)
  PROVE  Rising(s)'
BY DEF Rising

LEMMA CompleteKept ==
  ASSUME NEW s \in Subs, NEW b \in Loops, Complete(s, b),
         Stream(s)' = Stream(s), since'[s] = since[s],
         SnapshotsTaken(b)' = SnapshotsTaken(b),
         ToBeOffered(b, s)' => ToBeOffered(b, s),
         s \in members' => s \in members /\ (OnItsWay(b, s)' <=> OnItsWay(b, s))
  PROVE  Complete(s, b)'
<1>1. PICK last \in since[s][b]..SnapshotsTaken(b) :
        /\ UpTo(s, b, last)
        /\ ToBeOffered(b, s) => last = SnapshotsTaken(b) - 1
        /\ s \in members => last = SnapshotsTaken(b) - (IF OnItsWay(b, s) THEN 1 ELSE 0)
  BY DEF Complete
<1>2. UpTo(s, b, last)'
  BY <1>1 DEF UpTo
<1>3. s \in members' => last = SnapshotsTaken(b)' - (IF OnItsWay(b, s)' THEN 1 ELSE 0)
  BY <1>1
<1>4. last \in since'[s][b]..SnapshotsTaken(b)' /\ (ToBeOffered(b, s)' => last = SnapshotsTaken(b)' - 1)
  BY <1>1
<1> QED
  BY <1>2, <1>3, <1>4 DEF Complete

LEMMA FollowsKept ==
  ASSUME NEW s \in Subs, Follows(s),
         Stream(s)' = Stream(s), history' = history,
         \A b \in Loops : ToBeOffered(b, s)' => ToBeOffered(b, s),
         s \in members' => s \in members /\ Newest(s)' = Newest(s)
  PROVE  Follows(s)'
<1>1. PICK e \in Len(Stream(s))..Len(history) :
        /\ Stretch(s, e)
        /\ s \in members => e = Newest(s)
        /\ (\E b \in Loops : ToBeOffered(b, s)) => e = Len(history) - 1
  BY DEF Follows
<1>2. Stretch(s, e)'
  BY <1>1 DEF Stretch
<1>3. (\E b \in Loops : ToBeOffered(b, s)') => e = Len(history') - 1
  BY <1>1
<1>4. e \in Len(Stream(s)')..Len(history') /\ (s \in members' => e = Newest(s)')
  BY <1>1
<1> QED
  BY <1>2, <1>3, <1>4 DEF Follows

LEMMA QuietStep ==
  ASSUME FanoutInv, Shape',
         UNCHANGED <<flushed, history, overlapped, since>>,
         members' \subseteq members,
         \A s \in Subs : Stream(s)' = Stream(s),
         \A b \in Loops :
           /\ bpc'[b] \in {"flush", "snapshot"} <=> bpc[b] \in {"flush", "snapshot"}
           /\ bpc'[b] = "snapshot" <=> bpc[b] = "snapshot"
           /\ bpc[b] = "idle" => bpc'[b] = "idle",
         \A b \in Loops, s \in Subs : ToBeOffered(b, s)' => ToBeOffered(b, s),
         \A b \in Loops, s \in members' : OnItsWay(b, s)' <=> OnItsWay(b, s)
  PROVE  FanoutInv'
<1>1. ASSUME NEW s \in Subs
      PROVE  Rising(s)'
  BY RisingKept DEF FanoutInv
<1>2. \A b \in Loops : SnapshotsTaken(b)' = SnapshotsTaken(b)
  BY DEF SnapshotsTaken
<1>3. ASSUME NEW s \in Subs, NEW b \in Loops
      PROVE  Complete(s, b)'
  <2>1. Complete(s, b) /\ Stream(s)' = Stream(s) /\ since'[s] = since[s]
    BY DEF FanoutInv
  <2>2. s \in members' => s \in members /\ (OnItsWay(b, s)' <=> OnItsWay(b, s))
    OBVIOUS
  <2>3. ToBeOffered(b, s)' => ToBeOffered(b, s)
    OBVIOUS
  <2> QED
    BY <1>2, <2>1, <2>2, <2>3, CompleteKept
<1>4. ASSUME ~overlapped', NEW s \in Subs
      PROVE  Follows(s)'
  <2>1. Follows(s) /\ Stream(s)' = Stream(s)
    BY <1>4 DEF FanoutInv
  <2>2. s \in members' => s \in members /\ Newest(s)' = Newest(s)
    BY DEF Newest
  <2>3. \A b \in Loops : ToBeOffered(b, s)' => ToBeOffered(b, s)
    OBVIOUS
  <2> QED
    BY <2>1, <2>2, <2>3, FollowsKept
<1>5. ASSUME ~overlapped'
      PROVE  OneAtATime'
  <2>1. OneAtATime
    BY <1>5 DEF FanoutInv
  <2>2. \A b \in Loops : Chunk(b)' = Chunk(b)
    BY DEF Chunk
  <2>3. \A b \in Loops : bpc'[b] \notin {"idle", "flush"} => bpc[b] \notin {"idle", "flush"}
    OBVIOUS
  <2> QED
    BY <2>1, <2>2, <2>3 DEF OneAtATime
<1> QED
  BY <1>1, <1>3, <1>4, <1>5 DEF FanoutInv

-----------------------------------------------------------------------------
(* The invariant, action by action.                                        *)

\* A step of a connection or of Close.
LEMMA ConnectionStep ==
  ASSUME FanoutInv, Shape', UNCHANGED <<loopVars, since>>, members' \subseteq members,
         \A s \in Subs : Stream(s)' = Stream(s)
  PROVE  FanoutInv'
<1>1. \A b \in Loops, s \in Subs : ToBeOffered(b, s)' = ToBeOffered(b, s)
  BY DEF loopVars, ToBeOffered
<1>2. \A b \in Loops, s \in Subs : OnItsWay(b, s)' = OnItsWay(b, s)
  BY DEF loopVars, OnItsWay
<1>3. members' \subseteq Subs
  BY DEF Shape, TypeOK
<1>4. UNCHANGED <<flushed, history, overlapped, since, bpc>>
  BY DEF loopVars, orderVars
<1> QED
  BY <1>1, <1>2, <1>3, <1>4, QuietStep

LEMMA WriterTakesInv ==
  ASSUME FanoutInv, NEW t \in Subs, WriterTakes(t)
  PROVE  FanoutInv'
<1>1. Shape'
  BY WriterTakesShape DEF FanoutInv
<1>2. \A s \in Subs : Stream(s)' = Stream(s)
  BY WriterTakesKeepsStream
<1>3. UNCHANGED <<loopVars, since>> /\ members' \subseteq members
  BY DEF WriterTakes, subVars
<1> QED
  BY <1>1, <1>2, <1>3, ConnectionStep

LEMMA WriterDoneInv ==
  ASSUME FanoutInv, NEW t \in Subs, WriterDone(t)
  PROVE  FanoutInv'
<1>1. Shape'
  BY WriterDoneShape DEF FanoutInv
<1>2. \A s \in Subs : Stream(s)' = Stream(s)
  BY DEF WriterDone, Stream, subVars
<1>3. UNCHANGED <<loopVars, since>> /\ members' \subseteq members
  BY DEF WriterDone, subVars
<1> QED
  BY <1>1, <1>2, <1>3, ConnectionStep

LEMMA WriteSucceedsInv ==
  ASSUME FanoutInv, NEW t \in Subs, WriteSucceeds(t)
  PROVE  FanoutInv'
<1>1. Shape'
  BY WriteSucceedsShape DEF FanoutInv
<1>2. \A s \in Subs : Stream(s)' = Stream(s)
  BY WriteSucceedsKeepsStream
<1>3. UNCHANGED <<loopVars, since>> /\ members' \subseteq members
  BY DEF WriteSucceeds, subVars
<1> QED
  BY <1>1, <1>2, <1>3, ConnectionStep

LEMMA WriteFailsInv ==
  ASSUME FanoutInv, NEW t \in Subs, WriteFails(t)
  PROVE  FanoutInv'
<1>1. Shape'
  BY WriteFailsShape DEF FanoutInv
<1>2. \A s \in Subs : Stream(s)' = Stream(s)
  BY DEF WriteFails, Stream, subVars
<1>3. UNCHANGED <<loopVars, since>> /\ members' \subseteq members
  BY DEF WriteFails, subVars
<1> QED
  BY <1>1, <1>2, <1>3, ConnectionStep

LEMMA WriterDeletesInv ==
  ASSUME FanoutInv, NEW t \in Subs, WriterDeletes(t)
  PROVE  FanoutInv'
<1>1. Shape'
  BY WriterDeletesShape DEF FanoutInv
<1>2. \A s \in Subs : Stream(s)' = Stream(s)
  BY DEF WriterDeletes, Stream, subVars
<1>3. UNCHANGED <<loopVars, since>> /\ members' \subseteq members
  BY DEF WriterDeletes, Delete, subVars
<1> QED
  BY <1>1, <1>2, <1>3, ConnectionStep

LEMMA WriterStopsInv ==
  ASSUME FanoutInv, NEW t \in Subs, WriterStops(t)
  PROVE  FanoutInv'
<1>1. Shape'
  BY WriterStopsShape DEF FanoutInv
<1>2. \A s \in Subs : Stream(s)' = Stream(s)
  BY DEF WriterStops, Stream, subVars
<1>3. UNCHANGED <<loopVars, since>> /\ members' \subseteq members
  BY DEF WriterStops, subVars
<1> QED
  BY <1>1, <1>2, <1>3, ConnectionStep

LEMMA HandlerLeavesInv ==
  ASSUME FanoutInv, NEW t \in Subs, HandlerLeaves(t)
  PROVE  FanoutInv'
<1>1. Shape'
  BY HandlerLeavesShape DEF FanoutInv
<1>2. \A s \in Subs : Stream(s)' = Stream(s)
  BY DEF HandlerLeaves, Stream, subVars
<1>3. UNCHANGED <<loopVars, since>> /\ members' \subseteq members
  BY DEF HandlerLeaves, subVars
<1> QED
  BY <1>1, <1>2, <1>3, ConnectionStep

LEMMA HandlerDeletesInv ==
  ASSUME FanoutInv, NEW t \in Subs, HandlerDeletes(t)
  PROVE  FanoutInv'
<1>1. Shape'
  BY HandlerDeletesShape DEF FanoutInv
<1>2. \A s \in Subs : Stream(s)' = Stream(s)
  BY DEF HandlerDeletes, Stream, subVars
<1>3. UNCHANGED <<loopVars, since>> /\ members' \subseteq members
  BY DEF HandlerDeletes, Delete, subVars
<1> QED
  BY <1>1, <1>2, <1>3, ConnectionStep

LEMMA HandlerStopsInv ==
  ASSUME FanoutInv, NEW t \in Subs, HandlerStops(t)
  PROVE  FanoutInv'
<1>1. Shape'
  BY HandlerStopsShape DEF FanoutInv
<1>2. \A s \in Subs : Stream(s)' = Stream(s)
  BY DEF HandlerStops, Stream, subVars
<1>3. UNCHANGED <<loopVars, since>> /\ members' \subseteq members
  BY DEF HandlerStops, subVars
<1> QED
  BY <1>1, <1>2, <1>3, ConnectionStep

LEMMA CloseOneInv ==
  ASSUME FanoutInv, NEW t \in Subs, CloseOne(t)
  PROVE  FanoutInv'
<1>1. Shape'
  BY CloseOneShape DEF FanoutInv
<1>2. \A s \in Subs : Stream(s)' = Stream(s)
  BY DEF CloseOne, Stream, subVars
<1>3. UNCHANGED <<loopVars, since>> /\ members' \subseteq members
  BY DEF CloseOne, Delete, subVars
<1> QED
  BY <1>1, <1>2, <1>3, ConnectionStep

LEMMA BeginCloseInv ==
  ASSUME FanoutInv, BeginClose
  PROVE  FanoutInv'
<1>1. Shape'
  BY BeginCloseShape DEF FanoutInv
<1>2. \A s \in Subs : Stream(s)' = Stream(s)
  BY DEF BeginClose, Stream, subVars
<1>3. UNCHANGED <<loopVars, since>> /\ members' \subseteq members
  BY DEF BeginClose, subVars
<1> QED
  BY <1>1, <1>2, <1>3, ConnectionStep

LEMMA EndCloseInv ==
  ASSUME FanoutInv, EndClose
  PROVE  FanoutInv'
<1>1. Shape'
  BY EndCloseShape DEF FanoutInv
<1>2. \A s \in Subs : Stream(s)' = Stream(s)
  BY DEF EndClose, Stream, subVars
<1>3. UNCHANGED <<loopVars, since>> /\ members' \subseteq members
  BY DEF EndClose, subVars
<1> QED
  BY <1>1, <1>2, <1>3, ConnectionStep

\* A step of a loop after its snapshot that offers nothing.
LEMMA LoopStep ==
  ASSUME FanoutInv, Shape', NEW l \in Loops,
         UNCHANGED <<queue, writing, received, since, flushed, orderVars>>,
         members' \subseteq members,
         bpc[l] \in {"next", "check", "offer", "delete", "stop"},
         bpc'[l] \in {"idle", "next", "check", "offer", "delete", "stop"},
         \A b \in Loops \ {l} : bpc'[b] = bpc[b] /\ targets'[b] = targets[b] /\ at'[b] = at[b],
         \A s \in Subs : ToBeOffered(l, s)' => ToBeOffered(l, s),
         \A s \in members' : OnItsWay(l, s)' <=> OnItsWay(l, s)
  PROVE  FanoutInv'
<1>1. \A s \in Subs : Stream(s)' = Stream(s)
  BY DEF Stream
<1>2. \A b \in Loops, s \in Subs : ToBeOffered(b, s)' => ToBeOffered(b, s)
  BY DEF ToBeOffered
<1>3. \A b \in Loops, s \in members' : OnItsWay(b, s)' <=> OnItsWay(b, s)
  BY DEF OnItsWay
<1>4. \A b \in Loops :
        /\ bpc'[b] \in {"flush", "snapshot"} <=> bpc[b] \in {"flush", "snapshot"}
        /\ bpc'[b] = "snapshot" <=> bpc[b] = "snapshot"
        /\ bpc[b] = "idle" => bpc'[b] = "idle"
  OBVIOUS
<1>5. UNCHANGED <<flushed, history, overlapped, since>>
  BY DEF orderVars
<1> QED
  BY <1>1, <1>2, <1>3, <1>4, <1>5, QuietStep

LEMMA NextTargetInv ==
  ASSUME FanoutInv, NEW l \in Loops, NextTarget(l)
  PROVE  FanoutInv'
<1>1. Shape'
  BY NextTargetShape DEF FanoutInv
<1>2. Shape
  BY DEF FanoutInv
<1> USE DEF NextTarget
<1>3. /\ UNCHANGED <<queue, writing, received, since, flushed, orderVars>>
      /\ members' \subseteq members
  BY DEF subVars
<1>4. /\ bpc[l] \in {"next", "check", "offer", "delete", "stop"}
      /\ bpc'[l] \in {"idle", "next", "check", "offer", "delete", "stop"}
  BY <1>2 DEF Shape, TypeOK
<1>5. \A b \in Loops \ {l} : bpc'[b] = bpc[b] /\ targets'[b] = targets[b] /\ at'[b] = at[b]
  BY <1>2 DEF Shape, TypeOK
<1>6. \A s \in Subs : ToBeOffered(l, s)' => ToBeOffered(l, s)
  BY <1>2 DEF Shape, TypeOK, LoopInv, ToBeOffered
<1>7. \A s \in members' : OnItsWay(l, s)' <=> OnItsWay(l, s)
  BY <1>2, <1>3, FanoutAssumption, SMTT(30) DEF Shape, TypeOK, LoopInv, OnItsWay
<1> HIDE DEF NextTarget
<1> QED
  BY <1>1, <1>3, <1>4, <1>5, <1>6, <1>7, LoopStep

LEMMA CheckInv ==
  ASSUME FanoutInv, NEW l \in Loops, Check(l)
  PROVE  FanoutInv'
<1>1. Shape'
  BY CheckShape DEF FanoutInv
<1>2. Shape
  BY DEF FanoutInv
<1> USE DEF Check
<1>3. /\ UNCHANGED <<queue, writing, received, since, flushed, orderVars>>
      /\ members' \subseteq members
  BY DEF subVars
<1>4. /\ bpc[l] \in {"next", "check", "offer", "delete", "stop"}
      /\ bpc'[l] \in {"idle", "next", "check", "offer", "delete", "stop"}
  BY <1>2 DEF Shape, TypeOK
<1>5. \A b \in Loops \ {l} : bpc'[b] = bpc[b] /\ targets'[b] = targets[b] /\ at'[b] = at[b]
  BY <1>2 DEF Shape, TypeOK
<1>6. \A s \in Subs : ToBeOffered(l, s)' => ToBeOffered(l, s)
  BY <1>2 DEF Shape, TypeOK, LoopInv, ToBeOffered
<1>7. \A s \in members' : OnItsWay(l, s)' <=> OnItsWay(l, s)
  BY <1>2, <1>3, FanoutAssumption DEF Shape, TypeOK, LoopInv, OnItsWay
<1> HIDE DEF Check
<1> QED
  BY <1>1, <1>3, <1>4, <1>5, <1>6, <1>7, LoopStep

LEMMA OfferFailsInv ==
  ASSUME FanoutInv, NEW l \in Loops, OfferFails(l)
  PROVE  FanoutInv'
<1>1. Shape'
  BY OfferFailsShape DEF FanoutInv
<1>2. Shape
  BY DEF FanoutInv
<1> USE DEF OfferFails, AfterRefusal
<1>3. /\ UNCHANGED <<queue, writing, received, since, flushed, orderVars>>
      /\ members' \subseteq members
  BY DEF subVars
<1>4. /\ bpc[l] \in {"next", "check", "offer", "delete", "stop"}
      /\ bpc'[l] \in {"idle", "next", "check", "offer", "delete", "stop"}
  BY <1>2 DEF Shape, TypeOK
<1>5. \A b \in Loops \ {l} : bpc'[b] = bpc[b] /\ targets'[b] = targets[b] /\ at'[b] = at[b]
  BY <1>2 DEF Shape, TypeOK
<1>6. \A s \in Subs : ToBeOffered(l, s)' => ToBeOffered(l, s)
  BY <1>2 DEF Shape, TypeOK, LoopInv, ToBeOffered
<1>7. \A s \in members' : OnItsWay(l, s)' <=> OnItsWay(l, s)
  BY <1>2, <1>3, FanoutAssumption DEF Shape, TypeOK, LoopInv, OnItsWay
<1> HIDE DEF OfferFails
<1> QED
  BY <1>1, <1>3, <1>4, <1>5, <1>6, <1>7, LoopStep

LEMMA BroadcastDeletesInv ==
  ASSUME FanoutInv, NEW l \in Loops, BroadcastDeletes(l)
  PROVE  FanoutInv'
<1>1. Shape'
  BY BroadcastDeletesShape DEF FanoutInv
<1>2. Shape
  BY DEF FanoutInv
<1> USE DEF BroadcastDeletes, Delete
<1>3. /\ UNCHANGED <<queue, writing, received, since, flushed, orderVars>>
      /\ members' \subseteq members
  BY DEF subVars
<1>4. /\ bpc[l] \in {"next", "check", "offer", "delete", "stop"}
      /\ bpc'[l] \in {"idle", "next", "check", "offer", "delete", "stop"}
  BY <1>2 DEF Shape, TypeOK
<1>5. \A b \in Loops \ {l} : bpc'[b] = bpc[b] /\ targets'[b] = targets[b] /\ at'[b] = at[b]
  BY <1>2 DEF Shape, TypeOK
<1>6. \A s \in Subs : ToBeOffered(l, s)' => ToBeOffered(l, s)
  BY <1>2 DEF Shape, TypeOK, LoopInv, ToBeOffered
<1>7. \A s \in members' : OnItsWay(l, s)' <=> OnItsWay(l, s)
  BY <1>2, <1>3, FanoutAssumption DEF Shape, TypeOK, LoopInv, OnItsWay
<1> HIDE DEF BroadcastDeletes
<1> QED
  BY <1>1, <1>3, <1>4, <1>5, <1>6, <1>7, LoopStep

LEMMA BroadcastStopsInv ==
  ASSUME FanoutInv, NEW l \in Loops, BroadcastStops(l)
  PROVE  FanoutInv'
<1>1. Shape'
  BY BroadcastStopsShape DEF FanoutInv
<1>2. Shape
  BY DEF FanoutInv
<1> USE DEF BroadcastStops
<1>3. /\ UNCHANGED <<queue, writing, received, since, flushed, orderVars>>
      /\ members' \subseteq members
  BY DEF subVars
<1>4. /\ bpc[l] \in {"next", "check", "offer", "delete", "stop"}
      /\ bpc'[l] \in {"idle", "next", "check", "offer", "delete", "stop"}
  BY <1>2 DEF Shape, TypeOK
<1>5. \A b \in Loops \ {l} : bpc'[b] = bpc[b] /\ targets'[b] = targets[b] /\ at'[b] = at[b]
  BY <1>2 DEF Shape, TypeOK
<1>6. \A s \in Subs : ToBeOffered(l, s)' => ToBeOffered(l, s)
  BY <1>2 DEF Shape, TypeOK, LoopInv, ToBeOffered
<1>7. \A s \in members' : OnItsWay(l, s)' <=> OnItsWay(l, s)
  BY <1>2, <1>3, FanoutAssumption DEF Shape, TypeOK, LoopInv, OnItsWay
<1> HIDE DEF BroadcastStops
<1> QED
  BY <1>1, <1>3, <1>4, <1>5, <1>6, <1>7, LoopStep

LEMMA SubscribeInv ==
  ASSUME FanoutInv, NEW t \in Subs, Subscribe(t)
  PROVE  FanoutInv'
<1>1. Shape' /\ Shape
  BY SubscribeShape DEF FanoutInv
<1>2. /\ UNCHANGED <<queue, writing, received, flushed, bpc, targets, at, history, overlapped>>
      /\ members' = members \cup {t}
      /\ \A s \in Subs \ {t} : since'[s] = since[s]
      /\ since'[t] = [b \in Loops |-> SnapshotsTaken(b)]
  BY <1>1 DEF Subscribe, loopVars, orderVars, Shape, TypeOK
<1>3. \A s \in Subs : Stream(s)' = Stream(s)
  BY <1>2 DEF Stream
<1>4. /\ \A b \in Loops : SnapshotsTaken(b)' = SnapshotsTaken(b)
      /\ \A b \in Loops, s \in Subs : ToBeOffered(b, s)' = ToBeOffered(b, s)
      /\ \A b \in Loops, s \in Subs : OnItsWay(b, s)' = OnItsWay(b, s)
  BY <1>2 DEF SnapshotsTaken, ToBeOffered, OnItsWay
<1>5. /\ Stream(t) = <<>> /\ Len(Stream(t)) = 0
      /\ \A b \in Loops : ~ToBeOffered(b, t) /\ ~OnItsWay(b, t)
  <2>1. SubInv(t) /\ handler[t] = "none"
    BY <1>1 DEF Shape, Subscribe
  <2>2. received[t] = <<>> /\ writing[t] = <<>> /\ queue[t] = <<>>
    BY <2>1 DEF SubInv
  <2>3. Stream(t) = <<>>
    BY <2>2 DEF Stream
  <2>4. \A b \in Loops : ~ToBeOffered(b, t) /\ ~OnItsWay(b, t)
    BY <2>1 DEF SubInv, ToBeOffered, OnItsWay
  <2> QED
    BY <2>3, <2>4
<1>6. ASSUME NEW s \in Subs
      PROVE  Rising(s)'
  BY <1>3, RisingKept DEF FanoutInv
<1>7. ASSUME NEW s \in Subs, NEW b \in Loops
      PROVE  Complete(s, b)'
  <2>1. CASE s # t
    BY <1>2, <1>3, <1>4, <2>1, CompleteKept DEF FanoutInv
  <2>2. CASE s = t
    <3>1. PICK last \in Nat : last = SnapshotsTaken(b)
      BY <1>1, SnapshotsTakenType
    <3>2. since'[s][b] = last /\ last \in since'[s][b]..SnapshotsTaken(b)'
      BY <1>2, <1>4, <2>2, <3>1
    <3>3. UpTo(s, b, last)'
      BY <1>3, <1>5, <2>2, <3>1, <3>2 DEF UpTo
    <3>4. ~ToBeOffered(b, s)' /\ last = SnapshotsTaken(b)' - (IF OnItsWay(b, s)' THEN 1 ELSE 0)
      BY <1>4, <1>5, <2>2, <3>1
    <3> QED
      BY <3>2, <3>3, <3>4 DEF Complete
  <2> QED
    BY <2>1, <2>2
<1>8. ASSUME ~overlapped'
      PROVE  OneAtATime'
  BY <1>2, <1>8 DEF FanoutInv, OneAtATime, Chunk
<1>9. ASSUME ~overlapped', NEW s \in Subs
      PROVE  Follows(s)'
  <2>1. Newest(s)' = Newest(s)
    BY <1>2, <1>4 DEF Newest
  <2>2. CASE s # t
    BY <1>2, <1>3, <1>4, <1>9, <2>1, <2>2, FollowsKept DEF FanoutInv
  <2>3. CASE s = t
    <3>1. Len(history) \in Nat /\ \A b \in Loops : bpc[b] = "snapshot" => Len(history) > 0
      BY <1>1, <1>2, <1>9, LenProperties DEF FanoutInv, OneAtATime, Shape, TypeOK
    <3>2. Newest(s) \in 0..Len(history)
      BY <1>5, <2>3, <3>1 DEF Newest
    <3>3. PICK e \in 0..Len(history) : e = Newest(s)
      BY <3>2
    <3>4. \A b \in Loops : ~ToBeOffered(b, s)'
      BY <1>4, <1>5, <2>3
    <3>5. e \in Len(Stream(s)')..Len(history') /\ e = Newest(s)'
      BY <1>2, <1>3, <1>5, <2>1, <2>3, <3>3
    <3>6. Stretch(s, e)'
      BY <1>3, <1>5, <2>3 DEF Stretch
    <3> QED
      BY <3>4, <3>5, <3>6 DEF Follows
  <2> QED
    BY <2>2, <2>3
<1> QED
  BY <1>1, <1>6, <1>7, <1>8, <1>9 DEF FanoutInv

LEMMA BeginFlushInv ==
  ASSUME FanoutInv, NEW l \in Loops, BeginFlush(l)
  PROVE  FanoutInv'
<1>1. Shape' /\ Shape
  BY BeginFlushShape DEF FanoutInv
<1>2. /\ bpc[l] = "idle"
      /\ UNCHANGED <<members, queue, writing, received, since, targets, at, history>>
      /\ \A b \in Loops \ {l} : bpc'[b] = bpc[b] /\ flushed'[b] = flushed[b]
      /\ bpc'[l] = "flush" /\ flushed'[l] = flushed[l] + 1
      /\ at[l] = None /\ targets[l] = {}
  BY <1>1, BeginFlushEffect DEF subVars, Shape, TypeOK, LoopInv
<1>3. \A s \in Subs : Stream(s)' = Stream(s)
  BY <1>2 DEF Stream
<1>4. /\ \A b \in Loops : SnapshotsTaken(b)' = SnapshotsTaken(b)
      /\ \A b \in Loops, s \in Subs : ToBeOffered(b, s)' = ToBeOffered(b, s)
      /\ \A b \in Loops, s \in Subs : OnItsWay(b, s)' = OnItsWay(b, s)
  <2>1. \A b \in Loops : SnapshotsTaken(b)' = SnapshotsTaken(b)
    <3> TAKE b \in Loops
    <3>1. flushed[b] \in Nat
      BY <1>1 DEF Shape, TypeOK
    <3> QED
      BY <1>2, <3>1 DEF SnapshotsTaken
  <2> QED
    BY <1>2, <2>1, FanoutAssumption DEF ToBeOffered, OnItsWay
<1>5. ASSUME NEW s \in Subs
      PROVE  Rising(s)'
  BY <1>3, RisingKept DEF FanoutInv
<1>6. ASSUME NEW s \in Subs, NEW b \in Loops
      PROVE  Complete(s, b)'
  BY <1>2, <1>3, <1>4, CompleteKept DEF FanoutInv
<1>7. ASSUME ~overlapped'
      PROVE  OneAtATime' /\ \A s \in Subs : Follows(s)'
  <2>1. ~overlapped /\ \A b \in Loops \ {l} : bpc[b] = "idle"
    BY <1>7, BeginFlushEffect, Zenon
  <2>2. OneAtATime'
    BY <1>2, <2>1 DEF OneAtATime
  <2>3. ASSUME NEW s \in Subs
        PROVE  Follows(s)'
    <3>1. Newest(s)' = Newest(s)
      BY <1>2, <1>4 DEF Newest
    <3> QED
      BY <1>2, <1>3, <1>4, <2>1, <3>1, FollowsKept DEF FanoutInv
  <2> QED
    BY <2>2, <2>3
<1> QED
  BY <1>1, <1>5, <1>6, <1>7 DEF FanoutInv

LEMMA RecordInv ==
  ASSUME FanoutInv, NEW l \in Loops, Record(l)
  PROVE  FanoutInv'
<1>1. Shape' /\ Shape
  BY RecordShape DEF FanoutInv
<1>2. /\ bpc[l] = "flush" /\ at[l] = None /\ targets[l] = {}
      /\ UNCHANGED <<members, queue, writing, received, since, flushed, targets, at, overlapped>>
      /\ \A b \in Loops \ {l} : bpc'[b] = bpc[b]
      /\ bpc'[l] = "snapshot"
  BY <1>1 DEF Record, subVars, Shape, TypeOK, LoopInv
<1>3. \A s \in Subs : Stream(s)' = Stream(s)
  BY <1>2 DEF Stream
<1>4. /\ \A b \in Loops : SnapshotsTaken(b)' = SnapshotsTaken(b)
      /\ \A b \in Loops, s \in Subs : ToBeOffered(b, s)' = ToBeOffered(b, s)
      /\ \A b \in Loops, s \in Subs : OnItsWay(b, s)' = OnItsWay(b, s)
  BY <1>2, FanoutAssumption DEF SnapshotsTaken, ToBeOffered, OnItsWay
<1>5. /\ Len(history) \in Nat /\ Len(history') = Len(history) + 1
      /\ \A i \in 1..Len(history) : history'[i] = history[i]
      /\ history'[Len(history')] = Chunk(l)
      /\ \A b \in Loops : Chunk(b)' = Chunk(b)
  <2>1. Chunk(l) \in Chunks
    <3>1. flushed[l] \in Nat /\ flushed[l] > 0
      BY <1>1, <1>2 DEF Shape, TypeOK, LoopInv
    <3> QED
      BY <3>1 DEF Chunk, Chunks
  <2>2. history \in Seq(Chunks) /\ history' = Append(history, Chunk(l))
    BY <1>1 DEF Shape, TypeOK, Chunks, Record
  <2>3. \A b \in Loops : Chunk(b)' = Chunk(b)
    BY <1>2 DEF Chunk
  <2> QED
    BY <2>1, <2>2, <2>3
<1>6. ASSUME NEW s \in Subs
      PROVE  Rising(s)'
  BY <1>3, RisingKept DEF FanoutInv
<1>7. ASSUME NEW s \in Subs, NEW b \in Loops
      PROVE  Complete(s, b)'
  BY <1>2, <1>3, <1>4, CompleteKept DEF FanoutInv
<1>8. ASSUME ~overlapped'
      PROVE  OneAtATime' /\ \A s \in Subs : Follows(s)'
  <2>1. \A b \in Loops \ {l} : bpc[b] = "idle" /\ at[b] = None /\ targets[b] = {}
    BY <1>1, <1>2, <1>8 DEF FanoutInv, OneAtATime, Shape, LoopInv
  <2>2. OneAtATime'
    BY <1>2, <1>5, <2>1 DEF OneAtATime
  <2>3. \A b \in Loops, s \in Subs : ~ToBeOffered(b, s) /\ ~OnItsWay(b, s)
    BY <1>2, <2>1, FanoutAssumption DEF ToBeOffered, OnItsWay
  <2>4. ASSUME NEW s \in Subs
        PROVE  Follows(s)'
    <3>1. Newest(s) = Len(history) /\ Newest(s)' = Len(history)
      BY <1>2, <1>4, <1>5, <2>1, <2>3 DEF Newest
    <3>2. PICK e \in Len(Stream(s))..Len(history) : Stretch(s, e) /\ (s \in members => e = Newest(s))
      BY <1>2, <1>8 DEF FanoutInv, Follows
    <3>3. Len(Stream(s)) \in Nat
      BY <1>1, StreamType DEF Shape
    <3>4. e \in Len(Stream(s)')..Len(history') /\ (s \in members' => e = Newest(s)')
      BY <1>2, <1>3, <1>5, <3>1, <3>2, <3>3
    <3>5. Stretch(s, e)'
      <4> SUFFICES ASSUME NEW i \in 1..Len(Stream(s))
                   PROVE  Stream(s)[i] = history'[e - Len(Stream(s)) + i]
        BY <1>3 DEF Stretch
      <4>1. e - Len(Stream(s)) + i \in 1..Len(history)
        BY <1>5, <3>2, <3>3
      <4> QED
        BY <1>5, <3>2, <4>1 DEF Stretch
    <3>6. \A b \in Loops : ~ToBeOffered(b, s)'
      BY <1>4, <2>3
    <3> QED
      BY <3>4, <3>5, <3>6 DEF Follows
  <2> QED
    BY <2>2, <2>4
<1> QED
  BY <1>1, <1>6, <1>7, <1>8 DEF FanoutInv

LEMMA SnapshotInv ==
  ASSUME FanoutInv, NEW l \in Loops, Snapshot(l)
  PROVE  FanoutInv'
<1>1. Shape' /\ Shape
  BY SnapshotShape DEF FanoutInv
<1>2. /\ bpc[l] = "snapshot" /\ at[l] = None /\ targets[l] = {}
      /\ UNCHANGED <<members, queue, writing, received, since, flushed, at, history, overlapped>>
      /\ \A b \in Loops \ {l} : bpc'[b] = bpc[b] /\ targets'[b] = targets[b]
      /\ bpc'[l] = "next" /\ targets'[l] = members /\ members \subseteq Subs
  BY <1>1 DEF Snapshot, subVars, orderVars, Shape, TypeOK, LoopInv
<1>3. \A s \in Subs : Stream(s)' = Stream(s)
  BY <1>2 DEF Stream
<1>4. /\ \A b \in Loops \ {l} : SnapshotsTaken(b)' = SnapshotsTaken(b)
      /\ \A b \in Loops \ {l}, s \in Subs : ToBeOffered(b, s)' = ToBeOffered(b, s)
      /\ \A b \in Loops \ {l}, s \in Subs : OnItsWay(b, s)' = OnItsWay(b, s)
  BY <1>2 DEF SnapshotsTaken, ToBeOffered, OnItsWay
<1>5. /\ SnapshotsTaken(l) \in Nat /\ SnapshotsTaken(l)' = SnapshotsTaken(l) + 1
      /\ \A s \in Subs : ~OnItsWay(l, s)
      /\ \A s \in Subs : ToBeOffered(l, s)' <=> s \in members
      /\ \A s \in Subs : OnItsWay(l, s)' <=> s \in members
  <2>1. flushed[l] \in Nat
    BY <1>1 DEF Shape, TypeOK
  <2>2. SnapshotsTaken(l) \in Nat /\ SnapshotsTaken(l)' = SnapshotsTaken(l) + 1
    BY <1>1, <1>2, <2>1, SnapshotsTakenType DEF SnapshotsTaken
  <2> QED
    BY <1>2, <2>2, FanoutAssumption DEF ToBeOffered, OnItsWay
<1>6. ASSUME NEW s \in Subs
      PROVE  Rising(s)'
  BY <1>3, RisingKept DEF FanoutInv
<1>7. ASSUME NEW s \in Subs, NEW b \in Loops
      PROVE  Complete(s, b)'
  <2>1. CASE b # l
    BY <1>2, <1>3, <1>4, <2>1, CompleteKept DEF FanoutInv
  <2>2. CASE b = l
    <3>1. PICK last \in since[s][b]..SnapshotsTaken(b) :
            UpTo(s, b, last) /\ (s \in members => last = SnapshotsTaken(b))
      BY <1>5, <2>2 DEF FanoutInv, Complete
    <3>2. since[s][b] \in Nat
      BY <1>1 DEF Shape, TypeOK
    <3>3. last \in since'[s][b]..SnapshotsTaken(b)'
      BY <1>2, <1>5, <2>2, <3>1, <3>2
    <3>4. UpTo(s, b, last)'
      BY <1>2, <1>3, <3>1 DEF UpTo
    <3>5. /\ ToBeOffered(b, s)' => last = SnapshotsTaken(b)' - 1
          /\ s \in members' => last = SnapshotsTaken(b)' - (IF OnItsWay(b, s)' THEN 1 ELSE 0)
      BY <1>2, <1>5, <2>2, <3>1
    <3> QED
      BY <3>3, <3>4, <3>5 DEF Complete
  <2> QED
    BY <2>1, <2>2
<1>8. ASSUME ~overlapped'
      PROVE  OneAtATime' /\ \A s \in Subs : Follows(s)'
  <2>1. OneAtATime /\ ~overlapped
    BY <1>2, <1>8 DEF FanoutInv
  <2>2. \A b \in Loops : Chunk(b)' = Chunk(b)
    BY <1>2 DEF Chunk
  <2>3. OneAtATime'
    BY <1>2, <2>1, <2>2 DEF OneAtATime
  <2>4. \A b \in Loops \ {l} : bpc[b] = "idle" /\ at[b] = None /\ targets[b] = {}
    BY <1>1, <1>2, <2>1 DEF OneAtATime, Shape, LoopInv
  <2>5. \A b \in Loops \ {l}, s \in Subs : ~ToBeOffered(b, s) /\ ~OnItsWay(b, s)
    BY <2>4, FanoutAssumption DEF ToBeOffered, OnItsWay
  <2>6. ASSUME NEW s \in Subs
        PROVE  Follows(s)'
    <3>1. PICK e \in Len(Stream(s))..Len(history) : Stretch(s, e) /\ (s \in members => e = Newest(s))
      BY <2>1 DEF FanoutInv, Follows
    <3>2. /\ Newest(s) = Len(history) - 1
          /\ s \in members => Newest(s)' = Len(history) - 1
      BY <1>2, <1>5 DEF Newest
    <3>3. Stretch(s, e)'
      BY <1>2, <1>3, <3>1 DEF Stretch
    <3>4. e \in Len(Stream(s)')..Len(history') /\ (s \in members' => e = Newest(s)')
      BY <1>2, <1>3, <3>1, <3>2
    <3>5. (\E b \in Loops : ToBeOffered(b, s)') => e = Len(history') - 1
      BY <1>2, <1>4, <1>5, <2>5, <3>1, <3>2
    <3> QED
      BY <3>3, <3>4, <3>5 DEF Follows
  <2> QED
    BY <2>3, <2>6
<1> QED
  BY <1>1, <1>6, <1>7, <1>8 DEF FanoutInv

\* The stream of a subscriber ends before the chunk it is being offered.
LEMMA OfferedIsNext ==
  ASSUME FanoutInv, NEW l \in Loops, Offer(l), NEW s \in Subs, at[l] = s
  PROVE  /\ since[s][l] \in Nat /\ flushed[l] \in Nat
         /\ since[s][l] <= flushed[l] - 1
         /\ UpTo(s, l, flushed[l] - 1)
<1>1. SnapshotsTaken(l) = flushed[l] /\ ToBeOffered(l, s)
  BY DEF Offer, SnapshotsTaken, ToBeOffered
<1>2. since[s][l] \in Nat /\ flushed[l] \in Nat
  BY DEF FanoutInv, Shape, TypeOK
<1>3. PICK last \in since[s][l]..SnapshotsTaken(l) :
        UpTo(s, l, last) /\ last = SnapshotsTaken(l) - 1
  BY <1>1 DEF FanoutInv, Complete
<1> QED
  BY <1>1, <1>2, <1>3

LEMMA OfferInv ==
  ASSUME FanoutInv, NEW l \in Loops, Offer(l)
  PROVE  FanoutInv'
<1>1. Shape' /\ Shape
  BY OfferShape DEF FanoutInv
<1>2. PICK t \in Subs : at[l] = t
  BY <1>1 DEF Shape, TypeOK, Offer
<1>3. /\ bpc[l] = "offer"
      /\ UNCHANGED <<members, writing, received, since, flushed, targets, history, overlapped>>
      /\ \A b \in Loops \ {l} : bpc'[b] = bpc[b] /\ at'[b] = at[b]
      /\ bpc'[l] = "next" /\ at'[l] = None /\ t \notin targets[l]
      /\ \A s \in Subs \ {t} : queue'[s] = queue[s]
  BY <1>1, <1>2 DEF Offer, orderVars, Shape, TypeOK, LoopInv
<1>4. \A s \in Subs \ {t} : Stream(s)' = Stream(s)
  BY <1>3 DEF Stream
<1>5. /\ Len(Stream(t)') = Len(Stream(t)) + 1
      /\ \A i \in 1..Len(Stream(t)) : Stream(t)'[i] = Stream(t)[i]
      /\ Stream(t)'[Len(Stream(t)) + 1] = <<l, flushed[l]>>
      /\ Len(Stream(t)) \in Nat
      /\ Stream(t) \in Seq(Chunks)
  BY <1>1, <1>2, OfferAppends, StreamType DEF Chunk, Shape
<1>6. /\ \A b \in Loops : SnapshotsTaken(b)' = SnapshotsTaken(b)
      /\ \A b \in Loops, s \in Subs : ToBeOffered(b, s)' => ToBeOffered(b, s)
      /\ \A b \in Loops, s \in Subs : <<b, s>> # <<l, t>> => (OnItsWay(b, s)' <=> OnItsWay(b, s))
      /\ OnItsWay(l, t) /\ ToBeOffered(l, t)
      /\ ~OnItsWay(l, t)' /\ ~ToBeOffered(l, t)'
      /\ SnapshotsTaken(l) = flushed[l]
  BY <1>2, <1>3, FanoutAssumption DEF SnapshotsTaken, ToBeOffered, OnItsWay
<1>7. /\ since[t][l] \in Nat /\ flushed[l] \in Nat
      /\ since[t][l] <= flushed[l] - 1
      /\ UpTo(t, l, flushed[l] - 1)
  BY <1>2, OfferedIsNext
<1>8. ASSUME NEW s \in Subs
      PROVE  Rising(s)'
  <2>1. CASE s # t
    BY <1>4, <2>1, RisingKept DEF FanoutInv
  <2>2. CASE s = t
    <3> SUFFICES ASSUME NEW i \in 1..(Len(Stream(t)) + 1), NEW j \in 1..(Len(Stream(t)) + 1),
                        i < j, Stream(t)'[i][1] = Stream(t)'[j][1]
                 PROVE  Stream(t)'[i][2] < Stream(t)'[j][2]
      BY <1>5, <2>2 DEF Rising
    <3>1. i \in 1..Len(Stream(t)) /\ Stream(t)'[i] = Stream(t)[i]
      BY <1>5
    <3>2. CASE j <= Len(Stream(t))
      <4>1. j \in 1..Len(Stream(t)) /\ Stream(t)'[j] = Stream(t)[j]
        BY <1>5, <3>2
      <4> QED
        BY <3>1, <4>1 DEF FanoutInv, Rising
    <3>3. CASE j = Len(Stream(t)) + 1
      <4>1. Stream(t)'[j] = <<l, flushed[l]>>
        BY <1>5, <3>3
      <4>2. Stream(t)[i][1] = l
        BY <3>1, <4>1
      <4>3. Stream(t)[i][2] \in Nat
        BY <1>5, <3>1, ElementOfSeq DEF Chunks
      <4>4. Stream(t)[i][2] <= flushed[l] - 1
        BY <1>7, <3>1, <4>2 DEF UpTo
      <4> QED
        BY <1>7, <3>1, <4>1, <4>3, <4>4
    <3> QED
      BY <1>5, <3>2, <3>3
  <2> QED
    BY <2>1, <2>2
<1>9. ASSUME NEW s \in Subs, NEW b \in Loops
      PROVE  Complete(s, b)'
  <2>1. CASE s # t
    BY <1>3, <1>4, <1>6, <2>1, CompleteKept DEF FanoutInv
  <2>2. CASE s = t /\ b # l
    <3>1. PICK last \in since[s][b]..SnapshotsTaken(b) :
            /\ UpTo(s, b, last)
            /\ ToBeOffered(b, s) => last = SnapshotsTaken(b) - 1
            /\ s \in members => last = SnapshotsTaken(b) - (IF OnItsWay(b, s) THEN 1 ELSE 0)
      BY DEF FanoutInv, Complete
    <3>2. \A i \in 1..Len(Stream(s)') :
            Stream(s)'[i][1] = b => Stream(s)'[i][2] > since[s][b] /\ Stream(s)'[i][2] <= last
      <4> TAKE i \in 1..Len(Stream(s)')
      <4>1. CASE i <= Len(Stream(s))
        <5>1. i \in 1..Len(Stream(s)) /\ Stream(s)'[i] = Stream(s)[i]
          BY <1>5, <2>2, <4>1
        <5> QED
          BY <3>1, <5>1 DEF UpTo
      <4>2. CASE i = Len(Stream(s)) + 1
        BY <1>5, <2>2, <4>2
      <4> QED
        BY <1>5, <2>2, <4>1, <4>2
    <3>3. \A n \in (since[s][b] + 1)..last : \E i \in 1..Len(Stream(s)') : Stream(s)'[i] = <<b, n>>
      <4> TAKE n \in (since[s][b] + 1)..last
      <4>1. PICK i \in 1..Len(Stream(s)) : Stream(s)[i] = <<b, n>>
        BY <3>1 DEF UpTo
      <4>2. i \in 1..Len(Stream(s)') /\ Stream(s)'[i] = <<b, n>>
        BY <1>5, <2>2, <4>1
      <4> QED
        BY <4>2
    <3>4. UpTo(s, b, last)'
      BY <1>3, <3>2, <3>3 DEF UpTo
    <3>5. s \in members' => last = SnapshotsTaken(b)' - (IF OnItsWay(b, s)' THEN 1 ELSE 0)
      BY <1>3, <1>6, <2>2, <3>1
    <3>6. ToBeOffered(b, s)' => last = SnapshotsTaken(b)' - 1
      BY <1>6, <3>1
    <3>7. last \in since'[s][b]..SnapshotsTaken(b)'
      BY <1>3, <1>6, <3>1
    <3> QED
      BY <3>4, <3>5, <3>6, <3>7 DEF Complete
  <2>3. CASE s = t /\ b = l
    <3>1. PICK last \in Nat : last = flushed[l]
      BY <1>7
    <3>2. \A i \in 1..Len(Stream(t)') :
            Stream(t)'[i][1] = l => Stream(t)'[i][2] > since[t][l] /\ Stream(t)'[i][2] <= last
      <4> TAKE i \in 1..Len(Stream(t)')
      <4>1. CASE i <= Len(Stream(t))
        <5>1. i \in 1..Len(Stream(t)) /\ Stream(t)'[i] = Stream(t)[i]
          BY <1>5, <4>1
        <5>2. Stream(t)[i][2] \in Nat
          BY <1>5, <5>1, ElementOfSeq DEF Chunks
        <5>3. Stream(t)[i][1] = l => Stream(t)[i][2] > since[t][l] /\ Stream(t)[i][2] <= flushed[l] - 1
          BY <1>7, <5>1 DEF UpTo
        <5> QED
          BY <1>7, <3>1, <5>1, <5>2, <5>3
      <4>2. CASE i = Len(Stream(t)) + 1
        BY <1>5, <1>7, <3>1, <4>2
      <4> QED
        BY <1>5, <4>1, <4>2
    <3>3. \A n \in (since[t][l] + 1)..last : \E i \in 1..Len(Stream(t)') : Stream(t)'[i] = <<l, n>>
      <4> TAKE n \in (since[t][l] + 1)..last
      <4>1. CASE n = last
        BY <1>5, <3>1, <4>1
      <4>2. CASE n # last
        <5>1. n \in (since[t][l] + 1)..(flushed[l] - 1)
          BY <1>7, <3>1, <4>2
        <5>2. PICK i \in 1..Len(Stream(t)) : Stream(t)[i] = <<l, n>>
          BY <1>7, <5>1 DEF UpTo
        <5> QED
          BY <1>5, <5>2
      <4> QED
        BY <4>1, <4>2
    <3>4. UpTo(s, b, last)'
      BY <1>3, <2>3, <3>2, <3>3 DEF UpTo
    <3>5. /\ last \in since'[s][b]..SnapshotsTaken(b)'
          /\ last = SnapshotsTaken(b)' - (IF OnItsWay(b, s)' THEN 1 ELSE 0)
          /\ ~ToBeOffered(b, s)'
      BY <1>3, <1>6, <1>7, <2>3, <3>1
    <3> QED
      BY <3>4, <3>5 DEF Complete
  <2> QED
    BY <2>1, <2>2, <2>3
<1>10. ASSUME ~overlapped'
       PROVE  OneAtATime' /\ \A s \in Subs : Follows(s)'
  <2>1. OneAtATime /\ ~overlapped
    BY <1>3, <1>10 DEF FanoutInv
  <2>2. \A b \in Loops : Chunk(b)' = Chunk(b)
    BY <1>3 DEF Chunk
  <2>3. OneAtATime'
    BY <1>3, <2>1, <2>2 DEF OneAtATime
  <2>4. \A b \in Loops \ {l} : bpc[b] = "idle" /\ at[b] = None /\ targets[b] = {}
    BY <1>1, <1>3, <2>1 DEF OneAtATime, Shape, LoopInv
  <2>5. \A b \in Loops \ {l}, s \in Subs : ~ToBeOffered(b, s) /\ ~OnItsWay(b, s)
    BY <2>4, FanoutAssumption DEF ToBeOffered, OnItsWay
  <2>6. ASSUME NEW s \in Subs, s # t
        PROVE  Follows(s)'
    <3>1. Newest(s)' = Newest(s)
      BY <1>3, <1>6, <2>6 DEF Newest
    <3> QED
      BY <1>3, <1>4, <1>6, <2>1, <2>6, <3>1, FollowsKept DEF FanoutInv
  <2>7. Follows(t)'
    <3>1. /\ Len(history) \in Nat /\ Len(history) > 0
          /\ history[Len(history)] = <<l, flushed[l]>>
      BY <1>1, <1>3, <2>1, LenProperties DEF OneAtATime, Chunk, Shape, TypeOK
    <3>2. PICK e \in Len(Stream(t))..Len(history) : Stretch(t, e) /\ e = Len(history) - 1
      BY <1>6, <2>1 DEF FanoutInv, Follows
    <3>3. PICK f \in Nat : f = Len(history)
      BY <3>1
    <3>4. Stretch(t, f)'
      <4> SUFFICES ASSUME NEW i \in 1..(Len(Stream(t)) + 1)
                   PROVE  Stream(t)'[i] = history[f - (Len(Stream(t)) + 1) + i]
        BY <1>3, <1>5 DEF Stretch
      <4>1. CASE i <= Len(Stream(t))
        <5>1. i \in 1..Len(Stream(t)) /\ Stream(t)'[i] = Stream(t)[i]
          BY <1>5, <4>1
        <5>2. f - (Len(Stream(t)) + 1) + i = e - Len(Stream(t)) + i
          BY <1>5, <3>2, <3>3
        <5> QED
          BY <3>2, <5>1, <5>2 DEF Stretch
      <4>2. CASE i = Len(Stream(t)) + 1
        <5>1. f - (Len(Stream(t)) + 1) + i = Len(history)
          BY <1>5, <3>1, <3>3, <4>2
        <5> QED
          BY <1>5, <3>1, <4>2, <5>1
      <4> QED
        BY <1>5, <4>1, <4>2
    <3>5. ~(\E b \in Loops : ToBeOffered(b, t)')
      BY <1>6, <2>5
    <3>6. Newest(t)' = Len(history)
      <4>1. \A b \in Loops : bpc'[b] # "snapshot" /\ ~OnItsWay(b, t)'
        BY <1>3, <1>6, <2>4, <2>5
      <4> QED
        BY <1>3, <3>1, <4>1 DEF Newest
    <3>7. f \in Len(Stream(t)')..Len(history') /\ (t \in members' => f = Newest(t)')
      BY <1>3, <1>5, <3>2, <3>3, <3>6
    <3> QED
      BY <3>4, <3>5, <3>7 DEF Follows
  <2> QED
    BY <2>3, <2>6, <2>7
<1> QED
  BY <1>1, <1>8, <1>9, <1>10 DEF FanoutInv

-----------------------------------------------------------------------------
LEMMA InitInv == Init => FanoutInv
<1> SUFFICES ASSUME Init
             PROVE  FanoutInv
  OBVIOUS
<1>1. Shape
  <2>1. TypeOK
    <3>1. \A S : <<>> \in Seq(S)
      BY EmptySeq
    <3>2. \A s \in Subs : Len(queue[s]) <= QueueSize
      BY FanoutAssumption, EmptySeq DEF Init
    <3>3. \A b \in Loops : bpc[b] = "idle"
      BY DEF Init
    <3> QED
      BY <3>1, <3>2, <3>3 DEF Init, TypeOK
  <2>2. ASSUME NEW s \in Subs
        PROVE  SubInv(s)
    BY FanoutAssumption DEF Init, SubInv
  <2>3. ASSUME NEW b \in Loops
        PROVE  LoopInv(b)
    BY DEF Init, LoopInv
  <2> QED
    BY <2>1, <2>2, <2>3 DEF Shape
<1>2. \A s \in Subs : Stream(s) = <<>>
  BY DEF Init, Stream
<1>3. \A s \in Subs, b \in Loops : ~ToBeOffered(b, s) /\ s \notin members
  BY FanoutAssumption DEF Init, ToBeOffered
<1>4. ASSUME NEW s \in Subs
      PROVE  Rising(s)
  BY <1>2 DEF Rising
<1>5. ASSUME NEW s \in Subs, NEW b \in Loops
      PROVE  Complete(s, b)
  <2>1. since[s][b] = 0 /\ SnapshotsTaken(b) = 0
    BY DEF Init, SnapshotsTaken
  <2>2. UpTo(s, b, 0)
    BY <1>2, <2>1 DEF UpTo
  <2> QED
    BY <1>3, <2>1, <2>2 DEF Complete
<1>6. OneAtATime
  BY DEF Init, OneAtATime
<1>7. ASSUME NEW s \in Subs
      PROVE  Follows(s)
  <2>1. Len(Stream(s)) = 0 /\ Len(history) = 0
    BY <1>2 DEF Init
  <2>2. Stretch(s, 0) /\ 0 \in Len(Stream(s))..Len(history)
    BY <2>1 DEF Stretch
  <2>3. ~(\E b \in Loops : ToBeOffered(b, s)) /\ s \notin members
    BY <1>3 DEF Init
  <2> QED
    BY <2>2, <2>3 DEF Follows
<1> QED
  BY <1>1, <1>4, <1>5, <1>6, <1>7 DEF FanoutInv

LEMMA NextInv == FanoutInv /\ [Next]_vars => FanoutInv'
<1> SUFFICES ASSUME FanoutInv, [Next]_vars
             PROVE  FanoutInv'
  OBVIOUS
<1>1. ASSUME NEW t \in Subs, Subscribe(t)
      PROVE  FanoutInv'
  BY <1>1, SubscribeInv
<1>2. ASSUME NEW t \in Subs, WriterTakes(t)
      PROVE  FanoutInv'
  BY <1>2, WriterTakesInv
<1>3. ASSUME NEW t \in Subs, WriterDone(t)
      PROVE  FanoutInv'
  BY <1>3, WriterDoneInv
<1>4. ASSUME NEW t \in Subs, WriteSucceeds(t)
      PROVE  FanoutInv'
  BY <1>4, WriteSucceedsInv
<1>5. ASSUME NEW t \in Subs, WriteFails(t)
      PROVE  FanoutInv'
  BY <1>5, WriteFailsInv
<1>6. ASSUME NEW t \in Subs, WriterDeletes(t)
      PROVE  FanoutInv'
  BY <1>6, WriterDeletesInv
<1>7. ASSUME NEW t \in Subs, WriterStops(t)
      PROVE  FanoutInv'
  BY <1>7, WriterStopsInv
<1>8. ASSUME NEW t \in Subs, HandlerLeaves(t)
      PROVE  FanoutInv'
  BY <1>8, HandlerLeavesInv
<1>9. ASSUME NEW t \in Subs, HandlerDeletes(t)
      PROVE  FanoutInv'
  BY <1>9, HandlerDeletesInv
<1>10. ASSUME NEW t \in Subs, HandlerStops(t)
       PROVE  FanoutInv'
  BY <1>10, HandlerStopsInv
<1>11. ASSUME NEW t \in Subs, CloseOne(t)
       PROVE  FanoutInv'
  BY <1>11, CloseOneInv
<1>12. ASSUME NEW l \in Loops, BeginFlush(l)
       PROVE  FanoutInv'
  BY <1>12, BeginFlushInv
<1>13. ASSUME NEW l \in Loops, Record(l)
       PROVE  FanoutInv'
  BY <1>13, RecordInv
<1>14. ASSUME NEW l \in Loops, Snapshot(l)
       PROVE  FanoutInv'
  BY <1>14, SnapshotInv
<1>15. ASSUME NEW l \in Loops, NextTarget(l)
       PROVE  FanoutInv'
  BY <1>15, NextTargetInv
<1>16. ASSUME NEW l \in Loops, Check(l)
       PROVE  FanoutInv'
  BY <1>16, CheckInv
<1>17. ASSUME NEW l \in Loops, Offer(l)
       PROVE  FanoutInv'
  BY <1>17, OfferInv
<1>18. ASSUME NEW l \in Loops, OfferFails(l)
       PROVE  FanoutInv'
  BY <1>18, OfferFailsInv
<1>19. ASSUME NEW l \in Loops, BroadcastDeletes(l)
       PROVE  FanoutInv'
  BY <1>19, BroadcastDeletesInv
<1>20. ASSUME NEW l \in Loops, BroadcastStops(l)
       PROVE  FanoutInv'
  BY <1>20, BroadcastStopsInv
<1>21. CASE BeginClose
  BY <1>21, BeginCloseInv
<1>22. CASE EndClose
  BY <1>22, EndCloseInv
<1>23. CASE UNCHANGED vars
  <2>1. UNCHANGED <<loopVars, since>> /\ members' \subseteq members
    BY <1>23 DEF vars, subVars
  <2>2. \A s \in Subs : Stream(s)' = Stream(s)
    BY <1>23 DEF vars, subVars, Stream
  <2>3. Shape'
    <3>1. TypeOK'
      BY <1>23 DEF FanoutInv, Shape, TypeOK, vars, subVars, loopVars, orderVars, closeVars
    <3>2. ASSUME NEW s \in Subs
          PROVE  SubInv(s)'
      BY <1>23 DEF FanoutInv, Shape, SubInv, vars, subVars, loopVars, orderVars, closeVars
    <3>3. ASSUME NEW b \in Loops
          PROVE  LoopInv(b)'
      BY <1>23 DEF FanoutInv, Shape, LoopInv, vars, subVars, loopVars, orderVars, closeVars
    <3> QED
      BY <3>1, <3>2, <3>3 DEF Shape
  <2> QED
    BY <2>1, <2>2, <2>3, ConnectionStep
<1> QED
  BY <1>1, <1>2, <1>3, <1>4, <1>5, <1>6, <1>7, <1>8, <1>9, <1>10, <1>11, <1>12, <1>13,
     <1>14, <1>15, <1>16, <1>17, <1>18, <1>19, <1>20, <1>21, <1>22, <1>23
  DEF Next, WriterStep, HandlerStep, BroadcastStep, CloseStep

-----------------------------------------------------------------------------
(* Theorems.                                                               *)

LEMMA InvAlways == Spec => []FanoutInv
BY InitInv, NextInv, PTL DEF Spec, Safety

\* The variables of the fan-out keep their types, and no queue is ever longer than
\* subscriberQueueSize, for any number of connections and read loops.
THEOREM TypeCorrect == Spec => []TypeOK
<1>1. FanoutInv => TypeOK
  BY DEF FanoutInv, Shape
<1> QED
  BY <1>1, InvAlways, PTL

LEMMA InvImpliesNoGap == FanoutInv => NoGap
<1> SUFFICES ASSUME FanoutInv, NEW s \in Subs, NEW b \in Loops
             PROVE  /\ \A i, j \in 1..Len(Stream(s)) :
                         i < j /\ Stream(s)[i][1] = Stream(s)[j][1] => Stream(s)[i][2] < Stream(s)[j][2]
                    /\ \E last \in since[s][b]..SnapshotsTaken(b) :
                         /\ NumbersOf(b, Stream(s)) = (since[s][b] + 1)..last
                         /\ s \in members =>
                              ~done[s] /\ last = SnapshotsTaken(b) - (IF OnItsWay(b, s) THEN 1 ELSE 0)
  BY DEF NoGap
<1>1. Shape
  BY DEF FanoutInv
<1>2. \A i, j \in 1..Len(Stream(s)) :
        i < j /\ Stream(s)[i][1] = Stream(s)[j][1] => Stream(s)[i][2] < Stream(s)[j][2]
  BY DEF FanoutInv, Rising
<1>3. PICK last \in since[s][b]..SnapshotsTaken(b) :
        /\ UpTo(s, b, last)
        /\ s \in members => last = SnapshotsTaken(b) - (IF OnItsWay(b, s) THEN 1 ELSE 0)
  BY DEF FanoutInv, Complete
<1>4. s \in members => ~done[s]
  BY <1>1 DEF Shape, SubInv
<1>5. /\ since[s][b] \in Nat /\ flushed[b] \in Nat
      /\ SnapshotsTaken(b) \in Nat /\ SnapshotsTaken(b) <= flushed[b]
  <2>1. since[s][b] \in Nat /\ flushed[b] \in Nat
    BY <1>1 DEF Shape, TypeOK
  <2> QED
    BY <1>1, <2>1, SnapshotsTakenType DEF SnapshotsTaken
<1>6. ASSUME NEW n \in NumbersOf(b, Stream(s))
      PROVE  n \in (since[s][b] + 1)..last
  <2>1. n \in Nat /\ \E i \in 1..Len(Stream(s)) : Stream(s)[i] = <<b, n>>
    BY DEF NumbersOf
  <2>2. n > since[s][b] /\ n <= last
    BY <1>3, <2>1 DEF UpTo
  <2> QED
    BY <1>3, <1>5, <2>1, <2>2
<1>7. ASSUME NEW n \in (since[s][b] + 1)..last
      PROVE  n \in NumbersOf(b, Stream(s))
  <2>1. n \in 1..flushed[b]
    BY <1>3, <1>5
  <2>2. \E i \in 1..Len(Stream(s)) : Stream(s)[i] = <<b, n>>
    BY <1>3 DEF UpTo
  <2> QED
    BY <2>1, <2>2 DEF NumbersOf
<1>8. NumbersOf(b, Stream(s)) = (since[s][b] + 1)..last
  BY <1>6, <1>7
<1> QED
  BY <1>2, <1>3, <1>4, <1>8

\* However subscribers, broadcasts and Close interleave, what a client was queued of
\* a read loop is in order and complete from its first broadcast on, and while it is
\* in the map nothing but the chunk on its way is missing.
THEOREM NothingMissed == Spec => []NoGap
BY InvAlways, InvImpliesNoGap, PTL

LEMMA InvImpliesStreamFollowsHistory == FanoutInv => StreamFollowsHistory
<1> SUFFICES ASSUME FanoutInv, ~overlapped, NEW s \in Subs
             PROVE  \E i \in 0..(Len(history) - Len(Stream(s))) :
                      Stream(s) = SubSeq(history, i + 1, i + Len(Stream(s)))
  BY DEF StreamFollowsHistory
<1>1. /\ Stream(s) \in Seq(Chunks) /\ Len(Stream(s)) \in Nat
      /\ history \in Seq(Chunks) /\ Len(history) \in Nat
  BY StreamType, LenProperties DEF FanoutInv, Shape, TypeOK, Chunks
<1>2. PICK e \in Len(Stream(s))..Len(history) : Stretch(s, e)
  BY DEF FanoutInv, Follows
<1>3. PICK i \in 0..(Len(history) - Len(Stream(s))) : i = e - Len(Stream(s))
  BY <1>1, <1>2
<1> DEFINE sub == SubSeq(history, i + 1, i + Len(Stream(s)))
<1>4. \A k \in (i + 1)..(i + Len(Stream(s))) : history[k] \in Chunks
  <2> TAKE k \in (i + 1)..(i + Len(Stream(s)))
  <2>1. k \in 1..Len(history)
    BY <1>1, <1>3
  <2> QED
    BY <1>1, <2>1, ElementOfSeq
<1>5. /\ sub \in Seq(Chunks)
      /\ Len(sub) = Len(Stream(s))
      /\ \A k \in 1..Len(Stream(s)) : sub[k] = history[i + k]
  <2>1. i + 1 \in Int /\ i + Len(Stream(s)) \in Int
    BY <1>1, <1>3
  <2>2. /\ sub \in Seq(Chunks)
        /\ Len(sub) = IF i + 1 <= i + Len(Stream(s))
                      THEN i + Len(Stream(s)) - (i + 1) + 1 ELSE 0
        /\ \A k \in 1..(i + Len(Stream(s)) - (i + 1) + 1) : sub[k] = history[i + 1 + k - 1]
    BY <1>4, <2>1, SubSeqProperties
  <2>3. /\ i + Len(Stream(s)) - (i + 1) + 1 = Len(Stream(s))
        /\ ~(i + 1 <= i + Len(Stream(s))) => Len(Stream(s)) = 0
        /\ \A k \in 1..Len(Stream(s)) : i + 1 + k - 1 = i + k
    BY <1>1, <1>3
  <2> HIDE DEF sub
  <2>4. sub \in Seq(Chunks) /\ Len(sub) = Len(Stream(s))
    BY <2>2, <2>3
  <2> QED
    BY <2>2, <2>3, <2>4
<1>6. \A k \in 1..Len(Stream(s)) : Stream(s)[k] = history[i + k]
  BY <1>1, <1>2, <1>3 DEF Stretch
<1>7. Stream(s) = sub
  <2> HIDE DEF sub
  <2> QED
    BY <1>1, <1>5, <1>6, SeqEqual
<1> QED
  BY <1>7

\* As long as no two read loops are in flush at once, what a client was queued is a
\* stretch of the history, in the order of its record numbers.
THEOREM InHistoryOrder == Spec => []StreamFollowsHistory
BY InvAlways, InvImpliesStreamFollowsHistory, PTL

-----------------------------------------------------------------------------
(* A broadcast comes to its end.                                           *)

\* The map of subscribers and the snapshots of it are finite.
FiniteInv == IsFiniteSet(members) /\ \A b \in Loops : IsFiniteSet(targets[b])

LEMMA InitFinite == Init => FiniteInv
BY FS_EmptySet DEF Init, FiniteInv

LEMMA NextFinite == FanoutInv /\ FiniteInv /\ [Next]_vars => FiniteInv'
<1> SUFFICES ASSUME FanoutInv, FiniteInv, [Next]_vars
             PROVE  FiniteInv'
  OBVIOUS
<1>1. TypeOK
  BY DEF FanoutInv, Shape
<1>2. ASSUME NEW t \in Subs, Subscribe(t)
      PROVE  FiniteInv'
  BY <1>2, FS_AddElement DEF Subscribe, FiniteInv, loopVars
<1>3. ASSUME NEW t, members' = members \ {t}, UNCHANGED targets
      PROVE  FiniteInv'
  BY <1>3, FS_RemoveElement DEF FiniteInv
<1>4. ASSUME UNCHANGED <<members, targets>>
      PROVE  FiniteInv'
  BY <1>4 DEF FiniteInv
<1>5. ASSUME NEW t \in Subs, WriterStep(t)
      PROVE  FiniteInv'
  BY <1>3, <1>4, <1>5 DEF WriterStep, WriterTakes, WriterDone, WriteSucceeds, WriteFails,
     WriterDeletes, WriterStops, Delete, loopVars
<1>6. ASSUME NEW t \in Subs, HandlerStep(t)
      PROVE  FiniteInv'
  BY <1>3, <1>4, <1>6 DEF HandlerStep, HandlerLeaves, HandlerDeletes, HandlerStops, Delete, loopVars
<1>7. ASSUME NEW l \in Loops, Snapshot(l)
      PROVE  FiniteInv'
  BY <1>1, <1>7 DEF Snapshot, TypeOK, FiniteInv, subVars
<1>8. ASSUME NEW l \in Loops, NextTarget(l)
      PROVE  FiniteInv'
  <2>1. \/ UNCHANGED targets
        \/ \E s \in targets[l] : targets' = [targets EXCEPT ![l] = @ \ {s}]
    BY <1>8 DEF NextTarget
  <2>2. members' = members
    BY <1>8 DEF NextTarget, subVars
  <2>3. ASSUME NEW b \in Loops
        PROVE  IsFiniteSet(targets'[b])
    <3>1. targets'[b] = targets[b] \/ \E s \in targets[l] : targets'[b] = targets[b] \ {s}
      <4>1. DOMAIN targets = Loops
        BY <1>1 DEF TypeOK
      <4>2. ASSUME NEW s \in targets[l], targets' = [targets EXCEPT ![l] = @ \ {s}]
            PROVE  targets'[b] = targets[b] \/ targets'[b] = targets[b] \ {s}
        BY <4>1, <4>2
      <4> QED
        BY <2>1, <4>2, Zenon
    <3>2. IsFiniteSet(targets[b])
      BY DEF FiniteInv
    <3>3. \A s : IsFiniteSet(targets[b] \ {s})
      BY <3>2, FS_RemoveElement
    <3> QED
      BY <3>1, <3>2, <3>3
  <2> QED
    BY <2>2, <2>3 DEF FiniteInv
<1>9. ASSUME NEW l \in Loops,
             \/ BeginFlush(l) \/ Record(l) \/ Check(l) \/ Offer(l) \/ OfferFails(l)
             \/ BroadcastDeletes(l) \/ BroadcastStops(l)
      PROVE  FiniteInv'
  BY <1>3, <1>4, <1>9 DEF BeginFlush, Record, Check, Offer, OfferFails, BroadcastDeletes,
     BroadcastStops, Delete, subVars
<1>10. CASE CloseStep
  BY <1>3, <1>4, <1>10 DEF CloseStep, BeginClose, EndClose, CloseOne, Delete, subVars, loopVars
<1>11. CASE UNCHANGED vars
  BY <1>4, <1>11 DEF vars, subVars, loopVars
<1> QED
  BY <1>2, <1>5, <1>6, <1>7, <1>8, <1>9, <1>10, <1>11 DEF Next, BroadcastStep

Serving == {"next", "check", "offer", "delete", "stop"}

\* No step but the loop's own changes where it is in a broadcast.
LEMMA OthersLeaveIt ==
  ASSUME FanoutInv, [Next]_vars, NEW b \in Loops, ~BroadcastStep(b), bpc[b] \in Serving
  PROVE  UNCHANGED <<bpc[b], targets[b], at[b]>>
<1>1. TypeOK
  BY DEF FanoutInv, Shape
<1>2. ASSUME NEW t \in Subs, Subscribe(t) \/ WriterStep(t) \/ HandlerStep(t)
      PROVE  UNCHANGED <<bpc, targets, at>>
  BY <1>2 DEF Subscribe, WriterStep, WriterTakes, WriterDone, WriteSucceeds, WriteFails,
     WriterDeletes, WriterStops, HandlerStep, HandlerLeaves, HandlerDeletes, HandlerStops, loopVars
<1>3. CASE CloseStep
  BY <1>3 DEF CloseStep, BeginClose, EndClose, CloseOne, loopVars
<1>4. ASSUME NEW l \in Loops, BeginFlush(l)
      PROVE  UNCHANGED <<bpc[b], targets[b], at[b]>>
  <2>1. b # l
    BY <1>4 DEF BeginFlush, Serving
  <2> QED
    BY <1>1, <1>4, <2>1 DEF BeginFlush, TypeOK
<1>5. ASSUME NEW l \in Loops, b # l, BroadcastStep(l)
      PROVE  UNCHANGED <<bpc[b], targets[b], at[b]>>
  <2> USE <1>1, <1>5 DEF TypeOK
  <2>1. CASE Record(l) \/ Snapshot(l)
    BY <2>1 DEF Record, Snapshot
  <2>2. CASE NextTarget(l)
    BY <2>2 DEF NextTarget
  <2>3. CASE Check(l) \/ Offer(l)
    BY <2>3 DEF Check, Offer
  <2>4. CASE OfferFails(l) \/ BroadcastDeletes(l) \/ BroadcastStops(l)
    BY <2>4 DEF OfferFails, BroadcastDeletes, BroadcastStops
  <2> QED
    BY <2>1, <2>2, <2>3, <2>4 DEF BroadcastStep
<1>6. CASE UNCHANGED vars
  BY <1>6 DEF vars, loopVars
<1> QED
  BY <1>2, <1>3, <1>4, <1>5, <1>6 DEF Next

LEMMA OwnStepIsNearer ==
  ASSUME FanoutInv, FiniteInv, NEW b \in Loops, BroadcastStep(b), bpc[b] \in Serving
  PROVE  StepsLeft(b)' < StepsLeft(b)
<1>1. TypeOK
  BY DEF FanoutInv, Shape
<1>2. Cardinality(targets[b]) \in Nat
  BY FS_CardinalityType DEF FiniteInv
<1> DEFINE n == Cardinality(targets[b])
           m == Cardinality(targets'[b])
<1>3. CASE NextTarget(b) /\ targets[b] = {}
  <2>1. bpc[b] = "next" /\ bpc'[b] = "idle" /\ targets'[b] = targets[b]
    BY <1>1, <1>3 DEF NextTarget, TypeOK
  <2>2. StepsLeft(b) = 5 * n + 1 /\ StepsLeft(b)' = 5 * n + 0
    BY <2>1 DEF StepsLeft
  <2> QED
    BY <1>2, <2>2
<1>4. CASE NextTarget(b) /\ targets[b] # {}
  <2>1. bpc[b] = "next" /\ bpc'[b] = "check"
    BY <1>1, <1>4 DEF NextTarget, TypeOK
  <2>2. PICK s \in targets[b] : targets' = [targets EXCEPT ![b] = @ \ {s}]
    BY <1>4 DEF NextTarget
  <2>3. targets'[b] = targets[b] \ {s}
    BY <1>1, <2>2 DEF TypeOK
  <2>4. m = n - 1
    BY <2>3, FS_RemoveElement DEF FiniteInv
  <2>5. StepsLeft(b) = 5 * n + 1 /\ StepsLeft(b)' = 5 * m + 5
    BY <2>1 DEF StepsLeft
  <2> HIDE DEF n, m
  <2>6. n \in Nat
    BY <1>2 DEF n
  <2> QED
    BY <2>4, <2>5, <2>6, <1>2
<1>5. CASE \/ Check(b) \/ Offer(b) \/ OfferFails(b) \/ BroadcastDeletes(b) \/ BroadcastStops(b)
  <2>1. targets'[b] = targets[b]
    BY <1>5 DEF Check, Offer, OfferFails, BroadcastDeletes, BroadcastStops
  <2>2. \/ bpc[b] = "check" /\ bpc'[b] \in {"offer", "delete"}
        \/ bpc[b] = "offer" /\ bpc'[b] \in {"next", "delete"}
        \/ bpc[b] = "delete" /\ bpc'[b] = "stop"
        \/ bpc[b] = "stop" /\ bpc'[b] = "next"
    BY <1>1, <1>5 DEF Check, Offer, OfferFails, AfterRefusal, BroadcastDeletes, BroadcastStops, TypeOK
  <2> HIDE DEF n
  <2>3. n \in Nat
    BY <1>2 DEF n
  <2>4. /\ StepsLeft(b) = n * 5 + CASE bpc[b] = "check"  -> 5
                                    [] bpc[b] = "offer"  -> 4
                                    [] bpc[b] = "delete" -> 3
                                    [] bpc[b] = "stop"   -> 2
                                    [] bpc[b] = "next"   -> 1
                                    [] OTHER             -> 0
        /\ StepsLeft(b)' = n * 5 + CASE bpc'[b] = "check"  -> 5
                                     [] bpc'[b] = "offer"  -> 4
                                     [] bpc'[b] = "delete" -> 3
                                     [] bpc'[b] = "stop"   -> 2
                                     [] bpc'[b] = "next"   -> 1
                                     [] OTHER             -> 0
    BY <1>2, <2>1 DEF StepsLeft, n
  <2> QED
    BY <2>2, <2>3, <2>4
<1> QED
  BY <1>3, <1>4, <1>5 DEF BroadcastStep, Record, Snapshot, Serving

\* broadcast and enqueue: for any number of subscribers, whatever their connections
\* do, a broadcast offers or refuses its chunk without waiting and is over after at
\* most five steps for each subscriber of its snapshot and one more.
THEOREM BroadcastEnds == Spec => BroadcastNeverWaits
<1>1. ASSUME FanoutInv, FiniteInv, [Next]_vars, NEW b \in Loops,
             bpc[b] \in {"next", "check", "offer", "delete", "stop"}
      PROVE  StepsLeft(b)' < StepsLeft(b) \/ UNCHANGED <<bpc[b], targets[b], at[b]>>
  BY <1>1, OwnStepIsNearer, OthersLeaveIt DEF Serving
<1>2. \A b \in Loops : bpc[b] = "offer" => HasRoom(at[b]) \/ MayGiveUp(at[b])
  BY DEF MayGiveUp
<1>3. FanoutInv /\ FiniteInv /\ [Next]_vars
        => [\A b \in Loops :
              /\ bpc[b] = "offer" => HasRoom(at[b]) \/ MayGiveUp(at[b])
              /\ bpc[b] \in {"next", "check", "offer", "delete", "stop"} =>
                   StepsLeft(b)' < StepsLeft(b) \/ UNCHANGED <<bpc[b], targets[b], at[b]>>]_vars
  BY <1>1, <1>2
<1> QED
  BY <1>3, InitFinite, NextFinite, InvAlways, PTL DEF Spec, Safety, BroadcastNeverWaits

-----------------------------------------------------------------------------
(* A subscriber that was taken out of the map.                             *)

\* Who took it out and has not stopped it yet is about to: no way out of the map
\* forgets the stop that ends the connection and its writer (Unsubscribe).
StopIsUnderWay ==
  \A s \in Subs : handler[s] # "none" /\ s \notin members /\ ~done[s] =>
    \/ handler[s] = "stop" \/ writer[s] = "stop"
    \/ \E b \in Loops : bpc[b] = "stop" /\ at[b] = s

\* It never comes back.
RemovedForGood ==
  [][\A s \in Subs : handler[s] # "none" /\ s \notin members
       => handler'[s] # "none" /\ s \notin members']_vars

LEMMA StopStaysUnderWay == FanoutInv /\ StopIsUnderWay /\ [Next]_vars => StopIsUnderWay'
<1> SUFFICES ASSUME FanoutInv, StopIsUnderWay, [Next]_vars, NEW s \in Subs,
                    handler'[s] # "none", s \notin members', ~done'[s]
             PROVE  \/ handler'[s] = "stop" \/ writer'[s] = "stop"
                    \/ \E b \in Loops : bpc'[b] = "stop" /\ at'[b] = s
  BY DEF StopIsUnderWay
<1>1. TypeOK /\ (\A b \in Loops : LoopInv(b))
  BY DEF FanoutInv, Shape
<1> USE <1>1 DEF TypeOK
<1> DEFINE Goal == \/ handler'[s] = "stop" \/ writer'[s] = "stop"
                   \/ \E b \in Loops : bpc'[b] = "stop" /\ at'[b] = s
<1> DEFINE Kept == /\ handler[s] # "none" /\ s \notin members /\ ~done[s]
                   /\ handler[s] = "stop" => handler'[s] = "stop"
                   /\ writer[s] = "stop" => writer'[s] = "stop"
                   /\ \A b \in Loops : bpc[b] = "stop" /\ at[b] = s => bpc'[b] = "stop" /\ at'[b] = s
<1>0. ASSUME Kept
      PROVE  Goal
  BY <1>0 DEF StopIsUnderWay
<1>2. ASSUME NEW t \in Subs, Subscribe(t)
      PROVE  Goal
  BY <1>2 DEF Subscribe, StopIsUnderWay, loopVars
<1>3. ASSUME NEW t \in Subs, WriterStep(t)
      PROVE  Goal
  <2>1. UNCHANGED <<handler, bpc, at>>
    BY <1>3 DEF WriterStep, WriterTakes, WriterDone, WriteSucceeds, WriteFails, WriterDeletes,
       WriterStops, loopVars
  <2>2. CASE WriterTakes(t) \/ WriterDone(t) \/ WriteSucceeds(t) \/ WriteFails(t)
    <3>1. UNCHANGED <<members, done>> /\ (writer[s] = "stop" => writer'[s] = "stop")
      BY <2>2 DEF WriterTakes, WriterDone, WriteSucceeds, WriteFails
    <3> QED
      BY <2>1, <3>1, <1>0
  <2>3. CASE WriterDeletes(t)
    <3>1. /\ members' = members \ {t} /\ done' = done /\ writer'[t] = "stop"
          /\ writer[s] = "stop" => writer'[s] = "stop"
      BY <2>3 DEF WriterDeletes, Delete
    <3>2. CASE s = t
      BY <3>1, <3>2
    <3>3. CASE s # t
      BY <2>1, <3>1, <3>3, <1>0
    <3> QED
      BY <3>2, <3>3
  <2>4. CASE WriterStops(t)
    <3>1. s # t /\ ~done[s] /\ members' = members /\ writer'[s] = writer[s]
      BY <2>4 DEF WriterStops, Stop
    <3> QED
      BY <2>1, <3>1, <1>0
  <2> QED
    BY <1>3, <2>2, <2>3, <2>4 DEF WriterStep
<1>4. ASSUME NEW t \in Subs, HandlerStep(t)
      PROVE  Goal
  <2>1. UNCHANGED <<writer, bpc, at>>
    BY <1>4 DEF HandlerStep, HandlerLeaves, HandlerDeletes, HandlerStops, loopVars
  <2>2. CASE HandlerLeaves(t)
    <3>1. UNCHANGED <<members, done>> /\ handler[s] # "none" /\ (handler[s] = "stop" => handler'[s] = "stop")
      BY <2>2 DEF HandlerLeaves
    <3> QED
      BY <2>1, <3>1, <1>0
  <2>3. CASE HandlerDeletes(t)
    <3>1. /\ members' = members \ {t} /\ done' = done /\ handler'[t] = "stop"
          /\ s # t => handler'[s] = handler[s]
      BY <2>3 DEF HandlerDeletes, Delete
    <3>2. CASE s = t
      BY <3>1, <3>2
    <3>3. CASE s # t
      BY <2>1, <3>1, <3>3, <1>0
    <3> QED
      BY <3>2, <3>3
  <2>4. CASE HandlerStops(t)
    <3>1. s # t /\ ~done[s] /\ members' = members /\ handler'[s] = handler[s]
      BY <2>4 DEF HandlerStops, Stop
    <3> QED
      BY <2>1, <3>1, <1>0
  <2> QED
    BY <1>4, <2>2, <2>3, <2>4 DEF HandlerStep
<1>5. CASE CloseStep
  <2>1. UNCHANGED <<handler, writer, bpc, at>>
    BY <1>5 DEF CloseStep, BeginClose, EndClose, CloseOne, subVars, loopVars
  <2>2. s \notin members /\ ~done[s]
    <3>1. CASE BeginClose \/ EndClose
      BY <3>1 DEF BeginClose, EndClose, subVars
    <3>2. ASSUME NEW t \in Subs, CloseOne(t)
          PROVE  s \notin members /\ ~done[s]
      <4>1. s # t /\ members' = members \ {t} /\ done'[s] = done[s]
        BY <3>2 DEF CloseOne, Delete, Stop
      <4> QED
        BY <4>1
    <3> QED
      BY <1>5, <3>1, <3>2 DEF CloseStep
  <2> QED
    BY <2>1, <2>2, <1>0
<1>6. ASSUME NEW l \in Loops, BeginFlush(l) \/ (BroadcastStep(l) /\ ~BroadcastDeletes(l) /\ ~BroadcastStops(l))
      PROVE  Goal
  <2>1. UNCHANGED <<members, handler, writer, done>>
    BY <1>6 DEF BeginFlush, BroadcastStep, Record, Snapshot, NextTarget, Check, Offer, OfferFails, subVars
  <2>2. \A b \in Loops : bpc[b] = "stop" => bpc'[b] = "stop" /\ at'[b] = at[b]
    BY <1>6 DEF BeginFlush, BroadcastStep, Record, Snapshot, NextTarget, Check, Offer, OfferFails
  <2> QED
    BY <2>1, <2>2, <1>0
<1>7. ASSUME NEW l \in Loops, BroadcastDeletes(l)
      PROVE  Goal
  <2>1. /\ bpc' = [bpc EXCEPT ![l] = "stop"] /\ members' = members \ {at[l]}
        /\ UNCHANGED <<handler, writer, done, at>>
    BY <1>7 DEF BroadcastDeletes, Delete
  <2>2. CASE s = at[l]
    BY <2>1, <2>2
  <2>3. CASE s # at[l]
    BY <2>1, <2>3 DEF StopIsUnderWay
  <2> QED
    BY <2>2, <2>3
<1>8. ASSUME NEW l \in Loops, BroadcastStops(l)
      PROVE  Goal
  <2>1. /\ bpc' = [bpc EXCEPT ![l] = "next"] /\ done' = [done EXCEPT ![at[l]] = TRUE]
        /\ at' = [at EXCEPT ![l] = None] /\ bpc[l] = "stop"
        /\ UNCHANGED <<handler, writer, members>>
    BY <1>8 DEF BroadcastStops, Stop
  <2>2. s # at[l] /\ ~done[s]
    BY <2>1
  <2> QED
    BY <2>1, <2>2 DEF StopIsUnderWay
<1>9. CASE UNCHANGED vars
  BY <1>9 DEF vars, subVars, loopVars, StopIsUnderWay
<1> QED
  BY <1>2, <1>3, <1>4, <1>5, <1>6, <1>7, <1>8, <1>9 DEF Next, BroadcastStep

\* Unsubscribe, in any of its callers: a subscriber out of the map is stopped, or
\* the goroutine that took it out is at the stop.
THEOREM RemovedIsStopped == Spec => []StopIsUnderWay
<1>1. Init => StopIsUnderWay
  BY DEF Init, StopIsUnderWay
<1> QED
  BY <1>1, StopStaysUnderWay, InvAlways, PTL DEF Spec, Safety

\* Subscribe is for a new connection only: what was taken out of the map stays out.
THEOREM RemovedStaysOut == Spec => RemovedForGood
<1>1. FanoutInv /\ [Next]_vars
        => [\A s \in Subs : handler[s] # "none" /\ s \notin members
              => handler'[s] # "none" /\ s \notin members']_vars
  <2> SUFFICES ASSUME FanoutInv, [Next]_vars, NEW s \in Subs, handler[s] # "none", s \notin members
               PROVE  handler'[s] # "none" /\ s \notin members'
    OBVIOUS
  <2>1. TypeOK
    BY DEF FanoutInv, Shape
  <2>2. ASSUME NEW t \in Subs, Subscribe(t)
        PROVE  handler'[s] # "none" /\ s \notin members'
    BY <2>1, <2>2 DEF Subscribe, TypeOK
  <2>3. ASSUME NEW t \in Subs, HandlerStep(t)
        PROVE  handler'[s] # "none" /\ s \notin members'
    BY <2>1, <2>3 DEF HandlerStep, HandlerLeaves, HandlerDeletes, HandlerStops, Delete, TypeOK
  <2>4. ASSUME handler' = handler, members' \subseteq members
        PROVE  handler'[s] # "none" /\ s \notin members'
    BY <2>4
  <2>5. ASSUME NEW t \in Subs, WriterStep(t)
        PROVE  handler' = handler /\ members' \subseteq members
    BY <2>5 DEF WriterStep, WriterTakes, WriterDone, WriteSucceeds, WriteFails, WriterDeletes,
       WriterStops, Delete
  <2>6. ASSUME NEW l \in Loops, BeginFlush(l) \/ BroadcastStep(l)
        PROVE  handler' = handler /\ members' \subseteq members
    BY <2>6 DEF BeginFlush, BroadcastStep, Record, Snapshot, NextTarget, Check, Offer, OfferFails,
       BroadcastDeletes, BroadcastStops, Delete, subVars
  <2>7. CASE CloseStep \/ UNCHANGED vars
    BY <2>4, <2>7 DEF CloseStep, BeginClose, EndClose, CloseOne, Delete, vars, subVars
  <2> QED
    BY <2>2, <2>3, <2>4, <2>5, <2>6, <2>7 DEF Next
<1> QED
  BY <1>1, InvAlways, PTL DEF Spec, Safety, RemovedForGood

=============================================================================
