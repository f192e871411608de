--------------------------- MODULE ReadLoopProofs ---------------------------
(***************************************************************************)
(* Proofs about ReadLoop for any chunk size, channel capacity and number   *)
(* of bytes.  LoopInv says what each place of the loop may assume of       *)
(* pending, data and the timer; the bound on a record needs that nothing   *)
(* longer than a chunk travels through the channel.  OrderInv says where    *)
(* every byte is on its way from the device to the history.                *)
(***************************************************************************)
EXTENDS ReadLoop, SequenceTheorems, WellFoundedInduction, TLAPS

Byte == 1..MaxBytes
Result == [data : Seq(Byte), err : BOOLEAN]

\* Nothing in the channel is longer than the read buffer.
ChunksFit ==
  /\ Len(result.data) <= MaxChunk
  /\ \A i \in 1..Len(reads) : Len(reads[i].data) <= MaxChunk

\* Pending bytes stay below a chunk between two steps of the loop, and there
\* are none while a flush is under way or after the end.
PendingIsShort ==
  /\ pc \in {"select", "exit"} => Len(pending) < MaxChunk
  /\ pc \in {"record", "broadcast", "done"} => pending = <<>>

DataIsBounded == Len(data) < 2 * MaxChunk

\* broadcast is one record behind addRecord, and only within a flush.
OneBehind == IF pc = "broadcast" THEN records = Append(sent, data) ELSE records = sent

LoopInv ==
  /\ TypeOK
  /\ ChunksFit
  /\ PendingIsShort
  /\ DataIsBounded
  /\ OneBehind
  /\ NoStrandedBytes
  /\ RecordsBounded

-----------------------------------------------------------------------------
\* What Flush leaves behind, wherever it is called.
LEMMA FlushSound ==
  ASSUME NEW bytes \in Seq(Byte), NEW otherwise, data = <<>>, Flush(bytes, otherwise)
  PROVE  /\ pending' = <<>>
         /\ data' = bytes
         /\ bytes = <<>> => pc' = otherwise
         /\ bytes # <<>> => pc' = "record"
BY DEF Flush

LEMMA InitInv == Init => LoopInv
<1> SUFFICES ASSUME Init
             PROVE  LoopInv
  OBVIOUS
<1>1. Len(<<>>) = 0 /\ <<>> \in Seq(Byte) /\ <<>> \in Seq(Seq(Byte)) /\ <<>> \in Seq(Result)
  BY EmptySeq
<1>2. TypeOK
  <2>1. NoResult \in Result
    BY <1>1 DEF NoResult, Result
  <2>2. 0 \in 0..MaxBytes
    BY ReadLoopAssumption
  <2> QED
    BY <1>1, <2>1, <2>2 DEF Init, TypeOK, Byte, Result
<1>3. ChunksFit /\ PendingIsShort /\ DataIsBounded /\ OneBehind
  BY <1>1, ReadLoopAssumption
  DEF Init, ChunksFit, PendingIsShort, DataIsBounded, OneBehind, NoResult
<1>4. NoStrandedBytes /\ RecordsBounded
  BY <1>1 DEF Init, NoStrandedBytes, RecordsBounded
<1> QED
  BY <1>2, <1>3, <1>4 DEF LoopInv

LEMMA ReadInv ==
  ASSUME LoopInv, Read
  PROVE  LoopInv'
<1> USE DEF LoopInv
<1>1. PICK n \in 0..MaxChunk, err \in BOOLEAN :
        /\ count + n <= MaxBytes
        /\ result' = [data |-> [i \in 1..n |-> count + i], err |-> err]
        /\ count' = count + n
  BY DEF Read
<1>2. reader' = "sending" /\ UNCHANGED <<device, reads, loopVars>>
  BY DEF Read
<1>3. count \in Nat /\ n \in Nat /\ \A i \in 1..n : count + i \in Byte
  BY <1>1, ReadLoopAssumption DEF TypeOK, Byte
<1>4. [i \in 1..n |-> count + i] \in Seq(Byte) /\ Len([i \in 1..n |-> count + i]) = n
  BY <1>3
<1>5. TypeOK'
  BY <1>1, <1>2, <1>3, <1>4, ReadLoopAssumption DEF TypeOK, loopVars, Byte
<1>6. ChunksFit'
  BY <1>1, <1>2, <1>4, ReadLoopAssumption DEF ChunksFit, loopVars
<1>7. /\ PendingIsShort' /\ DataIsBounded' /\ OneBehind' /\ NoStrandedBytes' /\ RecordsBounded'
  BY <1>2 DEF PendingIsShort, DataIsBounded, OneBehind, NoStrandedBytes, RecordsBounded, loopVars
<1> QED
  BY <1>5, <1>6, <1>7

LEMMA SendInv ==
  ASSUME LoopInv, Send
  PROVE  LoopInv'
<1> USE DEF LoopInv
<1>1. result \in Result /\ reads \in Seq(Result)
  BY DEF TypeOK, Byte, Result
<1>2. /\ reads' = Append(reads, result)
      /\ reader' \in {"done", "reading"}
      /\ result' = NoResult
      /\ UNCHANGED <<device, count, loopVars>>
  BY DEF Send
<1>3. /\ reads' \in Seq(Result)
      /\ Len(reads') = Len(reads) + 1
      /\ \A i \in 1..Len(reads) : reads'[i] = reads[i]
      /\ reads'[Len(reads) + 1] = result
      /\ Len(reads) \in Nat
  BY <1>1, <1>2, AppendProperties, LenProperties
<1>4. NoResult \in Result /\ Len(NoResult.data) = 0
  BY EmptySeq DEF NoResult, Result
<1>5. TypeOK'
  BY <1>2, <1>3, <1>4 DEF TypeOK, loopVars, Byte, Result
<1>6. ChunksFit'
  <2>1. SUFFICES ASSUME NEW i \in 1..Len(reads')
                 PROVE  Len(reads'[i].data) <= MaxChunk
    BY <1>2, <1>4, ReadLoopAssumption DEF ChunksFit
  <2>2. i \in 1..Len(reads) \/ i = Len(reads) + 1
    BY <1>3
  <2> QED
    BY <1>3, <2>2 DEF ChunksFit
<1>7. /\ PendingIsShort' /\ DataIsBounded' /\ OneBehind' /\ NoStrandedBytes' /\ RecordsBounded'
  BY <1>2 DEF PendingIsShort, DataIsBounded, OneBehind, NoStrandedBytes, RecordsBounded, loopVars
<1> QED
  BY <1>5, <1>6, <1>7

LEMMA ReceiveResultInv ==
  ASSUME LoopInv, ReceiveResult
  PROVE  LoopInv'
<1> USE DEF LoopInv
<1> DEFINE r == Head(reads)
           bytes == pending \o r.data
<1>1. pc = "select" /\ reads # <<>> /\ reads' = Tail(reads) /\ ending' = r.err
  BY DEF ReceiveResult
<1>2. UNCHANGED <<readerVars, records, sent>>
  BY DEF ReceiveResult
<1>3. reads \in Seq(Result) /\ pending \in Seq(Byte) /\ MaxChunk \in Nat \ {0}
  BY ReadLoopAssumption DEF TypeOK, Byte, Result
<1>4. /\ r \in Result
      /\ r = reads[1]
      /\ Tail(reads) \in Seq(Result)
      /\ Len(Tail(reads)) = Len(reads) - 1
      /\ \A i \in 1..Len(Tail(reads)) : Tail(reads)[i] = reads[i + 1]
      /\ Len(reads) \in Nat \ {0}
  BY <1>1, <1>3, HeadTailProperties, EmptySeq
<1>5. Len(r.data) <= MaxChunk /\ r.data \in Seq(Byte) /\ r.err \in BOOLEAN
  BY <1>4 DEF ChunksFit, Result
<1>6. bytes \in Seq(Byte) /\ Len(bytes) = Len(pending) + Len(r.data)
  BY <1>3, <1>5, ConcatProperties
<1>7. Len(bytes) < 2 * MaxChunk /\ Len(bytes) \in Nat
  BY <1>1, <1>3, <1>5, <1>6, LenProperties DEF PendingIsShort
<1>8. ChunksFit'
  BY <1>1, <1>2, <1>4 DEF ChunksFit, readerVars
<1>9. data = <<>>
  BY <1>1 DEF TypeOK
<1>10. AfterResult(r.err) \in {"exit", "select"}
  BY <1>5 DEF AfterResult
<1> HIDE DEF r, bytes
<1>11. CASE r.data # <<>> /\ Full(bytes)
  <2>1. Flush(bytes, AfterResult(r.err)) /\ timer' = "nil"
    BY <1>11 DEF ReceiveResult, r, bytes
  <2>2. bytes # <<>>
    BY <1>3, <1>11, EmptySeq DEF Full
  <2>3. pending' = <<>> /\ data' = bytes /\ pc' = "record"
    BY <1>6, <1>9, <2>1, <2>2, FlushSound
  <2>4. TypeOK'
    BY <1>1, <1>2, <1>4, <1>5, <1>6, <2>1, <2>2, <2>3, EmptySeq DEF TypeOK, readerVars, Byte, Result
  <2> QED
    BY <1>1, <1>2, <1>7, <1>8, <2>3, <2>4
    DEF PendingIsShort, DataIsBounded, OneBehind, NoStrandedBytes, RecordsBounded
<1>12. CASE ~(r.data # <<>> /\ Full(bytes))
  <2>1. /\ pc' = AfterResult(r.err)
        /\ pending' = bytes
        /\ timer' = IF r.data # <<>> THEN TimerAfterData ELSE timer
        /\ data' = data
    BY <1>12 DEF ReceiveResult, r, bytes
  <2>2. timer' \in {"nil", "armed", "fired"}
    BY <2>1 DEF TypeOK, TimerAfterData
  <2>3. TypeOK'
    BY <1>1, <1>2, <1>4, <1>5, <1>6, <1>9, <1>10, <2>1, <2>2 DEF TypeOK, readerVars, Byte, Result
  <2>4. Len(bytes) < MaxChunk
    <3>1. CASE r.data = <<>>
      BY <1>1, <1>3, <1>6, <3>1, EmptySeq, LenProperties DEF PendingIsShort
    <3>2. CASE r.data # <<>>
      BY <1>3, <1>7, <1>12, <3>2 DEF Full
    <3> QED
      BY <3>1, <3>2
  <2>5. bytes # <<>> => timer' # "nil"
    <3>1. CASE r.data # <<>>
      BY <2>1, <3>1 DEF TimerAfterData
    <3>2. CASE r.data = <<>>
      <4>1. bytes = pending
        BY <1>3, <3>2, ConcatEmptySeq DEF bytes
      <4> QED
        BY <1>1, <2>1, <3>2, <4>1 DEF NoStrandedBytes
    <3> QED
      BY <3>1, <3>2
  <2>6. PendingIsShort' /\ NoStrandedBytes'
    BY <1>10, <2>1, <2>4, <2>5 DEF PendingIsShort, NoStrandedBytes
  <2>7. DataIsBounded' /\ OneBehind' /\ RecordsBounded'
    BY <1>1, <1>2, <1>10, <2>1 DEF DataIsBounded, OneBehind, RecordsBounded
  <2> QED
    BY <1>8, <2>3, <2>6, <2>7
<1> QED
  BY <1>11, <1>12

LEMMA ReceiveTimerInv ==
  ASSUME LoopInv, ReceiveTimer
  PROVE  LoopInv'
<1> USE DEF LoopInv
<1>1. /\ pc = "select" /\ timer' = "nil" /\ Flush(pending, "select")
      /\ UNCHANGED <<readerVars, reads, ending, records, sent>>
  BY DEF ReceiveTimer
<1>2. pending \in Seq(Byte) /\ MaxChunk \in Nat \ {0} /\ Len(pending) \in Nat
  BY ReadLoopAssumption, LenProperties DEF TypeOK, Byte
<1>3. data = <<>>
  BY <1>1 DEF TypeOK
<1>4. /\ pending' = <<>>
      /\ data' = pending
      /\ pending = <<>> => pc' = "select"
      /\ pending # <<>> => pc' = "record"
  BY <1>1, <1>2, <1>3, FlushSound
<1>5. TypeOK'
  BY <1>1, <1>2, <1>4, EmptySeq DEF TypeOK, readerVars, Byte
<1>6. PendingIsShort' /\ NoStrandedBytes'
  BY <1>2, <1>4, EmptySeq DEF PendingIsShort, NoStrandedBytes
<1>7. DataIsBounded'
  BY <1>1, <1>2, <1>4 DEF PendingIsShort, DataIsBounded
<1>8. ChunksFit' /\ OneBehind' /\ RecordsBounded'
  BY <1>1, <1>4 DEF ChunksFit, OneBehind, RecordsBounded, readerVars
<1> QED
  BY <1>5, <1>6, <1>7, <1>8

LEMMA AddRecordInv ==
  ASSUME LoopInv, AddRecord
  PROVE  LoopInv'
<1> USE DEF LoopInv
<1>1. /\ pc = "record" /\ records' = Append(records, data) /\ pc' = "broadcast"
      /\ UNCHANGED <<readerVars, reads, ending, pending, data, timer, sent>>
  BY DEF AddRecord
<1>2. records \in Seq(Seq(Byte)) /\ data \in Seq(Byte) /\ data # <<>>
  BY <1>1 DEF TypeOK, Byte
<1>3. /\ records' \in Seq(Seq(Byte))
      /\ Len(records') = Len(records) + 1
      /\ \A i \in 1..Len(records) : records'[i] = records[i]
      /\ records'[Len(records) + 1] = data
      /\ Len(records) \in Nat
  BY <1>1, <1>2, AppendProperties, LenProperties
<1>4. Len(data) \in 1..(2 * MaxChunk - 1)
  BY <1>2, EmptySeq, ReadLoopAssumption DEF DataIsBounded
<1>5. TypeOK'
  BY <1>1, <1>2, <1>3 DEF TypeOK, readerVars, Byte
<1>6. RecordsBounded'
  <2>1. SUFFICES ASSUME NEW i \in 1..Len(records')
                 PROVE  Len(records'[i]) \in 1..(2 * MaxChunk - 1)
    BY DEF RecordsBounded
  <2>2. i \in 1..Len(records) \/ i = Len(records) + 1
    BY <1>3
  <2> QED
    BY <1>3, <1>4, <2>2 DEF RecordsBounded
<1>7. ChunksFit' /\ PendingIsShort' /\ DataIsBounded' /\ OneBehind' /\ NoStrandedBytes'
  BY <1>1 DEF ChunksFit, PendingIsShort, DataIsBounded, OneBehind, NoStrandedBytes, readerVars
<1> QED
  BY <1>5, <1>6, <1>7

LEMMA BroadcastInv ==
  ASSUME LoopInv, Broadcast
  PROVE  LoopInv'
<1> USE DEF LoopInv
<1>1. /\ pc = "broadcast" /\ sent' = Append(sent, data) /\ data' = <<>>
      /\ pc' = AfterResult(ending)
      /\ UNCHANGED <<readerVars, reads, ending, pending, timer, records>>
  BY DEF Broadcast
<1>2. pc' \in {"exit", "select"}
  BY <1>1 DEF TypeOK, AfterResult
<1>3. sent' \in Seq(Seq(Byte))
  BY <1>1, AppendProperties DEF TypeOK, Byte
<1>4. Len(<<>>) = 0 /\ <<>> \in Seq(Byte) /\ MaxChunk \in Nat \ {0}
  BY EmptySeq, ReadLoopAssumption
<1>5. TypeOK'
  BY <1>1, <1>2, <1>3, <1>4 DEF TypeOK, readerVars, Byte
<1>6. PendingIsShort' /\ DataIsBounded' /\ NoStrandedBytes'
  BY <1>1, <1>2, <1>4 DEF PendingIsShort, DataIsBounded, NoStrandedBytes
<1>7. ChunksFit' /\ OneBehind' /\ RecordsBounded'
  BY <1>1, <1>2 DEF ChunksFit, OneBehind, RecordsBounded, readerVars
<1> QED
  BY <1>5, <1>6, <1>7

LEMMA ExitInv ==
  ASSUME LoopInv, Exit
  PROVE  LoopInv'
<1> USE DEF LoopInv
<1>1. /\ pc = "exit" /\ timer' = "nil" /\ Flush(pending, "done")
      /\ UNCHANGED <<readerVars, reads, ending, records, sent>>
  BY DEF Exit, FlushAtExit
<1>2. pending \in Seq(Byte) /\ MaxChunk \in Nat \ {0} /\ Len(pending) \in Nat
  BY ReadLoopAssumption, LenProperties DEF TypeOK, Byte
<1>3. data = <<>>
  BY <1>1 DEF TypeOK
<1>4. /\ pending' = <<>>
      /\ data' = pending
      /\ pending = <<>> => pc' = "done"
      /\ pending # <<>> => pc' = "record"
  BY <1>1, <1>2, <1>3, FlushSound
<1>5. TypeOK'
  BY <1>1, <1>2, <1>4, EmptySeq DEF TypeOK, readerVars, Byte
<1>6. PendingIsShort' /\ NoStrandedBytes'
  BY <1>2, <1>4, EmptySeq DEF PendingIsShort, NoStrandedBytes
<1>7. DataIsBounded'
  BY <1>1, <1>2, <1>4 DEF PendingIsShort, DataIsBounded
<1>8. ChunksFit' /\ OneBehind' /\ RecordsBounded'
  BY <1>1, <1>4 DEF ChunksFit, OneBehind, RecordsBounded, readerVars
<1> QED
  BY <1>5, <1>6, <1>7, <1>8

LEMMA StepInv == LoopInv /\ [Next]_vars => LoopInv'
<1> SUFFICES ASSUME LoopInv, [Next]_vars
             PROVE  LoopInv'
  OBVIOUS
<1> USE DEF LoopInv
<1>1. CASE Fail
  BY <1>1 DEF Fail, loopVars, TypeOK, ChunksFit, PendingIsShort, DataIsBounded, OneBehind,
              NoStrandedBytes, RecordsBounded
<1>2. CASE TimerFires
  BY <1>2 DEF TimerFires, readerVars, TypeOK, ChunksFit, PendingIsShort, DataIsBounded, OneBehind,
              NoStrandedBytes, RecordsBounded
<1>3. CASE UNCHANGED vars
  BY <1>3 DEF vars, readerVars, loopVars, TypeOK, ChunksFit, PendingIsShort, DataIsBounded,
              OneBehind, NoStrandedBytes, RecordsBounded
<1> HIDE DEF LoopInv
<1> QED
  BY <1>1, <1>2, <1>3, ReadInv, SendInv, ReceiveResultInv, ReceiveTimerInv, AddRecordInv,
     BroadcastInv, ExitInv DEF Next

LEMMA Invariance == Spec => []LoopInv
BY InitInv, StepInv, PTL DEF Spec, Safety

-----------------------------------------------------------------------------
(* Induction over the naturals, from the least member of a set.            *)

Below == {ss \in Nat \X Nat : ss[1] < ss[2]}

LEMMA BelowIsWellFounded == IsWellFoundedOn(Below, Nat)
<1>1. Below = OpToRel(<, Nat)
  BY DEF Below, OpToRel
<1> QED
  BY <1>1, NatLessThanWellFounded

LEMMA LeastExists ==
  ASSUME NEW S, S \subseteq Nat, S # {}
  PROVE  \E x \in S : \A y \in S : x <= y
<1>1. PICK x \in S : \A y \in S : ~(<<y, x>> \in Below)
  BY BelowIsWellFounded, WFMin
<1>2. ASSUME NEW y \in S, ~(x <= y)
      PROVE  FALSE
  <2>1. x \in Nat /\ y \in Nat /\ y < x
    BY <1>2
  <2>2. <<y, x>> \in Nat \X Nat /\ <<y, x>>[1] = y /\ <<y, x>>[2] = x
    BY <2>1
  <2>3. <<y, x>> \in Below
    BY <2>1, <2>2 DEF Below
  <2> QED
    BY <1>1, <2>3, Zenon
<1> QED
  BY <1>2

\* Induction over the naturals, for the set of those that have the property.
LEMMA NatSetInduction ==
  ASSUME NEW S, 0 \in S, \A n \in Nat : n \in S => n + 1 \in S
  PROVE  Nat \subseteq S
<1> SUFFICES ASSUME Nat \ S # {}
             PROVE  FALSE
  OBVIOUS
<1>1. PICK x \in Nat \ S : \A y \in Nat \ S : x <= y
  BY LeastExists
<1>2. x # 0 /\ x - 1 \in Nat
  BY <1>1
<1>3. x - 1 \in S
  BY <1>1, <1>2
<1> QED
  BY <1>1, <1>2, <1>3

-----------------------------------------------------------------------------
(* What FlattenSeq, defined by recursion over the sequence, does to a      *)
(* sequence that grows at its end and is taken from at its front.          *)

\* f holds the concatenations of the first 1, 2, ..., n members of seqs.
Concatenates(f, seqs, n) ==
  f = [i \in 1..n |-> IF i = 1 THEN seqs[i] ELSE f[i - 1] \o seqs[i]]

LEMMA ConcatenatesStep ==
  ASSUME NEW f, NEW seqs, NEW n \in Nat, Concatenates(f, seqs, n)
  PROVE  /\ n >= 1 => f[1] = seqs[1]
         /\ \A i \in Nat : i >= 1 /\ i + 1 <= n => f[i + 1] = f[i] \o seqs[i + 1]
         /\ DOMAIN f = 1..n
<1>1. f = [i \in 1..n |-> IF i = 1 THEN seqs[i] ELSE f[i - 1] \o seqs[i]]
  BY DEF Concatenates
<1>2. ASSUME n >= 1
      PROVE  f[1] = seqs[1]
  <2>1. 1 \in 1..n
    BY <1>2
  <2> QED
    BY <1>1, <2>1, Zenon
<1>3. ASSUME NEW i \in Nat, i >= 1, i + 1 <= n
      PROVE  f[i + 1] = f[i] \o seqs[i + 1]
  <2>1. i + 1 \in 1..n /\ i + 1 # 1 /\ (i + 1) - 1 = i
    BY <1>3
  <2> QED
    BY <1>1, <2>1
<1>4. DOMAIN f = 1..n
  BY <1>1
<1> QED
  BY <1>2, <1>3, <1>4

LEMMA ConcatenatesTyped ==
  ASSUME NEW T, NEW seqs \in Seq(Seq(T)), NEW n \in 0..Len(seqs), NEW f, Concatenates(f, seqs, n)
  PROVE  \A i \in 1..n : f[i] \in Seq(T)
<1> DEFINE S == {i \in Nat : i \in 1..n => f[i] \in Seq(T)}
<1>0. /\ n \in Nat /\ n <= Len(seqs)
      /\ n >= 1 => f[1] = seqs[1]
      /\ \A i \in Nat : i >= 1 /\ i + 1 <= n => f[i + 1] = f[i] \o seqs[i + 1]
  <2>1. n \in Nat /\ n <= Len(seqs)
    OBVIOUS
  <2> QED
    BY <2>1, ConcatenatesStep
<1>1. 0 \in S
  BY <1>0
<1>2. ASSUME NEW i \in Nat, i \in S
      PROVE  i + 1 \in S
  <2> SUFFICES ASSUME i + 1 \in 1..n
               PROVE  f[i + 1] \in Seq(T)
    OBVIOUS
  <2>1. seqs[i + 1] \in Seq(T)
    OBVIOUS
  <2>2. CASE i = 0
    BY <1>0, <2>1, <2>2
  <2>3. CASE i # 0
    <3>0. i >= 1 /\ i + 1 <= n
      BY <1>0, <2>3
    <3>1. i \in 1..n /\ f[i] \in Seq(T)
      BY <1>2, <2>3
    <3>2. f[i + 1] = f[i] \o seqs[i + 1]
      BY <1>0, <3>0, Zenon
    <3> QED
      BY <2>1, <3>1, <3>2, ConcatProperties
  <2> QED
    BY <2>2, <2>3
<1>3. Nat \subseteq S
  <2> HIDE DEF S
  <2> QED
    BY <1>1, <1>2, NatSetInduction
<1> QED
  BY <1>3

LEMMA ConcatenatesExists ==
  ASSUME NEW seqs
  PROVE  \A n \in Nat : \E f : Concatenates(f, seqs, n)
<1> DEFINE S == {n \in Nat : \E f : Concatenates(f, seqs, n)}
<1>1. 0 \in S
  <2>1. Concatenates(<<>>, seqs, 0)
    BY DEF Concatenates
  <2> QED
    BY <2>1
<1>2. ASSUME NEW n \in Nat, n \in S
      PROVE  n + 1 \in S
  <2>1. PICK f : Concatenates(f, seqs, n)
    BY <1>2
  <2>2. f = [i \in 1..n |-> IF i = 1 THEN seqs[i] ELSE f[i - 1] \o seqs[i]]
    BY <2>1 DEF Concatenates
  <2>3. PICK g : g = [i \in 1..(n + 1) |-> IF i = n + 1
                                            THEN IF i = 1 THEN seqs[i] ELSE f[i - 1] \o seqs[i]
                                            ELSE f[i]]
    OBVIOUS
  <2>4. \A i \in 1..n : g[i] = f[i]
    BY <2>3
  <2>5. ASSUME NEW i \in 1..(n + 1)
        PROVE  g[i] = IF i = 1 THEN seqs[i] ELSE g[i - 1] \o seqs[i]
    <3>1. CASE i = n + 1
      <4>1. g[i] = IF i = 1 THEN seqs[i] ELSE f[i - 1] \o seqs[i]
        BY <2>3, <3>1
      <4>2. i # 1 => g[i - 1] = f[i - 1]
        BY <2>4, <3>1
      <4> QED
        BY <4>1, <4>2
    <3>2. CASE i # n + 1
      <4>1. i \in 1..n
        BY <3>2
      <4>2. g[i] = f[i] /\ (i # 1 => g[i - 1] = f[i - 1])
        BY <2>4, <4>1
      <4>3. f[i] = IF i = 1 THEN seqs[i] ELSE f[i - 1] \o seqs[i]
        BY <2>2, <4>1
      <4> QED
        BY <4>2, <4>3
    <3> QED
      BY <3>1, <3>2
  <2>6. Concatenates(g, seqs, n + 1)
    BY <2>3, <2>5 DEF Concatenates
  <2> QED
    BY <2>6
<1>3. Nat \subseteq S
  <2> HIDE DEF S
  <2> QED
    BY <1>1, <1>2, NatSetInduction
<1> QED
  BY <1>3

\* Two sequences that agree so far have the same concatenations so far.
LEMMA ConcatenatesAgree ==
  ASSUME NEW f, NEW g, NEW s, NEW t, NEW n \in Nat, NEW m \in Nat,
         Concatenates(f, s, n), Concatenates(g, t, m), n <= m,
         \A i \in 1..n : s[i] = t[i]
  PROVE  \A i \in 1..n : f[i] = g[i]
<1> DEFINE S == {i \in Nat : i \in 1..n => f[i] = g[i]}
<1>0. /\ n >= 1 => f[1] = s[1]
      /\ \A i \in Nat : i >= 1 /\ i + 1 <= n => f[i + 1] = f[i] \o s[i + 1]
  BY ConcatenatesStep, ZenonT(60)
<1>4. /\ m >= 1 => g[1] = t[1]
      /\ \A i \in Nat : i >= 1 /\ i + 1 <= m => g[i + 1] = g[i] \o t[i + 1]
  BY ConcatenatesStep, ZenonT(60)
<1>1. 0 \in S
  OBVIOUS
<1>2. ASSUME NEW i \in Nat, i \in S
      PROVE  i + 1 \in S
  <2> SUFFICES ASSUME i + 1 \in 1..n
               PROVE  f[i + 1] = g[i + 1]
    OBVIOUS
  <2>1. CASE i = 0
    BY <1>0, <1>4, <2>1
  <2>2. CASE i # 0
    <3>0. i >= 1 /\ i + 1 <= n /\ i + 1 <= m
      BY <2>2
    <3>1. i >= 1 /\ f[i] = g[i]
      BY <1>2, <2>2
    <3>2. f[i + 1] = f[i] \o s[i + 1]
      BY <1>0, <3>0, Zenon
    <3>3. g[i + 1] = g[i] \o t[i + 1]
      BY <1>4, <3>0, Zenon
    <3> QED
      BY <3>1, <3>2, <3>3
  <2> QED
    BY <2>1, <2>2
<1>3. Nat \subseteq S
  <2> HIDE DEF S
  <2> QED
    BY <1>1, <1>2, NatSetInduction
<1> QED
  BY <1>3

\* FlattenSeq is the last of them: they determine the function it chooses.
LEMMA FlattenIsLast ==
  ASSUME NEW s, Len(s) \in Nat, Len(s) # 0, NEW f, Concatenates(f, s, Len(s))
  PROVE  FlattenSeq(s) = f[Len(s)]
<1>1. f = [i \in 1..Len(s) |-> IF i = 1 THEN s[i] ELSE f[i - 1] \o s[i]]
  BY DEF Concatenates
<1>2. ASSUME NEW g, g = [i \in 1..Len(s) |-> IF i = 1 THEN s[i] ELSE g[i - 1] \o s[i]]
      PROVE  g = f
  <2>1. Concatenates(g, s, Len(s))
    BY <1>2 DEF Concatenates
  <2>2. \A i \in 1..Len(s) : g[i] = f[i]
    BY <2>1, ConcatenatesAgree
  <2>3. g = [i \in 1..Len(s) |-> g[i]] /\ f = [i \in 1..Len(s) |-> f[i]]
    BY <1>1, <1>2
  <2> QED
    BY <2>2, <2>3
<1> QED
  BY <1>1, <1>2, Zenon DEF FlattenSeq

LEMMA FlattenEmpty == FlattenSeq(<<>>) = <<>>
BY DEF FlattenSeq

\* All that the lemmas below use of FlattenSeq.
LEMMA FlattenSound ==
  ASSUME NEW T, NEW s \in Seq(Seq(T)), s # <<>>
  PROVE  \E f : /\ Concatenates(f, s, Len(s))
                /\ FlattenSeq(s) = f[Len(s)]
                /\ f[1] = s[1]
                /\ \A i \in Nat : i >= 1 /\ i + 1 <= Len(s) => f[i + 1] = f[i] \o s[i + 1]
                /\ \A i \in 1..Len(s) : f[i] \in Seq(T)
<1>1. PICK n \in Nat : n = Len(s) /\ n >= 1
  BY EmptySeq, LenProperties
<1>2. PICK f : Concatenates(f, s, n)
  BY ConcatenatesExists, Zenon
<1>3. FlattenSeq(s) = f[n]
  <2>1. Len(s) \in Nat /\ Len(s) # 0
    BY <1>1
  <2>2. Concatenates(f, s, Len(s))
    BY <1>1, <1>2, Zenon
  <2>3. FlattenSeq(s) = f[Len(s)]
    BY <2>1, <2>2, FlattenIsLast, Zenon
  <2> QED
    BY <1>1, <2>3, Zenon
<1>4. /\ n >= 1 => f[1] = s[1]
      /\ \A i \in Nat : i >= 1 /\ i + 1 <= n => f[i + 1] = f[i] \o s[i + 1]
  BY <1>2, ConcatenatesStep, Zenon
<1>5. \A i \in 1..n : f[i] \in Seq(T)
  <2>1. n \in 0..Len(s)
    BY <1>1
  <2> QED
    BY <1>2, <2>1, ConcatenatesTyped, Zenon
<1> QED
  <2>1. f[1] = s[1]
    BY <1>1, <1>4, Zenon
  <2> QED
    BY <1>1, <1>2, <1>3, <1>4, <1>5, <2>1, Zenon

LEMMA FlattenTyped ==
  ASSUME NEW T, NEW s \in Seq(Seq(T))
  PROVE  FlattenSeq(s) \in Seq(T)
<1>1. CASE s = <<>>
  BY <1>1, FlattenEmpty, EmptySeq
<1>2. CASE s # <<>>
  <2>1. Len(s) \in 1..Len(s)
    BY <1>2, EmptySeq, LenProperties
  <2> QED
    BY <1>2, <2>1, FlattenSound, Zenon
<1> QED
  BY <1>1, <1>2

LEMMA FlattenAppend ==
  ASSUME NEW T, NEW s \in Seq(Seq(T)), NEW e \in Seq(T)
  PROVE  FlattenSeq(Append(s, e)) = FlattenSeq(s) \o e
<1>1. PICK t : t = Append(s, e)
  OBVIOUS
<1>2. /\ t \in Seq(Seq(T))
      /\ Len(t) = Len(s) + 1
      /\ \A i \in 1..Len(s) : s[i] = t[i]
      /\ t[Len(s) + 1] = e
      /\ t # <<>>
  BY <1>1, AppendProperties, EmptySeq
<1>3. PICK g : /\ Concatenates(g, t, Len(t))
               /\ FlattenSeq(t) = g[Len(t)]
               /\ g[1] = t[1]
               /\ \A i \in Nat : i >= 1 /\ i + 1 <= Len(t) => g[i + 1] = g[i] \o t[i + 1]
               /\ \A i \in 1..Len(t) : g[i] \in Seq(T)
  BY <1>2, FlattenSound, Zenon
<1>4. CASE s = <<>>
  <2>1. Len(t) = 1 /\ t[1] = e
    BY <1>2, <1>4, EmptySeq
  <2>2. FlattenSeq(t) = e
    BY <1>3, <2>1, Zenon
  <2>3. FlattenSeq(s) = <<>>
    BY <1>4, FlattenEmpty
  <2>4. <<>> \o e = e
    BY ConcatEmptySeq
  <2> QED
    BY <1>1, <2>2, <2>3, <2>4, Zenon
<1>5. CASE s # <<>>
  <2>1. Len(s) >= 1 /\ Len(s) + 1 <= Len(t) /\ Len(s) <= Len(t) /\ Len(s) \in Nat /\ Len(t) \in Nat
    BY <1>2, <1>5, EmptySeq, LenProperties
  <2>2. PICK f : /\ Concatenates(f, s, Len(s))
                 /\ FlattenSeq(s) = f[Len(s)]
    BY <1>5, FlattenSound, Zenon
  <2>3. \A i \in 1..Len(s) : f[i] = g[i]
    <3>1. Concatenates(f, s, Len(s)) /\ Concatenates(g, t, Len(t))
      BY <1>3, <2>2, Zenon
    <3>2. PICK n \in Nat, m \in Nat : n = Len(s) /\ m = Len(t) /\ n <= m
      BY <2>1
    <3>3. Concatenates(f, s, n) /\ Concatenates(g, t, m) /\ \A i \in 1..n : s[i] = t[i]
      BY <1>2, <3>1, <3>2, Zenon
    <3>4. \A i \in 1..n : f[i] = g[i]
      <4>1. n \in Nat /\ m \in Nat /\ n <= m
        BY <3>2
      <4> QED
        BY <3>3, <4>1, ConcatenatesAgree, ZenonT(60)
    <3> QED
      BY <3>2, <3>4, Zenon
  <2>4. f[Len(s)] = g[Len(s)]
    <3>1. Len(s) \in 1..Len(s)
      BY <2>1
    <3> QED
      BY <2>3, <3>1, Zenon
  <2>5. g[Len(s) + 1] = g[Len(s)] \o t[Len(s) + 1]
    BY <1>3, <2>1, Zenon
  <2> QED
    BY <1>1, <1>2, <1>3, <2>2, <2>4, <2>5, Zenon
<1> QED
  BY <1>4, <1>5

LEMMA FlattenHeadTail ==
  ASSUME NEW T, NEW s \in Seq(Seq(T)), s # <<>>
  PROVE  FlattenSeq(s) = Head(s) \o FlattenSeq(Tail(s))
<1>1. PICK t : t = Tail(s)
  OBVIOUS
<1>2. PICK h \in Seq(T) : h = s[1] /\ h = Head(s)
  BY HeadTailProperties, EmptySeq
<1>3. /\ t \in Seq(Seq(T))
      /\ Len(s) \in Nat /\ Len(s) >= 1
      /\ Len(t) = Len(s) - 1
      /\ \A i \in 1..Len(t) : t[i] = s[i + 1]
  BY <1>1, HeadTailProperties, LenProperties, EmptySeq
<1>4. PICK f : /\ Concatenates(f, s, Len(s))
               /\ FlattenSeq(s) = f[Len(s)]
               /\ f[1] = s[1]
               /\ \A i \in Nat : i >= 1 /\ i + 1 <= Len(s) => f[i + 1] = f[i] \o s[i + 1]
               /\ \A i \in 1..Len(s) : f[i] \in Seq(T)
  BY FlattenSound, Zenon
<1>5. CASE t = <<>>
  <2>1. Len(s) = 1
    BY <1>3, <1>5, EmptySeq
  <2>2. FlattenSeq(s) = h
    BY <1>2, <1>4, <2>1, Zenon
  <2>3. FlattenSeq(t) = <<>>
    BY <1>5, FlattenEmpty
  <2>4. h \o <<>> = h
    BY ConcatEmptySeq
  <2> QED
    BY <1>1, <1>2, <2>2, <2>3, <2>4, Zenon
<1>6. CASE t # <<>>
  <2>1. PICK g : /\ Concatenates(g, t, Len(t))
                 /\ FlattenSeq(t) = g[Len(t)]
                 /\ g[1] = t[1]
                 /\ \A i \in Nat : i >= 1 /\ i + 1 <= Len(t) => g[i + 1] = g[i] \o t[i + 1]
                 /\ \A i \in 1..Len(t) : g[i] \in Seq(T)
    BY <1>3, <1>6, FlattenSound, Zenon
  <2>2. PICK n \in Nat : n = Len(t) /\ n >= 1 /\ n + 1 = Len(s)
    BY <1>3, <1>6, EmptySeq, LenProperties
  <2> DEFINE S == {i \in Nat : i \in 1..n => f[i + 1] = h \o g[i]}
  <2>3. 0 \in S
    OBVIOUS
  <2>4. ASSUME NEW i \in Nat, i \in S
        PROVE  i + 1 \in S
    <3> SUFFICES ASSUME i + 1 \in 1..n
                 PROVE  f[(i + 1) + 1] = h \o g[i + 1]
      OBVIOUS
    <3>1. f[(i + 1) + 1] = f[i + 1] \o s[(i + 1) + 1]
      <4>1. i + 1 \in Nat /\ i + 1 >= 1 /\ (i + 1) + 1 <= Len(s)
        BY <2>2
      <4> QED
        BY <1>4, <4>1, Zenon
    <3>2. s[(i + 1) + 1] = t[i + 1] /\ t[i + 1] \in Seq(T)
      BY <1>3, <2>2, SMTT(30)
    <3>3. CASE i = 0
      <4>1. f[i + 1] = h /\ t[i + 1] = g[i + 1]
        BY <1>2, <1>4, <2>1, <3>3
      <4> QED
        BY <3>1, <3>2, <4>1, Zenon
    <3>4. CASE i # 0
      <4>1. i \in 1..n /\ i \in 1..Len(t) /\ i >= 1 /\ i + 1 <= Len(t)
        BY <2>2, <3>4
      <4>2. f[i + 1] = h \o g[i] /\ g[i] \in Seq(T)
        BY <2>1, <2>4, <4>1, Zenon
      <4>3. g[i + 1] = g[i] \o t[i + 1]
        BY <2>1, <4>1, Zenon
      <4>4. (h \o g[i]) \o t[i + 1] = h \o (g[i] \o t[i + 1])
        <5>1. ASSUME NEW a \in Seq(T), NEW b \in Seq(T), NEW c \in Seq(T)
              PROVE  (a \o b) \o c = a \o (b \o c)
          BY SMTT(30)
        <5> QED
          BY <3>2, <4>2, <5>1, Zenon
      <4> QED
        BY <3>1, <3>2, <4>2, <4>3, <4>4, Zenon
    <3> QED
      BY <3>3, <3>4
  <2>5. Nat \subseteq S
    <3> HIDE DEF S
    <3> QED
      BY <2>3, <2>4, NatSetInduction
  <2>6. f[n + 1] = h \o g[n]
    BY <2>2, <2>5
  <2> QED
    BY <1>1, <1>2, <1>4, <2>1, <2>2, <2>6, Zenon
<1> QED
  BY <1>5, <1>6

-----------------------------------------------------------------------------
(* The order of the bytes.                                                 *)

\* The bytes of the results in the channel, result by result.
Datas(rs) == [i \in 1..Len(rs) |-> rs[i].data]

InHand == IF pc = "record" THEN data ELSE <<>>

\* The reader overwrites result only when it has sent it.
ResultIsSent == reader # "sending" => result.data = <<>>

OrderInv == ResultIsSent /\ BytesInOrder

LEMMA BytesInOrderIs ==
  BytesInOrder <=>
    FlattenSeq(records) \o InHand \o pending \o FlattenSeq(Datas(reads)) \o result.data
      = [i \in 1..count |-> i]
BY Zenon DEF BytesInOrder, Datas, InHand

LEMMA BytesInOrderNext ==
  BytesInOrder' <=>
    FlattenSeq(records') \o InHand' \o pending' \o FlattenSeq(Datas(reads')) \o result'.data
      = [i \in 1..count' |-> i]
BY Zenon DEF BytesInOrder, Datas, InHand

LEMMA ConcatAlgebra ==
  ASSUME NEW T
  PROVE  /\ \A a, b \in Seq(T) : a \o b \in Seq(T)
         /\ \A a, b, c \in Seq(T) : (a \o b) \o c = a \o (b \o c)
         /\ \A a \in Seq(T) : a \o <<>> = a /\ <<>> \o a = a
         /\ <<>> \in Seq(T)
OBVIOUS

LEMMA DatasTyped ==
  ASSUME NEW rs \in Seq(Result)
  PROVE  Datas(rs) \in Seq(Seq(Byte)) /\ FlattenSeq(Datas(rs)) \in Seq(Byte)
<1>1. Datas(rs) \in Seq(Seq(Byte))
  <2>1. Len(rs) \in Nat /\ \A i \in 1..Len(rs) : rs[i].data \in Seq(Byte)
    <3>1. \A i \in 1..Len(rs) : rs[i] \in Result
      BY ElementOfSeq, Zenon
    <3>2. \A r \in Result : r.data \in Seq(Byte)
      BY DEF Result
    <3> QED
      BY <3>1, <3>2, LenProperties, Zenon
  <2> QED
    BY <2>1 DEF Datas
<1> QED
  BY <1>1, FlattenTyped

LEMMA DatasAppend ==
  ASSUME NEW rs \in Seq(Result), NEW r \in Result
  PROVE  FlattenSeq(Datas(Append(rs, r))) = FlattenSeq(Datas(rs)) \o r.data
<1>1. r.data \in Seq(Byte)
  BY DEF Result
<1>2. Datas(Append(rs, r)) = Append(Datas(rs), r.data)
  BY DEF Datas
<1> QED
  BY <1>1, <1>2, DatasTyped, FlattenAppend, Zenon

LEMMA DatasHeadTail ==
  ASSUME NEW rs \in Seq(Result), rs # <<>>
  PROVE  FlattenSeq(Datas(rs)) = Head(rs).data \o FlattenSeq(Datas(Tail(rs)))
<1>1. Datas(rs) # <<>> /\ Head(Datas(rs)) = Head(rs).data /\ Datas(Tail(rs)) = Tail(Datas(rs))
  BY DEF Datas
<1> QED
  BY <1>1, DatasTyped, FlattenHeadTail, Zenon

\* The device counts on from the bytes it has delivered.
LEMMA Counting ==
  ASSUME NEW c \in Nat, NEW n \in Nat
  PROVE  [i \in 1..c |-> i] \o [i \in 1..n |-> c + i] = [i \in 1..(c + n) |-> i]
<1> DEFINE a == [i \in 1..c |-> i]
           b == [i \in 1..n |-> c + i]
<1>1. a \in Seq(Nat) /\ b \in Seq(Nat) /\ Len(a) = c /\ Len(b) = n
  OBVIOUS
<1>2. /\ a \o b \in Seq(Nat)
      /\ Len(a \o b) = c + n
      /\ \A i \in 1..(c + n) : (a \o b)[i] = IF i <= c THEN a[i] ELSE b[i - c]
  BY <1>1, ConcatProperties
<1>3. \A i \in 1..(c + n) : (a \o b)[i] = i
  BY <1>2
<1>4. a \o b = [i \in 1..(c + n) |-> (a \o b)[i]]
  BY <1>2
<1> QED
  BY <1>3, <1>4

LEMMA InitOrder == Init => OrderInv
<1> SUFFICES ASSUME Init
             PROVE  OrderInv
  OBVIOUS
<1>1. Datas(<<>>) = <<>>
  BY DEF Datas
<1>2. <<>> \o <<>> = <<>>
  OBVIOUS
<1>3. [i \in 1..0 |-> i] = <<>>
  OBVIOUS
<1>4. InHand = <<>> /\ result.data = <<>>
  BY DEF Init, NoResult, InHand
<1>5. BytesInOrder
  BY <1>1, <1>2, <1>3, <1>4, FlattenEmpty, BytesInOrderIs DEF Init
<1> QED
  BY <1>4, <1>5 DEF OrderInv, ResultIsSent

\* The five parts are sequences of bytes.
LEMMA Parts ==
  ASSUME LoopInv
  PROVE  /\ FlattenSeq(records) \in Seq(Byte)
         /\ InHand \in Seq(Byte)
         /\ pending \in Seq(Byte)
         /\ reads \in Seq(Result)
         /\ FlattenSeq(Datas(reads)) \in Seq(Byte)
         /\ result \in Result /\ result.data \in Seq(Byte)
<1>1. /\ records \in Seq(Seq(Byte))
      /\ data \in Seq(Byte)
      /\ pending \in Seq(Byte)
      /\ reads \in Seq(Result)
      /\ result \in Result
  BY DEF LoopInv, TypeOK, Byte, Result
<1>2. InHand \in Seq(Byte) /\ result.data \in Seq(Byte)
  BY <1>1, EmptySeq DEF InHand, Result
<1> QED
  BY <1>1, <1>2, FlattenTyped, DatasTyped

(* Each action keeps the order.                                            *)

LEMMA ReadOrder ==
  ASSUME LoopInv, OrderInv, Read
  PROVE  OrderInv'
<1>1. PICK n \in 0..MaxChunk, err \in BOOLEAN :
        /\ result' = [data |-> [i \in 1..n |-> count + i], err |-> err]
        /\ count' = count + n
  BY DEF Read
<1>2. reader = "reading" /\ reader' = "sending" /\ UNCHANGED <<pc, data, pending, records, reads>>
  BY DEF Read, loopVars
<1>3. n \in Nat /\ count \in Nat
  BY <1>1, ReadLoopAssumption DEF LoopInv, TypeOK
<1>4. PICK w \in Seq(Byte) :
        w = FlattenSeq(records) \o InHand \o pending \o FlattenSeq(Datas(reads))
  BY Parts, ConcatAlgebra
<1>5. w = [i \in 1..count |-> i]
  <2>1. w \o <<>> = [i \in 1..count |-> i]
    BY <1>2, <1>4, BytesInOrderIs DEF OrderInv, ResultIsSent
  <2> QED
    BY <2>1, ConcatAlgebra
<1>6. w \o result'.data = [i \in 1..count' |-> i]
  BY <1>1, <1>3, <1>5, Counting
<1>7. UNCHANGED <<records, InHand, pending, reads>>
  BY <1>2 DEF InHand
<1>8. BytesInOrder' <=> FlattenSeq(records) \o InHand \o pending \o FlattenSeq(Datas(reads))
                          \o result'.data = [i \in 1..count' |-> i]
  BY <1>7, BytesInOrderNext, Zenon
<1> QED
  BY <1>2, <1>4, <1>6, <1>8 DEF OrderInv, ResultIsSent

LEMMA SendOrder ==
  ASSUME LoopInv, OrderInv, Send
  PROVE  OrderInv'
<1>1. /\ reads' = Append(reads, result)
      /\ result'.data = <<>>
      /\ UNCHANGED <<count, pc, data, pending, records>>
  BY DEF Send, NoResult, loopVars
<1>2. UNCHANGED <<count, InHand, pending, records>>
  BY <1>1 DEF InHand
<1>3. PICK w \in Seq(Byte) : w = FlattenSeq(records) \o InHand \o pending
  BY Parts, ConcatAlgebra
<1>4. FlattenSeq(Datas(reads')) = FlattenSeq(Datas(reads)) \o result.data
  BY <1>1, Parts, DatasAppend, Zenon
<1>5. /\ FlattenSeq(Datas(reads)) \in Seq(Byte)
      /\ result.data \in Seq(Byte)
  BY Parts
<1>6. w \o FlattenSeq(Datas(reads)) \o result.data = [i \in 1..count |-> i]
  BY <1>3, BytesInOrderIs DEF OrderInv
<1>7. \A q, d \in Seq(Byte) : w \o (q \o d) \o <<>> = w \o q \o d
  BY ConcatAlgebra
<1>8. w \o FlattenSeq(Datas(reads')) \o result'.data = [i \in 1..count |-> i]
  <2>1. PICK q \in Seq(Byte), d \in Seq(Byte) : q = FlattenSeq(Datas(reads)) /\ d = result.data
    BY <1>5
  <2>2. w \o (q \o d) \o <<>> = [i \in 1..count |-> i]
    BY <1>6, <1>7, <2>1, Zenon
  <2> QED
    BY <1>1, <1>4, <2>1, <2>2, Zenon
<1>9. BytesInOrder'
  BY <1>2, <1>3, <1>8, BytesInOrderNext, Zenon
<1> QED
  BY <1>1, <1>9 DEF OrderInv, ResultIsSent

\* What flush does to the bytes in hand and pending, called with bytes.
LEMMA FlushKeepsOrder ==
  ASSUME NEW w \in Seq(Byte), NEW bytes \in Seq(Byte), NEW otherwise,
         otherwise # "record", data = <<>>, Flush(bytes, otherwise)
  PROVE  w \o InHand' \o pending' = w \o bytes
<1>1. /\ pending' = <<>>
      /\ data' = bytes
      /\ bytes = <<>> => pc' = otherwise
      /\ bytes # <<>> => pc' = "record"
  BY FlushSound, Zenon
<1>2. InHand' = bytes
  BY <1>1 DEF InHand
<1>3. w \o bytes \o <<>> = w \o bytes
  BY ConcatAlgebra
<1> QED
  BY <1>1, <1>2, <1>3, Zenon

LEMMA ReceiveResultOrder ==
  ASSUME LoopInv, OrderInv, ReceiveResult
  PROVE  OrderInv'
<1>1. /\ pc = "select" /\ reads # <<>> /\ reads' = Tail(reads)
      /\ UNCHANGED <<count, reader, result, records>>
  BY DEF ReceiveResult, readerVars
<1>2. data = <<>> /\ InHand = <<>>
  BY <1>1 DEF LoopInv, TypeOK, InHand
<1>3. PICK d \in Seq(Byte), q \in Seq(Byte) :
        d = Head(reads).data /\ q = FlattenSeq(Datas(Tail(reads)))
  <2>1. Head(reads) \in Result /\ Tail(reads) \in Seq(Result)
    BY <1>1, Parts, HeadTailProperties
  <2>2. Head(reads).data \in Seq(Byte)
    BY <2>1 DEF Result
  <2> QED
    BY <2>1, <2>2, DatasTyped
<1>4. FlattenSeq(Datas(reads)) = d \o q /\ FlattenSeq(Datas(reads')) = q
  BY <1>1, <1>3, Parts, DatasHeadTail, Zenon
<1>5. PICK w \in Seq(Byte), p \in Seq(Byte), e \in Seq(Byte) :
        w = FlattenSeq(records) /\ p = pending /\ e = result.data
  BY Parts
<1>6. w \o <<>> \o p \o (d \o q) \o e = [i \in 1..count |-> i]
  BY <1>2, <1>4, <1>5, BytesInOrderIs, Zenon DEF OrderInv
<1>7. w \o InHand' \o pending' = w \o (p \o d)
  <2>1. AfterResult(Head(reads).err) # "record"
    BY DEF AfterResult
  <2>2. p \o d \in Seq(Byte)
    BY ConcatAlgebra
  <2>3. CASE Head(reads).data # <<>> /\ Full(pending \o Head(reads).data)
    <3>1. Flush(pending \o Head(reads).data, AfterResult(Head(reads).err))
      BY <2>3, Zenon DEF ReceiveResult
    <3>2. Flush(p \o d, AfterResult(Head(reads).err))
      BY <1>3, <1>5, <3>1, Zenon
    <3> QED
      BY <1>2, <2>1, <2>2, <3>2, FlushKeepsOrder, Zenon
  <2>4. CASE ~(Head(reads).data # <<>> /\ Full(pending \o Head(reads).data))
    <3>1. pc' = AfterResult(Head(reads).err) /\ pending' = p \o d
      BY <1>3, <1>5, <2>4, Zenon DEF ReceiveResult
    <3>2. InHand' = <<>>
      BY <2>1, <3>1, Zenon DEF InHand
    <3>3. w \o <<>> = w
      BY ConcatAlgebra
    <3> QED
      BY <3>1, <3>2, <3>3, Zenon
  <2> QED
    BY <2>3, <2>4, Zenon
<1>8. w \o (p \o d) \o q \o e = w \o <<>> \o p \o (d \o q) \o e
  BY ConcatAlgebra, SMTT(60)
<1>9. BytesInOrder'
  <2>1. FlattenSeq(records') = w /\ result'.data = e /\ count' = count
    BY <1>1, <1>5, Zenon
  <2> QED
    BY <1>4, <1>6, <1>7, <1>8, <2>1, BytesInOrderNext, Zenon
<1> QED
  BY <1>1, <1>9 DEF OrderInv, ResultIsSent

\* A flush of everything that is pending, on the timer or at the exit.
LEMMA FlushAllOrder ==
  ASSUME LoopInv, OrderInv, pc # "record", data = <<>>, NEW otherwise, otherwise # "record",
         Flush(pending, otherwise), UNCHANGED <<readerVars, reads, records>>
  PROVE  OrderInv'
<1>1. InHand = <<>>
  BY DEF InHand
<1>2. PICK w \in Seq(Byte), p \in Seq(Byte) : w = FlattenSeq(records) /\ p = pending
  BY Parts
<1>3. w \o InHand' \o pending' = w \o <<>> \o p
  <2>1. w \o InHand' \o pending' = w \o p
    BY <1>2, FlushKeepsOrder, Zenon
  <2>2. w \o <<>> = w
    BY ConcatAlgebra
  <2> QED
    BY <2>1, <2>2, Zenon
<1>4. w \o <<>> \o p \o FlattenSeq(Datas(reads)) \o result.data = [i \in 1..count |-> i]
  BY <1>1, <1>2, BytesInOrderIs, Zenon DEF OrderInv
<1>5. UNCHANGED <<count, reader, result, reads, records>>
  BY DEF readerVars
<1>6. BytesInOrder'
  BY <1>2, <1>3, <1>4, <1>5, BytesInOrderNext, Zenon
<1> QED
  BY <1>5, <1>6 DEF OrderInv, ResultIsSent

LEMMA AddRecordOrder ==
  ASSUME LoopInv, OrderInv, AddRecord
  PROVE  OrderInv'
<1>1. /\ pc = "record" /\ pc' = "broadcast" /\ records' = Append(records, data)
      /\ UNCHANGED <<count, reader, result, reads, pending>>
  BY DEF AddRecord, readerVars
<1>2. InHand = data /\ InHand' = <<>>
  BY <1>1 DEF InHand
<1>3. PICK w \in Seq(Byte), d \in Seq(Byte) : w = FlattenSeq(records) /\ d = data
  BY Parts, <1>2
<1>4. FlattenSeq(records') = w \o d
  <2>1. records \in Seq(Seq(Byte))
    BY DEF LoopInv, TypeOK, Byte
  <2> QED
    BY <1>1, <1>3, <2>1, FlattenAppend, Zenon
<1>5. w \o d \o <<>> = w \o d
  BY ConcatAlgebra
<1>6. w \o d \o pending \o FlattenSeq(Datas(reads)) \o result.data = [i \in 1..count |-> i]
  BY <1>2, <1>3, BytesInOrderIs, Zenon DEF OrderInv
<1>7. BytesInOrder'
  BY <1>1, <1>2, <1>4, <1>5, <1>6, BytesInOrderNext, Zenon
<1> QED
  BY <1>1, <1>7 DEF OrderInv, ResultIsSent

LEMMA BroadcastOrder ==
  ASSUME LoopInv, OrderInv, Broadcast
  PROVE  OrderInv'
<1>1. /\ pc = "broadcast" /\ pc' = AfterResult(ending)
      /\ UNCHANGED <<count, reader, result, reads, pending, records>>
  BY DEF Broadcast, readerVars
<1>2. InHand = <<>> /\ InHand' = <<>>
  BY <1>1 DEF InHand, AfterResult
<1>3. BytesInOrder'
  BY <1>1, <1>2, BytesInOrderIs, BytesInOrderNext, Zenon DEF OrderInv
<1> QED
  BY <1>1, <1>3 DEF OrderInv, ResultIsSent

LEMMA StepOrder == LoopInv /\ OrderInv /\ [Next]_vars => OrderInv'
<1> SUFFICES ASSUME LoopInv, OrderInv, [Next]_vars
             PROVE  OrderInv'
  OBVIOUS
<1>1. ASSUME UNCHANGED <<count, reader, result, reads, pc, pending, data, records>>
      PROVE  OrderInv'
  <2>1. UNCHANGED InHand
    BY <1>1 DEF InHand
  <2>2. BytesInOrder'
    BY <1>1, <2>1, BytesInOrderIs, BytesInOrderNext, Zenon DEF OrderInv
  <2> QED
    BY <1>1, <2>2 DEF OrderInv, ResultIsSent
<1>2. CASE Fail
  BY <1>1, <1>2 DEF Fail, OrderInv, ResultIsSent, BytesInOrder, loopVars
<1>3. CASE TimerFires
  BY <1>1, <1>3 DEF TimerFires, readerVars
<1>4. CASE UNCHANGED vars
  BY <1>1, <1>4 DEF vars, readerVars, loopVars
<1>5. CASE ReceiveTimer
  BY <1>5, FlushAllOrder DEF ReceiveTimer, LoopInv, TypeOK
<1>6. CASE Exit
  BY <1>6, FlushAllOrder DEF Exit, FlushAtExit, LoopInv, TypeOK
<1> QED
  BY <1>2, <1>3, <1>4, <1>5, <1>6, ReadOrder, SendOrder, ReceiveResultOrder, AddRecordOrder,
     BroadcastOrder DEF Next

-----------------------------------------------------------------------------
(* The end: neither goroutine is left by the other.                        *)

\* An error is the last result the reader sends, and the loop ends with it.
ErrorIsLast ==
  /\ \A i \in 1..Len(reads) : reads[i].err <=> reader = "done" /\ i = Len(reads)
  /\ reader # "sending" => result = NoResult
  /\ ending <=> reader = "done" /\ reads = <<>>
  /\ pc \in {"exit", "done"} => ending
  /\ pc = "select" => ~ending

\* The loop that has seen the error, and the loop that has gone, leave the reader
\* neither a result to send nor one in the channel; and when the reader has gone, the
\* loop at its select still has a result to receive.
NeitherIsLeft ==
  /\ ending \/ pc \in {"exit", "done"} =>
       reader = "done" /\ result = NoResult /\ reads = <<>>
  /\ reader = "done" /\ pc = "select" => reads # <<>>

\* What the device delivered is in the history and was broadcast when the loop is done.
AllRecordedAtEnd ==
  pc = "done" => FlattenSeq(records) = [i \in 1..count |-> i] /\ sent = records

LEMMA InitErrorIsLast == Init => ErrorIsLast
BY EmptySeq DEF Init, ErrorIsLast

LEMMA SendErrorIsLast ==
  ASSUME LoopInv, ErrorIsLast, Send
  PROVE  ErrorIsLast'
<1>1. result \in Result /\ reads \in Seq(Result)
  BY DEF LoopInv, TypeOK, Byte, Result
<1>2. /\ reader = "sending" /\ reads' = Append(reads, result) /\ result' = NoResult
      /\ reader' = (IF result.err THEN "done" ELSE "reading")
      /\ UNCHANGED <<pc, ending>>
  BY DEF Send, loopVars
<1>3. /\ Len(reads') = Len(reads) + 1 /\ Len(reads) \in Nat /\ reads' # <<>>
      /\ \A i \in 1..Len(reads) : reads'[i] = reads[i]
      /\ reads'[Len(reads')] = result
  BY <1>1, <1>2, AppendProperties, LenProperties
<1>4. ASSUME NEW i \in 1..Len(reads')
      PROVE  reads'[i].err <=> reader' = "done" /\ i = Len(reads')
  <2>1. CASE i = Len(reads')
    BY <1>1, <1>2, <1>3, <2>1 DEF Result
  <2>2. CASE i # Len(reads')
    <3>1. i \in 1..Len(reads)
      BY <1>3, <2>2
    <3> QED
      BY <1>2, <1>3, <2>2, <3>1 DEF ErrorIsLast
  <2> QED
    BY <2>1, <2>2
<1>5. ~ending /\ ~(reader' = "done" /\ reads' = <<>>)
  BY <1>2, <1>3 DEF ErrorIsLast
<1> QED
  BY <1>2, <1>4, <1>5 DEF ErrorIsLast

LEMMA ReceiveResultErrorIsLast ==
  ASSUME LoopInv, ErrorIsLast, ReceiveResult
  PROVE  ErrorIsLast'
<1>1. /\ pc = "select" /\ reads # <<>> /\ reads' = Tail(reads) /\ ending' = Head(reads).err
      /\ UNCHANGED <<reader, result>>
  BY DEF ReceiveResult, readerVars
<1>2. reads \in Seq(Result)
  BY DEF LoopInv, TypeOK, Byte, Result
<1>3. /\ Head(reads) = reads[1] /\ Tail(reads) \in Seq(Result)
      /\ Len(Tail(reads)) = Len(reads) - 1 /\ Len(reads) \in Nat \ {0}
      /\ \A i \in 1..Len(Tail(reads)) : Tail(reads)[i] = reads[i + 1]
  BY <1>1, <1>2, HeadTailProperties, EmptySeq
<1>4. Tail(reads) = <<>> <=> Len(reads) = 1
  <2>1. Tail(reads) = <<>> <=> Len(Tail(reads)) = 0
    BY <1>3, EmptySeq
  <2> QED
    BY <1>3, <2>1
<1>5. ending' <=> reader = "done" /\ Len(reads) = 1
  <2>1. 1 \in 1..Len(reads) /\ reads[1] \in Result
    BY <1>2, <1>3, ElementOfSeq
  <2>2. reads[1].err <=> reader = "done" /\ Len(reads) = 1
    BY <1>3, <2>1 DEF ErrorIsLast
  <2>3. ending' = reads[1].err /\ reads[1].err \in BOOLEAN
    BY <1>1, <1>3, <2>1 DEF Result
  <2> QED
    BY <2>2, <2>3
<1>6. pc' \in {"record", AfterResult(Head(reads).err)}
  BY <1>1 DEF ReceiveResult, Flush
<1>7. /\ pc' \in {"exit", "done"} => ending'
      /\ pc' = "select" => ~ending'
  BY <1>1, <1>6 DEF AfterResult
<1>8. ASSUME NEW i \in 1..Len(reads')
      PROVE  reads'[i].err <=> reader' = "done" /\ i = Len(reads')
  <2>1. i + 1 \in 1..Len(reads) /\ reads'[i] = reads[i + 1] /\ Len(reads') = Len(reads) - 1
    BY <1>1, <1>3
  <2>2. reads[i + 1].err <=> reader = "done" /\ i + 1 = Len(reads)
    BY <2>1 DEF ErrorIsLast
  <2>3. i + 1 = Len(reads) <=> i = Len(reads')
    BY <1>3, <2>1
  <2> QED
    BY <1>1, <2>1, <2>2, <2>3
<1> QED
  BY <1>1, <1>5, <1>7, <1>8, <1>4 DEF ErrorIsLast

LEMMA StepErrorIsLast == LoopInv /\ ErrorIsLast /\ [Next]_vars => ErrorIsLast'
<1> SUFFICES ASSUME LoopInv, ErrorIsLast, [Next]_vars
             PROVE  ErrorIsLast'
  OBVIOUS
<1>1. CASE Read
  BY <1>1 DEF Read, ErrorIsLast, loopVars
<1>2. CASE Fail \/ TimerFires \/ UNCHANGED vars
  BY <1>2 DEF Fail, TimerFires, vars, readerVars, loopVars, ErrorIsLast
<1>3. CASE ReceiveTimer
  BY <1>3 DEF ReceiveTimer, Flush, readerVars, ErrorIsLast
<1>4. CASE AddRecord
  BY <1>4 DEF AddRecord, readerVars, ErrorIsLast
<1>5. CASE Broadcast
  BY <1>5 DEF Broadcast, readerVars, AfterResult, ErrorIsLast
<1>6. CASE Exit
  BY <1>6 DEF Exit, FlushAtExit, Flush, readerVars, ErrorIsLast
<1> QED
  BY <1>1, <1>2, <1>3, <1>4, <1>5, <1>6, SendErrorIsLast, ReceiveResultErrorIsLast DEF Next

LEMMA NothingOnTheWay ==
  ASSUME LoopInv, OrderInv, ErrorIsLast
  PROVE  AllRecordedAtEnd
<1> SUFFICES ASSUME pc = "done"
             PROVE  FlattenSeq(records) = [i \in 1..count |-> i] /\ sent = records
  BY DEF AllRecordedAtEnd
<1>1. /\ InHand = <<>> /\ pending = <<>> /\ reads = <<>> /\ result.data = <<>>
      /\ sent = records
  BY DEF InHand, LoopInv, PendingIsShort, OneBehind, ErrorIsLast, NoResult
<1>2. Datas(reads) = <<>>
  BY <1>1 DEF Datas
<1>3. FlattenSeq(records) \o <<>> \o <<>> \o <<>> \o <<>> = [i \in 1..count |-> i]
  BY <1>1, <1>2, FlattenEmpty, BytesInOrderIs, Zenon DEF OrderInv
<1>4. FlattenSeq(records) \in Seq(Byte)
  BY Parts
<1> HIDE DEF FlattenSeq
<1>5. FlattenSeq(records) \o <<>> \o <<>> \o <<>> \o <<>> = FlattenSeq(records)
  BY <1>4, ConcatAlgebra
<1> QED
  BY <1>1, <1>3, <1>5

-----------------------------------------------------------------------------
(* The theorems.                                                           *)

\* Type correctness.
THEOREM TypeCorrect == Spec => []TypeOK
BY Invariance, PTL DEF LoopInv

\* readLoop never waits in its select with bytes pending and no timer.
THEOREM NothingIsStranded == Spec => []NoStrandedBytes
BY Invariance, PTL DEF LoopInv

\* A record holds at least one byte and fewer than two full chunks.
THEOREM RecordsAreBounded == Spec => []RecordsBounded
BY Invariance, PTL DEF LoopInv

\* flush records before it broadcasts, at the exit of the loop too: clients
\* see a prefix of the history.
THEOREM HistoryComesFirst == Spec => []HistoryBeforeSubscribers
<1>1. LoopInv => HistoryBeforeSubscribers
  <2> SUFFICES ASSUME LoopInv
               PROVE  IsPrefix(sent, records)
    BY DEF HistoryBeforeSubscribers
  <2>1. sent \in Seq(Seq(Byte)) /\ data \in Seq(Byte) /\ Len(sent) \in Nat
    BY LenProperties DEF LoopInv, TypeOK, Byte
  <2>2. CASE records = sent
    BY <2>1, <2>2 DEF IsPrefix
  <2>3. CASE records = Append(sent, data)
    <3>1. records = sent \o <<data>> /\ <<data>> \in Seq(Seq(Byte))
      BY <2>1, <2>3, AppendIsConcat
    <3>2. Len(records) = Len(sent) + 1
      BY <2>1, <2>3, AppendProperties
    <3>3. SubSeq(records, 1, Len(sent)) = SubSeq(sent, 1, Len(sent))
      <4>1. CASE sent = <<>>
        BY <4>1, EmptySeq, SubSeqEmpty
      <4>2. CASE sent # <<>>
        BY <2>1, <3>1, <4>2, EmptySeq, SubSeqOfConcat1
      <4> QED
        BY <4>1, <4>2
    <3> QED
      BY <2>1, <3>2, <3>3 DEF IsPrefix
  <2> QED
    BY <2>2, <2>3 DEF LoopInv, OneBehind
<1> QED
  BY <1>1, Invariance, PTL

\* No byte is lost, doubled or out of order on the way from the device to the
\* history: through the reader's result, the channel, pending and what flush
\* has in hand, at the exit of the loop too.
THEOREM BytesStayInOrder == Spec => []BytesInOrder
<1>1. Init => LoopInv /\ OrderInv
  BY InitInv, InitOrder
<1>2. (LoopInv /\ OrderInv) /\ [Next]_vars => (LoopInv /\ OrderInv)'
  BY StepInv, StepOrder
<1>3. LoopInv /\ OrderInv => BytesInOrder
  BY DEF OrderInv
<1> QED
  BY <1>1, <1>2, <1>3, PTL DEF Spec, Safety

\* The error is the last result: a loop that ends leaves the reader neither blocked on
\* the channel nor with a result nobody will take, whatever the capacity of the channel,
\* and a reader that has gone leaves the loop a result to end with.
THEOREM NobodyIsLeftBehind == Spec => []NeitherIsLeft
<1>1. LoopInv /\ ErrorIsLast => NeitherIsLeft
  BY DEF ErrorIsLast, NeitherIsLeft
<1> QED
  BY <1>1, Invariance, InitErrorIsLast, StepErrorIsLast, PTL DEF Spec, Safety

\* When readLoop is done, everything the device delivered is in the history, in order,
\* and was broadcast: bytes that came with the error, were queued behind a full chunk or
\* waited for the timer included.
THEOREM EverythingIsRecordedAtEnd == Spec => []AllRecordedAtEnd
BY Invariance, InitOrder, StepOrder, InitErrorIsLast, StepErrorIsLast, NothingOnTheWay, PTL
DEF Spec, Safety

=============================================================================
