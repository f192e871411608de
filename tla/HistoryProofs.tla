--------------------------- MODULE HistoryProofs ----------------------------
(***************************************************************************)
(* Proofs about History for any number of clients, any record sizes and    *)
(* limits, and any bound on the history.                                   *)
(*                                                                         *)
(* The inductive invariant HistoryInv strengthens the properties of        *)
(* History with what a response under way still promises: its records are  *)
(* consecutive and newer than the cursor, and it admits a gap exactly when *)
(* there is one.  Eviction moves the window under such a response, but     *)
(* only forward, so the promise survives.  That eviction is exact needs    *)
(* the byte count between two steps (BytesCounted) and what Bytes, a sum   *)
(* over a sequence of any length, says of the part that is kept.           *)
(***************************************************************************)
EXTENDS History, SequenceTheorems, WellFoundedInduction, TLAPS

\* The client's cursor lies between where it began and the newest record.
CursorInRange(c) == start[c] <= cursor[c] /\ cursor[c] <= sequence

\* What is true of a response until the client receives it.
ResponseSound(c) ==
  LET records == resp[c].records IN
  /\ \A i \in 1..Len(records) :
       /\ records[i].sequence = records[1].sequence + i - 1
       /\ cursor[c] < records[i].sequence
       /\ records[i].sequence <= sequence
  /\ IF pc[c] = "responding" THEN resp[c].nextAfter = NextAfter(cursor[c], records)
     ELSE resp[c] = NoResponse
  /\ resp[c].truncated <=> records # <<>> /\ records[1].sequence > cursor[c] + 1
  /\ resp[c].truncated => records[1].sequence <= OldestSequence

ClientInv ==
  \A c \in Clients :
    /\ CursorInRange(c)
    /\ ResponseSound(c)
    /\ chan[c] <= notify

HistoryInv ==
  /\ TypeOK
  /\ HistoryContiguous
  /\ ClientInv
  /\ NoLostWakeup
  /\ NoSilentLoss

-----------------------------------------------------------------------------
(* Lemmas about the store.                                                 *)

\* Typing of the records of a sequence.
LEMMA RecordNumbers ==
  ASSUME NEW s \in Seq(Record)
  PROVE  /\ Len(s) \in Nat
         /\ \A i \in 1..Len(s) : s[i] \in Record /\ s[i].sequence \in Nat
         /\ s # <<>> <=> 1 \in 1..Len(s)
<1>1. Len(s) \in Nat /\ (s # <<>> => Len(s) \in Nat \ {0})
  BY LenProperties, EmptySeq
<1>2. s = <<>> => Len(s) = 0
  BY EmptySeq
<1>3. \A i \in 1..Len(s) : s[i] \in Record
  BY ElementOfSeq
<1>4. \A r \in Record : r.sequence \in Nat
  BY DEF Record
<1>5. s # <<>> <=> 1 \in 1..Len(s)
  BY <1>1, <1>2
<1> QED
  BY <1>1, <1>3, <1>4, <1>5

\* Where FirstAfter finds the first record after the cursor.
LEMMA FirstAfterFinds ==
  ASSUME TypeOK, HistoryContiguous, NEW after \in Nat
  PROVE  /\ FirstAfter(after) \in 1..(Len(history) + 1)
         /\ \A i \in FirstAfter(after)..Len(history) : history[i].sequence > after
         /\ \A i \in 1..(FirstAfter(after) - 1) : history[i].sequence <= after
<1> DEFINE later == {i \in 1..Len(history) : history[i].sequence > after}
           offset == sequence - Len(history)
           first == IF offset + 1 > after THEN 1 ELSE after - offset + 1
<1>1. Len(history) \in Nat /\ sequence \in Nat
  BY LenProperties DEF TypeOK
<1>2. \A i \in 1..Len(history) : history[i].sequence = offset + i
  BY <1>1 DEF HistoryContiguous
<1>3. first \in Nat /\ first >= 1
  BY <1>1
<1>4. first <= Len(history) => offset + first > after
  BY <1>1
<1>5. \A i \in 1..Len(history) : offset + i > after <=> first <= i
  BY <1>1
<1> HIDE DEF first
<1>6. \A i \in 1..Len(history) : i \in later <=> first <= i
  BY <1>2, <1>5
<1>7. later \subseteq 1..Len(history)
  OBVIOUS
<1>8. \A i \in 1..Len(history) : i \in later \/ history[i].sequence <= after
  BY <1>1, <1>2
<1>9. \A i \in later : history[i].sequence > after
  OBVIOUS
<1>10. FirstAfter(after) = IF later = {} THEN Len(history) + 1
                           ELSE CHOOSE i \in later : \A j \in later : i <= j
  BY DEF FirstAfter
<1> HIDE DEF later
<1>11. CASE later = {}
  BY <1>1, <1>8, <1>10, <1>11
<1>12. CASE later # {}
  <2>0. PICK k \in 1..Len(history) : first <= k
    BY <1>6, <1>7, <1>12
  <2>1. first \in 1..Len(history)
    BY <1>1, <1>3, <2>0
  <2>2. first \in later /\ \A j \in later : first <= j
    BY <1>6, <1>7, <2>1
  <2>3. \A i \in later : (\A j \in later : i <= j) => i = first
    BY <1>1, <1>7, <2>1, <2>2
  <2>4. FirstAfter(after) = first
    BY <1>10, <1>12, <2>2, <2>3
  <2>5. \A i \in 1..(first - 1) : history[i].sequence <= after
    BY <1>1, <1>6, <1>8, <2>1
  <2>6. \A i \in first..Len(history) : history[i].sequence > after
    BY <1>1, <1>6, <1>9, <2>1
  <2> QED
    BY <1>1, <2>1, <2>4, <2>5, <2>6
<1> QED
  BY <1>11, <1>12

\* RecordsAfter is empty only when no record is newer than the cursor.
LEMMA NoneAfter ==
  ASSUME TypeOK, HistoryContiguous, NEW after \in Nat, NEW max \in Nat \ {0},
         RecordsAfter(after, max) = <<>>
  PROVE  FirstAfter(after) = Len(history) + 1
<1> DEFINE first == FirstAfter(after)
           last == IF Len(history) - first + 1 > max THEN first + max - 1 ELSE Len(history)
<1>1. first \in 1..(Len(history) + 1) /\ Len(history) \in Nat
  BY FirstAfterFinds, LenProperties DEF TypeOK
<1>2. SubSeq(history, first, last) = <<>>
  BY DEF RecordsAfter
<1> HIDE DEF first
<1>3. first \in Int /\ last \in Int /\ last <= Len(history)
  BY <1>1
<1>4. first <= Len(history) => first <= last
  BY <1>1
<1> HIDE DEF last
<1>5. \A i \in first..last : history[i] \in Record
  <2>1. \A i \in 1..Len(history) : history[i] \in Record
    BY RecordNumbers DEF TypeOK
  <2> QED
    BY <1>1, <1>3, <2>1
<1>6. Len(SubSeq(history, first, last)) = IF first <= last THEN last - first + 1 ELSE 0
  BY <1>3, <1>5, SubSeqProperties
<1>7. Len(SubSeq(history, first, last)) = 0
  BY <1>2, EmptySeq
<1> QED
  BY <1>1, <1>3, <1>4, <1>6, <1>7 DEF first

\* RecordsAfter returns consecutive records after the cursor, and the oldest
\* retained record first if that is where a gap ends.
LEMMA RecordsAfterReturns ==
  ASSUME TypeOK, HistoryContiguous, NEW after \in Nat, NEW max \in Nat
  PROVE  LET records == RecordsAfter(after, max) IN
         /\ records \in Seq(Record)
         /\ \A i \in 1..Len(records) :
              /\ records[i].sequence = records[1].sequence + i - 1
              /\ after < records[i].sequence
              /\ records[i].sequence <= sequence
         /\ Truncated(after, records) <=> records # <<>> /\ records[1].sequence > after + 1
         /\ Truncated(after, records) => records[1].sequence <= OldestSequence
<1> DEFINE first == FirstAfter(after)
           last == IF Len(history) - first + 1 > max THEN first + max - 1 ELSE Len(history)
           records == RecordsAfter(after, max)
<1>1. Len(history) \in Nat /\ sequence \in Nat /\ \A i \in 1..Len(history) : history[i] \in Record
  BY LenProperties, ElementOfSeq DEF TypeOK
<1>2. /\ first \in 1..(Len(history) + 1)
      /\ \A i \in first..Len(history) : history[i].sequence > after
      /\ \A i \in 1..(first - 1) : history[i].sequence <= after
  BY FirstAfterFinds
<1>3. records = SubSeq(history, first, last)
  BY DEF RecordsAfter
<1> HIDE DEF first, records
<1>4. last \in Int /\ last <= Len(history)
  BY <1>1, <1>2
<1> HIDE DEF last
<1>5. \A i \in first..last : history[i] \in Record
  BY <1>1, <1>2, <1>4
<1>6. /\ records \in Seq(Record)
      /\ Len(records) = IF first <= last THEN last - first + 1 ELSE 0
      /\ \A i \in 1..(last - first + 1) : records[i] = history[first + i - 1]
  BY <1>2, <1>3, <1>4, <1>5, SubSeqProperties
<1>7. \A i \in 1..Len(records) :
        /\ records[i] = history[first + i - 1]
        /\ first + i - 1 \in first..Len(history)
        /\ first + i - 1 \in 1..Len(history)
  BY <1>1, <1>2, <1>4, <1>6
<1>8. \A i \in 1..Len(history) : history[i].sequence = sequence - Len(history) + i
  BY DEF HistoryContiguous
<1>9. \A i \in 1..Len(records) :
        /\ records[i].sequence = sequence - Len(history) + first + i - 1
        /\ after < records[i].sequence
        /\ records[i].sequence <= sequence
  <2>1. TAKE i \in 1..Len(records)
  <2> DEFINE k == first + i - 1
  <2>2. k \in first..Len(history) /\ k \in 1..Len(history) /\ records[i] = history[k]
    BY <1>7
  <2>3. history[k].sequence > after /\ history[k].sequence = sequence - Len(history) + k
    BY <1>2, <1>8, <2>2
  <2> QED
    BY <1>1, <1>2, <1>6, <2>2, <2>3
<1>10. records # <<>> => 1 \in 1..Len(records)
  BY <1>6, RecordNumbers
<1>11. \A i \in 1..Len(records) : records[i].sequence = records[1].sequence + i - 1
  <2> DEFINE base == sequence - Len(history) + first
  <2>1. TAKE i \in 1..Len(records)
  <2>2. base \in Int
    BY <1>1, <1>2
  <2>3. Len(records) \in Int
    BY <1>2, <1>4, <1>6
  <2>4. 1 \in 1..Len(records) /\ i \in Int
    BY <2>1, <2>3
  <2>5. records[i].sequence = base + i - 1 /\ records[1].sequence = base + 1 - 1
    BY <1>9, <2>4
  <2> HIDE DEF base
  <2> QED
    BY <2>2, <2>4, <2>5
<1>12. ASSUME records # <<>>
       PROVE  /\ OldestSequence > after + 1 <=> records[1].sequence > after + 1
              /\ OldestSequence > after + 1 => records[1].sequence <= OldestSequence
  <2>1. first \in 1..Len(history) /\ history # <<>>
    BY <1>1, <1>2, <1>7, <1>10, <1>12, EmptySeq
  <2>2. OldestSequence = sequence - Len(history) + 1
    BY <1>1, <1>8, <2>1 DEF OldestSequence
  <2>3. records[1].sequence = sequence - Len(history) + first
    BY <1>1, <1>2, <1>9, <1>10, <1>12
  <2>4. CASE first = 1
    BY <1>1, <2>2, <2>3, <2>4
  <2>5. CASE first # 1
    <3>1. first - 1 \in 1..(first - 1) /\ first - 1 \in 1..Len(history)
      BY <1>1, <2>1, <2>5
    <3>2. history[first - 1].sequence <= after
      BY <1>2, <3>1
    <3>3. history[first - 1].sequence = sequence - Len(history) + first - 1
      BY <1>1, <1>8, <2>1, <3>1
    <3> QED
      BY <1>1, <2>1, <2>2, <2>3, <2>5, <3>2, <3>3
  <2> QED
    BY <2>4, <2>5
<1>13. Truncated(after, records) <=> records # <<>> /\ OldestSequence > after + 1
  BY DEF Truncated
<1> QED
  BY <1>6, <1>9, <1>11, <1>12, <1>13 DEF records

\* What addRecord leaves, in terms of h, the history with the new record:
\* the records after the k oldest, for the least k at which the loop stops,
\* which is never all of them.
LEMMA AddRecordKeepsTheRest ==
  ASSUME TypeOK, NEW size \in Nat, AddRecord(size)
  PROVE  \E h \in Seq(Record) : \E k \in 0..Len(history) :
           /\ Len(h) = Len(history) + 1
           /\ \A i \in 1..Len(history) : h[i] = history[i]
           /\ h[Len(history) + 1] = [sequence |-> sequence + 1, size |-> size]
           /\ EvictionStops(h, historyBytes + size, k)
           /\ \A j \in 0..(k - 1) : ~EvictionStops(h, historyBytes + size, j)
           /\ history' \in Seq(Record)
           /\ Len(history') = Len(h) - k
           /\ \A i \in 1..Len(history') : history'[i] = h[k + i]
           /\ historyBytes' = (historyBytes + size) - Bytes(SubSeq(h, 1, k))
<1>1. PICK r : r = [sequence |-> sequence + 1, size |-> size]
  OBVIOUS
<1>2. r \in Record /\ Len(history) \in Nat
  BY <1>1, LenProperties DEF TypeOK, Record
<1>3. PICK h : h = Append(history, r)
  OBVIOUS
<1>4. /\ h \in Seq(Record)
      /\ Len(h) = Len(history) + 1
      /\ \A i \in 1..Len(history) : h[i] = history[i]
      /\ h[Len(history) + 1] = r
  BY <1>2, <1>3, AppendProperties DEF TypeOK
<1>5. PICK k \in 0..Len(h) :
        /\ EvictionStops(h, historyBytes + size, k)
        /\ \A j \in 0..(k - 1) : ~EvictionStops(h, historyBytes + size, j)
        /\ history' = SubSeq(h, k + 1, Len(h))
        /\ historyBytes' = (historyBytes + size) - Bytes(SubSeq(h, 1, k))
  <2>1. h = Append(history, [sequence |-> sequence + 1, size |-> size])
    BY <1>1, <1>3
  <2>2. \E k \in 0..Len(Append(history, [sequence |-> sequence + 1, size |-> size])) :
          /\ EvictionStops(Append(history, [sequence |-> sequence + 1, size |-> size]), historyBytes + size, k)
          /\ \A j \in 0..(k - 1) :
               ~EvictionStops(Append(history, [sequence |-> sequence + 1, size |-> size]), historyBytes + size, j)
          /\ history' = SubSeq(Append(history, [sequence |-> sequence + 1, size |-> size]), k + 1,
                               Len(Append(history, [sequence |-> sequence + 1, size |-> size])))
          /\ historyBytes' = (historyBytes + size)
                              - Bytes(SubSeq(Append(history, [sequence |-> sequence + 1, size |-> size]), 1, k))
    BY DEF AddRecord
  <2> QED
    BY <2>1, <2>2, Zenon
<1>6. k < Len(h)
  <2>1. SUFFICES ASSUME k = Len(h)
                 PROVE  FALSE
    BY <1>2, <1>4, <1>5
  <2>2. Len(h) - 1 \in 0..(k - 1) /\ Len(h) - (Len(h) - 1) <= 1
    BY <1>2, <1>4, <2>1
  <2> QED
    BY <1>5, <2>2 DEF EvictionStops
<1>7. \A i \in 1..Len(h) : h[i] \in Record
  BY <1>4, ElementOfSeq
<1>8. /\ history' \in Seq(Record)
      /\ Len(history') = Len(h) - k
      /\ \A i \in 1..Len(history') : history'[i] = h[k + i]
  <2>1. PICK m : m = k + 1
    OBVIOUS
  <2>2. m \in Int /\ Len(h) \in Int /\ m <= Len(h) /\ \A i \in m..Len(h) : i \in 1..Len(h)
    BY <1>2, <1>4, <1>5, <1>6, <2>1
  <2>3. \A i \in m..Len(h) : h[i] \in Record
    BY <1>7, <2>2
  <2>4. /\ SubSeq(h, m, Len(h)) \in Seq(Record)
        /\ Len(SubSeq(h, m, Len(h))) = Len(h) - m + 1
        /\ \A i \in 1..(Len(h) - m + 1) : SubSeq(h, m, Len(h))[i] = h[m + i - 1]
    BY <2>2, <2>3, SubSeqProperties
  <2>5. Len(h) - m + 1 = Len(h) - k /\ \A i \in 1..(Len(h) - k) : m + i - 1 = k + i
    BY <1>5, <2>1, <2>2
  <2> QED
    BY <1>5, <2>1, <2>4, <2>5
<1>9. k \in 0..Len(history)
  BY <1>2, <1>4, <1>5, <1>6
<1> QED
  BY <1>1, <1>4, <1>5, <1>8, <1>9

\* addRecord keeps the window consecutive and moves it forward.
LEMMA AddRecordMovesWindow ==
  ASSUME TypeOK, HistoryContiguous, NEW size \in Nat, AddRecord(size)
  PROVE  /\ history' \in Seq(Record)
         /\ sequence' = sequence + 1
         /\ HistoryContiguous'
         /\ OldestSequence <= OldestSequence'
<1>1. Len(history) \in Nat /\ sequence \in Nat /\ sequence' = sequence + 1
  BY LenProperties DEF TypeOK, AddRecord
<1>2. PICK h \in Seq(Record), k \in 0..Len(history) :
        /\ Len(h) = Len(history) + 1
        /\ \A i \in 1..Len(history) : h[i] = history[i]
        /\ h[Len(history) + 1] = [sequence |-> sequence + 1, size |-> size]
        /\ history' \in Seq(Record)
        /\ Len(history') = Len(h) - k
        /\ \A i \in 1..Len(history') : history'[i] = h[k + i]
  BY AddRecordKeepsTheRest, SMTT(60)
<1>3. Len(h) = Len(history) + 1 /\ h[Len(history) + 1].sequence = sequence + 1
  BY <1>2
<1>4. \A i \in 1..Len(h) : h[i] \in Record /\ h[i].sequence = sequence' - Len(h) + i
  <2>1. TAKE i \in 1..Len(h)
  <2>2. h[i] \in Record
    BY <1>3, ElementOfSeq
  <2>3. CASE i = Len(history) + 1
    BY <1>1, <1>3, <2>2, <2>3
  <2>4. CASE i # Len(history) + 1
    <3>1. i \in 1..Len(history)
      BY <1>1, <1>3, <2>4
    <3>2. h[i] = history[i] /\ history[i].sequence = sequence - Len(history) + i
      BY <1>2, <3>1 DEF HistoryContiguous
    <3> QED
      BY <1>1, <1>3, <2>2, <3>1, <3>2
  <2> QED
    BY <2>3, <2>4
<1>5. k \in Nat /\ k < Len(h)
  BY <1>1, <1>3
<1>6. history' \in Seq(Record) /\ Len(history') = Len(h) - k
  BY <1>2
<1>7. \A i \in 1..Len(history') : k + i \in 1..Len(h)
  BY <1>1, <1>3, <1>5, <1>6
<1>8. /\ history' \in Seq(Record)
      /\ Len(history') = Len(h) - k
      /\ \A i \in 1..Len(history') : history'[i] = h[k + i] /\ k + i \in 1..Len(h)
  BY <1>2, <1>7
<1>9. \A i \in 1..Len(history') : history'[i].sequence = sequence' - Len(history') + i
  <2>1. TAKE i \in 1..Len(history')
  <2>2. history'[i].sequence = sequence' - Len(h) + (k + i)
    BY <1>4, <1>8, <2>1
  <2>3. i \in Int /\ k \in Int /\ Len(h) \in Int /\ sequence' \in Int /\ Len(history') = Len(h) - k
    BY <1>1, <1>3, <1>5, <1>8
  <2>4. sequence' - Len(h) + (k + i) = sequence' - Len(history') + i
    BY <2>3
  <2> QED
    BY <2>2, <2>4
<1>10. history' # <<>> /\ 1 \in 1..Len(history')
  <2>1. Len(history') >= 1
    BY <1>1, <1>3, <1>5, <1>8
  <2> QED
    BY <1>8, <2>1, RecordNumbers
<1>11. HistoryContiguous'
  BY <1>9, <1>10 DEF HistoryContiguous
<1>12. OldestSequence <= OldestSequence'
  <2>1. OldestSequence' = sequence' - Len(history') + 1
    BY <1>9, <1>10 DEF OldestSequence
  <2>2. CASE history = <<>>
    BY <1>1, <1>3, <1>5, <1>8, <2>1, <2>2, EmptySeq DEF OldestSequence
  <2>3. CASE history # <<>>
    <3>1. 1 \in 1..Len(history)
      BY <1>1, <2>3, EmptySeq DEF TypeOK
    <3>2. OldestSequence = sequence - Len(history) + 1
      BY <2>3, <3>1 DEF OldestSequence, HistoryContiguous
    <3> QED
      BY <1>1, <1>3, <1>5, <1>8, <2>1, <3>2
  <2> QED
    BY <2>2, <2>3
<1> QED
  BY <1>1, <1>8, <1>11, <1>12

-----------------------------------------------------------------------------
(* The invariant.                                                          *)

LEMMA InitInv == Init => HistoryInv
<1> SUFFICES ASSUME Init
             PROVE  HistoryInv
  OBVIOUS
<1>1. Len(<<>>) = 0 /\ <<>> \in Seq(Record)
  BY EmptySeq
<1>2. NoResponse \in Response
  BY <1>1 DEF NoResponse, Response
<1>3. TypeOK
  BY <1>1, <1>2 DEF Init, TypeOK
<1>4. HistoryContiguous
  BY <1>1 DEF Init, HistoryContiguous
<1>5. ClientInv
  BY <1>1 DEF Init, ClientInv, CursorInRange, ResponseSound, NoResponse
<1>6. NoLostWakeup
  BY DEF Init, NoLostWakeup
<1>7. NoSilentLoss
  BY DEF Init, NoSilentLoss
<1> QED
  BY <1>3, <1>4, <1>5, <1>6, <1>7 DEF HistoryInv

LEMMA AddRecordInv ==
  ASSUME HistoryInv, NEW size \in Sizes, AddRecord(size)
  PROVE  HistoryInv'
<1> USE DEF HistoryInv
<1>1. size \in Nat
  BY HistoryAssumption
<1>2. /\ history' \in Seq(Record)
      /\ sequence' = sequence + 1
      /\ HistoryContiguous'
      /\ OldestSequence <= OldestSequence'
  BY <1>1, AddRecordMovesWindow
<1>3. notify' = notify + 1 /\ UNCHANGED clientVars
  BY DEF AddRecord, CloseNotify
<1>4. OldestSequence \in Nat /\ OldestSequence' \in Nat /\ sequence \in Nat
  <2>1. \A h \in Seq(Record) : h # <<>> => h[1].sequence \in Nat
    BY RecordNumbers
  <2> QED
    BY <1>2, <2>1 DEF TypeOK, OldestSequence
<1>5. TypeOK'
  BY <1>2, <1>3 DEF TypeOK, clientVars
<1>6. ClientInv'
  <2>1. SUFFICES ASSUME NEW c \in Clients
                 PROVE  CursorInRange(c)' /\ ResponseSound(c)' /\ (chan[c] <= notify)'
    BY DEF ClientInv
  <2>2. CursorInRange(c) /\ ResponseSound(c) /\ chan[c] <= notify
    BY DEF ClientInv
  <2>3. CursorInRange(c)'
    BY <1>2, <1>3, <1>4, <2>2 DEF CursorInRange, clientVars, TypeOK
  <2>4. resp[c].records \in Seq(Record)
    BY DEF TypeOK, Response
  <2>5. \A i \in 1..Len(resp[c].records) : resp[c].records[i].sequence \in Nat
    BY <2>4, RecordNumbers
  <2>6. resp[c].truncated => resp[c].records # <<>> /\ resp[c].records[1].sequence \in Nat
    BY <2>2, <2>4, <2>5, RecordNumbers DEF ResponseSound
  <2>7. resp' = resp /\ cursor' = cursor /\ pc' = pc
    BY <1>3 DEF clientVars
  <2>8. \A i \in 1..Len(resp[c].records) : resp[c].records[i].sequence <= sequence'
    BY <1>2, <1>4, <2>2, <2>5 DEF ResponseSound
  <2>9. resp[c].truncated => resp[c].records[1].sequence <= OldestSequence'
    BY <1>2, <1>4, <2>2, <2>6 DEF ResponseSound
  <2>10. ResponseSound(c)'
    BY <2>2, <2>7, <2>8, <2>9 DEF ResponseSound, NextAfter
  <2> QED
    BY <1>3, <2>2, <2>3, <2>10 DEF clientVars, TypeOK
<1>7. NoLostWakeup'
  BY <1>3 DEF NoLostWakeup, ClientInv, clientVars, TypeOK
<1>8. NoSilentLoss'
  BY <1>2, <1>3, <1>4 DEF NoSilentLoss, clientVars, TypeOK
<1> QED
  BY <1>2, <1>5, <1>6, <1>7, <1>8

\* Both snapshots of HandleRead produce a sound response.
LEMMA SnapshotSound ==
  ASSUME HistoryInv, NEW c \in Clients, NEW max \in Nat,
         Respond(c, RecordsAfter(cursor[c], max)), UNCHANGED <<storeVars, cursor>>
  PROVE  /\ resp' \in [Clients -> Response]
         /\ pc' = [pc EXCEPT ![c] = "responding"]
         /\ \A d \in Clients : ResponseSound(d)'
<1> USE DEF HistoryInv
<1> DEFINE records == RecordsAfter(cursor[c], max)
<1>1. cursor[c] \in Nat
  BY DEF TypeOK
<1>2. /\ records \in Seq(Record)
      /\ \A i \in 1..Len(records) :
           /\ records[i].sequence = records[1].sequence + i - 1
           /\ cursor[c] < records[i].sequence
           /\ records[i].sequence <= sequence
      /\ Truncated(cursor[c], records) <=> records # <<>> /\ records[1].sequence > cursor[c] + 1
      /\ Truncated(cursor[c], records) => records[1].sequence <= OldestSequence
  BY <1>1, RecordsAfterReturns
<1>3. /\ history' = history
      /\ sequence' = sequence
      /\ cursor' = cursor
  BY DEF storeVars
<1> HIDE DEF records
<1> DEFINE r == [records   |-> records,
                 nextAfter |-> NextAfter(cursor[c], records),
                 hasMore   |-> HasMore(cursor[c], records),
                 truncated |-> Truncated(cursor[c], records)]
<1>4. resp' = [resp EXCEPT ![c] = r] /\ pc' = [pc EXCEPT ![c] = "responding"]
  BY DEF Respond, records
<1>5. NextAfter(cursor[c], records) \in Nat
  <2>1. records # <<>> => Len(records) \in 1..Len(records)
    BY <1>2, RecordNumbers
  <2> QED
    BY <1>1, <1>2, <2>1, RecordNumbers DEF NextAfter
<1>6. HasMore(cursor[c], records) \in BOOLEAN /\ Truncated(cursor[c], records) \in BOOLEAN
  BY DEF HasMore, Truncated
<1>7. r \in Response
  BY <1>2, <1>5, <1>6 DEF Response
<1>8. resp' \in [Clients -> Response]
  BY <1>4, <1>7 DEF TypeOK
<1>9. ResponseSound(c)'
  <2>1. resp'[c] = r /\ pc'[c] = "responding"
    BY <1>4 DEF TypeOK
  <2>2. OldestSequence' = OldestSequence
    BY <1>3 DEF OldestSequence
  <2> QED
    BY <1>2, <1>3, <2>1, <2>2 DEF ResponseSound, NextAfter
<1>10. ASSUME NEW d \in Clients, d # c
       PROVE  ResponseSound(d)'
  <2>1. resp'[d] = resp[d] /\ pc'[d] = pc[d]
    BY <1>4, <1>10 DEF TypeOK
  <2>2. ResponseSound(d)
    BY DEF ClientInv
  <2> QED
    BY <1>3, <2>1, <2>2 DEF ResponseSound, NextAfter, OldestSequence
<1> QED
  BY <1>4, <1>8, <1>9, <1>10

\* RecordsAfter is empty exactly for a cursor that is not before the newest record.
LEMMA EmptyIsCaughtUp ==
  ASSUME TypeOK, HistoryContiguous, NEW after \in Nat, NEW max \in Nat \ {0}
  PROVE  RecordsAfter(after, max) = <<>> <=> after >= sequence
<1>1. Len(history) \in Nat /\ sequence \in Nat
  BY LenProperties DEF TypeOK
<1>2. ASSUME RecordsAfter(after, max) = <<>>
      PROVE  after >= sequence
  <2>1. FirstAfter(after) = Len(history) + 1
    BY <1>2, NoneAfter
  <2>2. CASE history = <<>>
    BY <1>1, <2>2 DEF HistoryContiguous
  <2>3. CASE history # <<>>
    <3>1. Len(history) \in 1..Len(history)
      BY <2>3, RecordNumbers DEF TypeOK
    <3>2. history[Len(history)].sequence = sequence
      BY <1>1, <3>1 DEF HistoryContiguous
    <3>3. \A i \in 1..(FirstAfter(after) - 1) : history[i].sequence <= after
      BY FirstAfterFinds
    <3>4. Len(history) \in 1..(FirstAfter(after) - 1)
      BY <1>1, <2>1, <3>1
    <3> QED
      BY <1>1, <3>2, <3>3, <3>4
  <2> QED
    BY <2>2, <2>3
<1>3. ASSUME RecordsAfter(after, max) # <<>>
      PROVE  after < sequence
  <2> DEFINE records == RecordsAfter(after, max)
  <2>1. /\ records \in Seq(Record)
        /\ \A i \in 1..Len(records) : after < records[i].sequence /\ records[i].sequence <= sequence
    BY RecordsAfterReturns
  <2> HIDE DEF records
  <2>2. 1 \in 1..Len(records) /\ records[1].sequence \in Nat
    BY <1>3, <2>1, RecordNumbers DEF records
  <2> QED
    BY <1>1, <2>1, <2>2
<1> QED
  BY <1>1, <1>2, <1>3

LEMMA RequestInv ==
  ASSUME HistoryInv, NEW c \in Clients, Request(c)
  PROVE  HistoryInv'
<1> USE DEF HistoryInv
<1>1. PICK max \in Limits, wait \in BOOLEAN :
        /\ limit' = [limit EXCEPT ![c] = max]
        /\ IF RecordsAfter(cursor[c], max) = <<>> /\ wait
           THEN /\ pc' = [pc EXCEPT ![c] = "waiting"]
                /\ chan' = [chan EXCEPT ![c] = notify]
                /\ UNCHANGED resp
           ELSE /\ Respond(c, RecordsAfter(cursor[c], max))
                /\ UNCHANGED chan
  BY DEF Request
<1>2. max \in Nat
  BY HistoryAssumption
<1>3. /\ UNCHANGED <<storeVars, cursor, start, seen, lost>>
      /\ UNCHANGED <<history, historyBytes, sequence, notify>>
  BY DEF Request, storeVars
<1>4. HistoryContiguous' /\ NoSilentLoss'
  BY <1>3 DEF HistoryContiguous, NoSilentLoss, OldestSequence
<1>5. \A d \in Clients : CursorInRange(d)'
  BY <1>3 DEF ClientInv, CursorInRange
<1>6. CASE RecordsAfter(cursor[c], max) = <<>> /\ wait
  <2>1. /\ pc' = [pc EXCEPT ![c] = "waiting"]
        /\ chan' = [chan EXCEPT ![c] = notify]
        /\ resp' = resp
    BY <1>1, <1>6
  <2>2. TypeOK'
    BY <1>1, <1>2, <1>3, <2>1 DEF TypeOK
  <2>3. \A d \in Clients : ResponseSound(d)'
    <3>1. pc[c] = "idle"
      BY DEF Request
    <3>2. \A d \in Clients : /\ ResponseSound(d)
                             /\ pc'[d] = "responding" <=> pc[d] = "responding"
      BY <2>1, <3>1 DEF ClientInv, TypeOK
    <3> QED
      BY <1>3, <2>1, <3>2 DEF ResponseSound, NextAfter, OldestSequence
  <2>4. \A d \in Clients : (chan[d] <= notify)'
    BY <1>3, <2>1 DEF ClientInv, TypeOK
  <2>5. cursor[c] >= sequence
    <3>1. cursor[c] \in Nat /\ max \in Nat \ {0}
      BY HistoryAssumption DEF TypeOK
    <3> QED
      BY <1>6, <3>1, EmptyIsCaughtUp
  <2>6. NoLostWakeup'
    BY <1>3, <2>1, <2>5 DEF NoLostWakeup, TypeOK
  <2> QED
    BY <1>4, <1>5, <2>2, <2>3, <2>4, <2>6 DEF ClientInv
<1>7. CASE ~(RecordsAfter(cursor[c], max) = <<>> /\ wait)
  <2>1. Respond(c, RecordsAfter(cursor[c], max)) /\ chan' = chan
    BY <1>1, <1>7
  <2>2. /\ resp' \in [Clients -> Response]
        /\ pc' = [pc EXCEPT ![c] = "responding"]
        /\ \A d \in Clients : ResponseSound(d)'
    BY <1>2, <1>3, <2>1, SnapshotSound
  <2>3. TypeOK'
    BY <1>1, <1>2, <1>3, <2>1, <2>2 DEF TypeOK
  <2>4. NoLostWakeup'
    BY <1>3, <2>1, <2>2 DEF NoLostWakeup, TypeOK
  <2> QED
    BY <1>3, <1>4, <1>5, <2>1, <2>2, <2>3, <2>4 DEF ClientInv
<1> QED
  BY <1>6, <1>7

LEMMA SecondSnapshotInv ==
  ASSUME HistoryInv, NEW c \in Clients, SecondSnapshot(c)
  PROVE  HistoryInv'
<1> USE DEF HistoryInv
<1>1. /\ UNCHANGED <<storeVars, cursor, limit, chan, start, seen, lost>>
      /\ UNCHANGED <<history, historyBytes, sequence, notify>>
      /\ limit[c] \in Nat
  BY DEF SecondSnapshot, storeVars, TypeOK
<1>2. /\ resp' \in [Clients -> Response]
      /\ pc' = [pc EXCEPT ![c] = "responding"]
      /\ \A d \in Clients : ResponseSound(d)'
  BY <1>1, SnapshotSound DEF SecondSnapshot
<1>3. TypeOK'
  BY <1>1, <1>2 DEF TypeOK
<1>4. HistoryContiguous' /\ NoSilentLoss'
  BY <1>1 DEF HistoryContiguous, NoSilentLoss, OldestSequence
<1>5. NoLostWakeup'
  BY <1>1, <1>2 DEF NoLostWakeup, TypeOK
<1>6. ClientInv'
  BY <1>1, <1>2 DEF ClientInv, CursorInRange
<1> QED
  BY <1>3, <1>4, <1>5, <1>6

LEMMA DisconnectInv ==
  ASSUME HistoryInv, NEW c \in Clients, Disconnect(c)
  PROVE  HistoryInv'
<1> USE DEF HistoryInv
<1>1. /\ pc' = [pc EXCEPT ![c] = "idle"]
      /\ resp' = [resp EXCEPT ![c] = NoResponse]
      /\ UNCHANGED <<storeVars, cursor, limit, chan, start, seen, lost>>
      /\ UNCHANGED <<history, historyBytes, sequence, notify>>
  BY DEF Disconnect, storeVars
<1>2. NoResponse \in Response /\ NoResponse.records = <<>> /\ Len(<<>>) = 0
  BY EmptySeq DEF NoResponse, Response
<1>3. TypeOK'
  BY <1>1, <1>2 DEF TypeOK
<1>4. HistoryContiguous' /\ NoSilentLoss'
  BY <1>1 DEF HistoryContiguous, NoSilentLoss, OldestSequence
<1>5. NoLostWakeup'
  BY <1>1 DEF NoLostWakeup, TypeOK
<1>6. ResponseSound(c)'
  <2>1. resp'[c] = NoResponse /\ pc'[c] = "idle"
    BY <1>1 DEF TypeOK
  <2> QED
    BY <1>2, <2>1 DEF ResponseSound, NoResponse
<1>7. \A d \in Clients \ {c} : ResponseSound(d)'
  <2>1. \A d \in Clients \ {c} : resp'[d] = resp[d] /\ pc'[d] = pc[d]
    BY <1>1 DEF TypeOK
  <2> QED
    BY <1>1, <2>1 DEF ClientInv, ResponseSound, NextAfter, OldestSequence
<1>8. ClientInv'
  BY <1>1, <1>6, <1>7 DEF ClientInv, CursorInRange
<1> QED
  BY <1>3, <1>4, <1>5, <1>8

LEMMA DiscoverInv ==
  ASSUME HistoryInv, NEW c \in Clients, Discover(c)
  PROVE  HistoryInv'
<1> USE DEF HistoryInv
<1>1. /\ pc[c] = "idle" /\ cursor[c] = 0
      /\ cursor' = [cursor EXCEPT ![c] = sequence]
      /\ start' = [start EXCEPT ![c] = sequence]
      /\ UNCHANGED <<storeVars, pc, limit, chan, resp, seen, lost>>
      /\ UNCHANGED <<history, historyBytes, sequence, notify>>
  BY DEF Discover, storeVars
<1>2. TypeOK'
  BY <1>1 DEF TypeOK
<1>3. HistoryContiguous'
  BY <1>1 DEF HistoryContiguous
<1>4. NoLostWakeup'
  BY <1>1 DEF NoLostWakeup, TypeOK
<1>5. start[c] = 0 /\ seen[c] = {} /\ lost[c] = {}
  BY <1>1 DEF ClientInv, CursorInRange, NoSilentLoss, TypeOK
<1>6. NoSilentLoss'
  BY <1>1, <1>5 DEF NoSilentLoss, OldestSequence, TypeOK
<1>7. \A d \in Clients : CursorInRange(d)'
  BY <1>1 DEF ClientInv, CursorInRange, TypeOK
<1>8. resp[c] = NoResponse /\ NoResponse.records = <<>> /\ Len(<<>>) = 0
  BY <1>1, EmptySeq DEF ClientInv, ResponseSound, NoResponse
<1>9. ResponseSound(c)'
  BY <1>1, <1>8 DEF ResponseSound, NoResponse
<1>10. \A d \in Clients \ {c} : ResponseSound(d)'
  <2>1. \A d \in Clients \ {c} : cursor'[d] = cursor[d]
    BY <1>1 DEF TypeOK
  <2> QED
    BY <1>1, <2>1 DEF ClientInv, ResponseSound, NextAfter, OldestSequence
<1> QED
  BY <1>1, <1>2, <1>3, <1>4, <1>6, <1>7, <1>9, <1>10 DEF ClientInv

\* What Receive takes in: the records from the first to the last of the
\* response, which is the client's new cursor.
LEMMA ReceivedNumbers ==
  ASSUME HistoryInv, NEW c \in Clients, pc[c] = "responding", resp[c].records # <<>>
  PROVE  LET records == resp[c].records
             first == records[1].sequence
             last == resp[c].nextAfter
         IN  /\ first \in Nat /\ last \in Nat
             /\ cursor[c] < first /\ first <= last /\ last <= sequence
             /\ {records[i].sequence : i \in 1..Len(records)} = first..last
             /\ resp[c].truncated <=> first > cursor[c] + 1
             /\ resp[c].truncated => first <= OldestSequence
<1> USE DEF HistoryInv
<1> DEFINE records == resp[c].records
           first == records[1].sequence
           last == resp[c].nextAfter
<1>1. records \in Seq(Record) /\ cursor[c] \in Nat /\ sequence \in Nat
  BY DEF TypeOK, Response
<1>2. /\ Len(records) \in Nat
      /\ 1 \in 1..Len(records)
      /\ \A i \in 1..Len(records) : records[i].sequence \in Nat
  BY <1>1, RecordNumbers
<1>3. /\ \A i \in 1..Len(records) :
           /\ records[i].sequence = first + i - 1
           /\ cursor[c] < records[i].sequence
           /\ records[i].sequence <= sequence
      /\ last = records[Len(records)].sequence
      /\ resp[c].truncated <=> first > cursor[c] + 1
      /\ resp[c].truncated => first <= OldestSequence
  BY DEF ClientInv, ResponseSound, NextAfter
<1> HIDE DEF records, last
<1>4. Len(records) \in 1..Len(records)
  BY <1>2
<1>5. first \in Nat /\ last = first + Len(records) - 1 /\ last <= sequence /\ cursor[c] < first
  BY <1>2, <1>3, <1>4
<1>6. ASSUME NEW n \in first..last
      PROVE  n \in {records[i].sequence : i \in 1..Len(records)}
  <2>1. n - first + 1 \in 1..Len(records)
    BY <1>2, <1>5
  <2>2. records[n - first + 1].sequence = n
    BY <1>3, <1>5, <2>1, SMTT(30)
  <2> QED
    BY <2>1, <2>2
<1>7. \A i \in 1..Len(records) : records[i].sequence \in first..last
  BY <1>2, <1>3, <1>5
<1>8. {records[i].sequence : i \in 1..Len(records)} = first..last
  BY <1>6, <1>7
<1> QED
  BY <1>2, <1>3, <1>5, <1>8 DEF records, last

LEMMA ReceiveInv ==
  ASSUME HistoryInv, NEW c \in Clients, Receive(c)
  PROVE  HistoryInv'
<1> USE DEF HistoryInv
<1> DEFINE records == resp[c].records
           numbers == {records[i].sequence : i \in 1..Len(records)}
<1>1. /\ pc[c] = "responding"
      /\ seen' = [seen EXCEPT ![c] = @ \cup numbers]
      /\ lost' = [lost EXCEPT ![c] =
           IF resp[c].truncated THEN @ \cup (cursor[c] + 1)..(records[1].sequence - 1) ELSE @]
      /\ cursor' = [cursor EXCEPT ![c] = resp[c].nextAfter]
      /\ pc' = [pc EXCEPT ![c] = "idle"]
      /\ resp' = [resp EXCEPT ![c] = NoResponse]
      /\ UNCHANGED <<storeVars, limit, chan, start>>
      /\ UNCHANGED <<history, historyBytes, sequence, notify>>
  BY DEF Receive, storeVars
<1>2. NoResponse \in Response /\ NoResponse.records = <<>> /\ Len(<<>>) = 0
  BY EmptySeq DEF NoResponse, Response
<1>3. cursor[c] \in Nat /\ sequence \in Nat /\ start[c] \in Nat /\ resp[c].nextAfter \in Nat
  BY DEF TypeOK, Response
<1>4. records \in Seq(Record)
  BY DEF TypeOK, Response
<1>5. numbers \subseteq Nat
  BY <1>4, RecordNumbers
<1>6. TypeOK'
  <2>1. seen' \in [Clients -> SUBSET Nat]
    BY <1>1, <1>5 DEF TypeOK
  <2>2. records # <<>> => records[1].sequence \in Nat
    BY <1>4, RecordNumbers
  <2>3. resp[c].truncated => records # <<>>
    BY DEF ClientInv, ResponseSound
  <2>4. resp[c].truncated => (cursor[c] + 1)..(records[1].sequence - 1) \subseteq Nat
    BY <1>3, <2>2, <2>3
  <2>5. lost' \in [Clients -> SUBSET Nat]
    BY <1>1, <2>4 DEF TypeOK
  <2> QED
    BY <1>1, <1>2, <1>3, <2>1, <2>5 DEF TypeOK
<1>7. HistoryContiguous'
  BY <1>1 DEF HistoryContiguous
<1>8. NoLostWakeup'
  BY <1>1 DEF NoLostWakeup, TypeOK
<1>9. /\ cursor[c] <= resp[c].nextAfter
      /\ resp[c].nextAfter <= sequence
      /\ seen'[c] \cup lost'[c] = (start[c] + 1)..resp[c].nextAfter
      /\ seen'[c] \cap lost'[c] = {}
      /\ \A n \in lost'[c] : n < OldestSequence
  <2>1. /\ seen[c] \cup lost[c] = (start[c] + 1)..cursor[c]
        /\ seen[c] \cap lost[c] = {}
        /\ \A n \in lost[c] : n < OldestSequence
        /\ start[c] <= cursor[c] /\ cursor[c] <= sequence
    BY DEF NoSilentLoss, ClientInv, CursorInRange
  <2>2. /\ seen'[c] = seen[c] \cup numbers
        /\ lost'[c] = IF resp[c].truncated
                      THEN lost[c] \cup (cursor[c] + 1)..(records[1].sequence - 1) ELSE lost[c]
    BY <1>1 DEF TypeOK
  <2>3. OldestSequence \in Nat
    BY RecordNumbers DEF OldestSequence, TypeOK
  <2>4. CASE records = <<>>
    <3>1. numbers = {} /\ ~resp[c].truncated /\ resp[c].nextAfter = cursor[c]
      BY <1>1, <1>2, <2>4 DEF ClientInv, ResponseSound, NextAfter
    <3> QED
      BY <1>3, <2>1, <2>2, <3>1
  <2>5. CASE records # <<>>
    <3> DEFINE first == records[1].sequence
               last == resp[c].nextAfter
    <3>1. /\ first \in Nat
          /\ cursor[c] < first /\ first <= last /\ last <= sequence
          /\ numbers = first..last
          /\ resp[c].truncated <=> first > cursor[c] + 1
          /\ resp[c].truncated => first <= OldestSequence
      BY <1>1, <2>5, ReceivedNumbers
    <3> HIDE DEF first, last, numbers
    <3>2. last \in Nat
      BY <1>3 DEF last
    <3>3. lost'[c] = lost[c] \cup (cursor[c] + 1)..(first - 1)
      BY <1>3, <2>2, <3>1 DEF first
    <3>4. seen'[c] = seen[c] \cup first..last
      BY <2>2, <3>1
    <3>5. (start[c] + 1)..last =
            (start[c] + 1)..cursor[c] \cup (cursor[c] + 1)..(first - 1) \cup first..last
      BY <1>3, <2>1, <3>1, <3>2
    <3>6. seen'[c] \cup lost'[c] = (start[c] + 1)..last
      BY <2>1, <3>3, <3>4, <3>5
    <3>7. seen[c] \subseteq (start[c] + 1)..cursor[c] /\ lost[c] \subseteq (start[c] + 1)..cursor[c]
      BY <2>1
    <3>8. seen'[c] \cap lost'[c] = {}
      BY <1>3, <2>1, <3>1, <3>2, <3>3, <3>4, <3>7
    <3>9. \A n \in lost'[c] : n < OldestSequence
      BY <1>3, <2>1, <2>3, <3>1, <3>3
    <3> QED
      BY <1>3, <3>1, <3>2, <3>6, <3>8, <3>9 DEF last
  <2> QED
    BY <2>4, <2>5
<1>10. cursor'[c] = resp[c].nextAfter /\ start' = start /\ OldestSequence' = OldestSequence
  BY <1>1 DEF TypeOK, OldestSequence
<1>11. \A d \in Clients \ {c} : /\ cursor'[d] = cursor[d] /\ seen'[d] = seen[d]
                                /\ lost'[d] = lost[d] /\ resp'[d] = resp[d] /\ pc'[d] = pc[d]
  BY <1>1 DEF TypeOK
<1>12. NoSilentLoss'
  BY <1>9, <1>10, <1>11 DEF NoSilentLoss
<1>13. ClientInv'
  <2>1. \A d \in Clients : CursorInRange(d)'
    BY <1>1, <1>3, <1>9, <1>10, <1>11 DEF ClientInv, CursorInRange
  <2>2. resp'[c] = NoResponse /\ pc'[c] = "idle"
    BY <1>1 DEF TypeOK
  <2>3. ResponseSound(c)'
    BY <1>2, <2>2 DEF ResponseSound, NoResponse
  <2>4. \A d \in Clients \ {c} : ResponseSound(d)'
    BY <1>1, <1>10, <1>11 DEF ClientInv, ResponseSound, NextAfter
  <2> QED
    BY <1>1, <2>1, <2>3, <2>4 DEF ClientInv
<1> QED
  BY <1>6, <1>7, <1>8, <1>12, <1>13

\* Every step keeps the invariant.
LEMMA StepInv == HistoryInv /\ [Next]_vars => HistoryInv'
<1> SUFFICES ASSUME HistoryInv, [Next]_vars
             PROVE  HistoryInv'
  OBVIOUS
<1>1. ASSUME NEW size \in Sizes, AddRecord(size)
      PROVE  HistoryInv'
  BY <1>1, AddRecordInv
<1>2. ASSUME NEW c \in Clients, Request(c)
      PROVE  HistoryInv'
  BY <1>2, RequestInv
<1>3. ASSUME NEW c \in Clients, Wake(c) \/ Timeout(c)
      PROVE  HistoryInv'
  BY <1>3, SecondSnapshotInv DEF Wake, Timeout
<1>4. ASSUME NEW c \in Clients, Disconnect(c)
      PROVE  HistoryInv'
  BY <1>4, DisconnectInv
<1>5. ASSUME NEW c \in Clients, Receive(c)
      PROVE  HistoryInv'
  BY <1>5, ReceiveInv
<1>6. ASSUME NEW c \in Clients, Discover(c)
      PROVE  HistoryInv'
  BY <1>6, DiscoverInv
<1>7. CASE UNCHANGED vars
  BY <1>7 DEF HistoryInv, TypeOK, HistoryContiguous, ClientInv, CursorInRange, ResponseSound,
              NextAfter, OldestSequence, NoLostWakeup, NoSilentLoss, vars, storeVars, clientVars
<1> QED
  BY <1>1, <1>2, <1>3, <1>4, <1>5, <1>6, <1>7 DEF Next

LEMMA Invariance == Spec => []HistoryInv
<1>1. Spec => Safety
  BY PTL DEF Spec
<1>2. Safety => []HistoryInv
  BY InitInv, StepInv, PTL DEF Safety
<1> QED
  BY <1>1, <1>2

-----------------------------------------------------------------------------
(* What Bytes, defined by recursion over the records, says of a part of a  *)
(* sequence: the total of a part is the difference of two running totals   *)
(* of the whole.                                                           *)

Below == {ss \in Nat \X Nat : ss[1] < ss[2]}

LEMMA BelowIsWellFounded == IsWellFoundedOn(Below, Nat)
<1>1. Below = OpToRel(<, Nat)
  BY DEF Below, OpToRel
<1> QED
  BY <1>1, NatLessThanWellFounded

LEMMA LeastExists ==
  ASSUME NEW S, S \subseteq Nat, S # {}
  PROVE  \E x \in S : \A y \in S : x <= y
<1>1. PICK x \in S : \A y \in S : ~(<<y, x>> \in Below)
  BY BelowIsWellFounded, WFMin
<1>2. ASSUME NEW y \in S, ~(x <= y)
      PROVE  FALSE
  <2>1. x \in Nat /\ y \in Nat /\ y < x
    BY <1>2
  <2>2. <<y, x>> \in Nat \X Nat /\ <<y, x>>[1] = y /\ <<y, x>>[2] = x
    BY <2>1
  <2>3. <<y, x>> \in Below
    BY <2>1, <2>2 DEF Below
  <2> QED
    BY <1>1, <2>3, Zenon
<1> QED
  BY <1>2

\* Induction over the natural numbers, for a set given by what its members
\* satisfy.
LEMMA NatSetInduction ==
  ASSUME NEW S, 0 \in S, \A n \in Nat : n \in S => n + 1 \in S
  PROVE  Nat \subseteq S
<1> SUFFICES ASSUME Nat \ S # {}
             PROVE  FALSE
  OBVIOUS
<1>1. PICK x \in Nat \ S : \A y \in Nat \ S : x <= y
  BY LeastExists
<1>2. x # 0 /\ x - 1 \in Nat
  BY <1>1
<1>3. x - 1 \in S
  BY <1>1, <1>2
<1> QED
  BY <1>1, <1>2, <1>3

\* f[i] is the total size of the first i of n records.
Totals(f, records, n) ==
  f = [i \in 0..n |-> IF i = 0 THEN 0 ELSE f[i - 1] + records[i].size]

LEMMA TotalsStep ==
  ASSUME NEW f, NEW records, NEW n \in Nat, Totals(f, records, n)
  PROVE  /\ f[0] = 0
         /\ \A i \in Nat : i + 1 <= n => f[i + 1] = f[i] + records[i + 1].size
<1>1. f = [i \in 0..n |-> IF i = 0 THEN 0 ELSE f[i - 1] + records[i].size]
  BY DEF Totals
<1>2. f[0] = 0
  <2>1. 0 \in 0..n
    OBVIOUS
  <2> QED
    BY <1>1, <2>1, Zenon
<1>3. ASSUME NEW i \in Nat, i + 1 <= n
      PROVE  f[i + 1] = f[i] + records[i + 1].size
  <2>1. i + 1 \in 0..n /\ i + 1 # 0 /\ (i + 1) - 1 = i
    BY <1>3
  <2> QED
    BY <1>1, <2>1
<1> QED
  BY <1>2, <1>3

LEMMA TotalsExist ==
  ASSUME NEW records
  PROVE  \A n \in Nat : \E f : Totals(f, records, n)
<1> DEFINE S == {n \in Nat : \E f : Totals(f, records, n)}
<1>1. 0 \in S
  <2>1. PICK f : f = [i \in 0..0 |-> 0]
    OBVIOUS
  <2>2. \A i \in 0..0 : (IF i = 0 THEN 0 ELSE f[i - 1] + records[i].size) = 0
    OBVIOUS
  <2>3. Totals(f, records, 0)
    BY <2>1, <2>2 DEF Totals
  <2> QED
    BY <2>3
<1>2. ASSUME NEW n \in Nat, n \in S
      PROVE  n + 1 \in S
  <2>1. PICK f : Totals(f, records, n)
    BY <1>2
  <2>2. f = [i \in 0..n |-> IF i = 0 THEN 0 ELSE f[i - 1] + records[i].size]
    BY <2>1 DEF Totals
  <2>3. PICK g : g = [i \in 0..(n + 1) |-> IF i = n + 1 THEN f[n] + records[n + 1].size ELSE f[i]]
    OBVIOUS
  <2>4. \A i \in 0..n : g[i] = f[i]
    BY <2>3
  <2>5. ASSUME NEW i \in 0..(n + 1)
        PROVE  g[i] = IF i = 0 THEN 0 ELSE g[i - 1] + records[i].size
    <3>1. CASE i = n + 1
      <4>1. g[n + 1] = f[n] + records[n + 1].size
        BY <2>3
      <4>2. g[n] = f[n] /\ n + 1 # 0 /\ (n + 1) - 1 = n
        BY <2>4
      <4> QED
        BY <3>1, <4>1, <4>2
    <3>2. CASE i # n + 1
      <4>1. i \in 0..n /\ (i # 0 => i - 1 \in 0..n)
        BY <3>2
      <4>2. g[i] = f[i] /\ (i # 0 => g[i - 1] = f[i - 1])
        BY <2>4, <4>1
      <4>3. f[i] = IF i = 0 THEN 0 ELSE f[i - 1] + records[i].size
        BY <2>2, <4>1, Zenon
      <4> QED
        BY <4>2, <4>3
    <3> QED
      BY <3>1, <3>2
  <2>6. g = [i \in 0..(n + 1) |-> g[i]]
    BY <2>3
  <2>7. Totals(g, records, n + 1)
    BY <2>5, <2>6 DEF Totals
  <2> QED
    BY <2>7
<1>3. Nat \subseteq S
  <2> HIDE DEF S
  <2> QED
    BY <1>1, <1>2, NatSetInduction
<1> QED
  BY <1>3

\* t holds the m records of s that follow its first d.
IsPart(t, m, s, d) == \A i \in 1..m : t[i] = s[d + i]

\* The running totals of a part that begins after the first d records.
LEMMA TotalsOfPart ==
  ASSUME NEW f, NEW s, NEW n \in Nat, Totals(f, s, n),
         NEW g, NEW t, NEW m \in Nat, Totals(g, t, m),
         NEW d \in Nat, d + m <= n,
         \A i \in 1..n : s[i].size \in Nat,
         IsPart(t, m, s, d)
  PROVE  /\ \A i \in 0..n : f[i] \in Nat
         /\ \A i \in 0..m : g[i] = f[d + i] - f[d]
<1> DEFINE R == {i \in Nat : i <= n => f[i] \in Nat}
           S == {i \in Nat : i <= m => g[i] = f[d + i] - f[d]}
<1>1. /\ f[0] = 0
      /\ \A i \in Nat : i + 1 <= n => f[i + 1] = f[i] + s[i + 1].size
  <2>1. n \in Nat /\ Totals(f, s, n)
    OBVIOUS
  <2>2. f[0] = 0
    BY <2>1, TotalsStep
  <2>3. \A i \in Nat : i + 1 <= n => f[i + 1] = f[i] + s[i + 1].size
    BY <2>1, TotalsStep
  <2> QED
    BY <2>2, <2>3
<1>2. /\ g[0] = 0
      /\ \A i \in Nat : i + 1 <= m => g[i + 1] = g[i] + t[i + 1].size
  <2>1. m \in Nat /\ Totals(g, t, m)
    OBVIOUS
  <2>2. g[0] = 0
    BY <2>1, TotalsStep
  <2>3. \A i \in Nat : i + 1 <= m => g[i + 1] = g[i] + t[i + 1].size
    BY <2>1, TotalsStep
  <2> QED
    BY <2>2, <2>3
<1>3. Nat \subseteq R
  <2>1. 0 \in R
    BY <1>1
  <2>2. ASSUME NEW i \in Nat, i \in R
        PROVE  i + 1 \in R
    <3>1. i + 1 <= n => i <= n /\ i + 1 \in 1..n /\ f[i + 1] = f[i] + s[i + 1].size
      BY <1>1
    <3>2. i + 1 <= n => f[i] \in Nat /\ s[i + 1].size \in Nat
      BY <2>2, <3>1
    <3> QED
      BY <3>1, <3>2
  <2> HIDE DEF R
  <2> QED
    BY <2>1, <2>2, NatSetInduction
<1>4. \A i \in 0..n : f[i] \in Nat
  BY <1>3
<1>5. Nat \subseteq S
  <2>1. 0 \in S
    <3>1. d \in 0..n /\ d + 0 = d
      OBVIOUS
    <3>2. f[d] \in Nat
      BY <1>4, <3>1
    <3>3. f[d + 0] - f[d] = 0
      BY <3>1, <3>2
    <3> QED
      BY <1>2, <3>3
  <2>2. ASSUME NEW i \in Nat, i \in S
        PROVE  i + 1 \in S
    <3> SUFFICES ASSUME i + 1 <= m
                 PROVE  g[i + 1] = f[d + (i + 1)] - f[d]
      OBVIOUS
    <3>1. i + 1 \in 1..m /\ d \in 0..n /\ d + i \in 0..n /\ (d + i) + 1 \in 1..n
      OBVIOUS
    <3>2. g[i] = f[d + i] - f[d]
      BY <2>2
    <3>3. g[i + 1] = g[i] + t[i + 1].size
      BY <1>2
    <3>4. t[i + 1] = s[(d + i) + 1]
      <4>1. t[i + 1] = s[d + (i + 1)] /\ d + (i + 1) = (d + i) + 1
        BY <3>1 DEF IsPart
      <4> QED
        BY <4>1
    <3>5. f[(d + i) + 1] = f[d + i] + s[(d + i) + 1].size
      BY <1>1, <3>1
    <3>6. s[(d + i) + 1].size \in Nat /\ f[d] \in Nat /\ f[d + i] \in Nat
      BY <1>4, <3>1
    <3>7. d + (i + 1) = (d + i) + 1
      OBVIOUS
    <3>8. t[i + 1].size = s[(d + i) + 1].size
      BY <3>4
    <3> HIDE <2>2
    <3> QED
      BY <3>2, <3>3, <3>5, <3>6, <3>7, <3>8
  <2> HIDE DEF S
  <2> QED
    BY <2>1, <2>2, NatSetInduction
<1> QED
  BY <1>4, <1>5

LEMMA BytesIsTheTotal ==
  ASSUME NEW s \in Seq(Record)
  PROVE  \E f : Totals(f, s, Len(s)) /\ Bytes(s) = f[Len(s)]
<1>1. Bytes(s) = (CHOOSE f : Totals(f, s, Len(s)))[Len(s)]
  BY Zenon DEF Bytes, Totals
<1>2. Len(s) \in Nat
  BY LenProperties
<1>3. \E f : Totals(f, s, Len(s))
  BY <1>2, TotalsExist
<1>4. Totals(CHOOSE f : Totals(f, s, Len(s)), s, Len(s))
  BY <1>3, Zenon
<1> QED
  BY <1>1, <1>4

\* The bytes of a part are the difference of two running totals.
LEMMA BytesOfPart ==
  ASSUME NEW s \in Seq(Record), NEW f, Totals(f, s, Len(s)),
         NEW t \in Seq(Record), NEW d \in Nat, d + Len(t) <= Len(s),
         \A i \in 1..Len(t) : t[i] = s[d + i]
  PROVE  /\ \A i \in 0..Len(s) : f[i] \in Nat
         /\ Bytes(t) = f[d + Len(t)] - f[d]
<1>1. Len(s) \in Nat /\ Len(t) \in Nat
  BY LenProperties
<1>2. \A i \in 1..Len(s) : s[i].size \in Nat
  <2>1. \A i \in 1..Len(s) : s[i] \in Record
    BY ElementOfSeq
  <2> QED
    BY <2>1 DEF Record
<1>3. PICK g : Totals(g, t, Len(t)) /\ Bytes(t) = g[Len(t)]
  BY BytesIsTheTotal
<1>4. /\ \A i \in 0..Len(s) : f[i] \in Nat
      /\ \A i \in 0..Len(t) : g[i] = f[d + i] - f[d]
  <2>1. IsPart(t, Len(t), s, d)
    BY DEF IsPart
  <2> QED
    BY <1>1, <1>2, <1>3, <2>1, TotalsOfPart
<1>5. Len(t) \in 0..Len(t)
  BY <1>1
<1> QED
  BY <1>3, <1>4, <1>5

-----------------------------------------------------------------------------
(* Eviction.                                                               *)

\* The count that the eviction loop keeps is that of what is held, it is
\* above the bound only for a single record, and the newest record it dropped
\* did not fit.
LEMMA AddRecordEvicts ==
  ASSUME TypeOK, HistoryContiguous, historyBytes = Bytes(history),
         NEW size \in Nat, AddRecord(size)
  PROVE  /\ historyBytes' = Bytes(history')
         /\ historyBytes' <= MaxHistoryBytes \/ Len(history') = 1
         /\ \A i \in 1..Len(history) :
              history[i].sequence + 1 = history'[1].sequence
                => history[i].size + historyBytes' > MaxHistoryBytes
<1>1. PICK h \in Seq(Record), k \in 0..Len(history) :
        /\ Len(h) = Len(history) + 1
        /\ \A i \in 1..Len(history) : h[i] = history[i]
        /\ h[Len(history) + 1] = [sequence |-> sequence + 1, size |-> size]
        /\ EvictionStops(h, historyBytes + size, k)
        /\ \A j \in 0..(k - 1) : ~EvictionStops(h, historyBytes + size, j)
        /\ history' \in Seq(Record)
        /\ Len(history') = Len(h) - k
        /\ \A i \in 1..Len(history') : history'[i] = h[k + i]
        /\ historyBytes' = (historyBytes + size) - Bytes(SubSeq(h, 1, k))
  BY AddRecordKeepsTheRest
<1>2. PICK n \in Nat : n = Len(history)
  BY LenProperties DEF TypeOK
<1>3. Len(h) = n + 1 /\ k \in 0..n /\ history \in Seq(Record) /\ sequence \in Nat
  BY <1>1, <1>2 DEF TypeOK
<1>4. PICK f : Totals(f, h, Len(h)) /\ Bytes(h) = f[Len(h)]
  BY BytesIsTheTotal
<1>5. \A i \in 1..(n + 1) : h[i] \in Record
  BY <1>3, ElementOfSeq
<1>6. /\ \A i \in 0..(n + 1) : f[i] \in Nat
      /\ Bytes(history) = f[n] - f[0]
  <2>1. /\ 0 \in Nat /\ 0 + Len(history) <= Len(h)
        /\ \A i \in 1..Len(history) : history[i] = h[0 + i]
        /\ 0 + Len(history) = n
    BY <1>1, <1>2, <1>3
  <2>2. /\ \A i \in 0..Len(h) : f[i] \in Nat
        /\ Bytes(history) = f[0 + Len(history)] - f[0]
    BY <1>3, <1>4, <2>1, BytesOfPart
  <2> QED
    BY <1>3, <2>1, <2>2
<1>7. f[0] = 0 /\ \A i \in Nat : i + 1 <= n + 1 => f[i + 1] = f[i] + h[i + 1].size
  BY <1>3, <1>4, TotalsStep
<1>8. historyBytes + size = f[n + 1]
  <2>1. f[n + 1] = f[n] + h[n + 1].size /\ h[n + 1].size = size
    BY <1>1, <1>2, <1>7
  <2>2. f[n] \in Nat
    BY <1>6
  <2>3. historyBytes = f[n] - 0
    BY <1>6, <1>7
  <2> QED
    BY <2>1, <2>2, <2>3
<1>9. ASSUME NEW j \in 0..n
      PROVE  Bytes(SubSeq(h, 1, j)) = f[j]
  <2>1. \A i \in 1..j : h[i] \in Record
    BY <1>5
  <2>2. PICK t : t = SubSeq(h, 1, j)
    OBVIOUS
  <2>3. /\ t \in Seq(Record)
        /\ Len(t) = IF 1 <= j THEN j - 1 + 1 ELSE 0
        /\ \A i \in 1..(j - 1 + 1) : t[i] = h[1 + i - 1]
    BY <2>1, <2>2, SubSeqProperties
  <2>4. Len(t) = j /\ \A i \in 1..j : t[i] = h[0 + i]
    <3>1. (IF 1 <= j THEN j - 1 + 1 ELSE 0) = j /\ j - 1 + 1 = j
      OBVIOUS
    <3>2. \A i \in 1..j : 1 + i - 1 = 0 + i
      OBVIOUS
    <3> QED
      BY <2>3, <3>1, <3>2
  <2>5. 0 \in Nat /\ 0 + Len(t) <= Len(h) /\ 0 + Len(t) = j
    BY <1>3, <2>4
  <2>6. Bytes(t) = f[0 + Len(t)] - f[0]
    <3>1. \A i \in 1..Len(t) : t[i] = h[0 + i]
      BY <2>4
    <3>2. Totals(f, h, Len(h)) /\ h \in Seq(Record) /\ t \in Seq(Record)
      BY <1>3, <1>4, <2>3
    <3> QED
      BY <2>5, <3>1, <3>2, BytesOfPart, ZenonT(30)
  <2>7. f[j] \in Nat
    BY <1>6
  <2>8. Bytes(t) = f[j] - 0
    BY <1>7, <2>5, <2>6
  <2> QED
    BY <2>2, <2>7, <2>8
<1>10. historyBytes' = f[n + 1] - f[k]
  <2>1. historyBytes' = (historyBytes + size) - Bytes(SubSeq(h, 1, k))
    BY <1>1
  <2>2. Bytes(SubSeq(h, 1, k)) = f[k]
    BY <1>3, <1>9
  <2> QED
    BY <1>8, <2>1, <2>2, Zenon
<1>11. Bytes(history') = f[n + 1] - f[k]
  <2>1. k \in Nat /\ k + Len(history') = n + 1 /\ Len(h) = n + 1
    BY <1>1, <1>3
  <2>2. history' \in Seq(Record) /\ \A i \in 1..Len(history') : history'[i] = h[k + i]
    BY <1>1
  <2>3. k + Len(history') <= Len(h)
    BY <2>1
  <2>4. Bytes(history') = f[k + Len(history')] - f[k]
    BY <1>4, <2>1, <2>2, <2>3, BytesOfPart
  <2> QED
    BY <2>1, <2>4
<1>12. \A j \in 0..n :
         EvictionStops(h, historyBytes + size, j) <=> f[n + 1] - f[j] <= MaxHistoryBytes \/ (n + 1) - j <= 1
  BY <1>3, <1>8, <1>9 DEF EvictionStops
<1>13. historyBytes' <= MaxHistoryBytes \/ Len(history') = 1
  <2>1. f[n + 1] - f[k] <= MaxHistoryBytes \/ (n + 1) - k <= 1
    BY <1>1, <1>3, <1>12
  <2>0. Len(history') = Len(h) - k
    BY <1>1
  <2>2. Len(history') = (n + 1) - k /\ k <= n /\ k \in Nat
    BY <1>3, <2>0
  <2>3. (n + 1) - k <= 1 => Len(history') = 1
    BY <2>2
  <2> QED
    BY <1>10, <2>1, <2>3
<1>14. ASSUME NEW i \in 1..Len(history), history[i].sequence + 1 = history'[1].sequence
       PROVE  history[i].size + historyBytes' > MaxHistoryBytes
  <2>1. i \in 1..n /\ i \in Nat
    BY <1>2
  <2>2. history[i].sequence = sequence - n + i
    BY <1>2 DEF HistoryContiguous
  <2>3. history'[1].sequence = sequence - n + (k + 1)
    <3>1. history'[1] = h[k + 1] /\ k + 1 \in 1..(n + 1)
      <4>1. 1 \in 1..Len(history')
        BY <1>1, <1>3
      <4> QED
        BY <1>1, <1>3, <4>1
    <3>2. CASE k + 1 = n + 1
      <4>1. h[n + 1].sequence = sequence + 1
        BY <1>1, <1>2
      <4>2. k = n
        BY <1>3, <3>2
      <4>3. history'[1].sequence = sequence + 1
        BY <3>1, <3>2, <4>1
      <4> QED
        BY <1>3, <4>2, <4>3
    <3>3. CASE k + 1 # n + 1
      <4>1. k + 1 \in 1..n
        BY <1>3, <3>3
      <4>2. h[k + 1] = history[k + 1]
        BY <1>1, <1>2, <4>1
      <4>3. history[k + 1].sequence = sequence - n + (k + 1)
        BY <1>2, <4>1 DEF HistoryContiguous
      <4> QED
        BY <3>1, <4>2, <4>3
    <3> QED
      BY <3>2, <3>3
  <2>4. i = k
    BY <1>3, <1>14, <2>1, <2>2, <2>3
  <2>5. k - 1 \in 0..n /\ k - 1 \in 0..(k - 1) /\ (k - 1) + 1 = k /\ k \in Nat
    BY <1>3, <2>1, <2>4
  <2>6. ~(f[n + 1] - f[k - 1] <= MaxHistoryBytes)
    BY <1>1, <1>12, <2>5
  <2>7. f[k] = f[k - 1] + h[k].size
    <3>1. k - 1 \in Nat /\ (k - 1) + 1 <= n + 1
      BY <1>3, <2>5
    <3>2. f[(k - 1) + 1] = f[k - 1] + h[(k - 1) + 1].size
      BY <1>7, <3>1
    <3> QED
      BY <2>5, <3>2
  <2>8. h[k].size = history[i].size /\ h[k].size \in Nat
    <3>1. h[k] = history[i]
      BY <1>1, <2>4
    <3>2. h[k] \in Record
      BY <1>5, <2>1, <2>4
    <3> QED
      BY <3>1, <3>2 DEF Record
  <2>9. f[k] \in Nat /\ f[k - 1] \in Nat /\ f[n + 1] \in Nat /\ MaxHistoryBytes \in Nat
    BY <1>3, <1>6, <2>5, HistoryAssumption
  <2> HIDE <1>14
  <2>10. history[i].size + (f[n + 1] - f[k]) > MaxHistoryBytes
    <3>1. PICK all \in Nat, before \in Nat, dropped \in Nat :
            all = f[n + 1] /\ before = f[k - 1] /\ dropped = history[i].size
      BY <2>8, <2>9
    <3>2. f[k] = before + dropped
      BY <2>7, <2>8, <3>1
    <3>3. ~(all - before <= MaxHistoryBytes) /\ MaxHistoryBytes \in Nat
      BY <2>6, <2>9, <3>1
    <3>4. dropped + (all - (before + dropped)) > MaxHistoryBytes
      BY <3>3
    <3> QED
      BY <3>1, <3>2, <3>4
  <2> QED
    BY <1>10, <2>10
<1> QED
  BY <1>10, <1>11, <1>13, <1>14

\* The byte count between two steps.
BytesCounted ==
  /\ historyBytes = Bytes(history)
  /\ historyBytes <= MaxHistoryBytes \/ Len(history) = 1

\* What a step of the property is about.
EvictionSound ==
  /\ historyBytes' = Bytes(history')
  /\ historyBytes' <= MaxHistoryBytes \/ Len(history') = 1
  /\ \A i \in 1..Len(history) :
       history[i].sequence + 1 = history'[1].sequence
         => history[i].size + historyBytes' > MaxHistoryBytes

LEMMA BytesCountedAtFirst == Init => BytesCounted
<1> SUFFICES ASSUME Init
             PROVE  BytesCounted
  OBVIOUS
<1>1. history = <<>> /\ historyBytes = 0 /\ history \in Seq(Record) /\ Len(history) = 0
  BY EmptySeq DEF Init
<1>2. PICK f : Totals(f, history, Len(history)) /\ Bytes(history) = f[Len(history)]
  BY <1>1, BytesIsTheTotal
<1>3. f[0] = 0
  BY <1>1, <1>2, TotalsStep
<1> QED
  BY <1>1, <1>2, <1>3, HistoryAssumption DEF BytesCounted

\* No step of a client touches the store.
LEMMA ClientsLeaveTheStore ==
  ASSUME NEW c \in Clients,
         Request(c) \/ Wake(c) \/ Timeout(c) \/ Disconnect(c) \/ Receive(c) \/ Discover(c)
  PROVE  UNCHANGED storeVars
BY DEF Request, Wake, Timeout, SecondSnapshot, Disconnect, Receive, Discover

LEMMA EveryStepEvictsSoundly ==
  ASSUME TypeOK, HistoryContiguous, BytesCounted, [Next]_vars
  PROVE  EvictionSound
<1>1. ASSUME NEW size \in Sizes, AddRecord(size)
      PROVE  EvictionSound
  <2>1. size \in Nat
    BY HistoryAssumption
  <2> QED
    BY <1>1, <2>1, AddRecordEvicts DEF BytesCounted, EvictionSound
<1>2. ASSUME UNCHANGED storeVars
      PROVE  EvictionSound
  <2>1. history' = history /\ historyBytes' = historyBytes
    BY <1>2 DEF storeVars
  <2>2. ASSUME NEW i \in 1..Len(history)
        PROVE  history[i].sequence + 1 # history[1].sequence
    <3>1. Len(history) \in Nat /\ sequence \in Nat /\ 1 \in 1..Len(history)
      BY <2>2, LenProperties DEF TypeOK
    <3>2. /\ history[i].sequence = sequence - Len(history) + i
          /\ history[1].sequence = sequence - Len(history) + 1
      BY <3>1 DEF HistoryContiguous
    <3> QED
      BY <3>1, <3>2
  <2>3. Bytes(history') = Bytes(history)
    BY <2>1
  <2> QED
    BY <2>1, <2>2, <2>3 DEF BytesCounted, EvictionSound
<1>3. UNCHANGED vars => UNCHANGED storeVars
  BY DEF vars
<1> QED
  BY <1>1, <1>2, <1>3, ClientsLeaveTheStore DEF Next

-----------------------------------------------------------------------------
(* The theorems.                                                           *)

\* Type correctness.
THEOREM TypeCorrect == Spec => []TypeOK
BY Invariance, PTL DEF HistoryInv

\* Eviction in addRecord keeps a window of consecutive records that ends at
\* the newest, whatever the sizes of the records.
THEOREM HistoryIsAWindow == Spec => []HistoryContiguous
BY Invariance, PTL DEF HistoryInv

\* Eviction is exact in every step of addRecord: the byte count is that of the
\* records held, it stays within the bound or one record is held, and no more
\* is dropped than the bound asks for.
THEOREM EvictionIsExact == Spec => EvictsWhatItMust
<1>1. Spec => Safety
  BY PTL DEF Spec
<1>2. HistoryInv => TypeOK /\ HistoryContiguous
  BY DEF HistoryInv
<1>3. HistoryInv /\ BytesCounted /\ [Next]_vars => EvictionSound
  BY <1>2, EveryStepEvictsSoundly
<1>4. EvictionSound => BytesCounted'
  BY DEF EvictionSound, BytesCounted
<1>5. HistoryInv /\ BytesCounted /\ [Next]_vars => BytesCounted'
  BY <1>3, <1>4
<1>6. Safety => []BytesCounted
  <2>1. Safety => []HistoryInv
    BY InitInv, StepInv, PTL DEF Safety
  <2> QED
    BY <1>5, <2>1, BytesCountedAtFirst, PTL DEF Safety
<1>7. EvictionSound => [EvictionSound]_vars
  OBVIOUS
<1>8. Spec => [][EvictionSound]_vars
  BY <1>1, <1>3, <1>6, Invariance, PTL DEF Safety
<1> QED
  BY <1>8 DEF EvictsWhatItMust, EvictionSound

\* A long poll in HandleRead never sleeps through a record, wherever the
\* record falls between its snapshot and its select.
THEOREM LongPollIsNotLost == Spec => []NoLostWakeup
BY Invariance, PTL DEF HistoryInv

\* Every record up to a client's cursor was delivered to it or reported as
\* truncated, and truncation is never reported falsely.
THEOREM LossIsReported == Spec => []NoSilentLoss
BY Invariance, PTL DEF HistoryInv

\* A response repeats nothing the client already accounted for.
THEOREM DeliveredAtMostOnce == Spec => []NothingRedelivered
<1>1. HistoryInv => NothingRedelivered
  <2> SUFFICES ASSUME HistoryInv, NEW c \in Clients, NEW i \in 1..Len(resp[c].records)
               PROVE  /\ resp[c].records[i].sequence \notin seen[c] \cup lost[c]
                      /\ \A j \in 1..Len(resp[c].records) : i < j =>
                             resp[c].records[i].sequence < resp[c].records[j].sequence
    BY DEF NothingRedelivered
  <2> DEFINE records == resp[c].records
  <2>2. records \in Seq(Record) /\ cursor[c] \in Nat
    BY DEF HistoryInv, TypeOK, Response
  <2>3. Len(records) \in Nat /\ \A j \in 1..Len(records) : records[j].sequence \in Nat
    BY <2>2, RecordNumbers
  <2>4. \A j \in 1..Len(records) :
          records[j].sequence = records[1].sequence + j - 1 /\ cursor[c] < records[j].sequence
    BY DEF HistoryInv, ClientInv, ResponseSound
  <2>5. seen[c] \cup lost[c] = (start[c] + 1)..cursor[c]
    BY DEF HistoryInv, NoSilentLoss
  <2>6. start[c] \in Nat /\ 1 \in 1..Len(records) /\ i \in Nat
    BY <2>3 DEF HistoryInv, TypeOK
  <2> HIDE DEF records
  <2>7. records[i].sequence \notin seen[c] \cup lost[c]
    BY <2>2, <2>3, <2>4, <2>5, <2>6 DEF records
  <2>8. \A j \in 1..Len(records) : i < j => records[i].sequence < records[j].sequence
    <3>1. TAKE j \in 1..Len(records)
    <3>2. /\ records[i].sequence = records[1].sequence + i - 1
          /\ records[j].sequence = records[1].sequence + j - 1
          /\ records[1].sequence \in Nat /\ i \in Nat /\ j \in Nat
      BY <2>3, <2>4, <2>6 DEF records
    <3> QED
      BY <3>2
  <2> QED
    BY <2>7, <2>8 DEF records
<1> QED
  BY <1>1, Invariance, PTL

\* The history and its long poll implement the safety part of CursorFeed:
\* adding a record publishes it, receiving a response that holds records
\* advances the reader, and every other step is a stutter.
THEOREM ImplementsFeedSafely == Spec => Feed!Safety
<1>1. Init => Feed!Init
  BY DEF Init, Feed!Init
<1>2. HistoryInv /\ [Next]_vars => [Feed!Next]_Feed!feedVars
  <2> SUFFICES ASSUME HistoryInv, [Next]_vars
               PROVE  Feed!Next \/ UNCHANGED Feed!feedVars
    OBVIOUS
  <2>1. ASSUME NEW size \in Sizes, AddRecord(size)
        PROVE  Feed!Publish
    BY <2>1 DEF AddRecord, clientVars, Feed!Publish
  <2>2. ASSUME NEW c \in Clients, Request(c) \/ Wake(c) \/ Timeout(c) \/ Disconnect(c)
        PROVE  UNCHANGED Feed!feedVars
    BY <2>2 DEF Request, Wake, Timeout, SecondSnapshot, Disconnect, storeVars, Feed!feedVars
  <2>3. ASSUME NEW c \in Clients, Receive(c)
        PROVE  Feed!Advance(c) \/ UNCHANGED Feed!feedVars
    <3> DEFINE records == resp[c].records
               numbers == {records[i].sequence : i \in 1..Len(records)}
               first == records[1].sequence
               last == resp[c].nextAfter
    <3>1. /\ pc[c] = "responding"
          /\ seen' = [seen EXCEPT ![c] = @ \cup numbers]
          /\ lost' = [lost EXCEPT ![c] =
               IF resp[c].truncated THEN @ \cup (cursor[c] + 1)..(first - 1) ELSE @]
          /\ cursor' = [cursor EXCEPT ![c] = last]
          /\ sequence' = sequence /\ start' = start
      BY <2>3 DEF Receive, storeVars
    <3>2. cursor[c] \in Nat /\ sequence \in Nat
      BY DEF HistoryInv, TypeOK
    <3>3. CASE records = <<>>
      <4>1. Len(records) = 0 /\ numbers = {}
        BY <3>3, EmptySeq
      <4>2. ~resp[c].truncated /\ last = cursor[c]
        BY <3>1, <3>3 DEF HistoryInv, ClientInv, ResponseSound, NextAfter
      <4> QED
        BY <3>1, <4>1, <4>2 DEF HistoryInv, TypeOK, Feed!feedVars
    <3>4. CASE records # <<>>
      <4>1. /\ first \in Nat /\ last \in Nat
            /\ cursor[c] < first /\ first <= last /\ last <= sequence
            /\ numbers = first..last
            /\ resp[c].truncated <=> first > cursor[c] + 1
        BY <3>1, <3>4, ReceivedNumbers
      <4> HIDE DEF numbers, first, last
      <4>2. last \in (cursor[c] + 1)..sequence /\ first \in (cursor[c] + 1)..last
        BY <3>2, <4>1
      <4>3. seen' = [seen EXCEPT ![c] = @ \cup first..last]
        BY <3>1, <4>1
      <4>4. lost' = [lost EXCEPT ![c] = @ \cup (cursor[c] + 1)..(first - 1)]
        <5>1. ~resp[c].truncated => (cursor[c] + 1)..(first - 1) = {}
          BY <3>2, <4>1
        <5> QED
          BY <3>1, <5>1 DEF HistoryInv, TypeOK
      <4> QED
        BY <3>1, <4>2, <4>3, <4>4 DEF Feed!Advance
    <3> QED
      BY <3>3, <3>4
  <2>4. ASSUME NEW c \in Clients, Discover(c)
        PROVE  Feed!Join(c)
    BY <2>4 DEF Discover, storeVars, Feed!Join
  <2>5. CASE UNCHANGED vars
    BY <2>5 DEF vars, storeVars, clientVars, Feed!feedVars
  <2> QED
    BY <2>1, <2>2, <2>3, <2>4, <2>5 DEF Next, Feed!Next
<1>3. Spec => Safety
  BY PTL DEF Spec
<1> QED
  BY <1>1, <1>2, <1>3, Invariance, PTL DEF Safety, Feed!Safety

\* The channel and the cursor of a long poll: it sleeps on the channel of the newest
\* record it has, with a limit that admits a record.
PollInv ==
  /\ notify = sequence
  /\ \A c \in Clients : pc[c] = "waiting" => limit[c] \in Limits /\ cursor[c] = chan[c]

LEMMA StepPoll == HistoryInv /\ PollInv /\ [Next]_vars => PollInv'
<1> SUFFICES ASSUME HistoryInv, PollInv, [Next]_vars
             PROVE  PollInv'
  OBVIOUS
<1> USE DEF HistoryInv
<1>1. ASSUME NEW size \in Sizes, AddRecord(size)
      PROVE  PollInv'
  BY <1>1 DEF AddRecord, CloseNotify, clientVars, PollInv
<1>2. ASSUME NEW c \in Clients, Request(c)
      PROVE  PollInv'
  <2>1. PICK max \in Limits, wait \in BOOLEAN :
          /\ limit' = [limit EXCEPT ![c] = max]
          /\ IF RecordsAfter(cursor[c], max) = <<>> /\ wait
             THEN /\ pc' = [pc EXCEPT ![c] = "waiting"]
                  /\ chan' = [chan EXCEPT ![c] = notify]
             ELSE /\ pc' = [pc EXCEPT ![c] = "responding"]
                  /\ chan' = chan
    BY <1>2 DEF Request, Respond
  <2>2. UNCHANGED <<cursor, notify, sequence>>
    BY <1>2 DEF Request, storeVars
  <2>3. cursor[c] \in Nat /\ max \in Nat \ {0} /\ cursor[c] <= sequence /\ sequence \in Nat
    BY HistoryAssumption DEF TypeOK, ClientInv, CursorInRange
  <2>4. RecordsAfter(cursor[c], max) = <<>> => cursor[c] = sequence
    BY <2>3, EmptyIsCaughtUp
  <2>5. ASSUME NEW d \in Clients, pc'[d] = "waiting"
        PROVE  limit'[d] \in Limits /\ cursor'[d] = chan'[d]
    <3>1. CASE d # c
      BY <2>1, <2>2, <2>5, <3>1 DEF PollInv, TypeOK
    <3>2. CASE d = c
      BY <2>1, <2>2, <2>4, <2>5, <3>2 DEF PollInv, TypeOK
    <3> QED
      BY <3>1, <3>2
  <2> QED
    BY <2>2, <2>5 DEF PollInv
<1>3. ASSUME NEW c \in Clients, Wake(c) \/ Timeout(c) \/ Disconnect(c)
      PROVE  PollInv'
  <2>1. UNCHANGED <<notify, sequence, limit, cursor, chan>>
    BY <1>3 DEF Wake, Timeout, SecondSnapshot, Disconnect, storeVars
  <2>2. \A d \in Clients : pc'[d] = "waiting" => pc[d] = "waiting"
    BY <1>3 DEF Wake, Timeout, SecondSnapshot, Respond, Disconnect, TypeOK
  <2> QED
    BY <2>1, <2>2 DEF PollInv
<1>4. ASSUME NEW c \in Clients, Receive(c) \/ Discover(c)
      PROVE  PollInv'
  <2>1. UNCHANGED <<notify, sequence, limit, chan>>
    BY <1>4 DEF Receive, Discover, storeVars
  <2>2. \A d \in Clients : pc'[d] = "waiting" => pc[d] = "waiting" /\ cursor'[d] = cursor[d]
    BY <1>4 DEF Receive, Discover, TypeOK
  <2> QED
    BY <2>1, <2>2 DEF PollInv
<1>5. CASE UNCHANGED vars
  BY <1>5 DEF vars, storeVars, clientVars, PollInv
<1> QED
  BY <1>1, <1>2, <1>3, <1>4, <1>5 DEF Next

\* A response made while there are newer records has the first of them and moves the
\* cursor on, one that says there is no more brings it up to the newest, and a long poll
\* that was woken, not timed out, never returns with nothing.
ReadsAdvance ==
  [][\A c \in Clients :
       /\ pc[c] # "responding" /\ pc'[c] = "responding" =>
            /\ resp'[c].records # <<>> <=> cursor[c] < sequence
            /\ cursor[c] < sequence => resp'[c].nextAfter > cursor[c]
            /\ ~resp'[c].hasMore => resp'[c].nextAfter = sequence
       /\ Wake(c) => cursor[c] < sequence]_vars

LEMMA SnapshotAdvances ==
  ASSUME HistoryInv, NEW c \in Clients, NEW max \in Limits, Respond(c, RecordsAfter(cursor[c], max))
  PROVE  /\ resp'[c].records # <<>> <=> cursor[c] < sequence
         /\ cursor[c] < sequence => resp'[c].nextAfter > cursor[c]
         /\ ~resp'[c].hasMore => resp'[c].nextAfter = sequence
<1> USE DEF HistoryInv
<1> DEFINE records == RecordsAfter(cursor[c], max)
<1>1. /\ cursor[c] \in Nat /\ sequence \in Nat /\ max \in Nat /\ max \in Nat \ {0}
      /\ cursor[c] <= sequence
  BY HistoryAssumption DEF TypeOK, ClientInv, CursorInRange
<1>2. records = <<>> <=> cursor[c] >= sequence
  BY <1>1, EmptyIsCaughtUp
<1>3. /\ records \in Seq(Record)
      /\ \A i \in 1..Len(records) : cursor[c] < records[i].sequence /\ records[i].sequence <= sequence
  BY <1>1, RecordsAfterReturns
<1>4. /\ resp'[c].records = records
      /\ resp'[c].nextAfter = NextAfter(cursor[c], records)
      /\ resp'[c].hasMore = HasMore(cursor[c], records)
  BY DEF Respond, TypeOK
<1> HIDE DEF records
<1>5. CASE records = <<>>
  BY <1>1, <1>2, <1>4, <1>5 DEF NextAfter, HasMore
<1>6. CASE records # <<>>
  <2>1. Len(records) \in 1..Len(records) /\ records[Len(records)].sequence \in Nat
    BY <1>3, <1>6, RecordNumbers
  <2>2. cursor[c] < records[Len(records)].sequence /\ records[Len(records)].sequence <= sequence
    BY <1>3, <2>1
  <2>3. resp'[c].nextAfter = records[Len(records)].sequence
    BY <1>4, <1>6 DEF NextAfter
  <2>4. resp'[c].hasMore <=> records[Len(records)].sequence < sequence
    BY <1>4, <1>6 DEF HasMore, NextAfter
  <2> QED
    BY <1>1, <1>2, <1>4, <1>6, <2>1, <2>2, <2>3, <2>4
<1> QED
  BY <1>5, <1>6

\* A client that asks again and again gets on with every answer, whatever its limit and
\* whatever is evicted meanwhile, and may stop when has_more says so; a wake-up is never
\* spurious.
THEOREM ReadsMakeProgress == Spec => ReadsAdvance
<1> DEFINE Advances == \A c \in Clients :
             /\ pc[c] # "responding" /\ pc'[c] = "responding" =>
                  /\ resp'[c].records # <<>> <=> cursor[c] < sequence
                  /\ cursor[c] < sequence => resp'[c].nextAfter > cursor[c]
                  /\ ~resp'[c].hasMore => resp'[c].nextAfter = sequence
             /\ Wake(c) => cursor[c] < sequence
<1>1. Init => PollInv
  BY DEF Init, PollInv
<1>2. HistoryInv /\ PollInv /\ [Next]_vars => [Advances]_vars
  <2> SUFFICES ASSUME HistoryInv, PollInv, [Next]_vars, ~UNCHANGED vars, NEW c \in Clients
               PROVE  /\ pc[c] # "responding" /\ pc'[c] = "responding" =>
                           /\ resp'[c].records # <<>> <=> cursor[c] < sequence
                           /\ cursor[c] < sequence => resp'[c].nextAfter > cursor[c]
                           /\ ~resp'[c].hasMore => resp'[c].nextAfter = sequence
                      /\ Wake(c) => cursor[c] < sequence
    BY DEF Advances
  <2>1. ASSUME pc[c] # "responding", pc'[c] = "responding"
        PROVE  \E max \in Limits : Respond(c, RecordsAfter(cursor[c], max))
    <3>1. ASSUME NEW d \in Clients, Request(d)
          PROVE  \E max \in Limits : Respond(c, RecordsAfter(cursor[c], max))
      <4>1. PICK max \in Limits : \/ pc' = [pc EXCEPT ![d] = "waiting"]
                                  \/ Respond(d, RecordsAfter(cursor[d], max))
        BY <3>1 DEF Request
      <4>2. d = c
        BY <2>1, <4>1 DEF Respond, HistoryInv, TypeOK
      <4> QED
        BY <2>1, <4>1, <4>2 DEF HistoryInv, TypeOK
    <3>2. ASSUME NEW d \in Clients, Wake(d) \/ Timeout(d)
          PROVE  \E max \in Limits : Respond(c, RecordsAfter(cursor[c], max))
      <4>1. Respond(d, RecordsAfter(cursor[d], limit[d])) /\ limit[d] \in Limits
        BY <3>2 DEF Wake, Timeout, SecondSnapshot, PollInv
      <4>2. d = c
        BY <2>1, <4>1 DEF Respond, HistoryInv, TypeOK
      <4> QED
        BY <4>1, <4>2
    <3>3. ASSUME NEW d \in Clients, Disconnect(d) \/ Receive(d) \/ Discover(d)
          PROVE  FALSE
      BY <2>1, <3>3 DEF Disconnect, Receive, Discover, HistoryInv, TypeOK
    <3>4. ASSUME NEW size \in Sizes, AddRecord(size)
          PROVE  FALSE
      BY <2>1, <3>4 DEF AddRecord, clientVars
    <3> QED
      BY <3>1, <3>2, <3>3, <3>4 DEF Next
  <2>2. Wake(c) => cursor[c] < sequence
    BY DEF Wake, PollInv, HistoryInv, TypeOK
  <2> QED
    BY <2>1, <2>2, SnapshotAdvances
<1> HIDE DEF Advances
<1>3. ReadsAdvance <=> [][Advances]_vars
  BY DEF ReadsAdvance, Advances
<1> QED
  BY <1>1, <1>2, <1>3, StepPoll, Invariance, PTL DEF Spec, Safety

\* What a client hears whose cursor is not before the newest record.
CaughtUpHearsNothing ==
  \A after \in Nat, max \in Limits :
    after >= sequence =>
      LET records == RecordsAfter(after, max) IN
      /\ records = <<>> /\ NextAfter(after, records) = after
      /\ ~HasMore(after, records) /\ ~Truncated(after, records)

\* The same holds of a cursor kept over a restart of the gateway, after which numbers
\* begin at 1 again: until they have passed it, its client gets no record, keeps the
\* cursor and is not told of a loss.
THEOREM CursorFromBeforeARestart == Spec => []CaughtUpHearsNothing
<1>1. HistoryInv => CaughtUpHearsNothing
  <2> SUFFICES ASSUME HistoryInv, NEW after \in Nat, NEW max \in Limits, after >= sequence
               PROVE  LET records == RecordsAfter(after, max) IN
                      /\ records = <<>> /\ NextAfter(after, records) = after
                      /\ ~HasMore(after, records) /\ ~Truncated(after, records)
    BY DEF CaughtUpHearsNothing
  <2>1. max \in Nat \ {0} /\ sequence \in Nat
    BY HistoryAssumption DEF HistoryInv, TypeOK
  <2>2. RecordsAfter(after, max) = <<>>
    BY <2>1, EmptyIsCaughtUp DEF HistoryInv
  <2> QED
    BY <2>1, <2>2 DEF NextAfter, HasMore, Truncated
<1> QED
  BY <1>1, Invariance, PTL

=============================================================================
