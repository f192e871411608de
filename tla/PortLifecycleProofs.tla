------------------------ MODULE PortLifecycleProofs -------------------------
(***************************************************************************)
(* Proofs about PortLifecycle for any number of threads, writers and       *)
(* handles.                                                                *)
(*                                                                         *)
(* The argument: a handle has one owner at a time.  A thread that opened   *)
(* it owns it until Attach; then the gateway does, and its loop carries    *)
(* the current generation; whoever takes it out of the gateway moves the   *)
(* generation on, so the loop of a handle that is no longer attached is    *)
(* always behind and leaves its successor alone.  A write in progress      *)
(* keeps everyone out of the critical sections that change the port.       *)
(***************************************************************************)
EXTENDS PortLifecycle, TLAPS

\* Attached now or before.
Started(h) == loop[h] # "none" \/ \E t \in Threads : pc[t] = "spawn" /\ held[t] = h

\* What a thread may assume of the handle in its hands.
HandInv(t) ==
  /\ pc[t] \in {"attach", "attachLock"} =>
       Open(held[t]) /\ loop[held[t]] = "none" /\ port # held[t]
  /\ pc[t] = "spawn" => loop[held[t]] = "none"
  /\ pc[t] = "closePort" => port # held[t]
  /\ held[t] # None => handle[held[t]] # "new"
  /\ pc[t] \in {"attach", "attachLock", "spawn"} =>
       \A u \in Threads \ {t} : held[u] = held[t] => pc[t] = "spawn" /\ pc[u] = "closePort"

\* Where a handle's loop and generation stand.
HandleInv(h) ==
  /\ handle[h] = "new" => loop[h] = "none" /\ port # h
  /\ loop[h] \in {"close", "done"} => port # h
  /\ loopGen[h] <= generation
  /\ Started(h) /\ port # h => loopGen[h] < generation

\* A write in progress is to the attached port.
UsingInv == \A w \in Writers : using[w] \in {None, port}

PortInv ==
  /\ TypeOK
  /\ \A t \in Threads : HandInv(t)
  /\ \A h \in Handles : HandleInv(h)
  /\ UsingInv
  /\ AttachedIsServed
  /\ NoLeakedHandle

LEMMA InitInv == Init => PortInv
<1> SUFFICES ASSUME Init
             PROVE  PortInv
  OBVIOUS
<1> USE PortAssumption DEF Init
<1>1. \A t \in Threads : held[t] = None /\ pc[t] = "idle"
  OBVIOUS
<1>2. \A h \in Handles : handle[h] = "new" /\ loop[h] = "none" /\ loopGen[h] = 0
  OBVIOUS
<1>3. TypeOK
  BY <1>1 DEF TypeOK
<1>4. \A t \in Threads : HandInv(t)
  BY <1>1 DEF HandInv
<1>5. \A h \in Handles : HandleInv(h)
  <2>1. ASSUME NEW h \in Handles
        PROVE  ~Started(h)
    <3>1. \A t \in Threads : pc[t] # "spawn"
      BY <1>1
    <3> QED
      BY <1>2, <3>1 DEF Started
  <2>2. port = None /\ generation = 0
    OBVIOUS
  <2>3. ASSUME NEW h \in Handles
        PROVE  HandleInv(h)
    <3>1. port # h /\ loop[h] = "none" /\ loopGen[h] = 0 /\ ~Started(h)
      BY <1>2, <2>1, <2>2
    <3> HIDE DEF Init
    <3> QED
      BY <2>2, <3>1 DEF HandleInv
  <2> QED
    BY <2>3
<1>6. UsingInv /\ AttachedIsServed /\ NoLeakedHandle
  BY <1>2 DEF UsingInv, AttachedIsServed, NoLeakedHandle, Open
<1> QED
  BY <1>3, <1>4, <1>5, <1>6 DEF PortInv

LEMMA SeeDisconnectedInv ==
  ASSUME PortInv, NEW t \in Threads, SeeDisconnected(t)
  PROVE  PortInv'
<1> USE PortAssumption DEF PortInv, SeeDisconnected, threadVars, loopVars
<1>1. TypeOK'
  BY DEF TypeOK
<1>2. \A x \in Threads : HandInv(x)'
  BY DEF TypeOK, HandInv, HandleInv, Open, Started
<1>3. \A x \in Handles : HandleInv(x)'
  BY DEF TypeOK, HandInv, HandleInv, Started, AttachedIsServed, Open
<1>4. UsingInv'
  BY DEF TypeOK, UsingInv
<1>5. AttachedIsServed'
  BY DEF TypeOK, HandInv, HandleInv, AttachedIsServed, Open
<1>6. NoLeakedHandle'
  BY DEF TypeOK, HandInv, HandleInv, Started, AttachedIsServed, NoLeakedHandle, Open
<1> QED
  BY <1>1, <1>2, <1>3, <1>4, <1>5, <1>6

LEMMA OpenSerialInv ==
  ASSUME PortInv, NEW t \in Threads, OpenSerial(t)
  PROVE  PortInv'
<1> USE PortAssumption DEF PortInv, OpenSerial, threadVars, loopVars
<1>1. TypeOK'
  BY DEF TypeOK
<1>2. \A x \in Threads : HandInv(x)'
  BY DEF TypeOK, HandInv, HandleInv, Open, Started
<1>3. \A x \in Handles : HandleInv(x)'
  BY DEF TypeOK, HandInv, HandleInv, Started, AttachedIsServed, Open
<1>4. UsingInv'
  BY DEF TypeOK, UsingInv
<1>5. AttachedIsServed'
  BY DEF TypeOK, HandInv, HandleInv, AttachedIsServed, Open
<1>6. NoLeakedHandle'
  BY DEF TypeOK, HandInv, HandleInv, Started, AttachedIsServed, NoLeakedHandle, Open
<1> QED
  BY <1>1, <1>2, <1>3, <1>4, <1>5, <1>6

LEMMA OpenFailsInv ==
  ASSUME PortInv, NEW t \in Threads, OpenFails(t)
  PROVE  PortInv'
<1> USE PortAssumption DEF PortInv, OpenFails, threadVars, loopVars
<1>1. TypeOK'
  BY DEF TypeOK
<1>2. \A x \in Threads : HandInv(x)'
  BY DEF TypeOK, HandInv, HandleInv, Open, Started
<1>3. \A x \in Handles : HandleInv(x)'
  BY DEF TypeOK, HandInv, HandleInv, Started, AttachedIsServed, Open
<1>4. UsingInv'
  BY DEF TypeOK, UsingInv
<1>5. AttachedIsServed'
  BY DEF TypeOK, HandInv, HandleInv, AttachedIsServed, Open
<1>6. NoLeakedHandle'
  BY DEF TypeOK, HandInv, HandleInv, Started, AttachedIsServed, NoLeakedHandle, Open
<1> QED
  BY <1>1, <1>2, <1>3, <1>4, <1>5, <1>6

LEMMA AttachCheckInv ==
  ASSUME PortInv, NEW t \in Threads, AttachCheck(t)
  PROVE  PortInv'
<1> USE PortAssumption DEF PortInv, AttachCheck, threadVars, loopVars
<1>1. TypeOK'
  BY DEF TypeOK
<1>2. \A x \in Threads : HandInv(x)'
  BY DEF TypeOK, HandInv, HandleInv, Open, Started
<1>3. \A x \in Handles : HandleInv(x)'
  BY DEF TypeOK, HandInv, HandleInv, Started, AttachedIsServed, Open
<1>4. UsingInv'
  BY DEF TypeOK, UsingInv
<1>5. AttachedIsServed'
  BY DEF TypeOK, HandInv, HandleInv, AttachedIsServed, Open
<1>6. NoLeakedHandle'
  BY DEF TypeOK, HandInv, HandleInv, Started, AttachedIsServed, NoLeakedHandle, Open
<1> QED
  BY <1>1, <1>2, <1>3, <1>4, <1>5, <1>6

LEMMA AttachInv ==
  ASSUME PortInv, NEW t \in Threads, Attach(t)
  PROVE  PortInv'
<1> USE PortAssumption DEF PortInv, Attach, Locked, NoReader, Refuse, Remember, threadVars, loopVars
<1>1. TypeOK'
  BY DEF TypeOK
<1>2. \A x \in Threads : HandInv(x)'
  BY DEF TypeOK, HandInv, HandleInv, Open, Started
<1>3. \A x \in Handles : HandleInv(x)'
  BY DEF TypeOK, HandInv, HandleInv, Started, AttachedIsServed, Open
<1>4. UsingInv'
  BY DEF TypeOK, UsingInv
<1>5. AttachedIsServed'
  BY DEF TypeOK, HandInv, HandleInv, AttachedIsServed, Open
<1>6. NoLeakedHandle'
  BY DEF TypeOK, HandInv, HandleInv, Started, AttachedIsServed, NoLeakedHandle, Open
<1> QED
  BY <1>1, <1>2, <1>3, <1>4, <1>5, <1>6

LEMMA SpawnInv ==
  ASSUME PortInv, NEW t \in Threads, Spawn(t)
  PROVE  PortInv'
<1> USE PortAssumption DEF PortInv, Spawn, threadVars, loopVars
<1>1. TypeOK'
  BY DEF TypeOK
<1>2. \A x \in Threads : HandInv(x)'
  BY DEF TypeOK, HandInv, HandleInv, Open, Started
<1>3. \A x \in Handles : HandleInv(x)'
  BY DEF TypeOK, HandInv, HandleInv, Started, AttachedIsServed, Open
<1>4. UsingInv'
  BY DEF TypeOK, UsingInv
<1>5. AttachedIsServed'
  BY DEF TypeOK, HandInv, HandleInv, AttachedIsServed, Open
<1>6. NoLeakedHandle'
  BY DEF TypeOK, HandInv, HandleInv, Started, AttachedIsServed, NoLeakedHandle, Open
<1> QED
  BY <1>1, <1>2, <1>3, <1>4, <1>5, <1>6

LEMMA SeeAbsentInv ==
  ASSUME PortInv, NEW t \in Threads, SeeAbsent(t)
  PROVE  PortInv'
<1> USE PortAssumption DEF PortInv, SeeAbsent, threadVars, loopVars
<1>1. TypeOK'
  BY DEF TypeOK
<1>2. \A x \in Threads : HandInv(x)'
  BY DEF TypeOK, HandInv, HandleInv, Open, Started
<1>3. \A x \in Handles : HandleInv(x)'
  BY DEF TypeOK, HandInv, HandleInv, Started, AttachedIsServed, Open
<1>4. UsingInv'
  BY DEF TypeOK, UsingInv
<1>5. AttachedIsServed'
  BY DEF TypeOK, HandInv, HandleInv, AttachedIsServed, Open
<1>6. NoLeakedHandle'
  BY DEF TypeOK, HandInv, HandleInv, Started, AttachedIsServed, NoLeakedHandle, Open
<1> QED
  BY <1>1, <1>2, <1>3, <1>4, <1>5, <1>6

LEMMA CloseInv ==
  ASSUME PortInv, NEW t \in Threads, Close(t)
  PROVE  PortInv'
<1> USE PortAssumption DEF PortInv, Close, threadVars, loopVars
<1>1. TypeOK'
  BY DEF TypeOK
<1>2. \A x \in Threads : HandInv(x)'
  BY DEF TypeOK, HandInv, HandleInv, Open, Started
<1>3. \A x \in Handles : HandleInv(x)'
  BY DEF TypeOK, HandInv, HandleInv, Started, AttachedIsServed, Open
<1>4. UsingInv'
  BY DEF TypeOK, UsingInv
<1>5. AttachedIsServed'
  BY DEF TypeOK, HandInv, HandleInv, AttachedIsServed, Open
<1>6. NoLeakedHandle'
  BY DEF TypeOK, HandInv, HandleInv, Started, AttachedIsServed, NoLeakedHandle, Open
<1> QED
  BY <1>1, <1>2, <1>3, <1>4, <1>5, <1>6

LEMMA DetachInv ==
  ASSUME PortInv, NEW t \in Threads, Detach(t)
  PROVE  PortInv'
<1> USE PortAssumption DEF PortInv, Detach, Locked, NoReader, CloseIfAttached, threadVars, loopVars
<1>1. TypeOK'
  BY DEF TypeOK
<1>2. \A x \in Threads : HandInv(x)'
  BY DEF TypeOK, HandInv, HandleInv, Open, Started
<1>3. \A x \in Handles : HandleInv(x)'
  BY DEF TypeOK, HandInv, HandleInv, Started, AttachedIsServed, Open
<1>4. UsingInv'
  BY DEF TypeOK, UsingInv
<1>5. AttachedIsServed'
  BY DEF TypeOK, HandInv, HandleInv, AttachedIsServed, Open
<1>6. NoLeakedHandle'
  BY DEF TypeOK, HandInv, HandleInv, Started, AttachedIsServed, NoLeakedHandle, Open
<1> QED
  BY <1>1, <1>2, <1>3, <1>4, <1>5, <1>6

LEMMA ClosePortInv ==
  ASSUME PortInv, NEW t \in Threads, ClosePort(t)
  PROVE  PortInv'
<1> USE PortAssumption DEF PortInv, ClosePort, threadVars, loopVars
<1>1. TypeOK'
  BY DEF TypeOK
<1>2. \A x \in Threads : HandInv(x)'
  BY DEF TypeOK, HandInv, HandleInv, Open, Started
<1>3. \A x \in Handles : HandleInv(x)'
  BY DEF TypeOK, HandInv, HandleInv, Started, AttachedIsServed, Open
<1>4. UsingInv'
  BY DEF TypeOK, UsingInv
<1>5. AttachedIsServed'
  BY DEF TypeOK, HandInv, HandleInv, AttachedIsServed, Open
<1>6. NoLeakedHandle'
  BY DEF TypeOK, HandInv, HandleInv, Started, AttachedIsServed, NoLeakedHandle, Open
<1> QED
  BY <1>1, <1>2, <1>3, <1>4, <1>5, <1>6

LEMMA UnplugInv ==
  ASSUME PortInv, NEW h \in Handles, Unplug(h)
  PROVE  PortInv'
<1> USE PortAssumption DEF PortInv, Unplug, threadVars, loopVars
<1>1. TypeOK'
  BY DEF TypeOK
<1>2. \A x \in Threads : HandInv(x)'
  BY DEF TypeOK, HandInv, HandleInv, Open, Started
<1>3. \A x \in Handles : HandleInv(x)'
  BY DEF TypeOK, HandInv, HandleInv, Started, AttachedIsServed, Open
<1>4. UsingInv'
  BY DEF TypeOK, UsingInv
<1>5. AttachedIsServed'
  BY DEF TypeOK, HandInv, HandleInv, AttachedIsServed, Open
<1>6. NoLeakedHandle'
  BY DEF TypeOK, HandInv, HandleInv, Started, AttachedIsServed, NoLeakedHandle, Open
<1> QED
  BY <1>1, <1>2, <1>3, <1>4, <1>5, <1>6

LEMMA ReadFailsInv ==
  ASSUME PortInv, NEW h \in Handles, ReadFails(h)
  PROVE  PortInv'
<1> USE PortAssumption DEF PortInv, ReadFails, ReadError, threadVars, loopVars
<1>1. TypeOK'
  BY DEF TypeOK
<1>2. \A x \in Threads : HandInv(x)'
  BY DEF TypeOK, HandInv, HandleInv, Open, Started
<1>3. \A x \in Handles : HandleInv(x)'
  BY DEF TypeOK, HandInv, HandleInv, Started, AttachedIsServed, Open
<1>4. UsingInv'
  BY DEF TypeOK, UsingInv
<1>5. AttachedIsServed'
  BY DEF TypeOK, HandInv, HandleInv, AttachedIsServed, Open
<1>6. NoLeakedHandle'
  BY DEF TypeOK, HandInv, HandleInv, Started, AttachedIsServed, NoLeakedHandle, Open
<1> QED
  BY <1>1, <1>2, <1>3, <1>4, <1>5, <1>6

LEMMA CheckCurrentInv ==
  ASSUME PortInv, NEW h \in Handles, CheckCurrent(h)
  PROVE  PortInv'
<1> USE PortAssumption DEF PortInv, CheckCurrent, threadVars, loopVars
<1>1. TypeOK'
  BY DEF TypeOK
<1>2. \A x \in Threads : HandInv(x)'
  BY DEF TypeOK, HandInv, HandleInv, Open, Started
<1>3. \A x \in Handles : HandleInv(x)'
  BY DEF TypeOK, HandInv, HandleInv, Started, AttachedIsServed, Open
<1>4. UsingInv'
  BY DEF TypeOK, UsingInv
<1>5. AttachedIsServed'
  BY DEF TypeOK, HandInv, HandleInv, AttachedIsServed, Open
<1>6. NoLeakedHandle'
  BY DEF TypeOK, HandInv, HandleInv, Started, AttachedIsServed, NoLeakedHandle, Open
<1> QED
  BY <1>1, <1>2, <1>3, <1>4, <1>5, <1>6

LEMMA ReleasePortInv ==
  ASSUME PortInv, NEW h \in Handles, ReleasePort(h)
  PROVE  PortInv'
<1> USE PortAssumption DEF PortInv, ReleasePort, Locked, NoReader, Current, threadVars, loopVars
<1>1. TypeOK'
  BY DEF TypeOK
<1>2. \A x \in Threads : HandInv(x)'
  BY DEF TypeOK, HandInv, HandleInv, Open, Started
<1>3. \A x \in Handles : HandleInv(x)'
  BY DEF TypeOK, HandInv, HandleInv, Started, AttachedIsServed, Open
<1>4. UsingInv'
  BY DEF TypeOK, UsingInv
<1>5. AttachedIsServed'
  BY DEF TypeOK, HandInv, HandleInv, AttachedIsServed, Open
<1>6. NoLeakedHandle'
  BY DEF TypeOK, HandInv, HandleInv, Started, AttachedIsServed, NoLeakedHandle, Open
<1> QED
  BY <1>1, <1>2, <1>3, <1>4, <1>5, <1>6

LEMMA LoopClosesInv ==
  ASSUME PortInv, NEW h \in Handles, LoopCloses(h)
  PROVE  PortInv'
<1> USE PortAssumption DEF PortInv, LoopCloses, threadVars, loopVars
<1>1. TypeOK'
  BY DEF TypeOK
<1>2. \A x \in Threads : HandInv(x)'
  BY DEF TypeOK, HandInv, HandleInv, Open, Started
<1>3. \A x \in Handles : HandleInv(x)'
  BY DEF TypeOK, HandInv, HandleInv, Started, AttachedIsServed, Open
<1>4. UsingInv'
  BY DEF TypeOK, UsingInv
<1>5. AttachedIsServed'
  BY DEF TypeOK, HandInv, HandleInv, AttachedIsServed, Open
<1>6. NoLeakedHandle'
  BY DEF TypeOK, HandInv, HandleInv, Started, AttachedIsServed, NoLeakedHandle, Open
<1> QED
  BY <1>1, <1>2, <1>3, <1>4, <1>5, <1>6

LEMMA AnnounceInv ==
  ASSUME PortInv, NEW a \in Threads \cup Handles, Announce(a)
  PROVE  PortInv'
<1> USE PortAssumption DEF PortInv, Announce, WantsLock, threadVars, loopVars
<1>1. TypeOK'
  BY DEF TypeOK
<1>2. \A x \in Threads : HandInv(x)'
  BY DEF TypeOK, HandInv, HandleInv, Open, Started
<1>3. \A x \in Handles : HandleInv(x)'
  BY DEF TypeOK, HandInv, HandleInv, Started, AttachedIsServed, Open
<1>4. UsingInv'
  BY DEF TypeOK, UsingInv
<1>5. AttachedIsServed'
  BY DEF TypeOK, HandInv, HandleInv, AttachedIsServed, Open
<1>6. NoLeakedHandle'
  BY DEF TypeOK, HandInv, HandleInv, Started, AttachedIsServed, NoLeakedHandle, Open
<1> QED
  BY <1>1, <1>2, <1>3, <1>4, <1>5, <1>6

LEMMA WriteBeginsInv ==
  ASSUME PortInv, NEW w \in Writers, WriteBegins(w)
  PROVE  PortInv'
<1> USE PortAssumption DEF PortInv, WriteBegins, NoReader, threadVars, loopVars
<1>1. TypeOK'
  BY DEF TypeOK
<1>2. \A x \in Threads : HandInv(x)'
  BY DEF TypeOK, HandInv, HandleInv, Open, Started
<1>3. \A x \in Handles : HandleInv(x)'
  BY DEF TypeOK, HandInv, HandleInv, Started, AttachedIsServed, Open
<1>4. UsingInv'
  BY DEF TypeOK, UsingInv
<1>5. AttachedIsServed'
  BY DEF TypeOK, HandInv, HandleInv, AttachedIsServed, Open
<1>6. NoLeakedHandle'
  BY DEF TypeOK, HandInv, HandleInv, Started, AttachedIsServed, NoLeakedHandle, Open
<1> QED
  BY <1>1, <1>2, <1>3, <1>4, <1>5, <1>6

LEMMA WriteReturnsInv ==
  ASSUME PortInv, NEW w \in Writers, WriteReturns(w)
  PROVE  PortInv'
<1> USE PortAssumption DEF PortInv, WriteReturns, threadVars, loopVars
<1>1. TypeOK'
  BY DEF TypeOK
<1>2. \A x \in Threads : HandInv(x)'
  BY DEF TypeOK, HandInv, HandleInv, Open, Started
<1>3. \A x \in Handles : HandleInv(x)'
  BY DEF TypeOK, HandInv, HandleInv, Started, AttachedIsServed, Open
<1>4. UsingInv'
  BY DEF TypeOK, UsingInv
<1>5. AttachedIsServed'
  BY DEF TypeOK, HandInv, HandleInv, AttachedIsServed, Open
<1>6. NoLeakedHandle'
  BY DEF TypeOK, HandInv, HandleInv, Started, AttachedIsServed, NoLeakedHandle, Open
<1> QED
  BY <1>1, <1>2, <1>3, <1>4, <1>5, <1>6

LEMMA StepInv == PortInv /\ [Next]_vars => PortInv'
<1> SUFFICES ASSUME PortInv, [Next]_vars
             PROVE  PortInv'
  OBVIOUS
<1>1. CASE \E t \in Threads :
             \/ SeeDisconnected(t) \/ OpenSerial(t) \/ OpenFails(t) \/ AttachCheck(t)
             \/ Attach(t) \/ Spawn(t) \/ SeeAbsent(t) \/ Close(t) \/ Detach(t) \/ ClosePort(t)
  BY <1>1, SeeDisconnectedInv, OpenSerialInv, OpenFailsInv, AttachCheckInv, AttachInv,
     SpawnInv, SeeAbsentInv, CloseInv, DetachInv, ClosePortInv
<1>2. CASE \E h \in Handles :
             Unplug(h) \/ ReadFails(h) \/ CheckCurrent(h) \/ ReleasePort(h) \/ LoopCloses(h)
  BY <1>2, UnplugInv, ReadFailsInv, CheckCurrentInv, ReleasePortInv, LoopClosesInv
<1>3. CASE \E a \in Threads \cup Handles : Announce(a)
  BY <1>3, AnnounceInv
<1>4. CASE \E w \in Writers : WriteBegins(w) \/ WriteReturns(w)
  BY <1>4, WriteBeginsInv, WriteReturnsInv
<1>5. CASE UNCHANGED vars
  BY <1>5 DEF PortInv, vars, threadVars, loopVars, TypeOK, HandInv, HandleInv, Started,
              UsingInv, AttachedIsServed, NoLeakedHandle, Open
<1> QED
  BY <1>1, <1>2, <1>3, <1>4, <1>5 DEF Next

LEMMA Invariance == Spec => []PortInv
BY InitInv, StepInv, PTL DEF Spec, Safety

-----------------------------------------------------------------------------
(* The theorems.                                                           *)

\* Type correctness, with the handle a thread holds where it needs one.
THEOREM TypeCorrect == Spec => []TypeOK
BY Invariance, PTL DEF PortInv

\* g.port is never a closed handle, nor one whose loop could not release it.
THEOREM AttachedPortIsServed == Spec => []AttachedIsServed
BY Invariance, PTL DEF PortInv

\* No goroutine closes a handle while Write is inside its port.Write, though
\* every Close happens outside portMu.
THEOREM WritesAreNotCutOff == Spec => []NoCloseDuringWrite
<1>1. PortInv => NoCloseDuringWrite
  BY DEF PortInv, UsingInv, AttachedIsServed, NoCloseDuringWrite, TypeOK
<1> QED
  BY <1>1, Invariance, PTL

\* Every open handle has somebody who will close or attach it.
THEOREM NothingLeaks == Spec => []NoLeakedHandle
BY Invariance, PTL DEF PortInv

\* Whoever takes a port out of the gateway goes on to close that port; the
\* loop of an earlier port never takes out its successor.
THEOREM RemovalIsOwned == Spec => RemovalHasAnOwner
<1> DEFINE Owned == \A h \in Handles :
                      port = h /\ port' # h =>
                        \/ loop'[h] = "close"
                        \/ \E t \in Threads : pc'[t] = "closePort" /\ held'[t] = h
<1>1. PortInv /\ [Next]_vars => [Owned]_vars
  <2> SUFFICES ASSUME PortInv, [Next]_vars, NEW h \in Handles, port = h, port' # h
               PROVE  \/ loop'[h] = "close"
                      \/ \E t \in Threads : pc'[t] = "closePort" /\ held'[t] = h
    BY DEF Owned
  <2> USE PortAssumption DEF PortInv
  <2>1. ASSUME NEW t \in Threads, Detach(t)
        PROVE  pc'[t] = "closePort" /\ held'[t] = h
    BY <2>1 DEF Detach, CloseIfAttached, TypeOK
  <2>2. ASSUME NEW g \in Handles, ReleasePort(g)
        PROVE  loop'[h] = "close"
    BY <2>2 DEF ReleasePort, Current, HandleInv, Started, TypeOK
  <2>3. ASSUME NEW t \in Threads,
               \/ SeeDisconnected(t) \/ OpenSerial(t) \/ OpenFails(t) \/ AttachCheck(t)
               \/ Attach(t) \/ Spawn(t) \/ SeeAbsent(t) \/ Close(t) \/ ClosePort(t)
        PROVE  FALSE
    BY <2>3 DEF SeeDisconnected, OpenSerial, OpenFails, AttachCheck, Attach, Spawn, SeeAbsent,
                Close, ClosePort
  <2>4. ASSUME NEW g \in Handles,
               Unplug(g) \/ ReadFails(g) \/ CheckCurrent(g) \/ LoopCloses(g)
        PROVE  FALSE
    BY <2>4 DEF Unplug, ReadFails, CheckCurrent, LoopCloses
  <2>5. ASSUME NEW a \in Threads \cup Handles, Announce(a)
        PROVE  FALSE
    BY <2>5 DEF Announce
  <2>6. ASSUME NEW w \in Writers, WriteBegins(w) \/ WriteReturns(w)
        PROVE  FALSE
    BY <2>6 DEF WriteBegins, WriteReturns
  <2>7. CASE UNCHANGED vars
    BY <2>7 DEF vars
  <2> QED
    BY <2>1, <2>2, <2>3, <2>4, <2>5, <2>6, <2>7 DEF Next
<1> QED
  BY <1>1, Invariance, PTL DEF Spec, Safety, RemovalHasAnOwner

\* A port that was taken out is never the gateway's again: not by a thread that held it
\* in its hands, and not while its loop is still ending.
TakenOutForGood ==
  [][\A h \in Handles : Started(h) /\ port # h => Started(h)' /\ port' # h]_vars

\* An attached handle has never been attached before, whatever opens, detaches and loops
\* that end late have overlapped: the loop of a handle belongs to its only attachment.
THEOREM TakenOutStaysOut == Spec => TakenOutForGood
<1> DEFINE StaysOut == \A h \in Handles : Started(h) /\ port # h => Started(h)' /\ port' # h
<1>1. PortInv /\ [Next]_vars => [StaysOut]_vars
  <2> SUFFICES ASSUME PortInv, [Next]_vars, NEW h \in Handles, Started(h), port # h
               PROVE  Started(h)' /\ port' # h
    BY DEF StaysOut
  <2> USE PortAssumption DEF PortInv, threadVars, loopVars
  <2>1. ASSUME NEW t \in Threads, Attach(t)
        PROVE  Started(h)' /\ port' # h
    <3>1. held[t] \in Handles /\ held[t] # h
      BY <2>1 DEF Attach, HandInv, Started, TypeOK
    <3>2. UNCHANGED <<held, loop>> /\ port' \in {port, held[t]}
      BY <2>1 DEF Attach, Refuse
    <3>3. \A u \in Threads : pc[u] = "spawn" => pc'[u] = "spawn"
      BY <2>1 DEF Attach, Refuse, TypeOK
    <3> QED
      BY <3>1, <3>2, <3>3 DEF Started
  <2>2. ASSUME NEW t \in Threads, Spawn(t)
        PROVE  Started(h)' /\ port' # h
    BY <2>2 DEF Spawn, Started, TypeOK
  <2>3. ASSUME NEW t \in Threads, Detach(t)
        PROVE  Started(h)' /\ port' # h
    BY <2>3 DEF Detach, CloseIfAttached, Started, TypeOK
  <2>4. ASSUME NEW t \in Threads,
               \/ SeeDisconnected(t) \/ OpenSerial(t) \/ OpenFails(t) \/ AttachCheck(t)
               \/ SeeAbsent(t) \/ Close(t) \/ ClosePort(t)
        PROVE  Started(h)' /\ port' # h
    BY <2>4 DEF SeeDisconnected, OpenSerial, OpenFails, AttachCheck, SeeAbsent, Close, ClosePort,
                Started, TypeOK
  <2>5. ASSUME NEW g \in Handles,
               Unplug(g) \/ ReadFails(g) \/ CheckCurrent(g) \/ ReleasePort(g) \/ LoopCloses(g)
        PROVE  Started(h)' /\ port' # h
    <3>1. UNCHANGED <<pc, held>> /\ port' \in {port, None}
      BY <2>5 DEF Unplug, ReadFails, CheckCurrent, ReleasePort, LoopCloses
    <3>2. loop[h] # "none" => loop'[h] # "none"
      BY <2>5 DEF Unplug, ReadFails, CheckCurrent, ReleasePort, LoopCloses, TypeOK
    <3> QED
      BY <3>1, <3>2 DEF Started
  <2>6. ASSUME NEW a, \/ Announce(a)
                      \/ a \in Writers /\ (WriteBegins(a) \/ WriteReturns(a))
                      \/ UNCHANGED vars
        PROVE  Started(h)' /\ port' # h
    BY <2>6 DEF Announce, WriteBegins, WriteReturns, vars, Started
  <2> QED
    BY <2>1, <2>2, <2>3, <2>4, <2>5, <2>6 DEF Next
<1> QED
  BY <1>1, Invariance, PTL DEF Spec, Safety, TakenOutForGood

\* Who waits for portMu still wants it, and waits for one write at most, which goes to an
\* open handle.
OneWriteToWaitFor ==
  /\ waiter # None => WantsLock(waiter)
  /\ \A v, w \in Writers : using[v] # None /\ using[w] # None => v = w
  /\ \A w \in Writers : using[w] # None => using[w] = port /\ Open(port)

\* A goroutine that is to attach, detach or release a port is held up by a single
\* port.Write, to the port it waits for: the mutex is never left announced by one that has
\* gone, and no chain of writers forms.
THEOREM LockWaitsForOneWrite == Spec => []OneWriteToWaitFor
<1>1. Init => OneWriteToWaitFor
  BY DEF Init, OneWriteToWaitFor
<1>2. PortInv /\ OneWriteToWaitFor /\ [Next]_vars => OneWriteToWaitFor'
  <2> SUFFICES ASSUME PortInv, PortInv', OneWriteToWaitFor, [Next]_vars
               PROVE  OneWriteToWaitFor'
    BY StepInv
  <2> USE PortAssumption DEF PortInv, threadVars, loopVars
  <2>1. \A w \in Writers : using'[w] # None => using'[w] = port' /\ Open(port)'
    BY DEF UsingInv, AttachedIsServed, TypeOK
  <2>2. \A v, w \in Writers : using'[v] # None /\ using'[w] # None => v = w
    <3>1. ASSUME NEW w \in Writers, WriteBegins(w)
          PROVE  \A v \in Writers \ {w} : using'[v] = None
      BY <3>1 DEF WriteBegins, NoReader, TypeOK
    <3>2. ASSUME NEW w \in Writers, WriteReturns(w)
          PROVE  \A v \in Writers : using'[v] # None => using[v] # None
      BY <3>2 DEF WriteReturns, TypeOK
    <3>3. ASSUME ~ \E w \in Writers : WriteBegins(w) \/ WriteReturns(w)
          PROVE  UNCHANGED using
      BY <3>3 DEF Next, SeeDisconnected, OpenSerial, OpenFails, AttachCheck, Attach, Spawn,
         SeeAbsent, Close, Detach, ClosePort, Unplug, ReadFails, CheckCurrent, ReleasePort,
         LoopCloses, Announce, vars
    <3> QED
      BY <3>1, <3>2, <3>3 DEF OneWriteToWaitFor
  <2>3. waiter' # None => WantsLock(waiter)'
    <3>1. ASSUME NEW a, Announce(a)
          PROVE  WantsLock(waiter)'
      BY <3>1 DEF Announce, WantsLock
    <3>2. ASSUME NEW t \in Threads, Attach(t) \/ Detach(t)
          PROVE  waiter' = None
      BY <3>2 DEF Attach, Detach, Locked
    <3>3. ASSUME NEW h \in Handles, ReleasePort(h)
          PROVE  waiter' = None
      BY <3>3 DEF ReleasePort, Locked
    <3>4. ASSUME NEW t \in Threads,
                 \/ SeeDisconnected(t) \/ OpenSerial(t) \/ OpenFails(t) \/ AttachCheck(t)
                 \/ Spawn(t) \/ SeeAbsent(t) \/ Close(t) \/ ClosePort(t)
          PROVE  waiter' = waiter /\ (waiter # None /\ WantsLock(waiter) => WantsLock(waiter)')
      <4>1. /\ waiter' = waiter
            /\ \A u \in Threads : pc[u] \in {"attachLock", "detachLock"} => pc'[u] = pc[u]
            /\ \A h \in Handles : loop[h] = "exit" => loop'[h] = "exit"
        BY <3>4 DEF SeeDisconnected, OpenSerial, OpenFails, AttachCheck, SeeAbsent, Close,
                    ClosePort, Spawn, HandInv, TypeOK
      <4> QED
        BY <4>1 DEF WantsLock, TypeOK
    <3>5. ASSUME NEW h \in Handles, Unplug(h) \/ ReadFails(h) \/ CheckCurrent(h) \/ LoopCloses(h)
          PROVE  waiter' = waiter /\ (waiter # None /\ WantsLock(waiter) => WantsLock(waiter)')
      <4>1. /\ UNCHANGED <<waiter, pc>>
            /\ \A g \in Handles : loop[g] = "exit" => loop'[g] = "exit"
        BY <3>5 DEF Unplug, ReadFails, CheckCurrent, LoopCloses, TypeOK
      <4> QED
        BY <4>1 DEF WantsLock, TypeOK
    <3>6. ASSUME UNCHANGED <<waiter, pc, loop>>
          PROVE  waiter' # None => WantsLock(waiter)'
      BY <3>6 DEF OneWriteToWaitFor, WantsLock
    <3>7. ASSUME NEW w \in Writers, WriteBegins(w) \/ WriteReturns(w)
          PROVE  UNCHANGED <<waiter, pc, loop>>
      BY <3>7 DEF WriteBegins, WriteReturns
    <3>8. CASE UNCHANGED vars
      BY <3>6, <3>8 DEF vars
    <3> QED
      BY <3>1, <3>2, <3>3, <3>4, <3>5, <3>6, <3>7, <3>8 DEF Next, OneWriteToWaitFor
  <2> QED
    BY <2>1, <2>2, <2>3 DEF OneWriteToWaitFor
<1> QED
  BY <1>1, <1>2, Invariance, PTL DEF Spec, Safety

=============================================================================
