--------------------------- MODULE PortLifecycle ----------------------------
(***************************************************************************)
(* The life of the serial handle of one SerialGateway: Attach, Detach,     *)
(* Close, the read loop that ends when its handle fails, and Write, which  *)
(* holds portMu for reading across a port.Write that may block             *)
(* (gateway.go), driven by the branches of App.Reconcile that open and     *)
(* drop a port (app.go).                                                   *)
(*                                                                         *)
(* portMu is a Go RWMutex.  A goroutine that calls Lock is first the       *)
(* waiter, from which moment RLock blocks, and proceeds when no reader is  *)
(* left; the critical sections of the writers never block, so each is one  *)
(* step.  Those of the readers are one step too, except in Write: its      *)
(* readers are the writes in progress.                                     *)
(***************************************************************************)
EXTENDS Naturals

CONSTANTS
  Handles,        \* what openSerial returns, a fresh handle at every call
  Threads,        \* goroutines that run Reconcile or Close
  Writers,        \* goroutines in Write: TCP, Telnet, WebSocket, HTTP
  None,           \* nil
  MaxGeneration   \* bound on generation, beyond which no Detach begins

ASSUME PortAssumption ==
  /\ None \notin Handles \cup Threads \cup Writers
  /\ Handles \cap Threads = {}
  /\ MaxGeneration \in Nat

VARIABLES
  port,         \* g.port
  generation,   \* g.generation
  closed,       \* g.closed
  waiter,       \* who has called portMu.Lock and not got it yet
  using,        \* the handle in the port.Write of each writer
  handle,       \* what became of each handle
  pc,           \* where each thread is
  held,         \* the handle each thread has in a local variable
  loop,         \* where the read loop of each handle is
  loopGen       \* the generation given to that loop

threadVars == <<pc, held>>
loopVars == <<loop, loopGen>>
vars == <<port, generation, closed, waiter, using, handle, threadVars, loopVars>>

Open(h) == handle[h] \in {"open", "failed"}
ReaderMayEnter == waiter = None
NoReader == \A w \in Writers : using[w] = None

-----------------------------------------------------------------------------
(* portMu.Lock: announce, and later enter the critical section.            *)

WantsLock(a) == IF a \in Threads THEN pc[a] \in {"attachLock", "detachLock"}
                ELSE loop[a] = "exit"

Announce(a) ==
  /\ WantsLock(a)
  /\ waiter = None
  /\ waiter' = a
  /\ UNCHANGED <<port, generation, closed, using, handle, threadVars, loopVars>>

LockedBesideReaders(a) ==
  /\ waiter = a
  /\ waiter' = None

\* portMu.Lock returns; the critical section and the unlock are the same step.
Locked(a) ==
  /\ waiter = a
  /\ NoReader
  /\ waiter' = None

-----------------------------------------------------------------------------
(* Reconcile, for a port that is listed and allowed: open and attach.      *)

\* Connected() returned false.
SeeDisconnected(t) ==
  /\ pc[t] = "idle"
  /\ ReaderMayEnter
  /\ port = None
  /\ pc' = [pc EXCEPT ![t] = "open"]
  /\ UNCHANGED <<port, generation, closed, waiter, using, handle, held, loopVars>>

\* openSerial returns a handle.
OpenSerial(t) ==
  /\ pc[t] = "open"
  /\ \E h \in Handles :
       /\ handle[h] = "new"
       /\ handle' = [handle EXCEPT ![h] = "open"]
       /\ held' = [held EXCEPT ![t] = h]
  /\ pc' = [pc EXCEPT ![t] = "attach"]
  /\ UNCHANGED <<port, generation, closed, waiter, using, loopVars>>

\* openSerial fails.
OpenFails(t) ==
  /\ pc[t] = "open"
  /\ pc' = [pc EXCEPT ![t] = "idle"]
  /\ UNCHANGED <<port, generation, closed, waiter, using, handle, held, loopVars>>

\* Attach, up to portMu.Lock: closed is read before the lock is taken.
AttachCheck(t) ==
  /\ pc[t] = "attach"
  /\ pc' = [pc EXCEPT ![t] = IF closed THEN "closePort" ELSE "attachLock"]
  /\ UNCHANGED <<port, generation, closed, waiter, using, handle, held, loopVars>>

RemembersBefore(h) == loopGen' = [loopGen EXCEPT ![h] = generation]

\* The read loop is given the generation of its own attachment.
Remember(h) == loopGen' = [loopGen EXCEPT ![h] = generation']

DropsRefused(t) == pc' = [pc EXCEPT ![t] = "idle"]

\* Attach returns false, and Reconcile closes what it opened.
Refuse(t) == pc' = [pc EXCEPT ![t] = "closePort"]

\* Attach, in the critical section.
Attach(t) ==
  /\ pc[t] = "attachLock"
  /\ Locked(t)
  /\ IF port # None
     THEN /\ Refuse(t)
          /\ UNCHANGED <<port, generation, loopGen>>
     ELSE /\ generation' = generation + 1
          /\ port' = held[t]
          /\ Remember(held[t])
          /\ pc' = [pc EXCEPT ![t] = "spawn"]
  /\ UNCHANGED <<closed, using, handle, held, loop>>

\* go g.readLoop(port, generation), after the unlock.
Spawn(t) ==
  /\ pc[t] = "spawn"
  /\ loop' = [loop EXCEPT ![held[t]] = "reading"]
  /\ held' = [held EXCEPT ![t] = None]
  /\ pc' = [pc EXCEPT ![t] = "idle"]
  /\ UNCHANGED <<port, generation, closed, waiter, using, handle, loopGen>>

-----------------------------------------------------------------------------
(* Reconcile, for a port that is gone or not allowed, and Close.           *)

\* Connected() returned true for a gateway that is not present.
SeeAbsent(t) ==
  /\ pc[t] = "idle"
  /\ ReaderMayEnter
  /\ port # None
  /\ generation < MaxGeneration
  /\ pc' = [pc EXCEPT ![t] = "detachLock"]
  /\ UNCHANGED <<port, generation, closed, waiter, using, handle, held, loopVars>>

\* Close up to its call of Detach.
Close(t) ==
  /\ pc[t] = "idle"
  /\ ~closed
  /\ closed' = TRUE
  /\ pc' = [pc EXCEPT ![t] = "detachLock"]
  /\ UNCHANGED <<port, generation, waiter, using, handle, held, loopVars>>

\* if port != nil
CloseIfAttached(t) == pc' = [pc EXCEPT ![t] = IF port = None THEN "idle" ELSE "closePort"]

\* Detach, in the critical section.
Detach(t) ==
  /\ pc[t] = "detachLock"
  /\ Locked(t)
  /\ held' = [held EXCEPT ![t] = port]
  /\ port' = None
  /\ generation' = generation + 1
  /\ CloseIfAttached(t)
  /\ UNCHANGED <<closed, using, handle, loopVars>>

\* port.Close(), outside the lock: the end of Detach, or of a Reconcile whose
\* Attach was refused.
ClosePort(t) ==
  /\ pc[t] = "closePort"
  /\ handle' = [handle EXCEPT ![held[t]] = "closed"]
  /\ held' = [held EXCEPT ![t] = None]
  /\ pc' = [pc EXCEPT ![t] = "idle"]
  /\ UNCHANGED <<port, generation, closed, waiter, using, loopVars>>

-----------------------------------------------------------------------------
(* The read loop of handle h.                                              *)

\* The device is unplugged: from now on reads and writes of h fail.
Unplug(h) ==
  /\ handle[h] = "open"
  /\ handle' = [handle EXCEPT ![h] = "failed"]
  /\ UNCHANGED <<port, generation, closed, waiter, using, threadVars, loopVars>>

\* port.Read returns an error.
ReadError(h) == handle[h] \in {"failed", "closed"}

ReadFails(h) ==
  /\ loop[h] = "reading"
  /\ ReadError(h)
  /\ loop' = [loop EXCEPT ![h] = "check"]
  /\ UNCHANGED <<port, generation, closed, waiter, using, handle, threadVars, loopGen>>

\* The comparison of generations under RLock that decides what is logged.
CheckCurrent(h) ==
  /\ loop[h] = "check"
  /\ ReaderMayEnter
  /\ loop' = [loop EXCEPT ![h] = "exit"]
  /\ UNCHANGED <<port, generation, closed, waiter, using, handle, threadVars, loopGen>>

CurrentAlways(h) == TRUE

\* g.generation == generation
Current(h) == generation = loopGen[h]

\* The critical section of the deferred function.
ReleasePort(h) ==
  /\ loop[h] = "exit"
  /\ Locked(h)
  /\ IF Current(h)
     THEN port' = None /\ generation' = generation + 1
     ELSE UNCHANGED <<port, generation>>
  /\ loop' = [loop EXCEPT ![h] = "close"]
  /\ UNCHANGED <<closed, using, handle, threadVars, loopGen>>

LoopCloses(h) ==
  /\ loop[h] = "close"
  /\ handle' = [handle EXCEPT ![h] = "closed"]
  /\ loop' = [loop EXCEPT ![h] = "done"]
  /\ UNCHANGED <<port, generation, closed, waiter, using, threadVars, loopGen>>

-----------------------------------------------------------------------------
(* Write: writeMu admits one writer, RLock is held across port.Write.  The *)
(* branch for a nil port changes nothing.                                  *)

WriteBegins(w) ==
  /\ NoReader
  /\ ReaderMayEnter
  /\ port # None
  /\ using' = [using EXCEPT ![w] = port]
  /\ UNCHANGED <<port, generation, closed, waiter, handle, threadVars, loopVars>>

WriteReturns(w) ==
  /\ using[w] # None
  /\ using' = [using EXCEPT ![w] = None]
  /\ UNCHANGED <<port, generation, closed, waiter, handle, threadVars, loopVars>>

-----------------------------------------------------------------------------
Init ==
  /\ port = None
  /\ generation = 0
  /\ closed = FALSE
  /\ waiter = None
  /\ using = [w \in Writers |-> None]
  /\ handle = [h \in Handles |-> "new"]
  /\ pc = [t \in Threads |-> "idle"]
  /\ held = [t \in Threads |-> None]
  /\ loop = [h \in Handles |-> "none"]
  /\ loopGen = [h \in Handles |-> 0]

Next ==
  \/ \E t \in Threads :
       \/ SeeDisconnected(t) \/ OpenSerial(t) \/ OpenFails(t) \/ AttachCheck(t)
       \/ Attach(t) \/ Spawn(t) \/ SeeAbsent(t) \/ Close(t) \/ Detach(t) \/ ClosePort(t)
  \/ \E h \in Handles :
       Unplug(h) \/ ReadFails(h) \/ CheckCurrent(h) \/ ReleasePort(h) \/ LoopCloses(h)
  \/ \E a \in Threads \cup Handles : Announce(a)
  \/ \E w \in Writers : WriteBegins(w) \/ WriteReturns(w)

Safety == Init /\ [][Next]_vars

\* Every goroutine that can run does, the mutex starves nobody, and
\* port.Write returns.  Nothing obliges a thread to scan again, or a device
\* to fail.
Fairness ==
  /\ \A t \in Threads :
       /\ WF_vars(OpenSerial(t) \/ OpenFails(t)) /\ WF_vars(AttachCheck(t))
       /\ SF_vars(Announce(t)) /\ WF_vars(Attach(t) \/ Detach(t))
       /\ WF_vars(Spawn(t)) /\ WF_vars(ClosePort(t))
  /\ \A h \in Handles :
       /\ WF_vars(ReadFails(h)) /\ SF_vars(CheckCurrent(h))
       /\ SF_vars(Announce(h)) /\ WF_vars(ReleasePort(h)) /\ WF_vars(LoopCloses(h))
  /\ \A w \in Writers : WF_vars(WriteReturns(w))

Spec == Safety /\ Fairness

-----------------------------------------------------------------------------
(* Properties.                                                             *)

\* Every variable keeps its shape, and a thread has a handle in its hands
\* exactly where the code goes on to use one (port.Close on nil would panic).
TypeOK ==
  /\ port \in Handles \cup {None}
  /\ generation \in Nat
  /\ closed \in BOOLEAN
  /\ waiter \in Threads \cup Handles \cup {None}
  /\ using \in [Writers -> Handles \cup {None}]
  /\ handle \in [Handles -> {"new", "open", "failed", "closed"}]
  /\ pc \in [Threads -> {"idle", "open", "attach", "attachLock", "spawn",
                         "detachLock", "closePort"}]
  /\ held \in [Threads -> Handles \cup {None}]
  /\ loop \in [Handles -> {"none", "reading", "check", "exit", "close", "done"}]
  /\ loopGen \in [Handles -> Nat]
  /\ \A t \in Threads :
       held[t] # None <=> pc[t] \in {"attach", "attachLock", "spawn", "closePort"}

\* The attached port is never a dead one: its handle is not closed, and the
\* loop started for it is still there to notice its end and carries the
\* generation that lets it take the port out.
AttachedIsServed ==
  port # None =>
    /\ Open(port)
    /\ loopGen[port] = generation
    /\ \/ loop[port] \in {"reading", "check", "exit"}
       \/ \E t \in Threads : pc[t] = "spawn" /\ held[t] = port

\* Nobody closes a handle under a port.Write in progress, though Detach, the
\* read loop and a refused Attach all close outside portMu.
NoCloseDuringWrite ==
  \A w \in Writers : using[w] # None => Open(using[w])

\* An open handle is attached, or in the hands of a goroutine that will close
\* or attach it.
NoLeakedHandle ==
  \A h \in Handles :
    Open(h) => \/ port = h
               \/ loop[h] \in {"reading", "check", "exit", "close"}
               \/ \E t \in Threads : held[t] = h /\ pc[t] # "idle"

\* A port is taken out of the gateway only by a goroutine that goes on to
\* close that port: never by the loop of an earlier port that was slow to
\* end, which is what the generation is for.
RemovalHasAnOwner ==
  [][\A h \in Handles :
       port = h /\ port' # h =>
         \/ loop'[h] = "close"
         \/ \E t \in Threads : pc'[t] = "closePort" /\ held'[t] = h]_vars

\* A handle whose device is gone, or that is not the attached one, is closed in
\* the end, though threads and writes compete for the mutex, so that a later scan
\* can open the device again.
UnservedHandleCloses ==
  \A h \in Handles :
    handle[h] = "failed" \/ (Open(h) /\ port # h)
      ~> handle[h] = "closed" \/ (handle[h] = "open" /\ port = h)

=============================================================================
