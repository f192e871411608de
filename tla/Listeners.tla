------------------------------ MODULE Listeners ------------------------------
(***************************************************************************)
(* The TCP and the Telnet listener of one SerialGateway: EnsureTCP and     *)
(* acceptLoop (gateway.go), EnsureTelnet and telnetAcceptLoop              *)
(* (telnet.go), and their part of Close.                                   *)
(*                                                                         *)
(* Reconcile ensures both listeners of every gateway in each pass, in two  *)
(* goroutines; main closes the gateways at the end, while a pass may still *)
(* be under way.  Accepting can fail for lack of resources: its goroutine  *)
(* then ends, and the socket keeps the address until the runtime finds it  *)
(* unreferenced and closes it.                                             *)
(***************************************************************************)
CONSTANTS
  Kinds,      \* "tcp", and "telnet" where it is enabled
  Threads,    \* goroutines that run Reconcile
  Listeners,  \* listeners, of each kind; bounds how often one is made
  None        \* no listener

ASSUME ListenersAssumption == None \notin Listeners

VARIABLES
  closed,     \* g.closed
  named,      \* g.listener and g.telnetListener
  socket,     \* the socket of each listener: "none" before it is made, "open",
              \* "stranded" when nobody accepts from it any more, or "closed"
  loop,       \* its accept loop: "none", "accept", "clear" or "ended"
  pc,         \* the calls of EnsureTCP and EnsureTelnet by each thread: "idle"
              \* or, past the look at closed, "ensure"
  close,      \* Close: "open", "swap", "close" or "done" for each kind
  held,       \* its local listener and telnetListener
  raced       \* history variable: Close began while a thread was past the look

vars == <<closed, named, socket, loop, pc, close, held, raced>>

Goto(t, k, place) == pc' = [pc EXCEPT ![t][k] = place]

-----------------------------------------------------------------------------
(* EnsureTCP and EnsureTelnet.                                             *)

DoesNotLook == TRUE

\* g.closed.Load() says no.
MayEnsure == ~closed

LookAtClosed(t, k) ==
  /\ pc[t][k] = "idle"
  /\ MayEnsure
  /\ Goto(t, k, "ensure")
  /\ UNCHANGED <<closed, named, socket, loop, close, held, raced>>

\* There is a listener already.
HasListener(t, k) ==
  /\ pc[t][k] = "ensure"
  /\ named[k] # None
  /\ Goto(t, k, "idle")
  /\ UNCHANGED <<closed, named, socket, loop, close, held, raced>>

Bound(k, l) == socket[k][l] \in {"open", "stranded"}

\* net.Listen can succeed: the address is not in use by this program.
AddressFree(k) == \A l \in Listeners : ~Bound(k, l)

\* net.Listen succeeds, and the accept loop starts.
Listen(t, k, l) ==
  /\ pc[t][k] = "ensure"
  /\ named[k] = None
  /\ AddressFree(k)
  /\ socket[k][l] = "none"
  /\ socket' = [socket EXCEPT ![k][l] = "open"]
  /\ named' = [named EXCEPT ![k] = l]
  /\ loop' = [loop EXCEPT ![k][l] = "accept"]
  /\ Goto(t, k, "idle")
  /\ UNCHANGED <<closed, close, held, raced>>

\* net.Listen fails; the next pass tries again.
ListenFails(t, k) ==
  /\ pc[t][k] = "ensure"
  /\ named[k] = None
  /\ Goto(t, k, "idle")
  /\ UNCHANGED <<closed, named, socket, loop, close, held, raced>>

-----------------------------------------------------------------------------
(* acceptLoop and telnetAcceptLoop, up to the connections they accept.     *)

\* Accept fails while the socket is open.  The bound: the last one does not.
AcceptFails(k, l) ==
  /\ loop[k][l] = "accept"
  /\ socket[k][l] = "open"
  /\ \E m \in Listeners : socket[k][m] = "none"
  /\ socket' = [socket EXCEPT ![k][l] = "stranded"]
  /\ loop' = [loop EXCEPT ![k][l] = "clear"]
  /\ UNCHANGED <<closed, named, pc, close, held, raced>>

\* Accept returns net.ErrClosed.
AcceptEnds(k, l) ==
  /\ loop[k][l] = "accept"
  /\ socket[k][l] = "closed"
  /\ loop' = [loop EXCEPT ![k][l] = "clear"]
  /\ UNCHANGED <<closed, named, socket, pc, close, held, raced>>

ClearsAny(k, l) == None

ClearsNothing(k, l) == named[k]

\* The loop takes its own listener out, and no other.
NamedAfter(k, l) == IF named[k] = l THEN None ELSE named[k]

Clear(k, l) ==
  /\ loop[k][l] = "clear"
  /\ named' = [named EXCEPT ![k] = NamedAfter(k, l)]
  /\ loop' = [loop EXCEPT ![k][l] = "ended"]
  /\ UNCHANGED <<closed, socket, pc, close, held, raced>>

\* The runtime closes a socket that nothing refers to any more.
Collect(k, l) ==
  /\ socket[k][l] = "stranded"
  /\ loop[k][l] = "ended"
  /\ named[k] # l
  /\ held[k] # l
  /\ socket' = [socket EXCEPT ![k][l] = "closed"]
  /\ UNCHANGED <<closed, named, loop, pc, close, held, raced>>

-----------------------------------------------------------------------------
(* Close.                                                                  *)

BeginClose ==
  /\ ~closed
  /\ closed' = TRUE
  /\ close' = [k \in Kinds |-> "swap"]
  /\ raced' = \E t \in Threads, k \in Kinds : pc[t][k] = "ensure"
  /\ UNCHANGED <<named, socket, loop, pc, held>>

\* Under the mutex of the listener.
Swap(k) ==
  /\ close[k] = "swap"
  /\ held' = [held EXCEPT ![k] = named[k]]
  /\ named' = [named EXCEPT ![k] = None]
  /\ close' = [close EXCEPT ![k] = "close"]
  /\ UNCHANGED <<closed, socket, loop, pc, raced>>

\* listener.Close(), if there is one.
CloseHeld(k) ==
  /\ close[k] = "close"
  /\ socket' = IF held[k] = None THEN socket ELSE [socket EXCEPT ![k][held[k]] = "closed"]
  /\ held' = [held EXCEPT ![k] = None]
  /\ close' = [close EXCEPT ![k] = "done"]
  /\ UNCHANGED <<closed, named, loop, pc, raced>>

-----------------------------------------------------------------------------
Init ==
  /\ closed = FALSE
  /\ named = [k \in Kinds |-> None]
  /\ socket = [k \in Kinds |-> [l \in Listeners |-> "none"]]
  /\ loop = [k \in Kinds |-> [l \in Listeners |-> "none"]]
  /\ pc = [t \in Threads |-> [k \in Kinds |-> "idle"]]
  /\ close = [k \in Kinds |-> "open"]
  /\ held = [k \in Kinds |-> None]
  /\ raced = FALSE

EnsureStep(t, k) ==
  HasListener(t, k) \/ ListenFails(t, k) \/ \E l \in Listeners : Listen(t, k, l)

LoopStep(k, l) == AcceptEnds(k, l) \/ Clear(k, l)

CloseStep(k) == Swap(k) \/ CloseHeld(k)

Next ==
  \/ \E t \in Threads, k \in Kinds : LookAtClosed(t, k) \/ EnsureStep(t, k)
  \/ \E k \in Kinds, l \in Listeners : LoopStep(k, l) \/ AcceptFails(k, l) \/ Collect(k, l)
  \/ BeginClose
  \/ \E k \in Kinds : CloseStep(k)

Safety == Init /\ [][Next]_vars

\* Passes are made for ever, goroutines run on, the runtime collects, and a
\* free address can be listened on now and again.
Spec ==
  /\ Safety
  /\ \A t \in Threads, k \in Kinds :
       WF_vars(LookAtClosed(t, k)) /\ WF_vars(EnsureStep(t, k))
  /\ \A k \in Kinds :
       /\ SF_vars(\E t \in Threads, l \in Listeners : Listen(t, k, l))
       /\ WF_vars(CloseStep(k))
       /\ \A l \in Listeners : WF_vars(LoopStep(k, l)) /\ WF_vars(Collect(k, l))

-----------------------------------------------------------------------------
(* Properties.                                                             *)

\* Every variable keeps its shape, and each listener that was made had its loop
\* started.
TypeOK ==
  /\ closed \in BOOLEAN
  /\ named \in [Kinds -> Listeners \cup {None}]
  /\ socket \in [Kinds -> [Listeners -> {"none", "open", "stranded", "closed"}]]
  /\ loop \in [Kinds -> [Listeners -> {"none", "accept", "clear", "ended"}]]
  /\ pc \in [Threads -> [Kinds -> {"idle", "ensure"}]]
  /\ close \in [Kinds -> {"open", "swap", "close", "done"}]
  /\ held \in [Kinds -> Listeners \cup {None}]
  /\ raced \in BOOLEAN
  /\ \A k \in Kinds, l \in Listeners : socket[k][l] = "none" <=> loop[k][l] = "none"

\* An open listener is always within reach: the gateway knows it, or Close is
\* about to close it.  It stays so when an accept loop ends late, after
\* another listener has taken the place of its own.
OpenIsWithinReach ==
  \A k \in Kinds, l \in Listeners : socket[k][l] = "open" => l \in {named[k], held[k]}

\* What the gateway reports as listening (Status) is served: the listener is
\* open and has its accept loop, or that loop is about to take it out.
ListeningIsServed ==
  \A k \in Kinds : named[k] # None =>
    \/ socket[k][named[k]] = "open" /\ loop[k][named[k]] = "accept"
    \/ loop[k][named[k]] = "clear"

\* Once Close is through, nothing of a kind listens any more, and nothing will,
\* unless a pass had looked at closed before.
ClosedForGood ==
  ~raced => \A k \in Kinds : close[k] = "done" =>
    \A l \in Listeners : socket[k][l] # "open"

\* A listener that fails is replaced by another, unless the gateway is closed.
ListensAgain ==
  \A k \in Kinds, l \in Listeners :
    socket[k][l] = "stranded" ~> (closed \/ \E m \in Listeners : socket[k][m] = "open")

=============================================================================
