--------------------------- MODULE ListenersProofs ---------------------------
(***************************************************************************)
(* Proofs about Listeners for any number of kinds, of passes at a time and *)
(* of listeners.                                                           *)
(*                                                                         *)
(* The argument: an open listener has its accept loop, and is named by the *)
(* gateway or held by Close, never by both; an accept loop that is to      *)
(* clear the name has a socket that is not open, so what it takes out is   *)
(* never what is served.  After a Close that raced with no pass nobody is  *)
(* on the way to listen, so what Close takes out leaves no successor.      *)
(***************************************************************************)
EXTENDS Listeners, TLAPS

\* How a listener's socket and its accept loop go together.
LoopInv(k, l) ==
  /\ socket[k][l] = "open" => loop[k][l] = "accept"
  /\ socket[k][l] = "stranded" => loop[k][l] # "accept"

\* What Close holds is a listener, and not the one the gateway names.
HeldInv(k) ==
  held[k] # None => close[k] = "close" /\ held[k] # named[k] /\ socket[k][held[k]] # "none"

\* Close takes its steps once closed is set.
CloseInv(k) == close[k] # "open" <=> closed

\* A Close that raced with no pass is followed by none.
QuietInv(k) ==
  closed /\ ~raced =>
    /\ \A t \in Threads : pc[t][k] = "idle"
    /\ close[k] \in {"close", "done"} => named[k] = None

ListenersInv ==
  /\ TypeOK
  /\ \A k \in Kinds : HeldInv(k) /\ CloseInv(k) /\ QuietInv(k)
  /\ \A k \in Kinds, l \in Listeners : LoopInv(k, l)
  /\ OpenIsWithinReach
  /\ ListeningIsServed

LEMMA InitInv == Init => ListenersInv
<1> SUFFICES ASSUME Init
             PROVE  ListenersInv
  OBVIOUS
<1> USE ListenersAssumption DEF Init
<1>1. TypeOK
  BY DEF TypeOK
<1>2. ASSUME NEW k \in Kinds
      PROVE  HeldInv(k) /\ CloseInv(k) /\ QuietInv(k)
  BY DEF HeldInv, CloseInv, QuietInv
<1>3. ASSUME NEW k \in Kinds, NEW l \in Listeners
      PROVE  LoopInv(k, l)
  BY DEF LoopInv
<1>4. OpenIsWithinReach /\ ListeningIsServed
  BY DEF OpenIsWithinReach, ListeningIsServed
<1> QED
  BY <1>1, <1>2, <1>3, <1>4 DEF ListenersInv

LEMMA LookAtClosedInv ==
  ASSUME ListenersInv, NEW t \in Threads, NEW k \in Kinds, LookAtClosed(t, k)
  PROVE  ListenersInv'
<1> USE ListenersAssumption DEF ListenersInv, LookAtClosed, MayEnsure, Goto
<1>1. TypeOK'
  BY DEF TypeOK
<1>2. ASSUME NEW j \in Kinds
      PROVE  HeldInv(j)' /\ CloseInv(j)' /\ QuietInv(j)'
  BY DEF TypeOK, HeldInv, CloseInv, QuietInv
<1>3. ASSUME NEW j \in Kinds, NEW l \in Listeners
      PROVE  LoopInv(j, l)'
  BY DEF LoopInv
<1>4. OpenIsWithinReach' /\ ListeningIsServed'
  BY DEF OpenIsWithinReach, ListeningIsServed
<1> QED
  BY <1>1, <1>2, <1>3, <1>4

\* HasListener and ListenFails change nothing but where the pass is.
LEMMA GivesUpInv ==
  ASSUME ListenersInv, NEW t \in Threads, NEW k \in Kinds, HasListener(t, k) \/ ListenFails(t, k)
  PROVE  ListenersInv'
<1> USE ListenersAssumption DEF ListenersInv, HasListener, ListenFails, Goto
<1>1. TypeOK'
  <2>1. CASE HasListener(t, k)
    BY <2>1 DEF TypeOK
  <2>2. CASE ListenFails(t, k)
    BY <2>2 DEF TypeOK
  <2> QED
    BY <2>1, <2>2
<1>2. ASSUME NEW j \in Kinds
      PROVE  HeldInv(j)' /\ CloseInv(j)' /\ QuietInv(j)'
  BY DEF TypeOK, HeldInv, CloseInv, QuietInv
<1>3. ASSUME NEW j \in Kinds, NEW l \in Listeners
      PROVE  LoopInv(j, l)'
  BY DEF LoopInv
<1>4. OpenIsWithinReach' /\ ListeningIsServed'
  BY DEF OpenIsWithinReach, ListeningIsServed
<1> QED
  BY <1>1, <1>2, <1>3, <1>4

LEMMA ListenInv ==
  ASSUME ListenersInv, NEW t \in Threads, NEW k \in Kinds, NEW m \in Listeners, Listen(t, k, m)
  PROVE  ListenersInv'
<1> USE ListenersAssumption DEF ListenersInv, Listen, Goto
<1>1. TypeOK'
  BY DEF TypeOK
<1>2. ASSUME NEW j \in Kinds
      PROVE  HeldInv(j)' /\ CloseInv(j)' /\ QuietInv(j)'
  BY DEF TypeOK, HeldInv, CloseInv, QuietInv
<1>3. ASSUME NEW j \in Kinds, NEW l \in Listeners
      PROVE  LoopInv(j, l)'
  BY DEF TypeOK, LoopInv
<1>4. ASSUME NEW j \in Kinds, NEW l \in Listeners, socket'[j][l] = "open"
      PROVE  l \in {named'[j], held'[j]}
  BY <1>4 DEF TypeOK, OpenIsWithinReach, AddressFree, Bound
<1>5. ListeningIsServed'
  BY DEF TypeOK, ListeningIsServed
<1> QED
  BY <1>1, <1>2, <1>3, <1>4, <1>5 DEF OpenIsWithinReach

LEMMA AcceptFailsInv ==
  ASSUME ListenersInv, NEW k \in Kinds, NEW m \in Listeners, AcceptFails(k, m)
  PROVE  ListenersInv'
<1> USE ListenersAssumption DEF ListenersInv, AcceptFails
<1>1. TypeOK'
  BY DEF TypeOK
<1>2. ASSUME NEW j \in Kinds
      PROVE  HeldInv(j)' /\ CloseInv(j)' /\ QuietInv(j)'
  BY DEF TypeOK, HeldInv, CloseInv, QuietInv
<1>3. ASSUME NEW j \in Kinds, NEW l \in Listeners
      PROVE  LoopInv(j, l)'
  BY DEF TypeOK, LoopInv
<1>4. OpenIsWithinReach'
  BY DEF TypeOK, OpenIsWithinReach
<1>5. ListeningIsServed'
  BY DEF TypeOK, ListeningIsServed
<1> QED
  BY <1>1, <1>2, <1>3, <1>4, <1>5

LEMMA AcceptEndsInv ==
  ASSUME ListenersInv, NEW k \in Kinds, NEW m \in Listeners, AcceptEnds(k, m)
  PROVE  ListenersInv'
<1> USE ListenersAssumption DEF ListenersInv, AcceptEnds
<1>1. TypeOK'
  BY DEF TypeOK
<1>2. ASSUME NEW j \in Kinds
      PROVE  HeldInv(j)' /\ CloseInv(j)' /\ QuietInv(j)'
  BY DEF TypeOK, HeldInv, CloseInv, QuietInv
<1>3. ASSUME NEW j \in Kinds, NEW l \in Listeners
      PROVE  LoopInv(j, l)'
  BY DEF TypeOK, LoopInv
<1>4. OpenIsWithinReach'
  BY DEF TypeOK, OpenIsWithinReach
<1>5. ListeningIsServed'
  BY DEF TypeOK, ListeningIsServed
<1> QED
  BY <1>1, <1>2, <1>3, <1>4, <1>5

LEMMA ClearInv ==
  ASSUME ListenersInv, NEW k \in Kinds, NEW m \in Listeners, Clear(k, m)
  PROVE  ListenersInv'
<1> USE ListenersAssumption DEF ListenersInv, Clear, NamedAfter
<1>1. TypeOK'
  BY DEF TypeOK
<1>2. ASSUME NEW j \in Kinds
      PROVE  HeldInv(j)' /\ CloseInv(j)' /\ QuietInv(j)'
  BY DEF TypeOK, HeldInv, CloseInv, QuietInv
<1>3. ASSUME NEW j \in Kinds, NEW l \in Listeners
      PROVE  LoopInv(j, l)'
  BY DEF TypeOK, LoopInv
<1>4. ASSUME NEW j \in Kinds, NEW l \in Listeners, socket'[j][l] = "open"
      PROVE  l \in {named'[j], held'[j]}
  <2>1. ~(j = k /\ l = m)
    BY <1>4 DEF LoopInv
  <2> QED
    BY <1>4, <2>1 DEF TypeOK, OpenIsWithinReach
<1>5. ListeningIsServed'
  BY DEF TypeOK, ListeningIsServed
<1> QED
  BY <1>1, <1>2, <1>3, <1>4, <1>5 DEF OpenIsWithinReach

LEMMA CollectInv ==
  ASSUME ListenersInv, NEW k \in Kinds, NEW m \in Listeners, Collect(k, m)
  PROVE  ListenersInv'
<1> USE ListenersAssumption DEF ListenersInv, Collect
<1>1. TypeOK'
  BY DEF TypeOK
<1>2. ASSUME NEW j \in Kinds
      PROVE  HeldInv(j)' /\ CloseInv(j)' /\ QuietInv(j)'
  BY DEF TypeOK, HeldInv, CloseInv, QuietInv
<1>3. ASSUME NEW j \in Kinds, NEW l \in Listeners
      PROVE  LoopInv(j, l)'
  BY DEF TypeOK, LoopInv
<1>4. OpenIsWithinReach'
  BY DEF TypeOK, OpenIsWithinReach
<1>5. ListeningIsServed'
  BY DEF TypeOK, ListeningIsServed
<1> QED
  BY <1>1, <1>2, <1>3, <1>4, <1>5

LEMMA BeginCloseInv ==
  ASSUME ListenersInv, BeginClose
  PROVE  ListenersInv'
<1> USE ListenersAssumption DEF ListenersInv, BeginClose
<1>1. TypeOK'
  BY DEF TypeOK
<1>2. ASSUME NEW j \in Kinds
      PROVE  HeldInv(j)' /\ CloseInv(j)' /\ QuietInv(j)'
  <2>1. close[j] = "open" /\ held[j] = None
    BY DEF CloseInv, HeldInv
  <2>2. QuietInv(j)'
    BY DEF TypeOK, QuietInv
  <2> QED
    BY <2>1, <2>2 DEF HeldInv, CloseInv
<1>3. ASSUME NEW j \in Kinds, NEW l \in Listeners
      PROVE  LoopInv(j, l)'
  BY DEF LoopInv
<1>4. OpenIsWithinReach' /\ ListeningIsServed'
  BY DEF OpenIsWithinReach, ListeningIsServed
<1> QED
  BY <1>1, <1>2, <1>3, <1>4

LEMMA SwapInv ==
  ASSUME ListenersInv, NEW k \in Kinds, Swap(k)
  PROVE  ListenersInv'
<1> USE ListenersAssumption DEF ListenersInv, Swap
<1>1. TypeOK'
  BY DEF TypeOK
<1>2. ASSUME NEW j \in Kinds
      PROVE  HeldInv(j)' /\ CloseInv(j)' /\ QuietInv(j)'
  <2>1. HeldInv(j)'
    <3>1. ASSUME named[k] # None
          PROVE  socket[k][named[k]] # "none"
      <4>1. named[k] \in Listeners
        BY <3>1 DEF TypeOK
      <4>2. socket[k][named[k]] = "open" \/ loop[k][named[k]] = "clear"
        BY <3>1 DEF ListeningIsServed
      <4>3. socket[k][named[k]] = "none" <=> loop[k][named[k]] = "none"
        BY <4>1 DEF TypeOK
      <4> QED
        BY <4>2, <4>3
    <3> QED
      BY <3>1 DEF TypeOK, HeldInv
  <2> QED
    BY <2>1 DEF TypeOK, CloseInv, QuietInv
<1>3. ASSUME NEW j \in Kinds, NEW l \in Listeners
      PROVE  LoopInv(j, l)'
  BY DEF LoopInv
<1>4. ASSUME NEW j \in Kinds, NEW l \in Listeners, socket'[j][l] = "open"
      PROVE  l \in {named'[j], held'[j]}
  BY <1>4 DEF TypeOK, OpenIsWithinReach, HeldInv
<1>5. ListeningIsServed'
  BY DEF TypeOK, ListeningIsServed
<1> QED
  BY <1>1, <1>2, <1>3, <1>4, <1>5 DEF OpenIsWithinReach

LEMMA CloseHeldInv ==
  ASSUME ListenersInv, NEW k \in Kinds, CloseHeld(k)
  PROVE  ListenersInv'
<1> USE ListenersAssumption DEF ListenersInv, CloseHeld
<1>1. TypeOK'
  BY DEF TypeOK, HeldInv
<1>2. ASSUME NEW j \in Kinds
      PROVE  HeldInv(j)' /\ CloseInv(j)' /\ QuietInv(j)'
  BY DEF TypeOK, HeldInv, CloseInv, QuietInv
<1>3. ASSUME NEW j \in Kinds, NEW l \in Listeners
      PROVE  LoopInv(j, l)'
  BY DEF TypeOK, LoopInv, HeldInv
<1>4. ASSUME NEW j \in Kinds, NEW l \in Listeners, socket'[j][l] = "open"
      PROVE  l \in {named'[j], held'[j]}
  BY <1>4 DEF TypeOK, OpenIsWithinReach
<1>5. ListeningIsServed'
  BY DEF TypeOK, ListeningIsServed, HeldInv
<1> QED
  BY <1>1, <1>2, <1>3, <1>4, <1>5 DEF OpenIsWithinReach

LEMMA StepInv == ListenersInv /\ [Next]_vars => ListenersInv'
<1> SUFFICES ASSUME ListenersInv, [Next]_vars
             PROVE  ListenersInv'
  OBVIOUS
<1>1. CASE \E t \in Threads, k \in Kinds : LookAtClosed(t, k) \/ EnsureStep(t, k)
  BY <1>1, LookAtClosedInv, GivesUpInv, ListenInv DEF EnsureStep
<1>2. CASE \E k \in Kinds, l \in Listeners : LoopStep(k, l) \/ AcceptFails(k, l) \/ Collect(k, l)
  BY <1>2, AcceptEndsInv, ClearInv, AcceptFailsInv, CollectInv DEF LoopStep
<1>3. CASE BeginClose
  BY <1>3, BeginCloseInv
<1>4. CASE \E k \in Kinds : CloseStep(k)
  BY <1>4, SwapInv, CloseHeldInv DEF CloseStep
<1>5. CASE UNCHANGED vars
  BY <1>5 DEF vars, ListenersInv, TypeOK, HeldInv, CloseInv, QuietInv, LoopInv, OpenIsWithinReach,
              ListeningIsServed
<1> QED
  BY <1>1, <1>2, <1>3, <1>4, <1>5 DEF Next

LEMMA SafetyInv == Safety => []ListenersInv
  BY InitInv, StepInv, PTL DEF Safety

\* The specification has the shape its definitions say.
THEOREM TypeCorrect == Spec => []TypeOK
<1>1. ListenersInv => TypeOK
  BY DEF ListenersInv
<1> QED
  BY <1>1, SafetyInv, PTL DEF Spec

\* EnsureTCP, the accept loops and Close: an open listener is always named by the
\* gateway or about to be closed, whatever loop ends late.
THEOREM OpenStaysWithinReach == Spec => []OpenIsWithinReach
<1>1. ListenersInv => OpenIsWithinReach
  BY DEF ListenersInv
<1> QED
  BY <1>1, SafetyInv, PTL DEF Spec

\* Status: a listener that is reported is open and served, or is just being taken
\* out.
THEOREM ReportedIsServed == Spec => []ListeningIsServed
<1>1. ListenersInv => ListeningIsServed
  BY DEF ListenersInv
<1> QED
  BY <1>1, SafetyInv, PTL DEF Spec

\* Close: when no pass was past its look at closed, nothing listens after it.
THEOREM CloseIsFinal == Spec => []ClosedForGood
<1>1. ASSUME ListenersInv
      PROVE  ClosedForGood
  <2> SUFFICES ASSUME ~raced, NEW k \in Kinds, close[k] = "done", NEW l \in Listeners
               PROVE  socket[k][l] # "open"
    BY DEF ClosedForGood
  <2>1. held[k] = None
    BY <1>1 DEF ListenersInv, HeldInv
  <2>2. named[k] = None
    BY <1>1 DEF ListenersInv, CloseInv, QuietInv
  <2> QED
    BY <1>1, <2>1, <2>2, ListenersAssumption DEF ListenersInv, OpenIsWithinReach
<1> QED
  BY <1>1, SafetyInv, PTL DEF Spec

\* Only Close takes an open listener away from the gateway.
OpenIsTakenByCloseOnly ==
  [][\A k \in Kinds :
       named[k] # None /\ socket[k][named[k]] = "open" => named'[k] = named[k] \/ Swap(k)]_vars

\* However late accept loops end, none of them takes out a listener that still serves:
\* neither its successor nor one it has not given up.
THEOREM ServedIsNotTakenOut == Spec => OpenIsTakenByCloseOnly
<1>1. ListenersInv /\ [Next]_vars =>
        [\A k \in Kinds :
           named[k] # None /\ socket[k][named[k]] = "open" => named'[k] = named[k] \/ Swap(k)]_vars
  <2> SUFFICES ASSUME ListenersInv, [Next]_vars, NEW k \in Kinds,
                      named[k] # None, socket[k][named[k]] = "open", ~Swap(k)
               PROVE  named'[k] = named[k]
    OBVIOUS
  <2> USE DEF ListenersInv, TypeOK
  <2>1. ASSUME NEW j \in Kinds, NEW l \in Listeners, Clear(j, l)
        PROVE  named'[k] = named[k]
    BY <2>1 DEF Clear, NamedAfter, LoopInv
  <2>2. ASSUME NEW t \in Threads, NEW j \in Kinds, NEW l \in Listeners, Listen(t, j, l)
        PROVE  named'[k] = named[k]
    BY <2>2 DEF Listen
  <2>3. ASSUME NEW j \in Kinds, Swap(j)
        PROVE  named'[k] = named[k]
    BY <2>3 DEF Swap
  <2>4. ASSUME NEW t \in Threads, NEW j \in Kinds,
               LookAtClosed(t, j) \/ HasListener(t, j) \/ ListenFails(t, j)
        PROVE  UNCHANGED named
    BY <2>4 DEF LookAtClosed, HasListener, ListenFails
  <2>5. ASSUME NEW j \in Kinds, NEW l \in Listeners,
               AcceptFails(j, l) \/ AcceptEnds(j, l) \/ Collect(j, l)
        PROVE  UNCHANGED named
    BY <2>5 DEF AcceptFails, AcceptEnds, Collect
  <2>6. ASSUME NEW j \in Kinds, BeginClose \/ CloseHeld(j) \/ UNCHANGED vars
        PROVE  UNCHANGED named
    BY <2>6 DEF BeginClose, CloseHeld, vars
  <2> QED
    BY <2>1, <2>2, <2>3, <2>4, <2>5, <2>6 DEF Next, EnsureStep, LoopStep, CloseStep
<1> QED
  BY <1>1, SafetyInv, PTL DEF Spec, Safety, OpenIsTakenByCloseOnly

\* A loop that has ended has taken its listener out.
EndedInv == \A k \in Kinds, l \in Listeners : loop[k][l] = "ended" => named[k] # l

LEMMA StepEnded == ListenersInv /\ EndedInv /\ [Next]_vars => EndedInv'
<1> SUFFICES ASSUME ListenersInv, EndedInv, [Next]_vars, NEW k \in Kinds, NEW l \in Listeners,
                    loop'[k][l] = "ended"
             PROVE  named'[k] # l
  BY DEF EndedInv
<1> USE ListenersAssumption DEF ListenersInv, TypeOK
<1>1. ASSUME NEW j \in Kinds, NEW m \in Listeners, Clear(j, m)
      PROVE  named'[k] # l
  BY <1>1 DEF Clear, NamedAfter, EndedInv
<1>2. ASSUME NEW t \in Threads, NEW j \in Kinds, NEW m \in Listeners, Listen(t, j, m)
      PROVE  named'[k] # l
  BY <1>2 DEF Listen, EndedInv
<1>3. ASSUME NEW j \in Kinds, Swap(j)
      PROVE  named'[k] # l
  BY <1>3 DEF Swap, EndedInv
<1>4. ASSUME NEW t \in Threads, NEW j \in Kinds,
             LookAtClosed(t, j) \/ HasListener(t, j) \/ ListenFails(t, j)
      PROVE  named'[k] # l
  BY <1>4 DEF LookAtClosed, HasListener, ListenFails, EndedInv
<1>5. ASSUME NEW j \in Kinds, NEW m \in Listeners,
             AcceptFails(j, m) \/ AcceptEnds(j, m) \/ Collect(j, m)
      PROVE  named'[k] # l
  <2>1. UNCHANGED named /\ loop[k][l] = "ended"
    BY <1>5 DEF AcceptFails, AcceptEnds, Collect
  <2> QED
    BY <2>1 DEF EndedInv
<1>6. ASSUME NEW j \in Kinds, CloseHeld(j)
      PROVE  named'[k] # l
  BY <1>6 DEF CloseHeld, EndedInv
<1>7. CASE BeginClose \/ UNCHANGED vars
  <2>1. UNCHANGED <<named, loop>>
    BY <1>7 DEF BeginClose, vars
  <2> QED
    BY <2>1 DEF EndedInv
<1> QED
  BY <1>1, <1>2, <1>3, <1>4, <1>5, <1>6, <1>7 DEF Next, EnsureStep, LoopStep, CloseStep

\* A socket from which nobody accepts any more is on its way to be closed: its loop has
\* still to take it out, or Close holds it and closes it next, or nothing refers to it
\* and the runtime collects it.
StrandedComesFree ==
  \A k \in Kinds, l \in Listeners :
    socket[k][l] = "stranded" =>
      \/ loop[k][l] = "clear"
      \/ held[k] = l /\ close[k] = "close"
      \/ loop[k][l] = "ended" /\ l \notin {named[k], held[k]}

\* What ListensAgain rests on: an accept loop that fails never leaves its address taken
\* for good, not by a listener that the gateway goes on naming, and not by one that Close
\* has passed over.
THEOREM AddressComesFree == Spec => []StrandedComesFree
<1>1. Init => EndedInv
  BY DEF Init, EndedInv
<1>2. ListenersInv /\ EndedInv => StrandedComesFree
  <2> SUFFICES ASSUME ListenersInv, EndedInv,
                      NEW k \in Kinds, NEW l \in Listeners, socket[k][l] = "stranded"
               PROVE  \/ loop[k][l] = "clear"
                      \/ held[k] = l /\ close[k] = "close"
                      \/ loop[k][l] = "ended" /\ l \notin {named[k], held[k]}
    BY DEF StrandedComesFree
  <2>1. loop[k][l] \in {"clear", "ended"}
    BY DEF ListenersInv, TypeOK, LoopInv
  <2>2. held[k] = l => close[k] = "close"
    BY ListenersAssumption DEF ListenersInv, HeldInv
  <2> QED
    BY <2>1, <2>2 DEF EndedInv
<1> QED
  BY <1>1, <1>2, SafetyInv, StepEnded, PTL DEF Spec, Safety

=============================================================================
