-------------------------- MODULE DiscoveryProofs ---------------------------
(***************************************************************************)
(* Proofs about Discovery for any number of scans, PUT handlers, devices   *)
(* and port numbers.                                                       *)
(*                                                                         *)
(* The argument: the numbers in use are those of the gateways ever made,   *)
(* and both ways of allocateMappedPort end at one that is not among them.  *)
(* The fallback takes the least free number of a range, which exists when  *)
(* one is free because the natural numbers are well-founded.  While passes *)
(* do not overlap in time a name keeps its gateway, for what the lookup    *)
(* found missing is still missing when the gateway is entered; so every    *)
(* gateway ever made is in the map, the second loop comes to each, and a   *)
(* port it leaves open has a name that the first loop found allowed.       *)
(***************************************************************************)
EXTENDS Discovery, FiniteSetTheorems, SequenceTheorems, WellFoundedInduction, TLAPS

-----------------------------------------------------------------------------
(* The least number of a set.                                              *)

Below == {pair \in Nat \X Nat : pair[1] < pair[2]}

LEMMA BelowIsWellFounded == IsWellFoundedOn(Below, Nat)
<1>1. Below = OpToRel(<, Nat)
  BY DEF Below, OpToRel
<1> QED
  BY <1>1, NatLessThanWellFounded

\* A set of natural numbers that is not empty has a least element.
LEMMA LeastExists ==
  ASSUME NEW S, S \subseteq Nat, S # {}
  PROVE  \E x \in S : \A y \in S : x <= y
<1>1. PICK x \in S : \A y \in S : ~(<<y, x>> \in Below)
  BY BelowIsWellFounded, WFMin
<1>2. ASSUME NEW y \in S, ~(x <= y)
      PROVE  FALSE
  <2>1. x \in Nat /\ y \in Nat /\ y < x
    BY <1>2
  <2>2. <<y, x>> \in Nat \X Nat /\ <<y, x>>[1] = y /\ <<y, x>>[2] = x
    BY <2>1
  <2>3. <<y, x>> \in Below
    BY <2>1, <2>2 DEF Below
  <2> QED
    BY <1>1, <2>3, Zenon
<1> QED
  BY <1>2

LEMMA MinIsLeast ==
  ASSUME NEW S, S \subseteq Nat, S # {}
  PROVE  Min(S) \in S
BY LeastExists DEF Min

\* What First takes out of a set of names is one of them.
LEMMA FirstIsMember ==
  ASSUME NEW S, S \subseteq Names, S # {}
  PROVE  First(S) \in S
<1> DEFINE positions == {i \in DOMAIN SortedNames : SortedNames[i] \in S}
<1>1. positions \subseteq Nat
  BY DiscoveryAssumption
<1>2. positions # {}
  BY DEF Names, ToSet
<1>3. Min(positions) \in positions
  BY <1>1, <1>2, MinIsLeast
<1> QED
  BY <1>3 DEF First

LEMMA NamesAreNumbers == Names \subseteq Nat
BY DiscoveryAssumption DEF Names, ToSet

-----------------------------------------------------------------------------
(* allocateMappedPort: the number is a port and is not in use.             *)

LEMMA FirstFreeIsFree ==
  ASSUME NEW next \in Nat, NEW used, Free(next, used) \cup Free(LowPort, used) # {}
  PROVE  FirstFree(next, used) \in 0..MaxPort /\ FirstFree(next, used) \notin used
<1> DEFINE range == IF Free(next, used) # {} THEN Free(next, used) ELSE Free(LowPort, used)
<1>1. LowPort \in Nat /\ MaxPort \in Nat
  BY DiscoveryAssumption
<1>2. range \subseteq (0..MaxPort) \ used /\ range # {}
  BY <1>1 DEF Free
<1>3. Min(range) \in range
  BY <1>2, MinIsLeast
<1> QED
  BY <1>2, <1>3 DEF FirstFree

LEMMA AllocateIsFree ==
  ASSUME NEW n \in Nat, NEW base \in Nat, NEW next \in 0..(MaxPort + 1), NEW used,
         Returns(n, base, next, used)
  PROVE  /\ Allocate(n, base, next, used) \in (0..MaxPort) \ used
         /\ NextAfter(n, base, next, used) \in 0..(MaxPort + 1)
<1>1. MaxPort \in Nat
  BY DiscoveryAssumption
<1>2. CASE Mapped(n, base, used)
  BY <1>1, <1>2 DEF Mapped, Allocate, NextAfter
<1>3. CASE ~Mapped(n, base, used)
  <2>1. FirstFree(next, used) \in 0..MaxPort /\ FirstFree(next, used) \notin used
    BY <1>1, <1>3, FirstFreeIsFree DEF Returns
  <2> QED
    BY <1>1, <1>3, <2>1 DEF Allocate, NextAfter
<1> QED
  BY <1>2, <1>3

-----------------------------------------------------------------------------
(* The invariant.                                                          *)

\* What a thread holds while it deals with a name.
PassInv(t) ==
  /\ pc[t] \in {"lookup", "create", "listen", "connected", "open", "attach"} => name[t] \in Names
  /\ pc[t] \in {"listen", "connected", "open", "attach", "detach"} => gateway[t] \in Gateways

DiscoveryInv ==
  /\ TypeOK
  /\ \A t \in Threads : PassInv(t)
  /\ PortsDistinct

\* Passes that do not overlap in time, whoever runs them.
OneAtATime == \A t, u \in Threads : pc[t] # "idle" /\ pc[u] # "idle" => t = u

\* Then a gateway is made for a name that has none,
NewNameInv == \A t \in Threads : pc[t] = "create" => gateways[name[t]] = 0

\* every gateway ever made is still the one of its name,
NeverReplaced == \A g \in Gateways : gateways[created[g].name] = g

\* and a gateway with an open port has a name the pass found present, or the pass
\* will still come to it.
Covered(t, g) ==
  \/ created[g].name \in present[t]
  \/ g \in sweep[t]
  \/ pc[t] = "detach" /\ gateway[t] = g

SelectionInv(t) ==
  /\ pc[t] \notin {"idle", "list", "detected"} => \A n \in present[t] : Allowed(n)
  /\ pc[t] \in {"sweep", "detach"} => \A g \in Gateways : port[g] = "open" => Covered(t, g)

LEMMA NamesOfGateways ==
  ASSUME TypeOK
  PROVE  \A h \in Gateways : created[h].name \in Names
<1>1. created \in Seq([name : Names, tcp : 0..MaxPort, telnet : 0..MaxPort])
  BY DEF TypeOK
<1>2. \A h \in Gateways : created[h] \in [name : Names, tcp : 0..MaxPort, telnet : 0..MaxPort]
  BY <1>1, ElementOfSeq DEF Gateways
<1> QED
  BY <1>2

LEMMA TickInv ==
  ASSUME DiscoveryInv, NEW t \in Threads, Tick(t)
  PROVE  DiscoveryInv'
<1> USE DEF DiscoveryInv, Tick, Goto, appVars, deviceVars, localVars
<1>1. TypeOK'
  BY DEF TypeOK, PassInv, Gateways
<1>2. ASSUME NEW u \in Threads
      PROVE  PassInv(u)'
  BY DEF TypeOK, PassInv, Gateways
<1>3. PortsDistinct'
  BY DEF PortsDistinct, Gateways
<1> QED
  BY <1>1, <1>2, <1>3

LEMMA SetAllowedInv ==
  ASSUME DiscoveryInv, NEW t \in Threads, SetAllowed(t)
  PROVE  DiscoveryInv'
<1> USE DEF DiscoveryInv, SetAllowed, Goto, appVars, deviceVars, localVars
<1>1. TypeOK'
  BY DEF TypeOK, PassInv, Gateways
<1>2. ASSUME NEW u \in Threads
      PROVE  PassInv(u)'
  BY DEF TypeOK, PassInv, Gateways
<1>3. PortsDistinct'
  BY DEF PortsDistinct, Gateways
<1> QED
  BY <1>1, <1>2, <1>3

LEMMA ListPortsInv ==
  ASSUME DiscoveryInv, NEW t \in Threads, ListPorts(t)
  PROVE  DiscoveryInv'
<1> USE DEF DiscoveryInv, ListPorts, Goto, appVars, deviceVars, localVars
<1>1. TypeOK'
  BY DEF TypeOK, PassInv, Gateways
<1>2. ASSUME NEW u \in Threads
      PROVE  PassInv(u)'
  BY DEF TypeOK, PassInv, Gateways
<1>3. PortsDistinct'
  BY DEF PortsDistinct, Gateways
<1> QED
  BY <1>1, <1>2, <1>3

LEMMA ListFailsInv ==
  ASSUME DiscoveryInv, NEW t \in Threads, ListFails(t)
  PROVE  DiscoveryInv'
<1> USE DEF DiscoveryInv, ListFails, Goto, appVars, deviceVars, localVars
<1>1. TypeOK'
  BY DEF TypeOK, PassInv, Gateways
<1>2. ASSUME NEW u \in Threads
      PROVE  PassInv(u)'
  BY DEF TypeOK, PassInv, Gateways
<1>3. PortsDistinct'
  BY DEF PortsDistinct, Gateways
<1> QED
  BY <1>1, <1>2, <1>3

LEMMA BeginInv ==
  ASSUME DiscoveryInv, NEW t \in Threads, Begin(t)
  PROVE  DiscoveryInv'
<1> USE DEF DiscoveryInv, Begin, Goto, appVars, deviceVars, localVars
<1>1. TypeOK'
  BY DEF TypeOK, PassInv, Gateways
<1>2. ASSUME NEW u \in Threads
      PROVE  PassInv(u)'
  BY DEF TypeOK, PassInv, Gateways
<1>3. PortsDistinct'
  BY DEF PortsDistinct, Gateways
<1> QED
  BY <1>1, <1>2, <1>3

LEMMA TakeNameInv ==
  ASSUME DiscoveryInv, NEW t \in Threads, TakeName(t)
  PROVE  DiscoveryInv'
<1> USE DEF DiscoveryInv, appVars, deviceVars
<1>1. PICK n \in Names :
        /\ n \in todo[t]
        /\ todo' = [todo EXCEPT ![t] = @ \ {n}]
        /\ name' = [name EXCEPT ![t] = n]
        /\ present' = [present EXCEPT ![t] = PresentWith(t, n)]
        /\ pc' = [pc EXCEPT ![t] = IF Allowed(n) THEN "lookup" ELSE "names"]
  <2>1. todo[t] \subseteq Names /\ todo[t] # {}
    BY DEF TypeOK, TakeName
  <2>2. First(todo[t]) \in todo[t]
    BY <2>1, FirstIsMember
  <2> QED
    BY <2>1, <2>2 DEF TakeName, Goto
<1>2. UNCHANGED <<appVars, deviceVars, gateway, sweep>>
  BY DEF TakeName
<1>3. TypeOK'
  <2>1. PresentWith(t, n) \subseteq Names
    BY <1>1 DEF TypeOK, PresentWith
  <2> QED
    BY <1>1, <1>2, <2>1 DEF TypeOK, Gateways
<1>4. ASSUME NEW u \in Threads
      PROVE  PassInv(u)'
  BY <1>1, <1>2 DEF TypeOK, PassInv, Gateways
<1>5. PortsDistinct'
  BY <1>2 DEF PortsDistinct, Gateways
<1> QED
  BY <1>3, <1>4, <1>5

LEMMA LookupInv ==
  ASSUME DiscoveryInv, NEW t \in Threads, Lookup(t)
  PROVE  DiscoveryInv'
<1> USE DEF DiscoveryInv, Lookup, Goto, Known, appVars, deviceVars, localVars
<1>1. TypeOK'
  BY DEF TypeOK, PassInv, Gateways
<1>2. ASSUME NEW u \in Threads
      PROVE  PassInv(u)'
  BY DEF TypeOK, PassInv, Gateways
<1>3. PortsDistinct'
  BY DEF PortsDistinct, Gateways
<1> QED
  BY <1>1, <1>2, <1>3

\* The new gateway has numbers that no other has.
LEMMA GatewayIsNew ==
  ASSUME DiscoveryInv, NEW t \in Threads, Create(t)
  PROVE  /\ Gateway(name[t]) \in [name : Names, tcp : 0..MaxPort, telnet : 0..MaxPort]
         /\ AllocatorAfter(name[t]) \in [tcp : 0..(MaxPort + 1), telnet : 0..(MaxPort + 1)]
         /\ \A g \in Gateways : /\ created[g].tcp # Gateway(name[t]).tcp
                                /\ created[g].telnet # Gateway(name[t]).telnet
<1>1. name[t] \in Names /\ name[t] \in Nat
  BY NamesAreNumbers DEF DiscoveryInv, PassInv, Create
<1>2. /\ TCPBase \in Nat /\ TelnetBase \in Nat
      /\ nextPort.tcp \in 0..(MaxPort + 1) /\ nextPort.telnet \in 0..(MaxPort + 1)
  BY DiscoveryAssumption DEF DiscoveryInv, TypeOK
<1>3. /\ Returns(name[t], TCPBase, nextPort.tcp, UsedTCP)
      /\ Returns(name[t], TelnetBase, nextPort.telnet, UsedTelnet)
  BY DEF Create
<1>4. /\ Allocate(name[t], TCPBase, nextPort.tcp, UsedTCP) \in (0..MaxPort) \ UsedTCP
      /\ NextAfter(name[t], TCPBase, nextPort.tcp, UsedTCP) \in 0..(MaxPort + 1)
  BY <1>1, <1>2, <1>3, AllocateIsFree
<1>5. /\ Allocate(name[t], TelnetBase, nextPort.telnet, UsedTelnet) \in (0..MaxPort) \ UsedTelnet
      /\ NextAfter(name[t], TelnetBase, nextPort.telnet, UsedTelnet) \in 0..(MaxPort + 1)
  BY <1>1, <1>2, <1>3, AllocateIsFree
<1> QED
  BY <1>1, <1>4, <1>5 DEF Gateway, AllocatorAfter, UsedTCP, UsedTelnet

LEMMA CreateInv ==
  ASSUME DiscoveryInv, NEW t \in Threads, Create(t)
  PROVE  DiscoveryInv'
<1> DEFINE new == Gateway(name[t])
           Record == [name : Names, tcp : 0..MaxPort, telnet : 0..MaxPort]
<1>1. /\ new \in Record
      /\ nextPort' \in [tcp : 0..(MaxPort + 1), telnet : 0..(MaxPort + 1)]
      /\ \A g \in Gateways : created[g].tcp # new.tcp /\ created[g].telnet # new.telnet
  BY GatewayIsNew DEF Create
<1>2. created \in Seq(Record) /\ created' = Append(created, new)
  BY DEF Create, DiscoveryInv, TypeOK
<1> HIDE DEF new, Record
<1>3. /\ created' \in Seq(Record)
      /\ Len(created) \in Nat /\ Len(created') = Len(created) + 1
      /\ \A g \in Gateways : created'[g] = created[g]
      /\ created'[Len(created')] = new
  BY <1>1, <1>2 DEF Gateways
<1>4. Gateways' = Gateways \cup {Len(created')} /\ Gateways = 1..Len(created)
  BY <1>3 DEF Gateways
<1>5. name[t] \in Names
  BY DEF DiscoveryInv, PassInv, Create
<1>6. /\ gateways' = [gateways EXCEPT ![name[t]] = Len(created')]
      /\ gateway' = [gateway EXCEPT ![t] = Len(created')]
      /\ pc' = [pc EXCEPT ![t] = "listen"]
      /\ UNCHANGED <<allowed, detected, devices, listening, todo, present, name, sweep>>
  BY DEF Create, Goto
<1>7. port' \in [Gateways' -> {"none", "open", "failed"}]
  <2>1. port \in Seq({"none", "open", "failed"}) /\ Len(port) = Len(created)
    <3>1. port \in [1..Len(created) -> {"none", "open", "failed"}]
      BY <1>4 DEF DiscoveryInv, TypeOK
    <3> QED
      BY <1>3, <3>1
  <2>2. port' = Append(port, "none")
    BY DEF Create
  <2>3. port' \in Seq({"none", "open", "failed"}) /\ Len(port') = Len(created')
    BY <1>3, <2>1, <2>2
  <2> QED
    BY <2>3 DEF Gateways
<1>8. TypeOK'
  <2>1. gateways' \in [Names -> 0..Len(created')] /\ gateway' \in [Threads -> 0..Len(created')]
    BY <1>3, <1>5, <1>6 DEF DiscoveryInv, TypeOK
  <2>2. listening' \subseteq Gateways' /\ sweep' \in [Threads -> SUBSET Gateways']
    BY <1>4, <1>6 DEF DiscoveryInv, TypeOK
  <2>3. created' \in Seq([name : Names, tcp : 0..MaxPort, telnet : 0..MaxPort])
    BY <1>3 DEF Record
  <2> QED
    BY <1>1, <1>6, <1>7, <2>1, <2>2, <2>3 DEF DiscoveryInv, TypeOK
<1>9. ASSUME NEW u \in Threads
      PROVE  PassInv(u)'
  BY <1>3, <1>4, <1>5, <1>6 DEF DiscoveryInv, TypeOK, PassInv
<1>10. PortsDistinct'
  <2> SUFFICES ASSUME NEW g \in Gateways', NEW h \in Gateways', g # h
               PROVE  created'[g].tcp # created'[h].tcp /\ created'[g].telnet # created'[h].telnet
    BY DEF PortsDistinct
  <2>1. CASE g \in Gateways /\ h \in Gateways
    BY <1>3, <2>1 DEF DiscoveryInv, PortsDistinct
  <2>2. CASE g = Len(created')
    <3>1. h \in Gateways
      BY <1>4, <2>2
    <3> QED
      BY <1>1, <1>3, <2>2, <3>1
  <2>3. CASE h = Len(created')
    <3>1. g \in Gateways
      BY <1>4, <2>3
    <3> QED
      BY <1>1, <1>3, <2>3, <3>1
  <2> QED
    BY <1>4, <2>1, <2>2, <2>3
<1> QED
  BY <1>8, <1>9, <1>10 DEF DiscoveryInv

LEMMA ListenInv ==
  ASSUME DiscoveryInv, NEW t \in Threads, Listen(t)
  PROVE  DiscoveryInv'
<1> USE DEF DiscoveryInv, Listen, Goto, appVars, deviceVars, localVars
<1>1. TypeOK'
  BY DEF TypeOK, PassInv, Gateways
<1>2. ASSUME NEW u \in Threads
      PROVE  PassInv(u)'
  BY DEF TypeOK, PassInv, Gateways
<1>3. PortsDistinct'
  BY DEF PortsDistinct, Gateways
<1> QED
  BY <1>1, <1>2, <1>3

LEMMA CheckConnectedInv ==
  ASSUME DiscoveryInv, NEW t \in Threads, CheckConnected(t)
  PROVE  DiscoveryInv'
<1> USE DEF DiscoveryInv, CheckConnected, Goto, appVars, deviceVars, localVars
<1>1. TypeOK'
  BY DEF TypeOK, PassInv, Gateways
<1>2. ASSUME NEW u \in Threads
      PROVE  PassInv(u)'
  BY DEF TypeOK, PassInv, Gateways
<1>3. PortsDistinct'
  BY DEF PortsDistinct, Gateways
<1> QED
  BY <1>1, <1>2, <1>3

LEMMA OpenSerialInv ==
  ASSUME DiscoveryInv, NEW t \in Threads, OpenSerial(t)
  PROVE  DiscoveryInv'
<1> USE DEF DiscoveryInv, OpenSerial, Goto, appVars, deviceVars, localVars
<1>1. TypeOK'
  BY DEF TypeOK, PassInv, Gateways
<1>2. ASSUME NEW u \in Threads
      PROVE  PassInv(u)'
  BY DEF TypeOK, PassInv, Gateways
<1>3. PortsDistinct'
  BY DEF PortsDistinct, Gateways
<1> QED
  BY <1>1, <1>2, <1>3

LEMMA OpenFailsInv ==
  ASSUME DiscoveryInv, NEW t \in Threads, OpenFails(t)
  PROVE  DiscoveryInv'
<1> USE DEF DiscoveryInv, OpenFails, Goto, appVars, deviceVars, localVars
<1>1. TypeOK'
  BY DEF TypeOK, PassInv, Gateways
<1>2. ASSUME NEW u \in Threads
      PROVE  PassInv(u)'
  BY DEF TypeOK, PassInv, Gateways
<1>3. PortsDistinct'
  BY DEF PortsDistinct, Gateways
<1> QED
  BY <1>1, <1>2, <1>3

LEMMA AttachInv ==
  ASSUME DiscoveryInv, NEW t \in Threads, Attach(t)
  PROVE  DiscoveryInv'
<1> USE DEF DiscoveryInv, Attach, Goto, appVars, deviceVars, localVars
<1>1. TypeOK'
  BY DEF TypeOK, PassInv, Gateways
<1>2. ASSUME NEW u \in Threads
      PROVE  PassInv(u)'
  BY DEF TypeOK, PassInv, Gateways
<1>3. PortsDistinct'
  BY DEF PortsDistinct, Gateways
<1> QED
  BY <1>1, <1>2, <1>3

LEMMA ListGatewaysInv ==
  ASSUME DiscoveryInv, NEW t \in Threads, ListGateways(t)
  PROVE  DiscoveryInv'
<1> USE DEF DiscoveryInv, ListGateways, Goto, appVars, deviceVars, localVars
<1>1. TypeOK'
  BY DEF TypeOK, PassInv, Gateways
<1>2. ASSUME NEW u \in Threads
      PROVE  PassInv(u)'
  BY DEF TypeOK, PassInv, Gateways
<1>3. PortsDistinct'
  BY DEF PortsDistinct, Gateways
<1> QED
  BY <1>1, <1>2, <1>3

\* The step takes one gateway out of the sweep, and goes to detach it if its name is
\* not present and it has a port.
LEMMA SweepTakesOne ==
  ASSUME DiscoveryInv, NEW t \in Threads, SweepOne(t)
  PROVE  \E g \in sweep[t] :
           /\ sweep' = [sweep EXCEPT ![t] = @ \ {g}]
           /\ gateway' = [gateway EXCEPT ![t] = g]
           /\ Goto(t, IF created[g].name \notin present[t] /\ port[g] # "none"
                      THEN "detach" ELSE "sweep")
<1> USE DEF DiscoveryInv
<1> DEFINE names == {created[g].name : g \in sweep[t]}
           g == CHOOSE h \in sweep[t] : created[h].name = First(names)
<1>1. sweep[t] \subseteq Gateways /\ sweep[t] # {}
  BY DEF TypeOK, SweepOne
<1>2. names \subseteq Names
  <2>1. \A h \in Gateways : created[h].name \in Names
    BY NamesOfGateways
  <2> QED
    BY <1>1, <2>1
<1>3. First(names) \in names
  BY <1>1, <1>2, FirstIsMember
<1>4. g \in sweep[t] /\ created[g].name = First(names)
  BY <1>3
<1> QED
  BY <1>4 DEF SweepOne

LEMMA SweepOneInv ==
  ASSUME DiscoveryInv, NEW t \in Threads, SweepOne(t)
  PROVE  DiscoveryInv'
<1> USE DEF DiscoveryInv, appVars, deviceVars
<1>1. PICK g \in sweep[t] :
        /\ sweep' = [sweep EXCEPT ![t] = @ \ {g}]
        /\ gateway' = [gateway EXCEPT ![t] = g]
        /\ \/ pc' = [pc EXCEPT ![t] = "detach"]
           \/ pc' = [pc EXCEPT ![t] = "sweep"]
  BY SweepTakesOne DEF Goto
<1>2. UNCHANGED <<appVars, deviceVars, todo, present, name>>
  BY DEF SweepOne
<1>3. g \in Gateways
  BY <1>1 DEF TypeOK
<1>4. TypeOK'
  <2>1. Gateways' = Gateways
    BY <1>2 DEF Gateways
  <2>2. /\ sweep' \in [Threads -> SUBSET Gateways]
        /\ gateway' \in [Threads -> 0..Len(created)]
    BY <1>1, <1>3 DEF TypeOK, Gateways
  <2>3. pc' \in [Threads -> {"idle", "list", "detected", "names", "lookup", "create", "listen",
                             "connected", "open", "attach", "sweep", "detach"}]
    BY <1>1 DEF TypeOK
  <2> QED
    BY <1>2, <2>1, <2>2, <2>3 DEF TypeOK
<1>5. ASSUME NEW u \in Threads
      PROVE  PassInv(u)'
  BY <1>1, <1>2, <1>3 DEF TypeOK, PassInv, Gateways
<1>6. PortsDistinct'
  BY <1>2 DEF PortsDistinct, Gateways
<1> QED
  BY <1>4, <1>5, <1>6

LEMMA DetachInv ==
  ASSUME DiscoveryInv, NEW t \in Threads, Detach(t)
  PROVE  DiscoveryInv'
<1> USE DEF DiscoveryInv, Detach, Goto, appVars, deviceVars, localVars
<1>1. TypeOK'
  BY DEF TypeOK, PassInv, Gateways
<1>2. ASSUME NEW u \in Threads
      PROVE  PassInv(u)'
  BY DEF TypeOK, PassInv, Gateways
<1>3. PortsDistinct'
  BY DEF PortsDistinct, Gateways
<1> QED
  BY <1>1, <1>2, <1>3

LEMMA EndInv ==
  ASSUME DiscoveryInv, NEW t \in Threads, End(t)
  PROVE  DiscoveryInv'
<1> USE DEF DiscoveryInv, End, Goto, appVars, deviceVars, localVars
<1>1. TypeOK'
  BY DEF TypeOK, PassInv, Gateways
<1>2. ASSUME NEW u \in Threads
      PROVE  PassInv(u)'
  BY DEF TypeOK, PassInv, Gateways
<1>3. PortsDistinct'
  BY DEF PortsDistinct, Gateways
<1> QED
  BY <1>1, <1>2, <1>3

LEMMA PlugInv ==
  ASSUME DiscoveryInv, NEW n \in Names, Plug(n)
  PROVE  DiscoveryInv'
<1> USE DEF DiscoveryInv, Plug, appVars, deviceVars, localVars
<1>1. TypeOK'
  BY DEF TypeOK, Gateways
<1>2. ASSUME NEW u \in Threads
      PROVE  PassInv(u)'
  BY DEF TypeOK, PassInv, Gateways
<1>3. PortsDistinct'
  BY DEF PortsDistinct, Gateways
<1> QED
  BY <1>1, <1>2, <1>3

LEMMA UnplugInv ==
  ASSUME DiscoveryInv, NEW n \in Names, Unplug(n)
  PROVE  DiscoveryInv'
<1> USE DEF DiscoveryInv, Unplug, appVars, deviceVars, localVars
<1>1. TypeOK'
  BY DEF TypeOK, Gateways
<1>2. ASSUME NEW u \in Threads
      PROVE  PassInv(u)'
  BY DEF TypeOK, PassInv, Gateways
<1>3. PortsDistinct'
  BY DEF PortsDistinct, Gateways
<1> QED
  BY <1>1, <1>2, <1>3

LEMMA LoopEndsInv ==
  ASSUME DiscoveryInv, NEW n \in Gateways, LoopEnds(n)
  PROVE  DiscoveryInv'
<1> USE DEF DiscoveryInv, LoopEnds, appVars, deviceVars, localVars
<1>1. TypeOK'
  BY DEF TypeOK, Gateways
<1>2. ASSUME NEW u \in Threads
      PROVE  PassInv(u)'
  BY DEF TypeOK, PassInv, Gateways
<1>3. PortsDistinct'
  BY DEF PortsDistinct, Gateways
<1> QED
  BY <1>1, <1>2, <1>3

-----------------------------------------------------------------------------
LEMMA InitInv == Init => DiscoveryInv
<1> SUFFICES ASSUME Init
             PROVE  DiscoveryInv
  OBVIOUS
<1>1. PICK order \in Bijection(1..Cardinality(AtStart), AtStart) :
        /\ created = [i \in DOMAIN order |-> [name   |-> order[i],
                                              tcp    |-> TCPBase + order[i],
                                              telnet |-> TelnetBase + order[i]]]
        /\ gateways = [n \in Names |->
                         IF n \in AtStart THEN CHOOSE i \in DOMAIN order : order[i] = n ELSE 0]
        /\ port = [i \in DOMAIN order |-> "open"]
        /\ listening = DOMAIN order
  BY DEF Init
<1> DEFINE k == Cardinality(AtStart)
<1>2. AtStart \subseteq Names /\ AtStart \subseteq Nat /\ k \in Nat
  <2>1. IsFiniteSet(DOMAIN SortedNames)
    <3>1. Len(SortedNames) \in Nat /\ DOMAIN SortedNames = 1..Len(SortedNames)
      BY DiscoveryAssumption
    <3> QED
      BY <3>1, FS_Interval
  <2>2. IsFiniteSet(Names)
    <3>1. Names = {SortedNames[i] : i \in DOMAIN SortedNames}
      BY DEF Names, ToSet
    <3>2. SortedNames \in Surjection(DOMAIN SortedNames, Names)
      BY <3>1, DiscoveryAssumption DEF Surjection
    <3> QED
      BY <2>1, <3>2, FS_Surjection
  <2>3. AtStart \subseteq Names
    BY DiscoveryAssumption
  <2>4. IsFiniteSet(AtStart)
    BY <2>2, <2>3, FS_Subset
  <2> QED
    BY <2>3, <2>4, FS_CardinalityType, NamesAreNumbers
<1> HIDE DEF k
<1>3. /\ order \in [1..k -> AtStart] /\ DOMAIN order = 1..k
      /\ \A i, j \in 1..k : order[i] = order[j] => i = j
      /\ \A n \in AtStart : \E i \in 1..k : order[i] = n
  BY <1>1 DEF Bijection, Injection, Surjection, IsInjective, k
<1>4. \A i \in 1..k : /\ order[i] \in Names /\ order[i] \in Nat
                      /\ TCPBase + order[i] \in 0..MaxPort
                      /\ TelnetBase + order[i] \in 0..MaxPort
  <2>1. /\ TCPBase \in Nat /\ TelnetBase \in Nat /\ MaxPort \in Nat
        /\ \A n \in AtStart : TCPBase + n <= MaxPort /\ TelnetBase + n <= MaxPort
    BY DiscoveryAssumption
  <2>2. \A i \in 1..k : order[i] \in AtStart
    BY <1>3
  <2>3. \A n \in AtStart : TCPBase + n \in 0..MaxPort /\ TelnetBase + n \in 0..MaxPort
    BY <1>2, <2>1
  <2> QED
    BY <1>2, <2>2, <2>3
<1>5. /\ created \in Seq([name : Names, tcp : 0..MaxPort, telnet : 0..MaxPort])
      /\ Len(created) = k
  BY <1>1, <1>2, <1>3, <1>4
<1>6. Gateways = 1..k
  BY <1>5 DEF Gateways
<1>7. gateways \in [Names -> 0..k]
  <2>1. \A n \in AtStart : (CHOOSE i \in 1..k : order[i] = n) \in 1..k
    BY <1>3
  <2> QED
    BY <1>1, <1>2, <1>3, <2>1
<1>8. nextPort \in [tcp : 0..(MaxPort + 1), telnet : 0..(MaxPort + 1)]
  <2>1. /\ TCPBase \in Nat /\ TelnetBase \in Nat /\ MaxPort \in Nat
        /\ TCPBase + 0 <= MaxPort /\ TelnetBase + 0 <= MaxPort
    BY DiscoveryAssumption
  <2>2. TCPBase \in 0..(MaxPort + 1) /\ TelnetBase \in 0..(MaxPort + 1)
    BY <2>1
  <2> QED
    BY <2>2 DEF Init
<1>9. TypeOK
  <2>1. port \in [Gateways -> {"none", "open", "failed"}] /\ listening \subseteq Gateways
    BY <1>1, <1>3, <1>6
  <2>2. /\ devices \subseteq Names /\ detected \subseteq Names /\ allowed = {}
        /\ pc = [t \in Threads |-> "idle"] /\ todo = [t \in Threads |-> {}]
        /\ present = [t \in Threads |-> {}] /\ name = [t \in Threads |-> 0]
        /\ gateway = [t \in Threads |-> 0] /\ sweep = [t \in Threads |-> {}]
    BY <1>2 DEF Init
  <2> QED
    BY <1>2, <1>5, <1>7, <1>8, <2>1, <2>2 DEF TypeOK
<1>10. \A t \in Threads : PassInv(t)
  BY DEF Init, PassInv
<1>11. PortsDistinct
  <2> SUFFICES ASSUME NEW g \in 1..k, NEW h \in 1..k, g # h
               PROVE  created[g].tcp # created[h].tcp /\ created[g].telnet # created[h].telnet
    BY <1>6 DEF PortsDistinct
  <2>1. /\ created[g].tcp = TCPBase + order[g] /\ created[g].telnet = TelnetBase + order[g]
        /\ created[h].tcp = TCPBase + order[h] /\ created[h].telnet = TelnetBase + order[h]
    BY <1>1, <1>3
  <2>2. order[g] # order[h] /\ order[g] \in Nat /\ order[h] \in Nat
    BY <1>3, <1>4
  <2>3. TCPBase \in Nat /\ TelnetBase \in Nat
    BY DiscoveryAssumption
  <2> QED
    BY <2>1, <2>2, <2>3
<1> QED
  BY <1>9, <1>10, <1>11 DEF DiscoveryInv

LEMMA NextInv == DiscoveryInv /\ [Next]_vars => DiscoveryInv'
<1> SUFFICES ASSUME DiscoveryInv, [Next]_vars
             PROVE  DiscoveryInv'
  OBVIOUS
<1>1. ASSUME NEW t \in Threads, Tick(t)
      PROVE  DiscoveryInv'
  BY <1>1, TickInv
<1>2. ASSUME NEW t \in Threads, SetAllowed(t)
      PROVE  DiscoveryInv'
  BY <1>2, SetAllowedInv
<1>3. ASSUME NEW t \in Threads, ListPorts(t)
      PROVE  DiscoveryInv'
  BY <1>3, ListPortsInv
<1>4. ASSUME NEW t \in Threads, ListFails(t)
      PROVE  DiscoveryInv'
  BY <1>4, ListFailsInv
<1>5. ASSUME NEW t \in Threads, Begin(t)
      PROVE  DiscoveryInv'
  BY <1>5, BeginInv
<1>6. ASSUME NEW t \in Threads, TakeName(t)
      PROVE  DiscoveryInv'
  BY <1>6, TakeNameInv
<1>7. ASSUME NEW t \in Threads, Lookup(t)
      PROVE  DiscoveryInv'
  BY <1>7, LookupInv
<1>8. ASSUME NEW t \in Threads, Create(t)
      PROVE  DiscoveryInv'
  BY <1>8, CreateInv
<1>9. ASSUME NEW t \in Threads, Listen(t)
      PROVE  DiscoveryInv'
  BY <1>9, ListenInv
<1>10. ASSUME NEW t \in Threads, CheckConnected(t)
       PROVE  DiscoveryInv'
  BY <1>10, CheckConnectedInv
<1>11. ASSUME NEW t \in Threads, OpenSerial(t)
       PROVE  DiscoveryInv'
  BY <1>11, OpenSerialInv
<1>12. ASSUME NEW t \in Threads, OpenFails(t)
       PROVE  DiscoveryInv'
  BY <1>12, OpenFailsInv
<1>13. ASSUME NEW t \in Threads, Attach(t)
       PROVE  DiscoveryInv'
  BY <1>13, AttachInv
<1>14. ASSUME NEW t \in Threads, ListGateways(t)
       PROVE  DiscoveryInv'
  BY <1>14, ListGatewaysInv
<1>15. ASSUME NEW t \in Threads, SweepOne(t)
       PROVE  DiscoveryInv'
  BY <1>15, SweepOneInv
<1>16. ASSUME NEW t \in Threads, Detach(t)
       PROVE  DiscoveryInv'
  BY <1>16, DetachInv
<1>17. ASSUME NEW t \in Threads, End(t)
       PROVE  DiscoveryInv'
  BY <1>17, EndInv
<1>18. ASSUME NEW n \in Names, Plug(n)
       PROVE  DiscoveryInv'
  BY <1>18, PlugInv
<1>19. ASSUME NEW n \in Names, Unplug(n)
       PROVE  DiscoveryInv'
  BY <1>19, UnplugInv
<1>20. ASSUME NEW n \in Gateways, LoopEnds(n)
       PROVE  DiscoveryInv'
  BY <1>20, LoopEndsInv
<1>21. CASE UNCHANGED vars
  <2>1. TypeOK'
    BY <1>21 DEF DiscoveryInv, TypeOK, Gateways, vars, appVars, deviceVars, localVars
  <2>2. ASSUME NEW u \in Threads
        PROVE  PassInv(u)'
    BY <1>21 DEF DiscoveryInv, PassInv, Gateways, vars, appVars, deviceVars, localVars
  <2>3. PortsDistinct'
    BY <1>21 DEF DiscoveryInv, PortsDistinct, Gateways, vars, appVars, deviceVars, localVars
  <2> QED
    BY <2>1, <2>2, <2>3 DEF DiscoveryInv
<1> QED
  BY <1>1, <1>2, <1>3, <1>4, <1>5, <1>6, <1>7, <1>8, <1>9, <1>10, <1>11, <1>12, <1>13,
     <1>14, <1>15, <1>16, <1>17, <1>18, <1>19, <1>20, <1>21
  DEF Next, ReconcileStep

-----------------------------------------------------------------------------
(* Theorems.                                                               *)

LEMMA InvAlways == Spec => []DiscoveryInv
BY InitInv, NextInv, PTL DEF Spec, Safety

\* The variables of App and of its passes keep their types, and every gateway has
\* numbers that are ports, however many scans and PUT handlers run at once.
THEOREM TypeCorrect == Spec => []TypeOK
<1>1. DiscoveryInv => TypeOK
  BY DEF DiscoveryInv
<1> QED
  BY <1>1, InvAlways, PTL

\* No two gateways share a TCP or a Telnet number (allocateMappedPort), whatever the
\* names, the base numbers and the range, also for gateways that two passes made for
\* one name.
THEOREM NumbersAreDistinct == Spec => []PortsDistinct
<1>1. DiscoveryInv => PortsDistinct
  BY DEF DiscoveryInv
<1> QED
  BY <1>1, InvAlways, PTL

\* A step of a pass is that of the only thread in one.
LEMMA OthersAreIdle ==
  ASSUME DiscoveryInv, OneAtATime, OneAtATime', NEW t \in Threads, NEW u \in Threads, t # u,
         Tick(t) \/ SetAllowed(t) \/ ReconcileStep(t)
  PROVE  pc'[u] = "idle"
<1> USE DEF DiscoveryInv
<1>1. CASE Tick(t) \/ SetAllowed(t)
  <2>1. pc'[t] = "list"
    BY <1>1 DEF Tick, SetAllowed, Goto, TypeOK
  <2> QED
    BY <2>1 DEF OneAtATime
<1>2. CASE ReconcileStep(t)
  <2>1. pc[t] # "idle"
    BY <1>2 DEF ReconcileStep, ListPorts, ListFails, Begin, TakeName, Lookup, Create, Listen,
                CheckConnected, OpenSerial, OpenFails, Attach, ListGateways, SweepOne, Detach, End
  <2>2. \E place : Goto(t, place)
    BY <1>2 DEF ReconcileStep, ListPorts, ListFails, Begin, TakeName, Lookup, Create, Listen,
                CheckConnected, OpenSerial, OpenFails, Attach, ListGateways, SweepOne, Detach, End
  <2>3. pc'[u] = pc[u]
    BY <2>2 DEF Goto, TypeOK
  <2> QED
    BY <2>1, <2>3 DEF OneAtATime
<1> QED
  BY <1>1, <1>2

LEMMA NewNameKept ==
  ASSUME DiscoveryInv, OneAtATime, OneAtATime', NewNameInv, [Next]_vars
  PROVE  NewNameInv'
<1> SUFFICES ASSUME NEW u \in Threads, pc'[u] = "create"
             PROVE  gateways'[name'[u]] = 0
  BY DEF NewNameInv
<1> USE DEF DiscoveryInv
<1>1. ASSUME NEW t \in Threads, Tick(t) \/ SetAllowed(t) \/ ReconcileStep(t)
      PROVE  t = u
  BY <1>1, OthersAreIdle
<1>2. CASE Lookup(u)
  BY <1>2 DEF Lookup, Known, Goto, TypeOK, appVars
<1>3. ASSUME Tick(u) \/ SetAllowed(u) \/ ListPorts(u) \/ ListFails(u) \/ Begin(u) \/ TakeName(u)
      PROVE  FALSE
  BY <1>3 DEF Tick, SetAllowed, ListPorts, ListFails, Begin, TakeName, Goto, TypeOK
<1>4. ASSUME \/ Create(u) \/ Listen(u) \/ CheckConnected(u) \/ OpenSerial(u) \/ OpenFails(u)
             \/ Attach(u) \/ ListGateways(u) \/ SweepOne(u) \/ Detach(u) \/ End(u)
      PROVE  FALSE
  BY <1>4 DEF Create, Listen, CheckConnected, OpenSerial, OpenFails, Attach, ListGateways,
              SweepOne, Detach, End, Goto, TypeOK
<1>5. ASSUME UNCHANGED <<pc, name, gateways>>
      PROVE  gateways'[name'[u]] = 0
  BY <1>5 DEF NewNameInv
<1>6. ASSUME NEW n, Plug(n) \/ Unplug(n) \/ LoopEnds(n)
      PROVE  UNCHANGED <<pc, name, gateways>>
  BY <1>6 DEF Plug, Unplug, LoopEnds, appVars, localVars
<1>7. ASSUME UNCHANGED vars
      PROVE  UNCHANGED <<pc, name, gateways>>
  BY <1>7 DEF vars, appVars, localVars
<1> QED
  BY <1>1, <1>2, <1>3, <1>4, <1>5, <1>6, <1>7 DEF Next, ReconcileStep

LEMMA CreateGrows ==
  ASSUME DiscoveryInv, NEW t \in Threads, Create(t)
  PROVE  /\ Gateways' = Gateways \cup {Len(created')} /\ Len(created') \notin Gateways
         /\ \A g \in Gateways : created'[g] = created[g]
         /\ created'[Len(created')].name = name[t]
         /\ gateways' = [gateways EXCEPT ![name[t]] = Len(created')]
<1> DEFINE Record == [name : Names, tcp : 0..MaxPort, telnet : 0..MaxPort]
<1>1. Gateway(name[t]) \in Record
  BY GatewayIsNew DEF Create
<1>2. created \in Seq(Record) /\ created' = Append(created, Gateway(name[t]))
  BY DEF Create, DiscoveryInv, TypeOK
<1> HIDE DEF Record
<1>3. /\ Len(created) \in Nat /\ Len(created') = Len(created) + 1
      /\ \A g \in Gateways : created'[g] = created[g]
      /\ created'[Len(created')] = Gateway(name[t])
  BY <1>1, <1>2 DEF Gateways
<1> QED
  BY <1>3 DEF Gateways, Create, Gateway

LEMMA OnlyCreateMakes ==
  ASSUME [Next]_vars
  PROVE  UNCHANGED <<created, gateways>> \/ \E t \in Threads : Create(t)
<1>1. ASSUME NEW t \in Threads, Tick(t) \/ SetAllowed(t)
      PROVE  UNCHANGED <<created, gateways>>
  BY <1>1 DEF Tick, SetAllowed, appVars
<1>2. ASSUME NEW t \in Threads, ReconcileStep(t), ~Create(t)
      PROVE  UNCHANGED <<created, gateways>>
  BY <1>2 DEF ReconcileStep, ListPorts, ListFails, Begin, TakeName, Lookup, Listen, CheckConnected,
              OpenSerial, OpenFails, Attach, ListGateways, SweepOne, Detach, End, appVars
<1>3. ASSUME NEW n, Plug(n) \/ Unplug(n) \/ LoopEnds(n)
      PROVE  UNCHANGED <<created, gateways>>
  BY <1>3 DEF Plug, Unplug, LoopEnds, appVars
<1>4. ASSUME UNCHANGED vars
      PROVE  UNCHANGED <<created, gateways>>
  BY <1>4 DEF vars, appVars
<1> QED
  BY <1>1, <1>2, <1>3, <1>4 DEF Next

LEMMA NeverReplacedKept ==
  ASSUME DiscoveryInv, NewNameInv, NeverReplaced, [Next]_vars
  PROVE  NeverReplaced'
<1>1. CASE UNCHANGED <<created, gateways>>
  BY <1>1 DEF NeverReplaced, Gateways
<1>2. ASSUME NEW t \in Threads, Create(t)
      PROVE  NeverReplaced'
  <2>1. /\ Gateways' = Gateways \cup {Len(created')} /\ Len(created') \notin Gateways
        /\ \A g \in Gateways : created'[g] = created[g]
        /\ created'[Len(created')].name = name[t]
        /\ gateways' = [gateways EXCEPT ![name[t]] = Len(created')]
    BY <1>2, CreateGrows
  <2>2. gateways[name[t]] = 0 /\ name[t] \in Names
    BY <1>2 DEF DiscoveryInv, PassInv, NewNameInv, Create
  <2>3. gateways \in [Names -> 0..Len(created)]
    BY DEF DiscoveryInv, TypeOK
  <2>4. ASSUME NEW g \in Gateways
        PROVE  gateways'[created'[g].name] = g
    <3>1. gateways[created[g].name] = g /\ g # 0
      BY DEF NeverReplaced, Gateways
    <3>2. created[g].name # name[t] /\ created[g].name \in Names
      BY <2>2, <3>1, NamesOfGateways DEF DiscoveryInv
    <3> QED
      BY <2>1, <2>3, <3>1, <3>2
  <2>5. gateways'[created'[Len(created')].name] = Len(created')
    BY <2>1, <2>2, <2>3
  <2> QED
    BY <2>1, <2>4, <2>5 DEF NeverReplaced
<1> QED
  BY <1>1, <1>2, OnlyCreateMakes

LEMMA OnlyCreateMaps ==
  ASSUME DiscoveryInv, [Next]_vars
  PROVE  \/ UNCHANGED gateways
         \/ \E t \in Threads : /\ pc[t] = "create"
                               /\ \A n \in Names \ {name[t]} : gateways'[n] = gateways[n]
<1>1. ASSUME NEW t \in Threads, Create(t)
      PROVE  pc[t] = "create" /\ \A n \in Names \ {name[t]} : gateways'[n] = gateways[n]
  BY <1>1 DEF DiscoveryInv, TypeOK, Create
<1>2. ASSUME NEW t \in Threads, Tick(t) \/ SetAllowed(t)
      PROVE  UNCHANGED gateways
  BY <1>2 DEF Tick, SetAllowed, appVars
<1>3. ASSUME NEW t \in Threads, ReconcileStep(t), ~Create(t)
      PROVE  UNCHANGED gateways
  BY <1>3 DEF ReconcileStep, ListPorts, ListFails, Begin, TakeName, Lookup, Listen, CheckConnected,
              OpenSerial, OpenFails, Attach, ListGateways, SweepOne, Detach, End, appVars
<1>4. ASSUME NEW n, Plug(n) \/ Unplug(n) \/ LoopEnds(n)
      PROVE  UNCHANGED gateways
  BY <1>4 DEF Plug, Unplug, LoopEnds, appVars
<1>5. ASSUME UNCHANGED vars
      PROVE  UNCHANGED gateways
  BY <1>5 DEF vars, appVars
<1> QED
  BY <1>1, <1>2, <1>3, <1>4, <1>5 DEF Next

\* While passes do not overlap, scans and PUT handlers in any order, a name keeps its
\* gateway and so its numbers, whatever is plugged and unplugged.  With two passes at
\* once the run MCDiscoveryRace shows a gateway replaced.
THEOREM MappingIsStableOneAtATime == Spec /\ []OneAtATime => MappingIsStable
<1>1. Init => NewNameInv
  BY DEF Init, NewNameInv
<1>2. DiscoveryInv /\ OneAtATime /\ OneAtATime' /\ NewNameInv /\ [Next]_vars => NewNameInv'
  BY NewNameKept
<1>3. DiscoveryInv /\ NewNameInv /\ [Next]_vars
        => [\A n \in Names : gateways[n] # 0 => gateways'[n] = gateways[n]]_vars
  <2> SUFFICES ASSUME DiscoveryInv, NewNameInv, [Next]_vars, NEW n \in Names, gateways[n] # 0
               PROVE  gateways'[n] = gateways[n]
    OBVIOUS
  <2> QED
    BY OnlyCreateMaps DEF NewNameInv
<1> QED
  BY <1>1, <1>2, <1>3, InvAlways, PTL DEF Spec, Safety, MappingIsStable

\* What an open port is covered by stays, unless the pass itself moves on.
LEMMA PortsElsewhere ==
  ASSUME DiscoveryInv, NEW u \in Threads, SelectionInv(u),
         \A g \in Gateways : port'[g] = "open" => port[g] = "open",
         UNCHANGED <<allowed, created, pc, present, sweep, gateway>>
  PROVE  SelectionInv(u)'
BY DEF SelectionInv, Covered, Gateways, Allowed

LEMMA SelectionKept ==
  ASSUME DiscoveryInv, OneAtATime, OneAtATime', NeverReplaced, [Next]_vars,
         NEW u \in Threads, SelectionInv(u)
  PROVE  SelectionInv(u)'
<1> USE DEF DiscoveryInv
<1>1. ASSUME NEW t \in Threads, t # u, Tick(t) \/ SetAllowed(t) \/ ReconcileStep(t)
      PROVE  SelectionInv(u)'
  BY <1>1, OthersAreIdle DEF SelectionInv
<1>2. CASE Tick(u) \/ SetAllowed(u) \/ ListPorts(u) \/ ListFails(u) \/ End(u)
  BY <1>2 DEF Tick, SetAllowed, ListPorts, ListFails, End, Goto, TypeOK, SelectionInv
<1>3. CASE Begin(u)
  BY <1>3 DEF Begin, Goto, TypeOK, SelectionInv
<1>4. CASE TakeName(u)
  <2>1. present'[u] = IF Allowed(First(todo[u])) THEN present[u] \cup {First(todo[u])} ELSE present[u]
    BY <1>4 DEF TakeName, TypeOK, PresentWith
  <2>2. UNCHANGED allowed /\ pc'[u] \in {"lookup", "names"} /\ pc[u] = "names"
    BY <1>4 DEF TakeName, TypeOK, Goto, appVars
  <2> QED
    BY <2>1, <2>2 DEF SelectionInv, Allowed
<1>5. ASSUME \/ Lookup(u) \/ Create(u) \/ Listen(u) \/ CheckConnected(u) \/ OpenSerial(u)
             \/ OpenFails(u) \/ Attach(u)
      PROVE  SelectionInv(u)'
  <2>1. UNCHANGED <<allowed, present>>
    BY <1>5 DEF Lookup, Create, Listen, CheckConnected, OpenSerial, OpenFails, Attach, appVars, localVars
  <2>2. /\ pc[u] \notin {"idle", "list", "detected"}
        /\ pc'[u] \notin {"sweep", "detach"}
    BY <1>5 DEF Lookup, Create, Listen, CheckConnected, OpenSerial, OpenFails, Attach, Goto, TypeOK
  <2> QED
    BY <2>1, <2>2 DEF SelectionInv, Allowed
<1>6. CASE ListGateways(u)
  <2>1. /\ UNCHANGED <<allowed, present, created, port>> /\ pc[u] = "names" /\ pc'[u] = "sweep"
        /\ sweep'[u] = {gateways[n] : n \in Names} \ {0}
    BY <1>6 DEF ListGateways, Goto, TypeOK, appVars, deviceVars
  <2>2. ASSUME NEW g \in Gateways
        PROVE  g \in sweep'[u]
    <3>1. gateways[created[g].name] = g /\ g # 0
      BY DEF NeverReplaced, Gateways
    <3>2. created[g].name \in Names
      BY NamesOfGateways
    <3> QED
      BY <2>1, <3>1, <3>2
  <2> QED
    BY <2>1, <2>2 DEF SelectionInv, Allowed, Gateways, Covered
<1>7. CASE SweepOne(u)
  <2>1. PICK g \in sweep[u] :
          /\ sweep' = [sweep EXCEPT ![u] = @ \ {g}]
          /\ gateway' = [gateway EXCEPT ![u] = g]
          /\ Goto(u, IF created[g].name \notin present[u] /\ port[g] # "none"
                     THEN "detach" ELSE "sweep")
    BY <1>7, SweepTakesOne
  <2>2. UNCHANGED <<allowed, created, port, present>> /\ pc[u] = "sweep"
    BY <1>7 DEF SweepOne, appVars, deviceVars
  <2>3. /\ sweep'[u] = sweep[u] \ {g} /\ gateway'[u] = g
        /\ pc'[u] = IF created[g].name \notin present[u] /\ port[g] # "none" THEN "detach" ELSE "sweep"
    BY <2>1 DEF Goto, TypeOK
  <2>4. \A h \in Gateways : port[h] = "open" => Covered(u, h)
    BY <2>2 DEF SelectionInv
  <2>5. ASSUME NEW h \in Gateways, port[h] = "open"
        PROVE  Covered(u, h)'
    BY <2>2, <2>3, <2>4, <2>5 DEF Covered
  <2> QED
    BY <2>2, <2>3, <2>5 DEF SelectionInv, Allowed, Gateways
<1>8. CASE Detach(u)
  <2>1. /\ UNCHANGED <<allowed, created, present, sweep>> /\ pc[u] = "detach" /\ pc'[u] = "sweep"
        /\ port' = [port EXCEPT ![gateway[u]] = "none"]
    BY <1>8 DEF Detach, Goto, TypeOK, appVars, localVars
  <2>2. ASSUME NEW h \in Gateways, port'[h] = "open"
        PROVE  Covered(u, h)'
    <3>1. port[h] = "open" /\ h # gateway[u]
      BY <2>1, <2>2 DEF TypeOK
    <3>2. Covered(u, h)
      BY <2>1, <3>1 DEF SelectionInv
    <3> QED
      BY <2>1, <3>1, <3>2 DEF Covered
  <2> QED
    BY <2>1, <2>2 DEF SelectionInv, Allowed, Gateways
<1>9. ASSUME NEW n, Plug(n) \/ Unplug(n) \/ LoopEnds(n)
      PROVE  SelectionInv(u)'
  <2>1. UNCHANGED <<allowed, created, pc, present, sweep, gateway>>
    BY <1>9 DEF Plug, Unplug, LoopEnds, appVars, localVars
  <2>2. \A g \in Gateways : port'[g] = "open" => port[g] = "open"
    BY <1>9 DEF Plug, Unplug, LoopEnds, TypeOK
  <2> QED
    BY <2>1, <2>2, PortsElsewhere
<1>10. CASE UNCHANGED vars
  <2>1. UNCHANGED <<allowed, created, pc, present, sweep, gateway, port>>
    BY <1>10 DEF vars, appVars, localVars, deviceVars
  <2> QED
    BY <2>1, PortsElsewhere
<1> QED
  BY <1>1, <1>2, <1>3, <1>4, <1>5, <1>6, <1>7, <1>8, <1>9, <1>10 DEF Next, ReconcileStep

\* At the start the gateways are those of the devices, each in the map under its name.
LEMMA InitNeverReplaced == Init => NeverReplaced
<1> SUFFICES ASSUME Init
             PROVE  NeverReplaced
  OBVIOUS
<1>1. PICK order \in Bijection(1..Cardinality(AtStart), AtStart) :
        /\ created = [i \in DOMAIN order |-> [name   |-> order[i],
                                              tcp    |-> TCPBase + order[i],
                                              telnet |-> TelnetBase + order[i]]]
        /\ gateways = [n \in Names |->
                         IF n \in AtStart THEN CHOOSE i \in DOMAIN order : order[i] = n ELSE 0]
  BY DEF Init
<1>2. /\ \A i \in DOMAIN order : order[i] \in AtStart
      /\ \A i, j \in DOMAIN order : order[i] = order[j] => i = j
  BY DEF Bijection, Injection, Surjection, IsInjective
<1>3. Gateways = DOMAIN order
  <2>1. created \in Seq([name : Names, tcp : 0..MaxPort, telnet : 0..MaxPort])
    BY InitInv DEF DiscoveryInv, TypeOK
  <2>2. DOMAIN created = 1..Len(created)
    BY <2>1
  <2> QED
    BY <1>1, <2>2 DEF Gateways
<1>4. AtStart \subseteq Names
  BY DiscoveryAssumption
<1>5. ASSUME NEW g \in DOMAIN order
      PROVE  gateways[created[g].name] = g
  <2>1. created[g].name = order[g] /\ order[g] \in AtStart
    BY <1>1, <1>2
  <2>2. gateways[order[g]] = CHOOSE i \in DOMAIN order : order[i] = order[g]
    BY <1>1, <1>4, <2>1
  <2>3. (CHOOSE i \in DOMAIN order : order[i] = order[g]) = g
    BY <1>2
  <2> QED
    BY <2>1, <2>2, <2>3
<1> QED
  BY <1>3, <1>5 DEF NeverReplaced

\* The handler of a PUT returns when no port outside the selection is open, whatever
\* the selections before it and whatever is plugged, unplugged or failing to open
\* meanwhile, while passes do not overlap.  The condition is needed: with a scan that
\* overlaps the handler, the run MCDiscoveryApplied shows a port that is left open.
THEOREM SelectionIsAppliedOneAtATime == Spec /\ []OneAtATime => SelectionIsApplied
<1> DEFINE Selected == \A u \in Threads : SelectionInv(u)
           Applied == \A t \in Setters : End(t) => \A g \in Gateways :
                        port[g] = "open" => Allowed(created[g].name)
           Inv == NewNameInv /\ NeverReplaced /\ Selected
<1>1. Init => Inv
  BY InitNeverReplaced DEF Init, NewNameInv, SelectionInv
<1>2. DiscoveryInv /\ OneAtATime /\ OneAtATime' /\ Inv /\ [Next]_vars => Inv'
  BY NewNameKept, NeverReplacedKept, SelectionKept
<1>3. Inv => Applied
  BY DEF End, SelectionInv, Covered, Threads
<1>4. SelectionIsApplied <=> [][Applied]_vars
  BY DEF SelectionIsApplied
<1> HIDE DEF Inv, Applied
<1> QED
  BY <1>1, <1>2, <1>3, <1>4, InvAlways, PTL DEF Spec, Safety

=============================================================================
