----------------------------- MODULE Discovery ------------------------------
(***************************************************************************)
(* How App finds serial ports and keeps its gateways in step with them     *)
(* (app.go): Reconcile as run by ScanLoop and, through ApplyAllowedPorts,  *)
(* by every PUT of the configuration, with allocateMappedPort.             *)
(*                                                                         *)
(* Reconcile takes a.mu for single reads and writes only, so the steps of  *)
(* two passes interleave; each step below is one critical section, or one  *)
(* call on a gateway.  The first Reconcile, which main runs before there   *)
(* is any concurrency, is part of the initial state.                       *)
(*                                                                         *)
(* A port name is a number: n > 0 is COMn, 0 is a name without a number.   *)
(* A gateway is its position in the order of creation, and has both a TCP  *)
(* and a Telnet listener.  The operating system opens a device for one     *)
(* holder at a time; opening and listing may also fail.                    *)
(***************************************************************************)
EXTENDS Naturals, Sequences, FiniteSets, SequencesExt, FiniteSetsExt, Functions

CONSTANTS
  SortedNames,  \* port names, in the order of sort.Strings
  AtStart,      \* the devices found by the first Reconcile
  Scanners,     \* ScanLoop
  Setters,      \* HTTP handlers of PUT /api/v1/config
  Selections,   \* the port lists users save; an empty one allows every port
  TCPBase,      \* tcp.base_port
  TelnetBase,   \* telnet.base_port
  LowPort,      \* 1024
  MaxPort       \* 65535

Names == ToSet(SortedNames)
Threads == Scanners \cup Setters

ASSUME DiscoveryAssumption ==
  /\ SortedNames \in Seq(Nat) /\ IsInjective(SortedNames)
  /\ AtStart \subseteq Names \ {0}
  /\ Scanners \cap Setters = {}
  /\ Selections \subseteq SUBSET Nat
  /\ {TCPBase, TelnetBase, LowPort, MaxPort} \subseteq Nat
  /\ LowPort <= MaxPort
  /\ \A n \in AtStart \cup {0} : TCPBase + n <= MaxPort /\ TelnetBase + n <= MaxPort

VARIABLES
  devices,      \* the devices that are plugged in
  allowed,      \* a.allowed
  detected,     \* a.detected
  gateways,     \* a.gateways: a gateway for a name, or 0
  created,      \* every gateway ever made: its name and its two port numbers
  nextPort,     \* a.nextTCPPort and a.nextTelnetPort
  port,         \* g.port of each gateway: "none", "open" or, unplugged, "failed"
  listening,    \* gateways that have their listeners
  pc,           \* where each thread is in Reconcile
  todo,         \* names of the list that the loop has not come to
  present,      \* the local variable present
  name,         \* the name the loop is at
  gateway,      \* the local variable gateway
  sweep         \* gateways the second loop has not come to

appVars == <<allowed, detected, gateways, created, nextPort>>
deviceVars == <<devices, port, listening>>
localVars == <<todo, present, name, gateway, sweep>>
vars == <<appVars, deviceVars, pc, localVars>>

Gateways == 1..Len(created)

Allowed(n) == allowed = {} \/ n \in allowed

\* The first name of a set that is to be taken in sorted order.
First(S) == SortedNames[Min({i \in DOMAIN SortedNames : SortedNames[i] \in S})]

Goto(t, place) == pc' = [pc EXCEPT ![t] = place]

-----------------------------------------------------------------------------
(* allocateMappedPort.                                                     *)

UsedTCP == {created[g].tcp : g \in Gateways}
UsedTelnet == {created[g].telnet : g \in Gateways}

NextIgnoringUsed(next, used) == IF next > MaxPort THEN LowPort ELSE next

Free(from, used) == (from..MaxPort) \ used

\* The loop over *next: the first unused number from there on, continued at
\* the low end.
FirstFree(next, used) ==
  Min(IF Free(next, used) # {} THEN Free(next, used) ELSE Free(LowPort, used))

MappedPastTheEnd(n, base, used) == n > 0 /\ base + n \notin used

\* A COM name has the number base + n, if that is a port and not used.
Mapped(n, base, used) == n > 0 /\ base + n <= MaxPort /\ base + n \notin used

Allocate(n, base, next, used) ==
  IF Mapped(n, base, used) THEN base + n ELSE FirstFree(next, used)

\* The loop ends.  When every number is used it does not, and a.mu stays locked.
Returns(n, base, next, used) ==
  Mapped(n, base, used) \/ Free(next, used) \cup Free(LowPort, used) # {}

NextAfter(n, base, next, used) ==
  IF Mapped(n, base, used) THEN next ELSE FirstFree(next, used) + 1

\* The gateway made for a name, and the state of the allocator after it.
Gateway(n) == [name   |-> n,
               tcp    |-> Allocate(n, TCPBase, nextPort.tcp, UsedTCP),
               telnet |-> Allocate(n, TelnetBase, nextPort.telnet, UsedTelnet)]

AllocatorAfter(n) == [tcp    |-> NextAfter(n, TCPBase, nextPort.tcp, UsedTCP),
                      telnet |-> NextAfter(n, TelnetBase, nextPort.telnet, UsedTelnet)]

-----------------------------------------------------------------------------
(* The pass: which names there are.                                        *)

\* The ticker of ScanLoop.
Tick(t) ==
  /\ t \in Scanners
  /\ pc[t] = "idle"
  /\ Goto(t, "list")
  /\ UNCHANGED <<appVars, deviceVars, localVars>>

\* ApplyAllowedPorts, SetAllowedPorts.
SetAllowed(t) ==
  /\ t \in Setters
  /\ pc[t] = "idle"
  /\ allowed' \in Selections
  /\ Goto(t, "list")
  /\ UNCHANGED <<detected, gateways, created, nextPort, deviceVars, localVars>>

\* serial.GetPortsList
ListPorts(t) ==
  /\ pc[t] = "list"
  /\ todo' = [todo EXCEPT ![t] = devices]
  /\ Goto(t, "detected")
  /\ UNCHANGED <<appVars, deviceVars, present, name, gateway, sweep>>

\* err != nil: there is no pass.
ListFails(t) ==
  /\ pc[t] = "list"
  /\ Goto(t, "idle")
  /\ UNCHANGED <<appVars, deviceVars, localVars>>

\* Reconcile begins: a.detected is replaced.
Begin(t) ==
  /\ pc[t] = "detected"
  /\ detected' = todo[t]
  /\ present' = [present EXCEPT ![t] = {}]
  /\ Goto(t, "names")
  /\ UNCHANGED <<allowed, gateways, created, nextPort, deviceVars, todo, name, gateway, sweep>>

-----------------------------------------------------------------------------
(* The first loop, for one name of the list.                               *)

EveryNamePresent(t, n) == present[t] \cup {n}

NothingPresent(t, n) == present[t]

\* Names that are not allowed do not count as present.
PresentWith(t, n) == IF Allowed(n) THEN present[t] \cup {n} ELSE present[t]

\* Take a name; a.allowed decides whether to go on with it.
TakeName(t) ==
  /\ pc[t] = "names"
  /\ todo[t] # {}
  /\ LET n == First(todo[t])
     IN  /\ todo' = [todo EXCEPT ![t] = @ \ {n}]
         /\ name' = [name EXCEPT ![t] = n]
         /\ present' = [present EXCEPT ![t] = PresentWith(t, n)]
         /\ Goto(t, IF Allowed(n) THEN "lookup" ELSE "names")
  /\ UNCHANGED <<appVars, deviceVars, gateway, sweep>>

AlwaysNew(n) == 0

\* a.gateway(name)
Known(n) == gateways[n]

Lookup(t) ==
  /\ pc[t] = "lookup"
  /\ gateway' = [gateway EXCEPT ![t] = Known(name[t])]
  /\ Goto(t, IF Known(name[t]) = 0 THEN "create" ELSE "listen")
  /\ UNCHANGED <<appVars, deviceVars, todo, present, name, sweep>>

\* !ok: allocate the port numbers, make the gateway and enter it in the map.
Create(t) ==
  /\ pc[t] = "create"
  /\ Returns(name[t], TCPBase, nextPort.tcp, UsedTCP)
  /\ Returns(name[t], TelnetBase, nextPort.telnet, UsedTelnet)
  /\ created' = Append(created, Gateway(name[t]))
  /\ nextPort' = AllocatorAfter(name[t])
  /\ port' = Append(port, "none")
  /\ gateways' = [gateways EXCEPT ![name[t]] = Len(created')]
  /\ gateway' = [gateway EXCEPT ![t] = Len(created')]
  /\ Goto(t, "listen")
  /\ UNCHANGED <<allowed, detected, devices, listening, todo, present, name, sweep>>

\* EnsureTCP and EnsureTelnet; another program may have the address.
Listen(t) ==
  /\ pc[t] = "listen"
  /\ listening' \in {listening, listening \cup {gateway[t]}}
  /\ Goto(t, "connected")
  /\ UNCHANGED <<appVars, devices, port, localVars>>

\* gateway.Connected()
CheckConnected(t) ==
  /\ pc[t] = "connected"
  /\ Goto(t, IF port[gateway[t]] = "none" THEN "open" ELSE "names")
  /\ UNCHANGED <<appVars, deviceVars, localVars>>

\* The device is in use by a gateway, or by a thread that is about to attach.
Busy(n) ==
  \/ \E g \in Gateways : created[g].name = n /\ port[g] = "open"
  \/ \E t \in Threads : pc[t] = "attach" /\ name[t] = n

\* a.openSerial(name) can succeed.
Opens(n) == n \in devices /\ ~Busy(n)

OpenSerial(t) ==
  /\ pc[t] = "open"
  /\ Opens(name[t])
  /\ Goto(t, "attach")
  /\ UNCHANGED <<appVars, deviceVars, localVars>>

OpenFails(t) ==
  /\ pc[t] = "open"
  /\ Goto(t, "names")
  /\ UNCHANGED <<appVars, deviceVars, localVars>>

\* gateway.Attach(port); a port that is refused is closed again.
Attach(t) ==
  /\ pc[t] = "attach"
  /\ port' = IF port[gateway[t]] # "none" THEN port
             ELSE [port EXCEPT ![gateway[t]] = IF name[t] \in devices THEN "open" ELSE "failed"]
  /\ Goto(t, "names")
  /\ UNCHANGED <<appVars, devices, listening, localVars>>

-----------------------------------------------------------------------------
(* The second loop: drop the ports that are gone or not allowed.           *)

\* a.gatewayList()
ListGateways(t) ==
  /\ pc[t] = "names"
  /\ todo[t] = {}
  /\ sweep' = [sweep EXCEPT ![t] = {gateways[n] : n \in Names} \ {0}]
  /\ Goto(t, "sweep")
  /\ UNCHANGED <<appVars, deviceVars, todo, present, name, gateway>>

\* !present[name] && gateway.Connected()
SweepOne(t) ==
  /\ pc[t] = "sweep"
  /\ sweep[t] # {}
  /\ LET n == First({created[g].name : g \in sweep[t]})
         g == CHOOSE h \in sweep[t] : created[h].name = n
     IN  /\ sweep' = [sweep EXCEPT ![t] = @ \ {g}]
         /\ gateway' = [gateway EXCEPT ![t] = g]
         /\ Goto(t, IF n \notin present[t] /\ port[g] # "none" THEN "detach" ELSE "sweep")
  /\ UNCHANGED <<appVars, deviceVars, todo, present, name>>

\* gateway.Detach()
Detach(t) ==
  /\ pc[t] = "detach"
  /\ port' = [port EXCEPT ![gateway[t]] = "none"]
  /\ Goto(t, "sweep")
  /\ UNCHANGED <<appVars, devices, listening, localVars>>

End(t) ==
  /\ pc[t] = "sweep"
  /\ sweep[t] = {}
  /\ Goto(t, "idle")
  /\ UNCHANGED <<appVars, deviceVars, localVars>>

-----------------------------------------------------------------------------
(* The world outside.                                                      *)

Plug(n) ==
  /\ n \notin devices
  /\ devices' = devices \cup {n}
  /\ UNCHANGED <<appVars, port, listening, pc, localVars>>

Unplug(n) ==
  /\ n \in devices
  /\ devices' = devices \ {n}
  /\ port' = [g \in Gateways |->
                IF created[g].name = n /\ port[g] = "open" THEN "failed" ELSE port[g]]
  /\ UNCHANGED <<appVars, listening, pc, localVars>>

\* The read loop of a failed port takes it out (PortLifecycle).
LoopEnds(g) ==
  /\ port[g] = "failed"
  /\ port' = [port EXCEPT ![g] = "none"]
  /\ UNCHANGED <<appVars, devices, listening, pc, localVars>>

-----------------------------------------------------------------------------
\* The devices there at the start have their gateways, open and listening.
Init ==
  /\ devices = AtStart
  /\ allowed = {}
  /\ detected = AtStart
  /\ \E order \in Bijection(1..Cardinality(AtStart), AtStart) :
       /\ \A i, j \in DOMAIN order : i < j => order[i] = First({order[i], order[j]})
       /\ created = [i \in DOMAIN order |-> [name   |-> order[i],
                                             tcp    |-> TCPBase + order[i],
                                             telnet |-> TelnetBase + order[i]]]
       /\ gateways = [n \in Names |->
                        IF n \in AtStart THEN CHOOSE i \in DOMAIN order : order[i] = n ELSE 0]
       /\ port = [i \in DOMAIN order |-> "open"]
       /\ listening = DOMAIN order
  /\ nextPort = [tcp |-> TCPBase, telnet |-> TelnetBase]
  /\ pc = [t \in Threads |-> "idle"]
  /\ todo = [t \in Threads |-> {}]
  /\ present = [t \in Threads |-> {}]
  /\ name = [t \in Threads |-> 0]
  /\ gateway = [t \in Threads |-> 0]
  /\ sweep = [t \in Threads |-> {}]

ReconcileStep(t) ==
  \/ ListPorts(t) \/ ListFails(t) \/ Begin(t) \/ TakeName(t) \/ Lookup(t) \/ Create(t)
  \/ Listen(t) \/ CheckConnected(t) \/ OpenSerial(t) \/ OpenFails(t) \/ Attach(t)
  \/ ListGateways(t) \/ SweepOne(t) \/ Detach(t) \/ End(t)

Next ==
  \/ \E t \in Threads : Tick(t) \/ SetAllowed(t) \/ ReconcileStep(t)
  \/ \E n \in Names : Plug(n) \/ Unplug(n)
  \/ \E g \in Gateways : LoopEnds(g)

Safety == Init /\ [][Next]_vars

\* The ticker ticks, passes run on, and read loops of failed ports end.
\* Listing the ports and opening one that is free succeed now and again.
Spec ==
  /\ Safety
  /\ \A t \in Scanners : WF_vars(Tick(t)) /\ SF_vars(ListPorts(t))
  /\ \A t \in Scanners, n \in Names : SF_vars(OpenSerial(t) /\ name[t] = n)
  /\ \A t \in Threads : WF_vars(ReconcileStep(t))
  /\ \A n \in Names : WF_vars(\E g \in Gateways : created[g].name = n /\ LoopEnds(g))

-----------------------------------------------------------------------------
(* Correctness.                                                            *)

\* Every variable has its type.
TypeOK ==
  /\ devices \subseteq Names /\ detected \subseteq Names
  /\ allowed \in Selections \cup {{}}
  /\ created \in Seq([name : Names, tcp : 0..MaxPort, telnet : 0..MaxPort])
  /\ gateways \in [Names -> 0..Len(created)]
  /\ nextPort \in [tcp : 0..(MaxPort + 1), telnet : 0..(MaxPort + 1)]
  /\ port \in [Gateways -> {"none", "open", "failed"}]
  /\ listening \subseteq Gateways
  /\ pc \in [Threads -> {"idle", "list", "detected", "names", "lookup", "create", "listen",
                         "connected", "open", "attach", "sweep", "detach"}]
  /\ todo \in [Threads -> SUBSET Names]
  /\ present \in [Threads -> SUBSET Names]
  /\ name \in [Threads -> Names \cup {0}]
  /\ gateway \in [Threads -> 0..Len(created)]
  /\ sweep \in [Threads -> SUBSET Gateways]

\* No two gateways have the same TCP number, and no two have the same Telnet
\* number, also when the numbers run out at the top and continue at the low
\* end (allocateMappedPort).
PortsDistinct ==
  \A g, h \in Gateways : g # h => created[g].tcp # created[h].tcp
                                  /\ created[g].telnet # created[h].telnet

\* Whatever is plugged and unplugged, a name keeps its gateway, and with it
\* its two numbers, its history and its subscribers (Reconcile: the lookup).
MappingIsStable == [][\A n \in Names : gateways[n] # 0 => gateways'[n] = gateways[n]]_vars

\* When the handler of a PUT has applied a selection, no port outside the
\* selection is open (SetAllowedPorts, Reconcile).
SelectionIsApplied ==
  [][\A t \in Setters : End(t) => \A g \in Gateways : port[g] = "open" => Allowed(created[g].name)]_vars

OpenFor(n) == gateways[n] # 0 /\ port[gateways[n]] = "open"

\* A device that stays plugged in and allowed is opened and stays open,
\* whatever happened to it and to the selection before.
PresentGetsOpened ==
  \A n \in Names : <>[](n \in devices /\ Allowed(n)) => <>[]OpenFor(n)

\* A port that stays deselected is released and stays so.
DeselectedIsReleased ==
  \A n \in Names : <>[]~Allowed(n) => <>[]~OpenFor(n)

=============================================================================
