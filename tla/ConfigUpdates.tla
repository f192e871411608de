---------------------------- MODULE ConfigUpdates ----------------------------
(***************************************************************************)
(* The configuration: LoadOrCreate and Save (config.go) with the start of  *)
(* the program (main.go), and the GET and PUT of /api/v1/config            *)
(* (config_http.go), while the process may be stopped or the power lost    *)
(* between any two steps.                                                  *)
(*                                                                         *)
(* A configuration is the list of serial ports and, as one value, all its  *)
(* other settings: handlePut and restartRequired tell no more apart.       *)
(* What the path of the file names is Absent, Torn (a file that does not   *)
(* decode) or a configuration.  Renaming a file over another is atomic,    *)
(* but a change reaches the disk later: until then a loss of power leaves  *)
(* the old state or the new one, and of a file that was not synced         *)
(* possibly a torn one.                                                    *)
(***************************************************************************)
CONSTANTS
  Requests,         \* HTTP requests for /api/v1/config
  Selections,       \* values of serial.ports
  Settings,         \* values of everything else
  ValidSettings,    \* those that Validate accepts
  Bodies,           \* the configurations that are put
  DefaultPorts,     \* Default(): the port list
  DefaultSettings,  \* Default(): everything else
  Absent,           \* there is no file
  Torn,             \* there is a file that does not decode
  None              \* no configuration

Config == [ports : Selections, settings : Settings]

ASSUME ConfigAssumption ==
  /\ DefaultPorts \in Selections
  /\ ValidSettings \subseteq Settings
  /\ Bodies \subseteq Config
  /\ DefaultSettings \in ValidSettings
  /\ None \notin Requests
  /\ Absent # Torn /\ Absent \notin Config /\ Torn \notin Config /\ None \notin Config

VARIABLES
  file,       \* what the path names
  survivors,  \* what it may name after a loss of power
  settled,    \* history variable: a configuration has reached the disk
  phase,      \* where main is: "off", "creating" or "running"
  boot,       \* runtimeConfig in main: the settings in force
  current,    \* c.current
  holder,     \* who has c.mu locked for writing
  selection,  \* a.allowed
  pc,         \* where each request is in its handler
  asked,      \* its local updated, or for a GET its local current
  previous,   \* its local previous
  told,       \* history variable: a PUT of this process was answered with
              \* restart_required
  crossed     \* history variable: a PUT of this process saved while another
              \* had saved and not applied yet

diskVars == <<file, survivors, settled>>
mainVars == <<phase, boot>>
requestVars == <<pc, asked, previous>>
historyVars == <<told, crossed>>
vars == <<diskVars, mainVars, current, holder, selection, requestVars, historyVars>>

Default == [ports |-> DefaultPorts, settings |-> DefaultSettings]

\* Validate
Valid(config) == config \in Config /\ config.settings \in ValidSettings

ValidConfig == {config \in Config : Valid(config)}

-----------------------------------------------------------------------------
(* The start of the program.                                               *)

\* What main does with the configuration that LoadOrCreate returned.
Run(config) ==
  /\ phase' = "running"
  /\ boot' = config
  /\ current' = config
  /\ selection' = config.ports
  /\ told' = FALSE
  /\ crossed' = FALSE
  /\ UNCHANGED <<holder, requestVars>>

\* LoadOrCreate finds a file that decodes and is valid.  With any other file
\* the program ends at once, which changes nothing.
Load ==
  /\ phase = "off"
  /\ Valid(file)
  /\ Run(file)
  /\ UNCHANGED diskVars

\* os.WriteFile, first half: the file exists and is empty.
CreateFile ==
  /\ phase = "off"
  /\ file = Absent
  /\ file' = Torn
  /\ survivors' = survivors \cup {Torn}
  /\ phase' = "creating"
  /\ UNCHANGED <<settled, boot, current, holder, selection, requestVars, historyVars>>

\* os.WriteFile, second half: the default is written.
WriteDefault ==
  /\ phase = "creating"
  /\ file' = Default
  /\ survivors' = survivors \cup {Default}
  /\ Run(Default)
  /\ UNCHANGED settled

-----------------------------------------------------------------------------
(* Requests.                                                               *)

Goto(r, place) == pc' = [pc EXCEPT ![r] = place]

ReadsAnyTime == TRUE

\* c.mu.RLock() is granted.
MayRead == holder = None

AskGet(r) ==
  /\ phase = "running"
  /\ pc[r] = "idle"
  /\ Goto(r, "get")
  /\ UNCHANGED <<diskVars, mainVars, current, holder, selection, asked, previous, historyVars>>

\* handleGet copies c.current.
ReadCurrent(r) ==
  /\ pc[r] = "get"
  /\ MayRead
  /\ asked' = [asked EXCEPT ![r] = current]
  /\ Goto(r, "read")
  /\ UNCHANGED <<diskVars, mainVars, current, holder, selection, previous, historyVars>>

\* A PUT arrives; None is a body that does not decode.
AskPut(r, body) ==
  /\ phase = "running"
  /\ pc[r] = "idle"
  /\ asked' = [asked EXCEPT ![r] = body]
  /\ Goto(r, "put")
  /\ UNCHANGED <<diskVars, mainVars, current, holder, selection, previous, historyVars>>

\* handlePut decodes and validates.
CheckBody(r) ==
  /\ pc[r] = "put"
  /\ Goto(r, IF Valid(asked[r]) THEN "lock" ELSE "refused")
  /\ UNCHANGED <<diskVars, mainVars, current, holder, selection, asked, previous, historyVars>>

\* c.mu.Lock(), and previous := c.current.
Lock(r) ==
  /\ pc[r] = "lock"
  /\ holder = None
  /\ holder' = r
  /\ previous' = [previous EXCEPT ![r] = current]
  /\ Goto(r, "write")
  /\ UNCHANGED <<diskVars, mainVars, current, selection, asked, historyVars>>

\* Save: the temporary file is created, written, synced and closed.
WriteTemporary(r) ==
  /\ pc[r] = "write"
  /\ Goto(r, "rename")
  /\ UNCHANGED <<diskVars, mainVars, current, holder, selection, asked, previous, historyVars>>

KeepsTheLock == holder

\* The error path of handlePut unlocks too.
AfterFailure == None

\* Any of these calls may fail.  Save removes the temporary file.
SaveFails(r) ==
  /\ pc[r] \in {"write", "rename"}
  /\ holder' = AfterFailure
  /\ Goto(r, "refused")
  /\ UNCHANGED <<diskVars, mainVars, current, selection, asked, previous, historyVars>>

WrittenInPlace(config) == {config, Torn}

\* What the disk may show of a file that was synced before it was renamed.
Renamed(config) == {config}

\* Save: os.Rename
Rename(r) ==
  /\ pc[r] = "rename"
  /\ file' = asked[r]
  /\ survivors' = survivors \cup Renamed(asked[r])
  /\ Goto(r, "commit")
  /\ UNCHANGED <<settled, mainVars, current, holder, selection, asked, previous, historyVars>>

\* c.current = updated, and c.mu.Unlock().
Commit(r) ==
  /\ pc[r] = "commit"
  /\ current' = asked[r]
  /\ holder' = None
  /\ crossed' = (crossed \/ \E other \in Requests : pc[other] = "allow")
  /\ Goto(r, "allow")
  /\ UNCHANGED <<diskVars, mainVars, selection, asked, previous, told>>

AppliesThePrevious(r) == previous[r].ports

\* updated.Serial.Ports
Applied(r) == asked[r].ports

\* ApplyAllowedPorts: SetAllowedPorts, outside c.mu.
SetAllowed(r) ==
  /\ pc[r] = "allow"
  /\ selection' = Applied(r)
  /\ Goto(r, "reconcile")
  /\ UNCHANGED <<diskVars, mainVars, current, holder, asked, previous, historyVars>>

\* ApplyAllowedPorts: listing the ports fails, or Reconcile runs (Discovery).
ListAndReconcile(r) ==
  /\ pc[r] = "reconcile"
  /\ \E place \in {"applied", "unapplied"} : Goto(r, place)
  /\ UNCHANGED <<diskVars, mainVars, current, holder, selection, asked, previous, historyVars>>

ComparesWithItself(r) == asked[r].settings # current.settings

\* restartRequired(previous, updated)
RestartRequired(r) == asked[r].settings # previous[r].settings

Saved(r) == pc[r] \in {"applied", "unapplied"}

\* The response; the request's locals are gone with it.
Respond(r) ==
  /\ pc[r] \in {"read", "refused", "applied", "unapplied"}
  /\ told' = (told \/ (Saved(r) /\ RestartRequired(r)))
  /\ asked' = [asked EXCEPT ![r] = None]
  /\ previous' = [previous EXCEPT ![r] = None]
  /\ Goto(r, "idle")
  /\ UNCHANGED <<diskVars, mainVars, current, holder, selection, crossed>>

-----------------------------------------------------------------------------
(* The machine.                                                            *)

\* The process is gone, and with it all it had in memory.
ProcessGone ==
  /\ phase' = "off"
  /\ boot' = None
  /\ current' = None
  /\ holder' = None
  /\ selection' = None
  /\ pc' = [r \in Requests |-> "idle"]
  /\ asked' = [r \in Requests |-> None]
  /\ previous' = [r \in Requests |-> None]
  /\ told' = FALSE
  /\ crossed' = FALSE

\* The process is killed or shut down, the latter after at most five seconds
\* in which requests may end.  The machine goes on.
Stop ==
  /\ phase # "off"
  /\ ProcessGone
  /\ UNCHANGED diskVars

PowerLoss ==
  /\ file' \in survivors
  /\ survivors' = {file'}
  /\ UNCHANGED settled
  /\ ProcessGone

\* The operating system writes back what it has.
WriteBack ==
  /\ survivors' = {file}
  /\ settled' = (settled \/ Valid(file))
  /\ UNCHANGED <<file, mainVars, current, holder, selection, requestVars, historyVars>>

-----------------------------------------------------------------------------
Init ==
  /\ file = Absent
  /\ survivors = {Absent}
  /\ settled = FALSE
  /\ phase = "off"
  /\ boot = None
  /\ current = None
  /\ holder = None
  /\ selection = None
  /\ pc = [r \in Requests |-> "idle"]
  /\ asked = [r \in Requests |-> None]
  /\ previous = [r \in Requests |-> None]
  /\ told = FALSE
  /\ crossed = FALSE

HandlerStep(r) ==
  \/ ReadCurrent(r) \/ CheckBody(r) \/ Lock(r) \/ WriteTemporary(r)
  \/ SaveFails(r) \/ Rename(r) \/ Commit(r) \/ SetAllowed(r) \/ ListAndReconcile(r)
  \/ Respond(r)

Next ==
  \/ Load \/ CreateFile \/ WriteDefault
  \/ \E r \in Requests :
       \/ AskGet(r) \/ HandlerStep(r)
       \/ \E body \in Bodies \cup {None} : AskPut(r, body)
  \/ Stop \/ PowerLoss \/ WriteBack

Safety == Init /\ [][Next]_vars

\* Handlers run on, and c.mu, Go's RWMutex, starves nobody.
Spec ==
  /\ Safety
  /\ \A r \in Requests : WF_vars(HandlerStep(r)) /\ SF_vars(ReadCurrent(r)) /\ SF_vars(Lock(r))

-----------------------------------------------------------------------------
(* Properties.                                                             *)

\* Every variable keeps its shape.
TypeOK ==
  /\ file \in Config \cup {Absent, Torn}
  /\ survivors \subseteq Config \cup {Absent, Torn}
  /\ settled \in BOOLEAN
  /\ phase \in {"off", "creating", "running"}
  /\ boot \in Config \cup {None}
  /\ current \in Config \cup {None}
  /\ holder \in Requests \cup {None}
  /\ selection \in Selections \cup {None}
  /\ pc \in [Requests -> {"idle", "get", "read", "put", "lock", "write", "rename", "commit",
                          "allow", "reconcile", "applied", "unapplied", "refused"}]
  /\ asked \in [Requests -> Config \cup {None}]
  /\ previous \in [Requests -> Config \cup {None}]
  /\ told \in BOOLEAN
  /\ crossed \in BOOLEAN

\* Once the first configuration has reached the disk, there is a file that the
\* program can start from, and there will be one after a loss of power at any
\* moment of a Save (Validate before it; write, sync and rename in it).
AlwaysStartable == settled => Valid(file) /\ survivors \subseteq ValidConfig

\* When PUTs do not cross each other between saving (under c.mu) and applying
\* (outside it), the running selection is the saved one as soon as the last
\* of them has applied it.
SelectionIsTheSavedOne ==
  phase = "running" /\ ~crossed /\ (\A r \in Requests : pc[r] # "allow")
    => selection = current.ports

\* While saved settings differ from those in force, some PUT since the start
\* was answered with restart_required or is about to be.
RestartIsAnnounced ==
  phase = "running" /\ current.settings # boot.settings
    => \/ told
       \/ \E r \in Requests : /\ pc[r] \in {"allow", "reconcile", "applied", "unapplied"}
                              /\ RestartRequired(r)

\* What the settings page shows as "Saved and applied." is in force: an answer
\* without restart_required and apply_error is given for a configuration
\* that differs in nothing but its ports from the one the program runs with.
SavedMeansInForce ==
  [][\A r \in Requests :
       Respond(r) /\ pc[r] = "applied" /\ ~RestartRequired(r)
         => asked[r].settings = boot.settings]_vars

\* Every request is answered, also when another one fails to save, unless the
\* process goes away.
RequestsAreAnswered == \A r \in Requests : pc[r] # "idle" ~> pc[r] = "idle"

-----------------------------------------------------------------------------
(* The register that this implements.                                      *)

Content(f) == IF f \in Config THEN f ELSE None

Operation(r) ==
  [phase  |-> CASE pc[r] = "idle" -> "idle"
                [] pc[r] = "get" -> "get"
                [] pc[r] \in {"put", "lock", "write", "rename"} -> "put"
                [] OTHER -> "done",
   config |-> IF pc[r] = "refused" THEN None ELSE asked[r]]

Register ==
  INSTANCE ConfigRegister WITH
    Accepted  <- ValidConfig,
    value     <- Content(file),
    mayRevert <- {Content(f) : f \in survivors},
    op        <- [r \in Requests |-> Operation(r)]

\* GET and PUT are atomic to their callers, and survive restarts and losses of
\* power as ConfigRegister says.
ImplementsRegister == Register!Spec

=============================================================================
