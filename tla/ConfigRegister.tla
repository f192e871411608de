--------------------------- MODULE ConfigRegister ---------------------------
(***************************************************************************)
(* What /api/v1/config promises: one register that holds a configuration.  *)
(* A request takes effect at one moment between its being asked and its    *)
(* being answered, or is refused and has no effect.  A restart keeps the   *)
(* value.  A loss of power may bring back an earlier value that had not    *)
(* been superseded on the disk yet, and never anything else.               *)
(***************************************************************************)
CONSTANTS
  Requests,   \* HTTP requests for /api/v1/config
  Config,     \* configurations
  Accepted,   \* those that may be stored
  Default,    \* the one that is stored first
  None        \* no configuration

VARIABLES
  value,      \* the configuration that is stored
  mayRevert,  \* what a loss of power may leave
  op          \* the operation of each request

registerVars == <<value, mayRevert, op>>

Idle == [phase |-> "idle", config |-> None]
Get == [phase |-> "get", config |-> None]
Put(body) == [phase |-> "put", config |-> body]
Done(result) == [phase |-> "done", config |-> result]

Init ==
  /\ value = None
  /\ mayRevert = {None}
  /\ op = [r \in Requests |-> Idle]

Becomes(r, o) == op' = [op EXCEPT ![r] = o]

Ask(r) ==
  /\ op[r] = Idle
  /\ \E o \in {Get} \cup {Put(body) : body \in Config \cup {None}} : Becomes(r, o)
  /\ UNCHANGED <<value, mayRevert>>

Read(r) ==
  /\ op[r] = Get
  /\ value \in Config
  /\ Becomes(r, Done(value))
  /\ UNCHANGED <<value, mayRevert>>

Write(r) ==
  /\ op[r].phase = "put"
  /\ op[r].config \in Accepted
  /\ value' = op[r].config
  /\ mayRevert' = mayRevert \cup {value'}
  /\ Becomes(r, Done(value'))

Refuse(r) ==
  /\ op[r].phase = "put"
  /\ Becomes(r, Done(None))
  /\ UNCHANGED <<value, mayRevert>>

Answer(r) ==
  /\ op[r].phase = "done"
  /\ Becomes(r, Idle)
  /\ UNCHANGED <<value, mayRevert>>

Create ==
  /\ value = None
  /\ value' = Default
  /\ mayRevert' = mayRevert \cup {Default}
  /\ UNCHANGED op

Settle ==
  /\ mayRevert' = {value}
  /\ UNCHANGED <<value, op>>

Stop ==
  /\ op' = [r \in Requests |-> Idle]
  /\ UNCHANGED <<value, mayRevert>>

PowerLoss ==
  /\ value' \in mayRevert
  /\ mayRevert' = {value'}
  /\ op' = [r \in Requests |-> Idle]

Next ==
  \/ \E r \in Requests : Ask(r) \/ Read(r) \/ Write(r) \/ Refuse(r) \/ Answer(r)
  \/ Create \/ Settle \/ Stop \/ PowerLoss

Spec == Init /\ [][Next]_registerVars

=============================================================================
