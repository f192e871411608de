------------------------- MODULE ConfigUpdatesProofs -------------------------
(***************************************************************************)
(* The safety of the configuration for any requests and configurations,    *)
(* stops and losses of power included.  The invariant says of a PUT under  *)
(* c.mu that its previous is still current, that the file differs from     *)
(* c.current only between the rename and the assignment, and that among    *)
(* PUTs that do not cross only the last one has still to apply what it     *)
(* saved.  A PUT takes effect at its rename, a GET when it copies          *)
(* c.current: it can only do so when no rename is waiting for its          *)
(* assignment, so that it returns what the file holds.                     *)
(***************************************************************************)
EXTENDS ConfigUpdates, TLAPS

Checked == {"lock", "write", "rename", "commit", "allow", "reconcile", "applied", "unapplied"}
Locked == {"write", "rename", "commit"}
Saving == {"allow", "reconcile", "applied", "unapplied"}

\* What a request holds in its locals, and the mutex.
RequestInv(r) ==
  /\ pc[r] \in {"idle", "get"} => asked[r] = None
  /\ pc[r] = "read" => asked[r] \in Config
  /\ pc[r] \in Checked => Valid(asked[r])
  /\ holder = r <=> pc[r] \in Locked
  /\ pc[r] \in Locked => previous[r] = current
  /\ phase # "running" => pc[r] = "idle"

\* The file, and c.current, which it differs from only between os.Rename and the
\* assignment.
FileInv ==
  /\ file \in survivors
  /\ phase = "creating" => file = Torn
  /\ phase = "running" =>
       /\ Valid(file) /\ current \in Config /\ boot \in Config
       /\ (\A r \in Requests : pc[r] # "commit") => current = file
       /\ \A r \in Requests : pc[r] = "commit" => file = asked[r]

\* As long as PUTs do not cross, the one that has saved and not applied has saved
\* what is current.
SelectionInv ==
  phase = "running" /\ ~crossed =>
    /\ \A r \in Requests : pc[r] = "allow" => asked[r].ports = current.ports
    /\ (\A r \in Requests : pc[r] # "allow") => selection = current.ports

ConfigInv ==
  /\ TypeOK
  /\ \A r \in Requests : RequestInv(r)
  /\ FileInv
  /\ AlwaysStartable
  /\ SelectionInv
  /\ RestartIsAnnounced

LEMMA DefaultIsValid == Default \in Config /\ Valid(Default)
  BY ConfigAssumption DEF Default, Valid, Config

LEMMA InitInv == Init => ConfigInv
<1> SUFFICES ASSUME Init
             PROVE  ConfigInv
  OBVIOUS
<1> USE ConfigAssumption DEF Init
<1>1. TypeOK
  BY DEF TypeOK
<1>2. ASSUME NEW r \in Requests
      PROVE  RequestInv(r)
  BY DEF RequestInv, Checked, Locked
<1>3. FileInv /\ AlwaysStartable /\ SelectionInv /\ RestartIsAnnounced
  BY DEF FileInv, AlwaysStartable, SelectionInv, RestartIsAnnounced
<1> QED
  BY <1>1, <1>2, <1>3 DEF ConfigInv

LEMMA RunInv ==
  ASSUME ConfigInv, NEW config \in Config, Run(config), phase # "running", Valid(config), file' = config,
         survivors' = survivors \/ survivors' = survivors \cup {config}, file' \in survivors', UNCHANGED settled
  PROVE  ConfigInv'
<1> USE ConfigAssumption DEF ConfigInv, Run, requestVars
<1>0. \A r \in Requests : pc[r] = "idle"
  BY DEF RequestInv
<1>1. TypeOK'
  BY ZenonT(60) DEF TypeOK, Config
<1>2. ASSUME NEW r \in Requests
      PROVE  RequestInv(r)'
  BY <1>0 DEF RequestInv, Checked, Locked
<1>3. FileInv'
  BY <1>0, <1>2 DEF FileInv, Valid
<1>4. AlwaysStartable'
  BY DEF AlwaysStartable, ValidConfig, Valid
<1>5. SelectionInv'
  BY <1>0 DEF SelectionInv
<1>6. RestartIsAnnounced'
  BY DEF RestartIsAnnounced
<1> QED
  BY <1>1, <1>2, <1>3, <1>4, <1>5, <1>6

LEMMA LoadInv == ConfigInv /\ Load => ConfigInv'
<1> SUFFICES ASSUME ConfigInv, Load
             PROVE  ConfigInv'
  OBVIOUS
<1>1. file' = file /\ file \in Config /\ survivors' = survivors /\ settled' = settled /\ file \in survivors
  BY DEF Load, diskVars, Valid, ConfigInv, FileInv
<1> QED
  BY <1>1, RunInv DEF Load

LEMMA WriteDefaultInv == ConfigInv /\ WriteDefault => ConfigInv'
  BY RunInv, DefaultIsValid DEF WriteDefault

LEMMA CreateFileInv ==
  ASSUME ConfigInv, CreateFile
  PROVE  ConfigInv'
<1> USE ConfigAssumption DEF ConfigInv, CreateFile, requestVars, historyVars
<1>1. TypeOK'
  BY DEF TypeOK
<1>2. ASSUME NEW r \in Requests
      PROVE  RequestInv(r)'
  BY DEF RequestInv
<1>3. FileInv'
  BY DEF FileInv
<1>4. AlwaysStartable'
  BY DEF AlwaysStartable, Valid
<1>5. SelectionInv' /\ RestartIsAnnounced'
  BY DEF SelectionInv, RestartIsAnnounced
<1> QED
  BY <1>1, <1>2, <1>3, <1>4, <1>5

\* A step of a request that leaves all but itself alone, and is not one of those
\* that a property looks at.
LEMMA QuietInv ==
  ASSUME ConfigInv, NEW r \in Requests, NEW config \in Config \cup {None}, NEW place,
         pc[r] \notin Locked, place \notin Locked, phase = "running",
         place \in {"idle", "get", "read", "put", "lock", "allow", "reconcile", "applied", "unapplied", "refused"},
         UNCHANGED <<diskVars, mainVars, current, holder, selection, previous, historyVars>>,
         pc' = [pc EXCEPT ![r] = place],
         asked' = [asked EXCEPT ![r] = config],
         place \in {"idle", "get"} => config = None,
         place = "read" => config \in Config,
         place \in Checked => Valid(config),
         pc[r] = "allow" <=> place = "allow",
         pc[r] \in Saving => place \in Saving /\ config = asked[r]
  PROVE  ConfigInv'
<1> USE ConfigAssumption DEF ConfigInv, diskVars, mainVars, historyVars
<1>1. TypeOK'
  BY DEF TypeOK
<1>2. ASSUME NEW x \in Requests
      PROVE  RequestInv(x)'
  BY DEF TypeOK, RequestInv, Locked
<1>3. FileInv'
  BY DEF TypeOK, FileInv, Locked
<1>4. AlwaysStartable'
  BY DEF AlwaysStartable
<1>5. SelectionInv'
  BY DEF TypeOK, SelectionInv, Saving
<1>6. RestartIsAnnounced'
  BY DEF TypeOK, RestartIsAnnounced, RestartRequired, Saving
<1> QED
  BY <1>1, <1>2, <1>3, <1>4, <1>5, <1>6

-----------------------------------------------------------------------------
(* A GET, and a PUT on its way to the lock and after it.                    *)

LEMMA AskGetInv == ASSUME ConfigInv, NEW r \in Requests, AskGet(r) PROVE ConfigInv'
<1>1. asked' = [asked EXCEPT ![r] = None]
  BY DEF ConfigInv, TypeOK, RequestInv, AskGet
<1> QED
  BY <1>1, QuietInv DEF AskGet, Goto, Locked, Checked, Saving

LEMMA ReadCurrentInv == ASSUME ConfigInv, NEW r \in Requests, ReadCurrent(r) PROVE ConfigInv'
<1>1. phase = "running" /\ current \in Config
  BY DEF ConfigInv, TypeOK, RequestInv, FileInv, ReadCurrent
<1> QED
  BY <1>1, QuietInv DEF ReadCurrent, Goto, Locked, Checked, Saving

LEMMA AskPutInv ==
  ASSUME ConfigInv, NEW r \in Requests, NEW body \in Bodies \cup {None}, AskPut(r, body)
  PROVE  ConfigInv'
<1>1. body \in Config \cup {None}
  BY ConfigAssumption
<1> QED
  BY <1>1, QuietInv DEF AskPut, Goto, Locked, Checked, Saving

LEMMA CheckBodyInv == ASSUME ConfigInv, NEW r \in Requests, CheckBody(r) PROVE ConfigInv'
<1>1. phase = "running" /\ asked[r] \in Config \cup {None} /\ asked' = [asked EXCEPT ![r] = asked[r]]
  BY DEF ConfigInv, TypeOK, RequestInv, CheckBody
<1>2. CASE Valid(asked[r])
  <2>1. pc' = [pc EXCEPT ![r] = "lock"] /\ pc[r] = "put"
    BY <1>2 DEF CheckBody, Goto
  <2> QED
    BY <1>1, <1>2, <2>1, QuietInv DEF CheckBody, Locked, Checked, Saving
<1>3. CASE ~Valid(asked[r])
  <2>1. pc' = [pc EXCEPT ![r] = "refused"] /\ pc[r] = "put"
    BY <1>3 DEF CheckBody, Goto
  <2> QED
    BY <1>1, <2>1, QuietInv DEF CheckBody, Locked, Checked, Saving
<1> QED
  BY <1>2, <1>3

LEMMA ListAndReconcileInv == ASSUME ConfigInv, NEW r \in Requests, ListAndReconcile(r) PROVE ConfigInv'
<1>1. /\ phase = "running" /\ asked[r] \in Config \cup {None} /\ Valid(asked[r])
      /\ asked' = [asked EXCEPT ![r] = asked[r]]
  BY DEF ConfigInv, TypeOK, RequestInv, ListAndReconcile, Checked
<1>2. PICK place \in {"applied", "unapplied"} : pc' = [pc EXCEPT ![r] = place]
  BY DEF ListAndReconcile, Goto
<1> QED
  BY <1>1, <1>2, QuietInv DEF ListAndReconcile, Locked, Checked, Saving

LEMMA SetAllowedInv == ASSUME ConfigInv, NEW r \in Requests, SetAllowed(r) PROVE ConfigInv'
<1> USE ConfigAssumption DEF ConfigInv, SetAllowed, Goto, diskVars, mainVars, historyVars
<1>1. asked[r] \in Config /\ pc[r] = "allow"
  BY DEF RequestInv, Checked, Valid
<1>2. TypeOK'
  BY <1>1 DEF TypeOK, Applied, Config
<1>3. ASSUME NEW x \in Requests
      PROVE  RequestInv(x)'
  BY DEF TypeOK, RequestInv, Locked, Checked
<1>4. FileInv'
  BY DEF TypeOK, FileInv
<1>5. AlwaysStartable'
  BY DEF AlwaysStartable
<1>6. SelectionInv'
  BY <1>1 DEF TypeOK, SelectionInv, Applied
<1>7. RestartIsAnnounced'
  BY DEF TypeOK, RestartIsAnnounced, RestartRequired
<1> QED
  BY <1>2, <1>3, <1>4, <1>5, <1>6, <1>7

LEMMA RespondInv == ASSUME ConfigInv, NEW r \in Requests, Respond(r) PROVE ConfigInv'
<1> USE ConfigAssumption DEF ConfigInv, Respond, Goto, diskVars, mainVars
<1>1. TypeOK'
  BY DEF TypeOK
<1>2. ASSUME NEW x \in Requests
      PROVE  RequestInv(x)'
  BY DEF TypeOK, RequestInv, Locked, Checked
<1>3. FileInv'
  BY DEF TypeOK, FileInv
<1>4. AlwaysStartable'
  BY DEF AlwaysStartable
<1>5. SelectionInv'
  BY DEF TypeOK, SelectionInv
<1>6. RestartIsAnnounced'
  BY DEF TypeOK, RestartIsAnnounced, RestartRequired, Saved
<1> QED
  BY <1>1, <1>2, <1>3, <1>4, <1>5, <1>6

-----------------------------------------------------------------------------
(* A PUT under the lock.                                                    *)

LEMMA LockInv == ASSUME ConfigInv, NEW r \in Requests, Lock(r) PROVE ConfigInv'
<1> USE ConfigAssumption DEF ConfigInv, Lock, Goto, diskVars, mainVars, historyVars
<1>1. TypeOK'
  BY DEF TypeOK
<1>2. ASSUME NEW x \in Requests
      PROVE  RequestInv(x)'
  BY DEF TypeOK, RequestInv, Locked, Checked
<1>3. FileInv'
  BY DEF TypeOK, FileInv
<1>4. AlwaysStartable'
  BY DEF AlwaysStartable
<1>5. SelectionInv'
  BY DEF TypeOK, SelectionInv
<1>6. RestartIsAnnounced'
  BY DEF TypeOK, RestartIsAnnounced, RestartRequired
<1> QED
  BY <1>1, <1>2, <1>3, <1>4, <1>5, <1>6

LEMMA WriteTemporaryInv == ASSUME ConfigInv, NEW r \in Requests, WriteTemporary(r) PROVE ConfigInv'
<1> USE ConfigAssumption DEF ConfigInv, WriteTemporary, Goto, diskVars, mainVars, historyVars
<1>1. TypeOK'
  BY DEF TypeOK
<1>2. ASSUME NEW x \in Requests
      PROVE  RequestInv(x)'
  BY DEF TypeOK, RequestInv, Locked, Checked
<1>3. FileInv'
  BY DEF TypeOK, FileInv
<1>4. AlwaysStartable'
  BY DEF AlwaysStartable
<1>5. SelectionInv'
  BY DEF TypeOK, SelectionInv
<1>6. RestartIsAnnounced'
  BY DEF TypeOK, RestartIsAnnounced, RestartRequired
<1> QED
  BY <1>1, <1>2, <1>3, <1>4, <1>5, <1>6

LEMMA SaveFailsInv == ASSUME ConfigInv, NEW r \in Requests, SaveFails(r) PROVE ConfigInv'
<1> USE ConfigAssumption DEF ConfigInv, SaveFails, AfterFailure, Goto, diskVars, mainVars, historyVars
<1>1. TypeOK'
  BY DEF TypeOK
<1>2. ASSUME NEW x \in Requests
      PROVE  RequestInv(x)'
  BY DEF TypeOK, RequestInv, Locked, Checked
<1>3. FileInv'
  BY DEF TypeOK, FileInv
<1>4. AlwaysStartable'
  BY DEF AlwaysStartable
<1>5. SelectionInv'
  BY DEF TypeOK, SelectionInv
<1>6. RestartIsAnnounced'
  BY DEF TypeOK, RestartIsAnnounced, RestartRequired
<1> QED
  BY <1>1, <1>2, <1>3, <1>4, <1>5, <1>6

LEMMA RenameInv == ASSUME ConfigInv, NEW r \in Requests, Rename(r) PROVE ConfigInv'
<1> USE ConfigAssumption DEF ConfigInv, Rename, Renamed, Goto, mainVars, historyVars
<1>1. Valid(asked[r]) /\ asked[r] \in ValidConfig /\ phase = "running" /\ holder = r
  BY DEF RequestInv, Checked, Locked, Valid, ValidConfig
<1>2. TypeOK'
  BY <1>1 DEF TypeOK, ValidConfig
<1>3. ASSUME NEW x \in Requests
      PROVE  RequestInv(x)'
  BY DEF TypeOK, RequestInv, Locked, Checked
<1>4. FileInv'
  <2>1. \A x \in Requests : pc'[x] = "commit" => x = r
    BY <1>1, <1>3 DEF RequestInv, Locked
  <2> QED
    BY <1>1, <2>1 DEF TypeOK, FileInv, Valid
<1>5. AlwaysStartable'
  BY <1>1 DEF AlwaysStartable, Valid
<1>6. SelectionInv'
  BY DEF TypeOK, SelectionInv
<1>7. RestartIsAnnounced'
  BY DEF TypeOK, RestartIsAnnounced, RestartRequired
<1> QED
  BY <1>2, <1>3, <1>4, <1>5, <1>6, <1>7

LEMMA CommitInv == ASSUME ConfigInv, NEW r \in Requests, Commit(r) PROVE ConfigInv'
<1> USE ConfigAssumption DEF ConfigInv, Commit, Goto, diskVars, mainVars
<1>1. /\ Valid(asked[r]) /\ asked[r] \in Config /\ phase = "running" /\ holder = r
      /\ previous[r] = current /\ file = asked[r]
  BY DEF RequestInv, Checked, Locked, Valid, FileInv
<1>2. TypeOK'
  BY <1>1 DEF TypeOK
<1>3. ASSUME NEW x \in Requests
      PROVE  RequestInv(x)'
  BY <1>1 DEF TypeOK, RequestInv, Locked, Checked
<1>4. FileInv'
  BY <1>1, <1>2 DEF TypeOK, FileInv, Valid
<1>5. AlwaysStartable'
  BY DEF AlwaysStartable
<1>6. SelectionInv'
  BY <1>1 DEF TypeOK, SelectionInv
<1>7. RestartIsAnnounced'
  BY <1>1 DEF TypeOK, RestartIsAnnounced, RestartRequired
<1> QED
  BY <1>2, <1>3, <1>4, <1>5, <1>6, <1>7

-----------------------------------------------------------------------------
(* The machine.                                                             *)

LEMMA ProcessGoneInv ==
  ASSUME ConfigInv, ProcessGone, file' \in survivors, survivors' \subseteq survivors,
         file' \in survivors', UNCHANGED settled
  PROVE  ConfigInv'
<1> USE ConfigAssumption DEF ConfigInv, ProcessGone
<1>1. TypeOK'
  BY DEF TypeOK
<1>2. ASSUME NEW x \in Requests
      PROVE  RequestInv(x)'
  BY DEF RequestInv, Locked, Checked
<1>3. FileInv'
  BY DEF FileInv
<1>4. AlwaysStartable'
  BY DEF AlwaysStartable, ValidConfig, Valid
<1>5. SelectionInv' /\ RestartIsAnnounced'
  BY DEF SelectionInv, RestartIsAnnounced
<1> QED
  BY <1>1, <1>2, <1>3, <1>4, <1>5

LEMMA StopInv == ConfigInv /\ Stop => ConfigInv'
  BY ProcessGoneInv DEF Stop, diskVars, ConfigInv, FileInv

LEMMA PowerLossInv == ConfigInv /\ PowerLoss => ConfigInv'
  BY ProcessGoneInv DEF PowerLoss

LEMMA WriteBackInv == ASSUME ConfigInv, WriteBack PROVE ConfigInv'
<1> USE ConfigAssumption DEF ConfigInv, WriteBack, mainVars, requestVars, historyVars
<1>1. TypeOK'
  BY DEF TypeOK
<1>2. ASSUME NEW x \in Requests
      PROVE  RequestInv(x)'
  BY DEF RequestInv
<1>3. FileInv'
  BY DEF FileInv
<1>4. AlwaysStartable'
  BY DEF AlwaysStartable, ValidConfig, Valid
<1>5. SelectionInv' /\ RestartIsAnnounced'
  BY DEF SelectionInv, RestartIsAnnounced, RestartRequired
<1> QED
  BY <1>1, <1>2, <1>3, <1>4, <1>5

LEMMA StutterInv == ASSUME ConfigInv, UNCHANGED vars PROVE ConfigInv'
  BY DEF ConfigInv, vars, diskVars, mainVars, requestVars, historyVars, TypeOK, RequestInv, FileInv,
         AlwaysStartable, SelectionInv, RestartIsAnnounced, RestartRequired

-----------------------------------------------------------------------------
(* Every step.                                                              *)

LEMMA HandlerInv == ASSUME ConfigInv, NEW r \in Requests, HandlerStep(r) PROVE ConfigInv'
  BY ReadCurrentInv, CheckBodyInv, LockInv, WriteTemporaryInv, SaveFailsInv, RenameInv, CommitInv,
     SetAllowedInv, ListAndReconcileInv, RespondInv DEF HandlerStep

LEMMA StepInv == ConfigInv /\ [Next]_vars => ConfigInv'
<1> SUFFICES ASSUME ConfigInv, [Next]_vars
             PROVE  ConfigInv'
  OBVIOUS
<1>1. CASE Load \/ CreateFile \/ WriteDefault
  BY <1>1, LoadInv, CreateFileInv, WriteDefaultInv
<1>2. ASSUME NEW r \in Requests, AskGet(r) \/ HandlerStep(r) \/ \E body \in Bodies \cup {None} : AskPut(r, body)
      PROVE  ConfigInv'
  BY <1>2, AskGetInv, AskPutInv, HandlerInv
<1>3. CASE Stop \/ PowerLoss \/ WriteBack
  BY <1>3, StopInv, PowerLossInv, WriteBackInv
<1>4. CASE UNCHANGED vars
  BY <1>4, StutterInv
<1> QED
  BY <1>1, <1>2, <1>3, <1>4 DEF Next

LEMMA Invariant == Safety => []ConfigInv
  BY InitInv, StepInv, PTL DEF Safety

\* Every variable keeps its shape, whatever is asked and whenever the machine
\* fails.
THEOREM TypeCorrect == Spec => []TypeOK
<1>1. ConfigInv => TypeOK
  BY DEF ConfigInv
<1> QED
  BY <1>1, Invariant, PTL DEF Spec

\* Once a configuration has reached the disk, no stop and no loss of power at
\* any moment of a Save leaves a file that the gateway cannot start from.
THEOREM FileStaysUsable == Spec => []AlwaysStartable
<1>1. ConfigInv => AlwaysStartable
  BY DEF ConfigInv
<1> QED
  BY <1>1, Invariant, PTL DEF Spec

\* PUTs that do not cross leave the running selection equal to the saved one.
THEOREM SelectionFollows == Spec => []SelectionIsTheSavedOne
<1>1. ConfigInv => SelectionIsTheSavedOne
  BY DEF ConfigInv, SelectionInv, SelectionIsTheSavedOne
<1> QED
  BY <1>1, Invariant, PTL DEF Spec

\* Settings that are saved and not in force have been announced, or are about
\* to be: previous is read under the lock that the save holds.
THEOREM DifferencesAreAnnounced == Spec => []RestartIsAnnounced
<1>1. ConfigInv => RestartIsAnnounced
  BY DEF ConfigInv
<1> QED
  BY <1>1, Invariant, PTL DEF Spec

-----------------------------------------------------------------------------
(* c.mu, and the answers that do not announce a restart.                    *)

\* c.mu is held by one handler, between its Lock and its Unlock, and what that handler
\* read as previous is still current when it saves.
LockedOnlyWhileSaving ==
  /\ holder # None => holder \in Requests /\ pc[holder] \in Locked
  /\ \A r, q \in Requests : pc[r] \in Locked /\ pc[q] \in Locked => r = q
  /\ \A r \in Requests : pc[r] \in Locked => previous[r] = current

\* No handler keeps c.mu past its save, the error paths of Save included, so that nobody
\* waits for one that has gone; and of two PUTs the second compares with what the first
\* saved, never with an older configuration.
THEOREM LockIsGivenBack == Spec => []LockedOnlyWhileSaving
<1>1. ConfigInv => LockedOnlyWhileSaving
  BY ConfigAssumption DEF ConfigInv, TypeOK, RequestInv, LockedOnlyWhileSaving
<1> QED
  BY <1>1, Invariant, PTL DEF Spec

\* A PUT of this process was answered with restart_required, or has saved and will be.
NoticeGiven == told \/ \E q \in Requests : pc[q] \in Saving /\ RestartRequired(q)

\* A PUT that found settings saved which are not in force came after the one whose
\* answer announces them.
NoticeInv ==
  \A r \in Requests :
    pc[r] \in Locked \cup Saving /\ previous[r].settings # boot.settings => NoticeGiven

LEMMA NoticeStays ==
  ASSUME NoticeInv, NEW r \in Requests, UNCHANGED <<boot, previous, told>>,
         \A q \in Requests \ {r} : pc'[q] = pc[q] /\ asked'[q] = asked[q],
         pc'[r] \in Locked \cup Saving => pc[r] \in Locked \cup Saving,
         pc[r] \in Saving => pc'[r] \in Saving /\ asked'[r] = asked[r]
  PROVE  NoticeInv'
<1>1. NoticeGiven => NoticeGiven'
  BY DEF NoticeGiven, RestartRequired
<1> QED
  BY <1>1 DEF NoticeInv

LEMMA StepNotice == ConfigInv /\ NoticeInv /\ [Next]_vars => NoticeInv'
<1> SUFFICES ASSUME ConfigInv, NoticeInv, [Next]_vars
             PROVE  NoticeInv'
  OBVIOUS
<1> USE DEF ConfigInv, Locked, Saving
<1>1. CASE Load \/ CreateFile \/ WriteDefault
  <2>1. \A r \in Requests : pc[r] = "idle"
    BY <1>1 DEF Load, CreateFile, WriteDefault, RequestInv
  <2>2. pc' = pc
    BY <1>1 DEF Load, CreateFile, WriteDefault, Run, requestVars
  <2> QED
    BY <2>1, <2>2 DEF NoticeInv
<1>2. CASE Stop \/ PowerLoss
  BY <1>2 DEF Stop, PowerLoss, ProcessGone, NoticeInv
<1>3. CASE WriteBack \/ UNCHANGED vars
  BY <1>3 DEF WriteBack, vars, mainVars, requestVars, historyVars, NoticeInv, NoticeGiven, RestartRequired
<1>4. ASSUME NEW r \in Requests, AskGet(r) \/ ReadCurrent(r) \/ \E body \in Bodies \cup {None} : AskPut(r, body)
      PROVE  NoticeInv'
  <2>1. /\ UNCHANGED <<boot, previous, told>>
        /\ pc[r] \in {"idle", "get"} /\ pc'[r] \in {"get", "read", "put"}
        /\ \A q \in Requests \ {r} : pc'[q] = pc[q] /\ asked'[q] = asked[q]
    BY <1>4 DEF AskGet, ReadCurrent, AskPut, Goto, mainVars, historyVars, TypeOK
  <2> QED
    BY <2>1, NoticeStays
<1>5. ASSUME NEW r \in Requests,
             \/ CheckBody(r) \/ WriteTemporary(r) \/ SaveFails(r) \/ Rename(r)
             \/ SetAllowed(r) \/ ListAndReconcile(r) \/ Commit(r)
      PROVE  NoticeInv'
  <2>1. UNCHANGED <<boot, previous, told, asked>>
    BY <1>5 DEF CheckBody, WriteTemporary, SaveFails, Rename, SetAllowed, ListAndReconcile, Commit,
                mainVars, historyVars
  <2>2. /\ \A q \in Requests \ {r} : pc'[q] = pc[q]
        /\ pc'[r] \in Locked \cup Saving => pc[r] \in Locked \cup Saving
        /\ pc[r] \in Saving => pc'[r] \in Saving
    BY <1>5 DEF CheckBody, WriteTemporary, SaveFails, Rename, SetAllowed, ListAndReconcile, Commit,
                Goto, TypeOK
  <2> QED
    BY <2>1, <2>2, NoticeStays
<1>6. ASSUME NEW r \in Requests, Lock(r)
      PROVE  NoticeInv'
  <2>1. /\ UNCHANGED <<boot, current, told, asked>> /\ phase = "running" /\ pc[r] = "lock" /\ pc'[r] = "write"
        /\ previous'[r] = current
        /\ \A q \in Requests \ {r} : pc'[q] = pc[q] /\ previous'[q] = previous[q]
    BY <1>6 DEF Lock, Goto, mainVars, historyVars, TypeOK, RequestInv
  <2>2. current.settings # boot.settings => NoticeGiven
    BY <2>1 DEF RestartIsAnnounced, NoticeGiven
  <2>3. NoticeGiven => NoticeGiven'
    BY <2>1 DEF NoticeGiven, RestartRequired
  <2> QED
    BY <2>1, <2>2, <2>3 DEF NoticeInv
<1>7. ASSUME NEW r \in Requests, Respond(r)
      PROVE  NoticeInv'
  <2>1. /\ UNCHANGED boot /\ pc'[r] = "idle"
        /\ told' = (told \/ (Saved(r) /\ RestartRequired(r)))
        /\ pc[r] \in Saving => Saved(r)
        /\ \A q \in Requests \ {r} : pc'[q] = pc[q] /\ asked'[q] = asked[q] /\ previous'[q] = previous[q]
    BY <1>7 DEF Respond, Goto, mainVars, TypeOK, Saved
  <2>2. NoticeGiven => NoticeGiven'
    BY <2>1 DEF NoticeGiven, RestartRequired
  <2> QED
    BY <2>1, <2>2 DEF NoticeInv
<1> QED
  BY <1>1, <1>2, <1>3, <1>4, <1>5, <1>6, <1>7 DEF Next, HandlerStep

\* An answer that says "Saved and applied." of settings that are not in force is given
\* only after another PUT announced the restart, or saved and will announce it.
MissedOnlyAfterANotice ==
  [][\A r \in Requests :
       Respond(r) /\ pc[r] = "applied" /\ ~RestartRequired(r) /\ asked[r].settings # boot.settings
         => told \/ \E q \in Requests \ {r} : pc[q] \in Saving /\ RestartRequired(q)]_vars

\* The extent of what the run MCConfigNotice finds: however many PUTs cross, the one whose
\* save changes the settings announces the restart; only PUTs that save the same settings
\* once more miss the notice.
THEOREM FirstChangeIsAnnounced == Spec => MissedOnlyAfterANotice
<1>1. Init => NoticeInv
  BY DEF Init, NoticeInv, Locked, Saving
<1>2. ConfigInv /\ NoticeInv /\ [Next]_vars =>
        [\A r \in Requests :
           Respond(r) /\ pc[r] = "applied" /\ ~RestartRequired(r) /\ asked[r].settings # boot.settings
             => told \/ \E q \in Requests \ {r} : pc[q] \in Saving /\ RestartRequired(q)]_vars
  BY DEF NoticeInv, NoticeGiven, RestartRequired, Saving
<1> QED
  BY <1>1, <1>2, Invariant, StepNotice, PTL DEF Spec, Safety, MissedOnlyAfterANotice

-----------------------------------------------------------------------------
(* The register.                                                            *)

Ops == [r \in Requests |-> Operation(r)]
MayRevert == {Content(f) : f \in survivors}

LEMMA InitIsRegisterInit == Init => Register!Init
<1> SUFFICES ASSUME Init
             PROVE  Register!Init
  OBVIOUS
<1> USE ConfigAssumption DEF Init, Content
<1>1. Content(file) = None /\ MayRevert = {None}
  BY DEF MayRevert
<1>2. Ops = [r \in Requests |-> Register!Idle]
  BY DEF Ops, Operation, Register!Idle
<1> QED
  BY <1>1, <1>2 DEF Register!Init, MayRevert, Ops

\* A request that goes on, and what its operation becomes.
LEMMA OneOperation ==
  ASSUME ConfigInv, NEW r \in Requests, NEW place, NEW config,
         pc' = [pc EXCEPT ![r] = place], asked' = [asked EXCEPT ![r] = config]
  PROVE  /\ Ops' = [Ops EXCEPT ![r] = Operation(r)']
         /\ pc'[r] = place /\ asked'[r] = config
<1>1. pc'[r] = place /\ asked'[r] = config
  BY DEF ConfigInv, TypeOK
<1>2. \A x \in Requests : x # r => Operation(x)' = Operation(x)
  BY DEF ConfigInv, TypeOK, Operation
<1> QED
  BY <1>1, <1>2 DEF Ops

LEMMA SameDisk ==
  UNCHANGED <<file, survivors>> => Content(file)' = Content(file) /\ MayRevert' = MayRevert
  BY DEF Content, MayRevert

\* A step that changes no operation and no file is none of the register.
LEMMA RegisterStutters ==
  ASSUME UNCHANGED <<file, survivors>>, Ops' = Ops
  PROVE  UNCHANGED Register!registerVars
  BY SameDisk DEF Register!registerVars, Ops, MayRevert

LEMMA HiddenStep ==
  ASSUME ConfigInv, NEW r \in Requests, NEW place,
         pc' = [pc EXCEPT ![r] = place], asked' = asked, UNCHANGED <<file, survivors>>,
         \/ pc[r] \in {"put", "lock", "write"} /\ place \in {"lock", "write", "rename"}
         \/ pc[r] \in {"commit", "allow", "reconcile"} /\ place \in {"allow", "reconcile", "applied", "unapplied"}
  PROVE  UNCHANGED Register!registerVars
<1>1. asked' = [asked EXCEPT ![r] = asked[r]]
  BY DEF ConfigInv, TypeOK
<1>2. Ops' = [Ops EXCEPT ![r] = Operation(r)'] /\ pc'[r] = place /\ asked'[r] = asked[r]
  BY <1>1, OneOperation
<1>3. Operation(r)' = Operation(r)
  BY <1>2 DEF Operation
<1>4. Ops' = Ops
  BY <1>2, <1>3 DEF Ops
<1> QED
  BY <1>4, RegisterStutters

LEMMA RefusalIsRefuse ==
  ASSUME ConfigInv, NEW r \in Requests, pc[r] \in {"put", "write", "rename"},
         pc' = [pc EXCEPT ![r] = "refused"], asked' = asked, UNCHANGED <<file, survivors>>
  PROVE  Register!Refuse(r)
<1>1. asked' = [asked EXCEPT ![r] = asked[r]]
  BY DEF ConfigInv, TypeOK
<1>2. Ops' = [Ops EXCEPT ![r] = Operation(r)'] /\ pc'[r] = "refused"
  BY <1>1, OneOperation
<1>3. Operation(r)' = Register!Done(None) /\ Operation(r).phase = "put"
  BY <1>2 DEF Operation, Register!Done
<1> QED
  BY <1>2, <1>3, SameDisk DEF Register!Refuse, Register!Becomes, Ops, MayRevert

LEMMA AskingIsAsk ==
  ASSUME ConfigInv, NEW r \in Requests, AskGet(r) \/ \E body \in Bodies \cup {None} : AskPut(r, body)
  PROVE  Register!Ask(r)
<1>1. Operation(r) = Register!Idle
  BY DEF ConfigInv, RequestInv, AskGet, AskPut, Operation, Register!Idle
<1>2. CASE AskGet(r)
  <2>1. asked' = [asked EXCEPT ![r] = None] /\ pc' = [pc EXCEPT ![r] = "get"]
    BY <1>2 DEF ConfigInv, TypeOK, RequestInv, AskGet, Goto
  <2>2. Ops' = [Ops EXCEPT ![r] = Operation(r)'] /\ pc'[r] = "get" /\ asked'[r] = None
    BY <2>1, OneOperation
  <2>3. Operation(r)' = Register!Get
    BY <2>2 DEF Operation, Register!Get
  <2>4. UNCHANGED <<file, survivors>>
    BY <1>2 DEF AskGet, diskVars
  <2> QED
    BY <1>1, <2>2, <2>3, <2>4, SameDisk DEF Register!Ask, Register!Becomes, Ops, MayRevert
<1>3. ASSUME NEW body \in Bodies \cup {None}, AskPut(r, body)
      PROVE  Register!Ask(r)
  <2>1. Ops' = [Ops EXCEPT ![r] = Operation(r)'] /\ pc'[r] = "put" /\ asked'[r] = body
    BY <1>3, OneOperation DEF AskPut, Goto
  <2>2. Operation(r)' = Register!Put(body) /\ body \in Config \cup {None}
    BY <2>1, ConfigAssumption DEF Operation, Register!Put
  <2>3. UNCHANGED <<file, survivors>>
    BY <1>3 DEF AskPut, diskVars
  <2> QED
    BY <1>1, <2>1, <2>2, <2>3, SameDisk DEF Register!Ask, Register!Becomes, Ops, MayRevert
<1> QED
  BY <1>2, <1>3

LEMMA ReadCurrentIsRead == ASSUME ConfigInv, NEW r \in Requests, ReadCurrent(r) PROVE Register!Read(r)
<1>1. phase = "running" /\ \A x \in Requests : pc[x] # "commit"
  BY ConfigAssumption DEF ConfigInv, RequestInv, ReadCurrent, MayRead, Locked
<1>2. current \in Config /\ Content(file) = current
  BY <1>1 DEF ConfigInv, FileInv, Content
<1>3. Ops' = [Ops EXCEPT ![r] = Operation(r)'] /\ pc'[r] = "read" /\ asked'[r] = current
  BY OneOperation DEF ReadCurrent, Goto
<1>4. Operation(r) = Register!Get /\ Operation(r)' = Register!Done(Content(file))
  BY <1>2, <1>3 DEF ConfigInv, RequestInv, ReadCurrent, Operation, Register!Get, Register!Done
<1>5. UNCHANGED <<file, survivors>>
  BY DEF ReadCurrent, diskVars
<1> QED
  BY <1>2, <1>3, <1>4, <1>5, SameDisk DEF Register!Read, Register!Becomes, Ops, MayRevert

LEMMA RenameIsWrite == ASSUME ConfigInv, NEW r \in Requests, Rename(r) PROVE Register!Write(r)
<1>1. asked[r] \in ValidConfig /\ asked[r] \in Config
  BY DEF ConfigInv, RequestInv, Rename, Checked, Valid, ValidConfig
<1>2. asked' = [asked EXCEPT ![r] = asked[r]] /\ pc' = [pc EXCEPT ![r] = "commit"]
  BY DEF ConfigInv, TypeOK, Rename, Goto
<1>3. Ops' = [Ops EXCEPT ![r] = Operation(r)'] /\ pc'[r] = "commit" /\ asked'[r] = asked[r]
  BY <1>2, OneOperation
<1>4. Content(file)' = asked[r] /\ MayRevert' = MayRevert \cup {asked[r]}
  BY <1>1 DEF Rename, Renamed, Content, MayRevert
<1>5. Operation(r).phase = "put" /\ Operation(r).config = asked[r] /\ Operation(r)' = Register!Done(asked[r])
  BY <1>3 DEF Rename, Operation, Register!Done
<1> QED
  BY <1>1, <1>3, <1>4, <1>5 DEF Register!Write, Register!Becomes, Ops, MayRevert

LEMMA RespondIsAnswer == ASSUME ConfigInv, NEW r \in Requests, Respond(r) PROVE Register!Answer(r)
<1>1. Ops' = [Ops EXCEPT ![r] = Operation(r)'] /\ pc'[r] = "idle" /\ asked'[r] = None
  BY OneOperation DEF Respond, Goto
<1>2. Operation(r).phase = "done" /\ Operation(r)' = Register!Idle
  BY <1>1 DEF Respond, Operation, Register!Idle
<1>3. UNCHANGED <<file, survivors>>
  BY DEF Respond, diskVars
<1> QED
  BY <1>1, <1>2, <1>3, SameDisk DEF Register!Answer, Register!Becomes, Ops, MayRevert

\* One step of a handler is one of the register, or none.
LEMMA HandlerRefines ==
  ASSUME ConfigInv, NEW r \in Requests, HandlerStep(r)
  PROVE  [Register!Next]_(Register!registerVars)
<1> USE DEF Goto, diskVars
<1>1. CASE CheckBody(r)
  BY <1>1, HiddenStep, RefusalIsRefuse DEF CheckBody, Register!Next
<1>2. CASE Lock(r) \/ WriteTemporary(r) \/ Commit(r) \/ SetAllowed(r)
  BY <1>2, HiddenStep DEF Lock, WriteTemporary, Commit, SetAllowed
<1>3. CASE ListAndReconcile(r)
  BY <1>3, HiddenStep DEF ListAndReconcile
<1>4. CASE SaveFails(r)
  BY <1>4, RefusalIsRefuse DEF SaveFails, Register!Next
<1>5. CASE ReadCurrent(r) \/ Rename(r) \/ Respond(r)
  BY <1>5, ReadCurrentIsRead, RenameIsWrite, RespondIsAnswer DEF Register!Next
<1> QED
  BY <1>1, <1>2, <1>3, <1>4, <1>5 DEF HandlerStep

LEMMA StartRefines ==
  ASSUME ConfigInv, Load \/ CreateFile \/ WriteDefault
  PROVE  [Register!Next]_(Register!registerVars)
<1>1. Ops' = Ops
  BY DEF Load, CreateFile, WriteDefault, Run, requestVars, Ops, Operation
<1>2. CASE Load
  BY <1>1, <1>2, RegisterStutters DEF Load, diskVars
<1>3. CASE CreateFile
  <2>1. Content(file) = None /\ Content(file)' = None /\ Content(Torn) = None
    BY <1>3, ConfigAssumption DEF CreateFile, Content
  <2>2. MayRevert' = MayRevert
    BY <1>3, <2>1 DEF CreateFile, MayRevert, ConfigInv, FileInv
  <2> QED
    BY <1>1, <2>1, <2>2 DEF Register!registerVars, Ops, MayRevert
<1>4. CASE WriteDefault
  <2>1. Content(file) = None /\ Content(file)' = Default /\ MayRevert' = MayRevert \cup {Default}
    BY <1>4, DefaultIsValid, ConfigAssumption DEF WriteDefault, Content, MayRevert, ConfigInv, FileInv
  <2>2. Register!Create
    BY <1>1, <2>1 DEF Register!Create, Ops, MayRevert
  <2> QED
    BY <2>2 DEF Register!Next
<1> QED
  BY <1>2, <1>3, <1>4

LEMMA MachineRefines ==
  ASSUME ConfigInv, Stop \/ PowerLoss \/ WriteBack
  PROVE  [Register!Next]_(Register!registerVars)
<1>1. ProcessGone => Ops' = [r \in Requests |-> Register!Idle]
  BY DEF ProcessGone, Ops, Operation, Register!Idle
<1>2. CASE Stop
  BY <1>1, <1>2, SameDisk DEF Stop, diskVars, Register!Stop, Register!Next, Ops, MayRevert
<1>3. CASE PowerLoss
  <2>1. Content(file)' \in MayRevert /\ MayRevert' = {Content(file)'}
    BY <1>3 DEF PowerLoss, MayRevert, Content
  <2> QED
    BY <1>1, <1>3, <2>1 DEF PowerLoss, Register!PowerLoss, Register!Next, Ops, MayRevert
<1>4. CASE WriteBack
  <2>1. Ops' = Ops /\ Content(file)' = Content(file) /\ MayRevert' = {Content(file)}
    BY <1>4 DEF WriteBack, requestVars, Ops, Operation, Content, MayRevert
  <2> QED
    BY <2>1 DEF Register!Settle, Register!Next, Ops, MayRevert
<1> QED
  BY <1>2, <1>3, <1>4

LEMMA StepRefines == ConfigInv /\ [Next]_vars => [Register!Next]_(Register!registerVars)
<1> SUFFICES ASSUME ConfigInv, [Next]_vars
             PROVE  [Register!Next]_(Register!registerVars)
  OBVIOUS
<1>1. CASE Load \/ CreateFile \/ WriteDefault
  BY <1>1, StartRefines
<1>2. ASSUME NEW r \in Requests, AskGet(r) \/ HandlerStep(r) \/ \E body \in Bodies \cup {None} : AskPut(r, body)
      PROVE  [Register!Next]_(Register!registerVars)
  BY <1>2, AskingIsAsk, HandlerRefines DEF Register!Next
<1>3. CASE Stop \/ PowerLoss \/ WriteBack
  BY <1>3, MachineRefines
<1>4. CASE UNCHANGED vars
  <2>1. Ops' = Ops
    BY <1>4 DEF vars, requestVars, Ops, Operation
  <2> QED
    BY <1>4, <2>1, RegisterStutters DEF vars, diskVars
<1> QED
  BY <1>1, <1>2, <1>3, <1>4 DEF Next

\* Concurrent GETs and PUTs, restarts and losses of power look to the callers
\* like one register with atomic operations.
THEOREM RequestsAreAtomic == Spec => ImplementsRegister
  BY Invariant, InitIsRegisterInit, StepRefines, PTL DEF Spec, Safety, ImplementsRegister, Register!Spec

=============================================================================
