------------------------- MODULE CloudCommands_proofs -------------------------
(***************************************************************************)
(* The status and the upgrade of CloudCommands for any set of servers and  *)
(* a journal of any length.  A status explains itself because only a       *)
(* healthy project remembers rows not looked at, and every step that adds  *)
(* rows calls it something else.  A bootstrap delivers because a command   *)
(* past its push owes nothing, and because the step that makes rows owed   *)
(* again is reached only from a checkpoint that promises nothing.          *)
(***************************************************************************)
EXTENDS CloudCommands, TLAPS

\* Only who calls the project healthy leaves rows behind unseen.
SeenWhenHealthy == sync.lifecycle # "healthy" => unseen = {}

\* The journal and the status of the project.
Ledger ==
    /\ rows \in Nat /\ acked \subseteq 1..rows /\ faulty \subseteq 1..rows
    /\ missing \in BOOLEAN
    /\ sync \in [lifecycle: Lifecycles, reason: Reasons]
    /\ unseen \subseteq Pending
    /\ SeenWhenHealthy /\ StatusExplained

BootstrapOnly ==
    {"read", "enroll", "save enrolled", "ensure", "ensure pushed", "save pushed",
     "save verified"}

\* Where a command is says what it is and which checkpoint it goes on from.
CommandExplained ==
    /\ command.at = "idle" => command = Idle
    /\ command.at \in BootstrapOnly => command.goal = "bootstrap"
    /\ command.goal = "bootstrap" \/ command.at \in {"restore", "save rolled back"} =>
           upgrade # Nothing
    /\ command.at \in {"enroll", "save enrolled"} =>
           upgrade.stage \in {"planned", "rolled_back"}

Commands == [at: Places, goal: {"sync", "bootstrap"}, rows: SUBSET (1..rows)]

Settings ==
    /\ config \in Url \cup {Nothing} /\ enrolled \in BOOLEAN /\ news \in BOOLEAN
    /\ upgrade \in Checkpoints \cup {Nothing}

\* The running command and the checkpoint.
Control == Settings /\ command \in Commands /\ CommandExplained

\* Once a bootstrap has pushed, or goes on from a checkpoint that says so, the server
\* has the history.
PushedDelivered ==
    /\ command.goal = "bootstrap"
    /\ command.at \in {"ensure pushed", "ack", "save pushed", "import", "save verified"}
    => owed = {}

Delivery == owed \subseteq Pending /\ PushedDelivered /\ BootstrapDelivers

IInv == Ledger /\ Control /\ Delivery

-------------------------------------------------------------------------------
(* The journal and the status. *)

\* A journal that grows keeps its rows.
LEMMA MoreRows ==
    ASSUME NEW m \in Nat, NEW n \in Nat, m <= n
    PROVE  1..m \subseteq 1..n /\ SUBSET (1..m) \subseteq SUBSET (1..n)
<1>1. 1..m \subseteq 1..n
  OBVIOUS
<1> QED BY <1>1

\* A row is appended.
LEMMA EnqueueLedger ==
    ASSUME Ledger, Enqueue, missing' \in BOOLEAN, UNCHANGED <<acked, faulty>>
    PROVE  Ledger' /\ rows' = rows + 1
<1>1. /\ sync' = [lifecycle |-> "pending", reason |-> sync.reason] /\ unseen' = {}
      /\ rows' = rows + 1
  BY DEF Enqueue, Mark
<1>2. sync' \in [lifecycle: Lifecycles, reason: Reasons] /\ sync'.lifecycle = "pending"
  BY <1>1 DEF Ledger, Lifecycles
<1>3. rows' \in Nat /\ acked' \subseteq 1..rows' /\ faulty' \subseteq 1..rows'
  BY <1>1 DEF Ledger
<1> QED BY <1>1, <1>2, <1>3 DEF Ledger, SeenWhenHealthy, StatusExplained

\* At most a record gets or loses its row.
LEMMA SameLedger ==
    ASSUME Ledger, UNCHANGED <<rows, acked, faulty, statusVars>>, missing' \in BOOLEAN
    PROVE  Ledger'
BY DEF Ledger, statusVars, Pending, SeenWhenHealthy, StatusExplained

\* A completion of the journal, by an enrollment or by a repair.
LEMMA BackfillLedger ==
    ASSUME Ledger, Backfill \/ EnrollProject
    PROVE  Ledger' /\ rows' \in Nat /\ rows <= rows' /\ acked' = acked
<1>0. rows \in Nat /\ missing \in BOOLEAN
  BY DEF Ledger
<1>1. CASE Backfill
  <2>1. UNCHANGED <<acked, faulty>> /\ missing' \in BOOLEAN
    BY <1>1 DEF Backfill
  <2>2. CASE Enqueue
    BY <1>0, <2>1, <2>2, EnqueueLedger
  <2>3. CASE UNCHANGED <<rows, statusVars>>
    BY <1>0, <2>1, <2>3, SameLedger
  <2> QED BY <1>1, <2>2, <2>3 DEF Backfill
<1>2. CASE UNCHANGED <<rows, acked, missing, faulty, statusVars>>
  BY <1>0, <1>2, SameLedger
<1> QED BY <1>1, <1>2 DEF EnrollProject

\* The status is written: healthy only by who remembers all rows not looked at.
LEMMA MarkLedger ==
    ASSUME Ledger, NEW lifecycle \in Lifecycles, NEW reason \in Reasons, NEW rest,
           Mark(lifecycle, reason, rest), lifecycle = "healthy" => rest = Pending,
           missing' \in BOOLEAN, UNCHANGED <<rows, acked, faulty>>
    PROVE  Ledger'
<1>1. sync' = [lifecycle |-> lifecycle, reason |-> reason]
  BY DEF Mark
<1>2. sync' \in [lifecycle: Lifecycles, reason: Reasons] /\ sync'.lifecycle = lifecycle
  BY <1>1
<1>3. unseen' = IF lifecycle = "healthy" THEN Pending ELSE {}
  BY DEF Mark
<1> QED BY <1>2, <1>3 DEF Ledger, SeenWhenHealthy, StatusExplained, Pending

\* Rows are acked: the project turns healthy only when none is left.
LEMMA AckLedger ==
    ASSUME Ledger, NEW S \in SUBSET (1..rows), Ack(S), UNCHANGED <<rows, missing, faulty>>
    PROVE  Ledger'
<1>1. acked' = acked \cup S /\ acked' \subseteq 1..rows' /\ Pending' = Pending \ S
  BY DEF Ack, Ledger, Pending
<1>2. CASE sync.lifecycle = "degraded" /\ UNCHANGED statusVars
  BY <1>1, <1>2 DEF Ledger, statusVars, SeenWhenHealthy, StatusExplained
<1>3. CASE Mark(IF Pending \subseteq S THEN "healthy" ELSE "pending", "none", {})
  <2> DEFINE l == IF Pending \subseteq S THEN "healthy" ELSE "pending"
  <2>1. sync' = [lifecycle |-> l, reason |-> "none"] /\ unseen' = {}
    BY <1>3 DEF Mark
  <2>2. sync' \in [lifecycle: Lifecycles, reason: Reasons] /\ sync'.lifecycle = l
    BY <2>1 DEF Lifecycles, Reasons
  <2>3. l = "healthy" => Pending' = {}
    BY <1>1
  <2> QED BY <1>1, <2>1, <2>2, <2>3 DEF Ledger, SeenWhenHealthy, StatusExplained
<1> QED BY <1>2, <1>3 DEF Ack

-------------------------------------------------------------------------------
(* The command and the checkpoint. *)

\* The command stands still while others append rows and change the settings.
LEMMA SurroundingsControl ==
    ASSUME Control, Ledger, rows' \in Nat, rows <= rows', Settings',
           UNCHANGED <<upgrade, command>>
    PROVE  Control'
<1>1. SUBSET (1..rows) \subseteq SUBSET (1..rows')
  BY MoreRows DEF Ledger
<1>2. command' \in Commands'
  BY <1>1 DEF Control, Commands
<1> QED BY <1>2 DEF Control, CommandExplained

\* A command takes a step: what its new place asks of the checkpoint must hold.
LEMMA CommandControl ==
    ASSUME Ledger, rows' \in Nat, rows <= rows', Settings',
           NEW at \in Places \ {"idle"}, NEW goal \in {"sync", "bootstrap"},
           NEW seen \in SUBSET (1..rows),
           command' = [at |-> at, goal |-> goal, rows |-> seen],
           at \in BootstrapOnly => goal = "bootstrap",
           goal = "bootstrap" \/ at \in {"restore", "save rolled back"} =>
               upgrade' # Nothing,
           at \in {"enroll", "save enrolled"} =>
               upgrade'.stage \in {"planned", "rolled_back"}
    PROVE  Control'
<1>1. SUBSET (1..rows) \subseteq SUBSET (1..rows')
  BY MoreRows DEF Ledger
<1>2. command' \in Commands' /\ command'.at = at /\ command'.goal = goal
  BY <1>1 DEF Commands
<1> QED BY <1>2 DEF Control, CommandExplained

\* A journal that does not grow.
LEMMA SameRows == IInv /\ rows' = rows => Ledger /\ rows' \in Nat /\ rows <= rows'
BY DEF IInv, Ledger

\* ... and leaves all else alone.
LEMMA GotoControl ==
    ASSUME IInv, UNCHANGED <<rows, upgradeVars, news>>,
           NEW at \in Places \ {"idle"}, NEW goal \in {"sync", "bootstrap"},
           NEW seen \in SUBSET (1..rows),
           command' = [at |-> at, goal |-> goal, rows |-> seen],
           at \in BootstrapOnly => goal = "bootstrap",
           goal = "bootstrap" \/ at \in {"restore", "save rolled back"} =>
               upgrade # Nothing,
           at \in {"enroll", "save enrolled"} =>
               upgrade.stage \in {"planned", "rolled_back"}
    PROVE  Control'
<1>1. Ledger /\ rows' \in Nat /\ rows <= rows'
  BY SameRows
<1>2. Settings' /\ UNCHANGED upgrade
  BY DEF IInv, Control, Settings, upgradeVars
<1> QED BY <1>1, <1>2, CommandControl

\* A command ends.
LEMMA EndControl ==
    ASSUME End, Settings'
    PROVE  Control'
<1>1. command' \in Commands' /\ command'.at = "idle" /\ command'.goal = "sync"
      /\ command' = Idle
  BY DEF End, Commands, Idle, Places
<1> QED BY <1>1 DEF Control, CommandExplained, BootstrapOnly

\* The parts of the running command, and of the checkpoint where there is one.
LEMMA CommandParts ==
    ASSUME Control
    PROVE  /\ command.at \in Places /\ command.goal \in {"sync", "bootstrap"}
           /\ command.rows \in SUBSET (1..rows)
           /\ command.at = "idle" => command.goal = "sync" /\ command.rows = {}
           /\ \A at : Goto(at) =>
                 command' = [at |-> at, goal |-> command.goal, rows |-> command.rows]
           /\ upgrade # Nothing => /\ upgrade.stage \in Stages
                                   /\ upgrade.snapshot \in Snapshots
                                   /\ upgrade.snapshot.config \in Url \cup {Nothing}
                                   /\ upgrade.snapshot.enrolled \in BOOLEAN
<1>1. command \in Commands
  BY DEF Control
<1>2. /\ command.at \in Places /\ command.goal \in {"sync", "bootstrap"}
      /\ command.rows \in SUBSET (1..rows)
      /\ \A at : Goto(at) =>
            command' = [at |-> at, goal |-> command.goal, rows |-> command.rows]
  BY <1>1 DEF Commands, Goto
<1>3. command.at = "idle" => command.goal = "sync" /\ command.rows = {}
  BY DEF Control, CommandExplained, Idle
<1>4. upgrade # Nothing => upgrade \in Checkpoints
  BY DEF Control, Settings
<1> QED BY <1>2, <1>3, <1>4 DEF Checkpoints, Snapshots

\* A checkpoint is saved.
LEMMA SaveTyped ==
    ASSUME NEW stage \in Stages, NEW snapshot \in Snapshots, Save(stage, snapshot)
    PROVE  upgrade' \in Checkpoints /\ upgrade' # Nothing /\ upgrade'.stage = stage
BY NothingAssumption DEF Save, Checkpoints

-------------------------------------------------------------------------------
(* The steps. *)

\* The initial state satisfies the inductive invariant.
LEMMA InitIInv == Init => IInv
<1> SUFFICES ASSUME Init PROVE IInv
  OBVIOUS
<1>1. Ledger
  BY DEF Init, Ledger, Pending, SeenWhenHealthy, StatusExplained, Lifecycles, Reasons
<1>2. Control
  BY DEF Init, Control, Settings, Commands, CommandExplained, Idle, Places, BootstrapOnly
<1>3. Delivery
  BY DEF Init, Delivery, PushedDelivered, BootstrapDelivers, Idle
<1> QED BY <1>1, <1>2, <1>3 DEF IInv

\* What goes on beside the command: nothing is owed anew.
LEMMA SurroundingsStep ==
    ASSUME IInv,
           \/ Write \/ Autosync \/ Publish \/ CloudEnroll \/ RepairEnrolled
           \/ \E u \in Url : CloudConfig(u)
    PROVE  IInv'
<1>1. UNCHANGED <<upgrade, command>>
  BY DEF Write, Autosync, Publish, CloudConfig, CloudEnroll, RepairEnrolled, upgradeVars
<1>2. rows \in Nat /\ missing \in BOOLEAN
  BY DEF IInv, Ledger
<1>3. Ledger' /\ rows' \in Nat /\ rows <= rows' /\ owed' \subseteq owed \ (acked' \ acked)
  <2>1. CASE Write
    BY <1>2, <2>1, EnqueueLedger DEF Write, IInv
  <2>2. CASE Autosync
    <3>1. /\ UNCHANGED <<rows, missing, faulty>> /\ owed' = owed \ acked'
      BY <2>2 DEF Autosync
    <3>2. ASSUME NEW last \in Pending, Ack({i \in Pending : i <= last})
          PROVE  Ledger'
      BY <3>1, <3>2, AckLedger DEF IInv, Pending
    <3>3. ASSUME acked' = 1..rows, UNCHANGED sync, unseen' = {}
          PROVE  Ledger'
      BY <3>1, <3>3 DEF IInv, Ledger, Pending, SeenWhenHealthy, StatusExplained
    <3>4. Ledger'
      BY <2>2, <3>2, <3>3 DEF Autosync
    <3> QED BY <1>2, <3>1, <3>4
  <2>3. CASE Publish \/ \E u \in Url : CloudConfig(u)
    BY <1>2, <2>3, SameLedger DEF Publish, CloudConfig, IInv, journalVars
  <2>4. CASE CloudEnroll \/ RepairEnrolled
    BY <2>4, BackfillLedger DEF CloudEnroll, RepairEnrolled, IInv
  <2> QED BY <2>1, <2>2, <2>3, <2>4
<1>4. Control'
  <2>1. Settings'
    BY DEF Write, Autosync, Publish, CloudConfig, CloudEnroll, RepairEnrolled, upgradeVars,
           EnrollProject, IInv, Control, Settings
  <2> QED BY <1>1, <1>3, <2>1, SurroundingsControl DEF IInv
<1>5. Delivery'
  <2>1. owed' \subseteq Pending'
    BY <1>2, <1>3 DEF IInv, Delivery, Pending
  <2> QED BY <1>1, <1>3, <2>1 DEF IInv, Delivery, PushedDelivered, BootstrapDelivers
<1> QED BY <1>3, <1>4, <1>5 DEF IInv

\* A step of a command that leaves the journal and the settings alone, with what it
\* says of the project and where it goes.
LEMMA CommandStep ==
    ASSUME IInv, Ledger', Control', UNCHANGED <<rows, acked, owed, upgrade>>,
           \/ command'.goal = "sync"
           \/ command' = command
           \/ command'.at \notin {"ensure pushed", "ack", "save pushed", "import",
                                   "save verified"}
           \/ owed = {}
    PROVE  IInv'
BY DEF IInv, Delivery, PushedDelivered, BootstrapDelivers, Pending

\* A sync begins, or is refused.
LEMMA StartSyncStep ==
    ASSUME IInv, StartSync
    PROVE  IInv'
<1>1. /\ UNCHANGED <<rows, acked, missing, faulty, owed, upgrade, upgradeVars, news>>
      /\ command.at = "idle"
  BY DEF StartSync, Starts, journalVars, upgradeVars
<1>2. /\ rows \in Nat /\ missing' \in BOOLEAN
      /\ "degraded" \in Lifecycles /\ "cloud_config_error" \in Reasons
      /\ "blocked_unenrolled" \in Reasons
  BY <1>1 DEF IInv, Ledger, Lifecycles, Reasons, Blocking
<1>3. CASE /\ UNCHANGED command
           /\ MarkSyncBlocked("cloud_config_error") \/ MarkSyncBlocked("blocked_unenrolled")
  <2>1. Ledger'
    BY <1>1, <1>2, <1>3, MarkLedger DEF MarkSyncBlocked, IInv
  <2>2. Control'
    BY <1>1, <1>2, <1>3, SurroundingsControl DEF IInv, Control, Settings, upgradeVars
  <2> QED BY <1>1, <1>3, <2>1, <2>2, CommandStep
<1>4. ASSUME NEW at \in {"export", "import"}, Goto(at), UNCHANGED statusVars
      PROVE  IInv'
  <2>1. command' = [at |-> at, goal |-> "sync", rows |-> {}]
    BY <1>1, <1>4, CommandParts DEF IInv
  <2>2. Ledger'
    BY <1>1, <1>2, <1>4, SameLedger DEF IInv
  <2>3. at \in Places \ {"idle"} /\ at \notin BootstrapOnly
    BY DEF Places, BootstrapOnly
  <2>4. Control'
    <3>1. {} \in SUBSET (1..rows)
      OBVIOUS
    <3> QED BY <1>1, <2>1, <2>3, <3>1, GotoControl
  <2> QED BY <1>1, <2>1, <2>2, <2>4, CommandStep
<1> QED BY <1>3, <1>4 DEF StartSync

\* The chunk of the pending rows is taken: what was owed is delivered.
LEMMA PushRowsStep ==
    ASSUME IInv, PushRows
    PROVE  IInv'
<1>1. /\ UNCHANGED <<rows, acked, missing, faulty, statusVars, upgrade, upgradeVars, news>>
      /\ command.at = "export" /\ owed' = owed \ Pending
  BY DEF PushRows, upgradeVars
<1>2. PICK at \in {"ack", "save pushed", "check"} :
          /\ command' = [at |-> at, goal |-> command.goal, rows |-> Pending]
          /\ at = "save pushed" => command.goal = "bootstrap"
  <2>1. command \in Commands
    BY DEF IInv, Control
  <2> QED BY <2>1 DEF PushRows, AfterPush, Commands
<1>3. Ledger'
  BY <1>1, SameLedger DEF IInv, Ledger
<1>4. at \in Places \ {"idle"} /\ Pending \in SUBSET (1..rows)
  BY DEF Places, Pending
<1>5. /\ command.goal \in {"sync", "bootstrap"}
      /\ at \in BootstrapOnly => command.goal = "bootstrap"
  BY <1>2, CommandParts DEF IInv, BootstrapOnly
<1>6. command.goal = "bootstrap" => upgrade # Nothing
  BY DEF IInv, Control, CommandExplained
<1>7. Control'
  BY <1>1, <1>2, <1>4, <1>5, <1>6, GotoControl
<1>8. owed' = {} /\ UNCHANGED <<acked, upgrade>>
  BY <1>1 DEF IInv, Delivery
<1> QED BY <1>3, <1>7, <1>8 DEF IInv, Delivery, PushedDelivered, BootstrapDelivers

\* The pushed rows are acked.
LEMMA AckRowsStep ==
    ASSUME IInv, AckRows
    PROVE  IInv'
<1>1. /\ UNCHANGED <<rows, missing, faulty, upgrade, upgradeVars, news>>
      /\ command.at = "ack" /\ Ack(command.rows) /\ owed' = owed \ command.rows
      /\ acked' = acked \cup command.rows
  BY DEF AckRows, Ack, upgradeVars
<1>2. PICK at \in {"save pushed", "check"} :
          /\ command' = [at |-> at, goal |-> command.goal, rows |-> {}]
          /\ at = "save pushed" => command.goal = "bootstrap"
  <2>1. command \in Commands
    BY DEF IInv, Control
  <2> QED BY <2>1 DEF AckRows, AfterPush, Commands
<1>3. Ledger'
  BY <1>1, AckLedger, CommandParts DEF IInv
<1>4. at \in Places \ {"idle"} /\ {} \in SUBSET (1..rows)
  BY DEF Places
<1>5. /\ command.goal \in {"sync", "bootstrap"}
      /\ at \in BootstrapOnly => command.goal = "bootstrap"
  BY <1>2, CommandParts DEF IInv, BootstrapOnly
<1>6. command.goal = "bootstrap" => upgrade # Nothing
  BY DEF IInv, Control, CommandExplained
<1>7. Control'
  BY <1>1, <1>2, <1>4, <1>5, <1>6, GotoControl
<1>8. owed' \subseteq owed /\ owed' \subseteq Pending'
  BY <1>1 DEF IInv, Delivery, Pending
<1>9. PushedDelivered'
  BY <1>1, <1>2, <1>8 DEF IInv, Delivery, PushedDelivered
<1> QED BY <1>1, <1>3, <1>7, <1>8, <1>9 DEF IInv, Delivery, BootstrapDelivers

\* An import, chunk by chunk and to its end.
LEMMA ImportStep ==
    ASSUME IInv, ApplyPulledChunk \/ EndImport
    PROVE  IInv'
<1>1. /\ UNCHANGED <<rows, acked, faulty, owed, upgrade, upgradeVars>>
      /\ command.at = "import" /\ rows \in Nat
      /\ missing' \in BOOLEAN /\ news' \in BOOLEAN
  BY DEF ApplyPulledChunk, EndImport, journalVars, upgradeVars, IInv, Ledger, Control, Settings
<1>2. CASE ApplyPulledChunk
  <2>1. Mark("healthy", "none", Pending) /\ UNCHANGED command
    BY <1>2 DEF ApplyPulledChunk
  <2>2. Ledger'
    BY <1>1, <2>1, MarkLedger DEF IInv, Lifecycles, Reasons
  <2>3. Control'
    BY <1>1, <2>1, SurroundingsControl DEF IInv, Control, Settings, upgradeVars
  <2> QED BY <1>1, <2>1, <2>2, <2>3, CommandStep
<1>3. CASE EndImport
  <2>1. PICK at \in {"save verified", "check"} :
            /\ command' = [at |-> at, goal |-> command.goal, rows |-> command.rows]
            /\ at = "save verified" <=> command.goal = "bootstrap"
    BY <1>3, CommandParts DEF EndImport, AfterPull, IInv
  <2>2. Ledger'
    BY <1>1, <1>3, SameLedger DEF EndImport, IInv
  <2>3. at \in Places \ {"idle"}
    BY DEF Places
  <2>4. command.goal = "bootstrap" => upgrade # Nothing
    BY DEF IInv, Control, CommandExplained
  <2>5. command.goal \in {"sync", "bootstrap"} /\ command.rows \in SUBSET (1..rows)
    BY CommandParts DEF IInv
  <2>6. UNCHANGED news
    BY <1>3 DEF EndImport
  <2>7. at \in BootstrapOnly => command.goal = "bootstrap"
    BY <2>1 DEF BootstrapOnly
  <2>8. Control'
    BY <1>1, <2>1, <2>3, <2>4, <2>5, <2>6, <2>7, GotoControl
  <2>9. command.goal = "bootstrap" => owed = {}
    BY <1>1 DEF IInv, Delivery, PushedDelivered
  <2> QED BY <1>1, <2>1, <2>2, <2>5, <2>8, <2>9, CommandStep
<1> QED BY <1>2, <1>3

\* The look at the journal is a step of its own.
LEMMA HasPendingMutationsStep ==
    ASSUME IInv, HasPendingMutations
    PROVE  IInv'
<1>1. /\ UNCHANGED <<rows, acked, missing, faulty, owed, statusVars, upgrade, upgradeVars, news>>
      /\ command.at = "check"
  BY DEF HasPendingMutations, journalVars, upgradeVars
<1>2. command' = [at |-> "outcome", goal |-> command.goal, rows |-> Pending]
  <2>1. command \in Commands
    BY DEF IInv, Control
  <2> QED BY <2>1 DEF HasPendingMutations, Commands
<1>3. Ledger'
  BY <1>1, SameLedger DEF IInv, Ledger
<1>4. /\ "outcome" \in Places \ {"idle"} /\ "outcome" \notin BootstrapOnly
      /\ Pending \in SUBSET (1..rows) /\ command.goal \in {"sync", "bootstrap"}
      /\ command.goal = "bootstrap" => upgrade # Nothing
  BY CommandParts DEF Places, BootstrapOnly, Pending, IInv, Control, CommandExplained
<1>5. Control'
  BY <1>1, <1>2, <1>4, GotoControl
<1> QED BY <1>1, <1>2, <1>3, <1>5, CommandStep

\* A command that fails, dies or says how it went, with what it leaves as the status.
LEMMA EndStep ==
    ASSUME IInv, FailCommand \/ Die \/ MarkSyncOutcome
    PROVE  IInv'
<1>1. /\ UNCHANGED <<rows, acked, missing, faulty, owed, upgrade, upgradeVars, news>> /\ End
      /\ missing' \in BOOLEAN /\ Pending \subseteq 1..rows
  BY DEF FailCommand, Die, MarkSyncOutcome, journalVars, upgradeVars, IInv, Ledger, Pending
<1>2. Control'
  BY <1>1, EndControl DEF IInv, Control, Settings, upgradeVars
<1>3. Ledger'
  <2>1. CASE UNCHANGED statusVars
    BY <1>1, <2>1, SameLedger DEF IInv
  <2>2. ASSUME NEW reason \in {"transport_failed", "cloud_config_error", "policy_forbidden"},
               Mark("degraded", reason, {})
        PROVE  Ledger'
    <3>1. "degraded" \in Lifecycles /\ reason \in Reasons
      BY DEF Lifecycles, Reasons, Blocking
    <3> QED BY <1>1, <2>2, <3>1, MarkLedger DEF IInv
  <2>3. ASSUME NEW lifecycle \in {"pending", "healthy"}, NEW rest,
               Mark(lifecycle, "none", rest), lifecycle = "healthy" => rest = Pending
        PROVE  Ledger'
    <3>1. lifecycle \in Lifecycles /\ "none" \in Reasons
      BY DEF Lifecycles, Reasons
    <3> QED BY <1>1, <2>3, <3>1, MarkLedger DEF IInv
  <2>4. CASE MarkSyncOutcome
    <3>1. CASE Mark(IF command.rows # {} \/ news THEN "pending" ELSE "healthy", "none",
                    Pending \ command.rows)
      <4>1. CASE command.rows # {} \/ news
        BY <2>3, <3>1, <4>1
      <4>2. CASE command.rows = {} /\ ~news
        BY <2>3, <3>1, <4>2
      <4> QED BY <4>1, <4>2
    <3>2. CASE Mark("pending", "none", {})
      BY <2>3, <3>2
    <3> QED BY <2>1, <2>4, <3>1, <3>2 DEF MarkSyncOutcome
  <2> QED BY <2>1, <2>2, <2>4 DEF FailCommand, Die
<1> QED BY <1>1, <1>2, <1>3, CommandStep DEF End, Idle

\* Doctor and repair go to save a checkpoint that promises nothing.
LEMMA DoctorStep ==
    ASSUME IInv, Diagnose \/ RepairCloudUpgrade
    PROVE  IInv'
<1>1. UNCHANGED <<owed, upgrade, upgradeVars, news>> /\ Goto("save") /\ command.at = "idle"
  BY DEF Diagnose, RepairCloudUpgrade, Starts, journalVars, upgradeVars
<1>2. Ledger' /\ rows' \in Nat /\ rows <= rows' /\ acked' = acked
  <2>1. CASE UNCHANGED <<rows, acked, missing, faulty, statusVars>>
    <3>1. missing' \in BOOLEAN
      BY <2>1 DEF IInv, Ledger
    <3> QED BY <2>1, <3>1, SameLedger, SameRows DEF IInv
  <2>2. CASE faulty' = {} /\ UNCHANGED <<rows, acked, missing, statusVars>>
    BY <2>2 DEF IInv, Ledger, statusVars, Pending, SeenWhenHealthy, StatusExplained
  <2>3. CASE Backfill
    BY <2>3, BackfillLedger DEF IInv
  <2> QED BY <2>1, <2>2, <2>3 DEF Diagnose, RepairCloudUpgrade, journalVars
<1>3. command' = [at |-> "save", goal |-> "sync", rows |-> {}]
  BY <1>1, CommandParts DEF IInv
<1>4. Settings' /\ Ledger
  BY <1>1 DEF IInv, Control, Settings, upgradeVars
<1>5. "save" \in Places \ {"idle"} /\ "save" \notin BootstrapOnly /\ {} \in SUBSET (1..rows)
  BY DEF Places, BootstrapOnly
<1>6. Control'
  BY <1>2, <1>3, <1>4, <1>5, CommandControl
<1>7. Delivery'
  <2>1. owed' \subseteq Pending'
    BY <1>1, <1>2 DEF IInv, Delivery, Ledger, Pending
  <2> QED BY <1>1, <1>3, <2>1 DEF IInv, Delivery, PushedDelivered, BootstrapDelivers
<1> QED BY <1>2, <1>6, <1>7 DEF IInv

\* A bootstrap begins: the checkpoint is there, in the stage it had.
LEMMA StartBootstrapStep ==
    ASSUME IInv, StartBootstrap
    PROVE  IInv'
<1>1. UNCHANGED <<rows, acked, missing, faulty, owed, statusVars, config, enrolled, news>>
  BY DEF StartBootstrap, journalVars
<1>2. command.at = "idle" /\ config \in Url \cup {Nothing} /\ enrolled \in BOOLEAN
  BY DEF StartBootstrap, Starts, IInv, Control, Settings
<1>3. /\ upgrade' \in Checkpoints /\ upgrade' # Nothing
      /\ upgrade # Nothing => upgrade'.stage = upgrade.stage
      /\ upgrade = Nothing => upgrade'.stage = "planned"
  <2>1. CASE upgrade # Nothing /\ UNCHANGED upgrade
    BY <2>1 DEF IInv, Control, Settings
  <2>2. CASE Save(IF upgrade = Nothing THEN "planned" ELSE upgrade.stage,
                  [config |-> config, enrolled |-> enrolled])
    <3>1. [config |-> config, enrolled |-> enrolled] \in Snapshots
      BY <1>2 DEF Snapshots
    <3>2. CASE upgrade = Nothing
      <4>1. "planned" \in Stages
        BY DEF Stages
      <4> QED BY <2>2, <3>1, <3>2, <4>1, SaveTyped
    <3>3. CASE upgrade # Nothing
      <4>1. upgrade.stage \in Stages
        BY <3>3, CommandParts DEF IInv
      <4> QED BY <2>2, <3>1, <3>3, <4>1, SaveTyped
    <3> QED BY <3>2, <3>3
  <2> QED BY <2>1, <2>2 DEF StartBootstrap
<1>4. \/ command' = command
      \/ command' = [at |-> "read", goal |-> "bootstrap", rows |-> {}]
  <2>1. command = [at |-> "idle", goal |-> "sync", rows |-> {}]
    BY <1>2 DEF IInv, Control, CommandExplained, Idle
  <2> QED BY <2>1 DEF StartBootstrap
<1>5. Ledger' /\ Ledger
  <2>1. missing' \in BOOLEAN
    BY <1>1 DEF IInv, Ledger
  <2> QED BY <1>1, <2>1, SameLedger DEF IInv
<1>6. Settings'
  BY <1>1, <1>3 DEF IInv, Control, Settings
<1>7. rows' \in Nat /\ rows <= rows'
  BY <1>1, SameRows
<1>8. CASE command' = command
  <2>1. End
    BY <1>2, <1>8 DEF IInv, Control, CommandExplained, End
  <2>2. Control'
    BY <1>6, <2>1, EndControl
  <2>3. Delivery'
    BY <1>1, <1>3, <1>8 DEF IInv, Delivery, PushedDelivered, BootstrapDelivers, Pending
  <2> QED BY <1>5, <2>2, <2>3 DEF IInv
<1>9. CASE command' = [at |-> "read", goal |-> "bootstrap", rows |-> {}]
  <2>1. "read" \in Places \ {"idle"} /\ {} \in SUBSET (1..rows)
    BY DEF Places
  <2>2. Control'
    BY <1>3, <1>5, <1>6, <1>7, <1>9, <2>1, CommandControl
  <2>3. Delivery'
    BY <1>1, <1>3, <1>9 DEF IInv, Delivery, PushedDelivered, BootstrapDelivers, Pending
  <2> QED BY <1>5, <2>2, <2>3 DEF IInv
<1> QED BY <1>4, <1>8, <1>9

\* Where a bootstrap goes on: past the push only from a checkpoint that says so.
LEMMA ReadCheckpointStep ==
    ASSUME IInv, ReadCheckpoint
    PROVE  IInv'
<1>1. /\ UNCHANGED <<rows, acked, missing, faulty, owed, statusVars, upgrade, upgradeVars, news>>
      /\ command.at = "read"
  BY DEF ReadCheckpoint, journalVars, upgradeVars
<1>2. command.goal = "bootstrap" /\ upgrade # Nothing
  BY <1>1 DEF IInv, Control, CommandExplained, BootstrapOnly
<1>3. Ledger'
  <2>1. missing' \in BOOLEAN
    BY <1>1 DEF IInv, Ledger
  <2> QED BY <1>1, <2>1, SameLedger DEF IInv
<1>4. CASE End
  <2>1. Control'
    BY <1>1, <1>4, EndControl DEF IInv, Control, Settings, upgradeVars
  <2> QED BY <1>1, <1>3, <1>4, <2>1, CommandStep DEF End, Idle
<1>5. ASSUME NEW at \in {"ensure pushed", "ensure", "enroll"}, Goto(at),
             at = "ensure pushed" => upgrade.stage = "bootstrap_pushed",
             at = "enroll" => upgrade.stage \in {"planned", "rolled_back"}
      PROVE  IInv'
  <2>1. /\ command' = [at |-> at, goal |-> "bootstrap", rows |-> command.rows]
        /\ command.rows \in SUBSET (1..rows)
    BY <1>2, <1>5, CommandParts DEF IInv
  <2>2. at \in Places \ {"idle"}
    BY DEF Places
  <2>3. Control'
    BY <1>1, <1>2, <1>5, <2>1, <2>2, GotoControl
  <2>4. at = "ensure pushed" => owed = {}
    BY <1>2, <1>5 DEF IInv, Delivery, BootstrapDelivers
  <2> QED BY <1>1, <1>3, <2>1, <2>3, <2>4, CommandStep
<1> QED BY <1>4, <1>5 DEF ReadCheckpoint

\* The bootstrap enrolls the project: what is pending then is owed.
LEMMA BootstrapEnrollStep ==
    ASSUME IInv, BootstrapEnroll
    PROVE  IInv'
<1>1. /\ EnrollProject /\ enrolled' = TRUE /\ owed' = 1..rows' \ acked
      /\ UNCHANGED <<config, upgrade, news>> /\ command.at = "enroll"
      /\ Goto("save enrolled")
  BY DEF BootstrapEnroll, EnrollProject
<1>2. Ledger /\ Ledger' /\ rows' \in Nat /\ rows <= rows' /\ acked' = acked
  BY <1>1, BackfillLedger DEF IInv
<1>3. /\ command' = [at |-> "save enrolled", goal |-> "bootstrap", rows |-> command.rows]
      /\ command.rows \in SUBSET (1..rows)
      /\ upgrade # Nothing /\ upgrade.stage \in {"planned", "rolled_back"}
  BY <1>1, CommandParts DEF IInv, Control, CommandExplained, BootstrapOnly
<1>4. Settings'
  BY <1>1 DEF IInv, Control, Settings
<1>5. "save enrolled" \in Places \ {"idle"}
  BY DEF Places
<1>6. Control'
  BY <1>1, <1>2, <1>3, <1>4, <1>5, CommandControl
<1>7. Delivery'
  BY <1>1, <1>2, <1>3 DEF Delivery, PushedDelivered, BootstrapDelivers, Pending
<1> QED BY <1>2, <1>6, <1>7 DEF IInv

\* A project found not enrolled, by a bootstrap that goes on or by a rollback, is
\* enrolled again; that makes nothing owed.
LEMMA EnsureStep ==
    ASSUME IInv, EnsureEnrolled \/ RestoreEnrollment
    PROVE  IInv'
<1>1. UNCHANGED <<config, upgrade, owed, news>> /\ enrolled' \in BOOLEAN
  BY DEF EnsureEnrolled, RestoreEnrollment, EnrollProject
<1>2. Ledger /\ Ledger' /\ rows' \in Nat /\ rows <= rows' /\ acked' = acked
  <2>1. CASE EnrollProject
    BY <2>1, BackfillLedger DEF IInv
  <2>2. CASE UNCHANGED <<rows, acked, missing, faulty, statusVars>>
    <3>1. missing' \in BOOLEAN
      BY <2>2 DEF IInv, Ledger
    <3> QED BY <2>2, <3>1, SameLedger, SameRows DEF IInv
  <2> QED BY <2>1, <2>2 DEF EnsureEnrolled, RestoreEnrollment
<1>3. Settings' /\ command.rows \in SUBSET (1..rows)
  BY <1>1, CommandParts DEF IInv, Control, Settings
<1>4. owed' \subseteq Pending'
  BY <1>1, <1>2 DEF IInv, Delivery, Ledger, Pending
<1>5. ASSUME NEW from \in {"ensure", "ensure pushed"}, NEW at \in {"export", "import"},
             command.at = from, Goto(at), at = "import" => from = "ensure pushed"
      PROVE  IInv'
  <2>1. command.goal = "bootstrap" /\ upgrade # Nothing
    BY <1>5 DEF IInv, Control, CommandExplained, BootstrapOnly
  <2>2. command' = [at |-> at, goal |-> "bootstrap", rows |-> command.rows]
    BY <1>5, <2>1, CommandParts DEF IInv
  <2>3. at \in Places \ {"idle"}
    BY DEF Places
  <2>4. Control'
    BY <1>1, <1>2, <1>3, <2>1, <2>2, <2>3, CommandControl
  <2>5. Delivery'
    BY <1>1, <1>4, <1>5, <2>1, <2>2 DEF IInv, Delivery, PushedDelivered, BootstrapDelivers
  <2> QED BY <1>2, <2>4, <2>5 DEF IInv
<1>6. CASE RestoreEnrollment
  <2>1. command.at = "restore" /\ Goto("save rolled back")
    BY <1>6 DEF RestoreEnrollment
  <2>2. /\ upgrade # Nothing /\ command.goal \in {"sync", "bootstrap"}
        /\ command' = [at |-> "save rolled back", goal |-> command.goal, rows |-> command.rows]
    BY <2>1, CommandParts DEF IInv, Control, CommandExplained
  <2>3. "save rolled back" \in Places \ {"idle"} /\ "save rolled back" \notin BootstrapOnly
    BY DEF Places, BootstrapOnly
  <2>4. Control'
    BY <1>1, <1>2, <1>3, <2>2, <2>3, CommandControl
  <2>5. Delivery'
    BY <1>1, <1>4, <2>2 DEF IInv, Delivery, PushedDelivered, BootstrapDelivers
  <2> QED BY <1>2, <2>4, <2>5 DEF IInv
<1> QED BY <1>5, <1>6 DEF EnsureEnrolled

\* A checkpoint is saved: it says pushed only where nothing is owed.
LEMMA SaveStageStep ==
    ASSUME IInv, SaveStage
    PROVE  IInv'
<1>1. UNCHANGED <<rows, acked, missing, faulty, owed, statusVars, config, enrolled, news>>
  BY DEF SaveStage, journalVars
<1>2. Ledger /\ Ledger' /\ rows' \in Nat /\ rows <= rows'
  <2>1. missing' \in BOOLEAN
    BY <1>1 DEF IInv, Ledger
  <2> QED BY <1>1, <2>1, SameLedger, SameRows DEF IInv
<1>3. Blank \in Snapshots
  BY DEF Blank, Snapshots
<1>4. ASSUME NEW stage \in Stages, Save(stage, Blank)
      PROVE  upgrade' # Nothing /\ upgrade'.stage = stage /\ Settings'
  BY <1>1, <1>3, <1>4, SaveTyped DEF IInv, Control, Settings
<1>5. {"planned", "bootstrap_enrolled", "bootstrap_pushed", "bootstrap_verified"} \subseteq Stages
  BY DEF Stages
<1>6. owed' \subseteq Pending'
  BY <1>1 DEF IInv, Delivery, Pending
<1>7. ASSUME NEW stage \in Stages, Save(stage, Blank), End,
             stage = "planned" \/ (stage = "bootstrap_verified" /\ command.at = "save verified")
      PROVE  IInv'
  <2>1. Control'
    BY <1>4, <1>7, EndControl
  <2>2. stage # "planned" => owed = {}
    BY <1>7 DEF IInv, Delivery, PushedDelivered, Control, CommandExplained, BootstrapOnly
  <2>3. Delivery'
    BY <1>1, <1>4, <1>6, <1>7, <2>2 DEF Delivery, PushedDelivered, BootstrapDelivers, End, Idle
  <2> QED BY <1>2, <2>1, <2>3 DEF IInv
<1>8. ASSUME NEW stage \in Stages, Save(stage, Blank), NEW at \in {"ensure", "import"}, Goto(at),
             \/ stage = "bootstrap_enrolled" /\ at = "ensure" /\ command.at = "save enrolled"
             \/ stage = "bootstrap_pushed" /\ at = "import" /\ command.at = "save pushed"
      PROVE  IInv'
  <2>1. command.goal = "bootstrap"
    BY <1>8 DEF IInv, Control, CommandExplained, BootstrapOnly
  <2>2. /\ command' = [at |-> at, goal |-> "bootstrap", rows |-> command.rows]
        /\ command.rows \in SUBSET (1..rows)
    BY <1>8, <2>1, CommandParts DEF IInv
  <2>3. at \in Places \ {"idle"}
    BY DEF Places
  <2>4. Control'
    BY <1>2, <1>4, <1>8, <2>2, <2>3, CommandControl
  <2>5. at = "import" => owed = {}
    BY <1>8, <2>1 DEF IInv, Delivery, PushedDelivered
  <2>6. Delivery'
    BY <1>1, <1>4, <1>6, <1>8, <2>2, <2>5 DEF Delivery, PushedDelivered, BootstrapDelivers
  <2> QED BY <1>2, <2>4, <2>6 DEF IInv
<1> QED BY <1>5, <1>7, <1>8 DEF SaveStage

\* A rollback sets the file, and at its end a checkpoint that promises nothing.
LEMMA RollbackStep ==
    ASSUME IInv, StartRollback \/ SaveRolledBack
    PROVE  IInv'
<1>1. UNCHANGED <<rows, acked, missing, faulty, owed, statusVars, enrolled, news>>
  BY DEF StartRollback, SaveRolledBack, journalVars
<1>2. Ledger /\ Ledger' /\ rows' \in Nat /\ rows <= rows'
  <2>1. missing' \in BOOLEAN
    BY <1>1 DEF IInv, Ledger
  <2> QED BY <1>1, <2>1, SameLedger, SameRows DEF IInv
<1>3. owed' \subseteq Pending'
  BY <1>1 DEF IInv, Delivery, Pending
<1>4. CASE StartRollback
  <2>1. /\ command.at = "idle" /\ upgrade # Nothing /\ UNCHANGED upgrade
        /\ config' = upgrade.snapshot.config /\ Goto("restore")
    BY <1>4 DEF StartRollback, Starts, CanRollback
  <2>2. Settings' /\ command' = [at |-> "restore", goal |-> "sync", rows |-> {}]
    BY <1>1, <2>1, CommandParts DEF IInv, Control, Settings
  <2>3. /\ "restore" \in Places \ {"idle"} /\ "restore" \notin BootstrapOnly
        /\ {} \in SUBSET (1..rows)
    BY DEF Places, BootstrapOnly
  <2>4. Control'
    BY <1>2, <2>1, <2>2, <2>3, CommandControl
  <2>5. Delivery'
    BY <1>1, <1>3, <2>1, <2>2 DEF IInv, Delivery, PushedDelivered, BootstrapDelivers
  <2> QED BY <1>2, <2>4, <2>5 DEF IInv
<1>5. CASE SaveRolledBack
  <2>1. command.at = "save rolled back" /\ End /\ Save("rolled_back", upgrade.snapshot)
        /\ UNCHANGED config
    BY <1>5 DEF SaveRolledBack
  <2>2. upgrade.snapshot \in Snapshots /\ "rolled_back" \in Stages
    BY <2>1, CommandParts DEF IInv, Control, CommandExplained, Stages
  <2>3. upgrade' \in Checkpoints /\ upgrade'.stage = "rolled_back"
    BY <2>1, <2>2, SaveTyped
  <2>4. Control'
    BY <1>1, <2>1, <2>3, EndControl DEF IInv, Control, Settings
  <2>5. Delivery'
    BY <1>3, <2>1, <2>3 DEF Delivery, PushedDelivered, BootstrapDelivers, End, Idle
  <2> QED BY <1>2, <2>4, <2>5 DEF IInv
<1> QED BY <1>4, <1>5

\* Every step keeps the invariant.
LEMMA NextIInv == IInv /\ [Next]_vars => IInv'
<1> SUFFICES ASSUME IInv, [Next]_vars PROVE IInv'
  OBVIOUS
<1>1. CASE UNCHANGED vars
  <2>1. UNCHANGED <<rows, acked, missing, faulty, owed, statusVars, upgrade, upgradeVars, news,
                   command>>
    BY <1>1 DEF vars, journalVars, upgradeVars
  <2>2. Ledger'
    <3>1. missing' \in BOOLEAN
      BY <2>1 DEF IInv, Ledger
    <3> QED BY <2>1, <3>1, SameLedger DEF IInv
  <2>3. Control'
    BY <2>1, SameRows, SurroundingsControl DEF IInv, Control, Settings, upgradeVars
  <2> QED BY <2>1, <2>2, <2>3, CommandStep
<1>2. CASE SyncCommand
  BY <1>2, StartSyncStep, PushRowsStep, AckRowsStep, ImportStep, HasPendingMutationsStep, EndStep
     DEF SyncCommand
<1>3. CASE UpgradeCommand
  BY <1>3, DoctorStep, StartBootstrapStep, ReadCheckpointStep, BootstrapEnrollStep, EnsureStep,
     SaveStageStep, RollbackStep DEF UpgradeCommand
<1> QED BY <1>1, <1>2, <1>3, SurroundingsStep, EndStep DEF Next

-------------------------------------------------------------------------------
\* The inductive invariant holds in every reachable state.
LEMMA IInvHolds == Spec => []IInv
BY InitIInv, NextIInv, PTL DEF Spec

\* Types: rows owed, unseen and remembered by the running command are rows of the
\* journal, and a checkpoint is one of the stages with a snapshot.
THEOREM TypeCorrect == Spec => []TypeOK
<1>1. IInv => TypeOK
  BY DEF IInv, Ledger, Control, Settings, Commands, Delivery, TypeOK
<1> QED BY <1>1, IInvHolds, PTL

\* No ack, failure, command or upgrade step hides pending rows behind a healthy status.
THEOREM StatusHonest == Spec => []StatusExplained
<1>1. IInv => StatusExplained
  BY DEF IInv, Ledger
<1> QED BY <1>1, IInvHolds, PTL

\* A bootstrap whose checkpoint says pushed has brought the history to the server,
\* whatever failed, was resumed or rolled back half-way, or went on beside it.
THEOREM BootstrapComplete == Spec => []BootstrapDelivers
<1>1. IInv => BootstrapDelivers
  BY DEF IInv, Delivery
<1> QED BY <1>1, IInvHolds, PTL
===============================================================================
