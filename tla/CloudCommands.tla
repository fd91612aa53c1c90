----------------------------- MODULE CloudCommands -----------------------------
(***************************************************************************)
(* The commands a user runs on one project of one machine: `sync --cloud`  *)
(* with the status it leaves in sync_state, and the guided upgrade         *)
(* `cloud upgrade doctor | repair | bootstrap | rollback` with its         *)
(* checkpoints (cmd/aria-core, BootstrapProject and RollbackProject of     *)
(* internal/sync, the upgrade state of internal/store).                    *)
(*                                                                         *)
(* One command runs at a time.  Autosync, writers and other machines work  *)
(* on the same store and project meanwhile, and a command fails or dies    *)
(* between any two of its steps.  A row of the journal is its position;    *)
(* what is in a chunk is in ChunkSync.                                     *)
(***************************************************************************)
EXTENDS Naturals

CONSTANTS
    Url,        \* what cloud.json may hold
    Nothing,    \* no cloud.json, no upgrade state
    MaxRows     \* bound of the model: rows at which nobody appends or imports more

ASSUME RowsAssumption == MaxRows \in Nat /\ Nothing \notin Url

VARIABLES
    config,     \* cloud.json; ARIA_CORE_CLOUD_SERVER is not set
    enrolled,   \* the project is in sync_enrolled_projects
    rows,       \* rows of the project in sync_mutations: 1..rows
    acked,      \* rows with acked_at set
    missing,    \* a record of the project has no row
    faulty,     \* rows an older version wrote with payloads the server refuses
    news,       \* the server has a chunk that is not imported
    sync,       \* sync_state of the project: lifecycle and reason
    upgrade,    \* cloud_upgrade_state: stage and snapshot
    command,    \* the running command: its next step and what it remembers
    unseen,     \* history: pending rows whoever called the project healthy had not
                \*   looked at
    owed        \* history: rows pending when a bootstrap last enrolled the project,
                \*   until the server gets them, or autosync acks them while the
                \*   project is not enrolled

journalVars == <<rows, acked, missing, faulty, owed>>
statusVars == <<sync, unseen>>
upgradeVars == <<config, enrolled, upgrade>>
vars == <<journalVars, statusVars, upgradeVars, news, command>>

Pending == 1..rows \ acked

Lifecycles == {"idle", "pending", "healthy", "degraded"}
\* A refused token has a reason of its own, auth_required, which every reader treats
\* as this cloud_config_error.
Blocking == {"blocked_unenrolled", "policy_forbidden", "cloud_config_error"}
Reasons == Blocking \cup {"none", "transport_failed"}

\* planned stands for doctor_ready, doctor_blocked and repair_applied too: a bootstrap
\* and a rollback take the four alike.
Stages == {"planned", "bootstrap_enrolled", "bootstrap_pushed", "bootstrap_verified",
           "rolled_back"}

\* What a checkpoint saved without one holds.
Blank == [config |-> Nothing, enrolled |-> FALSE]

Snapshots == [config: Url \cup {Nothing}, enrolled: BOOLEAN]
Checkpoints == [stage: Stages, snapshot: Snapshots]

ASSUME NothingAssumption == Nothing \notin Checkpoints

Places == {"idle", "save", "read", "enroll",
           "save enrolled", "ensure", "ensure pushed", "export", "ack", "save pushed", "import",
           "save verified", "restore", "save rolled back", "check", "outcome"}

Idle == [at |-> "idle", goal |-> "sync", rows |-> {}]

TypeOK ==
    /\ config \in Url \cup {Nothing} /\ enrolled \in BOOLEAN
    /\ rows \in Nat /\ acked \subseteq 1..rows
    /\ missing \in BOOLEAN /\ news \in BOOLEAN
    /\ faulty \subseteq 1..rows
    /\ sync \in [lifecycle: Lifecycles, reason: Reasons]
    /\ upgrade \in Checkpoints \cup {Nothing}
    /\ command \in [at: Places, goal: {"sync", "bootstrap"}, rows: SUBSET (1..rows)]
    /\ unseen \subseteq Pending /\ owed \subseteq Pending

\* A project as an older version left it.
Init ==
    /\ config \in Url \cup {Nothing}
    /\ rows \in {0, 1} /\ missing \in BOOLEAN
    /\ faulty \in SUBSET (1..rows)
    /\ enrolled \in (IF missing THEN {FALSE} ELSE BOOLEAN)
    /\ sync = [lifecycle |-> "idle", reason |-> "none"]
    /\ acked = {} /\ unseen = {} /\ owed = {}
    /\ news = FALSE
    /\ upgrade = Nothing
    /\ command = Idle

-------------------------------------------------------------------------------
(* sync_state. *)

Mark(lifecycle, reason, rest) ==
    /\ sync' = [lifecycle |-> lifecycle, reason |-> reason]
    /\ unseen' = IF lifecycle = "healthy" THEN rest ELSE {}

MarkSyncBlocked(reason) == Mark("degraded", reason, {})

\* A row is appended: pending, with the reason of the last failure if there is one.
Enqueue ==
    /\ rows' = rows + 1
    /\ Mark("pending", sync.reason, {})

\* Mutant: the state is not refreshed.
AckWithoutRefresh(S) == acked' = acked \cup S /\ UNCHANGED statusVars

\* AckSyncMutationSeqs and refreshProjectSyncStateTx in one transaction.  A blocked
\* state stays; a transport failure while its back-off lasts.
Ack(S) ==
    /\ acked' = acked \cup S
    /\ \/ sync.lifecycle = "degraded" /\ UNCHANGED statusVars
       \/ /\ ~(sync.lifecycle = "degraded" /\ sync.reason \in Blocking)
          /\ Mark(IF Pending \subseteq S THEN "healthy" ELSE "pending", "none", {})

\* A record without a row gets one.
Backfill ==
    /\ IF missing THEN Enqueue ELSE UNCHANGED <<rows, statusVars>>
    /\ missing' = FALSE
    /\ UNCHANGED <<acked, faulty>>

EnrollProject ==
    /\ enrolled' = TRUE
    /\ IF enrolled THEN UNCHANGED <<rows, acked, missing, faulty, statusVars>> ELSE Backfill

-------------------------------------------------------------------------------
(* The surroundings. *)

Write ==
    /\ rows < MaxRows
    /\ Enqueue
    /\ UNCHANGED <<acked, missing, faulty, owed, upgradeVars, news, command>>

\* A push of autosync: rows of a project that is not enrolled are acked in silence.
Autosync ==
    /\ \/ /\ enrolled
          /\ \E last \in Pending : Ack({i \in Pending : i <= last})
       \/ /\ ~enrolled /\ Pending # {}
          /\ acked' = 1..rows
          /\ UNCHANGED sync /\ unseen' = {}
    /\ owed' = owed \ acked'
    /\ UNCHANGED <<rows, missing, faulty, upgradeVars, news, command>>

\* Another machine pushes a chunk.
Publish == ~news /\ news' = TRUE /\ UNCHANGED <<journalVars, statusVars, upgradeVars, command>>

\* `cloud config --server` and `cloud enroll`.
CloudConfig(u) ==
    /\ config' = u
    /\ UNCHANGED <<journalVars, statusVars, enrolled, upgrade, news, command>>

CloudEnroll ==
    /\ EnrollProject
    /\ UNCHANGED <<config, upgrade, owed, news, command>>

\* Whoever opens the store completes the journals of enrolled projects.
RepairEnrolled ==
    /\ enrolled /\ missing
    /\ Backfill
    /\ UNCHANGED <<upgradeVars, owed, news, command>>

-------------------------------------------------------------------------------
(* sync --cloud. *)

Goto(at) == command' = [command EXCEPT !.at = at]
End == command' = Idle

\* It has opened the store.
Starts == command.at = "idle" /\ ~(enrolled /\ missing)

\* preflightCloudSync, and then Export or Import.
StartSync ==
    /\ Starts
    /\ \/ config = Nothing /\ MarkSyncBlocked("cloud_config_error") /\ UNCHANGED command
       \/ /\ config # Nothing /\ ~enrolled
          /\ MarkSyncBlocked("blocked_unenrolled") /\ UNCHANGED command
       \/ /\ config # Nothing /\ enrolled
          /\ \E at \in {"export", "import"} : Goto(at)
          /\ UNCHANGED statusVars
    /\ UNCHANGED <<journalVars, upgradeVars, news>>

AfterPush == IF command.goal = "bootstrap" THEN "save pushed" ELSE "check"
AfterPull == IF command.goal = "bootstrap" THEN "save verified" ELSE "check"

Refused == faulty \cap Pending # {}

\* The chunk of the pending rows reaches the server, which takes no faulty one; the
\* answer gets back, or FailCommand ends the command.
PushRows ==
    /\ command.at = "export"
    /\ ~Refused
    /\ owed' = owed \ Pending
    /\ command' = [command EXCEPT !.at = IF Pending = {} THEN AfterPush ELSE "ack",
                                  !.rows = Pending]
    /\ UNCHANGED <<rows, acked, missing, faulty, statusVars, upgradeVars, news>>

AckRows ==
    /\ command.at = "ack"
    /\ Ack(command.rows)
    /\ owed' = owed \ command.rows
    /\ command' = [command EXCEPT !.at = AfterPush, !.rows = {}]
    /\ UNCHANGED <<rows, missing, faulty, upgradeVars, news>>

\* Every chunk applied calls the project healthy, whatever is pending, and may bring
\* records that have no row here.
ApplyPulledChunk ==
    /\ command.at = "import" /\ news
    /\ news' \in BOOLEAN
    /\ Mark("healthy", "none", Pending)
    /\ missing' \in {missing, missing \/ rows < MaxRows}
    /\ UNCHANGED <<rows, acked, faulty, owed, upgradeVars, command>>

EndImport ==
    /\ command.at = "import" /\ ~news
    /\ Goto(AfterPull)
    /\ UNCHANGED <<journalVars, statusVars, upgradeVars, news>>

\* Any call before the checkpoint fails, also while the server takes the chunk after
\* all: `sync` reports it.  Or the process dies.
FailCommand ==
    /\ command.at \notin {"idle", "check", "outcome"}
    /\ \/ /\ command.at \in {"export", "ack", "import"} /\ command.goal = "sync"
          /\ \E reason \in {"transport_failed", "cloud_config_error", "policy_forbidden"} :
                Mark("degraded", reason, {})
       \/ UNCHANGED statusVars
    /\ End
    /\ UNCHANGED <<journalVars, upgradeVars, news>>

Die ==
    /\ command.at # "idle"
    /\ End
    /\ UNCHANGED <<journalVars, statusVars, upgradeVars, news>>

-------------------------------------------------------------------------------
(* markCloudSyncOutcome asks the journal ...                                       *)

HasPendingMutations ==
    /\ command.at = "check"
    /\ command' = [command EXCEPT !.at = "outcome", !.rows = Pending]
    /\ UNCHANGED <<journalVars, statusVars, upgradeVars, news>>

\* Mutant: pending or not, the command went well.
MarkOutcomeUnchecked ==
    /\ command.at = "outcome"
    /\ Mark(IF news THEN "pending" ELSE "healthy", "none", Pending \ command.rows)
    /\ End
    /\ UNCHANGED <<journalVars, upgradeVars, news>>

\* ... and then the server, and writes what it has seen.  Without an answer of the
\* server a state is left as it is, unless rows are pending.
MarkSyncOutcome ==
    /\ command.at = "outcome"
    /\ \/ Mark(IF command.rows # {} \/ news THEN "pending" ELSE "healthy", "none",
               Pending \ command.rows)
       \/ command.rows # {} /\ Mark("pending", "none", {})
       \/ command.rows = {} /\ UNCHANGED statusVars
    /\ End
    /\ UNCHANGED <<journalVars, upgradeVars, news>>

-------------------------------------------------------------------------------
(* The upgrade.  SaveCloudUpgradeState replaces the checkpoint, snapshot and all.  *)

Save(stage, snapshot) ==
    upgrade' = [stage |-> stage, snapshot |-> snapshot]

\* doctor, ready or blocked.
Diagnose ==
    /\ Starts
    /\ Goto("save")
    /\ UNCHANGED <<journalVars, statusVars, upgradeVars, news>>

\* repair --apply, when there is something to repair and nothing is in the way: payloads
\* the store can complete, or else rows that are missing, which autosync can have pulled
\* since the command opened the store.
RepairCloudUpgrade ==
    /\ command.at = "idle"
    /\ enrolled
    /\ sync.reason \notin {"policy_forbidden", "cloud_config_error"}
    /\ IF Refused THEN faulty' = {} /\ UNCHANGED <<rows, acked, missing, statusVars>>
       ELSE missing /\ Backfill
    /\ Goto("save")
    /\ UNCHANGED <<upgradeVars, owed, news>>

\* captureUpgradeSnapshotBeforeBootstrap, unless a snapshot is there, and then the
\* look at the payloads.
StartBootstrap ==
    /\ Starts
    /\ config # Nothing
    /\ IF upgrade # Nothing /\ upgrade.snapshot # Blank THEN UNCHANGED upgrade
       ELSE Save(IF upgrade = Nothing THEN "planned" ELSE upgrade.stage,
                 [config |-> config, enrolled |-> enrolled])
    /\ command' = IF Refused THEN command
                  ELSE [command EXCEPT !.at = "read", !.goal = "bootstrap"]
    /\ UNCHANGED <<journalVars, statusVars, config, enrolled, news>>

\* Mutant: the order of the stages is off by one.
ReadEnrolledAsPushed ==
    /\ command.at = "read"
    /\ \/ upgrade.stage = "bootstrap_verified" /\ End
       \/ upgrade.stage \in {"bootstrap_enrolled", "bootstrap_pushed"} /\ Goto("ensure pushed")
       \/ upgrade.stage \in {"planned", "rolled_back"} /\ Goto("enroll")
    /\ UNCHANGED <<journalVars, statusVars, upgradeVars, news>>

\* BootstrapProject goes on from the checkpoint.
ReadCheckpoint ==
    /\ command.at = "read"
    /\ \/ upgrade.stage = "bootstrap_verified" /\ End
       \/ upgrade.stage = "bootstrap_pushed" /\ Goto("ensure pushed")
       \/ upgrade.stage = "bootstrap_enrolled" /\ Goto("ensure")
       \/ upgrade.stage \in {"planned", "rolled_back"} /\ Goto("enroll")
    /\ UNCHANGED <<journalVars, statusVars, upgradeVars, news>>

BootstrapEnroll ==
    /\ command.at = "enroll"
    /\ EnrollProject
    /\ owed' = 1..rows' \ acked
    /\ Goto("save enrolled")
    /\ UNCHANGED <<config, upgrade, news>>

EnsureEnrolled ==
    /\ EnrollProject
    /\ \/ command.at = "ensure" /\ Goto("export")
       \/ command.at = "ensure pushed" /\ Goto("import")
    /\ UNCHANGED <<config, upgrade, owed, news>>

\* Each save keeps nothing of the checkpoint before it.
SaveStage ==
    /\ \/ command.at = "save" /\ Save("planned", Blank) /\ End
       \/ command.at = "save enrolled" /\ Save("bootstrap_enrolled", Blank) /\ Goto("ensure")
       \/ command.at = "save pushed" /\ Save("bootstrap_pushed", Blank) /\ Goto("import")
       \/ command.at = "save verified" /\ Save("bootstrap_verified", Blank) /\ End
    /\ UNCHANGED <<journalVars, statusVars, config, enrolled, news>>

-------------------------------------------------------------------------------
(* Rollback: the file first, then the enrollment, then the stage.                  *)

CanRollback == upgrade # Nothing /\ upgrade.stage # "bootstrap_verified"

StartRollback ==
    /\ Starts
    /\ CanRollback
    /\ config' = upgrade.snapshot.config
    /\ Goto("restore")
    /\ UNCHANGED <<journalVars, statusVars, enrolled, upgrade, news>>

RestoreEnrollment ==
    /\ command.at = "restore"
    /\ IF upgrade.snapshot.enrolled THEN EnrollProject
       ELSE enrolled' = FALSE /\ UNCHANGED <<rows, acked, missing, faulty, statusVars>>
    /\ Goto("save rolled back")
    /\ UNCHANGED <<config, upgrade, owed, news>>

SaveRolledBack ==
    /\ command.at = "save rolled back"
    /\ Save("rolled_back", upgrade.snapshot)
    /\ End
    /\ UNCHANGED <<journalVars, statusVars, config, enrolled, news>>

-------------------------------------------------------------------------------
SyncCommand ==
    \/ StartSync \/ PushRows \/ AckRows \/ ApplyPulledChunk \/ EndImport
    \/ HasPendingMutations \/ MarkSyncOutcome

UpgradeCommand ==
    \/ Diagnose \/ RepairCloudUpgrade
    \/ StartBootstrap \/ ReadCheckpoint \/ BootstrapEnroll \/ EnsureEnrolled
    \/ SaveStage
    \/ StartRollback \/ RestoreEnrollment \/ SaveRolledBack

Next ==
    \/ Write \/ Autosync \/ Publish \/ CloudEnroll \/ RepairEnrolled
    \/ \E u \in Url : CloudConfig(u)
    \/ SyncCommand \/ UpgradeCommand
    \/ FailCommand \/ Die

Spec == Init /\ [][Next]_vars

-------------------------------------------------------------------------------
(* Safety. *)

\* The project is called healthy while rows are pending only if they were written
\* between the look at the journal and the mark, or an import has called it healthy
\* since: no ack, failure, other command or upgrade step hides pending rows.
StatusExplained == sync.lifecycle = "healthy" => Pending \subseteq unseen

\* A bootstrap whose checkpoint says pushed has brought the history of the project to
\* the server, whatever failed, was resumed, rolled back half-way or went on beside
\* it: all rows pending when it enrolled the project, unless autosync acked them while
\* the project was not enrolled.
BootstrapDelivers ==
    upgrade # Nothing /\ upgrade.stage \in {"bootstrap_pushed", "bootstrap_verified"} =>
        owed = {}

\* While a rollback of a bootstrap is allowed, the checkpoint holds the local settings
\* from before it, which name a server: a bootstrap does not start without one
\* (DOCS.md:215).
SnapshotHeld ==
    upgrade # Nothing /\ upgrade.stage \in {"bootstrap_enrolled", "bootstrap_pushed"} =>
        upgrade.snapshot.config # Nothing
===============================================================================
