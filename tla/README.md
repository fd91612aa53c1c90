# Verification of aria-core's cloud replication

aria-core keeps developer memories (sessions, observations, prompts) in a local
SQLite store and replicates the projects a user enrolls through a cloud server.
Local writes never wait for the cloud: every write appends a row to an outbox, a
background manager pushes the outbox and pulls what others wrote, and the server
keeps one append-only log. Beside it, `sync --cloud` exports the same outbox as
chunks, and a guided upgrade brings a project to the cloud for the first time. This
directory models that machinery in TLA+, model-checks it with TLC and proves its
most important invariants with TLAPS.

## 1. Inventory

| Component | Code | State | Operations | What is hard |
|---|---|---|---|---|
| Autosync manager | `internal/cloud/autosync/manager.go` | phase, failure count, back-off, `disabled`, context | `Run`, `cycle`, `push`, `pull`, `StopForUpgrade`, `ResumeAfterUpgrade`, `Stop` | several processes on one store, panics (also while a failure is being counted), crashes, a delay that outgrows its type, a status that other goroutines rewrite in mid-cycle |
| Sync lease | `internal/store/store.go` 3330-3376 | `lease_owner`, `lease_until` | acquire, release | expiry, owners that never return |
| Local store | `internal/store/store.go` | record tables, tombstones, `sync_enrolled_projects`, `sync_mutations` | writes, deletes, enroll, migrate, merge, prune, repair, apply pulled | the journal has to be complete although records move and enrollment changes; acks race with everything |
| Cloud mutation log | `internal/cloud/cloudserver/mutations.go`, `internal/cloud/cloudstore` | `cloud_mutations`, `cloud_project_controls` | push handler, batch insert, list since, pause | concurrent transactions over one sequence, checks outside the transaction |
| Transport | `internal/cloud/remote/transport.go` | none | push, pull of mutations and chunks with a 30 s timeout | lost and late answers |
| Chunk sync | `internal/sync/sync.go` 335-1219 | `sync_chunks` | export, import | second client of the outbox; push, record and ack are three steps; data is read before the rows it goes with; chunks refer to sessions in other chunks, which an importer may have removed; a chunk is known by 8 hex digits of its hash |
| Cloud upgrade | `cmd/aria-core/cloud.go` 384-708, `internal/sync/sync.go` 148-330, `internal/store/store.go` 906-1138 | `cloud_upgrade_state` with its snapshot, `cloud.json`, enrollment | doctor, repair, bootstrap, rollback | resuming after any failure; what one step saves another has to find |
| Chunk store, read model | `internal/cloud/cloudserver/cloudserver.go` 1105-1420, `internal/cloud/cloudstore` | `cloud_chunks`, `cloud_project_sessions`, cached dashboard model | push handler, write chunk, index, manifest, load, invalidate | statements without a transaction; a check against an index that lags; a manifest ordered by when a statement began; a cache filled while it is invalidated |
| CLI sync status | `cmd/aria-core/main.go` 446-516, 1241-1440 | the project's row of `sync_state` | preflight, mark healthy/pending/blocked/failed | status written apart from what it describes, by five writers |
| HTTP and MCP servers, TUI | `internal/server`, `internal/mcp`, `internal/tui` | none of their own | calls into the store | |
| Recipes, pages, team projects, vault, quotes, knowledge base, e-mail, auth, dashboard | `internal/cloud/*` | their own tables | CRUD | mostly single statements |

How they interact: `serve` starts one manager per process; the managers of all
processes on one machine meet in the SQLite store (the lease and the journal);
the manager calls the transport, the transport calls the push and pull handlers
of the server, and machines meet only in the server's log. Users, the CLI and
MCP tools call the store at any moment, between any two steps of a cycle. An
administrator pauses projects on the server at any moment. `sync --cloud` and
`cloud upgrade` run in processes of their own on the same store: they read and ack
the same journal as autosync, and push to and import from the chunk store of the
server, which the dashboard reads through a cache.

What makes each part correct:

- manager: one worker at a time while leases are unexpired; no cycle in a
  back-off; a status that can be believed; work continues after crashes; shutdown
  ends.
- store: what lives in an enrolled project is journalled; what is journalled for
  it is not acked before the server has it; sessions reach the server before
  their observations.
- log: a pause holds; a batch is seen whole or not at all.
- chunk store: chunks appear whole, once and for good, one of an id, after the sessions
  they need; a chunk whose write met no reader at work on an older model stays on the
  dashboard.
- chunk sync: rows are acked only when a stored chunk or autosync has delivered them,
  or when their chunk is taken for another of its id; an importer that keeps its
  sessions can apply the chunks in the order of the manifest.
- upgrade and status: a checkpoint that says pushed is true; a rollback restores what
  it found; healthy means that nothing is pending.
- all together: no write is lost; a machine's changes to a project come into the log
  in the order it made them; what a machine skips is only what was not readable yet;
  machines that are done agree, but for a field emptied on one of them.

## 2. Modules

```
Autosync ------- MCAutosync, Autosync_proofs
SyncJournal ---- MCSyncJournal, SyncJournal_proofs       implements  Outbox
MutationLog ---- MCMutationLog, MutationLog_proofs       implements  BatchLog
   ^
   | EXTENDS
Replication ---- MCReplication, Replication_proofs       implements  BatchLog, Outbox

Manifest (extended by ChunkStore and ChunkLog)
ChunkStore ----- MCChunkStore, ChunkStore_proofs         implements  ChunkLog
ChunkLog (the server's promise)
   ^
   | EXTENDS
ChunkSync ------ MCChunkSync, ChunkSync_proofs           implements  ChunkLog
CloudCommands -- MCCloudCommands, CloudCommands_proofs
```

`Positions` is for the proofs: what they need to know of sets of positions in a
journal or a log (the first, the last, the oldest few). `Manifest` is the order of the
chunks of a project, which the store makes and everybody else reads.

`Outbox`, `BatchLog` and `ChunkLog` are abstract: they say what the journal, the
server's log and the chunk store promise to others, without pushers, handlers,
statements and indexes. Each detailed module ends with an `INSTANCE ... WITH` that
maps its state, and a run checks the abstract specification as a property; a theorem
states it for every instance (section 4).

### Autosync

One `Proc` is a `serve` process with its manager. `loop[p]` is the place of the
`Run` goroutine: in its `select`, between the checks of `cycle` and the lease
(`acquire`), inside `push` or `pull`, or `marking` the outcome in the store, after it
has been published and counted. `CheckCycle` is the snapshot test at the
head of `cycle`; it is a step of its own because `StopForUpgrade` and `Cancel`
may come between it and `AcquireSyncLease`. Each outcome of a cycle is an action:
`CycleFails`, `CycleSucceeds`, `CyclePanics`, `MissLease`, `CancelledPush` (the
context is cancelled after the test, and `push` returns its error, which counts as
a failure). `FinishMark` ends the marking. A panic there is counted by `safeRun` a
second time, so the count reaches one more than the ceiling. `Jam` is the other way a
back-off can end: where `base * 2^(failures-1)` no longer fits a `time.Duration`, the
result of the conversion is up to the platform and is modelled as both of its outcomes, the largest
value (cut to `MaxBackoff`) and the smallest, whose half makes `rand.Int63n` panic with
the manager's mutex held, which whatever recovers locks again: the loop is `stuck`.
`Crash` leaves the lease to `Gone`, an owner nobody is any more (`DefaultConfig` makes
every owner identity unique by time), and so may `Exit`, since `releaseLease` ignores
an error. Signals in the dirty channel are not kept: the debounce timer or the poll
ticker may fire at any time (`TimerFires`).

Time is what remains: of the lease, and of each back-off. `Tick` takes one unit
from all of them, so that no clock needs a bound. `leased[p]` is history: the time
left of the lease p last took, whoever holds the row now.

### SyncJournal

One machine. Every store call is one SQLite transaction and one action; `push` of
the manager is four calls and hence four actions, between which everything else
may happen. A journal row is the entity, `upsert` or `delete`, and the project it
is filed under; `acked` are the rows with `acked_at`. Pushers are under the lease
one at a time, but a cycle longer than its lease leaves two, so `Worker` has two
elements in the push run. A start begins with a store older than the journal (the
tables have rows, the journal has none), since that is what the backfill is for.

History variables: `sent` (what the server accepted), `promised` (rows whose
project is enrolled and was, without a break, since the row was written or the
project was last enrolled), `arrived` (records a pull or import brought after the
journal of their project was last completed: they need no local row).

Left out: payload columns, times, full-text indexes, the per-project rows of
`sync_state`, and foreign keys as guards (the pragma is set on one pooled
connection only, so a transaction may run without it; one that it refuses changes
nothing).

### MutationLog

`handler[r]` is the goroutine of a push request: it looks up the pause of each
entry in a query of its own, then inserts row by row in one transaction, commits
and answers. The database is modelled from how the code uses it: `INSERT` draws
the next `seq` for good, the row becomes visible with the commit, a rollback
leaves a gap. Mingled transactions are the point: `rows` of two requests alternate
and commit in either order. A commit may succeed while its caller sees an error.
Each row remembers its place in its batch and the first row of its transaction
(history, for `BatchWhole`); `held` is history too: the projects paused ever since
the request came.

### Replication

Extends MutationLog with machines. A machine writes (the value and the outbox row
in one transaction), and runs cycles: list a batch, push it project by project,
hear each answer or not, ack, pull pages and apply them row by row, each together
with the cursor. `Abort` ends a cycle anywhere: a failure, a timeout, a crash. The
request it leaves behind goes on at the server, and may commit much later. `journal`
and `acked` of a machine are its outbox; `job` is its cycle, with the listed rows still
to push (`batch`) and the rows of a page still to apply (`page`). `Outbox(d)` maps them
to the abstract outbox of machine d.

A record is its fields, and `value` is, per field, the change that set it last. A
change sets some fields where it is made (`Sets`) and others where its journal row is
applied (`Carries`); a set that leaves a field alone is the `COALESCE` of
`applySessionPayloadTx`, so `EndSession` with an empty summary sets the summary where
it runs and carries none, and `CreateSession` on a session that exists carries a
project it does not set. Left out, and said so in the module's header: prompts, whose
tombstones may refuse an old upsert, and the project a record is filed under. The run
has one project; batches of several are checked in SyncJournal.

### ChunkStore and ChunkLog

`request[r]` is the goroutine of `handlePushChunk`, one action per statement it
sends: the session references are checked against the index (`Validate`), an equal
chunk is looked up, the row is inserted (`Insert`, where the same chunk may have been
inserted since, or the row is there and the handler is told otherwise), its sessions
are indexed one by one, the read model is dropped. There is no transaction around
them, and `Restart` may come anywhere: it empties what is in memory and completes
the index, as `New` does. A dashboard reader that finds no read model
(`MissReadModel`) reads the rows in a later step (`ReadChunkRows`) and publishes what it
built in a third (`PublishReadModel`). A reader whose query fails gives up without a
trace and is left out.

The manifest is ordered by `created_at`, which is when the INSERT began. `BeginInsert`
notes the chunks that are there (`after`); `Insert` commits, and puts the chunk
anywhere behind those. Two INSERTs under way at once thus come into the manifest in
either order, whichever commits first, and a chunk may come in before one that was
listed already. That is why `stored` is no sequence but a function from each chunk to
those before it (`Manifest`: `IsManifest`, `Beginnings`, `Placed`). Assumed: the
clock of the database is not set back, and no two rows have the same microsecond. The
id of a chunk is 8 hex digits of its hash; `IdOf` is a constant, so that different
chunks may have the same: `LookUp` and `Insert` refuse the second (`ErrChunkConflict`).

`ChunkLog` keeps the manifest and the answers only: a chunk is accepted when every
session it needs came with it or is in an earlier chunk; it is confirmed when it is
in the manifest; a refused chunk may be there too; no two have the same id. Where a
chunk comes in is promised only as far as its sessions go: behind the chunks that
brought those it needs. That the index may lag behind the
chunks, and is completed by a restart, is what the refinement is about: a chunk is
never accepted on the strength of a session no stored chunk has.

### ChunkSync

Machines over `ChunkLog`. `Export` is four steps: `ReadForExport` reads the manifest,
the chunks recorded here and the records; `ListAndPush` lists the pending rows and
builds the chunk out of both reads (`ChunkOf`: rows and, from the data read before,
what they are about with the sessions of that); then `RecordSyncedChunk` and
`AckSyncMutationSeqs`, also when the chunk is found to exist. `exists` and the
recorded chunks are compared by id (`IdOf`), as in the code, so a chunk may be taken for
another one. Writers and autosync
work on the journal between any two. `StartImport` lists the chunks not recorded yet
(`todo`); in the order of the manifest (`IsNext`) each is applied in
one transaction or put among the `deferred`, and passes over these go on until one
makes no progress. `EndEarly` is any failure, a lost answer or the death of the process. A
record is live, a tombstone, or absent; the payload is left out, and prompts, which
go the way of observations. `RemoveSession` takes a session away without a journal
row: `PruneProject`, or `DeleteSession` between leaving and entering the enrollment. Its
guard, no observation or tombstone of that session, is what the foreign keys enforce;
assumed is that it runs on the pooled connection that has the pragma
(`store.go:510`). `removed` is history. What autosync brings from other machines is in
Replication: the importer of this module gets chunks only, the harder case for
`ImportNeverStalls`.

### CloudCommands

One project of one machine. `command` is the process of a `sync --cloud` or
`cloud upgrade` command and the place it has reached; every store call, server call
and checkpoint is a step, and `FailCommand` and `Die` end it anywhere. `sync` is the
project's row of `sync_state`; whoever writes it goes through `Mark`: the journal
(`Enqueue`), acks (`Ack`, with the rule that a blocked state stays), imported chunks,
failures and the outcome of a command, which asks the journal in one step and writes
in a later one. `upgrade` is the checkpoint; `Save` replaces it with the snapshot it
is given, `Blank` where the code gives none. `faulty` are rows of an older version
that the chunk endpoint refuses until `repair`; the mutation endpoint looks at no
payload. History: `unseen` (pending rows whoever called the project healthy had not
looked at) and `owed` (rows pending when a bootstrap enrolled the project).

Left out: a server named by `ARIA_CORE_CLOUD_SERVER`, two commands at a time,
`auth_required` (a reason every reader treats as `cloud_config_error`), and what the
doctor reports.

## 3. Runs

| Run | Instance | Shows |
|---|---|---|
| `autosync` | 2 processes, ceiling 2, lease 2, back-off 2..3, largest Duration 7, which the delay after a panic counted twice exceeds | `TypeOK`, `MutualExclusion`, `CycleAllowed`, `StatusHonest`, `LeaseNotStolen` hold |
| `autosync_live` | 2 processes, all limits 1, fairness | `WorkGoesOn`, `ShutdownCompletes` hold |
| `journal` | 1 session, 1 observation, 1 prompt, 2 projects, 3 rows; no pusher, as coverage asks for rows and not for acks | `JournalCoverage` holds |
| `journal_push` | 1 session, 2 projects, 2 pushers, 3 rows | `TypeOK`, `PromiseKept`, `NoGaps` hold; implements `Outbox` (`ActsAsOutbox`) |
| `journal_enroll` | 1 session, 1 project | skip-acked history is never replicated (finding) |
| `mutation_log` | 2 requests, 2 projects, batches 0..3, 3 rows | `LogTypeOK`, `PauseHolds`, `BatchWhole` hold; implements `BatchLog` (`ActsAsBatchLog`) |
| `replication` | 2 machines, 2 requests, 3 rows; a session ended with a summary and ended again without one, which carries only one of the two fields | `DeviceTypeOK`, `NothingLost`, `SkipsExplained`, `AuthorOrder`, `Agreement` hold; the outbox of each machine implements `Outbox` (`ActsAsOutboxes`) |
| `late_commit` | 2 machines, 2 changes | a row is skipped for ever (finding) |
| `chunk_store` | 3 chunks (one brings two sessions, one needs one of them, one needs and brings the other; the last two have the same id), 2 requests, 2 readers | `StoreTypeOK`, `DashboardSettled` hold; implements `ChunkLog` (`ActsAsChunkLog`) |
| `chunk_sync` | an author, an importer, 1 session, 1 observation, 1 request, 3 rows, or 2 with a session removed on the importer, 2 chunks; the chunk of the first row and the chunk of the second have the same id | `ChunkTypeOK`, `ImportNeverStalls`, `WritesKept` hold |
| `cloud_commands` | 1 server, 3 rows | `TypeOK`, `StatusExplained`, `BootstrapDelivers` hold |
| `upgrade_rollback` | as `cloud_commands`, 1 row | the rollback snapshot is lost (finding) |

Every property of a passing run has a mutant of the code that breaks it, named
next to the definition it replaces.

Bounds, and why they are enough:

- `MaxRows` (journal and log) is a guard on appending. Three rows are two changes
  and a retry, or two transactions that mingle with a third row between; in the
  journal, an earlier and a later row of one project and one of another.
- two processes, pushers, requests, machines: the properties relate pairs (two
  holders, two transactions, author and reader), and the proofs remove the bound
  where there is one.
- the ceiling of 2 and leases of 2 units let a failure be followed by a success,
  and a lease be half used when another process looks at it. In the liveness run
  all limits are 1; the liveness graph of larger ones is too large, and a longer
  lease or delay only adds `Tick`s, which are fair.
- `BatchLimit + 1` entries and the empty batch are there because the handler
  refuses both.
- three rows and two chunks are a session, an observation and one change more, with
  the session in an earlier chunk than what needs it, or deleted in between; a
  session removed takes the place of one of the rows (`RoomForRow`, `RoomForRemoval`):
  write, export, import, remove and write again still fit. In the run sessions are
  removed on the importer; the theorems have removals on every machine. One
  request slot suffices in `chunk_sync`, as `chunk_store` has the races of two.
- `MaxRows` of `cloud_commands` lets a row be there before, arrive during and after
  every step of a command; imports that bring records stop at the same bound.
- the view of `replication` leaves out the history `held` of a
  request, which no guard, no property and no other variable of that run reads.
- symmetry is used in safety runs only, over sets whose elements no definition
  tells apart.

Deadlock is checked in every run: the system can always take a step.

Fairness (`Autosync!FairSpec`): time passes; the poll ticker fires for a loop in
its `select`, and what follows is done (`Advance`): a cycle ends, because every
request has a timeout of 30 s; a cancelled loop sees `Done`; and `SF(BeginPush)`, since a worker that finds the
lease free again and again gets through: the only other outcome is a busy
database, which SQLite's busy timeout makes transient. No call is assumed to
succeed. `WorkGoesOn` asks only for processes that stay able (neither disabled nor
cancelled nor at the ceiling nor stuck), and `ShutdownCompletes` excepts the stuck.

## 4. Proofs

| Theorem | Property | Argument |
|---|---|---|
| `Autosync_proofs!TypeCorrect` | `TypeOK` | inductive with `CycleAllowed`, which keeps the count below the ceiling when a cycle fails, so it passes the ceiling by one at most: a panic while the failure is marked is the last thing counted; the delay stays within `MaxBackoff` also where the product does not fit a Duration |
| `Autosync_proofs!LeaseExclusive` | `MutualExclusion` | invariant `LeaseOwned`: a worker whose lease is unexpired owns the lease row, with exactly that time left |
| `Autosync_proofs!LeaseSafe` | `LeaseNotStolen` | from the guard of acquire and release, per action |
| `Autosync_proofs!CyclesAllowed`, `StatusIsHonest` | `CycleAllowed`, `StatusHonest` | a step inside a cycle that raises the count leaves the cycle |
| `SyncJournal_proofs!TypeCorrect` | `TypeOK` | per action; the groups of a batch are subsets of the journal |
| `SyncJournal_proofs!NothingLost` | `PromiseKept` | `PromisedEnrolled`: a promised row's project is enrolled, so skip-ack spares it; `AckSent`: a pusher about to ack has sent its group |
| `SyncJournal_proofs!Covered` | `JournalCoverage` | inductive with the types: what a write, a move or an enrollment leaves uncovered, the same transaction appends |
| `SyncJournal_proofs!Ordered` | `NoGaps` | `OrderInv`: a pusher has in hand, group by group, rows closed downwards among those owed (`GroupsClosed`), because a batch is the oldest rows that were pending when it was listed (`Positions!OldestClosed`) |
| `SyncJournal_proofs!Outboxed` | `ActsAsOutbox` | step simulation: a row promised, sent or acked there is one here |
| `MutationLog_proofs!LogTypeCorrect` | `LogTypeOK` | per action |
| `MutationLog_proofs!PauseEnforced` | `PauseHolds` | `LookedUp`: what was looked up was not paused all along; `held` only shrinks |
| `MutationLog_proofs!BatchesAtomic` | `BatchWhole` | `TxApart`: open transactions have different first rows; `TxOpen`: their rows are complete up to the last one inserted, and invisible |
| `MutationLog_proofs!BatchesLogged` | `ActsAsBatchLog` | step simulation; a commit publishes the rows of its transaction, which hold the batch in its order (`TxOrdered`) |
| `Replication_proofs!DeviceTypeCorrect` | `DeviceTypeOK` | per action, over the invariant of the log |
| `Replication_proofs!WritesSafe` | `NothingLost` | `Delivered`: an acked row is committed; `Waiting`: the request a cycle waits for carries its group, or has committed it when it says accepted |
| `Replication_proofs!SkipsAreHidden` | `SkipsExplained` | `Paging`: a page holds the oldest readable rows beyond the cursor, and what lies between was received or noted as hidden when the page was read |
| `Replication_proofs!ChangesInOrder` | `AuthorOrder` | `OrderIInv`, over the invariant of the others: a batch is closed downwards within each project, but for what is in the log (`BatchClosed`); a request in flight has the earlier changes further up or committed before its first row (`Preceded`); a change has one row in one journal (`Once`) |
| `Replication_proofs!MachinesAgree` | `Agreement` | `Showing`: a machine shows in a field the last received row that carries it, or a change of its own that has not come back, and that is pending or in the log, or one that no row carries (`KeptHere`) |
| `Replication_proofs!MachinesShareBatchLog` | `ActsAsBatchLog` | each step of a machine is one of the log or none |
| `Replication_proofs!OutboxesKept` | `ActsAsOutboxes` | step simulation for each machine; a commit delivers rows of one project (`OneProject`), and by `AuthorOrder` of the next state leaves no earlier one out |
| `ChunkStore_proofs!StoreTypeCorrect`, `DashboardKeepsUp` | `StoreTypeOK`, `DashboardSettled` | `Knows`: what a handler has found out stays true, as the manifest only grows; `Holds`: what is settled is in every read model being built, too; a chunk placed in a manifest leaves one (`PlacedIsManifest`) |
| `ChunkStore_proofs!ChunksLogged` | `ActsAsChunkLog` | step simulation; the index names only sessions of stored chunks, and a chunk is placed behind all that was there when it was validated, hence behind the sessions it needs |
| `ChunkSync_proofs!ChunkTypeCorrect` | `ChunkTypeOK` | `Waiting`: a request says ok only when its chunk is stored, and the command that waits for it has made that chunk |
| `ChunkSync_proofs!ImportsGoOn` | `ImportNeverStalls` | `HonestChunks`: a chunk needs the sessions of what it upserts; `Satisfied`: the manifest brings them before or with it; `Imported`: a machine has had the sessions of the chunks it has recorded (`Had`): it shows them, or they were removed there (`Journaled`, `Read` for its own chunks) |
| `ChunkSync_proofs!ExportsKeepWrites` | `WritesKept` | an export that acks has its chunk stored, or another of the same id, and acks the rows of that chunk |
| `ChunkSync_proofs!CommandsOnChunkLog` | `ChunkLog!LogSpec` | each step is one of the chunk log or none; what is proved of the commands rests on nothing else of the server |
| `CloudCommands_proofs!TypeCorrect`, `StatusHonest` | `TypeOK`, `StatusExplained` | `Ledger`: rows are counted as unseen from the step that misses them; `Control`: what a command at each place has looked at |
| `CloudCommands_proofs!BootstrapComplete` | `BootstrapDelivers` | `Delivery`: the rows owed are pending or sent at every place a bootstrap may be left and resumed at |

They hold for all values of the constants under the named assumptions of each
module, which TLC evaluates in the runs. The assumptions say that limits are numbers
(`LimitsAssumption`, `BoundsAssumption`, `LogBoundsAssumption`, `BatchAssumption`,
`RowsAssumption`), that entities,
owners and changes are kept apart and belong where they do (`OwnersAssumption`,
`EntitiesAssumption`, `FieldsAssumption`, `RecordsAssumption`, `ChangesAssumption`, `DevicesAssumption`,
`MachinesAssumption`), and that "nothing" is not something
(`NothingAssumption` of CloudCommands, ChunkStore and ChunkSync: no checkpoint, no chunk, and
neither a live record nor a tombstone). The bounds `MaxRows` and `MaxChunks` are constants
of the theorems like the others, so they hold whatever the bound.

Every invariant has the usual shape: `Init => IInv`, `IInv /\ [Next]_vars => IInv'`,
`IInv => property`, with `IInv` a conjunction of named parts. Why the properties are not
inductive as they stand is told by the parts in the table: mostly they speak of what has
been delivered, and a step delivers on the strength of what the process, the request or the
batch has carried with it since an earlier step. TLC checked the larger `IInv`s on the
instances of the runs before they were proved. The refinements need the same invariants,
in both states of a step.

The theorems fit together: `ChunksLogged` and `CommandsOnChunkLog` meet in ChunkLog, so
what holds for the commands over the abstract chunk store holds over handlers that lag,
repeat and restart; `MachinesShareBatchLog` says the same of the
machines and the log; `Outboxed` and `OutboxesKept` meet in Outbox: the journal that
SyncJournal models in detail for one machine, with its pushers, skip-acks and
enrollment, and the outbox of a machine in Replication keep the same promise, where
"delivered" is what the server accepted there and what is committed here.

Only model-checked: the liveness properties `WorkGoesOn` and `ShutdownCompletes`, since
fairness and `ENABLED` are out of the prover's reach. Every invariant, action property
and refinement that a passing run checks is a theorem. No model defines anything by
recursion over data, so none of the proofs needs an induction over it.

## 5. Where code and documents disagree

Three runs end in a counterexample to something the repository says:

1. `journal_enroll`: rows skip-acked while a project was not enrolled are not sent
   after it is (`openspec/changes/cloud-upgrade-path-existing-users/proposal.md`).
2. `late_commit`: with concurrent pushes a pull can pass a seq that commits later
   (`docs/ARCHITECTURE-CLOUD.md`).
3. `upgrade_rollback`: every checkpoint of bootstrap, doctor and repair replaces the
   rollback snapshot by an empty one, so a rollback deletes `cloud.json` and unenrolls
   the project instead of restoring them (`DOCS.md:215`). A doctor or repair after
   `bootstrap_verified` also takes the stage back, and with it the rule that a rollback
   is blocked from there on; `DOCS.md:211` calls the doctor read-only.

More that the models show without a run of their own:

4. `StopForUpgrade` keeps the lease, but nothing renews it: in Autosync, `Tick` and
   another process's `TakeLease` follow. After `LeaseInterval` another process works in
   the upgrade window (`docs/ARCHITECTURE.md:286`, "so no other worker can pick up
   sync during an upgrade window", and the comment at `manager.go:237`).
5. At the failure ceiling `ReachCeiling` is the only outcome of every later cycle, so
   after panics only a restart helps (`openspec/specs/cloud-autosync/spec.md:195`,
   "attempts another cycle without needing a restart").
6. A batch carries no identity: when its answer is lost, Replication's next `Push`
   inserts it again (`cloudstore.go:1328`, "so the client can retry the full batch
   without creating duplicates", which holds for a failed INSERT only).
7. The server's session index counts every session in the data of a chunk
   (`collectSessionIDsFromPayload`), while importers apply a session that no row
   mentions only when an upsert of the same chunk needs it (`buildImportMutations`).
   A later chunk accepted on the strength of such a session stalls the import of a
   machine that gets chunks only: the exception `PassedOver` of `ImportNeverStalls`.
8. A chunk is known by 32 bits of its hash. The server compares the payload and answers
   `ErrChunkConflict` (`cloudstore.go:236-238`, 397-411), but an export that finds the
   id records and acks its rows without asking (`sync.go:433-444`): they are lost (the
   exception `TakenForAnother` of `WritesKept`), and the other chunk, recorded by its
   id, is never imported there (`ImportNeverStalls` asks about what has been applied).
9. `PruneProject` (`store.go:3939-3975`), and `DeleteSession` while a project is not
   enrolled, remove sessions that `sync_chunks` says were imported; a later chunk that
   needs one stalls the import. The exception `removed` of `ImportNeverStalls`.
10. A session ended again with an empty summary loses it on its machine
    (`store.go:1651-1653`) and keeps it on the others, whose merge is a `COALESCE` over
    the NULL of the row (4646-4647): the exception `KeptHere` of `Agreement`.
11. A panic in `MarkSyncFailure` is counted twice (`manager.go:563-580`, 340), and a
    back-off that outgrows a Duration may lock the manager up for good
    (`manager.go:606`). The latter takes a configured ceiling of some 35 failures with
    the base of 1 s; the default is 10.
12. The manifest is ordered by when an INSERT began, not by when it committed
    (`cloudstore.go:159`, 503), so a chunk may appear before one that was listed
    already. Importers do not mind, as they go by what they have recorded.

And two windows in which a status is wrong for a while, which `StatusExplained`
names: an imported chunk sets healthy over pending rows, and so does the outcome of a
command for rows written after its look at the journal. A chunk push that succeeds while
a dashboard reader builds its model from older rows may stay off the dashboard until
the next write (the condition in `DashboardSettled`).

## 6. Not modelled, and the plan

In this order:

1. **Proofs** of what is added below.
2. **Foreign keys on pull**: sessions and observations in Replication, and when a
   machine gets stuck behind a row it cannot apply (`manager.go:535`).
3. **Moves and other payloads**: what other machines show after a record moved to
   another project, was pruned, or was sent back by the repair of the machine that
   pulled it; rows with an empty project, which block their group.
4. **Liveness of replication**: a machine whose cycles succeed again and again empties
   its outbox.
5. **Local mode of `sync`**: files in `.aria-core`, chosen by time of creation
   (`filterNewData`), where records imported with an older time are passed over.

Left out for good: user interfaces, exports, templates, text rules and external
APIs (no protocol of their own), payload encodings, and the CRUD features of the
cloud server, each a single statement or transaction.
