------------------------------- MODULE ChunkSync -------------------------------
(***************************************************************************)
(* Chunks of a project between machines: Export turns the pending rows of  *)
(* the journal into a chunk, pushes it, and acks the rows; Import applies  *)
(* the chunks a machine has not recorded yet (internal/sync, cloud mode).  *)
(* Autosync drains the same journal meanwhile, and other processes write.  *)
(*                                                                         *)
(* One enrolled project, sessions and observations; of a payload there is  *)
(* only whether the record is live or a tombstone.  What arrives by        *)
(* autosync is in Replication, what the command writes into sync_state in  *)
(* CloudCommands.  Commands know a chunk by its id alone (sync_chunks, the *)
(* entries of the manifest), and another chunk may have the same.          *)
(***************************************************************************)
EXTENDS ChunkLog, Naturals, Sequences, FiniteSets

CONSTANTS
    Machine,
    Author,         \* machines where somebody writes, and exports
    Importer,       \* machines that import
    Remover,        \* machines where sessions are removed
    Session, Observation, SessionOf,
    MaxRows,        \* bound of the model: rows a journal may reach
    MaxChunks       \* bound of the model: chunks stored when pushes end

Entity == Session \cup Observation

ASSUME MachinesAssumption == Author \cup Importer \cup Remover \subseteq Machine
ASSUME NothingAssumption == Nothing \notin {"upsert", "delete"}
ASSUME BoundsAssumption == MaxRows \in Nat /\ MaxChunks \in Nat
ASSUME RecordsAssumption ==
    Session \cap Observation = {} /\ SessionOf \in [Observation -> Session]

VARIABLES
    journal,    \* sync_mutations of each machine
    acked,      \* rows with acked_at set
    shown,      \* per machine: whether a record is live ("upsert"), a tombstone
                \*   ("delete") or not there (Nothing)
    removed,    \* sessions that were taken away here, since or for good (a history)
    known,      \* the chunks recorded in sync_chunks
    command     \* the running Export or Import

machineVars == <<journal, acked, shown, removed, known, command>>
chunkVars == <<machineVars, logVars>>

Ops == {"upsert", "delete", "hard delete"}
Rows(m) == DOMAIN journal[m]
Pending(m) == Rows(m) \ acked[m]

\* exists: the ids an export compares with; todo and deferred: the chunks an import
\* still has before it.
Idle == [at |-> "idle", exists |-> {}, data |-> Nothing, rows |-> {}, chunk |-> Nothing,
         request |-> Nothing, todo |-> {}, deferred |-> {}, progress |-> FALSE]

States == {"upsert", "delete", Nothing}

\* The records a chunk carries and the rows it stands for.
Chunk == [from: Machine, rows: SUBSET Nat,
          data: UNION {[S -> {"upsert", "delete"}] : S \in SUBSET Entity},
          sessions: SUBSET Session, needs: SUBSET Session]

Commands == [at: {"idle", "list", "wait", "record", "ack", "import"},
             exists: SUBSET Ids(Stored), data: [Entity -> States] \cup {Nothing},
             rows: SUBSET Nat, chunk: Chunk \cup {Nothing},
             request: Request \cup {Nothing},
             todo: SUBSET Stored, deferred: SUBSET Stored, progress: BOOLEAN]

ChunkTypeOK ==
    /\ journal \in [Machine -> Seq([entity: Entity, op: Ops])]
    /\ shown \in [Machine -> [Entity -> States]]
    /\ removed \in [Machine -> SUBSET Session]
    /\ acked \in [Machine -> SUBSET Nat] /\ known \in [Machine -> SUBSET Chunk]
    /\ command \in [Machine -> Commands]
    /\ Stored \subseteq Chunk /\ stored \in [Stored -> SUBSET Stored]
    /\ push \in [Request -> [at: {"free", "open", "ok", "refused"}, chunk: Chunk \cup {Nothing}]]
    /\ \A m \in Machine :
        /\ Len(journal[m]) <= MaxRows
        /\ acked[m] \cup command[m].rows \subseteq Rows(m)
        /\ Ids(known[m]) \subseteq Ids(Stored)
        /\ command[m].at \in {"record", "ack"} => IdOf(command[m].chunk) \in Ids(Stored)

ChunkInit ==
    /\ LogInit
    /\ journal = [m \in Machine |-> <<>>]
    /\ acked = [m \in Machine |-> {}] /\ known = acked /\ removed = acked
    /\ shown = [m \in Machine |-> [e \in Entity |-> Nothing]]
    /\ command = [m \in Machine |-> Idle]

-------------------------------------------------------------------------------
(* Other processes on the machine. *)

\* Bounds of the model: a session removed somewhere takes the place of a row.
RoomForRow(m) ==
    /\ Len(journal[m]) < MaxRows
    /\ (\E n \in Machine : removed[n] # {}) => Len(journal[m]) + 1 < MaxRows

RoomForRemoval == \A m \in Machine : Len(journal[m]) < MaxRows

Enqueue(m, e, op) ==
    /\ RoomForRow(m)
    /\ journal' = [journal EXCEPT ![m] = Append(@, [entity |-> e, op |-> op])]
    /\ shown' = [shown EXCEPT ![m][e] = IF op = "hard delete" THEN Nothing ELSE op]
    /\ UNCHANGED <<logVars, acked, removed, known, command>>

WriteSession(m, s) == Enqueue(m, s, "upsert")

\* A new observation has an identity never seen; a live one is updated.
SaveObservation(m, o) ==
    /\ shown[m][SessionOf[o]] # Nothing
    /\ \/ shown[m][o] = "upsert"
       \/ shown[m][o] = Nothing /\ \A n \in Machine : \A i \in Rows(n) : journal[n][i].entity # o
    /\ Enqueue(m, o, "upsert")

DeleteObservation(m, o, op) == shown[m][o] = "upsert" /\ Enqueue(m, o, op)

\* PruneProject, and DeleteSession between leaving and entering the enrollment: no row
\* is written.  Foreign keys keep the session of an observation, and of a tombstone.
RemoveSession(m, s) ==
    /\ RoomForRemoval
    /\ shown[m][s] # Nothing
    /\ \A o \in Observation : SessionOf[o] = s => shown[m][o] = Nothing
    /\ shown' = [shown EXCEPT ![m][s] = Nothing]
    /\ removed' = [removed EXCEPT ![m] = @ \cup {s}]
    /\ UNCHANGED <<logVars, journal, acked, known, command>>

Ack(m, rows) == acked' = [acked EXCEPT ![m] = @ \cup rows]

\* A push of autosync: the oldest pending rows.
Autosync(m) ==
    /\ \E last \in Pending(m) : Ack(m, {i \in Pending(m) : i <= last})
    /\ UNCHANGED <<logVars, journal, shown, removed, known, command>>

-------------------------------------------------------------------------------
(* Export. *)

\* readManifest, the chunks recorded here, and then the records of the project.
ReadForExport(m) ==
    /\ command[m].at = "idle"
    /\ command' = [command EXCEPT ![m] = [Idle EXCEPT
                        !.at = "list", !.exists = Ids(Stored \cup known[m]), !.data = shown[m]]]
    /\ UNCHANGED <<logVars, journal, acked, shown, removed, known>>

About(m, rows) == {journal[m][i].entity : i \in rows}
Upserted(m, rows) == About(m, {i \in rows : journal[m][i].op = "upsert"})

\* Mutant: the server does not look for the sessions of what the rows upsert.
DataOnlyNeeds(m, rows, data) ==
    [from |-> m, rows |-> rows,
     data |-> [e \in {d \in About(m, rows) : data[d] # Nothing} |-> data[e]],
     sessions |-> About(m, rows) \cap Session,
     needs |-> {}]

\* filterByPendingMutations: the rows, and from the data read before what they are
\* about with the sessions of that.
ChunkOf(m, rows, data) ==
    LET seen == {e \in Entity : data[e] # Nothing}
        observations == About(m, rows) \cap Observation \cap seen
        sessions == seen \cap ((About(m, rows) \cap Session)
                                \cup {SessionOf[o] : o \in observations})
    IN  [from |-> m, rows |-> rows,
         data |-> [e \in observations \cup sessions |-> data[e]],
         sessions |-> sessions \cup (Upserted(m, rows) \cap Session),
         needs |-> {SessionOf[o] : o \in observations
                                         \cup (Upserted(m, rows) \cap Observation)}]

\* listPendingMutationsForExport: nothing pending, nothing to export; and a chunk that
\* exists, going by its id, is not pushed again.
ListAndPush(m) ==
    /\ command[m].at = "list"
    /\ LET rows == Pending(m)
           chunk == ChunkOf(m, rows, command[m].data)
           Go(at, r) == command' = [command EXCEPT ![m] = [Idle EXCEPT
                            !.at = at, !.rows = rows, !.chunk = chunk, !.request = r]]
       IN  \/ /\ rows = {}
              /\ command' = [command EXCEPT ![m] = Idle]
              /\ UNCHANGED logVars
           \/ /\ rows # {} /\ IdOf(chunk) \in command[m].exists
              /\ Go("record", Nothing)
              /\ UNCHANGED logVars
           \/ /\ rows # {} /\ IdOf(chunk) \notin command[m].exists
              /\ Cardinality(Stored) < MaxChunks
              /\ \E r \in Request : Offer(r, chunk) /\ Go("wait", r)
    /\ UNCHANGED <<journal, acked, shown, removed, known>>

\* Mutant: any answer will do.
HearAnyAnswer(r) ==
    /\ Leave(r)
    /\ command' = [m \in Machine |->
            IF command[m].at # "wait" \/ command[m].request # r THEN command[m]
            ELSE [command[m] EXCEPT !.at = "record", !.request = Nothing]]
    /\ UNCHANGED <<journal, acked, shown, removed, known>>

\* The answer, when the command still waits for it.
HearAnswer(r) ==
    /\ Leave(r)
    /\ command' = [m \in Machine |->
            IF command[m].at # "wait" \/ command[m].request # r THEN command[m]
            ELSE IF push[r].at = "refused" THEN Idle
            ELSE [command[m] EXCEPT !.at = "record", !.request = Nothing]]
    /\ UNCHANGED <<journal, acked, shown, removed, known>>

RecordSyncedChunk(m) ==
    /\ command[m].at = "record"
    /\ known' = [known EXCEPT ![m] = @ \cup {command[m].chunk}]
    /\ command' = [command EXCEPT ![m].at = "ack"]
    /\ UNCHANGED <<logVars, journal, acked, shown, removed>>

\* Mutant: all that is pending by then is acked.
AckPending(m) ==
    /\ command[m].at = "ack"
    /\ Ack(m, Pending(m))
    /\ command' = [command EXCEPT ![m] = Idle]
    /\ UNCHANGED <<logVars, journal, shown, removed, known>>

AckSyncMutationSeqs(m) ==
    /\ command[m].at = "ack"
    /\ Ack(m, command[m].rows)
    /\ command' = [command EXCEPT ![m] = Idle]
    /\ UNCHANGED <<logVars, journal, shown, removed, known>>

-------------------------------------------------------------------------------
(* Import. *)

StartImport(m) ==
    /\ command[m].at = "idle"
    /\ LET todo == {c \in Stored : IdOf(c) \notin Ids(known[m])}
       IN  /\ todo # {}
           /\ command' = [command EXCEPT ![m] = [Idle EXCEPT !.at = "import", !.todo = todo]]
    /\ UNCHANGED <<logVars, journal, acked, shown, removed, known>>

\* buildImportMutations: sessions from the data only when the rows do not mention
\* them and an upsert needs them.
Synthesized(c) ==
    {SessionOf[o] : o \in Upserted(c.from, c.rows) \cap Observation}
        \cap (DOMAIN c.data \ About(c.from, c.rows))

\* orderMutationsForApply: deletions after upserts.  A tombstone needs a record.
Applied(m, c, e) ==
    LET ops == {journal[c.from][i].op : i \in {j \in c.rows : journal[c.from][j].entity = e}}
    IN  IF ops = {} THEN IF e \in Synthesized(c) THEN c.data[e] ELSE shown[m][e]
        ELSE IF "hard delete" \in ops THEN Nothing
        ELSE IF "delete" \notin ops THEN "upsert"
        ELSE IF shown[m][e] = Nothing /\ "upsert" \notin ops THEN Nothing
        ELSE "delete"

\* Every observation the chunk upserts finds its session.
Importable(m, c) ==
    \A o \in Upserted(c.from, c.rows) \cap Observation :
        shown[m][SessionOf[o]] # Nothing \/ SessionOf[o] \in c.sessions

Import(m) == command[m].at = "import" /\ command[m].todo # {}

\* The chunks of a pass come in the order of the manifest.
IsNext(m, c) == stored[c] \cap command[m].todo = {}

\* One transaction: the rows, and the record of the chunk.
ApplyPulledChunk(m) ==
    /\ Import(m)
    /\ \E c \in command[m].todo :
        /\ IsNext(m, c)
        /\ Importable(m, c)
        /\ shown' = [shown EXCEPT ![m] = [e \in Entity |-> Applied(m, c, e)]]
        /\ known' = [known EXCEPT ![m] = @ \cup {c}]
        /\ command' = [command EXCEPT ![m].todo = @ \ {c}, ![m].progress = TRUE]
    /\ UNCHANGED <<logVars, journal, acked, removed>>

\* The transaction fails, for want of a session or because the store is busy.
DeferChunk(m) ==
    /\ Import(m)
    /\ \E c \in command[m].todo :
        /\ IsNext(m, c)
        /\ command' = [command EXCEPT ![m].todo = @ \ {c}, ![m].deferred = @ \cup {c}]
    /\ UNCHANGED <<logVars, journal, acked, shown, removed, known>>

\* The end of a pass: done or stalled, or once more over what was deferred.
EndPass(m) ==
    /\ command[m].at = "import" /\ command[m].todo = {}
    /\ command' = [command EXCEPT ![m] =
            IF command[m].progress /\ command[m].deferred # {}
            THEN [Idle EXCEPT !.at = "import", !.todo = command[m].deferred]
            ELSE Idle]
    /\ UNCHANGED <<logVars, journal, acked, shown, removed, known>>

\* A call to the server or the store fails, also while the server still works at it, or
\* the process dies.
EndEarly(m) ==
    /\ command[m].at # "idle"
    /\ command' = [command EXCEPT ![m] = Idle]
    /\ UNCHANGED <<logVars, journal, acked, shown, removed, known>>

-------------------------------------------------------------------------------
Write(m) ==
    \/ \E s \in Session : WriteSession(m, s)
    \/ \E o \in Observation : SaveObservation(m, o)
    \/ \E o \in Observation, op \in {"delete", "hard delete"} : DeleteObservation(m, o, op)

Export(m) ==
    \/ ReadForExport(m) \/ ListAndPush(m) \/ RecordSyncedChunk(m) \/ AckSyncMutationSeqs(m)

ImportChunks(m) == StartImport(m) \/ ApplyPulledChunk(m) \/ DeferChunk(m) \/ EndPass(m)

ChunkNext ==
    \/ \E m \in Author : Write(m) \/ Autosync(m) \/ Export(m)
    \/ \E m \in Importer : ImportChunks(m)
    \/ \E m \in Remover : \E s \in Session : RemoveSession(m, s)
    \/ \E m \in Machine : EndEarly(m)
    \/ \E r \in Request :
        \/ HearAnswer(r)
        \/ (Accept(r) \/ Confirm(r) \/ Refuse({r})) /\ UNCHANGED machineVars

ChunkSpec == ChunkInit /\ [][ChunkNext]_chunkVars

-------------------------------------------------------------------------------
(* Safety. *)

\* A write is never dropped between the two clients of the journal: a row is acked
\* only by autosync, which has delivered it, or with a chunk the server stores, also
\* when the command dies between push, record and ack, when the answer was lost and
\* the chunk is found to exist, and when rows are written after the data was read.
\* The exception is a chunk that is taken for another one of the same id.
InChunks(m) == UNION {c.rows : c \in {d \in Stored : d.from = m}}

TakenForAnother(c) == \E d \in Stored \ {c} : IdOf(d) = IdOf(c)

Mistaken(m) == {i \in command[m].rows : TakenForAnother(command[m].chunk)}

WritesKept ==
    [][\A m \in Machine :
        \/ \A i \in acked'[m] \ acked[m] : i \in InChunks(m) \cup Mistaken(m)
        \/ Autosync(m)]_chunkVars

\* Sessions the server counts as known by the chunk and importers pass over: in its
\* data, in none of its rows, and needed by no upsert.
PassedOver(c) == c.sessions \ (About(c.from, c.rows) \cup Synthesized(c))

\* Import never stalls for want of a session: a machine that has recorded every
\* earlier chunk can apply the next one, although its sessions may be in another
\* chunk, be validated against what other requests have stored, and come into the
\* manifest late.  The exceptions are a session of which an earlier chunk only had
\* data that importers pass over, and one that was removed on this machine.
ImportNeverStalls ==
    \A m \in Machine : \A c \in Stored :
        stored[c] \subseteq known[m] /\ c \notin known[m] =>
            \/ Importable(m, c)
            \/ \E d \in stored[c] : PassedOver(d) \cap c.needs # {}
            \/ \E s \in c.needs \cap removed[m] : shown[m][s] = Nothing
===============================================================================
