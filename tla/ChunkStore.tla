------------------------------ MODULE ChunkStore ------------------------------
(***************************************************************************)
(* The chunks of one project on the cloud server: the push requests        *)
(* (handlePushChunk of internal/cloud/cloudserver, WriteChunk of           *)
(* internal/cloud/cloudstore), the index of the sessions they brought,     *)
(* and the read model the dashboard keeps of them in memory.               *)
(*                                                                         *)
(* WriteChunk runs no transaction: its statements commit one by one, and   *)
(* other requests, readers and a restart of the server come in between.    *)
(* The place of a chunk in the manifest is the time its INSERT began, by   *)
(* a clock that is not set back; of two INSERTs under way at once either   *)
(* may come first.                                                         *)
(***************************************************************************)
EXTENDS Manifest

CONSTANTS
    Chunk,      \* what clients push: records with their sessions and needs
    Request,    \* slots for push requests in flight
    Reader,     \* dashboard requests
    Nothing     \* no chunk, no read model

ASSUME NothingAssumption == Nothing \notin Chunk /\ \A rows \in SUBSET Chunk : rows # Nothing

VARIABLES
    stored,     \* cloud_chunks: the manifest
    index,      \* cloud_project_sessions
    request,    \* the handler of each push: its next step, its chunk, and the chunks
                \*   that were there when its INSERT began
    model,      \* dashboardReadModel, Nothing when it is not OK
    building,   \* per reader: where it is, and the chunks it builds a read model from
    settled     \* history: chunks whose write has dropped the read model while
                \*   nobody was building one from older rows

storeVars == <<stored, index, request, model, building, settled>>

Stored == DOMAIN stored

Unused == [at |-> "free", chunk |-> Nothing, after |-> {}]
Away == [at |-> "away", rows |-> {}]

Steps == {"free", "validate", "lookup", "insert", "inserting", "index", "reindex", "invalidate",
          "ok", "refused"}

StoreTypeOK ==
    /\ IsManifest(stored) /\ Stored \subseteq Chunk
    /\ index \subseteq SessionsIn(Stored)
    /\ request \in [Request -> [at: Steps, chunk: Chunk \cup {Nothing}, after: SUBSET Stored]]
    /\ \A r \in Request : request[r].chunk = Nothing <=> request[r].at = "free"
    /\ model \in (SUBSET Stored) \cup {Nothing}
    /\ building \in [Reader -> [at: {"away", "read", "publish"}, rows: SUBSET Stored]]
    /\ settled \subseteq Stored

StoreInit ==
    /\ stored = Empty /\ index = {} /\ settled = {}
    /\ request = [r \in Request |-> Unused]
    /\ model = Nothing
    /\ building = [v \in Reader |-> Away]

-------------------------------------------------------------------------------
(* A push request. *)

Goto(r, at) == request' = [request EXCEPT ![r].at = at]

Receive(r, chunk) ==
    /\ request[r].at = "free"
    /\ request' = [request EXCEPT ![r] = [Unused EXCEPT !.at = "validate", !.chunk = chunk]]
    /\ UNCHANGED <<stored, index, model, building, settled>>

\* validateChunkSessionReferences: sessions of the chunk itself, or known by now.
Validate(r) ==
    /\ request[r].at = "validate"
    /\ Goto(r, IF request[r].chunk.needs \subseteq request[r].chunk.sessions \cup index
               THEN "lookup" ELSE "refused")
    /\ UNCHANGED <<stored, index, model, building, settled>>

\* Mutant: the payload is not compared.
LookUpId(r) ==
    /\ request[r].at = "lookup"
    /\ Goto(r, IF IdOf(request[r].chunk) \in Ids(Stored) THEN "reindex" ELSE "insert")
    /\ UNCHANGED <<stored, index, model, building, settled>>

\* The chunk is there already, or another one of its id (ErrChunkConflict), or neither.
LookUp(r) ==
    /\ request[r].at = "lookup"
    /\ Goto(r, IF request[r].chunk \in Stored THEN "reindex"
               ELSE IF IdOf(request[r].chunk) \in Ids(Stored) THEN "refused" ELSE "insert")
    /\ UNCHANGED <<stored, index, model, building, settled>>

\* The statement begins: created_at is now.
BeginInsert(r) ==
    /\ request[r].at = "insert"
    /\ request' = [request EXCEPT ![r].at = "inserting", ![r].after = Stored]
    /\ UNCHANGED <<stored, index, model, building, settled>>

Done(r, at) == request' = [request EXCEPT ![r].at = at, ![r].after = {}]

\* Mutant: the manifest is ordered by the clock of the client.
InsertByClientClock(r) ==
    /\ request[r].at = "inserting"
    /\ IdOf(request[r].chunk) \notin Ids(Stored)
    /\ \E earlier \in Beginnings(stored) : stored' = Placed(stored, request[r].chunk, earlier)
    /\ Done(r, "index")
    /\ UNCHANGED <<index, model, building, settled>>

\* A chunk of the same id may have been inserted since: a unique violation, no error
\* when it is the same chunk (resolveChunkConflict).  The row may also be there although
\* the handler is told otherwise.
Insert(r) ==
    /\ request[r].at = "inserting"
    /\ \/ /\ IdOf(request[r].chunk) \in Ids(Stored)
          /\ Done(r, IF request[r].chunk \in Stored THEN "invalidate" ELSE "refused")
          /\ UNCHANGED stored
       \/ /\ IdOf(request[r].chunk) \notin Ids(Stored)
          /\ \E earlier \in Beginnings(stored) :
                /\ request[r].after \subseteq earlier
                /\ stored' = Placed(stored, request[r].chunk, earlier)
          /\ \E at \in {"index", "refused"} : Done(r, at)
    /\ UNCHANGED <<index, model, building, settled>>

\* Session by session: an error after some of them is the handler's answer when the
\* chunk is new, and is ignored when it is not.
IndexChunkSessions(r) ==
    /\ request[r].at \in {"index", "reindex"}
    /\ \E done \in SUBSET request[r].chunk.sessions :
        /\ index' = index \cup done
        /\ Goto(r, IF request[r].at = "index" /\ done # request[r].chunk.sessions
                   THEN "refused" ELSE "invalidate")
    /\ UNCHANGED <<stored, model, building, settled>>

Unread(chunk) == {v \in Reader : building[v].at = "publish" /\ chunk \notin building[v].rows}

\* Mutant: the read model stays.
KeepReadModel(r) ==
    /\ request[r].at = "invalidate"
    /\ settled' = IF Unread(request[r].chunk) = {} THEN settled \cup {request[r].chunk}
                  ELSE settled
    /\ Goto(r, "ok")
    /\ UNCHANGED <<stored, index, building, model>>

InvalidateDashboardReadModel(r) ==
    /\ request[r].at = "invalidate"
    /\ model' = Nothing
    /\ settled' = IF Unread(request[r].chunk) = {} THEN settled \cup {request[r].chunk}
                  ELSE settled
    /\ Goto(r, "ok")
    /\ UNCHANGED <<stored, index, building>>

\* Not authorised, paused, a statement fails, or the client has gone and its context
\* is cancelled.
RefuseChunk(r) ==
    /\ request[r].at \in {"validate", "lookup", "insert", "inserting"}
    /\ Done(r, "refused")
    /\ UNCHANGED <<stored, index, model, building, settled>>

\* The answer leaves, whoever still waits for it.
Respond(r) ==
    /\ request[r].at \in {"ok", "refused"}
    /\ request' = [request EXCEPT ![r] = Unused]
    /\ UNCHANGED <<stored, index, model, building, settled>>

HandlePushChunk(r) ==
    \/ \E chunk \in Chunk : Receive(r, chunk)
    \/ Respond(r)
    \/ Validate(r) \/ LookUp(r) \/ BeginInsert(r) \/ Insert(r) \/ IndexChunkSessions(r)
    \/ InvalidateDashboardReadModel(r) \/ RefuseChunk(r)

\* The server process is started again: New indexes the sessions of every chunk.
Restart ==
    /\ index' = SessionsIn(Stored)
    /\ request' = [r \in Request |->
                        IF request[r].at = "free" THEN Unused
                        ELSE [request[r] EXCEPT !.at = "refused", !.after = {}]]
    /\ model' = Nothing
    /\ building' = [v \in Reader |-> Away]
    /\ UNCHANGED <<stored, settled>>

-------------------------------------------------------------------------------
(* The dashboard. *)

\* loadDashboardReadModel finds no read model, ...
MissReadModel(v) ==
    /\ building[v].at = "away"
    /\ model = Nothing
    /\ building' = [building EXCEPT ![v].at = "read"]
    /\ UNCHANGED <<stored, index, request, model, settled>>

\* ... reads the rows for one ...
ReadChunkRows(v) ==
    /\ building[v].at = "read"
    /\ building' = [building EXCEPT ![v] = [at |-> "publish", rows |-> Stored]]
    /\ UNCHANGED <<stored, index, request, model, settled>>

\* ... which it publishes, unless somebody has meanwhile.
PublishReadModel(v) ==
    /\ building[v].at = "publish"
    /\ model' = IF model = Nothing THEN building[v].rows ELSE model
    /\ building' = [building EXCEPT ![v] = Away]
    /\ UNCHANGED <<stored, index, request, settled>>

\* SetProjectSyncEnabled drops the read model too.
SetProjectControl ==
    /\ model # Nothing
    /\ model' = Nothing
    /\ UNCHANGED <<stored, index, request, building, settled>>

StoreNext ==
    \/ \E r \in Request : HandlePushChunk(r)
    \/ \E v \in Reader : MissReadModel(v) \/ ReadChunkRows(v) \/ PublishReadModel(v)
    \/ Restart
    \/ SetProjectControl

StoreSpec == StoreInit /\ [][StoreNext]_storeVars

-------------------------------------------------------------------------------
(* Safety. *)

\* A write that drops the read model while nobody is building one from older rows is
\* on the dashboard for good: no reader that started before, no concurrent push and
\* no failed one brings back a model without it.
DashboardSettled == model # Nothing => settled \subseteq model

\* Clients and readers of the manifest see no index, no read model and no statement
\* of its own: only chunks that come in whole, once, one of an id, and after the
\* sessions they need, whatever requests race, commit in another order than they began,
\* fail half-way or are cut off by a restart.
ChunkLog == INSTANCE ChunkLog WITH
    push <- [r \in Request |->
                [at |-> IF request[r].at \in {"free", "ok", "refused"}
                        THEN request[r].at ELSE "open",
                 chunk |-> request[r].chunk]]

ActsAsChunkLog == ChunkLog!LogSpec
===============================================================================
