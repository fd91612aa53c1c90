------------------------------ MODULE MutationLog ------------------------------
(***************************************************************************)
(* The mutation log of the cloud server: concurrent push requests          *)
(* (handleMutationPush of internal/cloud/cloudserver), the per-project     *)
(* pause an administrator sets meanwhile, the transaction that inserts a   *)
(* batch (InsertMutationBatch of internal/cloud/cloudstore) and the pages  *)
(* readers get (ListMutationsSince).                                       *)
(*                                                                         *)
(* The database is modelled from how the code uses it: each INSERT draws   *)
(* the next value of the BIGSERIAL seq at once and for good, its row is    *)
(* seen by others from the commit on, and a transaction rolled back leaves *)
(* a gap.  Payloads and the audit log are left out.                        *)
(***************************************************************************)
EXTENDS Naturals, Sequences, FiniteSets

CONSTANTS
    Change,         \* what clients push, each an entry of one project
    Project,
    ProjectOf,      \* entry.Project
    Allowed,        \* projects the server's tokens may push and pull
    Request,        \* slots for requests in flight
    BatchLimit,     \* maxMutationBatchSize
    MaxRows         \* bound of the model: seqs the log may draw

ASSUME ChangesAssumption ==
    /\ ProjectOf \in [Change -> Project]
    /\ Allowed \subseteq Project
ASSUME LogBoundsAssumption == BatchLimit \in Nat \ {0} /\ MaxRows \in Nat

VARIABLES
    paused,     \* projects with sync_enabled = false in cloud_project_controls
    rows,       \* cloud_mutations by seq; which entry of its batch (of how many) the row
                \*   is and the first seq of its transaction are history
    visible,    \* seqs committed
    handler     \* the goroutine of each request

logVars == <<paused, rows, visible, handler>>

Seqs == 1..Len(rows)

Free == [at |-> "free", batch |-> <<>>, next |-> 1, first |-> 0, held |-> {}]
Answering(answer) == [Free EXCEPT !.at = answer]

Places == {"free", "check", "insert", "commit", "accepted", "rejected"}

\* next: the entry looked at; first: first seq of its transaction; held (history):
\* the projects that have been paused ever since the request arrived.
Handlers == [at: Places, batch: Seq(Change), next: Nat, first: Nat,
             held: SUBSET Project]

InBatch(r) == {ProjectOf[handler[r].batch[k]] : k \in DOMAIN handler[r].batch}
Own(r) == {i \in Seqs : rows[i].tx = handler[r].first}
Active(r) == handler[r].at \in {"check", "insert", "commit"}

LogTypeOK ==
    /\ paused \subseteq Project
    /\ rows \in Seq([change: Change, nth: Nat, of: Nat, tx: Nat]) /\ Len(rows) <= MaxRows
    /\ visible \subseteq Seqs
    /\ handler \in [Request -> Handlers]
    /\ \A r \in Request : handler[r].at \in {"check", "insert"} =>
                              handler[r].next \in 1..Len(handler[r].batch)

LogInit ==
    /\ paused = {}
    /\ rows = <<>>
    /\ visible = {}
    /\ handler = [r \in Request |-> Free]

-------------------------------------------------------------------------------
(* A push request. *)

Valid(batch) ==
    /\ Len(batch) \in 1..BatchLimit
    /\ \A k \in DOMAIN batch : ProjectOf[batch[k]] \in Allowed

\* The request arrives.  A batch that is too large, empty or holds a project the
\* token is not authorised for is refused whole, at once.
Receive(r, batch) ==
    /\ handler[r].at = "free"
    /\ handler' = [handler EXCEPT ![r] =
            IF Valid(batch)
            THEN [Free EXCEPT !.at = "check", !.batch = batch, !.held = paused]
            ELSE Answering("rejected")]
    /\ UNCHANGED <<paused, rows, visible>>

NextEntry(r, at, then) ==
    IF handler[r].next < Len(handler[r].batch)
    THEN [handler[r] EXCEPT !.at = at, !.next = @ + 1]
    ELSE [handler[r] EXCEPT !.at = then, !.next = 1]

\* Mutant: the pause is looked up for the primary project of the request only.
CheckPrimaryPause(r) ==
    /\ handler[r].at = "check"
    /\ handler' = [handler EXCEPT ![r] =
            IF ProjectOf[handler[r].batch[1]] \in paused
            THEN Answering("rejected") ELSE NextEntry(r, "check", "insert")]
    /\ UNCHANGED <<paused, rows, visible>>

\* Mutant: the loop over the entries goes on past the last one.
CheckPausePastEnd(r) ==
    /\ handler[r].at = "check"
    /\ handler' = [handler EXCEPT ![r] =
            IF ProjectOf[handler[r].batch[handler[r].next]] \in paused
            THEN Answering("rejected") ELSE [handler[r] EXCEPT !.next = @ + 1]]
    /\ UNCHANGED <<paused, rows, visible>>

\* Each entry's project is looked up on its own, in a query outside any transaction.
CheckPause(r) ==
    /\ handler[r].at = "check"
    /\ handler' = [handler EXCEPT ![r] =
            IF ProjectOf[handler[r].batch[handler[r].next]] \in paused
            THEN Answering("rejected") ELSE NextEntry(r, "check", "insert")]
    /\ UNCHANGED <<paused, rows, visible>>

NewRow(r) ==
    [change |-> handler[r].batch[handler[r].next],
     nth |-> handler[r].next, of |-> Len(handler[r].batch),
     tx |-> IF handler[r].next = 1 THEN Len(rows) + 1 ELSE handler[r].first]

\* Mutant: every INSERT commits by itself.
InsertRowAlone(r) ==
    /\ handler[r].at = "insert"
    /\ Len(rows) < MaxRows
    /\ rows' = Append(rows, NewRow(r))
    /\ visible' = visible \cup {Len(rows) + 1}
    /\ handler' = [handler EXCEPT ![r] =
            [NextEntry(r, "insert", "commit") EXCEPT !.first = NewRow(r).tx]]
    /\ UNCHANGED paused

InsertRow(r) ==
    /\ handler[r].at = "insert"
    /\ Len(rows) < MaxRows
    /\ rows' = Append(rows, NewRow(r))
    /\ handler' = [handler EXCEPT ![r] =
            [NextEntry(r, "insert", "commit") EXCEPT !.first = NewRow(r).tx]]
    /\ UNCHANGED <<paused, visible>>

\* The commit is done, and the handler learns so, or its connection broke meanwhile.
Commit(r) ==
    /\ handler[r].at = "commit"
    /\ visible' = visible \cup Own(r)
    /\ \E at \in {"accepted", "rejected"} : handler' = [handler EXCEPT ![r] = Answering(at)]
    /\ UNCHANGED <<paused, rows>>

\* Mutant: the rows inserted before the failure stay.
FailCommitting(r) ==
    /\ Active(r)
    /\ visible' = visible \cup Own(r)
    /\ handler' = [handler EXCEPT ![r] = Answering("rejected")]
    /\ UNCHANGED <<paused, rows>>

\* A query, an INSERT or the commit fails, or the client has gone and its context
\* is cancelled: the transaction is rolled back.
Fail(r) ==
    /\ Active(r)
    /\ handler' = [handler EXCEPT ![r] = Answering("rejected")]
    /\ UNCHANGED <<paused, rows, visible>>

\* The answer leaves; whether it arrives is up to the network.
Respond(r) ==
    /\ handler[r].at \in {"accepted", "rejected"}
    /\ handler' = [handler EXCEPT ![r] = Free]
    /\ UNCHANGED <<paused, rows, visible>>

Serve(r) == CheckPause(r) \/ InsertRow(r) \/ Commit(r) \/ Fail(r)

\* SetProjectSyncEnabled.
SetProjectSyncEnabled(p, enabled) ==
    /\ paused' = IF enabled THEN paused \ {p} ELSE paused \cup {p}
    /\ paused' # paused
    /\ handler' = [r \in Request |-> [handler[r] EXCEPT !.held = @ \cap paused']]
    /\ UNCHANGED <<rows, visible>>

\* Any client may send any batch of at most BatchLimit + 1 entries.
LogNext ==
    \/ \E r \in Request, n \in 0..BatchLimit + 1 :
          \E batch \in [1..n -> Change] : Receive(r, batch)
    \/ \E r \in Request : Serve(r) \/ Respond(r)
    \/ \E p \in Project, enabled \in BOOLEAN : SetProjectSyncEnabled(p, enabled)

LogSpec == LogInit /\ [][LogNext]_logVars

-------------------------------------------------------------------------------
(* What a reader gets. *)

Readable(projects) == {i \in visible : ProjectOf[rows[i].change] \in projects}

\* ListMutationsSince: the oldest committed rows beyond the cursor.
PageSince(cursor, limit, projects) ==
    LET beyond == {i \in Readable(projects) : i > cursor}
    IN  {i \in beyond : Cardinality({j \in beyond : j < i}) < limit}

-------------------------------------------------------------------------------
(* Safety. *)

\* A pause that was in force when a push arrived and has been ever since keeps its
\* project's entries out, although the project of every entry is looked up apart
\* and the insert looks at no pause any more.
PauseHolds ==
    \A r \in Request : handler[r].at \in {"insert", "commit"} =>
                           InBatch(r) \cap handler[r].held = {}

\* A reader sees a batch whole or not at all, also while requests insert rows of
\* theirs between its rows and when a request fails half-way.
BatchWhole ==
    \A i \in visible : \A n \in 1..rows[i].of :
        \E j \in visible : rows[j].tx = rows[i].tx /\ rows[j].nth = n

\* Whoever looks only at the batches in flight and at the rows committed sees a log
\* to which a batch is added whole and at one stroke or not at all, although its
\* pause checks, its INSERTs and its commit are steps of their own.
BatchLog == INSTANCE BatchLog WITH
    Position <- 1..MaxRows,
    open <- [r \in Request |-> IF Active(r) THEN handler[r].batch ELSE <<>>],
    log <- [i \in visible |-> rows[i].change]

ActsAsBatchLog == BatchLog!Spec
===============================================================================
