----------------------------- MODULE SyncJournal -----------------------------
(***************************************************************************)
(* The local store of one machine and its outbox for the cloud:            *)
(* sessions, observations and prompts, the project enrollment, the         *)
(* sync_mutations journal every local write appends to in its own          *)
(* transaction, the backfill that completes it, and the push of autosync   *)
(* that drains it (internal/store, push of internal/cloud/autosync).       *)
(*                                                                         *)
(* A store call is one transaction, hence one action; push makes several,  *)
(* so the calls of everybody else interleave with its steps.  Payloads are *)
(* left out: a journal row is the entity, what happened to it and the      *)
(* project it is filed under.  Foreign keys do not appear as guards: the   *)
(* pragma reaches only the pooled connection it ran on, so a transaction   *)
(* may run without them, and one they refuse changes nothing.              *)
(***************************************************************************)
EXTENDS Naturals, Sequences, FiniteSets, Functions

CONSTANTS
    Session, Observation, Prompt,   \* identities of the entities
    SessionOf,      \* the session each observation and prompt belongs to
    Project,
    Absent,         \* no row for the entity
    Worker,         \* pushers: under the lease one at a time, more when it lapses
    BatchSize,      \* Config.PushBatchSize
    MaxRows         \* bound of the model: rows the journal may reach

Fresh == Observation \cup Prompt
Entity == Session \cup Fresh

ASSUME EntitiesAssumption ==
    /\ IsFiniteSet(Entity)
    /\ Session \cap Observation = {} /\ Prompt \cap (Session \cup Observation) = {}
    /\ SessionOf \in [Fresh -> Session]
    /\ Absent \notin Project
ASSUME BoundsAssumption == BatchSize \in Nat \ {0} /\ MaxRows \in Nat

VARIABLES
    home,       \* project column of the entity's row (a prompt tombstone's too)
    deleted,    \* soft-deleted observations and tombstoned prompts
    enrolled,   \* sync_enrolled_projects
    journal,    \* sync_mutations of target "cloud", seq is the position
    acked,      \* seqs with acked_at set
    promised,   \* history: seqs whose project is enrolled, and was ever since the
                \*   row was written or the project was last enrolled
    sent,       \* history: seqs the server has accepted
    arrived,    \* history: put here by a pull or an import since the journal of its
                \*   project was last completed
    worker      \* per pusher: the next step and the groups still to push

data == <<home, deleted, arrived>>
vars == <<home, deleted, enrolled, journal, acked, promised, sent, arrived,
          worker>>

Seqs == 1..Len(journal)
Ops == {"upsert", "delete"}
Mutation == [entity: Entity, op: Ops, project: Project]
Idle == [at |-> "skip", groups |-> <<>>]

TypeOK ==
    /\ home \in [Entity -> Project \cup {Absent}]
    /\ deleted \subseteq Entity /\ arrived \subseteq Entity
    /\ enrolled \subseteq Project
    /\ journal \in Seq(Mutation) /\ Len(journal) <= MaxRows
    /\ acked \subseteq Seqs /\ promised \subseteq Seqs /\ sent \subseteq Seqs
    /\ worker \in [Worker -> [at: {"skip", "list", "push", "ack"},
                              groups: Seq(SUBSET Seqs)]]
    /\ \A w \in Worker : worker[w].at \in {"push", "ack"} => worker[w].groups # <<>>

Live(e) == home[e] # Absent /\ e \notin deleted

\* A store written before the journal existed: entities without rows, nothing
\* enrolled.  Soft deletes of observations predate the journal too.
Init ==
    /\ home \in [Entity -> Project \cup {Absent}]
    /\ deleted \in SUBSET {o \in Observation : home[o] # Absent}
    /\ enrolled = {}
    /\ journal = <<>>
    /\ acked = {} /\ promised = {} /\ sent = {} /\ arrived = {}
    /\ worker = [w \in Worker |-> Idle]

-------------------------------------------------------------------------------
(* The journal. *)

\* enqueueSyncMutationTx, for a sequence of rows written in one transaction while
\* the projects in `on` are enrolled.
EnqueueAll(rows, on) ==
    /\ Len(journal) + Len(rows) <= MaxRows
    /\ journal' = journal \o rows
    /\ promised' = {i \in 1..Len(journal \o rows) :
                        \/ i \in promised
                        \/ i > Len(journal) /\ (journal \o rows)[i].project \in on}

Row(e, op, p) == [entity |-> e, op |-> op, project |-> p]

Enqueue(e, op, p) == EnqueueAll(<<Row(e, op, p)>>, enrolled)

HasRow(e) == \E i \in Seqs : journal[i].entity = e
HasDeleteRow(e) == \E i \in Seqs : journal[i].entity = e /\ journal[i].op = "delete"

\* backfillProjectSyncMutationsTx: what project p lacks in the journal, given the
\* rows h and deletions d of the tables.
Lacking(h, d, p) ==
    LET At(E) == {e \in E : h[e] = p}
    IN  {Row(e, "upsert", p) : e \in {x \in At(Entity) \ d : ~HasRow(x)}}
        \cup {Row(e, "delete", p) : e \in {x \in At(Fresh) \cap d : ~HasDeleteRow(x)}}

\* Sessions first, prompts last, deletions after upserts.
Class(r) ==
    (IF r.entity \in Session THEN 0 ELSE IF r.entity \in Observation THEN 2 ELSE 4)
        + (IF r.op = "delete" THEN 1 ELSE 0)

Orderings(rows) ==
    {f \in [1..Cardinality(rows) -> rows] :
        IsInjective(f) /\ \A i, j \in DOMAIN f : i < j => Class(f[i]) <= Class(f[j])}

\* projectNeedsBackfill looks at live entities only.
NeedsBackfill(p) == \E e \in Entity : home[e] = p /\ e \notin deleted /\ ~HasRow(e)

-------------------------------------------------------------------------------
(* Local writes. *)

\* The session keeps the project it has; the row carries the caller's.
CreateSession(s, p) ==
    /\ home' = [home EXCEPT ![s] = IF @ = Absent THEN p ELSE @]
    /\ Enqueue(s, "upsert", p)
    /\ UNCHANGED <<deleted, arrived, enrolled, acked, sent, worker>>

EndSession(s) ==
    /\ home[s] # Absent
    /\ Enqueue(s, "upsert", home[s])
    /\ UNCHANGED <<data, enrolled, acked, sent, worker>>

\* AddObservation with no topic or duplicate to join, or AddPrompt: an identity with no
\* trace here.
Add(e, p) ==
    /\ home[e] = Absent /\ ~HasRow(e) /\ e \notin arrived
    /\ home' = [home EXCEPT ![e] = p]
    /\ Enqueue(e, "upsert", p)
    /\ UNCHANGED <<deleted, arrived, enrolled, acked, sent, worker>>

\* UpdateObservation, which may move it to another project, or AddObservation that
\* finds the topic or the duplicate (p is then the project it already has).
UpdateObservation(o, p) ==
    /\ Live(o)
    /\ home' = [home EXCEPT ![o] = p]
    /\ Enqueue(o, "upsert", p)
    /\ UNCHANGED <<deleted, arrived, enrolled, acked, sent, worker>>

DeleteObservation(o, hard) ==
    /\ Live(o)
    /\ IF hard
       THEN home' = [home EXCEPT ![o] = Absent] /\ UNCHANGED deleted
       ELSE deleted' = deleted \cup {o} /\ UNCHANGED home
    /\ Enqueue(o, "delete", home[o])
    /\ UNCHANGED <<arrived, enrolled, acked, sent, worker>>

\* The row of the prompt goes, its tombstone stays.
DeletePrompt(q) ==
    /\ Live(q)
    /\ deleted' = deleted \cup {q}
    /\ Enqueue(q, "delete", home[q])
    /\ UNCHANGED <<home, arrived, enrolled, acked, sent, worker>>

\* Rows removed without a word to the journal.
DropRows(gone) ==
    /\ home' = [e \in Entity |-> IF e \in gone THEN Absent ELSE home[e]]
    /\ UNCHANGED <<deleted, arrived, enrolled, journal, acked, promised, sent, worker>>

DeleteSession(s) ==
    /\ home[s] # Absent
    /\ home[s] \notin enrolled
    /\ \A o \in Observation : home[o] = Absent \/ SessionOf[o] # s
    /\ DropRows({s} \cup {q \in Prompt : Live(q) /\ SessionOf[q] = s})

PruneProject(p) ==
    /\ \A o \in Observation : ~(Live(o) /\ home[o] = p)
    /\ DropRows({s \in Session : home[s] = p} \cup {q \in Prompt : Live(q) /\ home[q] = p})

-------------------------------------------------------------------------------
(* Enrollment and the moves between projects. *)

Complete(h, p) ==
    /\ \E rows \in Orderings(Lacking(h, deleted, p)) : EnqueueAll(rows, enrolled)
    /\ arrived' = {e \in arrived : h[e] # p}

\* A project enrolled again finds rows of its earlier enrollment still pending.
EnrollProject(p) ==
    /\ p \notin enrolled
    /\ enrolled' = enrolled \cup {p}
    /\ \E rows \in Orderings(Lacking(home, deleted, p)) :
        /\ Len(journal) + Len(rows) <= MaxRows
        /\ journal' = journal \o rows
        /\ promised' = promised \cup {i \in 1..Len(journal \o rows) :
                           (journal \o rows)[i].project = p /\ i \notin acked}
    /\ arrived' = {e \in arrived : home[e] # p}
    /\ UNCHANGED <<home, deleted, acked, sent, worker>>

UnenrollProject(p) ==
    /\ p \in enrolled
    /\ enrolled' = enrolled \ {p}
    /\ promised' = {i \in promised : journal[i].project # p}
    /\ UNCHANGED <<data, journal, acked, sent, worker>>

Moved(from, q) ==
    [e \in Entity |-> IF home[e] \in from /\ ~(e \in Prompt \cap deleted) THEN q ELSE home[e]]

\* Mutant: the records move, the journal is not completed.
MoveNoBackfill(from, q) ==
    /\ home' = Moved(from, q)
    /\ arrived' = {e \in arrived : home'[e] # q}
    /\ UNCHANGED <<deleted, enrolled, journal, acked, promised, sent, worker>>

\* What is filed under some projects goes to another (tombstones stay) and the
\* journal of that one is completed, in one transaction.
Move(from, q) ==
    /\ home' = Moved(from, q)
    /\ Complete(home', q)
    /\ UNCHANGED <<deleted, enrolled, acked, sent, worker>>

\* MigrateProject moves a project that has records; MergeProjects any, and skips the
\* canonical one among its sources.
MigrateProject(p, q) ==
    /\ p # q
    /\ \E e \in Entity : home[e] = p /\ ~(e \in Prompt \cap deleted)
    /\ Move({p}, q)

MergeProjects(sources, q) == Move(sources \ {q}, q)

\* A process opens the store (any command does): New repairs the journal of each
\* enrolled project that lacks something, in a transaction of its own.
RepairEnrolled(p) ==
    /\ p \in enrolled
    /\ NeedsBackfill(p)
    /\ Complete(home, p)
    /\ UNCHANGED <<home, deleted, enrolled, acked, sent, worker>>

-------------------------------------------------------------------------------
(* What arrives from elsewhere: ApplyPulledMutation, or the import of a chunk. *)

Arrive(e) ==
    /\ arrived' = arrived \cup {e}
    /\ UNCHANGED <<enrolled, journal, acked, promised, sent, worker>>

\* An upsert overwrites; a tombstoned prompt may find it stale and ignore it.
PullUpsert(e, p) ==
    /\ \/ home' = [home EXCEPT ![e] = p] /\ deleted' = deleted \ {e}
       \/ e \in Prompt \cap deleted /\ UNCHANGED <<home, deleted>>
    /\ Arrive(e)

\* A prompt leaves a tombstone whether or not it was here.
PullDelete(e, p) ==
    /\ \/ e \in Observation /\ home[e] # Absent
          /\ \/ deleted' = deleted \cup {e} /\ UNCHANGED home
             \/ home' = [home EXCEPT ![e] = Absent] /\ deleted' = deleted \ {e}
       \/ e \in Prompt /\ home' = [home EXCEPT ![e] = p] /\ deleted' = deleted \cup {e}
    /\ Arrive(e)

-------------------------------------------------------------------------------
(* push. *)

Continue(w, at, groups) == worker' = [worker EXCEPT ![w] = [at |-> at, groups |-> groups]]

Pending == Seqs \ acked
Listable == {i \in Pending : journal[i].project \in enrolled}

\* Mutant: every pending row is acked, not only those of projects not enrolled.
SkipAckPending(w) ==
    /\ worker[w].at = "skip"
    /\ acked' = acked \cup Pending
    /\ Continue(w, "list", <<>>)
    /\ UNCHANGED <<data, enrolled, journal, promised, sent>>

SkipAckNonEnrolledMutations(w) ==
    /\ worker[w].at = "skip"
    /\ acked' = acked \cup (Pending \ Listable)
    /\ Continue(w, "list", <<>>)
    /\ UNCHANGED <<data, enrolled, journal, promised, sent>>

\* Mutant: the batch is the newest rows (ORDER BY seq DESC).
NewestBatch == {i \in Listable : Cardinality({j \in Listable : j > i}) < BatchSize}

\* The oldest rows (ORDER BY seq ASC LIMIT).
Batch == {i \in Listable : Cardinality({j \in Listable : j < i}) < BatchSize}

\* The batch grouped by project, the groups in the order of their first rows.
Groupings(batch) ==
    LET groups == {{j \in batch : journal[j].project = journal[i].project} : i \in batch}
    IN  {g \in [1..Cardinality(groups) -> groups] :
            \A k, l \in DOMAIN g : k < l => \E i \in g[k] : \A j \in g[l] : i < j}

ListPending(w) ==
    /\ worker[w].at = "list"
    /\ \/ Batch = {} /\ Continue(w, "skip", <<>>)
       \/ Batch # {} /\ \E groups \in Groupings(Batch) : Continue(w, "push", groups)
    /\ UNCHANGED <<data, enrolled, journal, acked, promised, sent>>

\* The server accepts a group whole, in order; the answer may get lost.
PushMutations(w) ==
    /\ worker[w].at = "push"
    /\ sent' = sent \cup Head(worker[w].groups)
    /\ \/ Continue(w, "ack", worker[w].groups)
       \/ Continue(w, "skip", <<>>)
    /\ UNCHANGED <<data, enrolled, journal, acked, promised>>

\* Mutant: the loop over the groups goes on after the last one.
AckWithoutEnd(w) ==
    /\ worker[w].at = "ack"
    /\ acked' = acked \cup Head(worker[w].groups)
    /\ Continue(w, "push", Tail(worker[w].groups))
    /\ UNCHANGED <<data, enrolled, journal, promised, sent>>

\* Mutant: everything up to the last seq of the group (AckSyncMutations).
AckUpTo(w) ==
    /\ worker[w].at = "ack"
    /\ acked' = acked \cup {i \in Seqs : \E j \in Head(worker[w].groups) : i <= j}
    /\ LET rest == Tail(worker[w].groups)
       IN  Continue(w, IF rest = <<>> THEN "skip" ELSE "push", rest)
    /\ UNCHANGED <<data, enrolled, journal, promised, sent>>

AckSyncMutationSeqs(w) ==
    /\ worker[w].at = "ack"
    /\ acked' = acked \cup Head(worker[w].groups)
    /\ LET rest == Tail(worker[w].groups)
       IN  Continue(w, IF rest = <<>> THEN "skip" ELSE "push", rest)
    /\ UNCHANGED <<data, enrolled, journal, promised, sent>>

\* A call fails, the server refuses the group or the process dies: the push is over
\* and the next cycle starts afresh.
Abandon(w) ==
    /\ worker[w].at # "skip"
    /\ Continue(w, "skip", <<>>)
    /\ UNCHANGED <<data, enrolled, journal, acked, promised, sent>>

-------------------------------------------------------------------------------
LocalWrite ==
    \/ \E s \in Session, p \in Project : CreateSession(s, p)
    \/ \E s \in Session : EndSession(s) \/ DeleteSession(s)
    \/ \E e \in Fresh, p \in Project : Add(e, p)
    \/ \E o \in Observation, p \in Project : UpdateObservation(o, p)
    \/ \E o \in Observation, hard \in BOOLEAN : DeleteObservation(o, hard)
    \/ \E q \in Prompt : DeletePrompt(q)

Admin ==
    \/ \E p \in Project : EnrollProject(p) \/ UnenrollProject(p) \/ RepairEnrolled(p)
    \/ \E p \in Project : PruneProject(p)
    \/ \E p, q \in Project : MigrateProject(p, q)
    \/ \E sources \in SUBSET Project, q \in Project : MergeProjects(sources, q)

Pull == \E e \in Entity, p \in Project : PullUpsert(e, p) \/ PullDelete(e, p)

Push(w) ==
    \/ SkipAckNonEnrolledMutations(w) \/ ListPending(w) \/ PushMutations(w)
    \/ AckSyncMutationSeqs(w) \/ Abandon(w)

Next == LocalWrite \/ Admin \/ Pull \/ \E w \in Worker : Push(w)

Spec == Init /\ [][Next]_vars

-------------------------------------------------------------------------------
(* Safety. *)

\* A change journalled for an enrolled project is never given up: as long as the
\* project stays enrolled its row is acked only after the server accepted it, with
\* any number of pushers, lost answers, enrollments and moves in between.
PromiseKept == promised \cap acked \subseteq sent

\* The server never gets a later mutation of a project before an earlier one that is
\* still owed to it (a session before its observations), whatever is retried.
NoGaps ==
    \A i, j \in Seqs :
        i < j /\ journal[i].project = journal[j].project /\ j \in sent =>
            i \in sent \/ i \in acked

\* Whatever lives in an enrolled project has a journal row of this machine, or has
\* come from elsewhere since the journal was last completed for that project:
\* enrollment, moves between projects and opening the store see to it together.
JournalCoverage ==
    \A e \in Entity : Live(e) /\ home[e] \in enrolled => HasRow(e) \/ e \in arrived

\* The journal is an outbox: whoever looks only at the project of each row, at the
\* rows promised and not acked and at those the server has accepted sees rows owed
\* until delivered, and delivered in the order of their project, whatever the
\* pushers, the skip-acks, the lost answers and the enrollments do meanwhile.
Outbox == INSTANCE Outbox WITH
    rows <- [i \in Seqs |-> journal[i].project],
    owed <- promised \ acked,
    delivered <- sent

ActsAsOutbox == Outbox!Spec

-------------------------------------------------------------------------------
(* What the documents say and the code does not do. *)

\* Enrollment preserves historical local data: what was written before the project
\* was enrolled is sent, or will be.
HistoryReplicated ==
    \A e \in Entity :
        Live(e) /\ home[e] \in enrolled /\ e \notin arrived =>
            \E i \in Seqs : journal[i].entity = e /\ (i \in sent \/ i \in Listable)
===============================================================================
