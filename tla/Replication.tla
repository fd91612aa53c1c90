------------------------------ MODULE Replication ------------------------------
(***************************************************************************)
(* Several machines that replicate enrolled projects through the mutation  *)
(* log of the cloud server: every machine runs the cycle of autosync (push *)
(* what its outbox holds, then pull what is new) over its local store,     *)
(* while its user goes on writing; the server is MutationLog.              *)
(*                                                                         *)
(* A change is one write to a record: the fields it sets here, and the     *)
(* fields its journal row carries and applying it sets elsewhere.  They    *)
(* need not be the same: EndSession with an empty summary sets it to NULL  *)
(* here, and applySessionPayloadTx keeps the old one for a NULL;           *)
(* CreateSession of a known session carries a project it does not set.     *)
(* Left out are prompts, whose tombstone may refuse an old upsert, and the *)
(* project a record is filed under: the moves from one to another, which   *)
(* need not be journalled, and who may have a row in the journal at all    *)
(* are in SyncJournal.  The lease, back-off and status of the cycle are in *)
(* Autosync.                                                               *)
(***************************************************************************)
EXTENDS MutationLog, FiniteSetsExt

CONSTANTS
    Device,
    Field,          \* the columns of the records
    Sets,           \* the fields each change sets where it is made
    Carries,        \* the fields each change sets where its row is applied
    None,           \* nobody; nothing applied yet
    PushBatch,      \* Config.PushBatchSize
    PullBatch       \* Config.PullBatchSize

ASSUME FieldsAssumption ==
    Sets \in [Change -> SUBSET Field] /\ Carries \in [Change -> SUBSET Field] /\ None \notin Change
ASSUME BatchAssumption == PushBatch \in Nat \ {0} /\ PullBatch \in Nat \ {0}
ASSUME DevicesAssumption == None \notin Device /\ None \notin Request

VARIABLES
    value,      \* per device and field: the change that set it last
    journal,    \* per device: the changes made on it, seq is the position
    acked,      \* per device: seqs with acked_at set
    cursor,     \* per device: sync_state.last_pulled_seq
    job,        \* per device: where its cycle is
    received,   \* history: seqs each device has applied
    hidden      \* history: seqs that could not be read yet when the device read a page
                \*   that reached beyond them

deviceVars == <<value, journal, acked, cursor, job, received, hidden>>
replVars == <<logVars, deviceVars>>

\* batch: the listed rows still to push; page and more: what the last pull brought.
Idle == [at |-> "idle", batch |-> {}, request |-> None, page |-> {}, more |-> FALSE]

DeviceTypeOK ==
    /\ value \in [Device -> [Field -> Change \cup {None}]]
    /\ journal \in [Device -> Seq(Change)] /\ acked \in [Device -> SUBSET Nat]
    /\ cursor \in [Device -> 0..Len(rows)]
    /\ job \in [Device -> [at: {"idle", "push", "wait", "pull", "apply"},
                           batch: SUBSET Nat, request: Request \cup {None},
                           page: SUBSET Seqs, more: BOOLEAN]]
    /\ \A d \in Device :
        /\ acked[d] \subseteq DOMAIN journal[d]
        /\ job[d].batch \subseteq DOMAIN journal[d]
        /\ job[d].at \in {"push", "wait"} => job[d].batch # {}
        /\ job[d].at = "apply" => job[d].page # {}
    /\ received \in [Device -> SUBSET visible] /\ hidden \in [Device -> SUBSET Seqs]

ReplInit ==
    /\ LogInit
    /\ value = [d \in Device |-> [f \in Field |-> None]]
    /\ journal = [d \in Device |-> <<>>]
    /\ acked = [d \in Device |-> {}]
    /\ cursor = [d \in Device |-> 0]
    /\ job = [d \in Device |-> Idle]
    /\ received = [d \in Device |-> {}]
    /\ hidden = [d \in Device |-> {}]

-------------------------------------------------------------------------------
(* A machine. *)

SetFields(d, fields, c) ==
    value' = [value EXCEPT ![d] = [f \in Field |-> IF f \in fields THEN c ELSE @[f]]]

\* A write to the local store, which journals it in the same transaction.
Write(d, c) ==
    /\ \A m \in Device : c \notin Range(journal[m])   \* each change is made once
    /\ SetFields(d, Sets[c], c)
    /\ journal' = [journal EXCEPT ![d] = Append(@, c)]
    /\ UNCHANGED <<logVars, acked, cursor, job, received, hidden>>

Pending(d) == DOMAIN journal[d] \ acked[d]

Oldest(d) == {i \in Pending(d) : Cardinality({j \in Pending(d) : j < i}) < PushBatch}

\* The cycle lists one batch of pending rows; with none it goes straight to pull.
StartCycle(d) ==
    /\ job[d].at = "idle"
    /\ job' = [job EXCEPT ![d] =
            IF Pending(d) = {} THEN [Idle EXCEPT !.at = "pull"]
            ELSE [Idle EXCEPT !.at = "push", !.batch = Oldest(d)]]
    /\ UNCHANGED <<logVars, value, journal, acked, cursor, received, hidden>>

\* The rows of the listed batch are pushed project by project, each group in order.
Group(d) ==
    {i \in job[d].batch :
        ProjectOf[journal[d][i]] = ProjectOf[journal[d][Min(job[d].batch)]]}

\* Mutant: a group comes in any order.
InAnyOrder(seqs) == {s \in [1..Cardinality(seqs) -> seqs] : IsInjective(s)}

InOrder(seqs) ==
    {s \in [1..Cardinality(seqs) -> seqs] : \A k, l \in DOMAIN s : k < l => s[k] < s[l]}

Push(d, r) ==
    /\ job[d].at = "push"
    /\ \E s \in InOrder(Group(d)) : Receive(r, [k \in DOMAIN s |-> journal[d][s[k]]])
    /\ job' = [job EXCEPT ![d].at = "wait", ![d].request = r]
    /\ UNCHANGED <<value, journal, acked, cursor, received, hidden>>

Answered(d, r) == job[d].at = "wait" /\ job[d].request = r

AckSyncMutationSeqs(d) == acked' = [acked EXCEPT ![d] = @ \cup Group(d)]

AfterPush(d) ==
    LET rest == job[d].batch \ Group(d)
    IN  [Idle EXCEPT !.at = IF rest = {} THEN "pull" ELSE "push", !.batch = rest]

\* Mutant: the group is acked whatever the server answered.
HearAnythingAsAccepted(d, r) ==
    /\ Answered(d, r)
    /\ Respond(r)
    /\ AckSyncMutationSeqs(d)
    /\ job' = [job EXCEPT ![d] = AfterPush(d)]
    /\ UNCHANGED <<value, journal, cursor, received, hidden>>

\* An accepted group is acked; any other answer ends the cycle as failed.
HearAnswer(d, r) ==
    /\ Answered(d, r)
    /\ Respond(r)
    /\ IF handler[r].at = "accepted"
       THEN /\ AckSyncMutationSeqs(d)
            /\ job' = [job EXCEPT ![d] = AfterPush(d)]
       ELSE /\ job' = [job EXCEPT ![d] = Idle]
            /\ UNCHANGED acked
    /\ UNCHANGED <<value, journal, cursor, received, hidden>>

\* A call or the store fails, an answer is lost or too late, or the process dies: the
\* cycle is over, its request goes on at the server.
Abort(d) ==
    /\ job[d].at # "idle"
    /\ job' = [job EXCEPT ![d] = Idle]
    /\ UNCHANGED <<logVars, value, journal, acked, cursor, received, hidden>>

\* What a page that reaches up to last leaves behind for good.
Overtaken(d, last) == {i \in 1..last : i \notin Readable(Allowed) /\ i \notin received[d]}

TakePage(d, page) ==
    /\ job' = [job EXCEPT ![d] =
            IF page = {} THEN Idle
            ELSE [Idle EXCEPT !.at = "apply", !.page = page,
                              !.more = \E i \in Readable(Allowed) : i > Max(page)]]
    /\ hidden' = [hidden EXCEPT ![d] =
            @ \cup IF page = {} THEN {} ELSE Overtaken(d, Max(page))]
    /\ UNCHANGED <<logVars, value, journal, acked, received>>

\* Mutant: the cursor is saved with the page, for all its rows at once.
FetchAndAdvance(d) ==
    /\ job[d].at = "pull"
    /\ LET page == PageSince(cursor[d], PullBatch, Allowed)
       IN  /\ TakePage(d, page)
           /\ cursor' = [cursor EXCEPT ![d] = Max(page \cup {@})]

Fetch(d) ==
    /\ job[d].at = "pull"
    /\ TakePage(d, PageSince(cursor[d], PullBatch, Allowed))
    /\ UNCHANGED cursor

AfterApply(d, i) ==
    IF job[d].page # {i} THEN [job[d] EXCEPT !.page = @ \ {i}]
    ELSE IF job[d].more THEN [Idle EXCEPT !.at = "pull"] ELSE Idle

\* Mutants: a device ignores the echo of its own changes; the loop over the page
\* goes on after its last row.
ApplyOnlyForeign(d) ==
    /\ job[d].at = "apply"
    /\ LET i == Min(job[d].page)
           c == rows[i].change
       IN  /\ SetFields(d, IF c \in Range(journal[d]) THEN {} ELSE Carries[c], c)
           /\ cursor' = [cursor EXCEPT ![d] = i]
           /\ received' = [received EXCEPT ![d] = @ \cup {i}]
           /\ job' = [job EXCEPT ![d] = AfterApply(d, i)]
    /\ UNCHANGED <<logVars, journal, acked, hidden>>
ApplyWithoutEnd(d) ==
    /\ job[d].at = "apply"
    /\ job' = [job EXCEPT ![d].page = @ \ {Min(@)}]
    /\ UNCHANGED <<logVars, value, journal, acked, cursor, received, hidden>>

\* ApplyPulledMutation: the change and the cursor are saved in one transaction.
ApplyPulledMutation(d) ==
    /\ job[d].at = "apply"
    /\ LET i == Min(job[d].page)
           c == rows[i].change
       IN  /\ SetFields(d, Carries[c], c)
           /\ cursor' = [cursor EXCEPT ![d] = i]
           /\ received' = [received EXCEPT ![d] = @ \cup {i}]
           /\ job' = [job EXCEPT ![d] = AfterApply(d, i)]
    /\ UNCHANGED <<logVars, journal, acked, hidden>>

-------------------------------------------------------------------------------
Machine(d) ==
    \/ \E c \in Change : Write(d, c)
    \/ StartCycle(d) \/ Fetch(d) \/ ApplyPulledMutation(d) \/ Abort(d)
    \/ \E r \in Request : Push(d, r) \/ HearAnswer(d, r)

\* The server works on; an answer nobody waits for is lost.
Server ==
    /\ \/ \E r \in Request :
            \/ Serve(r)
            \/ Respond(r) /\ \A d \in Device : ~Answered(d, r)
       \/ \E p \in Project, enabled \in BOOLEAN : SetProjectSyncEnabled(p, enabled)
    /\ UNCHANGED deviceVars

ReplNext == Server \/ \E d \in Device : Machine(d)

ReplSpec == ReplInit /\ [][ReplNext]_replVars

-------------------------------------------------------------------------------
(* Safety. *)

\* Every write is in the outbox of its machine or committed in the log, whatever
\* answers are lost, requests refused or cycles cut short.
NothingLost ==
    \A d \in Device : \A i \in DOMAIN journal[d] :
        i \in Pending(d) \/ \E k \in visible : rows[k].change = journal[d][i]

\* A machine misses a row for good only if the row could not be read when it read
\* the page that went beyond it: crashes and failures between the rows of a page
\* skip nothing.
SkipsExplained ==
    \A d \in Device : \A i \in Readable(Allowed) :
        i <= cursor[d] /\ i \notin received[d] => i \in hidden[d]

Earlier(d, j) ==
    {i \in DOMAIN journal[d] : i < j /\ ProjectOf[journal[d][i]] = ProjectOf[journal[d][j]]}

\* A machine's changes to a project come into the log in the order it made them: before
\* each row with one there are rows with all the earlier ones, although requests of
\* cycles that have ended go on, answers are lost and batches are sent again.
AuthorOrder ==
    \A d \in Device : \A j \in DOMAIN journal[d] : \A i \in Earlier(d, j) :
        \A k \in visible : rows[k].change = journal[d][j] =>
            \E l \in visible : l < k /\ rows[l].change = journal[d][i]

\* Whoever looks only at which rows of a machine's journal are pending and which are
\* committed sees the promise of SyncJournal kept by server and network together: rows
\* are owed until delivered, and delivered one project at a time and in its order.
Outbox(d) == INSTANCE Outbox WITH
    rows <- [i \in DOMAIN journal[d] |-> ProjectOf[journal[d][i]]],
    owed <- Pending(d),
    delivered <- {i \in DOMAIN journal[d] : \E k \in visible : rows[k].change = journal[d][i]}

ActsAsOutboxes ==
    /\ \A d \in Device : Outbox(d)!Init
    /\ [][\/ UNCHANGED <<journal, acked, rows, visible>>    \* all that Outbox(d) is made of
          \/ \A d \in Device : [Outbox(d)!Next]_(Outbox(d)!vars)]_replVars

LastRow(f) == Max({i \in Readable(Allowed) : f \in Carries[rows[i].change]})

\* The last to set the field was a change of this machine that no row carries.
KeptHere(d, f) == value[d][f] \in Change /\ f \notin Carries[value[d][f]]

\* A machine that owes nothing and has received every readable row shows in each field
\* what the log says last, so any two such machines show the same, but for the fields
\* it has itself emptied last: no row tells the others of those.
Agreement ==
    \A d \in Device :
        Pending(d) = {} /\ Readable(Allowed) \subseteq received[d] =>
            \A i \in Readable(Allowed) : \A f \in Carries[rows[i].change] :
                KeptHere(d, f) \/ value[d][f] = rows[LastRow(f)].change

-------------------------------------------------------------------------------
(* What the documents say and the code does not do. *)

\* "pulled by their local clients (eventual consistency)": the cursor never passes a
\* row that the machine has not received.
PulledByAll ==
    \A d \in Device : \A i \in Readable(Allowed) : i <= cursor[d] => i \in received[d]
===============================================================================
