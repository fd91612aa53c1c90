-------------------------- MODULE SyncJournal_proofs --------------------------
(***************************************************************************)
(* The outbox of SyncJournal keeps its promise for any set of entities,    *)
(* projects and pushers, any batch size and a journal of any length.  The  *)
(* inductive invariant adds what the promise leans on: a promised row      *)
(* belongs to a project that is enrolled now (so skip-ack cannot touch     *)
(* it), and a pusher that is about to ack acks what the server has.        *)
(***************************************************************************)
EXTENDS SyncJournal, SequenceTheorems, Positions

PromisedEnrolled == \A i \in promised : journal[i].project \in enrolled

AckSent == \A w \in Worker : worker[w].at = "ack" => Head(worker[w].groups) \subseteq sent

IInv == TypeOK /\ PromiseKept /\ PromisedEnrolled /\ AckSent

Homes == [Entity -> Project \cup {Absent}]

-------------------------------------------------------------------------------
(* What backfill adds is a sequence of mutations. *)

\* The rows a project lacks are finitely many: at most two for each entity.
LEMMA LackingTyped ==
    ASSUME NEW h, NEW d, NEW p \in Project
    PROVE  IsFiniteSet(Lacking(h, d, p)) /\ Lacking(h, d, p) \subseteq Mutation
<1> DEFINE U == {x \in {e \in Entity : h[e] = p} \ d : ~HasRow(x)}
           D == {x \in {e \in Fresh : h[e] = p} \cap d : ~HasDeleteRow(x)}
           upserts == {Row(e, "upsert", p) : e \in U}
           deletes == {Row(e, "delete", p) : e \in D}
<1>1. IsFiniteSet(U) /\ IsFiniteSet(D)
  <2>1. U \in SUBSET Entity /\ D \in SUBSET Entity
    BY DEF Entity
  <2> QED BY <2>1, FS_Subset, EntitiesAssumption
<1>2. \E f : f \in Surjection(U, upserts)
  <2>1. [e \in U |-> Row(e, "upsert", p)] \in Surjection(U, upserts)
    BY DEF Surjection
  <2> QED BY <2>1
<1>3. \E f : f \in Surjection(D, deletes)
  <2>1. [e \in D |-> Row(e, "delete", p)] \in Surjection(D, deletes)
    BY DEF Surjection
  <2> QED BY <2>1
<1>4. IsFiniteSet(upserts) /\ IsFiniteSet(deletes)
  <2> HIDE DEF U, D, upserts, deletes
  <2> QED BY <1>1, <1>2, <1>3, FS_Surjection
<1>5. Lacking(h, d, p) = upserts \cup deletes
  BY DEF Lacking
<1>6. upserts \subseteq Mutation /\ deletes \subseteq Mutation
  BY DEF Row, Mutation, Ops, Entity
<1> QED BY <1>4, <1>5, <1>6, FS_Union

\* An ordering of finitely many mutations is a sequence of mutations.
LEMMA OrderingsTyped ==
    ASSUME NEW S, IsFiniteSet(S), S \subseteq Mutation, NEW f \in Orderings(S)
    PROVE  f \in Seq(Mutation)
<1>1. Cardinality(S) \in Nat
  BY FS_CardinalityType
<1>2. f \in [1..Cardinality(S) -> Mutation]
  BY DEF Orderings
<1> QED BY <1>1, <1>2

\* The groups of a batch of journal rows are a sequence of sets of such rows, and
\* a batch that has rows has groups.
LEMMA GroupingsTyped ==
    ASSUME NEW n \in Nat, NEW batch \in SUBSET (1..n), NEW g \in Groupings(batch)
    PROVE  g \in Seq(SUBSET (1..n)) /\ (batch # {} => g # <<>>)
<1> DEFINE groups == {{j \in batch : journal[j].project = journal[i].project} : i \in batch}
<1>1. g \in [1..Cardinality(groups) -> groups]
  BY DEF Groupings
<1>2. groups \in SUBSET (SUBSET (1..n))
  OBVIOUS
<1>3. IsFiniteSet(groups)
  <2>1. IsFiniteSet(1..n)
    BY FS_Interval
  <2>2. IsFiniteSet(SUBSET (1..n))
    BY <2>1, FS_SUBSET
  <2> QED BY <1>2, <2>2, FS_Subset
<1>4. Cardinality(groups) \in Nat
  BY <1>3, FS_CardinalityType
<1>5. g \in Seq(SUBSET (1..n)) /\ Len(g) = Cardinality(groups)
  <2> HIDE DEF groups
  <2>1. g \in [1..Cardinality(groups) -> SUBSET (1..n)]
    BY <1>1, <1>2
  <2> QED BY <2>1, <1>4
<1>6. batch # {} => groups # {}
  <2> SUFFICES ASSUME NEW i \in batch PROVE groups # {}
    OBVIOUS
  <2>1. {j \in batch : journal[j].project = journal[i].project} \in groups
    OBVIOUS
  <2> QED BY <2>1
<1>7. groups # {} => Cardinality(groups) # 0
  BY <1>3, FS_EmptySet
<1> HIDE DEF groups
<1> QED BY <1>5, <1>6, <1>7

-------------------------------------------------------------------------------
(* The steps. *)

\* The initial state satisfies the inductive invariant.
LEMMA InitIInv == Init => IInv
<1> SUFFICES ASSUME Init PROVE IInv
  OBVIOUS
<1>1. TypeOK
  BY BoundsAssumption DEF Init, TypeOK, Entity, Fresh, Idle, Seqs
<1>2. PromiseKept /\ PromisedEnrolled
  BY DEF Init, PromiseKept, PromisedEnrolled
<1>3. AckSent
  BY DEF Init, AckSent, Idle
<1> QED BY <1>1, <1>2, <1>3 DEF IInv

\* Journal rows that are appended keep every part of the invariant: they are acked
\* by nobody, and promised only when their project is enrolled.
LEMMA AppendStep ==
    ASSUME IInv, NEW rows \in Seq(Mutation),
           home' \in Homes, deleted' \subseteq Entity, arrived' \subseteq Entity,
           enrolled' \subseteq Project, enrolled \subseteq enrolled',
           Len(journal) + Len(rows) <= MaxRows, journal' = journal \o rows,
           promised' \subseteq 1..Len(journal \o rows),
           \A i \in promised' : i \in promised \/ ( /\ i \notin acked
                                                     /\ journal'[i].project \in enrolled'),
           UNCHANGED <<acked, sent, worker>>
    PROVE  IInv'
<1>1. /\ journal' \in Seq(Mutation)
      /\ Len(journal') = Len(journal) + Len(rows)
      /\ Len(journal) \in Nat /\ Len(rows) \in Nat
      /\ \A i \in Seqs : journal'[i] = journal[i]
  BY ConcatProperties, LenProperties DEF IInv, TypeOK, Seqs
<1>2. Seqs \subseteq Seqs'
  BY <1>1 DEF Seqs
<1>3. \A w \in Worker : /\ worker'[w] \in [at: {"skip", "list", "push", "ack"},
                                          groups: Seq(SUBSET Seqs')]
                        /\ worker'[w].at \in {"push", "ack"} => worker'[w].groups # <<>>
  <2> SUFFICES ASSUME NEW w \in Worker
               PROVE  worker[w].groups \in Seq(SUBSET Seqs')
    BY DEF IInv, TypeOK
  <2>1. worker[w].groups \in Seq(SUBSET Seqs)
    BY DEF IInv, TypeOK
  <2>2. SUBSET Seqs \subseteq SUBSET Seqs'
    BY <1>2
  <2> QED BY <2>1, <2>2, SeqMonotonic
<1>4. TypeOK'
  <2>1. worker' \in [Worker -> [at: {"skip", "list", "push", "ack"},
                               groups: Seq(SUBSET Seqs')]]
    BY <1>3 DEF IInv, TypeOK
  <2>2. acked' \subseteq Seqs' /\ promised' \subseteq Seqs' /\ sent' \subseteq Seqs'
    BY <1>2 DEF IInv, TypeOK, Seqs
  <2> QED BY <1>1, <1>3, <2>1, <2>2 DEF TypeOK, Homes
<1>5. PromiseKept'
  BY DEF IInv, PromiseKept
<1>6. PromisedEnrolled'
  BY <1>1 DEF IInv, PromisedEnrolled, TypeOK
<1>7. AckSent'
  BY DEF IInv, AckSent
<1> QED BY <1>4, <1>5, <1>6, <1>7 DEF IInv

\* A transaction that writes rows while the enrollment stays as it is.
LEMMA EnqueueStep ==
    ASSUME IInv, NEW rows \in Seq(Mutation), EnqueueAll(rows, enrolled),
           home' \in Homes, deleted' \subseteq Entity, arrived' \subseteq Entity,
           UNCHANGED <<enrolled, acked, sent, worker>>
    PROVE  IInv'
<1>1. \A i \in acked : i <= Len(journal)
  BY LenProperties DEF IInv, TypeOK, Seqs
<1>2. Len(journal) \in Nat
  BY LenProperties DEF IInv, TypeOK
<1>3. \A i \in promised' : i \in promised \/ (i \notin acked /\ journal'[i].project \in enrolled')
  BY <1>1, <1>2 DEF EnqueueAll
<1>4. /\ promised' \subseteq 1..Len(journal \o rows)
      /\ journal' = journal \o rows
      /\ Len(journal) + Len(rows) <= MaxRows
  BY DEF EnqueueAll
<1>5. enrolled' \subseteq Project
  BY DEF IInv, TypeOK
<1> QED BY <1>3, <1>4, <1>5, AppendStep

\* A local write that journals one row.
LEMMA EnqueueOneStep ==
    ASSUME IInv, NEW e \in Entity, NEW op \in Ops, NEW p \in Project, Enqueue(e, op, p),
           home' \in Homes, deleted' \subseteq Entity, arrived' \subseteq Entity,
           UNCHANGED <<enrolled, acked, sent, worker>>
    PROVE  IInv'
<1>1. <<Row(e, op, p)>> \in Seq(Mutation)
  BY DEF Row, Mutation
<1> QED BY <1>1, EnqueueStep DEF Enqueue

\* A completion of the journal of one project.
LEMMA CompleteStep ==
    ASSUME IInv, NEW h \in Homes, NEW p \in Project, Complete(h, p), home' \in Homes,
           UNCHANGED <<deleted, enrolled, acked, sent, worker>>
    PROVE  IInv'
<1>1. PICK rows \in Orderings(Lacking(h, deleted, p)) : EnqueueAll(rows, enrolled)
  BY DEF Complete
<1>2. rows \in Seq(Mutation)
  BY LackingTyped, OrderingsTyped
<1>3. deleted' \subseteq Entity /\ arrived' \subseteq Entity
  BY DEF Complete, IInv, TypeOK
<1> QED BY <1>1, <1>2, <1>3, EnqueueStep

\* A step that leaves the journal and the enrollment alone.
LEMMA DataStep ==
    ASSUME IInv, home' \in Homes, deleted' \subseteq Entity, arrived' \subseteq Entity,
           UNCHANGED <<enrolled, journal, acked, promised, sent, worker>>
    PROVE  IInv'
BY DEF IInv, TypeOK, PromiseKept, PromisedEnrolled, AckSent, Seqs, Homes

\* Every local write keeps the invariant.
LEMMA LocalWriteStep == IInv /\ LocalWrite => IInv'
<1> SUFFICES ASSUME IInv, LocalWrite PROVE IInv'
  OBVIOUS
<1> USE DEF Homes
<1>0. home \in Homes /\ deleted \subseteq Entity /\ arrived \subseteq Entity
  BY DEF IInv, TypeOK
<1>1. ASSUME NEW s \in Session, NEW p \in Project, CreateSession(s, p) PROVE IInv'
  BY <1>0, <1>1, EnqueueOneStep DEF CreateSession, Ops, Entity
<1>2. ASSUME NEW s \in Session, EndSession(s) PROVE IInv'
  <2>1. home[s] \in Project
    BY <1>0, <1>2 DEF EndSession, Entity
  <2> QED BY <1>0, <1>2, <2>1, EnqueueOneStep DEF EndSession, data, Ops, Entity
<1>3. ASSUME NEW s \in Session, DeleteSession(s) PROVE IInv'
  BY <1>0, <1>3, DataStep DEF DeleteSession, DropRows
<1>4. ASSUME NEW e \in Fresh, NEW p \in Project, Add(e, p) PROVE IInv'
  BY <1>0, <1>4, EnqueueOneStep DEF Add, Ops, Entity
<1>5. ASSUME NEW o \in Observation, NEW p \in Project, UpdateObservation(o, p) PROVE IInv'
  BY <1>0, <1>5, EnqueueOneStep DEF UpdateObservation, Ops, Entity, Fresh
<1>6. ASSUME NEW o \in Observation, NEW hard \in BOOLEAN, DeleteObservation(o, hard)
      PROVE  IInv'
  <2>1. o \in Entity /\ home[o] \in Project
    BY <1>0, <1>6 DEF DeleteObservation, Live, Entity, Fresh
  <2>2. home' \in Homes /\ deleted' \subseteq Entity
    BY <1>0, <1>6, <2>1 DEF DeleteObservation
  <2> QED BY <1>0, <1>6, <2>1, <2>2, EnqueueOneStep DEF DeleteObservation, Ops
<1>7. ASSUME NEW q \in Prompt, DeletePrompt(q) PROVE IInv'
  <2>1. q \in Entity /\ home[q] \in Project
    BY <1>0, <1>7 DEF DeletePrompt, Live, Entity, Fresh
  <2> QED BY <1>0, <1>7, <2>1, EnqueueOneStep DEF DeletePrompt, Ops
<1> QED BY <1>1, <1>2, <1>3, <1>4, <1>5, <1>6, <1>7 DEF LocalWrite

\* A project is enrolled: its pending rows, old and new, become a promise.
LEMMA EnrollStep ==
    ASSUME IInv, NEW p \in Project, EnrollProject(p)
    PROVE  IInv'
<1>1. PICK rows \in Orderings(Lacking(home, deleted, p)) :
          /\ Len(journal) + Len(rows) <= MaxRows
          /\ journal' = journal \o rows
          /\ promised' = promised \cup {i \in 1..Len(journal \o rows) :
                             (journal \o rows)[i].project = p /\ i \notin acked}
  BY DEF EnrollProject
<1>2. rows \in Seq(Mutation)
  BY LackingTyped, OrderingsTyped
<1>3. promised' \subseteq 1..Len(journal \o rows)
  <2>1. Len(journal \o rows) = Len(journal) + Len(rows) /\ Len(journal) \in Nat /\ Len(rows) \in Nat
    BY <1>2, ConcatProperties, LenProperties DEF IInv, TypeOK
  <2>2. promised \subseteq 1..Len(journal \o rows)
    BY <2>1 DEF IInv, TypeOK, Seqs
  <2> QED BY <1>1, <2>2
<1>4. \A i \in promised' : i \in promised \/ (i \notin acked /\ journal'[i].project \in enrolled')
  BY <1>1 DEF EnrollProject
<1>5. /\ home' \in Homes /\ deleted' \subseteq Entity /\ arrived' \subseteq Entity
      /\ enrolled' \subseteq Project /\ enrolled \subseteq enrolled'
      /\ UNCHANGED <<acked, sent, worker>>
  BY DEF EnrollProject, IInv, TypeOK, Homes
<1> QED BY <1>1, <1>2, <1>3, <1>4, <1>5, AppendStep

\* A project is no longer enrolled: nothing of it is promised any more.
LEMMA UnenrollStep ==
    ASSUME IInv, NEW p \in Project, UnenrollProject(p)
    PROVE  IInv'
<1>1. TypeOK'
  BY DEF IInv, TypeOK, UnenrollProject, data, Seqs
<1>2. PromiseKept' /\ PromisedEnrolled' /\ AckSent'
  BY DEF IInv, PromiseKept, PromisedEnrolled, AckSent, UnenrollProject
<1> QED BY <1>1, <1>2 DEF IInv

\* A move between projects is a completion of the journal of the target.
LEMMA MoveStep ==
    ASSUME IInv, NEW from \in SUBSET Project, NEW q \in Project, Move(from, q)
    PROVE  IInv'
<1>1. home' \in Homes
  BY DEF Move, Moved, IInv, TypeOK, Homes
<1>2. Complete(home', q) /\ UNCHANGED <<deleted, enrolled, acked, sent, worker>>
  BY DEF Move
<1> QED BY <1>1, <1>2, CompleteStep

\* Every administrative step keeps the invariant.
LEMMA AdminStep == IInv /\ Admin => IInv'
<1> SUFFICES ASSUME IInv, Admin PROVE IInv'
  OBVIOUS
<1>0. home \in Homes /\ deleted \subseteq Entity /\ arrived \subseteq Entity
  BY DEF IInv, TypeOK, Homes
<1>1. ASSUME NEW p \in Project, RepairEnrolled(p) PROVE IInv'
  BY <1>0, <1>1, CompleteStep DEF RepairEnrolled
<1>2. ASSUME NEW p \in Project, PruneProject(p) PROVE IInv'
  <2>1. home' \in Homes
    BY <1>0, <1>2 DEF PruneProject, DropRows, Homes
  <2> QED BY <1>0, <1>2, <2>1, DataStep DEF PruneProject, DropRows
<1>3. ASSUME NEW p \in Project, NEW q \in Project, MigrateProject(p, q) PROVE IInv'
  BY <1>3, MoveStep DEF MigrateProject
<1>4. ASSUME NEW sources \in SUBSET Project, NEW q \in Project, MergeProjects(sources, q)
      PROVE  IInv'
  BY <1>4, MoveStep DEF MergeProjects
<1> QED BY <1>1, <1>2, <1>3, <1>4, EnrollStep, UnenrollStep DEF Admin

\* Every arrival keeps the invariant.
LEMMA PullStep == IInv /\ Pull => IInv'
<1> SUFFICES ASSUME IInv, NEW e \in Entity, NEW p \in Project,
                    PullUpsert(e, p) \/ PullDelete(e, p)
             PROVE  IInv'
  BY DEF Pull
<1>1. home' \in Homes /\ deleted' \subseteq Entity
  <2>1. home \in Homes /\ deleted \subseteq Entity
    BY DEF IInv, TypeOK, Homes
  <2>2. CASE PullUpsert(e, p)
    BY <2>1, <2>2 DEF PullUpsert, Homes
  <2>3. CASE PullDelete(e, p)
    BY <2>1, <2>3 DEF PullDelete, Homes
  <2> QED BY <2>2, <2>3
<1>2. arrived' \subseteq Entity
  BY DEF PullUpsert, PullDelete, Arrive, IInv, TypeOK
<1>3. UNCHANGED <<enrolled, journal, acked, promised, sent, worker>>
  BY DEF PullUpsert, PullDelete, Arrive
<1> QED BY <1>1, <1>2, <1>3, DataStep

\* Every step of a pusher keeps the invariant.
LEMMA PushStep ==
    ASSUME IInv, NEW w \in Worker, Push(w)
    PROVE  IInv'
<1> DEFINE At == {"skip", "list", "push", "ack"}
<1>0. /\ worker \in [Worker -> [at: At, groups: Seq(SUBSET Seqs)]]
      /\ \A v \in Worker : worker[v].at \in {"push", "ack"} => worker[v].groups # <<>>
      /\ <<>> \in Seq(SUBSET Seqs)
  BY DEF IInv, TypeOK
\* What the step owes when only the pusher, acked and sent move.
<1>1. ASSUME NEW at \in At, NEW groups \in Seq(SUBSET Seqs), Continue(w, at, groups),
             at \in {"push", "ack"} => groups # <<>>,
             at = "ack" => Head(groups) \subseteq sent',
             UNCHANGED <<data, enrolled, journal, promised>>,
             acked' \subseteq Seqs, sent' \subseteq Seqs, sent \subseteq sent',
             promised \cap acked' \subseteq sent'
      PROVE  IInv'
  <2>1. /\ worker' \in [Worker -> [at: At, groups: Seq(SUBSET Seqs)]]
        /\ worker'[w].at = at /\ worker'[w].groups = groups
        /\ \A v \in Worker \ {w} : worker'[v] = worker[v]
    BY <1>0, <1>1 DEF Continue
  <2>2. \A v \in Worker : worker'[v].at \in {"push", "ack"} => worker'[v].groups # <<>>
    BY <1>0, <1>1, <2>1
  <2>3. TypeOK'
    BY <1>1, <2>1, <2>2 DEF IInv, TypeOK, data, Seqs
  <2>4. PromiseKept' /\ PromisedEnrolled'
    BY <1>1 DEF IInv, PromiseKept, PromisedEnrolled
  <2>5. AckSent'
    BY <1>1, <2>1 DEF IInv, AckSent
  <2> QED BY <2>3, <2>4, <2>5 DEF IInv
<1>2. CASE SkipAckNonEnrolledMutations(w)
  <2>1. acked' \subseteq Seqs
    BY <1>2 DEF SkipAckNonEnrolledMutations, Pending, IInv, TypeOK
  <2>2. promised \cap acked' \subseteq sent
    BY <1>2 DEF SkipAckNonEnrolledMutations, Pending, Listable, IInv, TypeOK,
                PromiseKept, PromisedEnrolled
  <2> QED BY <1>0, <1>1, <1>2, <2>1, <2>2 DEF SkipAckNonEnrolledMutations, IInv, TypeOK
<1>3. CASE ListPending(w)
  <2>1. UNCHANGED <<data, enrolled, journal, acked, promised, sent>>
    BY <1>3 DEF ListPending
  <2>2. /\ acked' \subseteq Seqs /\ sent' \subseteq Seqs /\ sent \subseteq sent'
        /\ promised \cap acked' \subseteq sent'
    BY <2>1 DEF IInv, TypeOK, PromiseKept
  <2>3. CASE Continue(w, "skip", <<>>)
    BY <1>0, <1>1, <2>1, <2>2, <2>3
  <2>4. CASE Batch # {} /\ \E groups \in Groupings(Batch) : Continue(w, "push", groups)
    <3>1. PICK groups \in Groupings(Batch) : Continue(w, "push", groups)
      BY <2>4
    <3>2. Batch \in SUBSET (1..Len(journal)) /\ Len(journal) \in Nat
      BY LenProperties DEF Batch, Listable, Pending, Seqs, IInv, TypeOK
    <3>3. groups \in Seq(SUBSET Seqs) /\ groups # <<>>
      BY <2>4, <3>1, <3>2, GroupingsTyped DEF Seqs
    <3> QED BY <1>1, <2>1, <2>2, <3>1, <3>3
  <2> QED BY <1>3, <2>3, <2>4 DEF ListPending
<1>4. CASE PushMutations(w)
  <2> DEFINE groups == worker[w].groups
  <2>1. groups \in Seq(SUBSET Seqs) /\ groups # <<>>
    BY <1>0, <1>4 DEF PushMutations
  <2>2. Head(groups) \in SUBSET Seqs
    BY <2>1
  <2>3. /\ UNCHANGED <<data, enrolled, journal, acked, promised>>
        /\ sent' = sent \cup Head(groups)
    BY <1>4 DEF PushMutations
  <2>4. /\ acked' \subseteq Seqs /\ sent' \subseteq Seqs /\ sent \subseteq sent'
        /\ promised \cap acked' \subseteq sent' /\ Head(groups) \subseteq sent'
    BY <2>2, <2>3 DEF IInv, TypeOK, PromiseKept
  <2>5. Continue(w, "ack", groups) \/ Continue(w, "skip", <<>>)
    BY <1>4 DEF PushMutations
  <2> HIDE DEF groups
  <2> QED BY <1>0, <1>1, <2>1, <2>3, <2>4, <2>5
<1>5. CASE AckSyncMutationSeqs(w)
  <2> DEFINE groups == worker[w].groups
  <2>1. groups \in Seq(SUBSET Seqs) /\ groups # <<>>
    BY <1>0, <1>5 DEF AckSyncMutationSeqs
  <2>2. Head(groups) \in SUBSET Seqs /\ Tail(groups) \in Seq(SUBSET Seqs)
    BY <2>1
  <2>3. /\ UNCHANGED <<data, enrolled, journal, promised, sent>>
        /\ acked' = acked \cup Head(groups)
    BY <1>5 DEF AckSyncMutationSeqs
  <2>4. Head(groups) \subseteq sent
    BY <1>5 DEF AckSyncMutationSeqs, IInv, AckSent
  <2>5. /\ acked' \subseteq Seqs /\ sent' \subseteq Seqs /\ sent \subseteq sent'
        /\ promised \cap acked' \subseteq sent'
    BY <2>2, <2>3, <2>4 DEF IInv, TypeOK, PromiseKept
  <2>6. \/ Tail(groups) = <<>> /\ Continue(w, "skip", <<>>)
        \/ Tail(groups) # <<>> /\ Continue(w, "push", Tail(groups))
    BY <1>5 DEF AckSyncMutationSeqs
  <2> HIDE DEF groups
  <2> QED BY <1>0, <1>1, <2>2, <2>3, <2>5, <2>6
<1>6. CASE Abandon(w)
  BY <1>0, <1>1, <1>6 DEF Abandon, IInv, TypeOK, PromiseKept
<1> QED BY <1>2, <1>3, <1>4, <1>5, <1>6 DEF Push

\* Every step keeps the invariant.
LEMMA NextIInv == IInv /\ [Next]_vars => IInv'
<1> SUFFICES ASSUME IInv, [Next]_vars PROVE IInv'
  OBVIOUS
<1>1. CASE UNCHANGED vars
  BY <1>1, DataStep DEF vars, IInv, TypeOK, Homes
<1> QED BY <1>1, LocalWriteStep, AdminStep, PullStep, PushStep DEF Next

-------------------------------------------------------------------------------
\* The inductive invariant holds in every reachable state.
LEMMA IInvHolds == Spec => []IInv
BY InitIInv, NextIInv, PTL DEF Spec

\* The types of the store and of its outbox: what backfill appends are mutations,
\* what the pushers carry are rows of the journal, and a pusher in the loop over the
\* groups always has one.
THEOREM TypeCorrect == Spec => []TypeOK
<1>1. IInv => TypeOK
  BY DEF IInv
<1> QED BY <1>1, IInvHolds, PTL

\* A row promised to the cloud is acked only after the server accepted it: no
\* interleaving of pushers, writes, enrollments and moves loses a change.
THEOREM NothingLost == Spec => []PromiseKept
<1>1. IInv => PromiseKept
  BY DEF IInv
<1> QED BY <1>1, IInvHolds, PTL

-------------------------------------------------------------------------------
(* Coverage: what lives in an enrolled project has a row, or came from elsewhere. *)

\* An ordering of a finite set of mutations leaves none out.
LEMMA OrderingsCover ==
    ASSUME NEW S, IsFiniteSet(S), S \subseteq Mutation, NEW f \in Orderings(S), NEW r \in S
    PROVE  \E k \in 1..Len(f) : f[k] = r
<1>1. Cardinality(S) \in Nat
  BY FS_CardinalityType
<1>2. f \in Injection(1..Cardinality(S), S)
  BY DEF Orderings, Injection
<1>3. Cardinality(1..Cardinality(S)) = Cardinality(S)
  BY <1>1, FS_Interval
<1>4. f \in Surjection(1..Cardinality(S), S)
  BY <1>2, <1>3, FS_Injection
<1>5. PICK k \in 1..Cardinality(S) : f[k] = r
  BY <1>4 DEF Surjection
<1>6. Len(f) = Cardinality(S)
  BY <1>1, <1>2 DEF Injection
<1> QED BY <1>5, <1>6

\* Rows appended to the journal: the old ones stay where they are, the new ones are
\* rows of it.
LEMMA AppendRows ==
    ASSUME TypeOK, NEW rows \in Seq(Mutation), journal' = journal \o rows
    PROVE  /\ Seqs \subseteq Seqs' /\ \A i \in Seqs : journal'[i] = journal[i]
           /\ \A k \in 1..Len(rows) : \E i \in Seqs' : journal'[i] = rows[k]
           /\ \A e : HasRow(e) => HasRow(e)'
<1>1. /\ Len(journal') = Len(journal) + Len(rows)
      /\ Len(journal) \in Nat /\ Len(rows) \in Nat
      /\ \A i \in 1..Len(journal) + Len(rows) :
            journal'[i] = IF i <= Len(journal) THEN journal[i] ELSE rows[i - Len(journal)]
  BY ConcatProperties, LenProperties DEF TypeOK
<1>2. Seqs \subseteq Seqs' /\ \A i \in Seqs : journal'[i] = journal[i]
  BY <1>1 DEF Seqs
<1>3. ASSUME NEW k \in 1..Len(rows)
      PROVE  \E i \in Seqs' : journal'[i] = rows[k]
  <2>1. Len(journal) + k \in Seqs' /\ journal'[Len(journal) + k] = rows[k]
    BY <1>1 DEF Seqs
  <2> QED BY <2>1
<1> QED BY <1>2, <1>3 DEF HasRow

\* A transaction keeps the coverage when everything it makes live in an enrolled
\* project has a row, old or new, or has just arrived.
LEMMA CoverStep ==
    ASSUME TypeOK, JournalCoverage, NEW rows \in Seq(Mutation), journal' = journal \o rows,
           \A e \in Entity : (Live(e) /\ home[e] \in enrolled)' =>
               \/ Live(e) /\ home[e] \in enrolled /\ (e \in arrived => e \in arrived')
               \/ HasRow(e) \/ e \in arrived'
               \/ \E k \in 1..Len(rows) : rows[k].entity = e
    PROVE  JournalCoverage'
<1> SUFFICES ASSUME NEW e \in Entity, (Live(e) /\ home[e] \in enrolled)'
             PROVE  HasRow(e)' \/ e \in arrived'
  BY DEF JournalCoverage
<1>1. CASE Live(e) /\ home[e] \in enrolled /\ (e \in arrived => e \in arrived')
  BY <1>1, AppendRows DEF JournalCoverage
<1>2. CASE HasRow(e) \/ e \in arrived'
  BY <1>2, AppendRows
<1>3. ASSUME NEW k \in 1..Len(rows), rows[k].entity = e
      PROVE  HasRow(e)'
  BY <1>3, AppendRows DEF HasRow
<1> QED BY <1>1, <1>2, <1>3

\* A local write: the entity it is about has its row, the others are as they were.
LEMMA CoverOneStep ==
    ASSUME TypeOK, JournalCoverage, NEW e \in Entity, NEW op \in Ops, NEW p \in Project,
           Enqueue(e, op, p), UNCHANGED <<enrolled, arrived>>,
           \A d \in Entity \ {e} : Live(d)' => Live(d) /\ home'[d] = home[d]
    PROVE  JournalCoverage'
<1> DEFINE rows == <<Row(e, op, p)>>
<1>1. rows \in Seq(Mutation) /\ journal' = journal \o rows
  BY DEF Enqueue, EnqueueAll, Row, Mutation
<1>2. 1 \in 1..Len(rows) /\ rows[1].entity = e
  BY DEF Row
<1> QED BY <1>1, <1>2, CoverStep

\* A completion: what it finds in the project and lacks a row gets one.
LEMMA LackingCovers ==
    ASSUME TypeOK, NEW h, NEW p \in Project, NEW rows \in Orderings(Lacking(h, deleted, p)),
           NEW e \in Entity, h[e] = p, e \notin deleted
    PROVE  HasRow(e) \/ \E k \in 1..Len(rows) : rows[k].entity = e
<1>1. CASE HasRow(e)
  BY <1>1
<1>2. CASE ~HasRow(e)
  <2>1. Row(e, "upsert", p) \in Lacking(h, deleted, p)
    BY <1>2 DEF Lacking
  <2>2. PICK k \in 1..Len(rows) : rows[k] = Row(e, "upsert", p)
    BY <2>1, LackingTyped, OrderingsCover
  <2> QED BY <2>2 DEF Row
<1> QED BY <1>1, <1>2

\* Every step keeps the coverage.
LEMMA NextCoverage == TypeOK /\ JournalCoverage /\ [Next]_vars => JournalCoverage'
<1> SUFFICES ASSUME TypeOK, JournalCoverage, [Next]_vars PROVE JournalCoverage'
  OBVIOUS
<1>0. /\ home \in Homes /\ Session \subseteq Entity /\ Observation \subseteq Entity
      /\ Prompt \subseteq Entity /\ Fresh \subseteq Entity /\ Absent \notin Project
      /\ enrolled \subseteq Project
  BY EntitiesAssumption DEF TypeOK, Homes, Entity, Fresh
\* Steps without rows: whatever is live and was not has arrived.
<1>1. ASSUME UNCHANGED <<journal, arrived>>, enrolled' \subseteq enrolled,
             \A e \in Entity : Live(e)' => Live(e) /\ home'[e] = home[e]
      PROVE  JournalCoverage'
  BY <1>1 DEF JournalCoverage, HasRow, Seqs
<1>2. ASSUME NEW s \in Session, NEW p \in Project, CreateSession(s, p) PROVE JournalCoverage'
  <2>1. \A d \in Entity \ {s} : Live(d)' => Live(d) /\ home'[d] = home[d]
    BY <1>0, <1>2 DEF CreateSession, Live, Homes
  <2> QED BY <1>0, <1>2, <2>1, CoverOneStep DEF CreateSession, Ops
<1>3. ASSUME NEW s \in Session, EndSession(s) PROVE JournalCoverage'
  <2>1. home[s] \in Project
    BY <1>0, <1>3 DEF EndSession, Homes
  <2> QED BY <1>0, <1>3, <2>1, CoverOneStep DEF EndSession, data, Ops, Live
<1>4. ASSUME NEW s \in Session, DeleteSession(s) PROVE JournalCoverage'
  BY <1>0, <1>1, <1>4 DEF DeleteSession, DropRows, Live
<1>5. ASSUME NEW e \in Fresh, NEW p \in Project, Add(e, p) PROVE JournalCoverage'
  <2>1. \A d \in Entity \ {e} : Live(d)' => Live(d) /\ home'[d] = home[d]
    BY <1>0, <1>5 DEF Add, Live, Homes
  <2> QED BY <1>0, <1>5, <2>1, CoverOneStep DEF Add, Ops
<1>6. ASSUME NEW o \in Observation, NEW p \in Project, UpdateObservation(o, p)
      PROVE  JournalCoverage'
  <2>1. \A d \in Entity \ {o} : Live(d)' => Live(d) /\ home'[d] = home[d]
    BY <1>0, <1>6 DEF UpdateObservation, Live, Homes
  <2> QED BY <1>0, <1>6, <2>1, CoverOneStep DEF UpdateObservation, Ops
<1>7. ASSUME NEW o \in Observation, NEW hard \in BOOLEAN, DeleteObservation(o, hard)
      PROVE  JournalCoverage'
  <2>1. home[o] \in Project
    BY <1>0, <1>7 DEF DeleteObservation, Live, Homes
  <2>2. \A d \in Entity \ {o} : Live(d)' => Live(d) /\ home'[d] = home[d]
    BY <1>0, <1>7 DEF DeleteObservation, Live, Homes
  <2> QED BY <1>0, <1>7, <2>1, <2>2, CoverOneStep DEF DeleteObservation, Ops
<1>8. ASSUME NEW q \in Prompt, DeletePrompt(q) PROVE JournalCoverage'
  <2>1. home[q] \in Project
    BY <1>0, <1>8 DEF DeletePrompt, Live, Homes
  <2>2. \A d \in Entity \ {q} : Live(d)' => Live(d) /\ home'[d] = home[d]
    BY <1>0, <1>8 DEF DeletePrompt, Live, Homes
  <2> QED BY <1>0, <1>8, <2>1, <2>2, CoverOneStep DEF DeletePrompt, Ops
<1>9. ASSUME NEW p \in Project, EnrollProject(p) PROVE JournalCoverage'
  <2>1. PICK rows \in Orderings(Lacking(home, deleted, p)) : journal' = journal \o rows
    BY <1>9 DEF EnrollProject
  <2>2. rows \in Seq(Mutation)
    BY LackingTyped, OrderingsTyped
  <2>3. /\ UNCHANGED <<home, deleted>> /\ enrolled' = enrolled \cup {p}
        /\ arrived' = {e \in arrived : home[e] # p}
    BY <1>9 DEF EnrollProject
  <2>4. ASSUME NEW e \in Entity, (Live(e) /\ home[e] \in enrolled)'
        PROVE  \/ Live(e) /\ home[e] \in enrolled /\ (e \in arrived => e \in arrived')
               \/ HasRow(e) \/ \E k \in 1..Len(rows) : rows[k].entity = e
    <3>1. CASE home[e] = p
      BY <2>3, <2>4, <3>1, LackingCovers DEF Live
    <3>2. CASE home[e] # p
      BY <2>3, <2>4, <3>2 DEF Live
    <3> QED BY <3>1, <3>2
  <2> QED BY <2>1, <2>2, <2>4, CoverStep
<1>10. ASSUME NEW p \in Project, UnenrollProject(p) PROVE JournalCoverage'
  BY <1>1, <1>10 DEF UnenrollProject, data, Live
<1>11. ASSUME NEW p \in Project, PruneProject(p) PROVE JournalCoverage'
  BY <1>0, <1>1, <1>11 DEF PruneProject, DropRows, Live
\* A completion, after the records moved where they are wanted.
<1>12. ASSUME NEW p \in Project, Complete(home', p), UNCHANGED <<deleted, enrolled>>,
              \A e \in Entity : home'[e] # p => home'[e] = home[e] \/ home'[e] = Absent
       PROVE  JournalCoverage'
  <2>1. PICK rows \in Orderings(Lacking(home', deleted, p)) : journal' = journal \o rows
    BY <1>12 DEF Complete, EnqueueAll
  <2>2. rows \in Seq(Mutation)
    BY LackingTyped, OrderingsTyped
  <2>3. arrived' = {e \in arrived : home'[e] # p}
    BY <1>12 DEF Complete
  <2>4. ASSUME NEW e \in Entity, (Live(e) /\ home[e] \in enrolled)'
        PROVE  \/ Live(e) /\ home[e] \in enrolled /\ (e \in arrived => e \in arrived')
               \/ HasRow(e) \/ \E k \in 1..Len(rows) : rows[k].entity = e
    <3>1. CASE home'[e] = p
      BY <1>12, <2>4, <3>1, LackingCovers DEF Live
    <3>2. CASE home'[e] # p
      BY <1>12, <2>3, <2>4, <3>2 DEF Live
    <3> QED BY <3>1, <3>2
  <2> QED BY <2>1, <2>2, <2>4, CoverStep
<1>13. ASSUME NEW p \in Project, RepairEnrolled(p) PROVE JournalCoverage'
  BY <1>12, <1>13 DEF RepairEnrolled
<1>14. ASSUME NEW from \in SUBSET Project, NEW q \in Project, Move(from, q)
       PROVE  JournalCoverage'
  <2>1. \A e \in Entity : home'[e] # q => home'[e] = home[e]
    BY <1>14 DEF Move, Moved
  <2> QED BY <1>12, <1>14, <2>1 DEF Move
<1>15. ASSUME NEW e \in Entity, NEW p \in Project, PullUpsert(e, p) \/ PullDelete(e, p)
       PROVE  JournalCoverage'
  <2>1. UNCHANGED <<journal, enrolled>> /\ arrived' = arrived \cup {e}
    BY <1>15 DEF PullUpsert, PullDelete, Arrive
  <2>2. \A d \in Entity \ {e} : Live(d)' => Live(d) /\ home'[d] = home[d]
    <3>1. CASE PullUpsert(e, p)
      BY <1>0, <3>1 DEF PullUpsert, Live, Homes
    <3>2. CASE PullDelete(e, p)
      BY <1>0, <3>2 DEF PullDelete, Live, Homes
    <3> QED BY <1>15, <3>1, <3>2
  <2> QED BY <2>1, <2>2 DEF JournalCoverage, HasRow, Seqs
<1>16. CASE UNCHANGED <<home, deleted, arrived, enrolled, journal>>
  BY <1>1, <1>16 DEF Live
<1>17. CASE LocalWrite
  BY <1>17, <1>2, <1>3, <1>4, <1>5, <1>6, <1>7, <1>8 DEF LocalWrite
<1>18. CASE Admin
  BY <1>18, <1>9, <1>10, <1>11, <1>13, <1>14 DEF Admin, MigrateProject, MergeProjects
<1>19. ASSUME NEW w \in Worker, Push(w) PROVE JournalCoverage'
  BY <1>16, <1>19 DEF Push, SkipAckNonEnrolledMutations, ListPending, PushMutations,
                      AckSyncMutationSeqs, Abandon, data
<1>20. CASE Pull
  BY <1>15, <1>20 DEF Pull
<1>21. CASE UNCHANGED vars
  BY <1>16, <1>21 DEF vars
<1> QED BY <1>17, <1>18, <1>19, <1>20, <1>21 DEF Next

\* Whatever lives in an enrolled project has a row in the journal, or has arrived since
\* the journal was completed: enrollments, moves and repairs see to it together.
THEOREM Covered == Spec => []JournalCoverage
<1>1. Init => JournalCoverage
  BY DEF Init, JournalCoverage
<1> QED BY <1>1, NextCoverage, TypeCorrect, PTL DEF Spec

-------------------------------------------------------------------------------
(* Order: what the server gets of a project has no gaps. *)

\* A set of rows that no earlier row of their projects is missing from, unless acked.
Closed(S) ==
    \A j \in S : \A i \in Seqs :
        i < j /\ journal[i].project = journal[j].project => i \in S \cup acked

OneProject(S) == \A i, j \in S : journal[i].project = journal[j].project

\* A group keeps what it was when it was listed, however old the listing is: acks
\* are never withdrawn and rows never move.
GroupsClosed ==
    \A w \in Worker : \A k \in 1..Len(worker[w].groups) :
        Closed(worker[w].groups[k]) /\ OneProject(worker[w].groups[k])

OrderInv == NoGaps /\ GroupsClosed

\* A step of anybody but the pushers, an enrollment withdrawn aside: rows are added,
\* or none, and no promise is taken back.
Writing ==
    /\ \E rows \in Seq(Mutation) : journal' = journal \o rows
    /\ promised \subseteq promised'
    /\ UNCHANGED <<acked, sent, worker>>

\* The oldest rows are a prefix of those that may be listed.
LEMMA BatchPrefix ==
    ASSUME TypeOK, NEW j \in Batch, NEW i \in Listable, i < j
    PROVE  i \in Batch
<1>1. Len(journal) \in Nat /\ BatchSize \in Nat /\ Listable \subseteq 1..Len(journal)
  BY LenProperties, BoundsAssumption DEF TypeOK, Listable, Pending, Seqs
<1>2. j \in Listable /\ Cardinality({l \in Listable : l < j}) < BatchSize
  BY DEF Batch
<1>3. Cardinality({l \in Listable : l < i}) < BatchSize
  BY <1>1, <1>2, OldestClosed
<1> QED BY <1>3 DEF Batch

\* A group of the batch lacks no earlier row of its project that is still pending.
LEMMA GroupingsClosed ==
    ASSUME TypeOK, NEW g \in Groupings(Batch), NEW k \in 1..Len(g)
    PROVE  Closed(g[k]) /\ OneProject(g[k])
<1> DEFINE groups == {{j \in Batch : journal[j].project = journal[i].project} : i \in Batch}
<1>1. Batch \subseteq 1..Len(journal) /\ Len(journal) \in Nat
  BY LenProperties DEF TypeOK, Batch, Listable, Pending, Seqs
<1>2. g[k] \in groups
  <2>1. g \in [1..Cardinality(groups) -> groups]
    BY DEF Groupings
  <2>2. g \in Seq(SUBSET (1..Len(journal)))
    BY <1>1, GroupingsTyped
  <2>3. k \in DOMAIN g
    BY <2>2
  <2> HIDE DEF groups
  <2> QED BY <2>1, <2>3
<1>3. PICK r \in Batch : g[k] = {j \in Batch : journal[j].project = journal[r].project}
  BY <1>2
<1>4. ASSUME NEW j \in g[k], NEW i \in Seqs, i < j, journal[i].project = journal[j].project,
             i \notin acked
      PROVE  i \in g[k]
  <2>1. j \in Batch /\ journal[j].project = journal[r].project
    BY <1>3
  <2>2. i \in Listable
    BY <1>4, <2>1 DEF Batch, Listable, Pending
  <2>3. i \in Batch
    BY <1>4, <2>1, <2>2, BatchPrefix
  <2> QED BY <1>3, <1>4, <2>1, <2>3
<1> QED BY <1>3, <1>4 DEF Closed, OneProject

\* Only a pusher acks or sends, only an enrollment withdrawn takes a promise back.
LEMMA QuietSteps ==
    ASSUME IInv, LocalWrite \/ Admin \/ Pull
    PROVE  Writing \/ \E p \in Project : UnenrollProject(p)
<1>0. /\ home \in [Entity -> Project \cup {Absent}] /\ journal \in Seq(Mutation)
      /\ promised \subseteq Seqs
  BY DEF IInv, TypeOK
<1>1. ASSUME UNCHANGED <<journal, acked, promised, sent, worker>> PROVE Writing
  <2>1. <<>> \in Seq(Mutation) /\ journal' = journal \o <<>>
    BY <1>0, <1>1
  <2> QED BY <1>1, <2>1 DEF Writing
<1>2. ASSUME NEW rows \in Seq(Mutation), EnqueueAll(rows, enrolled),
             UNCHANGED <<acked, sent, worker>>
      PROVE  Writing
  <2>1. Len(journal \o rows) = Len(journal) + Len(rows) /\ Len(journal) \in Nat /\ Len(rows) \in Nat
    BY <1>0, <1>2, ConcatProperties, LenProperties
  <2>2. promised \subseteq promised' /\ journal' = journal \o rows
    BY <1>0, <1>2, <2>1 DEF EnqueueAll, Seqs
  <2> QED BY <1>2, <2>2 DEF Writing
<1>3. ASSUME NEW e \in Entity, NEW op \in Ops, NEW p \in Project, Enqueue(e, op, p),
             UNCHANGED <<acked, sent, worker>>
      PROVE  Writing
  <2>1. <<Row(e, op, p)>> \in Seq(Mutation)
    BY DEF Row, Mutation
  <2> QED BY <1>2, <1>3, <2>1 DEF Enqueue
<1>4. ASSUME NEW h, NEW p \in Project, Complete(h, p), UNCHANGED <<acked, sent, worker>>
      PROVE  Writing
  <2>1. PICK rows \in Orderings(Lacking(h, deleted, p)) : EnqueueAll(rows, enrolled)
    BY <1>4 DEF Complete
  <2>2. rows \in Seq(Mutation)
    BY LackingTyped, OrderingsTyped
  <2> QED BY <1>2, <1>4, <2>1, <2>2
<1>5. ASSUME NEW p \in Project, EnrollProject(p) PROVE Writing
  <2>1. PICK rows \in Orderings(Lacking(home, deleted, p)) : journal' = journal \o rows
    BY <1>5 DEF EnrollProject
  <2>2. rows \in Seq(Mutation)
    BY LackingTyped, OrderingsTyped
  <2>3. promised \subseteq promised' /\ UNCHANGED <<acked, sent, worker>>
    BY <1>5 DEF EnrollProject
  <2> QED BY <2>1, <2>2, <2>3 DEF Writing
<1>6. ASSUME LocalWrite PROVE Writing
  <2>1. ASSUME NEW s \in Session, NEW p \in Project, CreateSession(s, p) PROVE Writing
    BY <1>3, <2>1 DEF CreateSession, Ops, Entity
  <2>2. ASSUME NEW s \in Session, EndSession(s) PROVE Writing
    BY <1>0, <1>3, <2>2 DEF EndSession, Ops, Entity
  <2>3. ASSUME NEW s \in Session, DeleteSession(s) PROVE Writing
    BY <1>1, <2>3 DEF DeleteSession, DropRows
  <2>4. ASSUME NEW e \in Fresh, NEW p \in Project, Add(e, p) PROVE Writing
    BY <1>3, <2>4 DEF Add, Ops, Entity
  <2>5. ASSUME NEW o \in Observation, NEW p \in Project, UpdateObservation(o, p) PROVE Writing
    BY <1>3, <2>5 DEF UpdateObservation, Ops, Entity, Fresh
  <2>6. ASSUME NEW o \in Observation, NEW hard \in BOOLEAN, DeleteObservation(o, hard)
        PROVE  Writing
    <3>1. o \in Entity /\ home[o] \in Project
      BY <1>0, <2>6 DEF DeleteObservation, Live, Entity, Fresh
    <3> QED BY <1>3, <2>6, <3>1 DEF DeleteObservation, Ops
  <2>7. ASSUME NEW q \in Prompt, DeletePrompt(q) PROVE Writing
    <3>1. q \in Entity /\ home[q] \in Project
      BY <1>0, <2>7 DEF DeletePrompt, Live, Entity, Fresh
    <3> QED BY <1>3, <2>7, <3>1 DEF DeletePrompt, Ops
  <2> QED BY <1>6, <2>1, <2>2, <2>3, <2>4, <2>5, <2>6, <2>7 DEF LocalWrite
<1>7. ASSUME Admin PROVE Writing \/ \E p \in Project : UnenrollProject(p)
  <2>1. ASSUME NEW p \in Project, RepairEnrolled(p) PROVE Writing
    BY <1>4, <2>1 DEF RepairEnrolled
  <2>2. ASSUME NEW p \in Project, PruneProject(p) PROVE Writing
    BY <1>1, <2>2 DEF PruneProject, DropRows
  <2>3. ASSUME NEW from, NEW q \in Project, Move(from, q) PROVE Writing
    BY <1>4, <2>3 DEF Move
  <2> QED BY <1>5, <1>7, <2>1, <2>2, <2>3 DEF Admin, MigrateProject, MergeProjects
<1>8. ASSUME Pull PROVE Writing
  BY <1>1, <1>8 DEF Pull, PullUpsert, PullDelete, Arrive
<1> QED BY <1>6, <1>7, <1>8

\* Rows added behind the others open no gap.
LEMMA WritingOrder ==
    ASSUME IInv, OrderInv, Writing
    PROVE  OrderInv'
<1>1. PICK rows \in Seq(Mutation) : journal' = journal \o rows
  BY DEF Writing
<1>2. Seqs \subseteq Seqs' /\ \A i \in Seqs : journal'[i] = journal[i]
  BY <1>1, AppendRows DEF IInv
<1>3. /\ UNCHANGED <<acked, sent, worker>> /\ sent \subseteq Seqs
      /\ Len(journal) \in Nat
  BY LenProperties DEF Writing, IInv, TypeOK
<1>4. \A i \in Seqs', j \in Seqs : i < j => i \in Seqs
  BY <1>3 DEF Seqs
<1>5. NoGaps'
  BY <1>2, <1>3, <1>4 DEF OrderInv, NoGaps
<1>6. ASSUME NEW w \in Worker, NEW k \in 1..Len(worker[w].groups)
      PROVE  Closed(worker[w].groups[k])' /\ OneProject(worker[w].groups[k])'
  <2>1. worker[w].groups[k] \in SUBSET Seqs
    BY <1>6, ElementOfSeq DEF IInv, TypeOK
  <2>2. Closed(worker[w].groups[k]) /\ OneProject(worker[w].groups[k])
    BY <1>6 DEF OrderInv, GroupsClosed
  <2> DEFINE g == worker[w].groups[k]
  <2>3. worker'[w].groups[k] = g
    BY <1>3
  <2> HIDE DEF g
  <2>4. Closed(g)' /\ OneProject(g)'
    BY <1>2, <1>3, <1>4, <2>1, <2>2, <2>3 DEF Closed, OneProject, g
  <2> QED BY <2>4 DEF g
<1>7. GroupsClosed'
  BY <1>3, <1>6 DEF GroupsClosed
<1> QED BY <1>5, <1>7 DEF OrderInv

\* What the server gets with the head of the groups of a pusher, and what is left.
LEMMA HeadClosed ==
    ASSUME IInv, GroupsClosed, NEW w \in Worker, worker[w].groups # <<>>
    PROVE  LET groups == worker[w].groups
           IN  /\ groups \in Seq(SUBSET Seqs)
               /\ Head(groups) \in SUBSET Seqs
               /\ Closed(Head(groups)) /\ OneProject(Head(groups))
               /\ \A k \in 1..Len(Tail(groups)) :
                     Closed(Tail(groups)[k]) /\ OneProject(Tail(groups)[k])
<1> DEFINE groups == worker[w].groups
<1>1. groups \in Seq(SUBSET Seqs) /\ groups # <<>>
  BY DEF IInv, TypeOK
<1>2. \A k \in 1..Len(groups) : Closed(groups[k]) /\ OneProject(groups[k])
  BY DEF GroupsClosed
<1> HIDE DEF groups
<1>3. Head(groups) \in SUBSET Seqs /\ Head(groups) = groups[1] /\ 1 \in 1..Len(groups)
  BY <1>1
<1>4. \A k \in 1..Len(Tail(groups)) :
          k + 1 \in 1..Len(groups) /\ Tail(groups)[k] = groups[k + 1]
  BY <1>1
<1> QED BY <1>1, <1>2, <1>3, <1>4 DEF groups

\* Every step of a pusher keeps the order: what it lists is closed, what it hands to
\* the server was closed when it was listed.
LEMMA PushOrder ==
    ASSUME IInv, OrderInv, NEW w \in Worker, Push(w)
    PROVE  OrderInv'
<1>0. /\ worker \in [Worker -> [at: {"skip", "list", "push", "ack"}, groups: Seq(SUBSET Seqs)]]
      /\ \A v \in Worker : worker[v].at \in {"push", "ack"} => worker[v].groups # <<>>
      /\ NoGaps /\ GroupsClosed
  BY DEF IInv, TypeOK, OrderInv
<1>1. ASSUME NEW at, NEW groups, Continue(w, at, groups),
             \A k \in 1..Len(groups) : Closed(groups[k]) /\ OneProject(groups[k]),
             UNCHANGED journal, acked \subseteq acked', NoGaps'
      PROVE  OrderInv'
  <2>1. ASSUME NEW S, Closed(S), OneProject(S)
        PROVE  (Closed(S))' /\ (OneProject(S))'
    BY <1>1, <2>1 DEF Closed, OneProject, Seqs
  <2>2. ASSUME NEW v \in Worker, NEW k \in 1..Len(worker'[v].groups)
        PROVE  Closed(worker'[v].groups[k]) /\ OneProject(worker'[v].groups[k])
    <3>1. CASE v = w
      BY <1>0, <1>1, <2>2, <3>1 DEF Continue
    <3>2. CASE v # w
      BY <1>0, <1>1, <2>2, <3>2 DEF Continue, GroupsClosed
    <3> QED BY <3>1, <3>2
  <2>3. GroupsClosed'
    BY <1>1, <2>2 DEF GroupsClosed, Closed, OneProject, Seqs
  <2> QED BY <1>1, <2>3 DEF OrderInv
<1>2. ASSUME UNCHANGED <<journal, sent>>, acked \subseteq acked' PROVE NoGaps'
  BY <1>0, <1>2 DEF NoGaps, Seqs
<1>3. ASSUME Continue(w, "skip", <<>>) \/ Continue(w, "list", <<>>),
             UNCHANGED journal, acked \subseteq acked', NoGaps'
      PROVE  OrderInv'
  <2>1. \A k \in 1..Len(<<>>) : Closed((<<>>)[k]) /\ OneProject((<<>>)[k])
    OBVIOUS
  <2> QED BY <1>1, <1>3, <2>1
<1>4. CASE SkipAckNonEnrolledMutations(w)
  BY <1>2, <1>3, <1>4 DEF SkipAckNonEnrolledMutations
<1>5. CASE ListPending(w)
  <2>1. UNCHANGED <<journal, acked, sent>> /\ NoGaps'
    BY <1>2, <1>5 DEF ListPending
  <2>2. CASE \E groups \in Groupings(Batch) : Continue(w, "push", groups)
    <3>1. PICK groups \in Groupings(Batch) : Continue(w, "push", groups)
      BY <2>2
    <3>2. \A k \in 1..Len(groups) : Closed(groups[k]) /\ OneProject(groups[k])
      BY GroupingsClosed DEF IInv
    <3> QED BY <1>1, <2>1, <3>1, <3>2
  <2> QED BY <1>3, <1>5, <2>1, <2>2 DEF ListPending
<1>6. CASE PushMutations(w)
  <2> DEFINE groups == worker[w].groups
  <2>1. groups # <<>>
    BY <1>0, <1>6 DEF PushMutations
  <2>2. Closed(Head(groups)) /\ Head(groups) \in SUBSET Seqs
    BY <1>0, <2>1, HeadClosed
  <2>3. UNCHANGED <<journal, acked>> /\ sent' = sent \cup Head(groups)
    BY <1>6 DEF PushMutations
  <2>4. NoGaps'
    <3> SUFFICES ASSUME NEW i \in Seqs, NEW j \in Seqs, i < j,
                        journal[i].project = journal[j].project, j \in sent'
                 PROVE  i \in sent' \/ i \in acked
      BY <2>3 DEF NoGaps, Seqs
    <3>1. CASE j \in sent
      BY <1>0, <2>3, <3>1 DEF NoGaps
    <3>2. CASE j \in Head(groups)
      BY <2>2, <2>3, <3>2 DEF Closed
    <3> QED BY <2>3, <3>1, <3>2
  <2>5. \A k \in 1..Len(groups) : Closed(groups[k]) /\ OneProject(groups[k])
    BY <1>0 DEF GroupsClosed
  <2>6. Continue(w, "ack", groups) \/ Continue(w, "skip", <<>>)
    BY <1>6 DEF PushMutations
  <2> HIDE DEF groups
  <2> QED BY <1>1, <1>3, <2>3, <2>4, <2>5, <2>6
<1>7. CASE AckSyncMutationSeqs(w)
  <2> DEFINE groups == worker[w].groups
  <2>1. groups # <<>>
    BY <1>0, <1>7 DEF AckSyncMutationSeqs
  <2>2. UNCHANGED <<journal, sent>> /\ acked \subseteq acked' /\ NoGaps'
    BY <1>2, <1>7 DEF AckSyncMutationSeqs
  <2>3. \A k \in 1..Len(Tail(groups)) : Closed(Tail(groups)[k]) /\ OneProject(Tail(groups)[k])
    BY <1>0, <2>1, HeadClosed
  <2>4. Continue(w, "skip", Tail(groups)) \/ Continue(w, "push", Tail(groups))
    BY <1>7 DEF AckSyncMutationSeqs
  <2> HIDE DEF groups
  <2> QED BY <1>1, <2>2, <2>3, <2>4
<1>8. CASE Abandon(w)
  BY <1>2, <1>3, <1>8 DEF Abandon
<1> QED BY <1>4, <1>5, <1>6, <1>7, <1>8 DEF Push

\* Every step keeps the order.
LEMMA NextOrder == IInv /\ OrderInv /\ [Next]_vars => OrderInv'
<1> SUFFICES ASSUME IInv, OrderInv, [Next]_vars PROVE OrderInv'
  OBVIOUS
<1>1. ASSUME UNCHANGED <<journal, acked, sent, worker>> PROVE OrderInv'
  BY <1>1 DEF OrderInv, NoGaps, GroupsClosed, Closed, OneProject, Seqs
<1>2. CASE LocalWrite \/ Admin \/ Pull
  BY <1>1, <1>2, QuietSteps, WritingOrder DEF UnenrollProject
<1> QED BY <1>1, <1>2, PushOrder DEF Next, vars

\* The journal and its pushers keep the order together with the rest.
LEMMA OrderHolds == Spec => []OrderInv
<1>1. Init => OrderInv
  BY DEF Init, OrderInv, NoGaps, GroupsClosed, Idle, Seqs
<1> QED BY <1>1, NextOrder, IInvHolds, PTL DEF Spec

\* The server never gets a later mutation of a project while an earlier one is still
\* owed to it, whatever pushers overlap, whichever answers get lost.
THEOREM Ordered == Spec => []NoGaps
<1>1. OrderInv => NoGaps
  BY DEF OrderInv
<1> QED BY <1>1, OrderHolds, PTL

-------------------------------------------------------------------------------
(* The journal implements the outbox. *)

\* The projects of the rows are all the outbox sees of a journal.
ProjectsOf(rows) == [i \in 1..Len(rows) |-> rows[i].project]

\* The projects of a sequence of rows are a sequence of projects.
LEMMA ProjectsTyped ==
    ASSUME NEW rows \in Seq(Mutation)
    PROVE  /\ ProjectsOf(rows) \in Seq(Project)
           /\ DOMAIN ProjectsOf(rows) = 1..Len(rows) /\ Len(ProjectsOf(rows)) = Len(rows)
           /\ \A i \in 1..Len(rows) :
                 ProjectsOf(rows)[i] = rows[i].project /\ rows[i].project \in Project
<1>1. Len(rows) \in Nat /\ \A i \in 1..Len(rows) : rows[i] \in Mutation
  BY LenProperties, ElementOfSeq
<1>2. \A i \in 1..Len(rows) : rows[i].project \in Project
  BY <1>1 DEF Mutation
<1>3. ProjectsOf(rows) \in [1..Len(rows) -> Project]
  BY <1>2 DEF ProjectsOf
<1>4. ProjectsOf(rows) \in Seq(Project) /\ Len(ProjectsOf(rows)) = Len(rows)
  BY <1>1, <1>3
<1> QED BY <1>2, <1>4 DEF ProjectsOf

\* Rows written, promises made: the outbox is written to.
LEMMA WritingRefines ==
    ASSUME TypeOK, TypeOK', Writing
    PROVE  Outbox!Write
<1>1. PICK rows \in Seq(Mutation) : journal' = journal \o rows
  BY DEF Writing
<1>2. Seqs \subseteq Seqs' /\ \A i \in Seqs : journal'[i] = journal[i]
  BY <1>1, AppendRows
<1>3. journal \in Seq(Mutation) /\ journal' \in Seq(Mutation) /\ Len(journal) <= Len(journal')
  BY <1>1, ConcatProperties, LenProperties DEF TypeOK
<1>4. \A i \in DOMAIN ProjectsOf(journal) : ProjectsOf(journal')[i] = ProjectsOf(journal)[i]
  BY <1>2, <1>3, ProjectsTyped DEF Seqs
<1>5. /\ promised \ acked \subseteq promised' \ acked'
      /\ promised' \ acked' \subseteq DOMAIN ProjectsOf(journal')
      /\ sent' = sent
  BY <1>3, ProjectsTyped DEF Writing, TypeOK, Seqs
<1>6. /\ ProjectsOf(journal') \in Seq(Project)
      /\ Len(ProjectsOf(journal)) <= Len(ProjectsOf(journal'))
  BY <1>3, ProjectsTyped
<1> QED BY <1>4, <1>5, <1>6 DEF Outbox!Write, ProjectsOf, Seqs

\* An enrollment withdrawn releases the rows of its project, of which it was owed all.
LEMMA UnenrollRefines ==
    ASSUME TypeOK, NEW p \in Project, UnenrollProject(p)
    PROVE  Outbox!Release(p)
<1>1. UNCHANGED <<journal, acked, sent>> /\ promised' = {i \in promised : journal[i].project # p}
  BY DEF UnenrollProject
<1>2. promised \subseteq Seqs
  BY DEF TypeOK
<1> QED BY <1>1, <1>2 DEF Outbox!Release, Seqs

\* What skip-ack acks was promised to nobody, what a pusher acks the server has.
LEMMA AckRefines ==
    ASSUME UNCHANGED <<journal, promised, sent>>, acked \subseteq acked',
           promised \cap acked' \subseteq sent \cup acked
    PROVE  Outbox!Settle
BY DEF Outbox!Settle, Seqs

\* A group handed to the server is of one project, and in order with what is owed.
LEMMA DeliverRefines ==
    ASSUME IInv, IInv', NEW S \in SUBSET Seqs, Closed(S), OneProject(S), S # {},
           UNCHANGED <<journal, promised, acked>>, sent' = sent \cup S
    PROVE  Outbox!Deliver
<1> DEFINE rows == [i \in Seqs |-> journal[i].project]
<1>1. DOMAIN rows = Seqs /\ \A i \in Seqs : rows[i] = journal[i].project
  OBVIOUS
<1>2. sent \subseteq Seqs /\ promised \subseteq Seqs /\ journal \in Seq(Mutation)
  BY DEF IInv, TypeOK
<1>3. \E p \in Project : \A i \in sent' \ sent : rows[i] = p
  <2>1. PICK r \in S : TRUE
    OBVIOUS
  <2>2. journal[r].project \in Project
    BY <1>2, <2>1, ProjectsTyped DEF Seqs
  <2>3. \A i \in sent' \ sent : rows[i] = journal[r].project
    BY <1>1, <2>1 DEF OneProject
  <2> QED BY <2>2, <2>3
<1>4. ASSUME NEW j \in sent' \ sent, NEW i \in promised \ acked, i < j, rows[i] = rows[j]
      PROVE  i \in (sent' \ sent) \cup sent
  BY <1>1, <1>2, <1>4 DEF Closed
<1>5. sent \subseteq sent' /\ sent' \subseteq DOMAIN rows
  BY <1>1, <1>2
<1>6. UNCHANGED <<rows, promised \ acked>>
  BY DEF Seqs
<1> QED BY <1>3, <1>4, <1>5, <1>6 DEF Outbox!Deliver, Outbox!InOrder

\* Every step of a pusher is one of the outbox, or none.
LEMMA PushRefines ==
    ASSUME IInv, IInv', OrderInv, NEW w \in Worker, Push(w)
    PROVE  [Outbox!Next]_Outbox!vars
<1>1. ASSUME Outbox!Deliver \/ Outbox!Settle PROVE [Outbox!Next]_Outbox!vars
  BY <1>1 DEF Outbox!Next
<1>2. ASSUME UNCHANGED <<journal, promised, acked, sent>> PROVE Outbox!Settle
  BY <1>2, AckRefines
<1>3. CASE SkipAckNonEnrolledMutations(w)
  <2>1. acked' = acked \cup (Pending \ Listable) /\ UNCHANGED <<journal, promised, sent>>
    BY <1>3 DEF SkipAckNonEnrolledMutations
  <2>2. promised \cap (Pending \ Listable) = {}
    BY DEF IInv, PromisedEnrolled, Listable
  <2> QED BY <1>1, <2>1, <2>2, AckRefines
<1>4. CASE ListPending(w) \/ Abandon(w)
  BY <1>1, <1>2, <1>4 DEF ListPending, Abandon
<1>5. CASE PushMutations(w)
  <2> DEFINE S == Head(worker[w].groups)
  <2>1. worker[w].groups # <<>>
    BY <1>5 DEF PushMutations, IInv, TypeOK
  <2>2. S \in SUBSET Seqs /\ Closed(S) /\ OneProject(S)
    BY <2>1, HeadClosed DEF OrderInv
  <2>3. UNCHANGED <<journal, promised, acked>> /\ sent' = sent \cup S
    BY <1>5 DEF PushMutations
  <2> HIDE DEF S
  <2>4. CASE S = {}
    BY <1>1, <1>2, <2>3, <2>4
  <2>5. CASE S # {}
    BY <1>1, <2>2, <2>3, <2>5, DeliverRefines
  <2> QED BY <2>4, <2>5
<1>6. CASE AckSyncMutationSeqs(w)
  <2>1. /\ acked' = acked \cup Head(worker[w].groups)
        /\ UNCHANGED <<journal, promised, sent>>
    BY <1>6 DEF AckSyncMutationSeqs
  <2>2. Head(worker[w].groups) \subseteq sent
    BY <1>6 DEF AckSyncMutationSeqs, IInv, AckSent
  <2> QED BY <1>1, <2>1, <2>2, AckRefines
<1> QED BY <1>3, <1>4, <1>5, <1>6 DEF Push

\* Every step of the store and its pushers is one of the outbox, or none.
LEMMA NextRefines ==
    ASSUME IInv, IInv', OrderInv, [Next]_vars
    PROVE  [Outbox!Next]_Outbox!vars
<1>1. CASE LocalWrite \/ Admin \/ Pull
  <2>1. CASE Writing
    <3>1. Outbox!Write
      BY <2>1, WritingRefines DEF IInv
    <3> QED BY <3>1 DEF Outbox!Next
  <2>2. ASSUME NEW p \in Project, UnenrollProject(p) PROVE [Outbox!Next]_Outbox!vars
    <3>1. Outbox!Release(p)
      BY <2>2, UnenrollRefines DEF IInv
    <3> QED BY <3>1 DEF Outbox!Next
  <2> QED BY <1>1, <2>1, <2>2, QuietSteps
<1>2. CASE UNCHANGED vars
  BY <1>2 DEF vars, Outbox!vars, Seqs
<1> QED BY <1>1, <1>2, PushRefines DEF Next

\* The journal is an outbox: rows owed until delivered, delivered in the order of their
\* project, whatever the pushers, the lost answers and the enrollments do meanwhile.
THEOREM Outboxed == Spec => ActsAsOutbox
<1>1. Init => Outbox!Init
  BY DEF Init, Outbox!Init, Seqs
<1>2. IInv /\ IInv' /\ OrderInv /\ [Next]_vars => [Outbox!Next]_Outbox!vars
  BY NextRefines
<1> QED BY <1>1, <1>2, IInvHolds, OrderHolds, PTL DEF Spec, ActsAsOutbox, Outbox!Spec
===============================================================================
