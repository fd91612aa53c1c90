-------------------------- MODULE Replication_proofs --------------------------
(***************************************************************************)
(* Replication for any number of machines, requests, entities, changes and *)
(* projects, and any size of batches and pages.  The server keeps the      *)
(* invariant of MutationLog_proofs; the machines add theirs: a request     *)
(* somebody waits for carries the group that is to be acked, and its       *)
(* answer tells the truth about it; a page covers all rows up to its last  *)
(* one that are neither received nor hidden; and what a machine shows of   *)
(* an entity is the last row it has received about it, or a write of its   *)
(* own that it has not met in the log yet.  The order of a machine's       *)
(* changes has an invariant of its own on top, OrderIInv, and makes each   *)
(* machine's journal an abstract Outbox.                                   *)
(***************************************************************************)
EXTENDS Replication, MutationLog_proofs, Positions

\* A change somebody has made, in a project the server takes.
Genuine(c) == ProjectOf[c] \in Allowed /\ \E d \in Device : c \in Range(journal[d])

\* What is at the server comes from a machine.
Origin ==
    /\ \A i \in Seqs : Genuine(rows[i].change)
    /\ \A r \in Request : \A k \in DOMAIN handler[r].batch : Genuine(handler[r].batch[k])

\* A request that is over has no batch.
NoBatch == \A r \in Request : ~Active(r) => handler[r].batch = <<>>

InLog(c) == \E k \in visible : rows[k].change = c

\* A machine acks what is committed, and waits for the request that carries its group.
Delivered == \A d \in Device : \A i \in acked[d] : InLog(journal[d][i])

Waiting ==
    \A d \in Device : job[d].at = "wait" =>
        /\ job[d].request \in Request
        /\ handler[job[d].request].at # "free"
        /\ Active(job[d].request) =>
              \A i \in Group(d) : journal[d][i] \in Range(handler[job[d].request].batch)
        /\ handler[job[d].request].at = "accepted" => \A i \in Group(d) : InLog(journal[d][i])
        /\ \A e \in Device : Answered(e, job[d].request) => e = d

\* Received or hidden are all rows up to the cursor, and, but for those in the page,
\* all rows up to the last one of the page.
Paging ==
    \A d \in Device :
        /\ received[d] \subseteq 1..cursor[d]
        /\ \A i \in 1..cursor[d] : i \in received[d] \/ i \in hidden[d]
        /\ job[d].page \subseteq visible
        /\ \A p \in job[d].page :
              p > cursor[d] /\ \A i \in 1..p : i \in received[d] \cup hidden[d] \cup job[d].page

\* Rows that machine d has received and that carry field f.
About(d, f) == {i \in received[d] : f \in Carries[rows[i].change]}

Showing ==
    \A d \in Device, f \in Field :
        \/ value[d][f] = None /\ About(d, f) = {}
        \/ \E i \in About(d, f) : value[d][f] = rows[i].change /\ \A j \in About(d, f) : j <= i
        \/ /\ value[d][f] \in Range(journal[d]) /\ f \in Carries[value[d][f]]
           /\ \A j \in received[d] : rows[j].change # value[d][f]
        \/ KeptHere(d, f)

ReplIInv ==
    /\ LogIInv /\ NoBatch /\ Origin
    /\ DeviceTypeOK /\ Delivered /\ Waiting /\ Paging /\ Showing

-------------------------------------------------------------------------------
(* Listings and pages. *)

\* A listing in order leaves no member out.
LEMMA InOrderCovers ==
    ASSUME NEW n \in Nat, NEW S, S \subseteq 1..n, NEW s \in InOrder(S)
    PROVE  /\ s \in [1..Cardinality(S) -> S] /\ Cardinality(S) \in Nat
           /\ \A i \in S : \E k \in DOMAIN s : s[k] = i
<1>1. IsFiniteSet(S) /\ Cardinality(S) \in Nat
  <2>1. IsFiniteSet(1..n)
    BY FS_Interval
  <2> QED BY <2>1, FS_Subset, FS_CardinalityType
<1>2. s \in [1..Cardinality(S) -> S] /\ \A k, l \in DOMAIN s : k < l => s[k] < s[l]
  BY DEF InOrder
<1>3. \A k, l \in 1..Cardinality(S) : s[k] = s[l] => k = l
  <2> SUFFICES ASSUME NEW k \in 1..Cardinality(S), NEW l \in 1..Cardinality(S), s[k] = s[l]
               PROVE  k = l
    OBVIOUS
  <2>1. s[k] \in S /\ k \in Nat /\ l \in Nat
    BY <1>1, <1>2
  <2>2. s[k] \in 1..n
    BY <2>1
  <2>3. ~(s[k] < s[k])
    BY <2>2
  <2>4. ~(k < l) /\ ~(l < k)
    <3>1. k < l => s[k] < s[k]
      BY <1>2
    <3>2. l < k => s[k] < s[k]
      BY <1>2
    <3> QED BY <2>3, <3>1, <3>2
  <2> QED BY <2>1, <2>4
<1>4. s \in Injection(1..Cardinality(S), S)
  BY <1>2, <1>3 DEF Injection, IsInjective
<1>5. Cardinality(1..Cardinality(S)) = Cardinality(S)
  BY <1>1, FS_Interval
<1>6. s \in Surjection(1..Cardinality(S), S)
  BY <1>1, <1>4, <1>5, FS_Injection
<1> QED BY <1>1, <1>2, <1>6 DEF Surjection

\* A page skips no row that could be read.
LEMMA PagePrefix ==
    ASSUME LogTypeOK, NEW from \in Nat, NEW limit \in Nat,
           NEW j \in PageSince(from, limit, Allowed),
           NEW i \in Readable(Allowed), from < i, i < j
    PROVE  i \in PageSince(from, limit, Allowed)
<1> DEFINE beyond == {k \in Readable(Allowed) : k > from}
           before(m) == {l \in beyond : l < m}
<1>1. Len(rows) \in Nat /\ beyond \subseteq 1..Len(rows) /\ Readable(Allowed) \subseteq 1..Len(rows)
  <2>1. Len(rows) \in Nat /\ visible \subseteq 1..Len(rows)
    BY LenProperties DEF LogTypeOK, Seqs
  <2> QED BY <2>1 DEF Readable
<1>2. j \in beyond /\ Cardinality(before(j)) < limit
  BY DEF PageSince
<1>3. i \in beyond /\ Cardinality(before(i)) < limit
  BY <1>1, <1>2, OldestClosed
<1> QED BY <1>3 DEF PageSince

\* Everything committed is in a project that is allowed, so it is readable.
LEMMA AllReadable == LogTypeOK /\ Origin => Readable(Allowed) = visible
BY DEF LogTypeOK, Origin, Genuine, Readable

-------------------------------------------------------------------------------
(* The server. *)

\* The log only grows, by entries of batches in flight.
Grew ==
    /\ Seqs \subseteq Seqs' /\ visible \subseteq visible'
    /\ \A i \in Seqs : rows'[i] = rows[i]
    /\ \A i \in Seqs' \ Seqs :
          \E r \in Request : \E k \in DOMAIN handler[r].batch :
              rows'[i].change = handler[r].batch[k]

\* A request served keeps its batch, and is accepted once that is committed.
Kept(r) ==
    /\ handler[r].at # "free" => handler'[r].at # "free"
    /\ Active(r)' => Active(r) /\ handler'[r].batch = handler[r].batch
    /\ ~Active(r)' => handler'[r].batch = <<>>
    /\ handler'[r].at = "accepted" =>
          \/ handler[r].at = "accepted"
          \/ /\ Active(r)
             /\ \A k \in DOMAIN handler[r].batch :
                   \E i \in visible' : rows'[i].change = handler[r].batch[k]

LEMMA QuietKept ==
    ASSUME NEW r \in Request, handler'[r].at = handler[r].at,
           handler'[r].batch = handler[r].batch, NoBatch
    PROVE  Kept(r)
BY DEF Kept, Active, NoBatch

LEMMA RejectedKept ==
    ASSUME NEW r \in Request, Active(r), handler'[r] = Answering("rejected")
    PROVE  Kept(r)
BY DEF Kept, Active, Answering, Free

LEMMA ServeKeeps ==
    ASSUME LogIInv, NoBatch, NEW s \in Request, Serve(s)
    PROVE  Grew /\ \A r \in Request : Kept(r)
<1>1. \A r \in Request \ {s} : handler'[r] = handler[r]
  BY DEF Serve, CheckPause, InsertRow, Commit, Fail, LogIInv, LogTypeOK
<1>2. \A r \in Request \ {s} : Kept(r)
  BY <1>1, QuietKept
<1>3. UNCHANGED rows /\ visible \subseteq visible' => Grew
  BY DEF Grew, Seqs
<1>4. CASE CheckPause(s)
  <2>1. Grew
    BY <1>3, <1>4 DEF CheckPause
  <2>2. Active(s) /\ handler[s].at = "check"
    BY <1>4 DEF CheckPause, Active
  <2>3. CASE handler'[s] = Answering("rejected")
    BY <1>2, <2>1, <2>2, <2>3, RejectedKept
  <2>4. CASE handler'[s] = NextEntry(s, "check", "insert")
    <3>1. handler'[s].at \in {"check", "insert"} /\ handler'[s].batch = handler[s].batch
      BY <2>2, <2>4, EntryMoves DEF Places
    <3>2. Kept(s)
      BY <2>2, <3>1 DEF Kept, Active
    <3> QED BY <1>2, <2>1, <3>2
  <2> QED BY <1>4, <2>3, <2>4 DEF CheckPause, LogIInv, LogTypeOK
<1>5. CASE InsertRow(s)
  <2> DEFINE h == NextEntry(s, "insert", "commit")
             t == NewRow(s).tx
  <2>1. /\ handler[s].at = "insert" /\ handler[s] \in Handlers
        /\ handler'[s] = [h EXCEPT !.first = t]
        /\ handler[s].next \in DOMAIN handler[s].batch
    BY <1>5, LenProperties DEF InsertRow, LogIInv, LogTypeOK, Handlers
  <2>2. h \in Handlers /\ h.at \in {"insert", "commit"} /\ h.batch = handler[s].batch
    BY <2>1, EntryMoves DEF Places
  <2> HIDE DEF h, t
  <2>3. handler'[s].at \in {"insert", "commit"} /\ handler'[s].batch = handler[s].batch
    BY <2>1, <2>2 DEF Handlers
  <2>4. Kept(s)
    BY <2>1, <2>3 DEF Kept, Active
  <2>5. Grew
    <3> DEFINE N == Len(rows)
    <3>1. /\ rows' = Append(rows, NewRow(s)) /\ UNCHANGED visible /\ N \in Nat
          /\ rows \in Seq([change: Change, nth: Nat, of: Nat, tx: Nat])
      BY <1>5, LenProperties DEF InsertRow, LogIInv, LogTypeOK
    <3>2. /\ Len(rows') = N + 1 /\ rows'[N + 1] = NewRow(s)
          /\ \A i \in 1..N : rows'[i] = rows[i]
      BY <3>1, AppendProperties
    <3>3. Seqs = 1..N /\ Seqs' = 1..(N + 1)
      BY <3>2 DEF Seqs
    <3>4. NewRow(s).change = handler[s].batch[handler[s].next]
      BY DEF NewRow
    <3>5. \A i \in Seqs' \ Seqs : i = N + 1
      BY <3>1, <3>3
    <3>6. Seqs \subseteq Seqs'
      BY <3>1, <3>3
    <3> HIDE DEF N
    <3> QED BY <2>1, <3>1, <3>2, <3>3, <3>4, <3>5, <3>6 DEF Grew
  <2> QED BY <1>2, <2>4, <2>5
<1>6. CASE Commit(s)
  <2>1. /\ handler[s].at = "commit" /\ visible' = visible \cup Own(s) /\ UNCHANGED rows
        /\ Active(s) /\ HasTx(s) /\ Stored(s) = Len(handler[s].batch)
    BY <1>6 DEF Commit, Active, HasTx, Stored
  <2>2. Grew
    BY <1>3, <2>1
  <2>3. /\ handler'[s].at \in {"accepted", "rejected"} /\ handler'[s].batch = <<>>
    BY <1>6 DEF Commit, LogIInv, LogTypeOK, Answering, Free
  <2>4. DOMAIN handler[s].batch = 1..Len(handler[s].batch)
    BY LenProperties DEF LogIInv, LogTypeOK, Handlers
  <2>5. \A k \in DOMAIN handler[s].batch : \E i \in Own(s) : rows[i].nth = k
    BY <2>1, <2>4 DEF LogIInv, TxOpen
  <2>6. \A i \in Own(s) : rows[i].change = handler[s].batch[rows[i].nth]
    BY <2>1 DEF LogIInv, TxOrdered
  <2>7. Kept(s)
    BY <2>1, <2>3, <2>5, <2>6 DEF Kept, Active
  <2> QED BY <1>2, <2>2, <2>7
<1>7. CASE Fail(s)
  <2>1. Grew /\ Active(s) /\ handler'[s] = Answering("rejected")
    BY <1>3, <1>7 DEF Fail, LogIInv, LogTypeOK
  <2> QED BY <1>2, <2>1, RejectedKept
<1> QED BY <1>4, <1>5, <1>6, <1>7 DEF Serve

LEMMA PauseKeeps ==
    ASSUME LogIInv, NoBatch, NEW p \in Project, NEW enabled \in BOOLEAN,
           SetProjectSyncEnabled(p, enabled)
    PROVE  Grew /\ \A r \in Request : Kept(r)
<1>1. handler' = [r \in Request |-> [handler[r] EXCEPT !.held = handler[r].held \cap paused']]
  BY DEF SetProjectSyncEnabled
<1>2. \A r \in Request : handler[r] \in Handlers
  BY DEF LogIInv, LogTypeOK
<1>3. \A r \in Request : handler'[r].at = handler[r].at /\ handler'[r].batch = handler[r].batch
  BY <1>1, <1>2 DEF Handlers
<1>4. UNCHANGED <<rows, visible>>
  BY DEF SetProjectSyncEnabled
<1> QED BY <1>3, <1>4, QuietKept DEF Grew, Seqs

\* What the machines know stays true while the log grows.
LEMMA InLogStays ==
    ASSUME LogTypeOK, Grew, NEW c, InLog(c)
    PROVE  InLog(c)'
BY DEF InLog, Grew, LogTypeOK

LEMMA DevicesUnderGrowth ==
    ASSUME ReplIInv, LogTypeOK', Grew, UNCHANGED deviceVars
    PROVE  DeviceTypeOK' /\ Delivered' /\ Paging' /\ Showing'
<1>1. UNCHANGED <<value, journal, acked, cursor, job, received, hidden>>
  BY DEF deviceVars
<1>2. /\ Seqs \subseteq Seqs' /\ visible \subseteq visible' /\ visible \subseteq Seqs
      /\ \A i \in Seqs : rows'[i] = rows[i]
  BY DEF Grew, ReplIInv, LogIInv, LogTypeOK
<1>3. DeviceTypeOK'
  <2>1. cursor' \in [Device -> 0..Len(rows')]
    <3>1. Len(rows) \in Nat /\ Len(rows') \in Nat
      BY LenProperties DEF ReplIInv, LogIInv, LogTypeOK
    <3>2. Len(rows) <= Len(rows')
      <4>1. CASE Len(rows) = 0
        BY <3>1, <4>1
      <4>2. CASE Len(rows) # 0
        BY <1>2, <3>1, <4>2 DEF Seqs
      <4> QED BY <4>1, <4>2
    <3> QED BY <1>1, <3>1, <3>2 DEF ReplIInv, DeviceTypeOK
  <2>2. job' \in [Device -> [at: {"idle", "push", "wait", "pull", "apply"},
                             batch: SUBSET Nat, request: Request \cup {None},
                             page: SUBSET Seqs', more: BOOLEAN]]
    BY <1>1, <1>2 DEF ReplIInv, DeviceTypeOK
  <2>3. received' \in [Device -> SUBSET visible'] /\ hidden' \in [Device -> SUBSET Seqs']
    BY <1>1, <1>2 DEF ReplIInv, DeviceTypeOK
  <2> QED BY <1>1, <2>1, <2>2, <2>3 DEF ReplIInv, DeviceTypeOK
<1>4. Delivered'
  BY <1>1, InLogStays DEF ReplIInv, LogIInv, Delivered
<1>5. Paging'
  BY <1>1, <1>2 DEF ReplIInv, Paging
<1>6. Showing'
  <2>1. \A d \in Device : received[d] \subseteq Seqs
    BY <1>2 DEF ReplIInv, DeviceTypeOK
  <2>2. \A d \in Device, f \in Field : About(d, f)' = About(d, f)
    BY <1>1, <1>2, <2>1 DEF About
  <2>3. \A d \in Device, f \in Field : KeptHere(d, f)' = KeptHere(d, f)
    BY <1>1 DEF KeptHere
  <2> QED BY <1>1, <1>2, <2>1, <2>2, <2>3 DEF ReplIInv, Showing, About
<1> QED BY <1>3, <1>4, <1>5, <1>6

LEMMA OriginUnderGrowth ==
    ASSUME ReplIInv, Grew, \A c : Genuine(c) => Genuine(c)',
           \A r \in Request : handler'[r].batch \in {<<>>, handler[r].batch}
    PROVE  Origin'
<1>1. \A i \in Seqs' : Genuine(rows'[i].change)
  BY DEF ReplIInv, Origin, Grew
<1>2. \A r \in Request : \A k \in DOMAIN handler'[r].batch : Genuine(handler'[r].batch[k])
  BY DEF ReplIInv, Origin
<1> QED BY <1>1, <1>2 DEF Origin

LEMMA WaitingUnderGrowth ==
    ASSUME ReplIInv, Grew, UNCHANGED deviceVars,
           \A r \in Request : (\E d \in Device : Answered(d, r)) => Kept(r)
    PROVE  Waiting'
<1>1. UNCHANGED <<journal, job>>
  BY DEF deviceVars
<1>2. \A d \in Device : Group(d)' = Group(d)
  BY <1>1 DEF Group
<1>3. \A d \in Device, r \in Request : Answered(d, r)' <=> Answered(d, r)
  BY <1>1 DEF Answered
<1> SUFFICES ASSUME NEW d \in Device, job[d].at = "wait"
             PROVE  LET r == job[d].request
                    IN  /\ r \in Request
                        /\ handler'[r].at # "free"
                        /\ Active(r)' =>
                              \A i \in Group(d) : journal[d][i] \in Range(handler'[r].batch)
                        /\ handler'[r].at = "accepted" =>
                              \A i \in Group(d) : InLog(journal[d][i])'
                        /\ \A e \in Device : Answered(e, r) => e = d
  BY <1>1, <1>2, <1>3 DEF Waiting, InLog, Active
<1> DEFINE r == job[d].request
<1>4. /\ r \in Request /\ handler[r].at # "free"
      /\ Active(r) => \A i \in Group(d) : journal[d][i] \in Range(handler[r].batch)
      /\ handler[r].at = "accepted" => \A i \in Group(d) : InLog(journal[d][i])
      /\ \A e \in Device : Answered(e, r) => e = d
  BY DEF ReplIInv, Waiting
<1>5. Kept(r)
  BY <1>4 DEF Answered
<1> HIDE DEF r
<1>6. handler'[r].at # "free"
  BY <1>4, <1>5 DEF Kept
<1>7. Active(r)' => \A i \in Group(d) : journal[d][i] \in Range(handler'[r].batch)
  BY <1>4, <1>5 DEF Kept
<1>8. ASSUME handler'[r].at = "accepted", NEW i \in Group(d)
      PROVE  InLog(journal[d][i])'
  <2>1. CASE handler[r].at = "accepted"
    <3>1. InLog(journal[d][i]) /\ LogTypeOK
      BY <1>4, <1>8, <2>1 DEF ReplIInv, LogIInv
    <3>2. (\E k \in visible : rows[k].change = journal[d][i])
          => \E k \in visible' : rows'[k].change = journal[d][i]
      BY <3>1 DEF Grew, LogTypeOK
    <3> QED BY <1>1, <3>1, <3>2 DEF InLog
  <2>2. CASE handler[r].at # "accepted"
    <3>1. /\ Active(r)
          /\ \A k \in DOMAIN handler[r].batch :
                \E n \in visible' : rows'[n].change = handler[r].batch[k]
      BY <1>5, <1>8, <2>2 DEF Kept
    <3>2. journal[d][i] \in Range(handler[r].batch)
      BY <1>4, <1>8, <3>1
    <3>3. PICK k \in DOMAIN handler[r].batch : handler[r].batch[k] = journal[d][i]
      BY <3>2 DEF Range
    <3> QED BY <1>1, <3>1, <3>3 DEF InLog
  <2> QED BY <2>1, <2>2
<1> QED BY <1>4, <1>6, <1>7, <1>8 DEF r

LEMMA ServerStep ==
    ASSUME ReplIInv, Server
    PROVE  ReplIInv'
<1>1. UNCHANGED deviceVars
  BY DEF Server
<1>2. \A c : Genuine(c) => Genuine(c)'
  BY <1>1 DEF Genuine, deviceVars
<1>3. ASSUME LogIInv', Grew, NEW r \in Request, \A s \in Request \ {r} : Kept(s),
             handler'[r].at = "free" => \A d \in Device : ~Answered(d, r),
             handler'[r].at # "free" => Kept(r),
             handler'[r].batch \in {<<>>, handler[r].batch},
             ~Active(r)' => handler'[r].batch = <<>>
      PROVE  ReplIInv'
  <2>1. \A s \in Request : handler'[s].batch \in {<<>>, handler[s].batch}
    BY <1>3 DEF Kept
  <2>2. NoBatch'
    BY <1>3 DEF Kept, NoBatch, Active
  <2>3. \A s \in Request : (\E d \in Device : Answered(d, s)) => Kept(s)
    BY <1>3
  <2>4. Origin' /\ Waiting'
    BY <1>1, <1>2, <1>3, <2>1, <2>3, OriginUnderGrowth, WaitingUnderGrowth
  <2>5. DeviceTypeOK' /\ Delivered' /\ Paging' /\ Showing'
    BY <1>1, <1>3, DevicesUnderGrowth DEF LogIInv
  <2> QED BY <1>3, <2>2, <2>4, <2>5 DEF ReplIInv
<1>4. ASSUME LogIInv', Grew, \A s \in Request : Kept(s)
      PROVE  ReplIInv'
  <2>1. \A s \in Request : handler'[s].batch \in {<<>>, handler[s].batch}
    BY <1>4 DEF Kept
  <2>2. NoBatch'
    BY <1>4 DEF Kept, NoBatch, Active
  <2>3. Origin' /\ Waiting'
    BY <1>1, <1>2, <1>4, <2>1, OriginUnderGrowth, WaitingUnderGrowth
  <2>4. DeviceTypeOK' /\ Delivered' /\ Paging' /\ Showing'
    BY <1>1, <1>4, DevicesUnderGrowth DEF LogIInv
  <2> QED BY <1>4, <2>2, <2>3, <2>4 DEF ReplIInv
<1>5. LogIInv /\ NoBatch
  BY DEF ReplIInv
<1>6. ASSUME NEW r \in Request, Serve(r) PROVE ReplIInv'
  <2>1. LogIInv'
    BY <1>5, <1>6, CheckPauseStep, InsertRowStep, CommitStep, AnswerStep DEF Serve
  <2> QED BY <1>4, <1>5, <1>6, <2>1, ServeKeeps
<1>7. ASSUME NEW p \in Project, NEW enabled \in BOOLEAN, SetProjectSyncEnabled(p, enabled)
      PROVE  ReplIInv'
  <2>1. LogIInv'
    BY <1>5, <1>7, PauseStep
  <2> QED BY <1>4, <1>5, <1>7, <2>1, PauseKeeps
<1>8. ASSUME NEW r \in Request, Respond(r), \A d \in Device : ~Answered(d, r) PROVE ReplIInv'
  <2>1. LogIInv'
    BY <1>5, <1>8, AnswerStep
  <2>2. handler'[r] = Free /\ \A s \in Request \ {r} : handler'[s] = handler[s]
    BY <1>5, <1>8 DEF Respond, LogIInv, LogTypeOK
  <2>3. Grew
    BY <1>8 DEF Respond, Grew, Seqs
  <2>4. \A s \in Request \ {r} : Kept(s)
    BY <1>5, <2>2, QuietKept
  <2> QED BY <1>3, <1>8, <2>1, <2>2, <2>3, <2>4 DEF Free
<1> QED BY <1>6, <1>7, <1>8 DEF Server

-------------------------------------------------------------------------------
(* The cycle of a machine. *)

Jobs == [at: {"idle", "push", "wait", "pull", "apply"}, batch: SUBSET Nat,
         request: Request \cup {None}, page: SUBSET Seqs, more: BOOLEAN]

JobsTyped ==
    /\ job \in [Device -> Jobs]
    /\ \A d \in Device :
        /\ job[d].batch \subseteq DOMAIN journal[d]
        /\ job[d].at \in {"push", "wait"} => job[d].batch # {}
        /\ job[d].at = "apply" => job[d].page # {}

\* The forms a job takes when a cycle goes on.
LEMMA JobForms ==
    ASSUME NEW B, B \subseteq Nat, NEW P, P \subseteq Seqs, NEW M \in BOOLEAN,
           NEW at \in {"idle", "push", "wait", "pull", "apply"}
    PROVE  /\ LET j == [Idle EXCEPT !.at = at]
              IN  j \in Jobs /\ j.at = at /\ j.batch = {} /\ j.page = {}
           /\ LET j == [Idle EXCEPT !.at = at, !.batch = B]
              IN  j \in Jobs /\ j.at = at /\ j.batch = B /\ j.page = {}
           /\ LET j == [Idle EXCEPT !.at = at, !.page = P, !.more = M]
              IN  j \in Jobs /\ j.at = at /\ j.batch = {} /\ j.page = P
BY DEF Idle, Jobs

LEMMA IdleTyped ==
    Idle \in Jobs /\ Idle.at = "idle" /\ Idle.batch = {} /\ Idle.page = {}
BY DEF Idle, Jobs

\* The next job of one machine.
LEMMA JobStep ==
    ASSUME ReplIInv, UNCHANGED <<rows, journal>>, NEW d \in Device, NEW j \in Jobs,
           job' = [job EXCEPT ![d] = j], j.batch \subseteq DOMAIN journal[d],
           j.at \in {"push", "wait"} => j.batch # {}, j.at = "apply" => j.page # {}
    PROVE  JobsTyped' /\ job'[d] = j /\ \A e \in Device \ {d} : job'[e] = job[e]
<1>1. job \in [Device -> Jobs]
  BY DEF ReplIInv, DeviceTypeOK, Jobs
<1>2. job'[d] = j /\ \A e \in Device \ {d} : job'[e] = job[e]
  BY <1>1
<1>3. job' \in [Device -> Jobs] /\ Jobs' = Jobs
  BY <1>1 DEF Jobs, Seqs
<1> HIDE DEF Jobs
<1> QED BY <1>2, <1>3 DEF JobsTyped, ReplIInv, DeviceTypeOK

\* A job without a call in flight waits for nothing; the others wait as before.
LEMMA WaitOver ==
    ASSUME ReplIInv, UNCHANGED <<rows, visible, journal>>, NEW d \in Device,
           job'[d].at # "wait", \A e \in Device \ {d} : job'[e] = job[e],
           \A r \in Request :
               handler'[r] = handler[r] \/ \A e \in Device \ {d} : ~Answered(e, r)
    PROVE  Waiting'
<1>1. \A e \in Device \ {d} : Group(e)' = Group(e)
  BY DEF Group
<1>2. \A e \in Device, r \in Request : Answered(e, r)' => Answered(e, r) /\ e # d
  BY DEF Answered
<1> SUFFICES ASSUME NEW e \in Device, job'[e].at = "wait", NEW r, r = job'[e].request
             PROVE  /\ e # d
                    /\ r \in Request
                    /\ handler'[r].at # "free"
                    /\ Active(r)' =>
                          \A i \in Group(e) : journal[e][i] \in Range(handler'[r].batch)
                    /\ handler'[r].at = "accepted" =>
                          \A i \in Group(e) : InLog(journal[e][i])
                    /\ \A f \in Device : Answered(f, r) => f = e
  BY <1>1, <1>2 DEF Waiting, InLog, Active
<1>3. e # d /\ job[e].at = "wait" /\ r = job[e].request
  OBVIOUS
<1>4. /\ r \in Request /\ handler[r].at # "free"
      /\ Active(r) => \A i \in Group(e) : journal[e][i] \in Range(handler[r].batch)
      /\ handler[r].at = "accepted" => \A i \in Group(e) : InLog(journal[e][i])
      /\ \A f \in Device : Answered(f, r) => f = e
  BY <1>3 DEF ReplIInv, Waiting
<1>5. handler'[r] = handler[r]
  BY <1>3, <1>4 DEF Answered
<1>6. Active(r)' <=> Active(r)
  BY <1>5 DEF Active
<1> QED BY <1>3, <1>4, <1>5, <1>6

\* A step of the cycle that brings no page.
LEMMA CycleStep ==
    ASSUME ReplIInv, NEW d \in Device, NEW j \in Jobs, job' = [job EXCEPT ![d] = j],
           UNCHANGED <<rows, visible, value, journal, cursor, received, hidden>>,
           j.batch \subseteq DOMAIN journal[d], j.at \in {"push", "wait"} => j.batch # {},
           j.at # "apply", j.page \in {{}, job[d].page}, acked' \in [Device -> SUBSET Nat],
           \A e \in Device : \A i \in acked'[e] : i \in DOMAIN journal[e] /\ InLog(journal[e][i])
    PROVE  /\ DeviceTypeOK' /\ Delivered' /\ Paging' /\ Showing'
           /\ job'[d] = j /\ \A e \in Device \ {d} : job'[e] = job[e]
<1>1. JobsTyped' /\ job'[d] = j /\ \A e \in Device \ {d} : job'[e] = job[e]
  BY JobStep
<1>2. DeviceTypeOK'
  <2>1. Seqs' = Seqs
    BY DEF Seqs
  <2> QED BY <1>1, <2>1 DEF ReplIInv, DeviceTypeOK, JobsTyped, Jobs
<1>3. Delivered'
  BY DEF Delivered, InLog
<1>4. Paging'
  BY <1>1 DEF ReplIInv, Paging
<1>5. Showing'
  BY DEF ReplIInv, Showing, About, KeptHere
<1> QED BY <1>1, <1>2, <1>3, <1>4, <1>5

\* Nothing happens at the server.
LEMMA ServerRests ==
    ASSUME ReplIInv, UNCHANGED logVars
    PROVE  /\ LogIInv' /\ NoBatch'
           /\ (\A c : Genuine(c) => Genuine(c)') => Origin'
<1>1. LogIInv'
  BY NextIInv DEF ReplIInv
<1>2. UNCHANGED <<rows, visible, handler>>
  BY DEF logVars
<1>3. NoBatch'
  BY <1>2 DEF ReplIInv, NoBatch, Active
<1>4. (\A c : Genuine(c) => Genuine(c)') => Origin'
  <2>1. Grew
    BY <1>2 DEF Grew, Seqs
  <2> QED BY <1>2, <2>1, OriginUnderGrowth
<1> QED BY <1>1, <1>3, <1>4

LEMMA AckedInLog ==
    ASSUME ReplIInv
    PROVE  /\ acked \in [Device -> SUBSET Nat]
           /\ \A e \in Device : \A i \in acked[e] : i \in DOMAIN journal[e] /\ InLog(journal[e][i])
BY DEF ReplIInv, DeviceTypeOK, Delivered

LEMMA StartCycleStep ==
    ASSUME ReplIInv, NEW d \in Device, StartCycle(d)
    PROVE  ReplIInv'
<1>1. /\ job[d].at = "idle"
      /\ UNCHANGED <<logVars, value, journal, acked, cursor, received, hidden>>
  BY DEF StartCycle
<1>2. UNCHANGED <<rows, visible, handler>>
  BY <1>1 DEF logVars
<1>3. LogIInv' /\ NoBatch' /\ Origin'
  BY <1>1, ServerRests DEF Genuine
<1>4. DOMAIN journal[d] \subseteq Nat
  BY DEF ReplIInv, DeviceTypeOK
<1>5. PICK j \in Jobs : /\ job' = [job EXCEPT ![d] = j] /\ j.batch \subseteq DOMAIN journal[d]
                        /\ j.at \in {"pull", "push"} /\ j.page = {}
                        /\ j.at = "push" => j.batch # {}
  <2>1. CASE Pending(d) = {}
    <3> DEFINE j == [Idle EXCEPT !.at = "pull"]
    <3>1. j \in Jobs /\ j.at = "pull" /\ j.batch = {} /\ j.page = {}
      BY JobForms
    <3>2. job' = [job EXCEPT ![d] = j]
      BY <2>1 DEF StartCycle
    <3> HIDE DEF j
    <3> QED BY <3>1, <3>2
  <2>2. CASE Pending(d) # {}
    <3> DEFINE B == Oldest(d)
               j == [Idle EXCEPT !.at = "push", !.batch = B]
    <3>1. job' = [job EXCEPT ![d] = j]
      BY <2>2 DEF StartCycle
    <3>2. Pending(d) \subseteq DOMAIN journal[d] /\ B \subseteq Pending(d)
      BY DEF Pending, Oldest
    <3>3. B # {}
      <4> DEFINE i == Min(Pending(d))
      <4>1. i \in Pending(d) /\ \A k \in Pending(d) : i <= k
        BY <1>4, <2>2, <3>2, LeastMember
      <4> HIDE DEF i
      <4>2. \A k \in Pending(d) : ~(k < i)
        <5>1. \A k \in Pending(d) : k \in Nat
          BY <1>4, <3>2
        <5> QED BY <4>1, <5>1
      <4>3. {k \in Pending(d) : k < i} = {}
        BY <4>2
      <4>4. Cardinality({k \in Pending(d) : k < i}) = 0
        BY <4>3, FS_EmptySet
      <4>5. 0 < PushBatch
        BY BatchAssumption
      <4> QED BY <4>1, <4>4, <4>5 DEF Oldest
    <3> HIDE DEF B
    <3>4. j \in Jobs /\ j.at = "push" /\ j.batch = B /\ j.page = {}
      <4>1. B \subseteq Nat
        BY <1>4, <3>2
      <4> QED BY <4>1 DEF Idle, Jobs
    <3> HIDE DEF j
    <3> QED BY <3>1, <3>2, <3>3, <3>4
  <2> QED BY <2>1, <2>2
<1>6. /\ DeviceTypeOK' /\ Delivered' /\ Paging' /\ Showing'
      /\ job'[d] = j /\ \A e \in Device \ {d} : job'[e] = job[e]
  BY <1>1, <1>2, <1>5, AckedInLog, CycleStep
<1>7. Waiting'
  BY <1>1, <1>2, <1>5, <1>6, WaitOver
<1> QED BY <1>3, <1>6, <1>7 DEF ReplIInv

LEMMA AbortStep ==
    ASSUME ReplIInv, NEW d \in Device, Abort(d)
    PROVE  ReplIInv'
<1>1. /\ job' = [job EXCEPT ![d] = Idle]
      /\ UNCHANGED <<logVars, value, journal, acked, cursor, received, hidden>>
  BY DEF Abort
<1>2. UNCHANGED <<rows, visible, handler>>
  BY <1>1 DEF logVars
<1>3. LogIInv' /\ NoBatch' /\ Origin'
  BY <1>1, ServerRests DEF Genuine
<1>4. /\ DeviceTypeOK' /\ Delivered' /\ Paging' /\ Showing'
      /\ job'[d] = Idle /\ \A e \in Device \ {d} : job'[e] = job[e]
  BY <1>1, <1>2, IdleTyped, AckedInLog, CycleStep
<1>5. Waiting'
  BY <1>1, <1>2, <1>4, IdleTyped, WaitOver
<1> QED BY <1>3, <1>4, <1>5 DEF ReplIInv

\* Fields are set to a change.
LEMMA SetFieldsSets ==
    ASSUME value \in [Device -> [Field -> Change \cup {None}]],
           NEW d \in Device, NEW S, NEW c \in Change, SetFields(d, S, c)
    PROVE  /\ value' \in [Device -> [Field -> Change \cup {None}]]
           /\ \A f \in Field : value'[d][f] = IF f \in S THEN c ELSE value[d][f]
           /\ \A e \in Device \ {d} : value'[e] = value[e]
<1> DEFINE v == [f \in Field |-> IF f \in S THEN c ELSE value[d][f]]
<1>1. value' = [value EXCEPT ![d] = v]
  BY DEF SetFields
<1>2. v \in [Field -> Change \cup {None}] /\ \A f \in Field : v[f] = IF f \in S THEN c ELSE value[d][f]
  OBVIOUS
<1> HIDE DEF v
<1> QED BY <1>1, <1>2

\* A write leaves the groups of its machine and what others show as they are.
LEMMA WriteStep ==
    ASSUME ReplIInv, NEW d \in Device, NEW c \in Change, Write(d, c)
    PROVE  ReplIInv'
<1> DEFINE n == Len(journal[d])
<1>1. /\ \A m \in Device : c \notin Range(journal[m])
      /\ SetFields(d, Sets[c], c)
      /\ journal' = [journal EXCEPT ![d] = Append(journal[d], c)]
      /\ UNCHANGED <<logVars, acked, cursor, job, received, hidden>>
  BY DEF Write
<1>2. UNCHANGED <<rows, visible, handler>>
  BY <1>1 DEF logVars
<1>3. /\ value' \in [Device -> [Field -> Change \cup {None}]]
      /\ \A f \in Field : value'[d][f] = IF f \in Sets[c] THEN c ELSE value[d][f]
      /\ \A e \in Device \ {d} : value'[e] = value[e]
  BY <1>1, SetFieldsSets DEF ReplIInv, DeviceTypeOK
<1>4. /\ journal[d] \in Seq(Change) /\ n \in Nat
      /\ journal'[d] = Append(journal[d], c)
      /\ \A e \in Device \ {d} : journal'[e] = journal[e]
      /\ DOMAIN journal[d] = 1..n
  BY <1>1, LenProperties DEF ReplIInv, DeviceTypeOK
<1>5. /\ Append(journal[d], c) \in Seq(Change) /\ DOMAIN journal'[d] = 1..(n + 1)
      /\ \A i \in 1..n : journal'[d][i] = journal[d][i]
      /\ journal'[d][n + 1] = c
  <2>1. /\ Append(journal[d], c) \in Seq(Change) /\ Len(Append(journal[d], c)) = n + 1
        /\ \A i \in 1..n : Append(journal[d], c)[i] = journal[d][i]
        /\ Append(journal[d], c)[n + 1] = c
    BY <1>4, AppendProperties
  <2> QED BY <1>4, <2>1, LenProperties
<1>6. /\ \A e \in Device : DOMAIN journal[e] \subseteq DOMAIN journal'[e]
      /\ \A e \in Device : \A i \in DOMAIN journal[e] : journal'[e][i] = journal[e][i]
      /\ \A e \in Device : Range(journal[e]) \subseteq Range(journal'[e])
      /\ c \in Range(journal'[d])
  <2>1. 1..n \subseteq 1..(n + 1) /\ n + 1 \in 1..(n + 1)
    BY <1>4
  <2>2. /\ \A e \in Device : DOMAIN journal[e] \subseteq DOMAIN journal'[e]
        /\ \A e \in Device : \A i \in DOMAIN journal[e] : journal'[e][i] = journal[e][i]
    BY <1>4, <1>5, <2>1
  <2> QED BY <1>5, <2>1, <2>2 DEF Range
<1>7. LogIInv' /\ NoBatch' /\ Origin'
  BY <1>1, <1>6, ServerRests DEF Genuine
<1>8. DeviceTypeOK'
  <2>1. Seqs' = Seqs
    BY <1>2 DEF Seqs
  <2>2. journal' \in [Device -> Seq(Change)]
    BY <1>1, <1>5, <1>4 DEF ReplIInv, DeviceTypeOK
  <2>3. value' \in [Device -> [Field -> Change \cup {None}]]
    BY <1>3
  <2> HIDE DEF n
  <2>4. \A e \in Device : acked'[e] \subseteq DOMAIN journal'[e]
                          /\ job'[e].batch \subseteq DOMAIN journal'[e]
    BY <1>1, <1>6 DEF ReplIInv, DeviceTypeOK
  <2> QED BY <1>1, <1>2, <2>1, <2>2, <2>3, <2>4 DEF ReplIInv, DeviceTypeOK
<1> HIDE DEF n
<1>9. Delivered'
  BY <1>1, <1>2, <1>6, AckedInLog DEF Delivered, InLog
<1>10. ASSUME NEW e \in Device, job[e].at = "wait"
       PROVE  /\ Group(e)' = Group(e)
              /\ \A i \in Group(e) : i \in DOMAIN journal[e] /\ journal'[e][i] = journal[e][i]
  <2> DEFINE B == job[e].batch
  <2>1. B # {} /\ B \subseteq DOMAIN journal[e] /\ B \subseteq Nat
    BY <1>10 DEF ReplIInv, DeviceTypeOK
  <2>2. Min(B) \in B
    BY <2>1, LeastMember
  <2>3. \A i \in B : journal'[e][i] = journal[e][i]
    BY <1>6, <2>1
  <2>4. Group(e)' = Group(e)
    BY <1>1, <2>2, <2>3 DEF Group
  <2> QED BY <2>1, <2>3, <2>4 DEF Group
<1>11. Waiting'
  <2> SUFFICES ASSUME NEW e \in Device, job[e].at = "wait", NEW r, r = job[e].request
               PROVE  /\ r \in Request
                      /\ handler[r].at # "free"
                      /\ Active(r) =>
                            \A i \in Group(e) : journal[e][i] \in Range(handler[r].batch)
                      /\ handler[r].at = "accepted" =>
                            \A i \in Group(e) : InLog(journal[e][i])
                      /\ \A f \in Device : Answered(f, r) => f = e
    BY <1>1, <1>2, <1>10 DEF Waiting, InLog, Active, Answered
  <2> QED BY DEF ReplIInv, Waiting
<1>12. Paging'
  BY <1>1, <1>2 DEF ReplIInv, Paging
<1>13. Showing'
  <2>1. \A i \in Seqs : rows[i].change # c
    BY <1>1 DEF ReplIInv, Origin, Genuine
  <2>2. \A e \in Device : received[e] \subseteq Seqs
    BY DEF ReplIInv, DeviceTypeOK, LogIInv, LogTypeOK
  <2>3. \A e \in Device, f \in Field : About(e, f)' = About(e, f)
    BY <1>1, <1>2 DEF About
  <2> SUFFICES ASSUME NEW e \in Device, NEW f \in Field
               PROVE  \/ value'[e][f] = None /\ About(e, f) = {}
                      \/ \E i \in About(e, f) : /\ value'[e][f] = rows[i].change
                                                /\ \A j \in About(e, f) : j <= i
                      \/ /\ value'[e][f] \in Range(journal'[e]) /\ f \in Carries[value'[e][f]]
                         /\ \A j \in received[e] : rows[j].change # value'[e][f]
                      \/ value'[e][f] \in Change /\ f \notin Carries[value'[e][f]]
    BY <1>1, <1>2, <2>3 DEF Showing, KeptHere
  <2>4. CASE e = d /\ f \in Sets[c]
    BY <1>3, <1>6, <2>1, <2>2, <2>4
  <2>5. CASE value'[e][f] = value[e][f]
    BY <1>6, <2>5 DEF ReplIInv, Showing, KeptHere
  <2> QED BY <1>3, <2>4, <2>5
<1> QED BY <1>7, <1>8, <1>9, <1>11, <1>12, <1>13 DEF ReplIInv

\* The group of a batch is a part of it, made of rows of the journal.
LEMMA GroupTyped ==
    ASSUME ReplIInv, NEW d \in Device
    PROVE  /\ journal[d] \in Seq(Change) /\ Len(journal[d]) \in Nat
           /\ Group(d) \subseteq job[d].batch /\ job[d].batch \subseteq 1..Len(journal[d])
           /\ \A i \in Group(d) : journal[d][i] \in Change
<1>1. journal[d] \in Seq(Change) /\ job[d].batch \subseteq DOMAIN journal[d]
  BY DEF ReplIInv, DeviceTypeOK
<1>2. DOMAIN journal[d] = 1..Len(journal[d]) /\ Len(journal[d]) \in Nat
  BY <1>1, LenProperties
<1>3. Group(d) \subseteq job[d].batch
  BY DEF Group
<1>4. \A i \in 1..Len(journal[d]) : journal[d][i] \in Change
  BY <1>1, ElementOfSeq
<1> QED BY <1>1, <1>2, <1>3, <1>4

\* The request takes a free slot, so nobody else waits for it, and brings the group.
LEMMA PushStep ==
    ASSUME ReplIInv, NEW d \in Device, NEW r \in Request, Push(d, r)
    PROVE  ReplIInv'
<1>1. /\ job[d].at = "push"
      /\ job' = [job EXCEPT ![d] = [job[d] EXCEPT !.at = "wait", !.request = r]]
      /\ UNCHANGED <<value, journal, acked, cursor, received, hidden>>
  BY DEF Push, ReplIInv, DeviceTypeOK
<1>2. PICK s \in InOrder(Group(d)) : Receive(r, [k \in DOMAIN s |-> journal[d][s[k]]])
  BY DEF Push
<1> DEFINE batch == [k \in DOMAIN s |-> journal[d][s[k]]]
<1>3. /\ \A i \in Group(d) : \E k \in DOMAIN s : s[k] = i
      /\ s \in [1..Cardinality(Group(d)) -> Group(d)] /\ Cardinality(Group(d)) \in Nat
  <2>1. Group(d) \subseteq 1..Len(journal[d]) /\ Len(journal[d]) \in Nat
    BY GroupTyped
  <2> QED BY <2>1, InOrderCovers
<1>4. batch \in Seq(Change) /\ DOMAIN batch = DOMAIN s
  <2>1. batch \in [1..Cardinality(Group(d)) -> Change]
    BY <1>3, GroupTyped
  <2> QED BY <1>3, <2>1
<1>5. /\ \A i \in Group(d) : journal[d][i] \in Range(batch)
      /\ \A k \in DOMAIN batch : batch[k] \in Range(journal[d])
  <2>1. \A i \in Group(d) : i \in DOMAIN journal[d]
    BY GroupTyped DEF ReplIInv, DeviceTypeOK
  <2> QED BY <1>3, <2>1 DEF Range
<1> HIDE DEF batch
<1>6. Receive(r, batch)
  BY <1>2 DEF batch
<1>7. /\ handler[r].at = "free" /\ UNCHANGED <<paused, rows, visible>>
      /\ \A q \in Request \ {r} : handler'[q] = handler[q]
  BY <1>6 DEF Receive, ReplIInv, LogIInv, LogTypeOK
<1>8. \/ /\ Valid(batch) /\ handler'[r].at = "check" /\ handler'[r].batch = batch
      \/ /\ handler'[r].at = "rejected" /\ handler'[r].batch = <<>>
  BY <1>6 DEF Receive, ReplIInv, LogIInv, LogTypeOK, Answering, Free
<1>9. LogIInv'
  BY <1>4, <1>6, ReceiveStep DEF ReplIInv
<1>10. NoBatch'
  BY <1>7, <1>8 DEF ReplIInv, NoBatch, Active
<1>11. Origin'
  <2>1. \A c : Genuine(c)' <=> Genuine(c)
    BY <1>1 DEF Genuine
  <2>2. \A i \in Seqs' : Genuine(rows'[i].change)
    BY <1>7 DEF ReplIInv, Origin, Seqs
  <2>3. Valid(batch) => \A k \in DOMAIN batch : Genuine(batch[k])
    BY <1>5 DEF Valid, Genuine
  <2>4. \A k \in DOMAIN handler'[r].batch : Genuine(handler'[r].batch[k])
    BY <1>8, <2>3
  <2>5. \A q \in Request \ {r} : \A k \in DOMAIN handler'[q].batch : Genuine(handler'[q].batch[k])
    BY <1>7 DEF ReplIInv, Origin
  <2> QED BY <2>1, <2>2, <2>4, <2>5 DEF Origin
<1> DEFINE j == [job[d] EXCEPT !.at = "wait", !.request = r]
<1>12. /\ j \in Jobs /\ j.at = "wait" /\ j.request = r
       /\ j.batch = job[d].batch /\ j.page = job[d].page
       /\ j.batch \subseteq DOMAIN journal[d] /\ j.batch # {}
  <2>1. /\ job[d] \in Jobs /\ job[d].batch \subseteq DOMAIN journal[d]
        /\ job[d].batch # {}
    BY <1>1 DEF ReplIInv, DeviceTypeOK, Jobs
  <2>2. j \in Jobs /\ j.at = "wait" /\ j.request = r
        /\ j.batch = job[d].batch /\ j.page = job[d].page
    BY <2>1 DEF Jobs
  <2> QED BY <2>1, <2>2
<1>13. job' = [job EXCEPT ![d] = j]
  BY <1>1
<1> HIDE DEF j
<1>14. /\ DeviceTypeOK' /\ Delivered' /\ Paging' /\ Showing'
       /\ job'[d] = j /\ \A e \in Device \ {d} : job'[e] = job[e]
  BY <1>1, <1>7, <1>12, <1>13, AckedInLog, CycleStep
<1>15. \A e \in Device : Group(e)' = Group(e)
  <2>1. \A e \in Device : job'[e].batch = job[e].batch
    BY <1>12, <1>14
  <2> QED BY <1>1, <2>1 DEF Group
<1>16. \A e \in Device : ~Answered(e, r)
  BY <1>7 DEF ReplIInv, Waiting, Answered
<1>17. Waiting'
  <2>1. \A q : \A e \in Device : Answered(e, q)' <=> IF e = d THEN q = r ELSE Answered(e, q)
    BY <1>12, <1>14 DEF Answered
  <2> SUFFICES ASSUME NEW e \in Device, job'[e].at = "wait", NEW q, q = job'[e].request
               PROVE  /\ q \in Request
                      /\ handler'[q].at # "free"
                      /\ Active(q)' =>
                            \A i \in Group(e) : journal[e][i] \in Range(handler'[q].batch)
                      /\ handler'[q].at = "accepted" =>
                            \A i \in Group(e) : InLog(journal[e][i])
                      /\ \A f \in Device : Answered(f, q)' => f = e
    BY <1>1, <1>7, <1>15 DEF Waiting, InLog, Active
  <2>2. CASE e = d
    <3>1. q = r
      BY <1>12, <1>14, <2>2
    <3>2. /\ handler'[r].at # "free" /\ handler'[r].at # "accepted"
          /\ Active(r)' => handler'[r].batch = batch
      BY <1>8 DEF Active
    <3>3. \A f \in Device : Answered(f, r)' => f = d
      BY <1>16, <2>1
    <3> QED BY <1>5, <2>2, <3>1, <3>2, <3>3
  <2>3. CASE e # d
    <3>1. job[e].at = "wait" /\ q = job[e].request /\ Answered(e, q) /\ q # r
      BY <1>14, <1>16, <2>3 DEF Answered
    <3>2. /\ q \in Request /\ handler[q].at # "free"
          /\ Active(q) => \A i \in Group(e) : journal[e][i] \in Range(handler[q].batch)
          /\ handler[q].at = "accepted" => \A i \in Group(e) : InLog(journal[e][i])
          /\ \A f \in Device : Answered(f, q) => f = e
      BY <3>1 DEF ReplIInv, Waiting
    <3>3. handler'[q] = handler[q]
      BY <1>7, <3>1, <3>2
    <3>4. \A f \in Device : Answered(f, q)' => f = e
      BY <2>1, <3>1, <3>2
    <3> QED BY <3>2, <3>3, <3>4 DEF Active
  <2> QED BY <2>2, <2>3
<1> QED BY <1>9, <1>10, <1>11, <1>14, <1>17 DEF ReplIInv

\* An answer that says accepted is true of the whole group.
LEMMA HearAnswerStep ==
    ASSUME ReplIInv, NEW d \in Device, NEW r \in Request, HearAnswer(d, r)
    PROVE  ReplIInv'
<1>1. /\ job[d].at = "wait" /\ job[d].request = r /\ Respond(r)
      /\ UNCHANGED <<value, journal, cursor, received, hidden>>
  BY DEF HearAnswer, Answered
<1>2. /\ UNCHANGED <<paused, rows, visible>> /\ handler'[r] = Free
      /\ \A q \in Request \ {r} : handler'[q] = handler[q]
  BY <1>1 DEF Respond, ReplIInv, LogIInv, LogTypeOK
<1>3. LogIInv'
  BY <1>1, AnswerStep DEF ReplIInv
<1>4. NoBatch'
  BY <1>2 DEF ReplIInv, NoBatch, Active, Free
<1>5. Origin'
  <2>1. Grew
    BY <1>2 DEF Grew, Seqs
  <2>2. \A q \in Request : handler'[q].batch \in {<<>>, handler[q].batch}
    BY <1>2 DEF Free
  <2>3. \A c : Genuine(c) => Genuine(c)'
    BY <1>1 DEF Genuine
  <2> QED BY <2>1, <2>2, <2>3, OriginUnderGrowth
<1>6. PICK j \in Jobs : /\ job' = [job EXCEPT ![d] = j] /\ j.batch \subseteq job[d].batch
                        /\ j.at \in {"idle", "pull", "push"} /\ j.page = {}
                        /\ j.at = "push" => j.batch # {}
  <2>1. CASE handler[r].at = "accepted"
    <3> DEFINE rest == job[d].batch \ Group(d)
               at == IF rest = {} THEN "pull" ELSE "push"
               j == [Idle EXCEPT !.at = at, !.batch = rest]
    <3>1. job' = [job EXCEPT ![d] = j]
      BY <2>1 DEF HearAnswer, AfterPush
    <3>2. rest \subseteq Nat /\ rest \subseteq job[d].batch
      BY GroupTyped
    <3>3. at \in {"pull", "push"} /\ (at = "push" => rest # {})
      OBVIOUS
    <3> HIDE DEF rest, at
    <3>4. j \in Jobs /\ j.at = at /\ j.batch = rest /\ j.page = {}
      BY <3>2, <3>3 DEF Idle, Jobs
    <3> HIDE DEF j
    <3> QED BY <3>1, <3>2, <3>3, <3>4
  <2>2. CASE handler[r].at # "accepted"
    <3>1. job' = [job EXCEPT ![d] = Idle]
      BY <2>2 DEF HearAnswer
    <3> QED BY <3>1, IdleTyped
  <2> QED BY <2>1, <2>2
<1>7. /\ acked' \in [Device -> SUBSET Nat]
      /\ \A e \in Device : \A i \in acked'[e] : i \in DOMAIN journal[e] /\ InLog(journal[e][i])
  <2>1. CASE handler[r].at = "accepted"
    <3>1. \A i \in Group(d) : i \in DOMAIN journal[d] /\ InLog(journal[d][i])
      <4>1. \A i \in Group(d) : InLog(journal[d][i])
        BY <1>1, <2>1 DEF ReplIInv, Waiting
      <4> QED BY <4>1 DEF ReplIInv, DeviceTypeOK, Group
    <3>2. /\ acked' = [acked EXCEPT ![d] = acked[d] \cup Group(d)]
          /\ Group(d) \subseteq Nat /\ acked \in [Device -> SUBSET Nat]
      BY <2>1, GroupTyped, AckedInLog DEF HearAnswer, AckSyncMutationSeqs
    <3>3. /\ acked' \in [Device -> SUBSET Nat] /\ acked'[d] = acked[d] \cup Group(d)
          /\ \A e \in Device \ {d} : acked'[e] = acked[e]
      BY <3>2
    <3> QED BY <3>1, <3>3, AckedInLog
  <2>2. CASE handler[r].at # "accepted"
    BY <2>2, AckedInLog DEF HearAnswer
  <2> QED BY <2>1, <2>2
<1>8. /\ DeviceTypeOK' /\ Delivered' /\ Paging' /\ Showing'
      /\ job'[d] = j /\ \A e \in Device \ {d} : job'[e] = job[e]
  <2>1. j.batch \subseteq DOMAIN journal[d]
    BY <1>6 DEF ReplIInv, DeviceTypeOK
  <2> QED BY <1>1, <1>2, <1>6, <1>7, <2>1, CycleStep
<1>9. Waiting'
  <2>1. \A e \in Device \ {d} : ~Answered(e, r)
    BY <1>1 DEF ReplIInv, Waiting
  <2> QED BY <1>1, <1>2, <1>6, <1>8, <2>1, WaitOver
<1> QED BY <1>3, <1>4, <1>5, <1>8, <1>9 DEF ReplIInv

\* What PageSince returns.
LEMMA PageTyped ==
    ASSUME ReplIInv, NEW d \in Device, NEW page, page = PageSince(cursor[d], PullBatch, Allowed)
    PROVE  /\ page \subseteq visible /\ page \subseteq 1..Len(rows) /\ Len(rows) \in Nat
           /\ cursor[d] \in Nat /\ \A p \in page : p > cursor[d]
           /\ \A p \in page : \A i \in visible : cursor[d] < i /\ i < p => i \in page
<1>1. LogTypeOK /\ Readable(Allowed) = visible
  BY AllReadable DEF ReplIInv, LogIInv
<1>2. Len(rows) \in Nat /\ visible \subseteq 1..Len(rows)
  BY <1>1, LenProperties DEF LogTypeOK, Seqs
<1>3. cursor[d] \in Nat
  BY <1>2 DEF ReplIInv, DeviceTypeOK
<1>4. page \subseteq visible /\ \A p \in page : p > cursor[d]
  BY <1>1 DEF PageSince
<1>5. \A p \in page : \A i \in visible : cursor[d] < i /\ i < p => i \in page
  BY <1>1, <1>3, PagePrefix, BatchAssumption
<1> QED BY <1>2, <1>3, <1>4, <1>5

\* A page covers what is beyond the cursor: the rows it skips cannot be read yet, and
\* are hidden from now on.
LEMMA FetchStep ==
    ASSUME ReplIInv, NEW d \in Device, Fetch(d)
    PROVE  ReplIInv'
<1> DEFINE page == PageSince(cursor[d], PullBatch, Allowed)
           more == \E i \in Readable(Allowed) : i > Max(page)
           gone == Overtaken(d, Max(page))
<1>1. /\ job[d].at = "pull"
      /\ job' = [job EXCEPT ![d] =
             IF page = {} THEN Idle ELSE [Idle EXCEPT !.at = "apply", !.page = page, !.more = more]]
      /\ hidden' = [hidden EXCEPT ![d] = hidden[d] \cup IF page = {} THEN {} ELSE gone]
      /\ UNCHANGED <<logVars, value, journal, acked, received, cursor>>
  BY DEF Fetch, TakePage
<1>2. /\ page \subseteq visible /\ page \subseteq 1..Len(rows) /\ Len(rows) \in Nat
      /\ cursor[d] \in Nat /\ \A p \in page : p > cursor[d]
      /\ \A p \in page : \A i \in visible : cursor[d] < i /\ i < p => i \in page
  BY PageTyped
<1>3. more \in BOOLEAN
  OBVIOUS
<1> HIDE DEF page, more
<1>4. UNCHANGED <<rows, visible, handler>>
  BY <1>1 DEF logVars
<1>5. LogIInv' /\ NoBatch' /\ Origin'
  BY <1>1, ServerRests DEF Genuine
<1>6. CASE page = {}
  <2>1. job' = [job EXCEPT ![d] = Idle]
    BY <1>1, <1>6
  <2>2. UNCHANGED hidden
    <3>1. hidden \in [Device -> SUBSET Seqs]
      BY DEF ReplIInv, DeviceTypeOK
    <3>2. hidden' = [hidden EXCEPT ![d] = hidden[d]]
      BY <1>1, <1>6
    <3> QED BY <3>1, <3>2
  <2>3. /\ DeviceTypeOK' /\ Delivered' /\ Paging' /\ Showing'
        /\ job'[d] = Idle /\ \A e \in Device \ {d} : job'[e] = job[e]
    BY <1>1, <1>4, <2>1, <2>2, IdleTyped, AckedInLog, CycleStep
  <2>4. Waiting'
    BY <1>1, <1>4, <2>3, IdleTyped, WaitOver
  <2> QED BY <1>5, <2>3, <2>4 DEF ReplIInv
<1>7. CASE page # {}
  <2> DEFINE j == [Idle EXCEPT !.at = "apply", !.page = page, !.more = more]
             m == Max(page)
  <2>1. job' = [job EXCEPT ![d] = j] /\ hidden' = [hidden EXCEPT ![d] = hidden[d] \cup gone]
    BY <1>1, <1>7
  <2>2. j \in Jobs /\ j.at = "apply" /\ j.batch = {} /\ j.page = page
    BY <1>2, <1>3 DEF Idle, Jobs, Seqs
  <2> HIDE DEF j
  <2>3. JobsTyped' /\ job'[d] = j /\ \A e \in Device \ {d} : job'[e] = job[e]
    BY <1>1, <1>4, <1>7, <2>1, <2>2, JobStep
  <2>4. m \in page /\ \A p \in page : p <= m
    BY <1>2, <1>7, GreatestMember
  <2> HIDE DEF m
  <2>5. Readable(Allowed) = visible
    BY AllReadable DEF ReplIInv, LogIInv
  <2>6. gone = {i \in 1..m : i \notin visible /\ i \notin received[d]} /\ gone \subseteq Seqs
    <3>1. gone = {i \in 1..m : i \notin visible /\ i \notin received[d]}
      BY <2>5 DEF Overtaken, m
    <3>2. 1..m \subseteq 1..Len(rows)
      BY <1>2, <2>4
    <3> HIDE DEF gone
    <3> QED BY <3>1, <3>2 DEF Seqs
  <2> HIDE DEF gone
  <2>7. /\ hidden' \in [Device -> SUBSET Seqs] /\ hidden'[d] = hidden[d] \cup gone
        /\ \A e \in Device \ {d} : hidden'[e] = hidden[e]
    BY <2>1, <2>6 DEF ReplIInv, DeviceTypeOK
  <2>8. DeviceTypeOK'
    <3>1. Seqs' = Seqs
      BY <1>4 DEF Seqs
    <3> QED BY <1>1, <1>4, <2>3, <2>7, <3>1 DEF ReplIInv, DeviceTypeOK, JobsTyped, Jobs
  <2>9. Delivered' /\ Showing'
    BY <1>1, <1>4 DEF ReplIInv, Delivered, InLog, Showing, About, KeptHere
  <2>10. Waiting'
    BY <1>1, <1>4, <2>2, <2>3, WaitOver
  <2>11. Paging'
    <3>1. ASSUME NEW p \in page, NEW i \in 1..p
          PROVE  i \in received[d] \cup hidden'[d] \cup page
      <4>1. p \in Nat /\ i \in Nat /\ m \in Nat /\ p <= m /\ 1 <= i /\ i <= p
        BY <1>2, <2>4, <3>1
      <4>2. CASE i <= cursor[d]
        BY <1>2, <2>7, <4>1, <4>2 DEF ReplIInv, Paging
      <4>3. CASE i > cursor[d] /\ i \in visible
        BY <1>2, <4>1, <4>3
      <4>4. CASE i \notin visible
        BY <2>6, <2>7, <4>1, <4>4
      <4> QED BY <1>2, <4>1, <4>2, <4>3, <4>4
    <3> SUFFICES ASSUME NEW e \in Device
                 PROVE  /\ received[e] \subseteq 1..cursor[e]
                        /\ \A i \in 1..cursor[e] : i \in received[e] \/ i \in hidden'[e]
                        /\ job'[e].page \subseteq visible
                        /\ \A p \in job'[e].page :
                              /\ p > cursor[e]
                              /\ \A i \in 1..p : i \in received[e] \cup hidden'[e] \cup job'[e].page
      BY <1>1, <1>4 DEF Paging
    <3>2. CASE e = d
      BY <1>2, <2>2, <2>3, <2>7, <3>1, <3>2 DEF ReplIInv, Paging
    <3>3. CASE e # d
      BY <2>3, <2>7, <3>3 DEF ReplIInv, Paging
    <3> QED BY <3>2, <3>3
  <2> QED BY <1>5, <2>8, <2>9, <2>10, <2>11 DEF ReplIInv
<1> QED BY <1>6, <1>7

\* The rows of a page are applied from the first to the last.
LEMMA ApplyStep ==
    ASSUME ReplIInv, NEW d \in Device, ApplyPulledMutation(d)
    PROVE  ReplIInv'
<1> DEFINE i == Min(job[d].page)
           c == rows[i].change
<1>1. /\ job[d].at = "apply"
      /\ SetFields(d, Carries[c], c)
      /\ cursor' = [cursor EXCEPT ![d] = i]
      /\ received' = [received EXCEPT ![d] = received[d] \cup {i}]
      /\ job' = [job EXCEPT ![d] = AfterApply(d, i)]
      /\ UNCHANGED <<logVars, journal, acked, hidden>>
  BY DEF ApplyPulledMutation
<1>2. UNCHANGED <<rows, visible, handler>>
  BY <1>1 DEF logVars
<1>3. LogIInv' /\ NoBatch' /\ Origin'
  BY <1>1, ServerRests DEF Genuine
<1>4. /\ job[d].page \subseteq visible /\ visible \subseteq 1..Len(rows)
      /\ job[d].page # {} /\ Len(rows) \in Nat
  BY <1>1, LenProperties DEF ReplIInv, DeviceTypeOK, Paging, LogIInv, LogTypeOK, Seqs
<1>5. i \in job[d].page /\ \A p \in job[d].page : i <= p
  <2>1. job[d].page \subseteq Nat
    <3>1. 1..Len(rows) \subseteq Nat
      BY <1>4
    <3>2. job[d].page \subseteq 1..Len(rows)
      BY <1>4
    <3> QED BY <3>1, <3>2
  <2> QED BY <1>4, <2>1, LeastMember
<1> HIDE DEF i
<1>6. i \in visible /\ i \in 1..Len(rows) /\ i \in Nat
  <2>1. i \in visible /\ i \in 1..Len(rows)
    BY <1>4, <1>5
  <2> QED BY <1>4, <2>1
<1>7. c \in Change
  <2>1. rows[i] \in [change: Change, nth: Nat, of: Nat, tx: Nat]
    BY <1>6, ElementOfSeq DEF ReplIInv, LogIInv, LogTypeOK
  <2> QED BY <2>1
<1>8. rows[i].change = c
  OBVIOUS
<1> HIDE DEF c
<1>9. PICK j \in Jobs : /\ job' = [job EXCEPT ![d] = j] /\ j.batch \subseteq DOMAIN journal[d]
                        /\ j.at \in {"idle", "pull", "apply"}
                        /\ j.page = job[d].page \ {i}
                        /\ j.at = "apply" => j.page # {}
  <2>1. CASE job[d].page # {i}
    <3> DEFINE P == job[d].page \ {i}
               j == [job[d] EXCEPT !.page = P]
    <3>1. job' = [job EXCEPT ![d] = j]
      BY <1>1, <2>1 DEF AfterApply
    <3>2. P # {} /\ P \subseteq Seqs
      BY <1>4, <1>5, <2>1 DEF Seqs
    <3>3. job[d] \in Jobs /\ job[d].batch \subseteq DOMAIN journal[d]
      BY DEF ReplIInv, DeviceTypeOK, Jobs
    <3> HIDE DEF P
    <3>4. j \in Jobs /\ j.at = "apply" /\ j.page = P /\ j.batch = job[d].batch
      BY <1>1, <3>2, <3>3 DEF Jobs
    <3> HIDE DEF j
    <3> QED BY <3>1, <3>2, <3>3, <3>4 DEF P
  <2>2. CASE job[d].page = {i} /\ job[d].more
    <3> DEFINE j == [Idle EXCEPT !.at = "pull"]
    <3>1. job' = [job EXCEPT ![d] = j]
      BY <1>1, <2>2 DEF AfterApply
    <3>2. j \in Jobs /\ j.at = "pull" /\ j.batch = {} /\ j.page = {}
      BY DEF Idle, Jobs
    <3> HIDE DEF j
    <3> QED BY <2>2, <3>1, <3>2
  <2>3. CASE job[d].page = {i} /\ ~job[d].more
    <3>1. job' = [job EXCEPT ![d] = Idle]
      BY <1>1, <2>3 DEF AfterApply
    <3> QED BY <2>3, <3>1, IdleTyped
  <2> QED BY <2>1, <2>2, <2>3
<1>10. JobsTyped' /\ job'[d] = j /\ \A e \in Device \ {d} : job'[e] = job[e]
  BY <1>1, <1>2, <1>9, JobStep
<1>11. /\ cursor'[d] = i /\ received'[d] = received[d] \cup {i}
       /\ \A e \in Device \ {d} : cursor'[e] = cursor[e] /\ received'[e] = received[e]
  BY <1>1 DEF ReplIInv, DeviceTypeOK
<1>12. DeviceTypeOK'
  <2>1. Seqs' = Seqs
    BY <1>2 DEF Seqs
  <2>2. value' \in [Device -> [Field -> Change \cup {None}]]
    BY <1>1, <1>7, SetFieldsSets DEF ReplIInv, DeviceTypeOK
  <2>3. cursor' \in [Device -> 0..Len(rows)]
    <3>1. i \in 0..Len(rows)
      BY <1>4, <1>6
    <3> QED BY <1>1, <3>1 DEF ReplIInv, DeviceTypeOK
  <2>4. received' \in [Device -> SUBSET visible]
    BY <1>1, <1>6 DEF ReplIInv, DeviceTypeOK
  <2> QED BY <1>1, <1>2, <1>10, <2>1, <2>2, <2>3, <2>4
          DEF ReplIInv, DeviceTypeOK, JobsTyped, Jobs
<1>13. Delivered'
  BY <1>1, <1>2 DEF ReplIInv, Delivered, InLog
<1>14. Waiting'
  BY <1>1, <1>2, <1>9, <1>10, WaitOver
<1>15. /\ received[d] \subseteq 1..cursor[d] /\ cursor[d] \in Nat /\ cursor[d] < i
       /\ \A k \in 1..i : k \in received[d] \cup hidden[d] \cup job[d].page
       /\ \A p \in job[d].page : \A k \in 1..p :
             k \in received[d] \cup hidden[d] \cup job[d].page
  <2>1. cursor[d] \in Nat
    BY <1>4 DEF ReplIInv, DeviceTypeOK
  <2> QED BY <1>5, <2>1 DEF ReplIInv, Paging
<1>16. Paging'
  <2> SUFFICES ASSUME NEW e \in Device
               PROVE  /\ received'[e] \subseteq 1..cursor'[e]
                      /\ \A k \in 1..cursor'[e] : k \in received'[e] \/ k \in hidden[e]
                      /\ job'[e].page \subseteq visible
                      /\ \A p \in job'[e].page :
                            /\ p > cursor'[e]
                            /\ \A k \in 1..p : k \in received'[e] \cup hidden[e] \cup job'[e].page
    BY <1>1, <1>2 DEF Paging
  <2>1. CASE e # d
    BY <1>10, <1>11, <2>1 DEF ReplIInv, Paging
  <2>2. CASE e = d
    <3>1. received'[d] \subseteq 1..i
      BY <1>6, <1>11, <1>15
    <3>2. \A k \in 1..i : k \in received'[d] \/ k \in hidden[d]
      <4> SUFFICES ASSUME NEW k \in 1..i, k \in job[d].page PROVE k = i
        BY <1>11, <1>15
      <4> QED BY <1>5, <1>6
    <3>3. \A p \in job[d].page \ {i} : p > i
      <4>1. \A p \in job[d].page : p \in Nat
        BY <1>4
      <4> QED BY <1>5, <1>6, <4>1
    <3>4. \A p \in job[d].page \ {i} : \A k \in 1..p :
              k \in received'[d] \cup hidden[d] \cup (job[d].page \ {i})
      BY <1>11, <1>15
    <3> QED BY <1>4, <1>9, <1>10, <1>11, <2>2, <3>1, <3>2, <3>3, <3>4
  <2> QED BY <2>1, <2>2
<1>17. Showing'
  <2>1. \A e \in Device \ {d}, f \in Field : About(e, f)' = About(e, f)
    BY <1>2, <1>11 DEF About
  <2>2. \A f \in Field : About(d, f)' = IF f \in Carries[c] THEN About(d, f) \cup {i} ELSE About(d, f)
    BY <1>2, <1>8, <1>11 DEF About
  <2>3. /\ \A f \in Field : value'[d][f] = IF f \in Carries[c] THEN c ELSE value[d][f]
        /\ \A e \in Device \ {d} : value'[e] = value[e]
    BY <1>1, <1>7, SetFieldsSets DEF ReplIInv, DeviceTypeOK
  <2> SUFFICES ASSUME NEW e \in Device, NEW f \in Field
               PROVE  \/ value'[e][f] = None /\ About(e, f)' = {}
                      \/ \E k \in About(e, f)' : /\ value'[e][f] = rows[k].change
                                                 /\ \A l \in About(e, f)' : l <= k
                      \/ /\ value'[e][f] \in Range(journal[e]) /\ f \in Carries[value'[e][f]]
                         /\ \A l \in received'[e] : rows[l].change # value'[e][f]
                      \/ value'[e][f] \in Change /\ f \notin Carries[value'[e][f]]
    BY <1>1, <1>2 DEF Showing, KeptHere
  <2>4. CASE e # d
    BY <1>11, <2>1, <2>3, <2>4 DEF ReplIInv, Showing, KeptHere
  <2>5. CASE e = d /\ f \in Carries[c]
    <3>1. \A l \in About(d, f) \cup {i} : l <= i
      BY <1>6, <1>15 DEF About
    <3> QED BY <1>8, <2>2, <2>3, <2>5, <3>1
  <2>6. CASE e = d /\ f \notin Carries[c]
    BY <1>8, <1>11, <2>2, <2>3, <2>6 DEF ReplIInv, Showing, KeptHere
  <2> QED BY <2>4, <2>5, <2>6
<1> QED BY <1>3, <1>12, <1>13, <1>14, <1>16, <1>17 DEF ReplIInv

-------------------------------------------------------------------------------
\* The initial states satisfy the inductive invariant.
LEMMA ReplInitIInv == ReplInit => ReplIInv
<1> SUFFICES ASSUME ReplInit PROVE ReplIInv
  OBVIOUS
<1>1. /\ LogInit /\ rows = <<>> /\ visible = {} /\ Seqs = {}
      /\ \A r \in Request : handler[r] = Free
      /\ value = [d \in Device |-> [f \in Field |-> None]]
      /\ journal = [d \in Device |-> <<>>] /\ acked = [d \in Device |-> {}]
      /\ cursor = [d \in Device |-> 0] /\ job = [d \in Device |-> Idle]
      /\ received = [d \in Device |-> {}] /\ hidden = [d \in Device |-> {}]
  BY EmptySeq DEF ReplInit, LogInit, Seqs
<1>2. LogIInv
  BY <1>1, InitIInv
<1>3. NoBatch /\ Origin
  BY <1>1, EmptySeq DEF NoBatch, Origin, Free
<1>4. DeviceTypeOK
  <2>1. 0 \in 0..Len(rows)
    BY <1>1, EmptySeq
  <2>2. /\ value \in [Device -> [Field -> Change \cup {None}]]
        /\ journal \in [Device -> Seq(Change)] /\ acked \in [Device -> SUBSET Nat]
        /\ cursor \in [Device -> 0..Len(rows)]
        /\ received \in [Device -> SUBSET visible] /\ hidden \in [Device -> SUBSET Seqs]
    BY <1>1, <2>1, EmptySeq
  <2>3. job \in [Device -> Jobs]
    BY <1>1, IdleTyped
  <2>4. \A d \in Device : /\ acked[d] = {} /\ job[d].batch = {} /\ job[d].at = "idle"
    BY <1>1, IdleTyped
  <2> QED BY <2>2, <2>3, <2>4 DEF DeviceTypeOK, Jobs
<1>5. Delivered /\ Waiting
  BY <1>1, IdleTyped DEF Delivered, Waiting
<1>6. Paging
  BY <1>1, IdleTyped DEF Paging
<1>7. Showing
  BY <1>1 DEF Showing, About
<1> QED BY <1>2, <1>3, <1>4, <1>5, <1>6, <1>7 DEF ReplIInv

\* Every step keeps the invariant.
LEMMA ReplNextIInv == ReplIInv /\ [ReplNext]_replVars => ReplIInv'
<1> SUFFICES ASSUME ReplIInv, [ReplNext]_replVars PROVE ReplIInv'
  OBVIOUS
<1>1. CASE UNCHANGED replVars
  <2>1. UNCHANGED logVars /\ UNCHANGED deviceVars
    BY <1>1 DEF replVars
  <2>2. LogIInv' /\ NoBatch' /\ Origin'
    BY <2>1, ServerRests DEF Genuine, deviceVars
  <2>3. Grew /\ LogTypeOK'
    BY <2>1, <2>2 DEF Grew, Seqs, logVars, LogIInv
  <2>4. \A r \in Request : Kept(r)
    BY <2>1, QuietKept DEF logVars, ReplIInv
  <2> QED BY <2>1, <2>2, <2>3, <2>4, DevicesUnderGrowth, WaitingUnderGrowth DEF ReplIInv
<1>2. CASE Server
  BY <1>2, ServerStep
<1>3. ASSUME NEW d \in Device, Machine(d) PROVE ReplIInv'
  BY <1>3, WriteStep, StartCycleStep, FetchStep, ApplyStep, AbortStep, PushStep, HearAnswerStep
     DEF Machine
<1> QED BY <1>1, <1>2, <1>3 DEF ReplNext

LEMMA ReplIInvHolds == ReplSpec => []ReplIInv
BY ReplInitIInv, ReplNextIInv, PTL DEF ReplSpec

\* Types: a machine acks and pushes rows of its own journal, receives committed rows
\* only, and its cursor stays within the log.
THEOREM DeviceTypeCorrect == ReplSpec => []DeviceTypeOK
<1>1. ReplIInv => DeviceTypeOK
  BY DEF ReplIInv
<1> QED BY <1>1, ReplIInvHolds, PTL

\* Every write is pending on its machine or committed at the server.
THEOREM WritesSafe == ReplSpec => []NothingLost
<1>1. ReplIInv => NothingLost
  BY DEF ReplIInv, Delivered, InLog, NothingLost, Pending
<1> QED BY <1>1, ReplIInvHolds, PTL

\* A row left behind for good could not be read when its page was.
THEOREM SkipsAreHidden == ReplSpec => []SkipsExplained
<1>1. ReplIInv => SkipsExplained
  <2> SUFFICES ASSUME ReplIInv, NEW d \in Device, NEW i \in Readable(Allowed),
                      i <= cursor[d], i \notin received[d]
               PROVE  i \in hidden[d]
    BY DEF SkipsExplained
  <2>1. i \in 1..Len(rows) /\ Len(rows) \in Nat
    BY LenProperties DEF ReplIInv, LogIInv, LogTypeOK, Seqs, Readable
  <2>2. cursor[d] \in Nat
    BY <2>1 DEF ReplIInv, DeviceTypeOK
  <2>3. i \in 1..cursor[d]
    BY <2>1, <2>2
  <2> QED BY <2>3 DEF ReplIInv, Paging
<1> QED BY <1>1, ReplIInvHolds, PTL

\* The last row that carries a field, for a machine that has received them all.
LEMMA LastReceived ==
    ASSUME ReplIInv, NEW d \in Device, Readable(Allowed) \subseteq received[d],
           NEW f, NEW i \in About(d, f), \A j \in About(d, f) : j <= i
    PROVE  LastRow(f) = i
<1> DEFINE S == {j \in Readable(Allowed) : f \in Carries[rows[j].change]}
<1>1. /\ Readable(Allowed) = visible /\ received[d] \subseteq visible
      /\ visible \subseteq 1..Len(rows) /\ Len(rows) \in Nat
  BY AllReadable, LenProperties DEF ReplIInv, DeviceTypeOK, LogIInv, LogTypeOK, Seqs
<1>2. S = About(d, f) /\ S \subseteq 1..Len(rows) /\ i \in S
  BY <1>1 DEF About
<1> HIDE DEF S
<1>3. Max(S) \in S /\ \A j \in S : j <= Max(S)
  BY <1>1, <1>2, GreatestMember
<1>4. Max(S) <= i /\ i <= Max(S) /\ Max(S) \in 1..Len(rows) /\ i \in 1..Len(rows)
  BY <1>2, <1>3
<1>5. Max(S) = i
  BY <1>1, <1>4
<1> QED BY <1>5 DEF LastRow, S

\* A machine that owes nothing and misses nothing shows what the log says last, but in
\* fields it has itself set last by a change that no row carries.
THEOREM MachinesAgree == ReplSpec => []Agreement
<1>1. ReplIInv => Agreement
  <2> SUFFICES ASSUME ReplIInv, NEW d \in Device, Pending(d) = {},
                      Readable(Allowed) \subseteq received[d],
                      NEW k \in Readable(Allowed), NEW f \in Carries[rows[k].change]
               PROVE  KeptHere(d, f) \/ value[d][f] = rows[LastRow(f)].change
    BY DEF Agreement
  <2>1. Readable(Allowed) = visible /\ visible \subseteq Seqs
    BY AllReadable DEF ReplIInv, LogIInv, LogTypeOK
  <2>2. k \in About(d, f)
    BY DEF About
  <2>3. f \in Field
    <3>1. rows[k] \in [change: Change, nth: Nat, of: Nat, tx: Nat]
      BY <2>1, ElementOfSeq DEF Seqs, ReplIInv, LogIInv, LogTypeOK
    <3> QED BY <3>1, FieldsAssumption
  <2>4. CASE value[d][f] = None /\ About(d, f) = {}
    BY <2>2, <2>4
  <2>5. CASE \E i \in About(d, f) : value[d][f] = rows[i].change /\ \A j \in About(d, f) : j <= i
    BY <2>5, LastReceived
  <2>6. CASE /\ value[d][f] \in Range(journal[d]) /\ f \in Carries[value[d][f]]
             /\ \A j \in received[d] : rows[j].change # value[d][f]
    <3>1. PICK n \in DOMAIN journal[d] : journal[d][n] = value[d][f]
      BY <2>6 DEF Range
    <3>2. n \in acked[d]
      BY DEF Pending
    <3>3. \E j \in visible : rows[j].change = value[d][f]
      BY <3>1, <3>2 DEF ReplIInv, Delivered, InLog
    <3> QED BY <2>1, <2>6, <3>3
  <2>7. CASE KeptHere(d, f)
    BY <2>7
  <2> QED BY <2>3, <2>4, <2>5, <2>6, <2>7 DEF ReplIInv, Showing
<1> QED BY <1>1, ReplIInvHolds, PTL

-------------------------------------------------------------------------------
\* A step of the machines is one of the abstract log, or none.
LEMMA ReplNextRefines ==
    ASSUME ReplIInv, ReplIInv', [ReplNext]_replVars
    PROVE  [BatchLog!Next]_BatchLog!vars
<1>1. LogIInv /\ LogIInv'
  BY DEF ReplIInv
<1>2. ASSUME [LogNext]_logVars PROVE [BatchLog!Next]_BatchLog!vars
  BY <1>1, <1>2, NextRefines
<1>3. ASSUME NEW d \in Device, NEW r \in Request, Push(d, r)
      PROVE  [BatchLog!Next]_BatchLog!vars
  <2>1. PICK s \in InOrder(Group(d)) : Receive(r, [k \in DOMAIN s |-> journal[d][s[k]]])
    BY <1>3 DEF Push
  <2> DEFINE batch == [k \in DOMAIN s |-> journal[d][s[k]]]
  <2>2. /\ s \in [1..Cardinality(Group(d)) -> Group(d)] /\ Cardinality(Group(d)) \in Nat
        /\ \A i \in Group(d) : journal[d][i] \in Change
    <3>1. Group(d) \subseteq 1..Len(journal[d]) /\ Len(journal[d]) \in Nat
      BY GroupTyped
    <3> QED BY <3>1, InOrderCovers, GroupTyped
  <2>3. batch \in Seq(Change)
    <3>1. batch \in [1..Cardinality(Group(d)) -> Change]
      BY <2>2
    <3> QED BY <2>2, <3>1
  <2>4. Receive(r, batch)
    BY <2>1
  <2> HIDE DEF batch
  <2>5. BatchLog!Submit(r) \/ BatchLog!Refuse(r)
    BY <1>1, <2>3, <2>4, ReceiveRefines
  <2> QED BY <2>5 DEF BatchLog!Next
<1>4. ASSUME NEW d \in Device, NEW r \in Request, HearAnswer(d, r) PROVE [LogNext]_logVars
  BY <1>4 DEF HearAnswer, LogNext
<1>5. ASSUME NEW d \in Device, NEW c \in Change, Write(d, c) PROVE [LogNext]_logVars
  BY <1>5 DEF Write
<1>6. ASSUME NEW d \in Device,
             StartCycle(d) \/ Fetch(d) \/ ApplyPulledMutation(d) \/ Abort(d)
      PROVE  [LogNext]_logVars
  BY <1>6 DEF StartCycle, Fetch, TakePage, ApplyPulledMutation, Abort
<1>7. ASSUME Server PROVE [LogNext]_logVars
  BY <1>7 DEF Server, LogNext
<1>8. CASE UNCHANGED replVars
  BY <1>2, <1>8 DEF replVars
<1> QED BY <1>2, <1>3, <1>4, <1>5, <1>6, <1>7, <1>8 DEF ReplNext, Machine

\* The machines use the server's log as its abstraction allows, whatever the sizes of
\* their batches: all that BatchLog promises holds for the log they share.
THEOREM MachinesShareBatchLog == ReplSpec => ActsAsBatchLog
<1>1. ReplInit => BatchLog!Init
  BY DEF ReplInit, LogInit, BatchLog!Init, Active, Free
<1>2. ReplIInv /\ ReplIInv' /\ [ReplNext]_replVars => [BatchLog!Next]_BatchLog!vars
  BY ReplNextRefines
<1> QED BY <1>1, <1>2, ReplIInvHolds, PTL DEF ReplSpec, ActsAsBatchLog, BatchLog!Spec

-------------------------------------------------------------------------------
(* The order of a machine's changes.  A batch in flight has every earlier change   *)
(* of its project before each of its entries, or that change is in the log         *)
(* already, before the transaction's first row.                                    *)

\* Some machine made change b before change c, to the same project.
Before(b, c) ==
    \E d \in Device : \E j \in DOMAIN journal[d] : \E i \in Earlier(d, j) :
        journal[d][i] = b /\ journal[d][j] = c

Once ==
    \A d, e \in Device : \A i \in DOMAIN journal[d], j \in DOMAIN journal[e] :
        journal[d][i] = journal[e][j] => d = e /\ i = j

\* What is to be pushed in this cycle leaves no earlier change of its project out.
BatchClosed ==
    \A d \in Device : \A j \in job[d].batch : \A i \in Earlier(d, j) :
        i \in job[d].batch \/ InLog(journal[d][i])

\* A transaction's first row is its first.
TxFrom == \A i \in Seqs : rows[i].tx <= i

Preceded(r) ==
    Active(r) =>
        \A n \in DOMAIN handler[r].batch : \A b \in Change :
            Before(b, handler[r].batch[n]) =>
                \/ \E m \in DOMAIN handler[r].batch : m < n /\ handler[r].batch[m] = b
                \/ \E l \in visible :
                      /\ rows[l].change = b
                      /\ HasTx(r) => l < handler[r].first

OrderIInv ==
    /\ Once /\ BatchClosed /\ TxFrom /\ AuthorOrder
    /\ \A r \in Request : Preceded(r)


LEMMA BeforeTyped ==
    ASSUME ReplIInv, NEW b, NEW c, Before(b, c)
    PROVE  b \in Change /\ c \in Change
<1>1. PICK d \in Device : \E j \in DOMAIN journal[d] : \E i \in Earlier(d, j) :
          journal[d][i] = b /\ journal[d][j] = c
  BY DEF Before
<1>2. journal[d] \in Seq(Change)
  BY DEF ReplIInv, DeviceTypeOK
<1>3. \A i \in DOMAIN journal[d] : journal[d][i] \in Change
  BY <1>2, ElementOfSeq, LenProperties
<1> QED BY <1>1, <1>3 DEF Earlier

\* The order in the log, said of changes.
LEMMA OrderOfChanges ==
    AuthorOrder <=>
        \A b, c : Before(b, c) =>
            \A k \in visible : rows[k].change = c =>
                \E l \in visible : l < k /\ rows[l].change = b
BY DEF AuthorOrder, Before

\* A request that keeps its batch and its first row stays in order.
LEMMA PrecededStays ==
    ASSUME LogTypeOK, Grew, UNCHANGED journal, NEW r \in Request, Preceded(r),
           Active(r)' => /\ Active(r) /\ handler'[r].batch = handler[r].batch
                         /\ HasTx(r)' => HasTx(r) /\ handler'[r].first = handler[r].first
    PROVE  Preceded(r)'
<1>1. \A b, c : Before(b, c)' <=> Before(b, c)
  BY DEF Before, Earlier
<1>2. visible \subseteq visible' /\ \A l \in visible : rows'[l] = rows[l]
  BY DEF Grew, LogTypeOK
<1> SUFFICES ASSUME Active(r)', NEW n \in DOMAIN handler[r].batch, NEW b \in Change,
                    Before(b, handler[r].batch[n])
             PROVE  \/ \E m \in DOMAIN handler[r].batch : m < n /\ handler[r].batch[m] = b
                    \/ \E l \in visible' :
                          /\ rows'[l].change = b
                          /\ HasTx(r)' => l < handler'[r].first
  BY <1>1 DEF Preceded
<1> QED BY <1>2 DEF Preceded

\* While the machines rest, nothing of theirs changes but what the log has.
LEMMA MachinesRest ==
    ASSUME ReplIInv, OrderIInv, Grew, UNCHANGED <<journal, job>>
    PROVE  Once' /\ BatchClosed' /\ \A b, c : Before(b, c)' <=> Before(b, c)
<1>1. Once'
  BY DEF OrderIInv, Once
<1>2. \A c : InLog(c) => InLog(c)'
  BY InLogStays DEF ReplIInv, LogIInv
<1>3. BatchClosed'
  <2> SUFFICES ASSUME NEW d \in Device, NEW j \in job[d].batch, NEW i \in Earlier(d, j)
               PROVE  i \in job[d].batch \/ InLog(journal[d][i])'
    BY DEF BatchClosed, Earlier, InLog
  <2> QED BY <1>2 DEF OrderIInv, BatchClosed
<1> QED BY <1>1, <1>3 DEF Before, Earlier

\* The rows read are those they were.
LEMMA LogRests ==
    ASSUME OrderIInv, UNCHANGED <<rows, visible>>, \A b, c : Before(b, c)' <=> Before(b, c)
    PROVE  TxFrom' /\ AuthorOrder'
<1>1. TxFrom'
  BY DEF OrderIInv, TxFrom, Seqs
<1>2. \A b, c : Before(b, c)' =>
          \A k \in visible' : rows'[k].change = c =>
              \E l \in visible' : l < k /\ rows'[l].change = b
  BY OrderOfChanges DEF OrderIInv
<1>3. AuthorOrder'
  BY <1>2 DEF AuthorOrder, Before
<1> QED BY <1>1, <1>3

\* An INSERT: what is in the log already is before the new transaction's first row.
LEMMA InsertKeepsOrder ==
    ASSUME ReplIInv, OrderIInv, UNCHANGED <<journal, job>>, NEW r \in Request, InsertRow(r)
    PROVE  OrderIInv'
<1> DEFINE N == Len(rows)
           t == NewRow(r).tx
           h == NextEntry(r, "insert", "commit")
<1>1. Grew
  BY ServeKeeps DEF ReplIInv, Serve
<1>2. Once' /\ BatchClosed' /\ \A b, c : Before(b, c)' <=> Before(b, c)
  BY <1>1, MachinesRest
<1>3. /\ handler[r].at = "insert" /\ rows' = Append(rows, NewRow(r)) /\ UNCHANGED visible
      /\ handler'[r] = [h EXCEPT !.first = t] /\ handler[r] \in Handlers
      /\ \A s \in Request \ {r} : handler'[s] = handler[s]
      /\ rows \in Seq([change: Change, nth: Nat, of: Nat, tx: Nat]) /\ N \in Nat
      /\ visible \subseteq 1..N
  BY LenProperties DEF InsertRow, ReplIInv, LogIInv, LogTypeOK, Seqs
<1>4. h \in Handlers /\ h.at \in {"insert", "commit"} /\ h.batch = handler[r].batch
  BY <1>3, EntryMoves DEF Places, ReplIInv
<1>5. /\ Len(rows') = N + 1 /\ rows'[N + 1] = NewRow(r)
      /\ \A i \in 1..N : rows'[i] = rows[i]
  BY <1>3, AppendProperties
<1>6. t = IF handler[r].next = 1 THEN N + 1 ELSE handler[r].first
  BY DEF NewRow
<1>7. handler[r].next # 1 => HasTx(r) /\ handler[r].first \in 1..N
  BY <1>3 DEF HasTx, ReplIInv, LogIInv, TxOpen, Seqs
<1>8. t \in Nat /\ t <= N + 1
  BY <1>3, <1>6, <1>7
<1> HIDE DEF h, t, N
<1>9. /\ handler'[r].at \in {"insert", "commit"} /\ handler'[r].batch = handler[r].batch
      /\ handler'[r].first = t
  BY <1>3, <1>4 DEF Handlers
<1>10. TxFrom'
  <2>1. Seqs' = 1..(N + 1) /\ Seqs = 1..N
    BY <1>5 DEF Seqs, N
  <2> SUFFICES ASSUME NEW i \in 1..(N + 1) PROVE rows'[i].tx <= i
    BY <2>1 DEF TxFrom
  <2>2. CASE i \in 1..N
    BY <1>5, <2>1, <2>2 DEF OrderIInv, TxFrom
  <2>3. CASE i = N + 1
    BY <1>5, <1>8, <2>3 DEF t
  <2>4. i \in 1..N \/ i = N + 1
    BY <1>3
  <2> QED BY <2>2, <2>3, <2>4
<1>11. AuthorOrder'
  <2>1. visible' = visible /\ \A k \in visible : rows'[k] = rows[k]
    BY <1>3, <1>5
  <2>2. \A b, c : Before(b, c) =>
            \A k \in visible : rows[k].change = c =>
                \E l \in visible : l < k /\ rows[l].change = b
    BY OrderOfChanges DEF OrderIInv
  <2> SUFFICES ASSUME NEW b, NEW c, Before(b, c)', NEW k \in visible', rows'[k].change = c
               PROVE  \E l \in visible' : l < k /\ rows'[l].change = b
    BY DEF AuthorOrder, Before
  <2>3. Before(b, c) /\ k \in visible /\ rows[k].change = c
    BY <1>2, <2>1
  <2> QED BY <2>1, <2>2, <2>3
<1>12. \A s \in Request \ {r} : Preceded(s)'
  <2> SUFFICES ASSUME NEW s \in Request \ {r} PROVE Preceded(s)'
    OBVIOUS
  <2>1. handler'[s] = handler[s]
    BY <1>3
  <2> QED BY <1>1, <2>1, PrecededStays DEF Active, HasTx, OrderIInv, ReplIInv, LogIInv
<1>13. Preceded(r)'
  <2>1. CASE handler[r].next # 1
    <3>1. Active(r) /\ HasTx(r) /\ handler'[r].first = handler[r].first
      BY <1>3, <1>6, <1>7, <1>9, <2>1 DEF Active
    <3> QED BY <1>1, <1>9, <3>1, PrecededStays DEF OrderIInv, ReplIInv, LogIInv
  <2>2. CASE handler[r].next = 1
    <3>1. \A l \in visible : l < t /\ rows'[l] = rows[l]
      <4>1. \A l \in visible : l \in 1..N
        BY <1>3
      <4> QED BY <1>3, <1>5, <1>6, <2>2, <4>1
    <3>2. Active(r)
      BY <1>3 DEF Active
    <3> SUFFICES ASSUME NEW n \in DOMAIN handler'[r].batch, NEW b \in Change,
                        Before(b, handler[r].batch[n])'
                 PROVE  \/ \E m \in DOMAIN handler'[r].batch : m < n /\ handler'[r].batch[m] = b
                        \/ \E l \in visible' : rows'[l].change = b /\ l < handler'[r].first
      BY DEF Preceded
    <3> SUFFICES \/ \E m \in DOMAIN handler[r].batch : m < n /\ handler[r].batch[m] = b
                 \/ \E l \in visible : rows'[l].change = b /\ l < t
      BY <1>3, <1>9
    <3>4. n \in DOMAIN handler[r].batch /\ Before(b, handler[r].batch[n])
      BY <1>2, <1>9
    <3>3. \/ \E m \in DOMAIN handler[r].batch : m < n /\ handler[r].batch[m] = b
          \/ \E l \in visible : rows[l].change = b
      BY <3>2, <3>4 DEF OrderIInv, Preceded
    <3> QED BY <3>1, <3>3
  <2> QED BY <2>1, <2>2
<1> QED BY <1>2, <1>10, <1>11, <1>12, <1>13 DEF OrderIInv

\* A commit: the earlier change is in the same batch, further up, or was there first.
LEMMA CommitKeepsOrder ==
    ASSUME ReplIInv, OrderIInv, UNCHANGED <<journal, job>>, NEW r \in Request, Commit(r)
    PROVE  OrderIInv'
<1>1. Grew
  BY ServeKeeps DEF ReplIInv, Serve
<1>2. Once' /\ BatchClosed' /\ \A b, c : Before(b, c)' <=> Before(b, c)
  BY <1>1, MachinesRest
<1>3. /\ handler[r].at = "commit" /\ visible' = visible \cup Own(r) /\ UNCHANGED rows
      /\ Active(r) /\ HasTx(r) /\ Stored(r) = Len(handler[r].batch)
  BY DEF Commit, Active, HasTx, Stored
<1>4. /\ ~Active(r)' /\ \A s \in Request \ {r} : handler'[s] = handler[s]
  BY DEF Commit, ReplIInv, LogIInv, LogTypeOK, Answering, Free, Active
<1>5. DOMAIN handler[r].batch = 1..Len(handler[r].batch) /\ Len(handler[r].batch) \in Nat
  BY LenProperties DEF ReplIInv, LogIInv, LogTypeOK, Handlers
<1>6. \A k \in Own(r) : /\ rows[k].nth \in 1..Len(handler[r].batch)
                        /\ rows[k].change = handler[r].batch[rows[k].nth]
                        /\ k \in Nat /\ handler[r].first \in Nat /\ handler[r].first <= k
  <2>1. Len(rows) \in Nat /\ Seqs = 1..Len(rows)
    BY LenProperties DEF ReplIInv, LogIInv, LogTypeOK, Seqs
  <2>2. \A k \in Own(r) : k \in 1..Len(rows) /\ rows[k].tx = handler[r].first /\ rows[k].tx <= k
    BY <2>1 DEF Own, OrderIInv, TxFrom
  <2>3. handler[r].first \in 1..Len(rows)
    BY <1>3, <2>1 DEF ReplIInv, LogIInv, TxOpen
  <2>4. \A k \in Own(r) : k \in Nat /\ handler[r].first \in Nat /\ handler[r].first <= k
    BY <2>1, <2>2, <2>3
  <2>5. \A k \in Own(r) : /\ rows[k].nth \in 1..Len(handler[r].batch)
                          /\ rows[k].change = handler[r].batch[rows[k].nth]
    BY <1>3 DEF ReplIInv, LogIInv, TxOrdered
  <2> QED BY <2>4, <2>5
<1>7. TxFrom'
  BY <1>3 DEF OrderIInv, TxFrom, Seqs
<1>8. AuthorOrder'
  <2> SUFFICES \A b, c : Before(b, c) =>
                   \A k \in visible \cup Own(r) : rows[k].change = c =>
                       \E l \in visible \cup Own(r) : l < k /\ rows[l].change = b
    <3>1. \A b, c : Before(b, c)' =>
              \A k \in visible' : rows'[k].change = c =>
                  \E l \in visible' : l < k /\ rows'[l].change = b
      BY <1>2, <1>3
    <3> QED BY <3>1 DEF AuthorOrder, Before
  <2> SUFFICES ASSUME NEW b, NEW c, Before(b, c), NEW k \in visible \cup Own(r),
                      rows[k].change = c
               PROVE  \E l \in visible \cup Own(r) : l < k /\ rows[l].change = b
    OBVIOUS
  <2>1. CASE k \in visible
    BY <2>1, OrderOfChanges DEF OrderIInv
  <2>2. CASE k \in Own(r)
    <3> DEFINE n == rows[k].nth
    <3>1. n \in 1..Len(handler[r].batch) /\ c = handler[r].batch[n]
      BY <1>6, <2>2
    <3> HIDE DEF n
    <3>2. b \in Change
      BY BeforeTyped
    <3>3. \/ \E m \in DOMAIN handler[r].batch : m < n /\ handler[r].batch[m] = b
          \/ \E l \in visible : rows[l].change = b /\ l < handler[r].first
      BY <1>3, <1>5, <3>1, <3>2 DEF OrderIInv, Preceded
    <3>4. ASSUME NEW m \in DOMAIN handler[r].batch, m < n, handler[r].batch[m] = b
          PROVE  \E l \in Own(r) : l < k /\ rows[l].change = b
      <4>1. PICK l \in Own(r) : rows[l].nth = m
        BY <1>3, <1>5 DEF ReplIInv, LogIInv, TxOpen
      <4>2. rows[l].change = b
        BY <1>6, <3>4, <4>1
      <4>3. k < l => n < m
        BY <1>3, <2>2, <4>1 DEF ReplIInv, LogIInv, TxOrdered, n
      <4>4. l # k
        <5>1. m \in Nat
          BY <1>5
        <5> QED BY <3>4, <4>1, <5>1 DEF n
      <4>5. l < k
        <5>1. m \in Nat /\ n \in Nat /\ l \in Nat /\ k \in Nat
          BY <1>5, <1>6, <2>2, <3>1
        <5> QED BY <3>4, <4>3, <4>4, <5>1
      <4> QED BY <4>2, <4>5
    <3>5. ASSUME NEW l \in visible, l < handler[r].first PROVE l < k
      <4>1. l \in Nat
        BY LenProperties DEF ReplIInv, LogIInv, LogTypeOK, Seqs
      <4> QED BY <1>6, <2>2, <3>5, <4>1
    <3> QED BY <3>3, <3>4, <3>5
  <2> QED BY <2>1, <2>2
<1>9. \A s \in Request : Preceded(s)'
  <2> SUFFICES ASSUME NEW s \in Request PROVE Preceded(s)'
    OBVIOUS
  <2>1. CASE s = r
    BY <1>4, <2>1 DEF Preceded
  <2>2. CASE s # r
    <3>1. handler'[s] = handler[s]
      BY <1>4, <2>2
    <3> QED BY <1>1, <3>1, PrecededStays DEF Active, HasTx, OrderIInv, ReplIInv, LogIInv
  <2> QED BY <2>1, <2>2
<1> QED BY <1>2, <1>7, <1>8, <1>9 DEF OrderIInv

\* A step that inserts, commits and writes nothing.
LEMMA QuietKeepsOrder ==
    ASSUME ReplIInv, OrderIInv, UNCHANGED <<rows, visible, journal>>, BatchClosed',
           \A r \in Request :
               \/ Preceded(r)'
               \/ ~Active(r)'
               \/ /\ Active(r) /\ handler'[r].batch = handler[r].batch
                  /\ HasTx(r)' => HasTx(r) /\ handler'[r].first = handler[r].first
    PROVE  OrderIInv'
<1>1. Grew
  BY DEF Grew, Seqs
<1>2. \A b, c : Before(b, c)' <=> Before(b, c)
  BY DEF Before, Earlier
<1>3. TxFrom' /\ AuthorOrder'
  BY <1>2, LogRests
<1>4. Once'
  BY DEF OrderIInv, Once
<1>5. \A r \in Request : Preceded(r)'
  BY <1>1, PrecededStays DEF OrderIInv, ReplIInv, LogIInv
<1> QED BY <1>3, <1>4, <1>5 DEF OrderIInv

\* The server takes the machines no batch away.
LEMMA ServerKeepsOrder ==
    ASSUME ReplIInv, OrderIInv, Server
    PROVE  OrderIInv'
<1>1. UNCHANGED <<journal, job>>
  BY DEF Server, deviceVars
<1>2. LogIInv /\ LogTypeOK
  BY DEF ReplIInv, LogIInv
<1>3. ASSUME UNCHANGED <<rows, visible>>,
             \A r \in Request :
                 Active(r)' => /\ Active(r) /\ handler'[r].batch = handler[r].batch
                               /\ HasTx(r)' => HasTx(r) /\ handler'[r].first = handler[r].first
      PROVE  OrderIInv'
  <2>1. Grew
    BY <1>3 DEF Grew, Seqs
  <2>2. BatchClosed'
    BY <1>1, <2>1, MachinesRest
  <2> QED BY <1>1, <1>3, <2>2, QuietKeepsOrder
<1>4. ASSUME NEW s \in Request, \A r \in Request \ {s} : handler'[r] = handler[r],
             UNCHANGED <<rows, visible>>,
             Active(s)' => /\ Active(s) /\ handler'[s].batch = handler[s].batch
                           /\ HasTx(s)' => HasTx(s) /\ handler'[s].first = handler[s].first
      PROVE  OrderIInv'
  BY <1>3, <1>4 DEF Active, HasTx
<1>5. ASSUME NEW s \in Request, CheckPause(s) PROVE OrderIInv'
  <2> DEFINE h == NextEntry(s, "check", "insert")
  <2>1. /\ handler[s].at = "check" /\ UNCHANGED <<rows, visible>> /\ handler[s] \in Handlers
        /\ handler[s].next \in 1..Len(handler[s].batch)
        /\ \A r \in Request \ {s} : handler'[r] = handler[r]
        /\ handler'[s] = Answering("rejected") \/ handler'[s] = h
    BY <1>2, <1>5 DEF CheckPause, LogTypeOK
  <2>2. Len(handler[s].batch) \in Nat
    BY <2>1, LenProperties DEF Handlers
  <2>3. h.batch = handler[s].batch /\ (h.at = "check" \/ (h.at = "insert" /\ h.next = 1))
    <3>1. "check" \in Places /\ "insert" \in Places
      BY DEF Places
    <3>2. handler[s].next < Len(handler[s].batch) \/ handler[s].next = Len(handler[s].batch)
      BY <2>1, <2>2
    <3>3. /\ h.batch = handler[s].batch
          /\ handler[s].next < Len(handler[s].batch) => h.at = "check"
          /\ handler[s].next = Len(handler[s].batch) => h.at = "insert" /\ h.next = 1
      BY <2>1, <3>1, NextEntryTyped
    <3> QED BY <3>2, <3>3
  <2> HIDE DEF h
  <2>4. CASE handler'[s] = Answering("rejected")
    BY <1>4, <2>1, <2>4 DEF Answering, Free, Active
  <2>5. CASE handler'[s] = h
    BY <1>4, <2>1, <2>3, <2>5 DEF Active, HasTx
  <2> QED BY <2>1, <2>4, <2>5
<1>6. ASSUME NEW s \in Request, Fail(s) \/ Respond(s) PROVE OrderIInv'
  <2>1. /\ UNCHANGED <<rows, visible>> /\ ~Active(s)'
        /\ \A r \in Request \ {s} : handler'[r] = handler[r]
    BY <1>2, <1>6 DEF Fail, Respond, LogTypeOK, Answering, Free, Active
  <2> QED BY <1>4, <2>1
<1>7. ASSUME NEW p \in Project, NEW enabled \in BOOLEAN, SetProjectSyncEnabled(p, enabled)
      PROVE  OrderIInv'
  <2>1. /\ UNCHANGED <<rows, visible>>
        /\ handler' = [r \in Request |-> [handler[r] EXCEPT !.held = handler[r].held \cap paused']]
    BY <1>7 DEF SetProjectSyncEnabled
  <2>2. \A r \in Request : handler[r] \in Handlers
    BY <1>2 DEF LogTypeOK
  <2>3. \A r \in Request :
            /\ handler'[r].at = handler[r].at /\ handler'[r].batch = handler[r].batch
            /\ handler'[r].first = handler[r].first /\ handler'[r].next = handler[r].next
    BY <2>1, <2>2 DEF Handlers
  <2> QED BY <1>3, <2>1, <2>3 DEF Active, HasTx
<1> QED BY <1>1, <1>5, <1>6, <1>7, InsertKeepsOrder, CommitKeepsOrder DEF Server, Serve

\* A step of a machine that leaves the server's requests alone.
LEMMA CycleKeepsOrder ==
    ASSUME ReplIInv, OrderIInv, UNCHANGED <<rows, visible, handler, journal>>,
           NEW d \in Device, \A e \in Device \ {d} : job'[e] = job[e],
           \A j \in job'[d].batch : \A i \in Earlier(d, j) :
               i \in job'[d].batch \/ InLog(journal[d][i])
    PROVE  OrderIInv'
<1>1. BatchClosed'
  <2> SUFFICES ASSUME NEW e \in Device, NEW j \in job'[e].batch, NEW i \in Earlier(e, j)
               PROVE  i \in job'[e].batch \/ InLog(journal[e][i])
    BY DEF BatchClosed, Earlier, InLog
  <2>1. CASE e = d
    BY <2>1
  <2>2. CASE e # d
    BY <2>2 DEF OrderIInv, BatchClosed
  <2> QED BY <2>1, <2>2
<1>2. \A r \in Request : (Active(r)' <=> Active(r)) /\ (HasTx(r)' <=> HasTx(r))
  BY DEF Active, HasTx
<1> QED BY <1>1, <1>2, QuietKeepsOrder

\* The oldest pending rows: what is earlier is among them, or acked and so in the log.
LEMMA StartKeepsOrder ==
    ASSUME ReplIInv, OrderIInv, NEW d \in Device, StartCycle(d)
    PROVE  OrderIInv'
<1>1. UNCHANGED <<rows, visible, handler, journal>>
  BY DEF StartCycle, logVars
<1>2. \A e \in Device \ {d} : job'[e] = job[e]
  BY DEF StartCycle, ReplIInv, DeviceTypeOK
<1>3. job'[d].batch \in {{}, Oldest(d)}
  <2>1. job'[d] = IF Pending(d) = {} THEN [Idle EXCEPT !.at = "pull"]
                  ELSE [Idle EXCEPT !.at = "push", !.batch = Oldest(d)]
    BY DEF StartCycle, ReplIInv, DeviceTypeOK
  <2>2. [Idle EXCEPT !.at = "pull"].batch = {}
    BY DEF Idle
  <2>3. [Idle EXCEPT !.at = "push", !.batch = Oldest(d)].batch = Oldest(d)
    BY DEF Idle
  <2> QED BY <2>1, <2>2, <2>3
<1>4. ASSUME NEW j \in Oldest(d), NEW i \in Earlier(d, j)
      PROVE  i \in Oldest(d) \/ InLog(journal[d][i])
  <2>1. CASE i \in acked[d]
    BY <2>1 DEF ReplIInv, Delivered
  <2>2. CASE i \in Pending(d)
    <3> DEFINE S == Pending(d)
               n == Len(journal[d])
    <3>1. n \in Nat /\ S \subseteq 1..n
      BY LenProperties DEF Pending, ReplIInv, DeviceTypeOK
    <3>2. j \in S /\ i < j /\ Cardinality({l \in S : l < j}) < PushBatch
      BY DEF Oldest, Earlier
    <3> HIDE DEF S, n
    <3>3. PushBatch \in Nat /\ i \in S
      BY <2>2, BatchAssumption DEF S
    <3>4. Cardinality({l \in S : l < i}) < PushBatch
      BY <3>1, <3>2, <3>3, OldestClosed
    <3> QED BY <3>3, <3>4 DEF Oldest, S
  <2> QED BY <2>1, <2>2 DEF Earlier, Pending
<1> QED BY <1>1, <1>2, <1>3, <1>4, CycleKeepsOrder

\* A new change is the last of its machine, and nowhere else yet.
LEMMA WriteKeepsOrder ==
    ASSUME ReplIInv, OrderIInv, NEW d \in Device, NEW c \in Change, Write(d, c)
    PROVE  OrderIInv'
<1> DEFINE n == Len(journal[d])
<1>1. /\ \A e \in Device : c \notin Range(journal[e])
      /\ journal' = [journal EXCEPT ![d] = Append(journal[d], c)]
      /\ UNCHANGED <<rows, visible, handler, job>>
  BY DEF Write, logVars
<1>2. /\ journal[d] \in Seq(Change) /\ n \in Nat /\ DOMAIN journal[d] = 1..n
      /\ journal'[d] = Append(journal[d], c)
      /\ \A e \in Device \ {d} : journal'[e] = journal[e]
  BY <1>1, LenProperties DEF ReplIInv, DeviceTypeOK
<1>3. /\ DOMAIN journal'[d] = 1..(n + 1) /\ journal'[d][n + 1] = c
      /\ \A i \in 1..n : journal'[d][i] = journal[d][i]
  BY <1>2, AppendProperties, LenProperties
<1> HIDE DEF n
<1>4. /\ \A e \in Device : \A i \in DOMAIN journal[e] :
             i \in DOMAIN journal'[e] /\ journal'[e][i] = journal[e][i] /\ journal[e][i] # c
      /\ \A e \in Device : \A i \in DOMAIN journal'[e] :
             i \in DOMAIN journal[e] \/ (e = d /\ i = n + 1 /\ journal'[e][i] = c)
  <2>1. 1..(n + 1) = 1..n \cup {n + 1}
    BY <1>2
  <2>2. \A e \in Device : \A i \in DOMAIN journal[e] : journal[e][i] # c
    BY <1>1 DEF Range
  <2>3. \A e \in Device : \A i \in DOMAIN journal[e] :
            i \in DOMAIN journal'[e] /\ journal'[e][i] = journal[e][i]
    BY <1>2, <1>3, <2>1
  <2>4. \A e \in Device : \A i \in DOMAIN journal'[e] :
            i \in DOMAIN journal[e] \/ (e = d /\ i = n + 1 /\ journal'[e][i] = c)
    BY <1>2, <1>3, <2>1
  <2> QED BY <2>2, <2>3, <2>4
<1>5. ASSUME NEW e \in Device, NEW j \in DOMAIN journal[e]
      PROVE  Earlier(e, j)' = Earlier(e, j)
  <2>1. \A i \in DOMAIN journal'[e] : i < j => i \in DOMAIN journal[e]
    <3>1. CASE e = d
      <4>1. ~(n + 1 < j)
        BY <1>2, <3>1
      <4> QED BY <1>4, <4>1
    <3>2. CASE e # d
      BY <1>4, <3>2
    <3> QED BY <3>1, <3>2
  <2> QED BY <1>4, <2>1 DEF Earlier
<1>6. \A b, x : Before(b, x)' => Before(b, x) \/ x = c
  <2> SUFFICES ASSUME NEW b, NEW x, x # c,
                      NEW e \in Device, NEW j \in DOMAIN journal'[e], NEW i \in Earlier(e, j)',
                      journal'[e][i] = b, journal'[e][j] = x
               PROVE  Before(b, x)
    BY DEF Before
  <2>1. j \in DOMAIN journal[e] /\ i \in Earlier(e, j)
    BY <1>4, <1>5
  <2>2. i \in DOMAIN journal[e]
    BY <2>1 DEF Earlier
  <2> QED BY <1>4, <2>1, <2>2 DEF Before
<1>7. Once'
  <2> SUFFICES ASSUME NEW e \in Device, NEW f \in Device,
                      NEW i \in DOMAIN journal'[e], NEW j \in DOMAIN journal'[f],
                      journal'[e][i] = journal'[f][j]
               PROVE  e = f /\ i = j
    BY DEF Once
  <2>1. CASE i \in DOMAIN journal[e] /\ j \in DOMAIN journal[f]
    BY <1>4, <2>1 DEF OrderIInv, Once
  <2>2. CASE i \notin DOMAIN journal[e] \/ j \notin DOMAIN journal[f]
    BY <1>4, <2>2
  <2> QED BY <2>1, <2>2
<1>8. BatchClosed'
  <2> SUFFICES ASSUME NEW e \in Device, NEW j \in job'[e].batch, NEW i \in Earlier(e, j)'
               PROVE  i \in job'[e].batch \/ InLog(journal[e][i])'
    BY DEF BatchClosed
  <2>1. j \in job[e].batch /\ j \in DOMAIN journal[e] /\ i \in Earlier(e, j)
    <3>1. j \in job[e].batch /\ j \in DOMAIN journal[e]
      BY <1>1 DEF ReplIInv, DeviceTypeOK
    <3> QED BY <1>5, <3>1
  <2>2. journal'[e][i] = journal[e][i]
    BY <1>4, <2>1 DEF Earlier
  <2>3. i \in job[e].batch \/ InLog(journal[e][i])
    BY <2>1 DEF OrderIInv, BatchClosed
  <2> QED BY <1>1, <2>2, <2>3 DEF InLog
<1>9. TxFrom'
  BY <1>1 DEF OrderIInv, TxFrom, Seqs
<1>10. AuthorOrder'
  <2>1. \A k \in visible : rows[k].change # c
    BY <1>1 DEF ReplIInv, Origin, Genuine, LogIInv, LogTypeOK
  <2> SUFFICES ASSUME NEW b, NEW x, Before(b, x)', NEW k \in visible, rows[k].change = x
               PROVE  \E l \in visible : l < k /\ rows[l].change = b
    <3>1. \A b, x : Before(b, x)' =>
              \A k \in visible' : rows'[k].change = x =>
                  \E l \in visible' : l < k /\ rows'[l].change = b
      BY <1>1
    <3> QED BY <3>1 DEF AuthorOrder, Before
  <2> QED BY <1>6, <2>1, OrderOfChanges DEF OrderIInv
<1>11. \A r \in Request : Preceded(r)'
  <2>1. \A r \in Request : \A m \in DOMAIN handler[r].batch : handler[r].batch[m] # c
    BY <1>1 DEF ReplIInv, Origin, Genuine
  <2>2. \A r \in Request : (Active(r)' <=> Active(r)) /\ (HasTx(r)' <=> HasTx(r))
    BY <1>1 DEF Active, HasTx
  <2> SUFFICES ASSUME NEW r \in Request, Active(r)', NEW m \in DOMAIN handler'[r].batch,
                      NEW b \in Change, Before(b, handler[r].batch[m])'
               PROVE  \/ \E k \in DOMAIN handler'[r].batch : k < m /\ handler'[r].batch[k] = b
                      \/ \E l \in visible' :
                            /\ rows'[l].change = b
                            /\ HasTx(r)' => l < handler'[r].first
    BY DEF Preceded
  <2>3. Active(r) /\ m \in DOMAIN handler[r].batch /\ Before(b, handler[r].batch[m])
    BY <1>1, <1>6, <2>1, <2>2
  <2> QED BY <1>1, <2>2, <2>3 DEF OrderIInv, Preceded
<1> QED BY <1>7, <1>8, <1>9, <1>10, <1>11 DEF OrderIInv

\* A group comes in order and leaves no earlier change out, but what the log has.
LEMMA PushKeepsOrder ==
    ASSUME ReplIInv, OrderIInv, NEW d \in Device, NEW r \in Request, Push(d, r)
    PROVE  OrderIInv'
<1>1. /\ job' = [job EXCEPT ![d] = [job[d] EXCEPT !.at = "wait", !.request = r]]
      /\ job \in [Device -> Jobs] /\ UNCHANGED journal
  BY DEF Push, ReplIInv, DeviceTypeOK, Jobs
<1>2. \A e \in Device : job'[e].batch = job[e].batch
  BY <1>1 DEF Jobs
<1>3. PICK s \in InOrder(Group(d)) : Receive(r, [k \in DOMAIN s |-> journal[d][s[k]]])
  BY DEF Push
<1> DEFINE batch == [k \in DOMAIN s |-> journal[d][s[k]]]
<1>4. /\ \A i \in Group(d) : \E k \in DOMAIN s : s[k] = i
      /\ s \in [1..Cardinality(Group(d)) -> Group(d)] /\ Cardinality(Group(d)) \in Nat
      /\ Group(d) \subseteq 1..Len(journal[d]) /\ Len(journal[d]) \in Nat
  <2>1. Group(d) \subseteq 1..Len(journal[d]) /\ Len(journal[d]) \in Nat
    BY GroupTyped
  <2> QED BY <2>1, InOrderCovers
<1>5. \A k, l \in DOMAIN s : k < l => s[k] < s[l]
  BY DEF InOrder
<1>6. DOMAIN batch = DOMAIN s /\ \A k \in DOMAIN s : batch[k] = journal[d][s[k]]
  OBVIOUS
<1> HIDE DEF batch
<1>7. Receive(r, batch)
  BY <1>3 DEF batch
<1>8. /\ UNCHANGED <<rows, visible>> /\ \A q \in Request \ {r} : handler'[q] = handler[q]
      /\ Active(r)' => handler'[r].at = "check" /\ handler'[r].batch = batch
  BY <1>7 DEF Receive, ReplIInv, LogIInv, LogTypeOK, Answering, Free, Active
<1>9. BatchClosed'
  BY <1>1, <1>2, <1>8 DEF OrderIInv, BatchClosed, Earlier, InLog
<1>10. ASSUME NEW n \in DOMAIN s, NEW b, Before(b, batch[n])
       PROVE  (\E m \in DOMAIN s : m < n /\ batch[m] = b) \/ InLog(b)
  <2>1. PICK e \in Device : \E j \in DOMAIN journal[e] : \E i \in Earlier(e, j) :
            journal[e][i] = b /\ journal[e][j] = batch[n]
    BY <1>10 DEF Before
  <2> PICK j \in DOMAIN journal[e] : \E i \in Earlier(e, j) :
          journal[e][i] = b /\ journal[e][j] = batch[n]
    BY <2>1
  <2>2. PICK i \in Earlier(e, j) : journal[e][i] = b /\ journal[e][j] = batch[n]
    OBVIOUS
  <2>3. s[n] \in Group(d) /\ s[n] \in DOMAIN journal[d] /\ s[n] \in job[d].batch
    <3>1. s[n] \in Group(d)
      BY <1>4
    <3> QED BY <3>1 DEF Group, ReplIInv, DeviceTypeOK
  <2>4. e = d /\ j = s[n]
    BY <1>6, <2>2, <2>3 DEF OrderIInv, Once
  <2>5. i \in DOMAIN journal[d] /\ i < s[n] /\ ProjectOf[journal[d][i]] = ProjectOf[journal[d][s[n]]]
    BY <2>2, <2>4 DEF Earlier
  <2>6. CASE InLog(journal[d][i])
    BY <2>2, <2>4, <2>6
  <2>7. CASE i \in job[d].batch
    <3>1. i \in Group(d)
      BY <2>3, <2>5, <2>7 DEF Group
    <3>2. PICK m \in DOMAIN s : s[m] = i
      BY <1>4, <3>1
    <3>3. m \in Nat /\ n \in Nat /\ s[m] \in Nat /\ s[n] \in Nat /\ s[m] < s[n]
      <4>1. DOMAIN s = 1..Cardinality(Group(d))
        BY <1>4
      <4>2. m \in Nat /\ n \in Nat
        BY <1>4, <4>1
      <4>3. s[m] \in 1..Len(journal[d]) /\ s[n] \in 1..Len(journal[d])
        BY <1>4, <2>3, <3>1, <3>2
      <4> QED BY <1>4, <2>5, <3>2, <4>2, <4>3
    <3>4. ~(n < m) /\ n # m
      <4>1. n < m => s[n] < s[m]
        BY <1>5
      <4> QED BY <3>3, <4>1
    <3>5. m < n
      BY <3>3, <3>4
    <3> QED BY <1>6, <2>2, <2>4, <3>2, <3>5
  <2> QED BY <2>2, <2>3, <2>4, <2>6, <2>7 DEF OrderIInv, BatchClosed
<1>11. Preceded(r)'
  <2>1. \A b, c : Before(b, c)' <=> Before(b, c)
    BY <1>1 DEF Before, Earlier
  <2> SUFFICES ASSUME Active(r)', NEW n \in DOMAIN handler'[r].batch,
                      NEW b \in Change, Before(b, handler[r].batch[n])'
               PROVE  \/ \E k \in DOMAIN handler'[r].batch : k < n /\ handler'[r].batch[k] = b
                      \/ \E l \in visible' :
                            /\ rows'[l].change = b
                            /\ HasTx(r)' => l < handler'[r].first
    BY DEF Preceded
  <2>2. ~HasTx(r)'
    BY <1>8 DEF HasTx
  <2>3. n \in DOMAIN s /\ Before(b, batch[n])
    BY <1>6, <1>8, <2>1
  <2> QED BY <1>6, <1>8, <1>10, <2>2, <2>3 DEF InLog
<1>12. \A q \in Request \ {r} : (Active(q)' <=> Active(q)) /\ (HasTx(q)' <=> HasTx(q))
  BY <1>8 DEF Active, HasTx
<1> QED BY <1>1, <1>8, <1>9, <1>11, <1>12, QuietKeepsOrder

\* The rest of the batch has none of the group's project.
LEMMA HearKeepsOrder ==
    ASSUME ReplIInv, OrderIInv, NEW d \in Device, NEW r \in Request, HearAnswer(d, r)
    PROVE  OrderIInv'
<1>1. UNCHANGED <<rows, visible, journal>> /\ handler' = [handler EXCEPT ![r] = Free]
  BY DEF HearAnswer, Respond
<1>2. /\ job'[d].batch \in {{}, job[d].batch \ Group(d)}
      /\ \A e \in Device \ {d} : job'[e] = job[e]
  <2>1. Idle.batch = {} /\ AfterPush(d).batch = job[d].batch \ Group(d)
    BY DEF Idle, AfterPush
  <2>2. job \in [Device -> Jobs]
    BY DEF ReplIInv, DeviceTypeOK, Jobs
  <2>3. \/ job' = [job EXCEPT ![d] = AfterPush(d)]
        \/ job' = [job EXCEPT ![d] = Idle]
    BY DEF HearAnswer
  <2> QED BY <2>1, <2>2, <2>3
<1>3. BatchClosed'
  <2> SUFFICES ASSUME NEW e \in Device, NEW j \in job'[e].batch, NEW i \in Earlier(e, j)
               PROVE  i \in job'[e].batch \/ InLog(journal[e][i])
    BY <1>1 DEF BatchClosed, Earlier, InLog
  <2>1. CASE e # d
    BY <1>2, <2>1 DEF OrderIInv, BatchClosed
  <2>2. CASE e = d
    <3>1. /\ job'[d].batch = job[d].batch \ Group(d)
          /\ j \in job[d].batch /\ j \notin Group(d) /\ i \in Earlier(d, j)
      BY <1>2, <2>2
    <3>2. i \notin Group(d)
      BY <3>1 DEF Group, Earlier
    <3>3. i \in job[d].batch \/ InLog(journal[d][i])
      BY <3>1 DEF OrderIInv, BatchClosed
    <3> QED BY <2>2, <3>1, <3>2, <3>3
  <2> QED BY <2>1, <2>2
<1>4. ~Active(r)' /\ \A q \in Request \ {r} : handler'[q] = handler[q]
  BY <1>1 DEF Active, Free, ReplIInv, LogIInv, LogTypeOK
<1>5. \A q \in Request \ {r} : (Active(q)' <=> Active(q)) /\ (HasTx(q)' <=> HasTx(q))
  BY <1>4 DEF Active, HasTx
<1> QED BY <1>1, <1>3, <1>4, <1>5, QuietKeepsOrder

\* A cycle that ends, and one that pulls, push nothing.
LEMMA PullKeepsOrder ==
    ASSUME ReplIInv, OrderIInv, NEW d \in Device,
           Abort(d) \/ Fetch(d) \/ ApplyPulledMutation(d)
    PROVE  OrderIInv'
<1>1. UNCHANGED <<rows, visible, handler, journal>>
  BY DEF Abort, Fetch, TakePage, ApplyPulledMutation, logVars
<1>2. job \in [Device -> Jobs]
  BY DEF ReplIInv, DeviceTypeOK, Jobs
<1>3. \A e \in Device \ {d} : job'[e] = job[e]
  BY <1>2 DEF Abort, Fetch, TakePage, ApplyPulledMutation
<1>4. job'[d].batch \in {{}, job[d].batch}
  <2>1. CASE Abort(d)
    BY <1>2, <2>1 DEF Abort, Idle
  <2>2. CASE Fetch(d)
    BY <1>2, <2>2 DEF Fetch, TakePage, Idle
  <2>3. CASE ApplyPulledMutation(d)
    <3>1. job'[d] = AfterApply(d, Min(job[d].page))
      BY <1>2, <2>3 DEF ApplyPulledMutation
    <3>2. \A i : AfterApply(d, i).batch \in {{}, job[d].batch}
      BY <1>2 DEF AfterApply, Idle, Jobs
    <3> QED BY <3>1, <3>2
  <2> QED BY <2>1, <2>2, <2>3
<1>5. \A j \in job'[d].batch : \A i \in Earlier(d, j) :
          i \in job'[d].batch \/ InLog(journal[d][i])
  BY <1>4 DEF OrderIInv, BatchClosed
<1> QED BY <1>1, <1>3, <1>5, CycleKeepsOrder

LEMMA OrderInit == ReplInit => OrderIInv
<1> SUFFICES ASSUME ReplInit PROVE OrderIInv
  OBVIOUS
<1>1. /\ rows = <<>> /\ visible = {} /\ Seqs = {} /\ \A r \in Request : handler[r] = Free
      /\ \A d \in Device : journal[d] = <<>> /\ job[d] = Idle
  BY EmptySeq DEF ReplInit, LogInit, Seqs
<1>2. \A d \in Device : DOMAIN journal[d] = {} /\ job[d].batch = {}
  BY <1>1, EmptySeq, IdleTyped
<1>3. Once /\ BatchClosed /\ TxFrom /\ AuthorOrder
  BY <1>1, <1>2 DEF Once, BatchClosed, TxFrom, AuthorOrder
<1>4. \A r \in Request : Preceded(r)
  BY <1>1 DEF Preceded, Active, Free
<1> QED BY <1>3, <1>4 DEF OrderIInv

LEMMA OrderNext == ReplIInv /\ OrderIInv /\ [ReplNext]_replVars => OrderIInv'
<1> SUFFICES ASSUME ReplIInv, OrderIInv, [ReplNext]_replVars PROVE OrderIInv'
  OBVIOUS
<1>1. ASSUME UNCHANGED <<rows, visible, handler, journal, job>> PROVE OrderIInv'
  <2>1. BatchClosed'
    BY <1>1 DEF OrderIInv, BatchClosed, Earlier, InLog
  <2>2. \A r \in Request : (Active(r)' <=> Active(r)) /\ (HasTx(r)' <=> HasTx(r))
    BY <1>1 DEF Active, HasTx
  <2> QED BY <1>1, <2>1, <2>2, QuietKeepsOrder
<1>2. CASE UNCHANGED replVars
  BY <1>1, <1>2 DEF replVars, logVars, deviceVars
<1>3. ASSUME NEW d \in Device, Machine(d) PROVE OrderIInv'
  BY <1>3, WriteKeepsOrder, StartKeepsOrder, PullKeepsOrder, PushKeepsOrder, HearKeepsOrder
     DEF Machine
<1> QED BY <1>2, <1>3, ServerKeepsOrder DEF ReplNext

\* A machine's changes to a project come into the log in the order it made them.
THEOREM ChangesInOrder == ReplSpec => []AuthorOrder
<1>1. OrderIInv => AuthorOrder
  BY DEF OrderIInv
<1> QED BY <1>1, OrderInit, OrderNext, ReplIInvHolds, PTL DEF ReplSpec

-------------------------------------------------------------------------------
(* The outbox of each machine.                                             *)

\* A batch in flight is of one project.
OneProject ==
    \A r \in Request : Active(r) =>
        \A k, l \in DOMAIN handler[r].batch :
            ProjectOf[handler[r].batch[k]] = ProjectOf[handler[r].batch[l]]

LEMMA OneProjectInit == ReplInit => OneProject
BY DEF ReplInit, LogInit, OneProject, Active, Free

LEMMA OneProjectNext ==
    ASSUME ReplIInv, OneProject, [ReplNext]_replVars
    PROVE  OneProject'
<1>1. ASSUME \A r \in Request : Active(r)' => Active(r) /\ handler'[r].batch = handler[r].batch
      PROVE  OneProject'
  BY <1>1 DEF OneProject
<1>2. ASSUME UNCHANGED handler PROVE OneProject'
  BY <1>2 DEF OneProject, Active
<1>3. LogIInv /\ NoBatch
  BY DEF ReplIInv
<1>4. ASSUME NEW s \in Request, Respond(s) PROVE OneProject'
  <2>1. ~Active(s)' /\ \A r \in Request \ {s} : handler'[r] = handler[r]
    BY <1>3, <1>4 DEF Respond, LogIInv, LogTypeOK, Free, Active
  <2> QED BY <1>1, <2>1 DEF Active
<1>5. CASE Server
  <2>1. ASSUME NEW s \in Request, Serve(s) PROVE OneProject'
    BY <1>1, <1>3, <2>1, ServeKeeps DEF Kept
  <2>2. ASSUME NEW p \in Project, NEW enabled \in BOOLEAN, SetProjectSyncEnabled(p, enabled)
        PROVE  OneProject'
    BY <1>1, <1>3, <2>2, PauseKeeps DEF Kept
  <2> QED BY <1>4, <1>5, <2>1, <2>2 DEF Server
<1>6. ASSUME NEW d \in Device, NEW r \in Request, Push(d, r) PROVE OneProject'
  <2>1. PICK s \in InOrder(Group(d)) : Receive(r, [k \in DOMAIN s |-> journal[d][s[k]]])
    BY <1>6 DEF Push
  <2> DEFINE batch == [k \in DOMAIN s |-> journal[d][s[k]]]
             p == ProjectOf[journal[d][Min(job[d].batch)]]
  <2>2. \A k \in DOMAIN batch : ProjectOf[batch[k]] = p
    <3>1. \A k \in DOMAIN s : s[k] \in Group(d)
      BY DEF InOrder
    <3> QED BY <3>1 DEF Group
  <2>3. Receive(r, batch)
    BY <2>1
  <2> HIDE DEF batch, p
  <2>4. /\ \A q \in Request \ {r} : handler'[q] = handler[q]
        /\ Active(r)' => handler'[r].batch = batch
    BY <1>3, <2>3 DEF Receive, LogIInv, LogTypeOK, Answering, Free, Active
  <2> QED BY <2>2, <2>4 DEF OneProject, Active
<1>7. ASSUME NEW d \in Device, Machine(d) PROVE OneProject'
  <2>1. ASSUME NEW r \in Request, HearAnswer(d, r) PROVE OneProject'
    BY <1>4, <2>1 DEF HearAnswer
  <2>2. CASE \/ \E c \in Change : Write(d, c)
             \/ StartCycle(d) \/ Fetch(d) \/ ApplyPulledMutation(d) \/ Abort(d)
    BY <1>2, <2>2 DEF Write, StartCycle, Fetch, TakePage, ApplyPulledMutation, Abort, logVars
  <2> QED BY <1>6, <1>7, <2>1, <2>2 DEF Machine
<1>8. CASE UNCHANGED replVars
  BY <1>2, <1>8 DEF replVars, logVars
<1> QED BY <1>5, <1>7, <1>8 DEF ReplNext

Filed(d) == [i \in DOMAIN journal[d] |-> ProjectOf[journal[d][i]]]
InLogOf(d) == {i \in DOMAIN journal[d] : InLog(journal[d][i])}

LEMMA OutboxRests ==
    ASSUME NEW d \in Device, journal'[d] = journal[d], acked'[d] = acked[d],
           InLogOf(d)' = InLogOf(d)
    PROVE  UNCHANGED Outbox(d)!vars
BY DEF Outbox!vars, Pending, InLogOf, InLog

\* A function on 1..n is a sequence of length n.
LEMMA FunctionOnInterval ==
    ASSUME NEW S, NEW n \in Nat, NEW f \in [1..n -> S]
    PROVE  f \in Seq(S) /\ Len(f) = n
<1>1. f \in Seq(S)
  BY SeqDef
<1>2. Len(f) \in Nat /\ 1..Len(f) = 1..n
  BY <1>1, LenProperties
<1>3. ~(Len(f) < n)
  <2>1. Len(f) < n => n \in 1..n /\ n \notin 1..Len(f)
    BY <1>2
  <2> QED BY <1>2, <2>1
<1>4. ~(n < Len(f))
  <2>1. n < Len(f) => Len(f) \in 1..Len(f) /\ Len(f) \notin 1..n
    BY <1>2
  <2> QED BY <1>2, <2>1
<1>5. Len(f) = n
  BY <1>2, <1>3, <1>4
<1> QED BY <1>1, <1>5

\* The new row is the last one, and nobody has it yet.
LEMMA WriteRefines ==
    ASSUME ReplIInv, NEW d \in Device, NEW c \in Change, Write(d, c), NEW e \in Device
    PROVE  Outbox(e)!Write \/ UNCHANGED Outbox(e)!vars
<1> PICK n \in Nat : n = Len(journal[d])
  BY LenProperties DEF ReplIInv, DeviceTypeOK
<1>1. /\ c \notin Range(journal[d]) /\ UNCHANGED <<rows, visible, acked>>
      /\ journal' = [journal EXCEPT ![d] = Append(journal[d], c)]
      /\ \A k \in visible : rows[k].change # c
  <2>1. /\ \A m \in Device : c \notin Range(journal[m]) /\ UNCHANGED <<rows, visible, acked>>
        /\ journal' = [journal EXCEPT ![d] = Append(journal[d], c)]
    BY DEF Write, logVars
  <2> QED BY <2>1 DEF ReplIInv, Origin, Genuine, LogIInv, LogTypeOK
<1>2. /\ journal[d] \in Seq(Change) /\ n \in Nat /\ DOMAIN journal[d] = 1..n
      /\ journal'[d] = Append(journal[d], c)
      /\ \A m \in Device \ {d} : journal'[m] = journal[m]
  BY <1>1, LenProperties DEF ReplIInv, DeviceTypeOK
<1>3. CASE e # d
  <2>1. journal'[e] = journal[e] /\ acked'[e] = acked[e]
    BY <1>1, <1>2, <1>3
  <2>2. InLogOf(e)' = InLogOf(e)
    BY <1>1, <2>1 DEF InLogOf, InLog
  <2> QED BY <2>1, <2>2, OutboxRests
<1>4. CASE e = d
  <2>1. /\ DOMAIN journal'[d] = 1..(n + 1) /\ journal'[d][n + 1] = c
        /\ \A i \in 1..n : journal'[d][i] = journal[d][i]
        /\ Append(journal[d], c) \in Seq(Change) /\ Len(Append(journal[d], c)) = n + 1
    BY <1>2, AppendProperties, LenProperties
  <2>2. 1..(n + 1) = 1..n \cup {n + 1} /\ n + 1 \notin 1..n
    BY <1>2
  <2>3. /\ Filed(d) \in [1..n -> Project] /\ Filed(d)' \in [1..(n + 1) -> Project]
        /\ \A i \in 1..n : Filed(d)'[i] = Filed(d)[i]
    <3>1. \A i \in 1..n : journal[d][i] \in Change
      BY <1>2, ElementOfSeq
    <3>2. \A i \in 1..(n + 1) : journal'[d][i] \in Change
      BY <2>1, <2>2, <3>1
    <3> QED BY <1>2, <2>1, <2>2, <3>1, <3>2, ChangesAssumption DEF Filed
  <2>4. /\ Filed(d)' \in Seq(Project) /\ Len(Filed(d)) = n /\ Len(Filed(d)') = n + 1
        /\ DOMAIN Filed(d) = 1..n /\ DOMAIN Filed(d)' = 1..(n + 1)
    <3>1. n + 1 \in Nat
      BY <1>2
    <3>2. /\ Filed(d)' \in Seq(Project) /\ Len(Filed(d)') = n + 1
          /\ Filed(d) \in Seq(Project) /\ Len(Filed(d)) = n
      BY <2>3, <3>1, FunctionOnInterval
    <3> QED BY <2>3, <3>2
  <2>5. Pending(d) \subseteq Pending(d)' /\ Pending(d)' \subseteq 1..(n + 1)
    BY <1>1, <1>2, <2>1, <2>2 DEF Pending
  <2>6. InLogOf(d)' = InLogOf(d)
    <3>1. \A i \in 1..n : InLog(journal[d][i])' <=> InLog(journal[d][i])
      BY <1>1, <2>1 DEF InLog
    <3>2. ~InLog(journal[d][n + 1])'
      BY <1>1, <2>1 DEF InLog
    <3> QED BY <1>2, <2>1, <2>2, <3>1, <3>2 DEF InLogOf
  <2>7. Outbox(d)!Write
    <3>1. n <= n + 1
      BY <1>2
    <3> QED BY <2>3, <2>4, <2>5, <2>6, <3>1 DEF Outbox!Write, Filed, InLogOf, InLog
  <2> QED BY <1>4, <2>7
<1> QED BY <1>3, <1>4

\* Rows are acked that the log has.
LEMMA HearRefines ==
    ASSUME ReplIInv, ReplIInv', NEW d \in Device, NEW r \in Request, HearAnswer(d, r),
           NEW e \in Device
    PROVE  Outbox(e)!Settle \/ UNCHANGED Outbox(e)!vars
<1>1. UNCHANGED <<rows, visible, journal>>
  BY DEF HearAnswer, Respond
<1>2. InLogOf(e)' = InLogOf(e)
  BY <1>1 DEF InLogOf, InLog
<1>3. acked[e] \subseteq acked'[e]
  <2>1. acked' \in {acked, [acked EXCEPT ![d] = acked[d] \cup Group(d)]}
    BY DEF HearAnswer, AckSyncMutationSeqs
  <2>2. acked \in [Device -> SUBSET Nat]
    BY DEF ReplIInv, DeviceTypeOK
  <2>3. acked'[e] \in {acked[e], acked[e] \cup Group(e)}
    <3>1. CASE acked' = acked
      BY <3>1
    <3>2. CASE acked' = [acked EXCEPT ![d] = acked[d] \cup Group(d)]
      BY <2>2, <3>2
    <3> QED BY <2>1, <3>1, <3>2
  <2> QED BY <2>3
<1>4. Pending(e)' \subseteq Pending(e) /\ Pending(e) \ Pending(e)' \subseteq InLogOf(e)
  <2>1. \A i \in acked'[e] : i \in DOMAIN journal[e] /\ InLog(journal[e][i])
    BY <1>1 DEF ReplIInv, DeviceTypeOK, Delivered, InLog
  <2> QED BY <1>1, <1>3, <2>1 DEF Pending, InLogOf
<1> QED BY <1>1, <1>2, <1>4 DEF Outbox!Settle, InLogOf, InLog

\* A commit delivers the rows of its batch, of one project and in order.
LEMMA CommitDelivers ==
    ASSUME ReplIInv, OrderIInv', OneProject, NEW r \in Request, Commit(r),
           UNCHANGED <<journal, acked>>, NEW d \in Device
    PROVE  Outbox(d)!Deliver \/ UNCHANGED Outbox(d)!vars
<1> DEFINE new == InLogOf(d)' \ InLogOf(d)
<1>1. /\ visible' = visible \cup Own(r) /\ UNCHANGED rows /\ Active(r) /\ HasTx(r)
      /\ Stored(r) = Len(handler[r].batch)
  BY DEF Commit, Active, HasTx, Stored
<1>2. DOMAIN handler[r].batch = 1..Len(handler[r].batch)
  BY LenProperties DEF ReplIInv, LogIInv, LogTypeOK, Handlers
<1>3. InLogOf(d) \subseteq InLogOf(d)' /\ InLogOf(d)' \subseteq DOMAIN journal[d]
  BY <1>1 DEF InLogOf, InLog
<1>4. CASE new = {}
  <2>1. InLogOf(d)' = InLogOf(d)
    BY <1>3, <1>4
  <2> QED BY <2>1, OutboxRests
<1>5. ASSUME NEW i \in new
      PROVE  /\ i \in DOMAIN journal[d]
             /\ \E m \in DOMAIN handler[r].batch : journal[d][i] = handler[r].batch[m]
  <2>1. /\ i \in DOMAIN journal[d]
        /\ \E k \in visible' : rows'[k].change = journal[d][i]
        /\ ~\E k \in visible : rows[k].change = journal[d][i]
    BY DEF InLogOf, InLog
  <2>2. PICK k \in Own(r) : rows[k].change = journal[d][i]
    BY <1>1, <2>1
  <2>3. /\ rows[k].nth \in 1..Len(handler[r].batch)
        /\ rows[k].change = handler[r].batch[rows[k].nth]
    BY <1>1, <2>2 DEF ReplIInv, LogIInv, TxOrdered
  <2> QED BY <1>2, <2>1, <2>2, <2>3
<1>6. CASE new # {}
  <2>1. PICK i \in new : TRUE
    BY <1>6
  <2> DEFINE p == ProjectOf[journal[d][i]]
  <2>2. p \in Project
    <3>1. journal[d][i] \in Change
      BY <1>5, <2>1, ElementOfSeq, LenProperties DEF ReplIInv, DeviceTypeOK
    <3> QED BY <3>1, ChangesAssumption
  <2>3. \A j \in new : Filed(d)[j] = p
    <3> SUFFICES ASSUME NEW j \in new PROVE Filed(d)[j] = p
      OBVIOUS
    <3>1. j \in DOMAIN journal[d] /\ ProjectOf[journal[d][j]] = p
      BY <1>1, <1>5, <2>1 DEF OneProject
    <3> QED BY <3>1 DEF Filed
  <2>4. ASSUME NEW j \in new, NEW k \in Pending(d), k < j, Filed(d)[k] = Filed(d)[j]
        PROVE  k \in new \cup InLogOf(d)
    <3>1. j \in DOMAIN journal[d] /\ k \in DOMAIN journal[d]
      BY <1>5 DEF Pending
    <3>2. k \in Earlier(d, j)
      BY <2>4, <3>1 DEF Filed, Earlier
    <3>3. PICK m \in visible' : rows'[m].change = journal[d][j]
      BY DEF InLogOf, InLog
    <3>4. \E l \in visible' : rows'[l].change = journal[d][k]
      <4>1. \A x \in visible' : rows'[x].change = journal[d][j] =>
                \E l \in visible' : l < x /\ rows'[l].change = journal[d][k]
        BY <3>1, <3>2 DEF OrderIInv, AuthorOrder, Earlier
      <4> QED BY <3>3, <4>1
    <3>5. k \in InLogOf(d)'
      BY <3>1, <3>4 DEF InLogOf, InLog
    <3> QED BY <3>5
  <2> HIDE DEF p
  <2>5. Outbox(d)!InOrder(new)
    BY <2>4 DEF Outbox!InOrder, Filed, InLogOf, InLog
  <2>6. Outbox(d)!Deliver
    <3> DEFINE box == {k \in DOMAIN journal[d] : \E l \in visible : rows[l].change = journal[d][k]}
    <3>1. box = InLogOf(d) /\ box' = InLogOf(d)'
      BY DEF InLogOf, InLog
    <3>2. /\ DOMAIN Filed(d) = DOMAIN journal[d] /\ UNCHANGED Filed(d)
          /\ UNCHANGED Pending(d)
      BY DEF Filed, Pending
    <3> HIDE DEF box
    <3>3. /\ box \subseteq box' /\ box' \subseteq DOMAIN Filed(d)
          /\ \E q \in Project : \A j \in box' \ box : Filed(d)[j] = q
          /\ Outbox(d)!InOrder(box' \ box)
          /\ UNCHANGED <<Filed(d), Pending(d)>>
      BY <1>3, <2>2, <2>3, <2>5, <3>1, <3>2
    <3> QED BY <3>3 DEF Outbox!Deliver, Filed, box
  <2> QED BY <2>6
<1> QED BY <1>4, <1>6

\* The other steps of the server and of the cycles deliver and ack nothing.
LEMMA OutboxesRest ==
    ASSUME ReplIInv, Grew, UNCHANGED <<journal, acked, visible>>, NEW d \in Device
    PROVE  UNCHANGED Outbox(d)!vars
<1>1. \A k \in visible : rows'[k] = rows[k]
  BY DEF Grew, ReplIInv, LogIInv, LogTypeOK
<1>2. InLogOf(d)' = InLogOf(d)
  BY <1>1 DEF InLogOf, InLog
<1> QED BY <1>2, OutboxRests

LEMMA OutboxesNext ==
    ASSUME ReplIInv, ReplIInv', OrderIInv', OneProject, [ReplNext]_replVars, NEW d \in Device
    PROVE  [Outbox(d)!Next]_(Outbox(d)!vars)
<1>1. ASSUME UNCHANGED <<rows, visible, journal, acked>> PROVE UNCHANGED Outbox(d)!vars
  <2>1. Grew
    BY <1>1 DEF Grew, Seqs
  <2> QED BY <1>1, <2>1, OutboxesRest
<1>2. CASE UNCHANGED replVars
  BY <1>1, <1>2 DEF replVars, logVars, deviceVars
<1>3. CASE Server
  <2>1. UNCHANGED <<journal, acked>>
    BY <1>3 DEF Server, deviceVars
  <2>2. ASSUME NEW r \in Request, Commit(r) PROVE [Outbox(d)!Next]_(Outbox(d)!vars)
    BY <2>1, <2>2, CommitDelivers DEF Outbox!Next
  <2>3. ASSUME NEW r \in Request, InsertRow(r) PROVE UNCHANGED Outbox(d)!vars
    <3>1. Grew /\ UNCHANGED visible
      BY <2>3, ServeKeeps DEF ReplIInv, Serve, InsertRow
    <3> QED BY <2>1, <3>1, OutboxesRest
  <2>4. ASSUME NEW r \in Request, CheckPause(r) \/ Fail(r) \/ Respond(r)
        PROVE  UNCHANGED Outbox(d)!vars
    BY <1>1, <2>1, <2>4 DEF CheckPause, Fail, Respond
  <2>5. ASSUME NEW p \in Project, NEW enabled \in BOOLEAN, SetProjectSyncEnabled(p, enabled)
        PROVE  UNCHANGED Outbox(d)!vars
    BY <1>1, <2>1, <2>5 DEF SetProjectSyncEnabled
  <2> QED BY <1>3, <2>2, <2>3, <2>4, <2>5 DEF Server, Serve
<1>4. ASSUME NEW e \in Device, Machine(e) PROVE [Outbox(d)!Next]_(Outbox(d)!vars)
  <2>1. ASSUME NEW c \in Change, Write(e, c) PROVE [Outbox(d)!Next]_(Outbox(d)!vars)
    BY <2>1, WriteRefines DEF Outbox!Next
  <2>2. ASSUME NEW r \in Request, HearAnswer(e, r) PROVE [Outbox(d)!Next]_(Outbox(d)!vars)
    BY <2>2, HearRefines DEF Outbox!Next
  <2>3. ASSUME NEW r \in Request, Push(e, r) PROVE UNCHANGED Outbox(d)!vars
    BY <1>1, <2>3 DEF Push, Receive
  <2>4. CASE StartCycle(e) \/ Fetch(e) \/ ApplyPulledMutation(e) \/ Abort(e)
    BY <1>1, <2>4 DEF StartCycle, Fetch, TakePage, ApplyPulledMutation, Abort, logVars
  <2> QED BY <1>4, <2>1, <2>2, <2>3, <2>4 DEF Machine
<1> QED BY <1>2, <1>3, <1>4 DEF ReplNext

\* What SyncJournal promises of one machine, machines, network and server keep together,
\* for any number of machines: rows are owed until they are committed, and come into the
\* log one project at a time and in its order.
THEOREM OutboxesKept == ReplSpec => ActsAsOutboxes
<1>1. ReplInit => \A d \in Device : Outbox(d)!Init
  <2> SUFFICES ASSUME ReplInit, NEW d \in Device PROVE Outbox(d)!Init
    OBVIOUS
  <2>1. journal[d] = <<>> /\ DOMAIN journal[d] = {}
    BY EmptySeq DEF ReplInit
  <2>2. Filed(d) = <<>> /\ Pending(d) = {} /\ InLogOf(d) = {}
    BY <2>1 DEF Filed, Pending, InLogOf
  <2> QED BY <2>2 DEF Outbox!Init, Filed, InLogOf, InLog
<1>2. ReplIInv /\ ReplIInv' /\ OrderIInv' /\ OneProject /\ [ReplNext]_replVars
          => \/ UNCHANGED <<journal, acked, rows, visible>>
             \/ \A d \in Device : [Outbox(d)!Next]_(Outbox(d)!vars)
  BY OutboxesNext
<1> QED BY <1>1, <1>2, ReplIInvHolds, OrderInit, OrderNext, OneProjectInit, OneProjectNext, PTL
        DEF ReplSpec, ActsAsOutboxes
===============================================================================
