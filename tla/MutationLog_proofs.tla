-------------------------- MODULE MutationLog_proofs --------------------------
(***************************************************************************)
(* The mutation log for any number of requests, batches and rows.  The     *)
(* pause holds because what a request has looked up was not paused then,   *)
(* and held only shrinks.  A batch is whole because the rows of a          *)
(* transaction under way are its own (no two requests share one), are      *)
(* complete up to the entry inserted last, and are all still invisible.    *)
(***************************************************************************)
EXTENDS MutationLog, SequenceTheorems, TLAPS

\* What a request has looked up so far was not paused all along.
LookedUp ==
    \A r \in Request :
        /\ handler[r].held \subseteq paused
        /\ handler[r].at = "check" =>
              \A k \in 1..(handler[r].next - 1) :
                  ProjectOf[handler[r].batch[k]] \notin handler[r].held

\* The transaction of request r has rows.
HasTx(r) == handler[r].at = "commit" \/ (handler[r].at = "insert" /\ handler[r].next # 1)
Stored(r) == IF handler[r].at = "commit" THEN Len(handler[r].batch) ELSE handler[r].next - 1

TxOpen ==
    \A r \in Request :
        /\ ~HasTx(r) => handler[r].first = 0
        /\ HasTx(r) =>
              /\ handler[r].first \in Seqs
              /\ Own(r) \cap visible = {}
              /\ \A i \in Own(r) : rows[i].of = Len(handler[r].batch)
              /\ \A n \in 1..Stored(r) : \E j \in Own(r) : rows[j].nth = n

TxApart ==
    /\ \A i \in Seqs : rows[i].tx \in Seqs
    /\ \A r, s \in Request : HasTx(r) /\ HasTx(s) /\ r # s => handler[r].first # handler[s].first

\* Its rows are its entries, in the order of the batch.
TxOrdered ==
    \A r \in Request : HasTx(r) =>
        /\ handler[r].batch # <<>>
        /\ \A i \in Own(r) : /\ rows[i].nth \in 1..Stored(r)
                             /\ rows[i].change = handler[r].batch[rows[i].nth]
        /\ \A i, j \in Own(r) : i < j => rows[i].nth < rows[j].nth

LogIInv == LogTypeOK /\ LookedUp /\ PauseHolds /\ TxOpen /\ TxApart /\ TxOrdered /\ BatchWhole

-------------------------------------------------------------------------------
\* What NextEntry makes of a handler: the next entry, or the next stage.
LEMMA NextEntryTyped ==
    ASSUME NEW r \in Request, handler[r] \in Handlers,
           handler[r].next \in 1..Len(handler[r].batch),
           NEW at \in Places, NEW then \in Places, NEW m, m = NextEntry(r, at, then)
    PROVE  /\ m \in Handlers /\ m.batch = handler[r].batch
           /\ m.first = handler[r].first /\ m.held = handler[r].held
           /\ handler[r].next < Len(handler[r].batch) =>
                  m.at = at /\ m.next = handler[r].next + 1
           /\ handler[r].next = Len(handler[r].batch) => m.at = then /\ m.next = 1
<1>1. Len(handler[r].batch) \in Nat
  BY LenProperties DEF Handlers
<1>2. CASE handler[r].next < Len(handler[r].batch)
  <2>1. m = [handler[r] EXCEPT !.at = at, !.next = handler[r].next + 1]
    BY <1>2 DEF NextEntry
  <2>2. handler[r].next + 1 \in Nat
    BY <1>1
  <2>3. /\ m \in Handlers /\ m.at = at /\ m.next = handler[r].next + 1
        /\ m.batch = handler[r].batch /\ m.first = handler[r].first
        /\ m.held = handler[r].held
    <3> DEFINE n == handler[r].next + 1
    <3>1. n \in Nat /\ m = [handler[r] EXCEPT !.at = at, !.next = n]
      BY <2>1, <2>2
    <3> HIDE DEF n
    <3>2. /\ m \in Handlers /\ m.at = at /\ m.next = n
          /\ m.batch = handler[r].batch /\ m.first = handler[r].first
          /\ m.held = handler[r].held
      BY <3>1 DEF Handlers
    <3> QED BY <3>2 DEF n
  <2> QED BY <1>1, <1>2, <2>3
<1>3. CASE ~(handler[r].next < Len(handler[r].batch))
  <2>1. m = [handler[r] EXCEPT !.at = then, !.next = 1]
    BY <1>3 DEF NextEntry
  <2>2. /\ m \in Handlers /\ m.at = then /\ m.next = 1
        /\ m.batch = handler[r].batch /\ m.first = handler[r].first
        /\ m.held = handler[r].held
    <3> DEFINE n == 1
    <3>1. n \in Nat /\ m = [handler[r] EXCEPT !.at = then, !.next = n]
      BY <2>1
    <3> HIDE DEF n
    <3>2. /\ m \in Handlers /\ m.at = then /\ m.next = n
          /\ m.batch = handler[r].batch /\ m.first = handler[r].first
          /\ m.held = handler[r].held
      BY <3>1 DEF Handlers
    <3> QED BY <3>2 DEF n
  <2> QED BY <1>1, <1>3, <2>2
<1> QED BY <1>2, <1>3

\* The initial state satisfies the inductive invariant.
LEMMA InitIInv == LogInit => LogIInv
<1> SUFFICES ASSUME LogInit PROVE LogIInv
  OBVIOUS
<1>1. Free \in Handlers
  BY EmptySeq DEF Free, Handlers, Places
<1>2. LogTypeOK
  BY <1>1, LogBoundsAssumption, EmptySeq DEF LogInit, LogTypeOK, Seqs, Free
<1>3. LookedUp /\ PauseHolds /\ TxOpen /\ TxOrdered /\ BatchWhole
  BY DEF LogInit, LookedUp, PauseHolds, TxOpen, TxOrdered, HasTx, BatchWhole, Free
<1>4. TxApart
  BY EmptySeq DEF LogInit, TxApart, HasTx, Free, Seqs
<1> QED BY <1>2, <1>3, <1>4 DEF LogIInv

\* A step that only moves one handler to a place where it has no rows.
LEMMA HandlerStep ==
    ASSUME LogIInv, NEW r \in Request, NEW h \in Handlers,
           handler' = [handler EXCEPT ![r] = h],
           UNCHANGED <<paused, rows, visible>>,
           h.at # "commit", h.at = "insert" => h.next = 1, h.first = 0,
           h.at \in {"check", "insert"} => h.next \in 1..Len(h.batch),
           h.held \subseteq paused,
           h.at = "check" => \A k \in 1..(h.next - 1) : ProjectOf[h.batch[k]] \notin h.held,
           h.at = "insert" => \A k \in DOMAIN h.batch : ProjectOf[h.batch[k]] \notin h.held
    PROVE  LogIInv'
<1>1. /\ handler'[r] = h
      /\ \A s \in Request \ {r} : handler'[s] = handler[s]
  BY DEF LogIInv, LogTypeOK
<1>2. LogTypeOK'
  <2>1. handler' \in [Request -> Handlers]
    BY DEF LogIInv, LogTypeOK
  <2>2. \A s \in Request : handler'[s].at \in {"check", "insert"} =>
                               handler'[s].next \in 1..Len(handler'[s].batch)
    BY <1>1 DEF LogIInv, LogTypeOK
  <2> QED BY <2>1, <2>2 DEF LogIInv, LogTypeOK, Seqs
<1>3. LookedUp'
  BY <1>1 DEF LogIInv, LookedUp
<1>4. PauseHolds'
  BY <1>1 DEF LogIInv, PauseHolds, InBatch
<1>5. /\ ~HasTx(r)'
      /\ \A s \in Request \ {r} : /\ HasTx(s)' <=> HasTx(s)
                                  /\ Own(s)' = Own(s)
                                  /\ Stored(s)' = Stored(s)
  BY <1>1 DEF HasTx, Own, Stored, Seqs
<1>6. TxOpen'
  BY <1>1, <1>5 DEF LogIInv, TxOpen, Seqs
<1>7. TxApart'
  BY <1>1, <1>5 DEF LogIInv, TxApart, Seqs
<1>8. TxOrdered'
  BY <1>1, <1>5 DEF LogIInv, TxOrdered
<1>9. BatchWhole'
  BY DEF LogIInv, BatchWhole
<1> QED BY <1>2, <1>3, <1>4, <1>6, <1>7, <1>8, <1>9 DEF LogIInv

\* A handler that is free, or only has its answer to give, satisfies what HandlerStep
\* asks of one.
LEMMA AnsweringTyped ==
    ASSUME NEW answer \in {"free", "accepted", "rejected"}
    PROVE  /\ Answering(answer) \in Handlers
           /\ Answering(answer).at = answer /\ Answering(answer).first = 0
           /\ Answering(answer).held = {}
BY EmptySeq DEF Answering, Free, Handlers, Places

\* The arrival of a request.
LEMMA ReceiveStep ==
    ASSUME LogIInv, NEW r \in Request, NEW batch \in Seq(Change), Receive(r, batch)
    PROVE  LogIInv'
<1> DEFINE h == [Free EXCEPT !.at = "check", !.batch = batch, !.held = paused]
<1>1. UNCHANGED <<paused, rows, visible>>
  BY DEF Receive
<1>2. CASE Valid(batch)
  <2>1. Free \in Handlers /\ Free.next = 1 /\ Free.first = 0 /\ paused \in SUBSET Project
    BY EmptySeq DEF Free, Handlers, Places, LogIInv, LogTypeOK
  <2>2. /\ h \in Handlers /\ h.at = "check" /\ h.next = 1 /\ h.first = 0
        /\ h.batch = batch /\ h.held = paused
    BY <2>1 DEF Handlers, Places
  <2>3. handler' = [handler EXCEPT ![r] = h]
    BY <1>2 DEF Receive
  <2>4. h.next \in 1..Len(h.batch)
    BY <1>2, <2>2, LenProperties DEF Valid
  <2>5. \A k \in 1..(h.next - 1) : ProjectOf[h.batch[k]] \notin h.held
    BY <2>2
  <2> HIDE DEF h
  <2> QED BY <1>1, <2>2, <2>3, <2>4, <2>5, HandlerStep
<1>3. CASE ~Valid(batch)
  <2>1. handler' = [handler EXCEPT ![r] = Answering("rejected")]
    BY <1>3 DEF Receive
  <2> QED BY <1>1, <2>1, AnsweringTyped, HandlerStep
<1> QED BY <1>2, <1>3

\* One look-up of a pause: the project is not in held, which is a part of paused.
LEMMA CheckPauseStep ==
    ASSUME LogIInv, NEW r \in Request, CheckPause(r)
    PROVE  LogIInv'
<1> DEFINE old == handler[r]
           h == NextEntry(r, "check", "insert")
<1>1. UNCHANGED <<paused, rows, visible>>
  BY DEF CheckPause
<1>2. /\ old \in Handlers /\ old.at = "check" /\ old.next \in 1..Len(old.batch)
      /\ old.first = 0 /\ old.held \subseteq paused
      /\ \A k \in 1..(old.next - 1) : ProjectOf[old.batch[k]] \notin old.held
  BY DEF CheckPause, LogIInv, LogTypeOK, LookedUp, TxOpen, HasTx
<1>3. DOMAIN old.batch = 1..Len(old.batch) /\ Len(old.batch) \in Nat
  BY <1>2, LenProperties DEF Handlers
<1>4. CASE ProjectOf[old.batch[old.next]] \in paused
  <2>1. handler' = [handler EXCEPT ![r] = Answering("rejected")]
    BY <1>4 DEF CheckPause
  <2> QED BY <1>1, <2>1, AnsweringTyped, HandlerStep
<1>5. CASE ProjectOf[old.batch[old.next]] \notin paused
  <2>1. handler' = [handler EXCEPT ![r] = h]
    BY <1>5 DEF CheckPause
  <2>2. \A k \in 1..old.next : ProjectOf[old.batch[k]] \notin old.held
    BY <1>2, <1>3, <1>5
  <2>3. /\ h \in Handlers /\ h.batch = old.batch /\ h.first = 0 /\ h.held = old.held
        /\ old.next < Len(old.batch) => h.at = "check" /\ h.next = old.next + 1
        /\ old.next = Len(old.batch) => h.at = "insert" /\ h.next = 1
    <3>1. "check" \in Places /\ "insert" \in Places
      BY DEF Places
    <3> QED BY <1>2, <3>1, NextEntryTyped
  <2>4. h.at # "commit" /\ (h.at = "insert" => h.next = 1) /\ h.next \in 1..Len(h.batch)
    BY <1>2, <1>3, <2>3
  <2>5. h.at = "check" => \A k \in 1..(h.next - 1) : ProjectOf[h.batch[k]] \notin h.held
    BY <1>2, <1>3, <2>2, <2>3
  <2>6. h.at = "insert" => \A k \in DOMAIN h.batch : ProjectOf[h.batch[k]] \notin h.held
    BY <1>2, <1>3, <2>2, <2>3
  <2> HIDE DEF h
  <2> QED BY <1>1, <1>2, <2>1, <2>3, <2>4, <2>5, <2>6, HandlerStep
<1> QED BY <1>4, <1>5

\* A request answered, given up or forgotten has no transaction any more.
LEMMA AnswerStep ==
    ASSUME LogIInv, NEW r \in Request, Fail(r) \/ Respond(r)
    PROVE  LogIInv'
<1>1. Free = Answering("free")
  BY DEF Free, Answering
<1>2. PICK answer \in {"free", "accepted", "rejected"} :
          handler' = [handler EXCEPT ![r] = Answering(answer)]
  BY <1>1 DEF Fail, Respond
<1>3. UNCHANGED <<paused, rows, visible>>
  BY DEF Fail, Respond
<1> QED BY <1>2, <1>3, AnsweringTyped, HandlerStep

\* An INSERT: the new row extends the transaction of its request alone, and nobody
\* sees it yet.
LEMMA InsertRowStep ==
    ASSUME LogIInv, NEW r \in Request, InsertRow(r)
    PROVE  LogIInv'
<1> DEFINE old == handler[r]
           N == Len(rows) + 1
           row == NewRow(r)
           m == handler'[r]
<1>1. /\ old \in Handlers /\ old.at = "insert" /\ old.next \in 1..Len(old.batch)
      /\ Len(old.batch) \in Nat /\ DOMAIN old.batch = 1..Len(old.batch)
      /\ old.next \in Nat
  <2>1. old \in Handlers /\ old.at = "insert" /\ old.next \in 1..Len(old.batch)
    BY DEF InsertRow, LogIInv, LogTypeOK
  <2> QED BY <2>1, LenProperties DEF Handlers
<1>2. /\ rows' = Append(rows, row) /\ Len(rows) < MaxRows /\ UNCHANGED <<paused, visible>>
      /\ handler' = [handler EXCEPT ![r] =
             [NextEntry(r, "insert", "commit") EXCEPT !.first = row.tx]]
  BY DEF InsertRow
<1>3. Len(rows) \in Nat /\ N \in Nat /\ N \notin Seqs
  BY LenProperties DEF LogIInv, LogTypeOK, Seqs
<1>4. /\ row.change \in Change /\ row.nth = old.next /\ row.of = Len(old.batch)
      /\ row.tx = IF old.next = 1 THEN N ELSE old.first
  BY <1>1, ElementOfSeq DEF NewRow, Handlers
<1>5. row.tx \in Seqs \cup {N} /\ row.tx \in Nat
  BY <1>1, <1>3, <1>4 DEF LogIInv, TxOpen, HasTx, Seqs
<1>6. row \in [change: Change, nth: Nat, of: Nat, tx: Nat]
  BY <1>1, <1>3, <1>5, ElementOfSeq DEF NewRow, Handlers
<1>7. /\ rows' \in Seq([change: Change, nth: Nat, of: Nat, tx: Nat])
      /\ Len(rows') = N /\ rows'[N] = row
      /\ \A i \in Seqs : rows'[i] = rows[i]
      /\ Seqs' = Seqs \cup {N}
  <2> DEFINE Rows == [change: Change, nth: Nat, of: Nat, tx: Nat]
  <2>1. rows \in Seq(Rows) /\ row \in Rows
    BY <1>6 DEF LogIInv, LogTypeOK
  <2> HIDE DEF row, Rows
  <2>2. Append(rows, row) \in Seq(Rows) /\ Len(Append(rows, row)) = Len(rows) + 1
    BY <2>1, AppendProperties
  <2>3. /\ \A i \in 1..Len(rows) : Append(rows, row)[i] = rows[i]
        /\ Append(rows, row)[Len(rows) + 1] = row
    BY <2>1, AppendProperties
  <2>4. Seqs' = 1..(Len(rows) + 1)
    BY <1>2, <2>2 DEF Seqs
  <2>5. 1..(Len(rows) + 1) = 1..Len(rows) \cup {Len(rows) + 1}
    BY <1>3
  <2>6. rows' \in Seq([change: Change, nth: Nat, of: Nat, tx: Nat])
    BY <1>2, <2>2 DEF Rows
  <2> QED BY <1>2, <2>2, <2>3, <2>4, <2>5, <2>6 DEF Seqs
<1> HIDE DEF row
<1>8. /\ m \in Handlers /\ m.batch = old.batch /\ m.held = old.held /\ m.first = row.tx
      /\ old.next < Len(old.batch) => m.at = "insert" /\ m.next = old.next + 1
      /\ old.next = Len(old.batch) => m.at = "commit" /\ m.next = 1
  <2> DEFINE h == NextEntry(r, "insert", "commit")
  <2>1. "insert" \in Places /\ "commit" \in Places
    BY DEF Places
  <2>2. /\ h \in Handlers /\ h.batch = old.batch /\ h.held = old.held
        /\ old.next < Len(old.batch) => h.at = "insert" /\ h.next = old.next + 1
        /\ old.next = Len(old.batch) => h.at = "commit" /\ h.next = 1
    BY <1>1, <2>1, NextEntryTyped
  <2>3. m = [h EXCEPT !.first = row.tx]
    BY <1>2 DEF LogIInv, LogTypeOK
  <2> DEFINE t == row.tx
  <2>4. t \in Nat /\ m = [h EXCEPT !.first = t]
    BY <1>5, <2>3
  <2> HIDE DEF h, t, m
  <2>5. m \in Handlers /\ m.first = t
    BY <2>2, <2>4 DEF Handlers
  <2>6. m.batch = h.batch /\ m.held = h.held /\ m.at = h.at /\ m.next = h.next
    BY <2>2, <2>4 DEF Handlers
  <2> QED BY <2>2, <2>5, <2>6 DEF t
<1>9. \A s \in Request \ {r} : handler'[s] = handler[s]
  BY <1>2 DEF LogIInv, LogTypeOK
<1>10. handler' \in [Request -> Handlers]
  <2>1. handler' = [handler EXCEPT ![r] = m]
    BY <1>2 DEF LogIInv, LogTypeOK
  <2> HIDE DEF m
  <2> QED BY <1>8, <2>1 DEF LogIInv, LogTypeOK
<1> HIDE DEF m
<1>11. LogTypeOK'
  <2>1. \A s \in Request : handler'[s].at \in {"check", "insert"} =>
                               handler'[s].next \in 1..Len(handler'[s].batch)
    <3>1. m.at \in {"check", "insert"} => m.next \in 1..Len(m.batch)
      BY <1>1, <1>8
    <3>2. \A s \in Request \ {r} : handler[s].at \in {"check", "insert"} =>
                                      handler[s].next \in 1..Len(handler[s].batch)
      BY DEF LogIInv, LogTypeOK
    <3> QED BY <1>9, <3>1, <3>2 DEF m
  <2>2. Len(rows') <= MaxRows
    BY <1>2, <1>3, <1>7, LogBoundsAssumption
  <2>3. paused' \subseteq Project /\ visible' \subseteq Seqs'
    BY <1>2, <1>7 DEF LogIInv, LogTypeOK
  <2> QED BY <1>7, <1>10, <2>1, <2>2, <2>3 DEF LogTypeOK
<1>12. LookedUp' /\ PauseHolds'
  <2>1. m.at \in {"insert", "commit"}
    BY <1>1, <1>8
  <2>2. LookedUp'
    BY <1>2, <1>8, <1>9, <2>1 DEF m, LogIInv, LookedUp
  <2>3. InBatch(r)' = InBatch(r)
    BY <1>8 DEF m, InBatch
  <2>4. PauseHolds'
    BY <1>1, <1>8, <1>9, <2>3 DEF m, LogIInv, PauseHolds, InBatch
  <2> QED BY <2>2, <2>4
<1>13. /\ HasTx(r)' /\ Stored(r)' = old.next
       /\ \A s \in Request \ {r} : (HasTx(s)' <=> HasTx(s)) /\ Stored(s)' = Stored(s)
  BY <1>1, <1>8, <1>9 DEF m, HasTx, Stored
<1>14. /\ \A i \in Seqs : rows[i].tx \in Seqs
       /\ HasTx(r) <=> old.next # 1
  BY <1>1 DEF LogIInv, TxApart, HasTx
<1>15. \A s \in Request \ {r} : HasTx(s) => Own(s)' = Own(s)
  <2> SUFFICES ASSUME NEW s \in Request \ {r}, HasTx(s)
               PROVE  Own(s)' = Own(s)
    OBVIOUS
  <2>1. handler[s].first \in Seqs
    BY DEF LogIInv, TxOpen
  <2>2. handler[s].first # row.tx
    BY <1>3, <1>4, <1>14, <2>1 DEF LogIInv, TxApart
  <2> QED BY <1>7, <1>9, <2>2 DEF Own
<1>16. /\ N \in Own(r)'
       /\ \A i \in Own(r)' : i # N => HasTx(r) /\ i \in Own(r)
       /\ HasTx(r) => Own(r) \subseteq Own(r)'
  <2>1. Own(r)' = {i \in Seqs \cup {N} : rows'[i].tx = row.tx}
    BY <1>7, <1>8 DEF m, Own
  <2>2. N \in Own(r)'
    BY <1>7, <2>1
  <2>3. HasTx(r) => row.tx = old.first
    BY <1>4, <1>14
  <2>4. ~HasTx(r) => row.tx = N
    BY <1>4, <1>14
  <2>5. HasTx(r) => Own(r) \subseteq Own(r)'
    BY <1>7, <2>1, <2>3 DEF Own
  <2>6. ASSUME NEW i \in Own(r)', i # N
        PROVE  HasTx(r) /\ i \in Own(r)
    <3>1. i \in Seqs /\ rows[i].tx = row.tx
      BY <1>7, <2>1, <2>6
    <3>2. HasTx(r)
      BY <1>3, <1>14, <2>4, <3>1
    <3> QED BY <2>3, <3>1, <3>2 DEF Own
  <2> QED BY <2>2, <2>5, <2>6
<1>17. TxOpen'
  <2>1. ASSUME NEW s \in Request \ {r}
        PROVE  /\ ~HasTx(s)' => handler'[s].first = 0
               /\ HasTx(s)' =>
                    /\ handler'[s].first \in Seqs'
                    /\ Own(s)' \cap visible' = {}
                    /\ \A i \in Own(s)' : rows'[i].of = Len(handler'[s].batch)
                    /\ \A n \in 1..Stored(s)' : \E j \in Own(s)' : rows'[j].nth = n
    <3>1. CASE ~HasTx(s)
      BY <1>9, <1>13, <3>1 DEF LogIInv, TxOpen
    <3>2. CASE HasTx(s)
      <4>1. Own(s)' = Own(s) /\ Own(s) \subseteq Seqs
        BY <1>15, <3>2 DEF Own
      <4>2. HasTx(s)' /\ Stored(s)' = Stored(s) /\ handler'[s] = handler[s]
        BY <1>9, <1>13, <3>2
      <4>3. /\ handler[s].first \in Seqs
            /\ Own(s) \cap visible = {}
            /\ \A i \in Own(s) : rows[i].of = Len(handler[s].batch)
            /\ \A n \in 1..Stored(s) : \E j \in Own(s) : rows[j].nth = n
        BY <3>2 DEF LogIInv, TxOpen
      <4>4. \A i \in Own(s) : rows'[i] = rows[i]
        BY <1>7, <4>1
      <4>5. handler'[s].first \in Seqs' /\ Own(s)' \cap visible' = {}
        BY <1>2, <1>7, <4>1, <4>2, <4>3
      <4>6. \A i \in Own(s)' : rows'[i].of = Len(handler'[s].batch)
        BY <4>1, <4>2, <4>3, <4>4
      <4>7. \A n \in 1..Stored(s)' : \E j \in Own(s)' : rows'[j].nth = n
        BY <4>1, <4>2, <4>3, <4>4
      <4> QED BY <4>2, <4>5, <4>6, <4>7
    <3> QED BY <3>1, <3>2
  <2>2. handler'[r].first \in Seqs'
    BY <1>5, <1>7, <1>8 DEF m
  <2>3. Own(r)' \cap visible' = {}
    BY <1>2, <1>3, <1>16 DEF LogIInv, LogTypeOK, TxOpen
  <2>4. \A i \in Own(r)' : rows'[i].of = Len(handler'[r].batch)
    <3> SUFFICES ASSUME NEW i \in Own(r)' PROVE rows'[i].of = Len(handler'[r].batch)
      OBVIOUS
    <3>1. CASE i = N
      BY <1>4, <1>7, <1>8, <3>1 DEF m
    <3>2. CASE i # N
      <4>1. HasTx(r) /\ i \in Own(r) /\ i \in Seqs
        BY <1>16, <3>2 DEF Own
      <4> QED BY <1>7, <1>8, <4>1 DEF m, LogIInv, TxOpen
    <3> QED BY <3>1, <3>2
  <2>5. \A n \in 1..old.next : \E j \in Own(r)' : rows'[j].nth = n
    <3> SUFFICES ASSUME NEW n \in 1..old.next PROVE \E j \in Own(r)' : rows'[j].nth = n
      OBVIOUS
    <3>1. CASE n = old.next
      BY <1>4, <1>7, <1>16, <3>1
    <3>2. CASE n # old.next
      <4>1. HasTx(r) /\ n \in 1..Stored(r)
        BY <1>1, <1>14, <3>2 DEF Stored
      <4>2. PICK j \in Own(r) : rows[j].nth = n
        BY <4>1 DEF LogIInv, TxOpen
      <4> QED BY <1>7, <1>16, <4>1, <4>2 DEF Own
    <3> QED BY <3>1, <3>2
  <2> QED BY <1>13, <2>1, <2>2, <2>3, <2>4, <2>5 DEF TxOpen
<1>18. TxApart'
  <2>1. \A i \in Seqs' : rows'[i].tx \in Seqs'
    BY <1>5, <1>7, <1>14
  <2>2. \A s \in Request \ {r} : HasTx(s) => row.tx # handler[s].first
    BY <1>3, <1>4, <1>14 DEF LogIInv, TxOpen, TxApart
  <2>3. ASSUME NEW s \in Request, NEW u \in Request, HasTx(s)', HasTx(u)', s # u
        PROVE  handler'[s].first # handler'[u].first
    <3>1. CASE s = r
      BY <1>8, <1>9, <1>13, <2>2, <2>3, <3>1 DEF m
    <3>2. CASE u = r
      BY <1>8, <1>9, <1>13, <2>2, <2>3, <3>2 DEF m
    <3>3. CASE s # r /\ u # r
      BY <1>9, <1>13, <2>3, <3>3 DEF LogIInv, TxApart
    <3> QED BY <3>1, <3>2, <3>3
  <2> QED BY <2>1, <2>3 DEF TxApart
<1>19. TxOrdered'
  <2>1. ASSUME NEW s \in Request \ {r}, HasTx(s)'
        PROVE  /\ handler'[s].batch # <<>>
               /\ \A i \in Own(s)' : /\ rows'[i].nth \in 1..Stored(s)'
                                     /\ rows'[i].change = handler'[s].batch[rows'[i].nth]
               /\ \A i, j \in Own(s)' : i < j => rows'[i].nth < rows'[j].nth
    <3>1. HasTx(s) /\ Own(s)' = Own(s) /\ Stored(s)' = Stored(s) /\ handler'[s] = handler[s]
      BY <1>9, <1>13, <1>15, <2>1
    <3>2. \A i \in Own(s) : rows'[i] = rows[i]
      BY <1>7 DEF Own
    <3> QED BY <3>1, <3>2 DEF LogIInv, TxOrdered
  <2>2. m.batch # <<>>
    BY <1>1, <1>8
  <2>3. ASSUME NEW i \in Own(r)', i # N
        PROVE  /\ i \in Own(r) /\ HasTx(r) /\ rows'[i] = rows[i] /\ i < N
               /\ rows[i].nth \in 1..(old.next - 1)
               /\ rows[i].change = old.batch[rows[i].nth]
    <3>1. i \in Own(r) /\ i \in Seqs /\ HasTx(r) /\ Stored(r) = old.next - 1
      BY <1>1, <1>16, <2>3 DEF Own, Stored
    <3>2. rows'[i] = rows[i] /\ i < N
      BY <1>3, <1>7, <3>1 DEF Seqs
    <3> QED BY <3>1, <3>2 DEF LogIInv, TxOrdered
  <2>4. rows'[N].nth = old.next /\ rows'[N].change = old.batch[old.next]
    BY <1>7 DEF row, NewRow
  <2>5. \A i \in Own(r)' : /\ rows'[i].nth \in 1..old.next
                            /\ rows'[i].change = old.batch[rows'[i].nth]
    BY <1>1, <2>3, <2>4
  <2>6. \A i, j \in Own(r)' : i < j => rows'[i].nth < rows'[j].nth
    <3> SUFFICES ASSUME NEW i \in Own(r)', NEW j \in Own(r)', i < j
                 PROVE  rows'[i].nth < rows'[j].nth
      OBVIOUS
    <3>1. i # N
      BY <1>3, <2>3, <1>7 DEF Own, Seqs
    <3>2. CASE j = N
      <4>1. rows'[i].nth \in 1..(old.next - 1)
        BY <2>3, <3>1
      <4>2. rows'[j].nth = old.next
        BY <2>4, <3>2
      <4> QED BY <1>1, <4>1, <4>2
    <3>3. CASE j # N
      BY <2>3, <3>1, <3>3 DEF LogIInv, TxOrdered
    <3> QED BY <3>2, <3>3
  <2>7. handler'[r] = m /\ m.batch = old.batch /\ Stored(r)' = old.next
    BY <1>8, <1>13 DEF m
  <2> QED BY <2>1, <2>2, <2>5, <2>6, <2>7 DEF TxOrdered
<1>20. BatchWhole'
  <2>1. visible \subseteq Seqs
    BY DEF LogIInv, LogTypeOK
  <2> SUFFICES ASSUME NEW i \in visible, NEW n \in 1..rows'[i].of
               PROVE  \E j \in visible : rows'[j].tx = rows'[i].tx /\ rows'[j].nth = n
    BY <1>2 DEF BatchWhole
  <2>2. rows'[i] = rows[i]
    BY <1>7, <2>1
  <2>3. PICK j \in visible : rows[j].tx = rows[i].tx /\ rows[j].nth = n
    BY <2>2 DEF LogIInv, BatchWhole
  <2>4. rows'[j] = rows[j]
    BY <1>7, <2>1
  <2> QED BY <2>2, <2>3, <2>4
<1> QED BY <1>11, <1>12, <1>17, <1>18, <1>19, <1>20 DEF LogIInv

\* The commit: the request's own rows, complete by now, become visible together.
LEMMA CommitStep ==
    ASSUME LogIInv, NEW r \in Request, Commit(r)
    PROVE  LogIInv'
<1> DEFINE batch == handler[r].batch
<1>1. PICK answer \in {"accepted", "rejected"} :
          handler' = [handler EXCEPT ![r] = Answering(answer)]
  BY DEF Commit
<1>2. /\ visible' = visible \cup Own(r) /\ UNCHANGED <<paused, rows>>
      /\ HasTx(r) /\ Stored(r) = Len(batch)
  BY DEF Commit, HasTx, Stored
<1>3. Own(r) \subseteq Seqs
  BY DEF Own
<1>4. /\ Answering(answer) \in Handlers /\ Answering(answer).at = answer
      /\ Answering(answer).first = 0 /\ Answering(answer).held = {}
  BY AnsweringTyped
<1>5. handler'[r] = Answering(answer) /\ \A s \in Request \ {r} : handler'[s] = handler[s]
  BY <1>1 DEF LogIInv, LogTypeOK
<1>6. LogTypeOK'
  <2>1. handler' \in [Request -> Handlers]
    BY <1>1, <1>4 DEF LogIInv, LogTypeOK
  <2> QED BY <1>2, <1>3, <1>4, <1>5, <2>1 DEF LogIInv, LogTypeOK, Seqs
<1>7. LookedUp' /\ PauseHolds'
  BY <1>2, <1>4, <1>5 DEF LogIInv, LookedUp, PauseHolds, InBatch
<1>8. /\ ~HasTx(r)'
      /\ \A s \in Request \ {r} : /\ HasTx(s)' <=> HasTx(s)
                                  /\ Own(s)' = Own(s)
                                  /\ Stored(s)' = Stored(s)
  BY <1>2, <1>4, <1>5 DEF HasTx, Own, Stored, Seqs
<1>9. \A s \in Request \ {r} : HasTx(s) => Own(s) \cap Own(r) = {}
  BY <1>2 DEF Own, LogIInv, TxApart
<1>10. TxOpen'
  BY <1>2, <1>4, <1>5, <1>8, <1>9 DEF LogIInv, TxOpen, Seqs
<1>11. TxApart'
  BY <1>2, <1>5, <1>8 DEF LogIInv, TxApart, Seqs
<1>12. TxOrdered'
  BY <1>2, <1>5, <1>8 DEF LogIInv, TxOrdered
<1>13. BatchWhole'
  <2> SUFFICES ASSUME NEW i \in visible', NEW n \in 1..rows[i].of
               PROVE  \E j \in visible' : rows[j].tx = rows[i].tx /\ rows[j].nth = n
    BY <1>2 DEF BatchWhole
  <2>1. CASE i \in visible
    BY <1>2, <2>1 DEF LogIInv, BatchWhole
  <2>2. CASE i \in Own(r)
    <3>1. rows[i].of = Len(batch) /\ rows[i].tx = handler[r].first
      BY <1>2, <2>2 DEF LogIInv, TxOpen, Own
    <3>2. PICK j \in Own(r) : rows[j].nth = n
      BY <1>2, <3>1 DEF LogIInv, TxOpen
    <3> QED BY <1>2, <3>1, <3>2 DEF Own
  <2> QED BY <1>2, <2>1, <2>2
<1> QED BY <1>6, <1>7, <1>10, <1>11, <1>12, <1>13 DEF LogIInv

\* A pause set or lifted: what was paused all along can only become less.
LEMMA PauseStep ==
    ASSUME LogIInv, NEW p \in Project, NEW enabled \in BOOLEAN,
           SetProjectSyncEnabled(p, enabled)
    PROVE  LogIInv'
<1>1. /\ paused' \subseteq Project /\ UNCHANGED <<rows, visible>>
      /\ handler' = [s \in Request |-> [handler[s] EXCEPT !.held = @ \cap paused']]
  BY DEF SetProjectSyncEnabled, LogIInv, LogTypeOK
<1>2. \A s \in Request :
          /\ handler'[s] \in Handlers /\ handler'[s].at = handler[s].at
          /\ handler'[s].batch = handler[s].batch /\ handler'[s].next = handler[s].next
          /\ handler'[s].first = handler[s].first
          /\ handler'[s].held = handler[s].held \cap paused'
  <2> SUFFICES ASSUME NEW s \in Request
               PROVE  /\ handler'[s] \in Handlers /\ handler'[s].at = handler[s].at
                      /\ handler'[s].batch = handler[s].batch
                      /\ handler'[s].next = handler[s].next
                      /\ handler'[s].first = handler[s].first
                      /\ handler'[s].held = handler[s].held \cap paused'
    OBVIOUS
  <2>1. handler[s] \in Handlers
    BY DEF LogIInv, LogTypeOK
  <2>2. handler'[s] = [handler[s] EXCEPT !.held = handler[s].held \cap paused']
    BY <1>1
  <2> QED BY <2>1, <2>2 DEF Handlers
<1>3. LogTypeOK'
  <2>1. handler' \in [Request -> Handlers]
    BY <1>1, <1>2
  <2> QED BY <1>1, <1>2, <2>1 DEF LogIInv, LogTypeOK, Seqs
<1>4. LookedUp'
  BY <1>2 DEF LogIInv, LookedUp
<1>5. PauseHolds'
  BY <1>2 DEF LogIInv, PauseHolds, InBatch
<1>6. \A s \in Request : (HasTx(s)' <=> HasTx(s)) /\ Own(s)' = Own(s) /\ Stored(s)' = Stored(s)
  BY <1>1, <1>2 DEF HasTx, Own, Stored, Seqs
<1>7. TxOpen'
  BY <1>1, <1>2, <1>6 DEF LogIInv, TxOpen, Seqs
<1>8. TxApart' /\ BatchWhole'
  BY <1>1, <1>2, <1>6 DEF LogIInv, TxApart, BatchWhole, Seqs
<1>9. TxOrdered'
  BY <1>1, <1>2, <1>6 DEF LogIInv, TxOrdered
<1> QED BY <1>3, <1>4, <1>5, <1>7, <1>8, <1>9 DEF LogIInv

\* Every step keeps the invariant.
LEMMA NextIInv == LogIInv /\ [LogNext]_logVars => LogIInv'
<1> SUFFICES ASSUME LogIInv, [LogNext]_logVars PROVE LogIInv'
  OBVIOUS
<1>1. CASE UNCHANGED logVars
  BY <1>1 DEF logVars, LogIInv, LogTypeOK, LookedUp, PauseHolds, InBatch, TxOpen, TxApart,
              TxOrdered, HasTx, Own, Stored, BatchWhole, Seqs
<1>2. ASSUME NEW r \in Request, NEW n \in 0..(BatchLimit + 1), NEW batch \in [1..n -> Change],
             Receive(r, batch)
      PROVE  LogIInv'
  <2>1. n \in Nat
    BY LogBoundsAssumption
  <2>2. batch \in Seq(Change)
    BY <2>1
  <2> QED BY <1>2, <2>2, ReceiveStep
<1>3. ASSUME NEW r \in Request, Serve(r) \/ Respond(r) PROVE LogIInv'
  BY <1>3, CheckPauseStep, InsertRowStep, CommitStep, AnswerStep DEF Serve
<1> QED BY <1>1, <1>2, <1>3, PauseStep DEF LogNext

-------------------------------------------------------------------------------
\* The inductive invariant holds in every reachable state.
LEMMA IInvHolds == LogSpec => []LogIInv
BY InitIInv, NextIInv, PTL DEF LogSpec

\* Types: what is committed are rows of the log, and a request that has entries left
\* to check or to insert points at one of them.
THEOREM LogTypeCorrect == LogSpec => []LogTypeOK
<1>1. LogIInv => LogTypeOK
  BY DEF LogIInv
<1> QED BY <1>1, IInvHolds, PTL

\* A pause in force since before a push arrived lets none of its entries in, whatever
\* administrators and other requests do between its look-ups.
THEOREM PauseEnforced == LogSpec => []PauseHolds
<1>1. LogIInv => PauseHolds
  BY DEF LogIInv
<1> QED BY <1>1, IInvHolds, PTL

\* A reader finds each batch whole or not at all.
THEOREM BatchesAtomic == LogSpec => []BatchWhole
<1>1. LogIInv => BatchWhole
  BY DEF LogIInv
<1> QED BY <1>1, IInvHolds, PTL

-------------------------------------------------------------------------------
(* The log implements one to which batches are added at one stroke. *)

\* What the abstract log sees of the requests and of the rows.
Submitted == [r \in Request |-> IF Active(r) THEN handler[r].batch ELSE <<>>]
Published == [i \in visible |-> rows[i].change]

\* A batch in flight has entries, and a row knows its change.
LEMMA ActiveBatch ==
    ASSUME LogIInv, NEW r \in Request
    PROVE  /\ handler[r] \in Handlers /\ handler[r].batch \in Seq(Change)
           /\ Active(r) => handler[r].batch # <<>>
<1>1. handler[r] \in Handlers /\ handler[r].batch \in Seq(Change)
  BY DEF LogIInv, LogTypeOK, Handlers
<1>2. CASE handler[r].at \in {"check", "insert"}
  BY <1>1, <1>2, LenProperties DEF LogIInv, LogTypeOK
<1>3. CASE handler[r].at = "commit"
  <2>1. HasTx(r)
    BY <1>3 DEF HasTx
  <2> QED BY <1>1, <2>1 DEF LogIInv, TxOrdered
<1> QED BY <1>1, <1>2, <1>3 DEF Active

\* The next entry or the next stage keeps the batch.
LEMMA EntryMoves ==
    ASSUME LogIInv, NEW r \in Request, handler[r].at \in {"check", "insert"},
           NEW at \in Places, NEW then \in Places
    PROVE  LET m == NextEntry(r, at, then)
           IN  m \in Handlers /\ m.at \in {at, then} /\ m.batch = handler[r].batch
<1>1. handler[r] \in Handlers /\ handler[r].next \in 1..Len(handler[r].batch)
  BY DEF LogIInv, LogTypeOK
<1>2. Len(handler[r].batch) \in Nat
  BY <1>1, LenProperties DEF Handlers
<1>3. handler[r].next < Len(handler[r].batch) \/ handler[r].next = Len(handler[r].batch)
  BY <1>1, <1>2
<1> QED BY <1>1, <1>3, NextEntryTyped

\* A step that leaves the batches in flight and the rows committed alone is none.
LEMMA QuietRefines ==
    ASSUME UNCHANGED visible, \A i \in visible : rows'[i] = rows[i],
           \A s \in Request : Active(s)' <=> Active(s),
           \A s \in Request : Active(s) => handler'[s].batch = handler[s].batch
    PROVE  UNCHANGED BatchLog!vars
<1>1. Submitted' = Submitted
  BY DEF Submitted
<1>2. Published' = Published
  BY DEF Published
<1> QED BY <1>1, <1>2 DEF BatchLog!vars, Submitted, Published

\* A request that is not served any more, with nothing committed, is refused.
LEMMA RefuseRefines ==
    ASSUME NEW r \in Request, UNCHANGED <<visible, rows>>, ~Active(r)',
           \A s \in Request \ {r} : handler'[s] = handler[s]
    PROVE  BatchLog!Refuse(r)
<1>1. Submitted' = [Submitted EXCEPT ![r] = <<>>]
  BY DEF Submitted, Active
<1>2. Published' = Published
  BY DEF Published
<1> QED BY <1>1, <1>2 DEF BatchLog!Refuse, Submitted, Published

\* A request that arrives is a submission, or is refused at once.
LEMMA ReceiveRefines ==
    ASSUME LogIInv, LogIInv', NEW r \in Request, NEW batch \in Seq(Change), Receive(r, batch)
    PROVE  BatchLog!Submit(r) \/ BatchLog!Refuse(r)
<1>1. /\ handler[r].at = "free" /\ UNCHANGED <<paused, rows, visible>>
      /\ \A s \in Request \ {r} : handler'[s] = handler[s]
  BY DEF Receive, LogIInv, LogTypeOK
<1>2. CASE Valid(batch)
  <2>1. /\ handler'[r] = [Free EXCEPT !.at = "check", !.batch = batch, !.held = paused]
        /\ Active(r)' /\ handler'[r].batch = batch
    BY <1>2 DEF Receive, LogIInv, LogTypeOK, Free, Active
  <2>2. batch # <<>>
    BY <1>2, LenProperties DEF Valid
  <2>3. ~Active(r)
    BY <1>1 DEF Active
  <2>4. Submitted[r] = <<>> /\ Submitted'[r] = batch
    BY <2>1, <2>3 DEF Submitted
  <2>5. Submitted' = [Submitted EXCEPT ![r] = Submitted'[r]]
    BY <1>1 DEF Submitted, Active
  <2>6. Published' = Published
    BY <1>1 DEF Published
  <2> QED BY <2>2, <2>4, <2>5, <2>6 DEF BatchLog!Submit, Submitted, Published
<1>3. CASE ~Valid(batch)
  <2>1. ~Active(r)'
    BY <1>3, AnsweringTyped DEF Receive, LogIInv, LogTypeOK, Active
  <2> QED BY <1>1, <2>1, RefuseRefines
<1> QED BY <1>2, <1>3

\* A commit publishes the batch: its entries take the seqs of the rows inserted for
\* them, which grow with their place in the batch.
LEMMA CommitRefines ==
    ASSUME LogIInv, LogIInv', NEW r \in Request, Commit(r)
    PROVE  BatchLog!Publish(r)
<1> DEFINE batch == handler[r].batch
           RowOf(n) == CHOOSE i \in Own(r) : rows[i].nth = n
           at == [n \in DOMAIN batch |-> RowOf(n)]
<1>1. /\ handler[r].at = "commit" /\ visible' = visible \cup Own(r) /\ UNCHANGED rows
      /\ Active(r) /\ HasTx(r) /\ Stored(r) = Len(batch)
  BY DEF Commit, Active, HasTx, Stored
<1>2. ~Active(r)' /\ \A s \in Request \ {r} : handler'[s] = handler[s]
  BY AnsweringTyped DEF Commit, LogIInv, LogTypeOK, Active
<1>3. batch \in Seq(Change) /\ batch # <<>> /\ DOMAIN batch = 1..Len(batch) /\ Len(batch) \in Nat
  BY <1>1, ActiveBatch, LenProperties
<1>4. Own(r) \subseteq 1..Len(rows) /\ Len(rows) \in Nat /\ Len(rows) <= MaxRows
  BY LenProperties DEF Own, Seqs, LogIInv, LogTypeOK
<1>5. /\ Own(r) \cap visible = {}
      /\ \A n \in DOMAIN batch : \E i \in Own(r) : rows[i].nth = n
  BY <1>1, <1>3 DEF LogIInv, TxOpen
<1>6. /\ \A i \in Own(r) : rows[i].nth \in DOMAIN batch /\ rows[i].change = batch[rows[i].nth]
      /\ \A i, j \in Own(r) : i < j => rows[i].nth < rows[j].nth
  BY <1>1, <1>3 DEF LogIInv, TxOrdered
<1>7. \A n \in DOMAIN batch : RowOf(n) \in Own(r) /\ rows[RowOf(n)].nth = n
  BY <1>5
<1>8. \A i, j \in Own(r) : rows[i].nth = rows[j].nth => i = j
  <2> SUFFICES ASSUME NEW i \in Own(r), NEW j \in Own(r), rows[i].nth = rows[j].nth
               PROVE  i = j
    OBVIOUS
  <2>1. i \in Nat /\ j \in Nat /\ rows[i].nth \in Nat
    BY <1>3, <1>4, <1>6
  <2>2. ~(i < j) /\ ~(j < i)
    BY <1>6, <2>1
  <2> QED BY <2>1, <2>2
<1>9. ASSUME NEW m \in DOMAIN batch, NEW n \in DOMAIN batch, m < n
      PROVE  RowOf(m) < RowOf(n)
  <2> DEFINE i == RowOf(m)
             j == RowOf(n)
  <2>1. i \in Own(r) /\ j \in Own(r) /\ rows[i].nth = m /\ rows[j].nth = n
    BY <1>7
  <2> HIDE DEF i, j
  <2>2. i \in Nat /\ j \in Nat /\ m \in Nat /\ n \in Nat
    BY <1>3, <1>4, <2>1
  <2>3. i # j /\ ~(j < i)
    BY <1>6, <1>9, <2>1, <2>2
  <2>4. i < j
    BY <2>2, <2>3
  <2> QED BY <2>4 DEF i, j
<1> HIDE DEF RowOf
<1>10. /\ DOMAIN at = DOMAIN batch /\ \A n \in DOMAIN batch : at[n] = RowOf(n)
       /\ \A i \in Own(r) : at[rows[i].nth] = i
  BY <1>6, <1>7, <1>8
<1> HIDE DEF at
<1>11. Range(at) = Own(r)
  <2>1. \A i \in Own(r) : i \in Range(at)
    <3> SUFFICES ASSUME NEW i \in Own(r) PROVE i \in Range(at)
      OBVIOUS
    <3>1. rows[i].nth \in DOMAIN at /\ at[rows[i].nth] = i
      BY <1>6, <1>10
    <3> QED BY <3>1 DEF Range
  <2>2. \A i \in Range(at) : i \in Own(r)
    BY <1>7, <1>10 DEF Range
  <2> QED BY <2>1, <2>2
<1>12. at \in [DOMAIN batch -> (1..MaxRows) \ visible]
  <2>1. \A n \in DOMAIN batch : at[n] \in (1..MaxRows) \ visible
    BY <1>4, <1>5, <1>7, <1>10, LogBoundsAssumption
  <2> QED BY <1>10, <2>1 DEF at
<1>13. \A m, n \in DOMAIN at : m < n => at[m] < at[n]
  BY <1>9, <1>10
<1>14. ASSUME NEW i \in Own(r)
       PROVE  rows[i].change = batch[CHOOSE n \in DOMAIN at : at[n] = i]
  <2>1. \A n \in DOMAIN at : at[n] = i => n = rows[i].nth
    BY <1>7, <1>10
  <2>2. (CHOOSE n \in DOMAIN at : at[n] = i) = rows[i].nth
    BY <1>6, <1>10, <2>1
  <2> QED BY <1>6, <2>2
<1>15. Published' = [i \in visible \cup Range(at) |->
                        IF i \in visible THEN Published[i]
                        ELSE batch[CHOOSE n \in DOMAIN at : at[n] = i]]
  BY <1>1, <1>11, <1>14 DEF Published
<1>16. Submitted[r] = batch /\ Submitted' = [Submitted EXCEPT ![r] = <<>>]
  BY <1>1, <1>2 DEF Submitted, Active
<1>17. DOMAIN Published = visible
  BY DEF Published
<1> HIDE DEF batch
<1>18. \E f \in [DOMAIN Submitted[r] -> (1..MaxRows) \ DOMAIN Published] :
          /\ \A m, n \in DOMAIN f : m < n => f[m] < f[n]
          /\ Published' = [i \in DOMAIN Published \cup Range(f) |->
                               IF i \in DOMAIN Published THEN Published[i]
                               ELSE Submitted[r][CHOOSE n \in DOMAIN f : f[n] = i]]
  <2>1. at \in [DOMAIN Submitted[r] -> (1..MaxRows) \ DOMAIN Published]
    BY <1>12, <1>16, <1>17
  <2> WITNESS at \in [DOMAIN Submitted[r] -> (1..MaxRows) \ DOMAIN Published]
  <2> QED BY <1>13, <1>15, <1>16, <1>17
<1>19. Submitted[r] # <<>> /\ Submitted' = [Submitted EXCEPT ![r] = <<>>]
  BY <1>3, <1>16
<1> QED BY <1>18, <1>19 DEF BatchLog!Publish, BatchLog!Range, Range, Submitted, Published

\* Every step is one of the abstract log, or none.
LEMMA NextRefines ==
    ASSUME LogIInv, LogIInv', [LogNext]_logVars
    PROVE  [BatchLog!Next]_BatchLog!vars
<1>1. ASSUME NEW r \in Request, BatchLog!Submit(r) \/ BatchLog!Publish(r) \/ BatchLog!Refuse(r)
      PROVE  [BatchLog!Next]_BatchLog!vars
  BY <1>1 DEF BatchLog!Next
<1>2. CASE UNCHANGED logVars
  BY <1>2, QuietRefines DEF logVars, Active
<1>3. ASSUME NEW r \in Request, NEW n \in 0..(BatchLimit + 1), NEW batch \in [1..n -> Change],
             Receive(r, batch)
      PROVE  [BatchLog!Next]_BatchLog!vars
  <2>1. n \in Nat
    BY LogBoundsAssumption
  <2>2. batch \in Seq(Change)
    BY <2>1
  <2> QED BY <1>1, <1>3, <2>2, ReceiveRefines
<1>4. ASSUME NEW r \in Request, CheckPause(r) PROVE [BatchLog!Next]_BatchLog!vars
  <2>1. /\ UNCHANGED <<visible, rows>> /\ handler[r].at = "check"
        /\ \A s \in Request \ {r} : handler'[s] = handler[s]
    BY <1>4 DEF CheckPause, LogIInv, LogTypeOK
  <2>2. CASE handler'[r] = Answering("rejected")
    <3>1. ~Active(r)'
      BY <2>2, AnsweringTyped DEF Active
    <3> QED BY <1>1, <2>1, <3>1, RefuseRefines
  <2>3. CASE handler'[r] = NextEntry(r, "check", "insert")
    <3>1. handler'[r].at \in {"check", "insert"} /\ handler'[r].batch = handler[r].batch
      BY <2>1, <2>3, EntryMoves DEF Places
    <3> QED BY <2>1, <3>1, QuietRefines DEF Active
  <2> QED BY <1>4, <2>2, <2>3 DEF CheckPause, LogIInv, LogTypeOK
<1>5. ASSUME NEW r \in Request, InsertRow(r) PROVE UNCHANGED BatchLog!vars
  <2>1. UNCHANGED visible /\ \A i \in visible : rows'[i] = rows[i]
    BY <1>5, AppendProperties DEF InsertRow, LogIInv, LogTypeOK, Seqs
  <2>2. \A s \in Request \ {r} : handler'[s] = handler[s]
    BY <1>5 DEF InsertRow, LogIInv, LogTypeOK
  <2>3. Active(r) /\ Active(r)' /\ handler'[r].batch = handler[r].batch
    <3> DEFINE h == NextEntry(r, "insert", "commit")
               t == NewRow(r).tx
    <3>1. /\ handler[r].at = "insert" /\ handler[r] \in Handlers
          /\ handler'[r] = [h EXCEPT !.first = t]
      BY <1>5 DEF InsertRow, LogIInv, LogTypeOK
    <3>2. h \in Handlers /\ h.at \in {"insert", "commit"} /\ h.batch = handler[r].batch
      BY <3>1, EntryMoves DEF Places
    <3> HIDE DEF h, t
    <3> QED BY <3>1, <3>2 DEF Active, Handlers
  <2> QED BY <2>1, <2>2, <2>3, QuietRefines DEF Active
<1>6. ASSUME NEW r \in Request, Fail(r) PROVE [BatchLog!Next]_BatchLog!vars
  <2>1. /\ UNCHANGED <<visible, rows>> /\ ~Active(r)'
        /\ \A s \in Request \ {r} : handler'[s] = handler[s]
    BY <1>6, AnsweringTyped DEF Fail, LogIInv, LogTypeOK, Active
  <2> QED BY <1>1, <2>1, RefuseRefines
<1>7. ASSUME NEW r \in Request, Respond(r) PROVE UNCHANGED BatchLog!vars
  <2>1. /\ UNCHANGED <<visible, rows>> /\ ~Active(r) /\ ~Active(r)'
        /\ \A s \in Request \ {r} : handler'[s] = handler[s]
    BY <1>7 DEF Respond, LogIInv, LogTypeOK, Active, Free
  <2> QED BY <2>1, QuietRefines DEF Active
<1>8. ASSUME NEW p \in Project, NEW enabled \in BOOLEAN, SetProjectSyncEnabled(p, enabled)
      PROVE  UNCHANGED BatchLog!vars
  <2>1. /\ UNCHANGED <<visible, rows>>
        /\ \A s \in Request : /\ handler'[s].at = handler[s].at
                               /\ handler'[s].batch = handler[s].batch
    <3>1. handler' = [s \in Request |->
                         [handler[s] EXCEPT !.held = handler[s].held \cap paused']]
      BY <1>8 DEF SetProjectSyncEnabled
    <3>2. \A s \in Request : handler[s] \in Handlers
      BY DEF LogIInv, LogTypeOK
    <3>3. UNCHANGED <<visible, rows>>
      BY <1>8 DEF SetProjectSyncEnabled
    <3> QED BY <3>1, <3>2, <3>3 DEF Handlers
  <2> QED BY <2>1, QuietRefines DEF Active
<1>9. ASSUME NEW r \in Request, Commit(r) PROVE [BatchLog!Next]_BatchLog!vars
  BY <1>1, <1>9, CommitRefines
<1> QED BY <1>2, <1>3, <1>4, <1>5, <1>6, <1>7, <1>8, <1>9 DEF LogNext, Serve

\* Whoever looks only at the batches in flight and at the rows committed sees batches
\* added whole and at one stroke, or not at all.
THEOREM BatchesLogged == LogSpec => ActsAsBatchLog
<1>1. LogInit => BatchLog!Init
  BY DEF LogInit, BatchLog!Init, Active, Free
<1>2. LogIInv /\ LogIInv' /\ [LogNext]_logVars => [BatchLog!Next]_BatchLog!vars
  BY NextRefines
<1> QED BY <1>1, <1>2, IInvHolds, PTL DEF LogSpec, ActsAsBatchLog, BatchLog!Spec
===============================================================================
