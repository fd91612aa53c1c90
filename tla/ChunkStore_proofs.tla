--------------------------- MODULE ChunkStore_proofs ---------------------------
(***************************************************************************)
(* The chunk store for any number of chunks, requests and readers.  A      *)
(* request carries what it has found out so far, and nothing takes it back *)
(* meanwhile: the sessions its chunk needs are in the manifest (the index  *)
(* never names others, and the manifest only grows), they came before its  *)
(* INSERT began, so it is placed behind them, or the chunk is there.  A    *)
(* settled chunk is in the read model because it is in every read model    *)
(* being built, too.                                                       *)
(***************************************************************************)
EXTENDS ChunkStore, TLAPS

Handler == [at: Steps, chunk: Chunk \cup {Nothing}, after: SUBSET Chunk]

\* What a handler at its step has found out about the chunks in the manifest.
Knows(h, chunks) ==
    /\ h \in Handler
    /\ h.chunk = Nothing <=> h.at = "free"
    /\ h.at \in {"lookup", "insert"} =>
          h.chunk.needs \subseteq h.chunk.sessions \cup SessionsIn(chunks)
    /\ h.after \subseteq chunks
    /\ h.at = "inserting" =>
          h.chunk.needs \subseteq h.chunk.sessions \cup SessionsIn(h.after)
    /\ h.at \in {"index", "reindex", "invalidate", "ok"} => h.chunk \in chunks

Handlers ==
    request \in [Request -> Handler] /\ \A r \in Request : Knows(request[r], Stored)

Listed ==
    /\ IsManifest(stored) /\ Stored \subseteq Chunk
    /\ index \subseteq SessionsIn(Stored)
    /\ settled \subseteq Stored

\* What is settled is in the read model, and in those being built.
Holds(rows, chunks, sure) ==
    rows \in (SUBSET chunks) \cup {Nothing} /\ (rows # Nothing => sure \subseteq rows)

Models ==
    /\ Holds(model, Stored, settled)
    /\ building \in [Reader -> [at: {"away", "read", "publish"}, rows: SUBSET Stored]]
    /\ \A v \in Reader : building[v].at = "publish" => settled \subseteq building[v].rows

StoreIInv == Handlers /\ Listed /\ Models

-------------------------------------------------------------------------------
\* The invariant implies what the runs check.
LEMMA IInvImplies == StoreIInv => StoreTypeOK /\ DashboardSettled
BY DEF StoreIInv, Handlers, Knows, Handler, Listed, Models, Holds, StoreTypeOK,
       DashboardSettled

\* The initial state satisfies the inductive invariant.
LEMMA InitIInv == StoreInit => StoreIInv
<1> SUFFICES ASSUME StoreInit PROVE StoreIInv
  OBVIOUS
<1>1. Unused \in Handler /\ Unused.at = "free" /\ Unused.chunk = Nothing /\ Unused.after = {}
  BY DEF Unused, Handler, Steps
<1>2. Handlers
  BY <1>1 DEF StoreInit, Handlers, Knows
<1>3. Listed
  BY DEF StoreInit, Listed, Stored, SessionsIn, Empty, IsManifest
<1>4. Models
  <2>1. Holds(Nothing, Stored, settled)
    BY DEF Holds
  <2>2. model = Nothing /\ building = [v \in Reader |-> Away]
    BY DEF StoreInit
  <2>3. Away \in [at: {"away", "read", "publish"}, rows: SUBSET Stored] /\ Away.at # "publish"
    BY DEF Away
  <2> QED BY <2>1, <2>2, <2>3 DEF Models
<1> QED BY <1>2, <1>3, <1>4 DEF StoreIInv

\* A manifest with one more chunk behind a beginning of it is one again.
LEMMA PlacedIsManifest ==
    ASSUME NEW list, IsManifest(list), NEW c, IdOf(c) \notin Ids(DOMAIN list),
           NEW S \in Beginnings(list)
    PROVE  /\ IsManifest(Placed(list, c, S))
           /\ DOMAIN Placed(list, c, S) = DOMAIN list \cup {c}
<1> DEFINE p == Placed(list, c, S)
<1>1. c \notin DOMAIN list
  BY DEF Ids
<1>2. S \subseteq DOMAIN list /\ \A d \in S : list[d] \subseteq S
  BY DEF Beginnings
<1>3. /\ DOMAIN p = DOMAIN list \cup {c} /\ p[c] = S
      /\ \A d \in S : p[d] = list[d]
      /\ \A d \in DOMAIN list \ S : p[d] = list[d] \cup {c}
  BY <1>1, <1>2 DEF Placed
<1> HIDE DEF p
<1>4. \A d \in DOMAIN p : d \notin p[d] /\ p[d] \subseteq DOMAIN p
  BY <1>1, <1>2, <1>3 DEF IsManifest
<1>5. \A d \in DOMAIN p : \A e \in p[d] : p[e] \subseteq p[d]
  <2> SUFFICES ASSUME NEW d \in DOMAIN p, NEW e \in p[d] PROVE p[e] \subseteq p[d]
    OBVIOUS
  <2>1. CASE d = c
    BY <1>2, <1>3, <2>1
  <2>2. CASE d \in S
    BY <1>2, <1>3, <2>2 DEF IsManifest
  <2>3. CASE d \in DOMAIN list \ S
    <3>1. CASE e = c
      <4>1. S \subseteq list[d]
        BY <1>2, <2>3 DEF IsManifest
      <4> QED BY <1>3, <2>3, <3>1, <4>1
    <3>2. CASE e # c
      <4>1. e \in list[d] /\ e \in DOMAIN list /\ list[e] \subseteq list[d]
        BY <1>3, <2>3, <3>2 DEF IsManifest
      <4> QED BY <1>3, <2>3, <4>1
    <3> QED BY <3>1, <3>2
  <2> QED BY <1>3, <2>1, <2>2, <2>3
<1>6. \A d, e \in DOMAIN p : d = e \/ d \in p[e] \/ e \in p[d]
  <2> SUFFICES ASSUME NEW d \in DOMAIN p, NEW e \in DOMAIN p, d # e
               PROVE  d \in p[e] \/ e \in p[d]
    OBVIOUS
  <2>1. CASE d \in DOMAIN list /\ e \in DOMAIN list
    BY <1>3, <2>1 DEF IsManifest
  <2>2. CASE d = c \/ e = c
    BY <1>3, <2>2
  <2> QED BY <1>3, <2>1, <2>2
<1>7. \A d, e \in DOMAIN p : IdOf(d) = IdOf(e) => d = e
  <2>1. \A d \in DOMAIN list : IdOf(d) # IdOf(c)
    BY DEF Ids
  <2> QED BY <1>3, <2>1 DEF IsManifest
<1>8. IsManifest(p)
  BY <1>4, <1>5, <1>6, <1>7 DEF IsManifest
<1> QED BY <1>3, <1>8 DEF p

\* What a handler has found out stays true when the manifest grows.
LEMMA KnowsMore ==
    ASSUME NEW chunks, NEW more, chunks \subseteq more, NEW h, Knows(h, chunks)
    PROVE  Knows(h, more)
<1>1. SessionsIn(chunks) \subseteq SessionsIn(more)
  BY DEF SessionsIn
<1> QED BY <1>1 DEF Knows

\* A step of one handler.
LEMMA HandlerStep ==
    ASSUME Handlers, NEW r \in Request, NEW h, Knows(h, Stored'), Stored \subseteq Stored',
           request' = [request EXCEPT ![r] = h]
    PROVE  Handlers'
<1>1. h \in Handler
  BY DEF Knows
<1>2. request' \in [Request -> Handler]
  BY <1>1 DEF Handlers
<1>3. \A s \in Request : Knows(request'[s], Stored')
  BY KnowsMore DEF Handlers
<1> QED BY <1>2, <1>3 DEF Handlers

\* A step of one handler that touches neither the manifest nor the read models.
LEMMA HandlerOnlyStep ==
    ASSUME StoreIInv, NEW r \in Request, NEW h, Knows(h, Stored),
           request' = [request EXCEPT ![r] = h],
           UNCHANGED <<stored, index, model, building, settled>>
    PROVE  StoreIInv'
<1>1. Stored' = Stored
  BY DEF Stored
<1>2. Handlers'
  BY <1>1, HandlerStep, KnowsMore DEF StoreIInv
<1>3. Listed' /\ Models'
  BY <1>1 DEF StoreIInv, Listed, Models, Holds
<1> QED BY <1>2, <1>3 DEF StoreIInv

\* The handler of a request under way, and what it is when it has gone on.
LEMMA GotoTyped ==
    ASSUME StoreIInv, NEW r \in Request, request[r].at # "free",
           NEW at \in Steps \ {"free"}, Goto(r, at)
    PROVE  LET h == [request[r] EXCEPT !.at = at]
           IN  /\ request' = [request EXCEPT ![r] = h]
               /\ h \in Handler /\ h.at = at /\ h.chunk = request[r].chunk
               /\ h.after = request[r].after /\ h.after \subseteq Stored
               /\ h.chunk \in Chunk /\ h.chunk # Nothing
<1>1. Knows(request[r], Stored) /\ request[r] \in Handler
  BY DEF StoreIInv, Handlers, Knows
<1>2. request[r].chunk \in Chunk /\ request[r].chunk # Nothing
  BY <1>1 DEF Knows, Handler
<1>3. request[r].after \subseteq Stored
  BY <1>1 DEF Knows
<1> QED BY <1>1, <1>2, <1>3 DEF Goto, Handler

\* The same for a handler that is done with its INSERT.
LEMMA DoneTyped ==
    ASSUME StoreIInv, NEW r \in Request, request[r].at # "free",
           NEW at \in Steps \ {"free"}, Done(r, at)
    PROVE  LET h == [request[r] EXCEPT !.at = at, !.after = {}]
           IN  /\ request' = [request EXCEPT ![r] = h]
               /\ h \in Handler /\ h.at = at /\ h.chunk = request[r].chunk
               /\ h.after = {}
               /\ h.chunk \in Chunk /\ h.chunk # Nothing
<1>1. Knows(request[r], Stored) /\ request[r] \in Handler
  BY DEF StoreIInv, Handlers, Knows
<1>2. request[r].chunk \in Chunk /\ request[r].chunk # Nothing
  BY <1>1 DEF Knows, Handler
<1> QED BY <1>1, <1>2 DEF Done, Handler

-------------------------------------------------------------------------------
(* The steps. *)

\* A push arrives or is answered.
LEMMA ComeAndGoStep ==
    ASSUME StoreIInv, NEW r \in Request,
           (\E chunk \in Chunk : Receive(r, chunk)) \/ Respond(r)
    PROVE  StoreIInv'
<1>1. CASE Respond(r)
  <2>1. Knows(Unused, Stored)
    BY DEF Knows, Handler, Unused, Steps
  <2> QED BY <1>1, <2>1, HandlerOnlyStep DEF Respond
<1>2. ASSUME NEW chunk \in Chunk, Receive(r, chunk) PROVE StoreIInv'
  <2>1. Knows([Unused EXCEPT !.at = "validate", !.chunk = chunk], Stored)
    BY NothingAssumption DEF Knows, Handler, Steps, Unused
  <2> QED BY <1>2, <2>1, HandlerOnlyStep DEF Receive
<1> QED BY <1>1, <1>2

\* The steps of a handler that only look, or give up.
LEMMA LookStep ==
    ASSUME StoreIInv, NEW r \in Request, Validate(r) \/ LookUp(r) \/ RefuseChunk(r)
    PROVE  StoreIInv'
<1>1. UNCHANGED <<stored, index, model, building, settled>>
  BY DEF Validate, LookUp, RefuseChunk
<1>2. ASSUME NEW at \in Steps \ {"free"}, Goto(r, at), request[r].at # "free",
             at \in {"lookup", "insert"} => request[r].chunk.needs
                 \subseteq request[r].chunk.sessions \cup SessionsIn(Stored),
             at \in {"index", "reindex", "invalidate", "ok"} => request[r].chunk \in Stored,
             at # "inserting"
      PROVE  StoreIInv'
  <2> DEFINE h == [request[r] EXCEPT !.at = at]
  <2>1. /\ request' = [request EXCEPT ![r] = h]
        /\ h \in Handler /\ h.at = at /\ h.chunk = request[r].chunk /\ h.chunk # Nothing
        /\ h.after \subseteq Stored
    BY <1>2, GotoTyped
  <2> HIDE DEF h
  <2>2. Knows(h, Stored)
    BY <1>2, <2>1 DEF Knows
  <2> QED BY <1>1, <2>1, <2>2, HandlerOnlyStep
<1>3. Knows(request[r], Stored) /\ index \subseteq SessionsIn(Stored)
  BY DEF StoreIInv, Handlers, Listed
<1>4. CASE Validate(r)
  <2>1. request[r].at = "validate"
    BY <1>4 DEF Validate
  <2>2. CASE request[r].chunk.needs \subseteq request[r].chunk.sessions \cup index
    BY <1>2, <1>3, <1>4, <2>1, <2>2 DEF Validate, Steps
  <2>3. CASE ~(request[r].chunk.needs \subseteq request[r].chunk.sessions \cup index)
    BY <1>2, <1>4, <2>1, <2>3 DEF Validate, Steps
  <2> QED BY <2>2, <2>3
<1>5. CASE LookUp(r)
  <2>1. request[r].at = "lookup"
    BY <1>5 DEF LookUp
  <2>2. CASE request[r].chunk \in Stored
    BY <1>2, <1>5, <2>1, <2>2 DEF LookUp, Steps
  <2>3. CASE request[r].chunk \notin Stored /\ IdOf(request[r].chunk) \in Ids(Stored)
    BY <1>2, <1>5, <2>1, <2>3 DEF LookUp, Steps
  <2>4. CASE request[r].chunk \notin Stored /\ IdOf(request[r].chunk) \notin Ids(Stored)
    <3>1. request[r].chunk.needs \subseteq request[r].chunk.sessions \cup SessionsIn(Stored)
      BY <1>3, <2>1 DEF Knows
    <3>2. Goto(r, "insert")
      BY <1>5, <2>4 DEF LookUp
    <3> QED BY <1>2, <2>1, <3>1, <3>2 DEF Steps
  <2> QED BY <2>2, <2>3, <2>4
<1>6. CASE RefuseChunk(r)
  <2> DEFINE h == [request[r] EXCEPT !.at = "refused", !.after = {}]
  <2>1. /\ request' = [request EXCEPT ![r] = h]
        /\ h \in Handler /\ h.at = "refused" /\ h.chunk # Nothing /\ h.after = {}
    BY <1>6, DoneTyped DEF RefuseChunk, Steps
  <2> HIDE DEF h
  <2>2. Knows(h, Stored)
    BY <2>1 DEF Knows
  <2> QED BY <1>1, <2>1, <2>2, HandlerOnlyStep
<1> QED BY <1>4, <1>5, <1>6

\* The INSERT begins: the sessions the chunk needs came with what is there by now.
LEMMA BeginStep ==
    ASSUME StoreIInv, NEW r \in Request, BeginInsert(r)
    PROVE  StoreIInv'
<1> DEFINE h == [request[r] EXCEPT !.at = "inserting", !.after = Stored]
<1>1. /\ request[r].at = "insert" /\ Knows(request[r], Stored) /\ Stored \subseteq Chunk
      /\ request' = [request EXCEPT ![r] = h]
      /\ UNCHANGED <<stored, index, model, building, settled>>
  BY DEF BeginInsert, StoreIInv, Handlers, Listed
<1>2. h \in Handler /\ h.at = "inserting" /\ h.chunk = request[r].chunk /\ h.after = Stored
  BY <1>1 DEF Knows, Handler, Steps
<1> HIDE DEF h
<1>3. Knows(h, Stored)
  BY <1>1, <1>2 DEF Knows
<1> QED BY <1>1, <1>3, HandlerOnlyStep

\* The row of the chunk: what everybody has found out stays true of more rows.
LEMMA InsertStep ==
    ASSUME StoreIInv, NEW r \in Request, Insert(r)
    PROVE  StoreIInv'
<1> DEFINE c == request[r].chunk
<1>1. /\ request[r].at = "inserting" /\ UNCHANGED <<index, model, building, settled>>
      /\ Knows(request[r], Stored)
  BY DEF Insert, StoreIInv, Handlers
<1>2. PICK at \in {"invalidate", "index", "refused"} :
          /\ Done(r, at)
          /\ \/ (at = "refused" \/ c \in Stored) /\ UNCHANGED stored
             \/ /\ at # "invalidate" /\ IdOf(c) \notin Ids(Stored)
                /\ \E earlier \in Beginnings(stored) : stored' = Placed(stored, c, earlier)
  BY DEF Insert
<1> DEFINE h == [request[r] EXCEPT !.at = at, !.after = {}]
<1>3. /\ request' = [request EXCEPT ![r] = h]
      /\ h \in Handler /\ h.at = at /\ h.chunk = c /\ c \in Chunk /\ c # Nothing /\ h.after = {}
  BY <1>1, <1>2, DoneTyped DEF Steps
<1>4. /\ IsManifest(stored') /\ Stored' \subseteq Chunk /\ Stored \subseteq Stored'
      /\ at = "refused" \/ c \in Stored'
  <2>1. IsManifest(stored) /\ Stored \subseteq Chunk
    BY DEF StoreIInv, Listed
  <2>2. CASE (at = "refused" \/ c \in Stored) /\ UNCHANGED stored
    BY <2>1, <2>2 DEF Stored
  <2>3. ASSUME NEW earlier \in Beginnings(stored), stored' = Placed(stored, c, earlier),
               IdOf(c) \notin Ids(Stored)
        PROVE  IsManifest(stored') /\ Stored' = Stored \cup {c}
    BY <2>1, <2>3, PlacedIsManifest DEF Stored
  <2> QED BY <1>2, <1>3, <2>1, <2>2, <2>3
<1> HIDE DEF h, c
<1>5. Knows(h, Stored')
  BY <1>2, <1>3, <1>4 DEF Knows
<1>6. Handlers'
  BY <1>3, <1>4, <1>5, HandlerStep DEF StoreIInv
<1>7. SessionsIn(Stored) \subseteq SessionsIn(Stored')
  BY <1>4 DEF SessionsIn
<1>8. Listed'
  BY <1>1, <1>4, <1>7 DEF StoreIInv, Listed
<1>9. Models'
  BY <1>1, <1>4 DEF StoreIInv, Models, Holds
<1> QED BY <1>6, <1>8, <1>9 DEF StoreIInv

\* The sessions of a chunk in the manifest are indexed, or some of them.
LEMMA IndexStep ==
    ASSUME StoreIInv, NEW r \in Request, IndexChunkSessions(r)
    PROVE  StoreIInv'
<1> DEFINE c == request[r].chunk
<1>1. /\ request[r].at \in {"index", "reindex"} /\ Knows(request[r], Stored)
      /\ UNCHANGED <<stored, model, building, settled>>
      /\ Stored' = Stored
  BY DEF IndexChunkSessions, StoreIInv, Handlers, Stored
<1>2. PICK done \in SUBSET c.sessions : index' = index \cup done
  BY DEF IndexChunkSessions
<1>3. PICK at \in {"refused", "invalidate"} : Goto(r, at)
  BY DEF IndexChunkSessions
<1> DEFINE h == [request[r] EXCEPT !.at = at]
<1>4. /\ request' = [request EXCEPT ![r] = h]
      /\ h \in Handler /\ h.at = at /\ h.chunk = c /\ c # Nothing
      /\ h.after \subseteq Stored
  BY <1>1, <1>3, GotoTyped DEF Steps
<1>5. c \in Stored
  BY <1>1 DEF Knows
<1> HIDE DEF h, c
<1>6. Knows(h, Stored')
  BY <1>1, <1>4, <1>5 DEF Knows
<1>7. Handlers'
  BY <1>1, <1>4, <1>6, HandlerStep DEF StoreIInv
<1>8. c.sessions \subseteq SessionsIn(Stored)
  BY <1>5 DEF SessionsIn
<1>9. Listed' /\ Models'
  BY <1>1, <1>2, <1>8 DEF StoreIInv, Listed, Models, Holds
<1> QED BY <1>7, <1>9 DEF StoreIInv

\* The read model is dropped: the chunk is settled when every model being built has it.
LEMMA InvalidateStep ==
    ASSUME StoreIInv, NEW r \in Request, InvalidateDashboardReadModel(r)
    PROVE  StoreIInv'
<1> DEFINE c == request[r].chunk
           h == [request[r] EXCEPT !.at = "ok"]
<1>1. /\ request[r].at = "invalidate" /\ Knows(request[r], Stored) /\ Goto(r, "ok")
      /\ UNCHANGED <<stored, index, building>> /\ model' = Nothing
      /\ settled' = IF Unread(c) = {} THEN settled \cup {c} ELSE settled
      /\ Stored' = Stored
  BY DEF InvalidateDashboardReadModel, StoreIInv, Handlers, Stored
<1>2. /\ request' = [request EXCEPT ![r] = h]
      /\ h \in Handler /\ h.at = "ok" /\ h.chunk = c /\ c # Nothing /\ h.after \subseteq Stored
  BY <1>1, GotoTyped DEF Steps
<1>3. c \in Stored
  BY <1>1 DEF Knows
<1> HIDE DEF h, c
<1>4. Knows(h, Stored')
  BY <1>1, <1>2, <1>3 DEF Knows
<1>5. Handlers'
  BY <1>1, <1>2, <1>4, HandlerStep DEF StoreIInv
<1>6. Listed'
  BY <1>1, <1>3 DEF StoreIInv, Listed
<1>7. \A v \in Reader : building[v].at = "publish" => settled' \subseteq building[v].rows
  BY <1>1 DEF StoreIInv, Models, Holds, Unread
<1>8. Models'
  BY <1>1, <1>7 DEF StoreIInv, Models, Holds
<1> QED BY <1>5, <1>6, <1>8 DEF StoreIInv

\* A restart: the index names the sessions of the manifest, nobody builds a read model.
LEMMA RestartStep == StoreIInv /\ Restart => StoreIInv'
<1> SUFFICES ASSUME StoreIInv, Restart PROVE StoreIInv'
  OBVIOUS
<1>1. Stored' = Stored /\ UNCHANGED <<stored, settled>>
  BY DEF Restart, Stored
<1>2. ASSUME NEW r \in Request PROVE Knows(request'[r], Stored)
  <2>1. Knows(request[r], Stored)
    BY DEF StoreIInv, Handlers
  <2>2. CASE request[r].at = "free"
    BY <2>2 DEF Restart, Knows, Handler, Unused, Steps
  <2>3. CASE request[r].at # "free"
    <3>1. request'[r] = [request[r] EXCEPT !.at = "refused", !.after = {}]
      BY <2>3 DEF Restart
    <3> QED BY <2>1, <2>3, <3>1 DEF Knows, Handler, Steps
  <2> QED BY <2>2, <2>3
<1>3. Handlers'
  <2>1. request' \in [Request -> Handler]
    <3>1. DOMAIN request' = Request /\ request' = [r \in Request |-> request'[r]]
      BY DEF Restart
    <3> QED BY <1>2, <3>1 DEF Knows
  <2> QED BY <1>1, <1>2, <2>1 DEF Handlers
<1>4. Listed'
  BY <1>1 DEF Restart, StoreIInv, Listed
<1>5. Models'
  <2>1. model' = Nothing /\ building' = [v \in Reader |-> Away]
    BY DEF Restart
  <2>2. Away \in [at: {"away", "read", "publish"}, rows: SUBSET Stored] /\ Away.at # "publish"
    BY DEF Away
  <2> QED BY <1>1, <2>1, <2>2 DEF Models, Holds
<1> QED BY <1>3, <1>4, <1>5 DEF StoreIInv

\* A read model is built from the rows of now, and published unless there is one.
LEMMA ReaderStep ==
    ASSUME StoreIInv,
           \/ \E v \in Reader : MissReadModel(v) \/ ReadChunkRows(v) \/ PublishReadModel(v)
           \/ SetProjectControl
    PROVE  StoreIInv'
<1> DEFINE Builder == [at: {"away", "read", "publish"}, rows: SUBSET Stored]
<1>1. UNCHANGED <<stored, index, request, settled>> /\ Stored' = Stored
  BY DEF MissReadModel, ReadChunkRows, PublishReadModel, SetProjectControl, Stored
<1>2. Handlers' /\ Listed'
  BY <1>1 DEF StoreIInv, Handlers, Listed
<1>3. ASSUME NEW v \in Reader, NEW b \in Builder, building' = [building EXCEPT ![v] = b],
             b.at = "publish" => settled \subseteq b.rows,
             Holds(model', Stored, settled)
      PROVE  Models'
  BY <1>1, <1>3 DEF StoreIInv, Models
<1>4. ASSUME NEW v \in Reader, MissReadModel(v) PROVE Models'
  <2> DEFINE b == [building[v] EXCEPT !.at = "read"]
  <2>1. building[v] \in Builder
    BY DEF StoreIInv, Models
  <2>2. b \in Builder /\ b.at = "read"
    BY <2>1
  <2>3. building' = [building EXCEPT ![v] = b] /\ UNCHANGED model
    BY <1>4 DEF MissReadModel
  <2> HIDE DEF b
  <2> QED BY <1>3, <2>2, <2>3 DEF StoreIInv, Models
<1>5. ASSUME NEW v \in Reader, ReadChunkRows(v) PROVE Models'
  <2> DEFINE b == [at |-> "publish", rows |-> Stored]
  <2>1. b \in Builder /\ settled \subseteq b.rows
    BY DEF StoreIInv, Listed
  <2>2. UNCHANGED model /\ building' = [building EXCEPT ![v] = b]
    BY <1>5 DEF ReadChunkRows
  <2> HIDE DEF b
  <2> QED BY <1>3, <2>1, <2>2 DEF StoreIInv, Models
<1>6. ASSUME NEW v \in Reader, PublishReadModel(v) PROVE Models'
  <2>1. /\ building[v].at = "publish" /\ building[v] \in Builder
        /\ settled \subseteq building[v].rows
    BY <1>6 DEF PublishReadModel, StoreIInv, Models
  <2>2. model' \in {model, building[v].rows} /\ building' = [building EXCEPT ![v] = Away]
    BY <1>6 DEF PublishReadModel
  <2>3. Holds(model', Stored, settled)
    BY <2>1, <2>2 DEF Holds, StoreIInv, Models
  <2>4. Away \in Builder /\ Away.at # "publish"
    BY DEF Away
  <2> QED BY <1>3, <2>2, <2>3, <2>4
<1>7. ASSUME SetProjectControl PROVE Models'
  <2>1. model' = Nothing /\ UNCHANGED building
    BY <1>7 DEF SetProjectControl
  <2> QED BY <1>1, <2>1 DEF StoreIInv, Models, Holds
<1> QED BY <1>2, <1>4, <1>5, <1>6, <1>7 DEF StoreIInv

\* Every step keeps the invariant.
LEMMA NextIInv == StoreIInv /\ [StoreNext]_storeVars => StoreIInv'
<1> SUFFICES ASSUME StoreIInv, [StoreNext]_storeVars PROVE StoreIInv'
  OBVIOUS
<1>1. CASE UNCHANGED storeVars
  BY <1>1 DEF storeVars, StoreIInv, Handlers, Listed, Models, Stored
<1>2. ASSUME NEW r \in Request, HandlePushChunk(r) PROVE StoreIInv'
  BY <1>2, ComeAndGoStep, LookStep, BeginStep, InsertStep, IndexStep, InvalidateStep
     DEF HandlePushChunk
<1> QED BY <1>1, <1>2, RestartStep, ReaderStep DEF StoreNext

-------------------------------------------------------------------------------
\* The inductive invariant holds in every reachable state.
LEMMA IInvHolds == StoreSpec => []StoreIInv
BY InitIInv, NextIInv, PTL DEF StoreSpec

\* Types: a read model shows chunks of the manifest only, the index names only
\* sessions that chunks of the manifest brought, whichever statement failed half-way.
THEOREM StoreTypeCorrect == StoreSpec => []StoreTypeOK
BY IInvHolds, IInvImplies, PTL

\* A write that dropped the read model while nobody was building one from older rows
\* is in every read model from then on.
THEOREM DashboardKeepsUp == StoreSpec => []DashboardSettled
BY IInvHolds, IInvImplies, PTL

-------------------------------------------------------------------------------
(* The store implements the log of chunks. *)

\* What the log sees of a handler.
Seen(h) ==
    [at |-> IF h.at \in {"free", "ok", "refused"} THEN h.at ELSE "open", chunk |-> h.chunk]

Pushes == [r \in Request |-> Seen(request[r])]

\* A step the log does not see.
LEMMA QuietRefines ==
    ASSUME UNCHANGED stored, \A r \in Request : Seen(request'[r]) = Seen(request[r])
    PROVE  UNCHANGED ChunkLog!logVars
BY DEF ChunkLog!logVars, Seen

\* A handler goes on: what the log sees of it, and of the others.
LEMMA GotoSeen ==
    ASSUME StoreIInv, NEW r \in Request, request[r].at # "free",
           NEW at \in Steps \ {"free"}, Goto(r, at)
    PROVE  /\ Seen(request'[r]) = [Seen(request[r]) EXCEPT !.at =
                                      IF at \in {"ok", "refused"} THEN at ELSE "open"]
           /\ \A s \in Request \ {r} : request'[s] = request[s]
           /\ Seen(request[r]).chunk \in Chunk
<1> DEFINE h == [request[r] EXCEPT !.at = at]
<1>1. /\ request' = [request EXCEPT ![r] = h]
      /\ h.at = at /\ h.chunk = request[r].chunk /\ h.chunk \in Chunk
  BY GotoTyped
<1> HIDE DEF h
<1>2. request'[r] = h /\ \A s \in Request \ {r} : request'[s] = request[s]
  BY <1>1 DEF StoreIInv, Handlers
<1> QED BY <1>1, <1>2 DEF Seen

\* The log on one request's step, the others as they were.
LEMMA OneSeen ==
    ASSUME NEW r \in Request, \A s \in Request \ {r} : request'[s] = request[s]
    PROVE  Pushes' = [Pushes EXCEPT ![r] = Seen(request'[r])]
BY DEF Pushes

\* The same for a handler that is done with its INSERT.
LEMMA DoneSeen ==
    ASSUME StoreIInv, NEW r \in Request, request[r].at # "free",
           NEW at \in Steps \ {"free"}, Done(r, at)
    PROVE  /\ Seen(request'[r]) = [Seen(request[r]) EXCEPT !.at =
                                      IF at \in {"ok", "refused"} THEN at ELSE "open"]
           /\ \A s \in Request \ {r} : request'[s] = request[s]
<1> DEFINE h == [request[r] EXCEPT !.at = at, !.after = {}]
<1>1. request' = [request EXCEPT ![r] = h] /\ h.at = at /\ h.chunk = request[r].chunk
  BY DoneTyped
<1> HIDE DEF h
<1>2. request'[r] = h /\ \A s \in Request \ {r} : request'[s] = request[s]
  BY <1>1 DEF StoreIInv, Handlers
<1> QED BY <1>1, <1>2 DEF Seen

\* A request that fails is refused.
LEMMA RefuseRefines ==
    ASSUME StoreIInv, NEW r \in Request, request[r].at # "free",
           Goto(r, "refused") \/ Done(r, "refused"), UNCHANGED stored
    PROVE  ChunkLog!Refuse({r})
<1>1. /\ Seen(request'[r]) = [Seen(request[r]) EXCEPT !.at = "refused"]
      /\ \A s \in Request \ {r} : request'[s] = request[s]
  BY GotoSeen, DoneSeen DEF Steps
<1>2. Pushes' = [s \in Request |-> IF s \in {r} THEN [Pushes[s] EXCEPT !.at = "refused"]
                                   ELSE Pushes[s]]
  BY <1>1, OneSeen DEF Pushes
<1>3. Pushes[r].at # "free"
  BY DEF Pushes, Seen
<1> QED BY <1>2, <1>3 DEF ChunkLog!Refuse, Pushes, Seen

\* A chunk that is in the manifest by now is confirmed.
LEMMA ConfirmRefines ==
    ASSUME StoreIInv, NEW r \in Request, InvalidateDashboardReadModel(r)
    PROVE  ChunkLog!Confirm(r)
<1>1. /\ request[r].at = "invalidate" /\ Goto(r, "ok") /\ UNCHANGED stored
      /\ request[r].chunk \in Stored
  BY DEF InvalidateDashboardReadModel, StoreIInv, Handlers, Knows
<1>2. /\ Seen(request'[r]) = [Seen(request[r]) EXCEPT !.at = "ok"]
      /\ \A s \in Request \ {r} : request'[s] = request[s]
  BY <1>1, GotoSeen DEF Steps
<1>3. Pushes' = [Pushes EXCEPT ![r] = [Pushes[r] EXCEPT !.at = "ok"]]
  BY <1>2, OneSeen DEF Pushes
<1>4. Pushes[r].at = "open" /\ Pushes[r].chunk \in Stored
  BY <1>1 DEF Pushes, Seen
<1> QED BY <1>1, <1>3, <1>4
        DEF ChunkLog!Confirm, ChunkLog!Stored, Stored, Pushes, Seen

\* A chunk that was not there is accepted, behind what it needs.
LEMMA AcceptRefines ==
    ASSUME StoreIInv, NEW r \in Request, Insert(r), IdOf(request[r].chunk) \notin Ids(Stored)
    PROVE  ChunkLog!Accept(r)
<1>1. PICK at \in {"index", "refused"}, earlier \in Beginnings(stored) :
          /\ Done(r, at) /\ request[r].after \subseteq earlier
          /\ stored' = Placed(stored, request[r].chunk, earlier)
  BY DEF Insert
<1>2. /\ request[r].at = "inserting"
      /\ request[r].chunk.needs
            \subseteq request[r].chunk.sessions \cup SessionsIn(request[r].after)
  BY DEF Insert, StoreIInv, Handlers, Knows
<1>3. request[r].chunk.needs \subseteq request[r].chunk.sessions \cup SessionsIn(earlier)
  <2>1. SessionsIn(request[r].after) \subseteq SessionsIn(earlier)
    BY <1>1 DEF SessionsIn
  <2> QED BY <1>2, <2>1
<1>4. PICK answer \in {"open", "refused"} :
          /\ Seen(request'[r]) = [Seen(request[r]) EXCEPT !.at = answer]
          /\ \A s \in Request \ {r} : request'[s] = request[s]
  BY <1>1, <1>2, DoneSeen DEF Steps
<1>5. Pushes' = [Pushes EXCEPT ![r] = [Pushes[r] EXCEPT !.at = answer]]
  BY <1>4, OneSeen DEF Pushes
<1>6. Pushes[r].at = "open" /\ Pushes[r].chunk = request[r].chunk
  BY <1>2 DEF Pushes, Seen
<1>7. \E a \in {"open", "refused"} : Pushes' = [Pushes EXCEPT ![r].at = a]
  BY <1>5
<1>8. \E e \in ChunkLog!Beginnings(stored) :
          /\ Pushes[r].chunk.needs \subseteq Pushes[r].chunk.sessions \cup ChunkLog!SessionsIn(e)
          /\ stored' = ChunkLog!Placed(stored, Pushes[r].chunk, e)
  BY <1>1, <1>3, <1>6
     DEF ChunkLog!Beginnings, Beginnings, ChunkLog!SessionsIn, SessionsIn, ChunkLog!Placed, Placed
<1>9. IdOf(Pushes[r].chunk) \notin ChunkLog!Ids(ChunkLog!Stored)
  BY <1>6 DEF ChunkLog!Ids, ChunkLog!Stored, Ids, Stored
<1> QED BY <1>6, <1>7, <1>8, <1>9 DEF ChunkLog!Accept, Pushes, Seen

\* Every step of a handler is one of the log, or none.
LEMMA HandlerRefines ==
    ASSUME StoreIInv, NEW r \in Request, HandlePushChunk(r)
    PROVE  [ChunkLog!LogNext]_ChunkLog!logVars
<1>1. ASSUME ChunkLog!Accept(r) \/ ChunkLog!Confirm(r) \/ ChunkLog!Refuse({r})
      PROVE  [ChunkLog!LogNext]_ChunkLog!logVars
  BY <1>1 DEF ChunkLog!LogNext
<1>2. ASSUME NEW at \in Steps \ {"free", "ok", "refused"}, Goto(r, at), UNCHANGED stored,
             request[r].at \in Steps \ {"free", "ok", "refused"}
      PROVE  UNCHANGED ChunkLog!logVars
  <2>1. /\ Seen(request'[r]) = [Seen(request[r]) EXCEPT !.at = "open"]
        /\ \A s \in Request \ {r} : request'[s] = request[s]
    BY <1>2, GotoSeen
  <2>2. Seen(request'[r]) = Seen(request[r])
    BY <1>2, <2>1 DEF Seen
  <2> QED BY <1>2, <2>1, <2>2, QuietRefines
<1>3. ASSUME NEW chunk \in Chunk, Receive(r, chunk)
      PROVE  ChunkLog!Offer(r, Pushes'[r].chunk)
  <2> DEFINE new == [Unused EXCEPT !.at = "validate", !.chunk = chunk]
  <2>0. new.at = "validate" /\ new.chunk = chunk
    BY DEF Unused
  <2>1. /\ request[r].at = "free" /\ UNCHANGED stored
        /\ request' = [request EXCEPT ![r] = new]
    BY <1>3 DEF Receive
  <2> HIDE DEF new
  <2>2. /\ Seen(request'[r]) = [at |-> "open", chunk |-> chunk]
        /\ \A s \in Request \ {r} : request'[s] = request[s]
    BY <2>0, <2>1 DEF Seen, StoreIInv, Handlers
  <2>3. Pushes' = [Pushes EXCEPT ![r] = [at |-> "open", chunk |-> chunk]]
    BY <2>2, OneSeen
  <2>4. Pushes[r].at = "free" /\ Pushes'[r].chunk = chunk
    BY <2>1, <2>2 DEF Pushes, Seen
  <2> QED BY <2>1, <2>3, <2>4 DEF ChunkLog!Offer, Pushes, Seen
<1>4. CASE Respond(r)
  <2>1. /\ request[r].at \in {"ok", "refused"} /\ UNCHANGED stored
        /\ request' = [request EXCEPT ![r] = Unused]
    BY <1>4 DEF Respond
  <2>2. /\ Seen(request'[r]) = [at |-> "free", chunk |-> Nothing]
        /\ \A s \in Request \ {r} : request'[s] = request[s]
    BY <2>1 DEF Seen, Unused, StoreIInv, Handlers
  <2>3. Pushes' = [Pushes EXCEPT ![r] = [at |-> "free", chunk |-> Nothing]]
    BY <2>2, OneSeen
  <2>4. Pushes[r].at \in {"ok", "refused"}
    BY <2>1 DEF Pushes, Seen
  <2>5. ChunkLog!Leave(r)
    BY <2>1, <2>3, <2>4 DEF ChunkLog!Leave, ChunkLog!Free, Pushes, Seen
  <2> QED BY <2>5 DEF ChunkLog!LogNext
<1>5. CASE Validate(r) \/ LookUp(r)
  <2>1. /\ UNCHANGED stored /\ request[r].at \in {"validate", "lookup"}
        /\ \E at \in {"lookup", "insert", "reindex", "refused"} : Goto(r, at)
    BY <1>5 DEF Validate, LookUp
  <2> QED BY <1>1, <1>2, <2>1, RefuseRefines DEF Steps
<1>10. CASE BeginInsert(r)
  <2>1. /\ UNCHANGED stored /\ request[r].at = "insert"
        /\ request' = [request EXCEPT ![r] =
                          [request[r] EXCEPT !.at = "inserting", !.after = Stored]]
    BY <1>10 DEF BeginInsert
  <2>2. request[r] \in Handler
    BY DEF StoreIInv, Handlers
  <2>3. /\ request'[r].at = "inserting" /\ request'[r].chunk = request[r].chunk
        /\ \A s \in Request \ {r} : request'[s] = request[s]
    BY <2>1, <2>2 DEF StoreIInv, Handlers, Handler
  <2>4. Seen(request'[r]) = Seen(request[r])
    BY <2>1, <2>3 DEF Seen
  <2>5. UNCHANGED ChunkLog!logVars
    BY <2>1, <2>3, <2>4, QuietRefines
  <2> QED BY <2>5
<1>11. CASE RefuseChunk(r)
  <2>1. UNCHANGED stored /\ request[r].at # "free" /\ Done(r, "refused")
    BY <1>11 DEF RefuseChunk
  <2> QED BY <1>1, <2>1, RefuseRefines
<1>6. CASE Insert(r)
  <2>0. request[r].at = "inserting"
    BY <1>6 DEF Insert
  <2>1. CASE IdOf(request[r].chunk) \notin Ids(Stored)
    BY <1>1, <1>6, <2>1, AcceptRefines
  <2>2. CASE request[r].chunk \in Stored /\ IdOf(request[r].chunk) \in Ids(Stored)
    <3>1. Done(r, "invalidate") /\ UNCHANGED stored
      BY <1>6, <2>2 DEF Insert
    <3>2. /\ Seen(request'[r]) = [Seen(request[r]) EXCEPT !.at = "open"]
          /\ \A s \in Request \ {r} : request'[s] = request[s]
      BY <2>0, <3>1, DoneSeen DEF Steps
    <3>3. Seen(request'[r]) = Seen(request[r])
      BY <2>0, <3>2 DEF Seen
    <3>4. UNCHANGED ChunkLog!logVars
      BY <3>1, <3>2, <3>3, QuietRefines
    <3> QED BY <3>4
  <2>3. CASE request[r].chunk \notin Stored /\ IdOf(request[r].chunk) \in Ids(Stored)
    <3>1. Done(r, "refused") /\ UNCHANGED stored
      BY <1>6, <2>3 DEF Insert
    <3> QED BY <1>1, <2>0, <3>1, RefuseRefines
  <2> QED BY <2>1, <2>2, <2>3
<1>7. CASE IndexChunkSessions(r)
  <2>1. /\ UNCHANGED stored /\ request[r].at \in {"index", "reindex"}
        /\ \E at \in {"invalidate", "refused"} : Goto(r, at)
    BY <1>7 DEF IndexChunkSessions
  <2> QED BY <1>1, <1>2, <2>1, RefuseRefines DEF Steps
<1>8. CASE InvalidateDashboardReadModel(r)
  BY <1>1, <1>8, ConfirmRefines
<1>9. ASSUME NEW chunk \in Chunk, Receive(r, chunk)
      PROVE  [ChunkLog!LogNext]_ChunkLog!logVars
  BY <1>3, <1>9 DEF ChunkLog!LogNext, Pushes, Seen
<1> QED BY <1>4, <1>5, <1>6, <1>7, <1>8, <1>9, <1>10, <1>11 DEF HandlePushChunk

\* A restart refuses every request in flight.
LEMMA RestartRefines ==
    ASSUME StoreIInv, Restart
    PROVE  [ChunkLog!LogNext]_ChunkLog!logVars
<1>0. PICK R \in SUBSET Request : R = {r \in Request : request[r].at # "free"}
  OBVIOUS
<1>1. Pushes' = [r \in Request |-> IF r \in R THEN [Pushes[r] EXCEPT !.at = "refused"]
                                   ELSE Pushes[r]]
  <2> SUFFICES ASSUME NEW r \in Request
               PROVE  Seen(request'[r]) = IF r \in R THEN [Seen(request[r]) EXCEPT !.at = "refused"]
                                          ELSE Seen(request[r])
    BY DEF Pushes
  <2>1. Knows(request[r], Stored)
    BY DEF StoreIInv, Handlers
  <2>2. CASE r \in R
    <3>1. request'[r] = [request[r] EXCEPT !.at = "refused", !.after = {}]
      BY <1>0, <2>2 DEF Restart
    <3> QED BY <2>1, <2>2, <3>1 DEF Seen, Knows, Handler
  <2>3. CASE r \notin R
    BY <1>0, <2>1, <2>3 DEF Restart, Seen, Knows, Unused
  <2> QED BY <2>2, <2>3
<1>2. UNCHANGED stored /\ \A r \in R : Pushes[r].at # "free"
  BY <1>0 DEF Restart, Pushes, Seen
<1>3. ChunkLog!Refuse(R)
  BY <1>1, <1>2 DEF ChunkLog!Refuse, Pushes, Seen
<1> QED BY <1>3 DEF ChunkLog!LogNext

\* Every step is one of the log, or none.
LEMMA NextRefines ==
    ASSUME StoreIInv, [StoreNext]_storeVars
    PROVE  [ChunkLog!LogNext]_ChunkLog!logVars
<1>1. ASSUME UNCHANGED <<stored, request>> PROVE UNCHANGED ChunkLog!logVars
  BY <1>1, QuietRefines
<1>2. ASSUME NEW v \in Reader, MissReadModel(v) \/ ReadChunkRows(v) \/ PublishReadModel(v)
      PROVE  UNCHANGED <<stored, request>>
  BY <1>2 DEF MissReadModel, ReadChunkRows, PublishReadModel
<1>3. CASE SetProjectControl \/ UNCHANGED storeVars
  BY <1>1, <1>3 DEF SetProjectControl, storeVars
<1> QED BY <1>1, <1>2, <1>3, HandlerRefines, RestartRefines DEF StoreNext

\* Clients and readers of the manifest see chunks that come in whole, once, one of an id,
\* and after the sessions they need, whatever requests race, commit in another order than
\* they began, fail half-way or are cut off by a restart.
THEOREM ChunksLogged == StoreSpec => ActsAsChunkLog
<1>1. StoreInit => ChunkLog!LogInit
  BY DEF StoreInit, ChunkLog!LogInit, ChunkLog!Free, Unused, Empty, ChunkLog!Empty
<1>2. StoreIInv /\ [StoreNext]_storeVars => [ChunkLog!LogNext]_ChunkLog!logVars
  BY NextRefines
<1> QED BY <1>1, <1>2, IInvHolds, PTL DEF StoreSpec, ActsAsChunkLog, ChunkLog!LogSpec
===============================================================================
