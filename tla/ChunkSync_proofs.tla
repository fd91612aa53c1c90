--------------------------- MODULE ChunkSync_proofs ---------------------------
(***************************************************************************)
(* Chunks between any number of machines, requests, sessions and           *)
(* observations, and any length of journals and manifest.  An export acks  *)
(* the rows of the chunk it has pushed, and it comes to that only when     *)
(* this chunk is stored, or one of the same id.  An import finds its       *)
(* sessions because a session once shown stays unless it is removed,       *)
(* because every chunk needs the sessions of what it upserts, because the  *)
(* server stores it only after chunks that bring them, and because a       *)
(* machine that has recorded a chunk has had them.                         *)
(***************************************************************************)
EXTENDS ChunkSync, SequenceTheorems, TLAPS

\* The session is there, or it was and somebody removed it.
Had(m, s) == shown[m][s] # Nothing \/ s \in removed[m]

\* A machine has had the sessions it has journaled, and never journals that one went.
Journaled ==
    \A m \in Machine : \A i \in Rows(m) : journal[m][i].entity \in Session =>
        journal[m][i].op = "upsert" /\ Had(m, journal[m][i].entity)

\* The chunks there are: stored, recorded, or in a push.
Made == Stored \cup {push[r].chunk : r \in {q \in Request : push[q].at # "free"}}
               \cup UNION {known[m] : m \in Machine}

\* A chunk stands for rows that are there, and needs the sessions of what they upsert.
Honest(c) ==
    /\ c.rows \subseteq Rows(c.from)
    /\ \A o \in Upserted(c.from, c.rows) \cap Observation : SessionOf[o] \in c.needs

HonestChunks == \A c \in Made : c \in Chunk /\ Honest(c)

\* The sessions an export has read, and those of the chunk made of it, were there.
ReadBy(m, j) ==
    /\ j.at = "list" =>
          /\ j.data \in [Entity -> States]
          /\ \A s \in Session : j.data[s] # Nothing => Had(m, s)
    /\ j.at \in {"wait", "record", "ack"} =>
          /\ j.chunk \in Chunk /\ j.chunk.from = m /\ j.chunk.rows = j.rows
          /\ Honest(j.chunk)
          /\ \A s \in DOMAIN j.chunk.data \cap Session : Had(m, s)

Read == \A m \in Machine : ReadBy(m, command[m])

\* An export waits for the request that carries its chunk; ok means it is stored.
Waiting ==
    /\ \A m \in Machine : command[m].at = "wait" =>
          /\ command[m].request \in Request
          /\ push[command[m].request].at # "free"
          /\ command[m].chunk = push[command[m].request].chunk
    /\ \A r \in Request : push[r].at = "ok" => push[r].chunk \in Stored

\* The manifest brings every session before or with the first chunk that needs it.
Satisfied ==
    \A c \in Stored : c.needs \subseteq c.sessions \cup SessionsIn(stored[c])

\* A machine has had the sessions of the chunks it has recorded.
Arrived(m, c) ==
    \A s \in Session : s \in About(c.from, c.rows) \cup Synthesized(c) => Had(m, s)

Imported == \A m \in Machine : \A c \in known[m] : Arrived(m, c)

ChunkIInv ==
    /\ ChunkTypeOK /\ Journaled /\ HonestChunks
    /\ Read /\ Waiting /\ Satisfied /\ Imported

-------------------------------------------------------------------------------
(* Typing. *)

LEMMA EntityTypes ==
    /\ Session \subseteq Entity /\ Observation \subseteq Entity
    /\ \A o \in Observation : SessionOf[o] \in Session
    /\ States = {"upsert", "delete"} \cup {Nothing}
BY RecordsAssumption DEF Entity, States

\* The chunk an export makes.
LEMMA ChunkOfTyped ==
    ASSUME NEW m \in Machine, NEW rows, rows \subseteq Rows(m), Rows(m) \subseteq Nat,
           \A i \in rows : journal[m][i].entity \in Entity,
           NEW data \in [Entity -> States], NEW c, c = ChunkOf(m, rows, data)
    PROVE  /\ c \in Chunk /\ c.from = m /\ c.rows = rows
           /\ \A s \in DOMAIN c.data : data[s] # Nothing
           /\ \A o \in Upserted(m, rows) \cap Observation : SessionOf[o] \in c.needs
<1> DEFINE seen == {e \in Entity : data[e] # Nothing}
           obs == About(m, rows) \cap Observation \cap seen
           sess == seen \cap ((About(m, rows) \cap Session) \cup {SessionOf[o] : o \in obs})
           all == sess \cup (Upserted(m, rows) \cap Session)
           needs == {SessionOf[o] : o \in obs \cup (Upserted(m, rows) \cap Observation)}
           carried == [e \in obs \cup sess |-> data[e]]
<1>1. c = [from |-> m, rows |-> rows, data |-> carried, sessions |-> all, needs |-> needs]
  BY DEF ChunkOf
<1>2. obs \cup sess \subseteq seen /\ obs \cup sess \subseteq Entity
  OBVIOUS
<1>3. \A e \in obs \cup sess : data[e] \in {"upsert", "delete"} /\ data[e] # Nothing
  BY <1>2 DEF States
<1>4. carried \in UNION {[S -> {"upsert", "delete"}] : S \in SUBSET Entity}
  <2> DEFINE S == obs \cup sess
  <2>1. S \in SUBSET Entity /\ \A e \in S : data[e] \in {"upsert", "delete"}
    BY <1>2, <1>3
  <2>2. carried = [e \in S |-> data[e]]
    OBVIOUS
  <2> HIDE DEF S, carried
  <2>3. carried \in [S -> {"upsert", "delete"}]
    BY <2>1, <2>2
  <2> QED BY <2>1, <2>3
<1>5. sess \subseteq Session /\ all \subseteq Session /\ needs \subseteq Session
  BY EntityTypes
<1>6. \A s \in DOMAIN carried : data[s] # Nothing
  BY <1>3
<1>7. \A o \in Upserted(m, rows) \cap Observation : SessionOf[o] \in needs
  OBVIOUS
<1> HIDE DEF carried, all, needs
<1>8. c \in Chunk
  BY <1>1, <1>4, <1>5 DEF Chunk
<1> QED BY <1>1, <1>6, <1>7, <1>8

\* A journal that grows, and sessions that stay.
Grown ==
    \A m \in Machine : /\ Rows(m) \subseteq Rows(m)'
                       /\ \A i \in Rows(m) : journal'[m][i] = journal[m][i]
SessionsStay == \A m \in Machine, s \in Session : Had(m, s) => Had(m, s)'

LEMMA ChunkStays ==
    ASSUME Grown, NEW c \in Chunk, c.rows \subseteq Rows(c.from)
    PROVE  /\ About(c.from, c.rows)' = About(c.from, c.rows)
           /\ Upserted(c.from, c.rows)' = Upserted(c.from, c.rows)
           /\ Synthesized(c)' = Synthesized(c) /\ c.rows \subseteq Rows(c.from)'
           /\ Honest(c) => Honest(c)'
<1>1. c.from \in Machine
  BY DEF Chunk
<1>2. \A i \in c.rows : journal'[c.from][i] = journal[c.from][i]
  BY <1>1 DEF Grown
<1>3. About(c.from, c.rows)' = About(c.from, c.rows)
  BY <1>2 DEF About
<1>4. Upserted(c.from, c.rows)' = Upserted(c.from, c.rows)
  BY <1>2 DEF Upserted, About
<1>5. Synthesized(c)' = Synthesized(c) /\ c.rows \subseteq Rows(c.from)'
  BY <1>1, <1>3, <1>4 DEF Synthesized, Grown
<1> QED BY <1>3, <1>4, <1>5 DEF Honest

\* Chunks recorded, read or made keep what they are known for.
LEMMA KeptBehind ==
    ASSUME ChunkIInv, Grown, SessionsStay
    PROVE  /\ \A c \in Made : c \in Chunk /\ Honest(c)'
           /\ \A m \in Machine : \A c \in known[m] : Arrived(m, c)'
           /\ \A j : \A m \in Machine : ReadBy(m, j) => ReadBy(m, j)'
<1>1. \A c \in Made : c \in Chunk /\ c.rows \subseteq Rows(c.from) /\ Honest(c)
  BY DEF ChunkIInv, HonestChunks, Honest
<1>2. \A c \in Made : Honest(c)'
  BY <1>1, ChunkStays
<1>3. ASSUME NEW m \in Machine, NEW c \in known[m] PROVE Arrived(m, c)'
  <2>1. c \in Made
    BY DEF ChunkIInv, ChunkTypeOK, Made
  <2>2. c \in Chunk /\ c.rows \subseteq Rows(c.from)
    BY <1>1, <2>1
  <2>3. Arrived(m, c)
    BY DEF ChunkIInv, Imported
  <2> QED BY <2>2, <2>3, ChunkStays DEF Arrived, SessionsStay
<1>4. ASSUME NEW m \in Machine, NEW j, ReadBy(m, j) PROVE ReadBy(m, j)'
  <2>1. j.at \in {"wait", "record", "ack"} => Honest(j.chunk)'
    BY <1>4, ChunkStays DEF ReadBy, Honest
  <2> QED BY <1>4, <2>1 DEF ReadBy, SessionsStay
<1> QED BY <1>1, <1>2, <1>3, <1>4

-------------------------------------------------------------------------------
(* Steps of the commands. *)

Pushes == [Request -> [at: {"free", "open", "ok", "refused"}, chunk: Chunk \cup {Nothing}]]

\* What the machines may record.
WellKnown(k) ==
    /\ k \in [Machine -> SUBSET Chunk]
    /\ \A n \in Machine : Ids(k[n]) \subseteq Ids(Stored)
    /\ \A n \in Machine : \A c \in k[n] : Honest(c) /\ Arrived(n, c)

\* A step of the command of one machine.
LEMMA CommandStep ==
    ASSUME ChunkIInv, NEW m \in Machine, NEW j \in Commands,
           command' = [command EXCEPT ![m] = j], UNCHANGED <<journal, shown, removed, stored>>,
           j.rows \subseteq Rows(m), ReadBy(m, j),
           j.at \in {"record", "ack"} => IdOf(j.chunk) \in Ids(Stored),
           push' \in Pushes, HonestChunks', Waiting',
           acked' \in [Machine -> SUBSET Nat],
           \A n \in Machine : acked'[n] \subseteq Rows(n),
           WellKnown(known')
    PROVE  ChunkIInv'
<1>1. Stored' = Stored /\ Commands' = Commands
  BY DEF Stored, Commands
<1>2. \A n \in Machine : command'[n] = IF n = m THEN j ELSE command[n]
  BY DEF ChunkIInv, ChunkTypeOK
<1>3. command' \in [Machine -> Commands']
  BY <1>1 DEF ChunkIInv, ChunkTypeOK
<1>4. \A n \in Machine : /\ Len(journal'[n]) <= MaxRows /\ Rows(n)' = Rows(n)
                         /\ acked'[n] \cup command'[n].rows \subseteq Rows(n)'
                         /\ Ids(known'[n]) \subseteq Ids(Stored)'
                         /\ command'[n].at \in {"record", "ack"} =>
                                IdOf(command'[n].chunk) \in Ids(Stored)'
  BY <1>1, <1>2 DEF ChunkIInv, ChunkTypeOK, Rows, WellKnown, Ids
<1>5. ChunkTypeOK'
  BY <1>1, <1>3, <1>4 DEF ChunkIInv, ChunkTypeOK, Pushes, WellKnown
<1>6. Journaled' /\ Satisfied'
  BY <1>1 DEF ChunkIInv, Journaled, Satisfied, Rows, Had, SessionsIn
<1>7. Read'
  BY <1>2 DEF ChunkIInv, Read, ReadBy, Had, Honest, Rows, Upserted, About
<1>8. Imported'
  BY DEF WellKnown, Imported, Arrived, About, Upserted, Synthesized, Had
<1> QED BY <1>5, <1>6, <1>7, <1>8 DEF ChunkIInv

\* One that does not wait afterwards, and leaves the pushes alone.
LEMMA QuietStep ==
    ASSUME ChunkIInv, NEW m \in Machine, NEW j \in Commands,
           command' = [command EXCEPT ![m] = j], UNCHANGED <<journal, shown, removed, logVars>>,
           j.rows \subseteq Rows(m), ReadBy(m, j), j.at # "wait",
           j.at \in {"record", "ack"} => IdOf(j.chunk) \in Ids(Stored),
           acked' \in [Machine -> SUBSET Nat],
           \A n \in Machine : acked'[n] \subseteq Rows(n),
           WellKnown(known')
    PROVE  ChunkIInv'
<1>1. push' \in Pushes /\ UNCHANGED <<stored, push>> /\ Stored' = Stored
  BY DEF ChunkIInv, ChunkTypeOK, Pushes, logVars, Stored
<1>2. HonestChunks'
  <2>1. \A c \in Made' : c \in Made \/ \E n \in Machine : c \in known'[n]
    BY <1>1 DEF Made
  <2>2. \A c \in Made' : c \in Chunk /\ Honest(c)
    BY <2>1 DEF ChunkIInv, HonestChunks, WellKnown
  <2> QED BY <2>2 DEF HonestChunks, Honest, Rows, Upserted, About
<1>3. \A n \in Machine : command'[n] = IF n = m THEN j ELSE command[n]
  BY DEF ChunkIInv, ChunkTypeOK
<1>4. Waiting'
  BY <1>1, <1>3 DEF ChunkIInv, Waiting
<1> QED BY <1>1, <1>2, <1>4, CommandStep

\* What the invariant says of acks and of records of chunks, as QuietStep needs it.
LEMMA Kept ==
    ASSUME ChunkIInv
    PROVE  /\ acked \in [Machine -> SUBSET Nat] /\ WellKnown(known)
           /\ \A n \in Machine : acked[n] \subseteq Rows(n)
           /\ \A n \in Machine : /\ command[n] \in Commands /\ command[n].rows \subseteq Rows(n)
                                 /\ ReadBy(n, command[n])
                                 /\ command[n].at \in {"record", "ack"} =>
                                        IdOf(command[n].chunk) \in Ids(Stored)
<1>1. \A n \in Machine : \A c \in known[n] : Honest(c)
  BY DEF ChunkIInv, HonestChunks, Made
<1> QED BY <1>1 DEF ChunkIInv, ChunkTypeOK, Imported, Read, WellKnown

\* A command that is over, or imports, has read nothing and acks nothing.
LEMMA ImportStep ==
    ASSUME ChunkIInv, NEW m \in Machine, NEW j \in Commands, j.at \in {"idle", "import"},
           j.rows \subseteq Rows(m), command' = [command EXCEPT ![m] = j],
           UNCHANGED <<logVars, journal, acked, shown, removed, known>>
    PROVE  ChunkIInv'
<1>1. ReadBy(m, j) /\ j.at # "wait" /\ j.at \notin {"record", "ack"}
  BY DEF ReadBy
<1> QED BY <1>1, Kept, QuietStep

LEMMA IdleForm == Idle \in Commands /\ Idle.at = "idle" /\ Idle.rows = {}
BY DEF Idle, Commands

LEMMA EndEarlyStep ==
    ASSUME ChunkIInv, NEW m \in Machine, EndEarly(m) PROVE ChunkIInv'
BY IdleForm, ImportStep DEF EndEarly

LEMMA ImportForm ==
    ASSUME NEW T, T \subseteq Stored
    PROVE  LET j == [Idle EXCEPT !.at = "import", !.todo = T]
           IN  j \in Commands /\ j.at = "import" /\ j.rows = {}
BY DEF Idle, Commands

LEMMA StartImportStep ==
    ASSUME ChunkIInv, NEW m \in Machine, StartImport(m) PROVE ChunkIInv'
<1> DEFINE todo == {c \in Stored : IdOf(c) \notin Ids(known[m])}
           j == [Idle EXCEPT !.at = "import", !.todo = todo]
<1>1. j \in Commands /\ j.at = "import" /\ j.rows = {}
  BY ImportForm
<1>2. command' = [command EXCEPT ![m] = j] /\ UNCHANGED <<logVars, journal, acked, shown, removed, known>>
  BY DEF StartImport
<1> HIDE DEF j
<1> QED BY <1>1, <1>2, ImportStep

LEMMA EndPassStep ==
    ASSUME ChunkIInv, NEW m \in Machine, EndPass(m) PROVE ChunkIInv'
<1> DEFINE again == [Idle EXCEPT !.at = "import", !.todo = command[m].deferred]
<1>1. command[m].deferred \subseteq Stored
  BY Kept DEF Commands
<1>2. again \in Commands /\ again.at = "import" /\ again.rows = {}
  BY <1>1, ImportForm
<1> HIDE DEF again
<1>3. PICK j \in {again, Idle} : command' = [command EXCEPT ![m] = j]
  BY DEF EndPass, again
<1>4. j \in Commands /\ j.at \in {"idle", "import"} /\ j.rows \subseteq Rows(m)
  BY <1>2, IdleForm
<1>5. UNCHANGED <<logVars, journal, acked, shown, removed, known>>
  BY DEF EndPass
<1> QED BY <1>3, <1>4, <1>5, ImportStep

LEMMA DeferStep ==
    ASSUME ChunkIInv, NEW m \in Machine, DeferChunk(m) PROVE ChunkIInv'
<1>1. PICK c \in command[m].todo :
          command' = [command EXCEPT ![m].todo = @ \ {c}, ![m].deferred = @ \cup {c}]
  BY DEF DeferChunk
<1> DEFINE j == [command[m] EXCEPT !.todo = @ \ {c}, !.deferred = @ \cup {c}]
<1>2. command[m] \in Commands /\ command[m].at = "import" /\ command[m].rows \subseteq Rows(m)
  BY Kept DEF DeferChunk, Import
<1>3. j \in Commands /\ j.at = "import" /\ j.rows \subseteq Rows(m)
  BY <1>2 DEF Commands
<1>4. /\ command' = [command EXCEPT ![m] = j]
      /\ UNCHANGED <<logVars, journal, acked, shown, removed, known>>
  BY <1>1 DEF DeferChunk, ChunkIInv, ChunkTypeOK
<1> HIDE DEF j
<1> QED BY <1>3, <1>4, ImportStep

LEMMA ReadForExportStep ==
    ASSUME ChunkIInv, NEW m \in Machine, ReadForExport(m) PROVE ChunkIInv'
<1> DEFINE X == Ids(Stored \cup known[m])
           j == [Idle EXCEPT !.at = "list", !.exists = X, !.data = shown[m]]
<1>1. X \subseteq Ids(Stored) /\ shown[m] \in [Entity -> States]
  <2>1. Ids(known[m]) \subseteq Ids(Stored) /\ shown[m] \in [Entity -> States]
    BY DEF ChunkIInv, ChunkTypeOK
  <2> QED BY <2>1 DEF Ids
<1>2. j \in Commands /\ j.at = "list" /\ j.data = shown[m] /\ j.rows = {}
  BY <1>1 DEF Idle, Commands
<1>3. /\ command' = [command EXCEPT ![m] = j]
      /\ UNCHANGED <<logVars, journal, acked, shown, removed, known>>
  BY DEF ReadForExport
<1> HIDE DEF j, X
<1>4. ReadBy(m, j)
  BY <1>1, <1>2 DEF ReadBy, Had
<1> QED BY <1>2, <1>3, <1>4, Kept, QuietStep

LEMMA AutosyncStep ==
    ASSUME ChunkIInv, NEW m \in Machine, Autosync(m) PROVE ChunkIInv'
<1>1. PICK last \in Pending(m) : Ack(m, {i \in Pending(m) : i <= last})
  BY DEF Autosync
<1> DEFINE taken == {i \in Pending(m) : i <= last}
<1>2. taken \subseteq Rows(m) /\ Rows(m) \subseteq Nat
  <2>1. Rows(m) = 1..Len(journal[m]) /\ Len(journal[m]) \in Nat
    BY LenProperties DEF Rows, ChunkIInv, ChunkTypeOK
  <2> QED BY <2>1 DEF Pending
<1>3. acked' = [acked EXCEPT ![m] = @ \cup taken]
  BY <1>1 DEF Ack
<1> HIDE DEF taken
<1>4. acked' \in [Machine -> SUBSET Nat] /\ \A n \in Machine : acked'[n] \subseteq Rows(n)
  BY <1>2, <1>3, Kept
<1>5. UNCHANGED <<stored, push, journal, shown, removed, known, command>>
  BY DEF Autosync, logVars
<1>6. Stored' = Stored /\ Commands' = Commands /\ Made' = Made
  BY <1>5 DEF Stored, Commands, Made
<1>7. ChunkTypeOK'
  BY <1>4, <1>5, <1>6 DEF ChunkIInv, ChunkTypeOK, Rows
<1>8. HonestChunks'
  BY <1>5, <1>6 DEF ChunkIInv, HonestChunks, Honest, Rows, Upserted, About
<1>9. SessionsStay /\ Grown
  BY <1>5 DEF SessionsStay, Grown, Had, Rows
<1>10. Journaled' /\ Waiting' /\ Satisfied'
  BY <1>5, <1>6 DEF ChunkIInv, Journaled, Had, Waiting, Satisfied, SessionsIn, Rows
<1>11. Read' /\ Imported'
  BY <1>5, <1>9, KeptBehind DEF ChunkIInv, Read, Imported
<1> QED BY <1>7, <1>8, <1>10, <1>11 DEF ChunkIInv

\* A command that is ready to record or to ack its chunk.
LEMMA ChunkAtHand ==
    ASSUME ChunkIInv, NEW m \in Machine, command[m].at \in {"wait", "record", "ack"}
    PROVE  LET c == command[m].chunk
           IN  /\ c \in Chunk /\ c.from = m /\ c.rows = command[m].rows
               /\ c.rows \subseteq Rows(m) /\ Honest(c) /\ Arrived(m, c)
<1> DEFINE c == command[m].chunk
<1>1. /\ c \in Chunk /\ c.from = m /\ c.rows = command[m].rows /\ Honest(c)
      /\ command[m].rows \subseteq Rows(m)
  BY Kept DEF ReadBy
<1>2. \A x \in DOMAIN c.data \cap Session : Had(m, x)
  BY Kept DEF ReadBy
<1>3. \A x \in About(m, c.rows) : x \in Session => Had(m, x)
  BY <1>1 DEF ChunkIInv, Journaled, About
<1> QED BY <1>1, <1>2, <1>3 DEF Arrived, Synthesized

LEMMA OneMoreKnown ==
    ASSUME WellKnown(known), NEW m \in Machine, NEW c \in Chunk,
           IdOf(c) \in Ids(Stored), Honest(c), Arrived(m, c),
           known' = [known EXCEPT ![m] = @ \cup {c}]
    PROVE  /\ WellKnown(known')
           /\ \A n \in Machine : \A d \in known'[n] : d \in known[n] \/ (n = m /\ d = c)
<1>1. known \in [Machine -> SUBSET Chunk]
  BY DEF WellKnown
<1>2. \A n \in Machine : known'[n] = IF n = m THEN known[m] \cup {c} ELSE known[n]
  BY <1>1
<1>3. known' \in [Machine -> SUBSET Chunk]
  BY <1>1, <1>2
<1>4. \A n \in Machine : Ids(known'[n]) \subseteq Ids(Stored)
  BY <1>2 DEF WellKnown, Ids
<1>5. \A n \in Machine : \A d \in known'[n] : Honest(d) /\ Arrived(n, d)
  BY <1>2 DEF WellKnown
<1> QED BY <1>2, <1>3, <1>4, <1>5 DEF WellKnown

LEMMA RecordStep ==
    ASSUME ChunkIInv, NEW m \in Machine, RecordSyncedChunk(m) PROVE ChunkIInv'
<1> DEFINE j == [command[m] EXCEPT !.at = "ack"]
           c == command[m].chunk
<1>1. command[m].at = "record" /\ known' = [known EXCEPT ![m] = @ \cup {c}]
  BY DEF RecordSyncedChunk
<1>2. /\ command[m] \in Commands /\ command[m].rows \subseteq Rows(m)
      /\ IdOf(c) \in Ids(Stored)
  BY <1>1, Kept
<1>3. /\ j \in Commands /\ j.at = "ack" /\ j.rows = command[m].rows /\ j.chunk = c
  BY <1>2 DEF Commands
<1>4. ReadBy(m, j)
  BY <1>1, <1>3, Kept DEF ReadBy
<1>5. c \in Chunk /\ Honest(c) /\ Arrived(m, c)
  BY <1>1, ChunkAtHand
<1>6. /\ command' = [command EXCEPT ![m] = j]
      /\ UNCHANGED <<logVars, journal, acked, shown, removed>>
  BY DEF RecordSyncedChunk, ChunkIInv, ChunkTypeOK
<1> HIDE DEF c, j
<1>7. WellKnown(known')
  BY <1>1, <1>2, <1>5, Kept, OneMoreKnown
<1> QED BY <1>2, <1>3, <1>4, <1>6, <1>7, Kept, QuietStep

LEMMA AckStep ==
    ASSUME ChunkIInv, NEW m \in Machine, AckSyncMutationSeqs(m) PROVE ChunkIInv'
<1> DEFINE rows == command[m].rows
<1>1. acked' = [acked EXCEPT ![m] = @ \cup rows]
  BY DEF AckSyncMutationSeqs, Ack
<1>2. rows \subseteq Nat /\ rows \subseteq Rows(m)
  BY Kept DEF Commands
<1> HIDE DEF rows
<1>3. acked' \in [Machine -> SUBSET Nat] /\ \A n \in Machine : acked'[n] \subseteq Rows(n)
  BY <1>1, <1>2, Kept
<1>4. ReadBy(m, Idle)
  BY IdleForm DEF ReadBy
<1>5. command' = [command EXCEPT ![m] = Idle] /\ UNCHANGED <<logVars, journal, shown, removed, known>>
  BY DEF AckSyncMutationSeqs
<1> QED BY <1>3, <1>4, <1>5, IdleForm, Kept, QuietStep

\* The chunk made of the pending rows and of what was read.
LEMMA ChunkListed ==
    ASSUME ChunkIInv, NEW m \in Machine, command[m].at = "list",
           NEW c, c = ChunkOf(m, Pending(m), command[m].data)
    PROVE  /\ c \in Chunk /\ c.from = m /\ c.rows = Pending(m) /\ Honest(c)
           /\ \A x \in DOMAIN c.data \cap Session : Had(m, x)
<1> DEFINE rows == Pending(m)
           data == command[m].data
<1>1. rows \subseteq Rows(m) /\ Rows(m) \subseteq Nat
  <2>1. Rows(m) = 1..Len(journal[m]) /\ Len(journal[m]) \in Nat
    BY LenProperties DEF Rows, ChunkIInv, ChunkTypeOK
  <2> QED BY <2>1 DEF Pending
<1>2. \A i \in rows : journal[m][i].entity \in Entity
  <2>1. journal[m] \in Seq([entity: Entity, op: Ops]) /\ DOMAIN journal[m] = 1..Len(journal[m])
    BY LenProperties DEF ChunkIInv, ChunkTypeOK
  <2>2. \A i \in 1..Len(journal[m]) : journal[m][i] \in [entity: Entity, op: Ops]
    BY <2>1, ElementOfSeq
  <2>3. rows \subseteq 1..Len(journal[m])
    BY <1>1, <2>1 DEF Rows
  <2> QED BY <2>2, <2>3
<1>3. /\ data \in [Entity -> States]
      /\ \A x \in Session : data[x] # Nothing => Had(m, x)
  BY Kept DEF ReadBy
<1>4. c = ChunkOf(m, rows, data)
  OBVIOUS
<1> HIDE DEF rows, data
<1>5. /\ c \in Chunk /\ c.from = m /\ c.rows = rows
      /\ \A x \in DOMAIN c.data : data[x] # Nothing
      /\ \A o \in Upserted(m, rows) \cap Observation : SessionOf[o] \in c.needs
  BY <1>1, <1>2, <1>3, <1>4, ChunkOfTyped
<1> QED BY <1>1, <1>3, <1>5 DEF Honest, rows

Going(at, R, c, r) == [Idle EXCEPT !.at = at, !.rows = R, !.chunk = c, !.request = r]

LEMMA GoForm ==
    ASSUME NEW R \in SUBSET Nat, NEW c \in Chunk, NEW r \in Request \cup {Nothing},
           NEW at \in {"wait", "record"}, NEW j, j = Going(at, R, c, r)
    PROVE  j \in Commands /\ j.at = at /\ j.rows = R /\ j.chunk = c /\ j.request = r
BY DEF Going, Idle, Commands

LEMMA ListAndPushStep ==
    ASSUME ChunkIInv, NEW m \in Machine, ListAndPush(m) PROVE ChunkIInv'
<1> DEFINE rows == Pending(m)
           chunk == ChunkOf(m, rows, command[m].data)
<1>1. command[m].at = "list" /\ UNCHANGED <<journal, acked, shown, removed, known>>
  BY DEF ListAndPush
<1>2. /\ chunk \in Chunk /\ chunk.from = m /\ chunk.rows = rows /\ Honest(chunk)
      /\ \A x \in DOMAIN chunk.data \cap Session : Had(m, x)
  BY <1>1, ChunkListed
<1>3. rows \subseteq Nat /\ rows \subseteq Rows(m)
  BY <1>2 DEF Chunk, Pending
<1>4. ASSUME NEW at \in {"wait", "record"}, NEW r \in Request \cup {Nothing},
             NEW j, j = Going(at, rows, chunk, r)
      PROVE  /\ j \in Commands /\ j.at = at /\ j.rows = rows /\ j.chunk = chunk
             /\ j.request = r /\ ReadBy(m, j)
  <2> HIDE DEF rows, chunk
  <2>1. rows \in SUBSET Nat /\ chunk \in Chunk /\ j = Going(at, rows, chunk, r)
    BY <1>2, <1>3, <1>4
  <2>2. j \in Commands /\ j.at = at /\ j.rows = rows /\ j.chunk = chunk /\ j.request = r
    BY <2>1, GoForm
  <2> QED BY <1>2, <2>2 DEF ReadBy
<1>5. CASE rows = {} /\ command' = [command EXCEPT ![m] = Idle] /\ UNCHANGED logVars
  BY <1>1, <1>5, IdleForm, ImportStep
<1>6. CASE /\ IdOf(chunk) \in command[m].exists /\ UNCHANGED logVars
           /\ command' = [command EXCEPT ![m] = Going("record", rows, chunk, Nothing)]
  <2>1. IdOf(chunk) \in Ids(Stored)
    BY <1>6, Kept DEF Commands
  <2> DEFINE j == Going("record", rows, chunk, Nothing)
  <2>2. j = Going("record", rows, chunk, Nothing) /\ command' = [command EXCEPT ![m] = j]
    BY <1>6
  <2> HIDE DEF rows, chunk, j
  <2>3. j \in Commands /\ j.at = "record" /\ j.rows = rows /\ j.chunk = chunk /\ ReadBy(m, j)
    BY <1>4, <2>2
  <2>4. UNCHANGED <<journal, shown, removed, logVars>> /\ acked' = acked /\ known' = known
    BY <1>1, <1>6
  <2> QED BY <1>3, <2>1, <2>2, <2>3, <2>4, Kept, QuietStep
<1>7. ASSUME NEW r \in Request, Offer(r, chunk),
             command' = [command EXCEPT ![m] = Going("wait", rows, chunk, r)]
      PROVE  ChunkIInv'
  <2> HIDE DEF rows, chunk
  <2>1. /\ push[r].at = "free" /\ stored' = stored
        /\ push' = [push EXCEPT ![r] = [at |-> "open", chunk |-> chunk]]
    BY <1>7 DEF Offer
  <2>2. push' \in Pushes
    BY <1>2, <2>1 DEF ChunkIInv, ChunkTypeOK, Pushes
  <2>3. \A q \in Request : push'[q] = IF q = r THEN [at |-> "open", chunk |-> chunk] ELSE push[q]
    BY <2>1 DEF ChunkIInv, ChunkTypeOK
  <2>4. Stored' = Stored /\ Made' \subseteq Made \cup {chunk}
    BY <1>1, <2>1, <2>3 DEF Stored, Made
  <2>5. HonestChunks'
    <3>1. \A c \in Made \cup {chunk} : c \in Chunk /\ Honest(c)
      BY <1>2 DEF ChunkIInv, HonestChunks
    <3>2. \A c : Honest(c) => Honest(c)'
      BY <1>1 DEF Honest, Rows, Upserted, About
    <3> QED BY <2>4, <3>1, <3>2 DEF HonestChunks
  <2> DEFINE j == Going("wait", rows, chunk, r)
  <2>6. /\ j \in Commands /\ j.at = "wait" /\ j.rows = rows /\ j.chunk = chunk
        /\ j.request = r /\ ReadBy(m, j)
    BY <1>4
  <2>7. command' = [command EXCEPT ![m] = j]
    BY <1>7
  <2> HIDE DEF j
  <2>8. \A n \in Machine : command'[n] = IF n = m THEN j ELSE command[n]
    BY <2>7 DEF ChunkIInv, ChunkTypeOK
  <2>9. Waiting'
    BY <2>1, <2>3, <2>4, <2>6, <2>8 DEF ChunkIInv, Waiting
  <2> QED BY <1>1, <1>3, <2>1, <2>2, <2>5, <2>6, <2>7, <2>9, Kept, CommandStep
<1> QED BY <1>5, <1>6, <1>7 DEF ListAndPush, Going

-------------------------------------------------------------------------------
(* Steps that change what a machine shows. *)

\* A journal grows by one row.
LEMMA AppendRow ==
    ASSUME ChunkIInv, NEW m \in Machine, NEW row \in [entity: Entity, op: Ops],
           Len(journal[m]) < MaxRows, journal' = [journal EXCEPT ![m] = Append(@, row)]
    PROVE  /\ journal' \in [Machine -> Seq([entity: Entity, op: Ops])] /\ Grown
           /\ \A n \in Machine : Len(journal'[n]) <= MaxRows
           /\ \A n \in Machine : \A i \in Rows(n)' :
                  i \in Rows(n) \/ (n = m /\ journal'[n][i] = row)
<1>1. /\ journal \in [Machine -> Seq([entity: Entity, op: Ops])]
      /\ \A n \in Machine : Len(journal[n]) <= MaxRows
  BY DEF ChunkIInv, ChunkTypeOK
<1>2. \A n \in Machine : journal'[n] = IF n = m THEN Append(journal[m], row) ELSE journal[n]
  BY <1>1
<1> DEFINE old == journal[m]
           new == Append(old, row)
<1>3. /\ old \in Seq([entity: Entity, op: Ops]) /\ Len(old) \in Nat
      /\ DOMAIN old = 1..Len(old)
  BY <1>1, LenProperties
<1>4. /\ new \in Seq([entity: Entity, op: Ops]) /\ Len(new) = Len(old) + 1
      /\ \A i \in 1..Len(old) : new[i] = old[i]
      /\ new[Len(old) + 1] = row /\ DOMAIN new = 1..Len(new)
  BY <1>3, AppendProperties, LenProperties
<1>5. Len(old) < MaxRows
  OBVIOUS
<1>6. \A n \in Machine : journal'[n] = IF n = m THEN new ELSE journal[n]
  BY <1>2
<1> HIDE DEF old, new
<1>7. DOMAIN new = DOMAIN old \cup {Len(old) + 1} /\ Len(new) <= MaxRows
  BY <1>3, <1>4, <1>5, BoundsAssumption
<1>8. old = journal[m]
  BY DEF old
<1>9. journal' \in [Machine -> Seq([entity: Entity, op: Ops])]
  BY <1>1, <1>4, <1>6
<1>10. Grown
  BY <1>3, <1>4, <1>6, <1>7, <1>8 DEF Grown, Rows
<1>11. \A n \in Machine : Len(journal'[n]) <= MaxRows
  BY <1>1, <1>6, <1>7
<1>12. \A n \in Machine : \A i \in Rows(n)' :
          i \in Rows(n) \/ (n = m /\ journal'[n][i] = row)
  BY <1>4, <1>6, <1>7, <1>8 DEF Rows
<1> QED BY <1>9, <1>10, <1>11, <1>12

LEMMA EnqueueStep ==
    ASSUME ChunkIInv, NEW m \in Machine, NEW e \in Entity, NEW op \in Ops,
           Enqueue(m, e, op), e \in Session => op = "upsert"
    PROVE  ChunkIInv'
<1> DEFINE row == [entity |-> e, op |-> op]
           now == IF op = "hard delete" THEN Nothing ELSE op
<1>1. /\ Len(journal[m]) < MaxRows /\ journal' = [journal EXCEPT ![m] = Append(@, row)]
      /\ shown' = [shown EXCEPT ![m][e] = now]
      /\ UNCHANGED <<stored, push, acked, removed, known, command>>
  BY DEF Enqueue, RoomForRow, logVars
<1>2. row \in [entity: Entity, op: Ops] /\ row.entity = e /\ row.op = op
  OBVIOUS
<1>3. now \in States /\ (e \in Session => now # Nothing)
  BY NothingAssumption DEF States, Ops
<1> HIDE DEF row, now
<1>4. /\ journal' \in [Machine -> Seq([entity: Entity, op: Ops])] /\ Grown
      /\ \A n \in Machine : Len(journal'[n]) <= MaxRows
      /\ \A n \in Machine : \A i \in Rows(n)' :
             i \in Rows(n) \/ (n = m /\ journal'[n][i] = row)
  BY <1>1, <1>2, AppendRow
<1>5. /\ shown \in [Machine -> [Entity -> States]]
      /\ \A n \in Machine : \A x \in Entity :
             shown'[n][x] = IF n = m /\ x = e THEN now ELSE shown[n][x]
  BY <1>1 DEF ChunkIInv, ChunkTypeOK
<1>6. shown' \in [Machine -> [Entity -> States]]
  BY <1>1, <1>3, <1>5
<1>7. SessionsStay
  BY <1>1, <1>3, <1>5, EntityTypes DEF SessionsStay, Had
<1>8. Stored' = Stored /\ Commands' = Commands /\ Made' = Made
  BY <1>1 DEF Stored, Commands, Made
<1>9. ChunkTypeOK'
  <2>1. \A n \in Machine : /\ acked[n] \cup command[n].rows \subseteq Rows(n)'
                           /\ Ids(known[n]) \subseteq Ids(Stored)'
    BY <1>4, <1>8 DEF Grown, ChunkIInv, ChunkTypeOK, Ids
  <2> QED BY <1>1, <1>4, <1>6, <1>8, <2>1 DEF ChunkIInv, ChunkTypeOK
<1>10. Journaled'
  <2> SUFFICES ASSUME NEW n \in Machine, NEW i \in Rows(n)', journal'[n][i].entity \in Session
               PROVE  (journal[n][i].op = "upsert" /\ Had(n, journal[n][i].entity))'
    BY DEF Journaled
  <2>1. CASE i \in Rows(n)
    <3>1. journal'[n][i] = journal[n][i]
      BY <1>4, <2>1 DEF Grown
    <3>2. journal[n][i].op = "upsert" /\ Had(n, journal[n][i].entity)
      BY <2>1, <3>1 DEF ChunkIInv, Journaled
    <3>3. Had(n, journal[n][i].entity)'
      <4> DEFINE x == journal[n][i].entity
      <4>1. x' = x /\ x \in Session /\ Had(n, x)
        BY <3>1, <3>2
      <4> HIDE DEF x
      <4> QED BY <1>7, <4>1 DEF SessionsStay, Had, x
    <3> QED BY <3>1, <3>2, <3>3
  <2>2. CASE n = m /\ journal'[n][i] = row
    BY <1>2, <1>3, <1>5, <2>2 DEF Had
  <2> QED BY <1>4, <2>1, <2>2
<1>11. HonestChunks' /\ Imported' /\ Read'
  BY <1>1, <1>4, <1>7, <1>8, KeptBehind DEF HonestChunks, Imported, Read, ChunkIInv
<1>12. Waiting' /\ Satisfied'
  BY <1>1, <1>8 DEF ChunkIInv, Waiting, Satisfied, SessionsIn
<1> QED BY <1>9, <1>10, <1>11, <1>12 DEF ChunkIInv

LEMMA WriteStep ==
    ASSUME ChunkIInv, NEW m \in Machine, Write(m) PROVE ChunkIInv'
<1>1. ASSUME NEW x \in Session, WriteSession(m, x) PROVE ChunkIInv'
  BY <1>1, EntityTypes, EnqueueStep DEF WriteSession, Ops
<1>2. ASSUME NEW o \in Observation, SaveObservation(m, o) PROVE ChunkIInv'
  <2>1. Enqueue(m, o, "upsert") /\ o \in Entity /\ "upsert" \in Ops
    BY <1>2, EntityTypes DEF SaveObservation, Ops
  <2> QED BY <2>1, EnqueueStep
<1>3. ASSUME NEW o \in Observation, NEW op \in {"delete", "hard delete"},
             DeleteObservation(m, o, op)
      PROVE  ChunkIInv'
  <2>1. Enqueue(m, o, op) /\ o \in Entity /\ op \in Ops /\ o \notin Session
    BY <1>3, EntityTypes, RecordsAssumption DEF DeleteObservation, Ops
  <2> QED BY <2>1, EnqueueStep
<1> QED BY <1>1, <1>2, <1>3 DEF Write

LEMMA RemoveStep ==
    ASSUME ChunkIInv, NEW m \in Machine, NEW x \in Session, RemoveSession(m, x)
    PROVE  ChunkIInv'
<1>1. /\ shown' = [shown EXCEPT ![m][x] = Nothing]
      /\ removed' = [removed EXCEPT ![m] = @ \cup {x}]
      /\ UNCHANGED <<stored, push, journal, acked, known, command>>
  BY DEF RemoveSession, logVars
<1>2. /\ shown \in [Machine -> [Entity -> States]] /\ removed \in [Machine -> SUBSET Session]
      /\ Nothing \in States /\ x \in Entity
  BY EntityTypes DEF ChunkIInv, ChunkTypeOK
<1>3. /\ shown' \in [Machine -> [Entity -> States]]
      /\ removed' \in [Machine -> SUBSET Session]
  BY <1>1, <1>2
<1>4. SessionsStay
  BY <1>1, <1>2, EntityTypes DEF SessionsStay, Had
<1>5. /\ Stored' = Stored /\ Commands' = Commands /\ Made' = Made
      /\ \A n \in Machine : Rows(n)' = Rows(n)
  BY <1>1 DEF Stored, Commands, Made, Rows
<1>6. Grown
  BY <1>1, <1>5 DEF Grown
<1>7. ChunkTypeOK'
  <2>1. Ids(Stored)' = Ids(Stored)
    BY <1>5 DEF Ids
  <2>2. \A n \in Machine : /\ Len(journal[n]) <= MaxRows
                           /\ acked[n] \cup command[n].rows \subseteq Rows(n)'
                           /\ Ids(known[n]) \subseteq Ids(Stored)'
                           /\ command[n].at \in {"record", "ack"} =>
                                  IdOf(command[n].chunk) \in Ids(Stored)'
    BY <1>5, <2>1 DEF ChunkIInv, ChunkTypeOK
  <2> QED BY <1>1, <1>3, <1>5, <2>2 DEF ChunkIInv, ChunkTypeOK
<1>8. Journaled'
  <2> SUFFICES ASSUME NEW n \in Machine, NEW i \in Rows(n), journal[n][i].entity \in Session
               PROVE  (journal[n][i].op = "upsert" /\ Had(n, journal[n][i].entity))'
    BY <1>1, <1>5 DEF Journaled
  <2>1. journal[n][i].op = "upsert" /\ Had(n, journal[n][i].entity)
    BY DEF ChunkIInv, Journaled
  <2> QED BY <1>1, <1>4, <2>1 DEF SessionsStay, Had
<1>9. HonestChunks' /\ Imported' /\ Read'
  BY <1>1, <1>4, <1>5, <1>6, KeptBehind DEF HonestChunks, Imported, Read, ChunkIInv
<1>10. Waiting' /\ Satisfied'
  BY <1>1, <1>5 DEF ChunkIInv, Waiting, Satisfied, SessionsIn
<1> QED BY <1>7, <1>8, <1>9, <1>10 DEF ChunkIInv

\* What a stored chunk leaves of a record.  It takes no session away, and leaves
\* those it is about and those it synthesizes.
LEMMA AppliedTyped ==
    ASSUME ChunkIInv, NEW m \in Machine, NEW c \in Stored, NEW e \in Entity
    PROVE  /\ Applied(m, c, e) \in States
           /\ e \in Session =>
                /\ shown[m][e] # Nothing => Applied(m, c, e) # Nothing
                /\ e \in About(c.from, c.rows) \cup Synthesized(c) => Applied(m, c, e) # Nothing
<1> DEFINE about == {j \in c.rows : journal[c.from][j].entity = e}
           ops == {journal[c.from][i].op : i \in about}
           then == IF ops = {} THEN IF e \in Synthesized(c) THEN c.data[e] ELSE shown[m][e]
                   ELSE IF "hard delete" \in ops THEN Nothing
                   ELSE IF "delete" \notin ops THEN "upsert"
                   ELSE IF shown[m][e] = Nothing /\ "upsert" \notin ops THEN Nothing
                   ELSE "delete"
<1>1. c \in Chunk /\ c.rows \subseteq Rows(c.from) /\ c.from \in Machine
  BY DEF ChunkIInv, HonestChunks, Made, Honest, Chunk
<1>2. shown[m][e] \in States
  BY DEF ChunkIInv, ChunkTypeOK
<1>3. e \in Synthesized(c) => c.data[e] \in States /\ c.data[e] # Nothing
  <2>1. PICK S \in SUBSET Entity : c.data \in [S -> {"upsert", "delete"}]
    BY <1>1 DEF Chunk
  <2>2. e \in Synthesized(c) => e \in S
    BY <2>1 DEF Synthesized
  <2> QED BY <2>1, <2>2, NothingAssumption DEF States
<1>4. e \in Session => ops \subseteq {"upsert"}
  BY <1>1 DEF ChunkIInv, Journaled
<1>5. e \in About(c.from, c.rows) => ops # {}
  BY DEF About
<1>6. Applied(m, c, e) = then
  BY DEF Applied
<1> HIDE DEF ops
<1>7. then \in States
  BY <1>2, <1>3 DEF States
<1>8. ASSUME e \in Session, shown[m][e] # Nothing PROVE then # Nothing
  BY <1>3, <1>4, <1>8, NothingAssumption
<1>9. ASSUME e \in Session, e \in About(c.from, c.rows) \cup Synthesized(c)
      PROVE  then # Nothing
  BY <1>3, <1>4, <1>5, <1>9, NothingAssumption
<1> QED BY <1>6, <1>7, <1>8, <1>9

LEMMA ApplyStep ==
    ASSUME ChunkIInv, NEW m \in Machine, ApplyPulledChunk(m) PROVE ChunkIInv'
<1>0. PICK c \in command[m].todo :
          /\ shown' = [shown EXCEPT ![m] = [e \in Entity |-> Applied(m, c, e)]]
          /\ known' = [known EXCEPT ![m] = @ \cup {c}]
          /\ command' = [command EXCEPT ![m].todo = @ \ {c}, ![m].progress = TRUE]
  BY DEF ApplyPulledChunk
<1> DEFINE j == [command[m] EXCEPT !.todo = @ \ {c}, !.progress = TRUE]
           applied == [e \in Entity |-> Applied(m, c, e)]
<1>1. /\ Import(m) /\ UNCHANGED <<stored, push, journal, acked, removed>>
      /\ shown' = [shown EXCEPT ![m] = applied]
      /\ known' = [known EXCEPT ![m] = @ \cup {c}]
      /\ command' = [command EXCEPT ![m] = j]
  BY <1>0 DEF ApplyPulledChunk, logVars, ChunkIInv, ChunkTypeOK
<1>2. c \in Stored /\ c \in Chunk /\ Honest(c)
  <2>1. c \in Stored
    BY Kept DEF Commands
  <2> QED BY <2>1 DEF ChunkIInv, HonestChunks, Made
<1>3. command[m] \in Commands /\ command[m].at = "import" /\ command[m].rows \subseteq Rows(m)
  BY <1>1, Kept DEF Import
<1>4. j \in Commands /\ j.at = "import" /\ j.rows \subseteq Rows(m)
  BY <1>3 DEF Commands
<1> HIDE DEF j
<1>5. applied \in [Entity -> States]
  BY <1>2, AppliedTyped
<1>6. /\ \A x \in Session : shown[m][x] # Nothing => applied[x] # Nothing
      /\ \A x \in Session : x \in About(c.from, c.rows) \cup Synthesized(c) =>
             applied[x] # Nothing
  BY <1>2, AppliedTyped, EntityTypes
<1> HIDE DEF applied
<1>7. /\ shown' \in [Machine -> [Entity -> States]]
      /\ \A n \in Machine : shown'[n] = IF n = m THEN applied ELSE shown[n]
  BY <1>1, <1>5 DEF ChunkIInv, ChunkTypeOK
<1>8. SessionsStay /\ Grown
  BY <1>1, <1>6, <1>7 DEF SessionsStay, Grown, Had, Rows
<1>9. /\ \A n \in Machine : Ids(known'[n]) \subseteq Ids(Stored)
      /\ known' \in [Machine -> SUBSET Chunk]
      /\ \A n \in Machine : \A d \in known'[n] : d \in known[n] \/ (n = m /\ d = c)
  BY <1>1, <1>2, Kept DEF WellKnown, Ids
<1>10. /\ Stored' = Stored /\ Commands' = Commands /\ Made' \subseteq Made
       /\ \A n \in Machine : Rows(n)' = Rows(n)
  <2>1. Made' \subseteq Made
    BY <1>1, <1>2, <1>9 DEF Stored, Made
  <2> QED BY <1>1, <2>1 DEF Stored, Commands, Rows
<1>11. \A n \in Machine : command'[n] = IF n = m THEN j ELSE command[n]
  BY <1>1 DEF ChunkIInv, ChunkTypeOK
<1>12. ChunkTypeOK'
  <2>1. command' \in [Machine -> Commands]
    BY <1>1, <1>4 DEF ChunkIInv, ChunkTypeOK
  <2>2. \A n \in Machine : /\ acked[n] \cup command'[n].rows \subseteq Rows(n)
                           /\ command'[n].at \in {"record", "ack"} =>
                                  IdOf(command'[n].chunk) \in Ids(Stored)
    BY <1>4, <1>11, Kept
  <2>3. /\ journal \in [Machine -> Seq([entity: Entity, op: Ops])]
        /\ acked \in [Machine -> SUBSET Nat] /\ removed \in [Machine -> SUBSET Session]
        /\ Stored \subseteq Chunk /\ stored \in [Stored -> SUBSET Stored] /\ push \in Pushes
        /\ \A n \in Machine : Len(journal[n]) <= MaxRows
    BY DEF ChunkIInv, ChunkTypeOK, Pushes
  <2>4. Ids(Stored)' = Ids(Stored)
    BY <1>10 DEF Ids
  <2>5. \A n \in Machine :
          /\ Len(journal'[n]) <= MaxRows
          /\ acked'[n] \cup command'[n].rows \subseteq Rows(n)'
          /\ Ids(known'[n]) \subseteq Ids(Stored)'
          /\ command'[n].at \in {"record", "ack"} =>
                 IdOf(command'[n].chunk) \in Ids(Stored)'
    <3> SUFFICES ASSUME NEW n \in Machine
                 PROVE  /\ Len(journal'[n]) <= MaxRows
                        /\ acked'[n] \cup command'[n].rows \subseteq Rows(n)'
                        /\ Ids(known'[n]) \subseteq Ids(Stored)'
                        /\ command'[n].at \in {"record", "ack"} =>
                               IdOf(command'[n].chunk) \in Ids(Stored)'
      OBVIOUS
    <3>1. Len(journal'[n]) <= MaxRows
      BY <1>1, <2>3
    <3>2. acked'[n] \cup command'[n].rows \subseteq Rows(n)'
      BY <1>1, <1>10, <2>2
    <3>3. Ids(known'[n]) \subseteq Ids(Stored)'
      BY <1>9, <2>4
    <3>4. command'[n].at \in {"record", "ack"} => IdOf(command'[n].chunk) \in Ids(Stored)'
      BY <2>2, <2>4
    <3> QED BY <3>1, <3>2, <3>3, <3>4
  <2> QED BY <1>1, <1>7, <1>10, <1>9, <2>1, <2>3, <2>5 DEF ChunkTypeOK, Pushes
<1>13. Journaled'
  <2> SUFFICES ASSUME NEW n \in Machine, NEW i \in Rows(n), journal[n][i].entity \in Session
               PROVE  (journal[n][i].op = "upsert" /\ Had(n, journal[n][i].entity))'
    BY <1>1, <1>10 DEF Journaled
  <2>1. journal[n][i].op = "upsert" /\ Had(n, journal[n][i].entity)
    BY DEF ChunkIInv, Journaled
  <2> QED BY <1>1, <1>8, <2>1 DEF SessionsStay, Had
<1>14. HonestChunks'
  BY <1>8, <1>10, KeptBehind DEF HonestChunks
<1>15. Read'
  <2> SUFFICES ASSUME NEW n \in Machine PROVE ReadBy(n, command[n])'
    BY DEF Read
  <2>1. CASE n = m
    BY <1>4, <1>11, <2>1 DEF ReadBy
  <2>2. CASE n # m
    BY <1>8, <1>11, <2>2, Kept, KeptBehind
  <2> QED BY <2>1, <2>2
<1>16. Waiting'
  BY <1>1, <1>4, <1>10, <1>11 DEF ChunkIInv, Waiting
<1>17. Satisfied'
  BY <1>1, <1>10 DEF ChunkIInv, Satisfied, SessionsIn
<1>18. Imported'
  <2> SUFFICES ASSUME NEW n \in Machine, NEW d \in known'[n] PROVE Arrived(n, d)'
    BY DEF Imported
  <2>1. CASE d \in known[n]
    BY <1>8, <2>1, KeptBehind
  <2>2. CASE n = m /\ d = c
    <3>1. /\ About(d.from, d.rows)' = About(d.from, d.rows)
          /\ Synthesized(d)' = Synthesized(d)
      BY <1>1 DEF About, Synthesized, Upserted
    <3> QED BY <1>6, <1>7, <2>2, <3>1 DEF Arrived, Had
  <2> QED BY <1>9, <2>1, <2>2
<1> QED BY <1>12, <1>13, <1>14, <1>15, <1>16, <1>17, <1>18 DEF ChunkIInv

-------------------------------------------------------------------------------
(* Steps of the server, and the answer. *)

\* The server works at the requests there are, and the manifest grows by their chunks.
LEMMA LogStep ==
    ASSUME ChunkIInv, UNCHANGED machineVars, push' \in Pushes,
           stored' \in [Stored' -> SUBSET Stored'],
           Stored \subseteq Stored', Stored' \subseteq Made, Satisfied',
           \A r \in Request : /\ push'[r].at = "free" <=> push[r].at = "free"
                              /\ push'[r].chunk = push[r].chunk
                              /\ push'[r].at = "ok" => push[r].chunk \in Stored'
    PROVE  ChunkIInv'
<1>1. /\ UNCHANGED <<journal, acked, shown, removed, known, command>>
      /\ Ids(Stored) \subseteq Ids(Stored)' /\ Stored' \subseteq Chunk
  BY DEF machineVars, Ids, ChunkIInv, HonestChunks
<1>2. \A n \in Machine : Rows(n)' = Rows(n)
  BY <1>1 DEF Rows
<1>3. Made' \subseteq Made
  BY <1>1 DEF Made
<1>4. ChunkTypeOK'
  <2>1. Commands \subseteq Commands'
    BY <1>1 DEF Commands
  <2>2. /\ command \in [Machine -> Commands] /\ known \in [Machine -> SUBSET Chunk]
        /\ \A n \in Machine : /\ Ids(known[n]) \subseteq Ids(Stored)
                              /\ command[n].at \in {"record", "ack"} =>
                                     IdOf(command[n].chunk) \in Ids(Stored)
    BY DEF ChunkIInv, ChunkTypeOK
  <2>3. command \in [Machine -> Commands'] /\ known \in [Machine -> SUBSET Chunk]
    BY <2>1, <2>2
  <2>4. /\ journal \in [Machine -> Seq([entity: Entity, op: Ops])]
        /\ shown \in [Machine -> [Entity -> States]] /\ acked \in [Machine -> SUBSET Nat]
        /\ removed \in [Machine -> SUBSET Session]
        /\ \A n \in Machine : /\ Len(journal[n]) <= MaxRows
                              /\ acked[n] \cup command[n].rows \subseteq Rows(n)
    BY DEF ChunkIInv, ChunkTypeOK
  <2>5. \A n \in Machine :
          /\ Len(journal'[n]) <= MaxRows
          /\ acked'[n] \cup command'[n].rows \subseteq Rows(n)'
          /\ Ids(known'[n]) \subseteq Ids(Stored)'
          /\ command'[n].at \in {"record", "ack"} =>
                 IdOf(command'[n].chunk) \in Ids(Stored)'
    BY <1>1, <1>2, <2>2, <2>4
  <2> QED BY <1>1, <2>3, <2>4, <2>5 DEF ChunkTypeOK, Pushes
<1>5. SessionsStay /\ Grown
  BY <1>1, <1>2 DEF SessionsStay, Grown, Had
<1>6. HonestChunks' /\ Imported' /\ Read'
  BY <1>1, <1>3, <1>5, KeptBehind DEF HonestChunks, Imported, Read, ChunkIInv
<1>7. Journaled'
  BY <1>1, <1>2 DEF ChunkIInv, Journaled, Had
<1>8. Waiting'
  BY <1>1 DEF ChunkIInv, Waiting
<1> QED BY <1>4, <1>6, <1>7, <1>8 DEF ChunkIInv

\* The manifest is as before.
LEMMA SameLog ==
    ASSUME ChunkIInv, stored' = stored
    PROVE  /\ Stored' = Stored /\ Stored \subseteq Made /\ Satisfied'
           /\ stored' \in [Stored' -> SUBSET Stored']
<1>1. Stored' = Stored
  BY DEF Stored
<1>2. Satisfied'
  BY <1>1 DEF ChunkIInv, Satisfied, SessionsIn
<1> QED BY <1>1, <1>2 DEF Made, ChunkIInv, ChunkTypeOK

LEMMA ConfirmStep ==
    ASSUME ChunkIInv, NEW r \in Request, Confirm(r), UNCHANGED machineVars
    PROVE  ChunkIInv'
<1>1. /\ push[r].at = "open" /\ push[r].chunk \in Stored /\ stored' = stored
      /\ push' = [push EXCEPT ![r].at = "ok"] /\ push \in Pushes
  BY DEF Confirm, ChunkIInv, ChunkTypeOK, Pushes
<1>2. /\ push' \in Pushes
      /\ \A q \in Request : /\ push'[q].chunk = push[q].chunk
                            /\ push'[q].at = IF q = r THEN "ok" ELSE push[q].at
  BY <1>1 DEF Pushes
<1>3. /\ Stored' = Stored /\ Stored \subseteq Made /\ Satisfied'
      /\ stored' \in [Stored' -> SUBSET Stored']
  BY <1>1, SameLog
<1>5. \A q \in Request : push'[q].at = "ok" => push[q].chunk \in Stored'
  BY <1>1, <1>2, <1>3 DEF ChunkIInv, Waiting
<1> QED BY <1>1, <1>2, <1>3, <1>5, LogStep

LEMMA RefuseStep ==
    ASSUME ChunkIInv, NEW r \in Request, Refuse({r}), UNCHANGED machineVars
    PROVE  ChunkIInv'
<1>1. /\ push[r].at # "free" /\ stored' = stored /\ push \in Pushes
      /\ push' = [q \in Request |-> IF q = r THEN [push[q] EXCEPT !.at = "refused"] ELSE push[q]]
  BY DEF Refuse, ChunkIInv, ChunkTypeOK, Pushes
<1>2. /\ push' \in Pushes
      /\ \A q \in Request : /\ push'[q].chunk = push[q].chunk
                            /\ push'[q].at = IF q = r THEN "refused" ELSE push[q].at
  BY <1>1 DEF Pushes
<1>3. /\ Stored' = Stored /\ Stored \subseteq Made /\ Satisfied'
      /\ stored' \in [Stored' -> SUBSET Stored']
  BY <1>1, SameLog
<1>5. \A q \in Request : push'[q].at = "ok" => push[q].chunk \in Stored'
  BY <1>2, <1>3 DEF ChunkIInv, Waiting
<1> QED BY <1>1, <1>2, <1>3, <1>5, LogStep

LEMMA AcceptStep ==
    ASSUME ChunkIInv, NEW r \in Request, Accept(r), UNCHANGED machineVars
    PROVE  ChunkIInv'
<1> DEFINE c == push[r].chunk
<1>1. push[r].at = "open" /\ push \in Pushes /\ IdOf(c) \notin Ids(Stored)
  BY DEF Accept, ChunkIInv, ChunkTypeOK, Pushes
<1>2. PICK at \in {"open", "refused"} : push' = [push EXCEPT ![r].at = at]
  BY DEF Accept
<1>3. PICK S \in Beginnings(stored) :
          /\ c.needs \subseteq c.sessions \cup SessionsIn(S)
          /\ stored' = Placed(stored, c, S)
  BY DEF Accept
<1>4. /\ push' \in Pushes
      /\ \A q \in Request : /\ push'[q].chunk = push[q].chunk
                            /\ push'[q].at = IF q = r THEN at ELSE push[q].at
  BY <1>1, <1>2 DEF Pushes
<1>5. c \in Made /\ c \in Chunk /\ c \notin Stored /\ S \subseteq Stored
  <2>1. c \in Made
    BY <1>1 DEF Made
  <2> QED BY <1>1, <1>3, <2>1 DEF ChunkIInv, HonestChunks, Ids, Beginnings, Stored
<1> HIDE DEF c
<1>6. /\ Stored' = Stored \cup {c} /\ stored' \in [Stored' -> SUBSET Stored']
      /\ stored'[c] = S
      /\ \A d \in Stored : stored[d] \subseteq stored'[d]
  <2>1. Stored' = Stored \cup {c}
    BY <1>3 DEF Placed, Stored
  <2>2. stored' = [d \in Stored \cup {c} |->
                     IF d = c THEN S ELSE IF d \in S THEN stored[d] ELSE stored[d] \cup {c}]
    BY <1>3 DEF Placed, Stored
  <2>3. \A d \in Stored : stored[d] \subseteq Stored
    BY DEF ChunkIInv, ChunkTypeOK
  <2> QED BY <1>5, <2>1, <2>2, <2>3
<1>7. Satisfied'
  <2> SUFFICES ASSUME NEW d \in Stored'
               PROVE  d.needs \subseteq d.sessions \cup SessionsIn(stored'[d])
    BY DEF Satisfied, SessionsIn
  <2>1. CASE d = c
    BY <1>3, <1>6, <2>1 DEF c
  <2>2. CASE d \in Stored
    <3>1. d.needs \subseteq d.sessions \cup SessionsIn(stored[d])
      BY <2>2 DEF ChunkIInv, Satisfied
    <3>2. SessionsIn(stored[d]) \subseteq SessionsIn(stored'[d])
      BY <1>6, <2>2 DEF SessionsIn
    <3> QED BY <3>1, <3>2
  <2> QED BY <1>6, <2>1, <2>2
<1>8. Stored' \subseteq Made
  BY <1>5, <1>6 DEF Made
<1>9. \A q \in Request : push'[q].at = "ok" => push[q].chunk \in Stored'
  BY <1>4, <1>6 DEF ChunkIInv, Waiting
<1>10. \A q \in Request : push'[q].at = "free" <=> push[q].at = "free"
  BY <1>1, <1>4
<1> QED BY <1>4, <1>6, <1>7, <1>8, <1>9, <1>10, LogStep

LEMMA HearAnswerStep ==
    ASSUME ChunkIInv, NEW r \in Request, HearAnswer(r) PROVE ChunkIInv'
<1>1. /\ push[r].at \in {"ok", "refused"} /\ push' = [push EXCEPT ![r] = Free]
      /\ UNCHANGED <<stored, journal, acked, shown, removed, known>> /\ push \in Pushes
  BY DEF HearAnswer, Leave, ChunkIInv, ChunkTypeOK, Pushes
<1> DEFINE Hears(n) == command[n].at = "wait" /\ command[n].request = r
           Now(n) == IF ~Hears(n) THEN command[n]
                      ELSE IF push[r].at = "refused" THEN Idle
                      ELSE [command[n] EXCEPT !.at = "record", !.request = Nothing]
<1>2. command' = [n \in Machine |-> Now(n)]
  BY DEF HearAnswer
<1>3. /\ push' \in Pushes
      /\ \A q \in Request : push'[q] = IF q = r THEN Free ELSE push[q]
  BY <1>1 DEF Pushes, Free
<1>4. Stored' = Stored /\ Commands' = Commands /\ \A n \in Machine : Rows(n)' = Rows(n)
  BY <1>1 DEF Stored, Commands, Rows
<1>5. ASSUME NEW n \in Machine
      PROVE  /\ Now(n) \in Commands /\ Now(n).rows \subseteq Rows(n) /\ ReadBy(n, Now(n))
             /\ Now(n).at \in {"record", "ack"} => IdOf(Now(n).chunk) \in Ids(Stored)
             /\ Now(n).at = "wait" => Now(n) = command[n] /\ ~Hears(n)
  <2>1. CASE ~Hears(n)
    BY <2>1, Kept
  <2>2. CASE Hears(n) /\ push[r].at = "refused"
    BY <2>2, IdleForm DEF ReadBy
  <2>3. CASE Hears(n) /\ push[r].at = "ok"
    <3> DEFINE j == [command[n] EXCEPT !.at = "record", !.request = Nothing]
    <3>1. command[n] \in Commands /\ command[n].rows \subseteq Rows(n) /\ ReadBy(n, command[n])
      BY Kept
    <3>2. IdOf(command[n].chunk) \in Ids(Stored)
      BY <2>3 DEF ChunkIInv, Waiting, Ids
    <3>3. /\ j \in Commands /\ j.at = "record" /\ j.rows = command[n].rows
          /\ j.chunk = command[n].chunk
      BY <3>1 DEF Commands
    <3>4. Now(n) = j
      BY <2>3
    <3>5. command[n].at = "wait"
      BY <2>3
    <3> HIDE DEF j, Now
    <3> QED BY <3>1, <3>2, <3>3, <3>4, <3>5 DEF ReadBy
  <2> QED BY <1>1, <2>1, <2>2, <2>3
<1> HIDE DEF Now
<1>6. ChunkTypeOK'
  <2>1. command' \in [Machine -> Commands]
    BY <1>2, <1>5
  <2>2. /\ journal \in [Machine -> Seq([entity: Entity, op: Ops])]
        /\ shown \in [Machine -> [Entity -> States]] /\ acked \in [Machine -> SUBSET Nat]
        /\ removed \in [Machine -> SUBSET Session]
        /\ known \in [Machine -> SUBSET Chunk] /\ Stored \subseteq Chunk
        /\ stored \in [Stored -> SUBSET Stored]
        /\ \A n \in Machine : /\ Len(journal[n]) <= MaxRows /\ acked[n] \subseteq Rows(n)
                              /\ Ids(known[n]) \subseteq Ids(Stored)
    BY DEF ChunkIInv, ChunkTypeOK
  <2>3. \A n \in Machine :
          /\ Len(journal'[n]) <= MaxRows
          /\ acked'[n] \cup command'[n].rows \subseteq Rows(n)'
          /\ Ids(known'[n]) \subseteq Ids(Stored)'
          /\ command'[n].at \in {"record", "ack"} =>
                 IdOf(command'[n].chunk) \in Ids(Stored)'
    BY <1>1, <1>2, <1>4, <1>5, <2>2 DEF Ids
  <2> QED BY <1>1, <1>3, <1>4, <2>1, <2>2, <2>3 DEF ChunkTypeOK, Pushes
<1>7. SessionsStay /\ Grown
  BY <1>1, <1>4 DEF SessionsStay, Grown, Had
<1>8. HonestChunks' /\ Imported'
  <2>1. Made' \subseteq Made
    BY <1>1, <1>3, <1>4 DEF Made, Free
  <2> QED BY <1>1, <1>7, <2>1, KeptBehind DEF HonestChunks, Imported
<1>9. Read'
  BY <1>2, <1>5, <1>7, KeptBehind DEF Read
<1>10. Waiting'
  BY <1>1, <1>2, <1>3, <1>4, <1>5 DEF ChunkIInv, Waiting, Free
<1>11. Journaled' /\ Satisfied'
  BY <1>1, <1>4, SameLog DEF ChunkIInv, Journaled, Had
<1> QED BY <1>6, <1>8, <1>9, <1>10, <1>11 DEF ChunkIInv

-------------------------------------------------------------------------------
\* The initial state satisfies the inductive invariant.
LEMMA InitIInv == ChunkInit => ChunkIInv
<1> SUFFICES ASSUME ChunkInit PROVE ChunkIInv
  OBVIOUS
<1>1. /\ stored = Empty /\ push = [r \in Request |-> Free]
      /\ journal = [m \in Machine |-> <<>>]
      /\ acked = [m \in Machine |-> {}] /\ known = [m \in Machine |-> {}]
      /\ removed = [m \in Machine |-> {}]
      /\ shown = [m \in Machine |-> [e \in Entity |-> Nothing]]
      /\ command = [m \in Machine |-> Idle]
  BY DEF ChunkInit, LogInit
<1>2. /\ Stored = {} /\ stored \in [Stored -> SUBSET Stored]
      /\ <<>> \in Seq([entity: Entity, op: Ops]) /\ Len(<<>>) = 0
      /\ \A m \in Machine : Rows(m) = {}
  BY <1>1, EmptySeq DEF Stored, Empty, Rows
<1>3. push \in Pushes /\ \A r \in Request : push[r].at = "free"
  BY <1>1 DEF Pushes, Free
<1>4. ChunkTypeOK
  <2>1. shown \in [Machine -> [Entity -> States]]
    BY <1>1 DEF States
  <2>2. command \in [Machine -> Commands]
    BY <1>1, IdleForm
  <2>3. \A m \in Machine : /\ Len(journal[m]) <= MaxRows
                           /\ acked[m] \cup command[m].rows \subseteq Rows(m)
                           /\ Ids(known[m]) \subseteq Ids(Stored)
                           /\ command[m].at \notin {"record", "ack"}
    BY <1>1, <1>2, IdleForm, BoundsAssumption DEF Ids
  <2> QED BY <1>1, <1>2, <1>3, <2>1, <2>2, <2>3 DEF ChunkTypeOK, Pushes
<1>5. Journaled /\ Satisfied /\ Imported
  BY <1>1, <1>2 DEF Journaled, Satisfied, Imported
<1>6. HonestChunks
  BY <1>1, <1>2, <1>3 DEF HonestChunks, Made
<1>7. Read /\ Waiting
  BY <1>1, <1>3, IdleForm DEF Read, ReadBy, Waiting
<1> QED BY <1>4, <1>5, <1>6, <1>7 DEF ChunkIInv

\* Every step preserves it.
LEMMA NextIInv == ChunkIInv /\ [ChunkNext]_chunkVars => ChunkIInv'
<1> SUFFICES ASSUME ChunkIInv, [ChunkNext]_chunkVars PROVE ChunkIInv'
  OBVIOUS
<1>1. ASSUME NEW m \in Author, Write(m) \/ Autosync(m) \/ Export(m) PROVE ChunkIInv'
  <2>1. m \in Machine
    BY MachinesAssumption
  <2> QED BY <1>1, <2>1, WriteStep, AutosyncStep, ReadForExportStep, ListAndPushStep,
             RecordStep, AckStep DEF Export
<1>2. ASSUME NEW m \in Importer, ImportChunks(m) PROVE ChunkIInv'
  <2>1. m \in Machine
    BY MachinesAssumption
  <2> QED BY <1>2, <2>1, StartImportStep, ApplyStep, DeferStep, EndPassStep DEF ImportChunks
<1>3. ASSUME NEW m \in Machine, EndEarly(m) PROVE ChunkIInv'
  BY <1>3, EndEarlyStep
<1>4. ASSUME NEW r \in Request, HearAnswer(r) PROVE ChunkIInv'
  BY <1>4, HearAnswerStep
<1>5. ASSUME NEW r \in Request, Accept(r) \/ Confirm(r) \/ Refuse({r}), UNCHANGED machineVars
      PROVE  ChunkIInv'
  BY <1>5, AcceptStep, ConfirmStep, RefuseStep
<1>6. CASE UNCHANGED chunkVars
  <2>1. UNCHANGED machineVars /\ UNCHANGED <<stored, push>>
    BY <1>6 DEF chunkVars, logVars
  <2>2. push \in Pushes /\ \A r \in Request : push[r].at = "ok" => push[r].chunk \in Stored
    BY DEF ChunkIInv, ChunkTypeOK, Pushes, Waiting
  <2> QED BY <2>1, <2>2, SameLog, LogStep
<1>7. ASSUME NEW m \in Remover, NEW x \in Session, RemoveSession(m, x) PROVE ChunkIInv'
  <2>1. m \in Machine
    BY MachinesAssumption
  <2> QED BY <1>7, <2>1, RemoveStep
<1> QED BY <1>1, <1>2, <1>3, <1>4, <1>5, <1>6, <1>7 DEF ChunkNext

LEMMA IInvHolds == ChunkSpec => []ChunkIInv
BY InitIInv, NextIInv, PTL DEF ChunkSpec

\* Journals, chunks and commands have their types: a command acks rows of its own
\* machine only, and an export that goes on has its chunk stored, or one of
\* the same id.
THEOREM ChunkTypeCorrect == ChunkSpec => []ChunkTypeOK
<1>1. ChunkIInv => ChunkTypeOK
  BY DEF ChunkIInv
<1> QED BY <1>1, IInvHolds, PTL

LEMMA ImportFinds == ChunkIInv => ImportNeverStalls
<1> SUFFICES ASSUME ChunkIInv, NEW m \in Machine, NEW c \in Stored,
                    stored[c] \subseteq known[m],
                    ~ \E d \in stored[c] : PassedOver(d) \cap c.needs # {},
                    ~ \E x \in c.needs \cap removed[m] : shown[m][x] = Nothing
             PROVE  Importable(m, c)
  BY DEF ImportNeverStalls
<1> SUFFICES ASSUME NEW o \in Upserted(c.from, c.rows) \cap Observation
             PROVE  shown[m][SessionOf[o]] # Nothing \/ SessionOf[o] \in c.sessions
  BY DEF Importable
<1>1. SessionOf[o] \in c.needs /\ SessionOf[o] \in Session
  BY EntityTypes DEF ChunkIInv, HonestChunks, Honest, Made
<1>2. CASE SessionOf[o] \in c.sessions
  BY <1>2
<1>3. CASE SessionOf[o] \in SessionsIn(stored[c])
  <2>1. PICK d \in stored[c] : SessionOf[o] \in d.sessions
    BY <1>3 DEF SessionsIn
  <2>2. Arrived(m, d)
    BY <2>1 DEF ChunkIInv, Imported
  <2>3. SessionOf[o] \in About(d.from, d.rows) \cup Synthesized(d)
    BY <1>1, <2>1 DEF PassedOver
  <2>4. Had(m, SessionOf[o])
    BY <1>1, <2>2, <2>3 DEF Arrived
  <2> QED BY <1>1, <2>4 DEF Had
<1> QED BY <1>1, <1>2, <1>3 DEF ChunkIInv, Satisfied

\* A machine that has recorded every earlier chunk can apply the next one, unless it
\* needs a session of which there was only data that importers pass over, or that was
\* removed there and is not back.
THEOREM ImportsGoOn == ChunkSpec => []ImportNeverStalls
BY ImportFinds, IInvHolds, PTL

LEMMA AcksInChunks ==
    ChunkIInv /\ [ChunkNext]_chunkVars =>
        [\A m \in Machine :
            \/ \A i \in acked'[m] \ acked[m] : i \in InChunks(m) \cup Mistaken(m)
            \/ Autosync(m)]_chunkVars
<1> SUFFICES ASSUME ChunkIInv, ChunkNext, NEW m \in Machine
             PROVE  \/ \A i \in acked'[m] \ acked[m] : i \in InChunks(m) \cup Mistaken(m)
                    \/ Autosync(m)
  OBVIOUS
<1>1. CASE UNCHANGED acked
  BY <1>1
<1>2. ASSUME NEW n \in Machine, AckSyncMutationSeqs(n)
      PROVE  acked'[m] \ acked[m] \subseteq InChunks(m) \cup Mistaken(m)
  <2>1. /\ command[n].at = "ack" /\ acked \in [Machine -> SUBSET Nat]
        /\ acked' = [acked EXCEPT ![n] = @ \cup command[n].rows]
    BY <1>2, Kept DEF AckSyncMutationSeqs, Ack
  <2>2. /\ IdOf(command[n].chunk) \in Ids(Stored) /\ command[n].chunk.from = n
        /\ command[n].chunk.rows = command[n].rows
    BY <2>1, Kept, ChunkAtHand
  <2>3. PICK d \in Stored : IdOf(d) = IdOf(command[n].chunk)
    BY <2>2 DEF Ids
  <2>4. CASE d = command[n].chunk
    <3>1. command[n].rows \subseteq InChunks(n)
      BY <2>2, <2>4 DEF InChunks
    <3> QED BY <2>1, <3>1
  <2>5. CASE d # command[n].chunk
    <3>1. command[n].rows \subseteq Mistaken(n)
      BY <2>3, <2>5 DEF Mistaken, TakenForAnother
    <3> QED BY <2>1, <3>1
  <2> QED BY <2>4, <2>5
<1>3. ASSUME NEW n \in Machine, Autosync(n)
      PROVE  acked'[m] \subseteq acked[m] \/ Autosync(m)
  <2>1. CASE n # m
    <3>1. acked'[m] = acked[m]
      BY <1>3, <2>1, Kept DEF Autosync, Ack
    <3> QED BY <3>1
  <2> QED BY <1>3, <2>1
<1>4. \/ UNCHANGED acked
      \/ \E n \in Author : AckSyncMutationSeqs(n) \/ Autosync(n)
  BY DEF ChunkNext, Write, WriteSession, SaveObservation, DeleteObservation, Enqueue,
         Export, ReadForExport, ListAndPush, RecordSyncedChunk, ImportChunks, StartImport,
         ApplyPulledChunk, DeferChunk, EndPass, EndEarly, HearAnswer, RemoveSession,
         machineVars
<1> QED BY <1>1, <1>2, <1>3, <1>4, MachinesAssumption

\* Between the two clients of the journal no write is dropped: what an export acks is
\* in a chunk that the server stores, unless a stored one has the id of this chunk.
THEOREM ExportsKeepWrites == ChunkSpec => WritesKept
BY AcksInChunks, IInvHolds, PTL DEF ChunkSpec, WritesKept

-------------------------------------------------------------------------------
\* A step of the machines or of the server is one of the chunk log, or none.
LEMMA NextOnLog == ChunkIInv /\ [ChunkNext]_chunkVars => [LogNext]_logVars
<1> SUFFICES ASSUME ChunkIInv, [ChunkNext]_chunkVars PROVE [LogNext]_logVars
  OBVIOUS
<1>1. ASSUME NEW r \in Request, HearAnswer(r) PROVE LogNext
  BY <1>1 DEF HearAnswer, LogNext
<1>2. ASSUME NEW r \in Request, Accept(r) \/ Confirm(r) \/ Refuse({r}) PROVE LogNext
  BY <1>2 DEF LogNext
<1>3. ASSUME NEW m \in Author, ListAndPush(m) PROVE [LogNext]_logVars
  <2>1. ASSUME NEW r \in Request, NEW c, Offer(r, c) PROVE LogNext
    <3>1. push \in Pushes /\ push' = [push EXCEPT ![r] = [at |-> "open", chunk |-> c]]
      BY <2>1 DEF Offer, ChunkIInv, ChunkTypeOK, Pushes
    <3>2. push'[r].chunk = c
      BY <3>1 DEF Pushes
    <3> QED BY <2>1, <3>2 DEF LogNext
  <2> QED BY <1>3, <2>1 DEF ListAndPush
<1>4. CASE UNCHANGED logVars
  BY <1>4
<1>5. \/ UNCHANGED logVars
      \/ \E m \in Author : ListAndPush(m)
      \/ \E r \in Request : HearAnswer(r) \/ Accept(r) \/ Confirm(r) \/ Refuse({r})
  BY DEF ChunkNext, chunkVars, Write, WriteSession, SaveObservation, DeleteObservation,
         Enqueue, Autosync, Export, ReadForExport, RecordSyncedChunk, AckSyncMutationSeqs,
         ImportChunks, StartImport, ApplyPulledChunk, DeferChunk, EndPass, EndEarly,
         RemoveSession
<1> QED BY <1>1, <1>2, <1>3, <1>4, <1>5

\* The commands use the chunk store as its abstraction allows.
THEOREM CommandsOnChunkLog == ChunkSpec => LogSpec
<1>1. ChunkInit => LogInit
  BY DEF ChunkInit
<1> QED BY <1>1, NextOnLog, IInvHolds, PTL DEF ChunkSpec, LogSpec
===============================================================================
