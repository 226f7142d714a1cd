------------------------------ MODULE Flusher ------------------------------
(***************************************************************************)
(* The flush of the ingest API (internal/ingest): Flush persists one batch *)
(* of payloads in one Postgres transaction, one upsert statement per       *)
(* conference, participant, session and connection, then the statistics;   *)
(* a batch that fails goes to a dead-letter file.  Several workers flush   *)
(* at the same time on a database in READ COMMITTED, its default.          *)
(*                                                                         *)
(* A row is identified by its unique key, so the key is also its database  *)
(* id, and a table maps keys to the key of the parent row.  The events of  *)
(* a payload are inserted together and count as one sample.                *)
(***************************************************************************)
EXTENDS Sequences, FiniteSetsExt

CONSTANTS
  Worker,      \* concurrent callers of Flush
  Payload,     \* payloads handed over by the pool, each in one batch
  Field,       \* Field[p]: app, conf, user, sess, conn, source, ts of p
  MaxBatch,    \* bound on the length of a batch
  MaxFaults,   \* bound on database, Redis and file system errors
  MaxCrashes   \* bound on crashes of the process

VARIABLES
  db,        \* committed rows: unique key -> key of the parent row
  stats,     \* committed connection_stats: [payload, ewma]
  cache,     \* active_conf:{app}:{conf} -> participants and last ts
  files,     \* payloads in dead-letter files
  ewma,      \* f.ewmaState: <<conn, source>> -> samples it accumulated
  pc,        \* pc[w]: where worker w is in Flush
  batch,     \* batch[w]: the batch worker w is flushing
  todo,      \* todo[w]: places in Upserts of the statements still to send
  own,       \* own[w]: rows inserted by w's open transaction
  rows,      \* rows[w]: the statistics built for CopyFrom
  faults, crashes,    \* how many of the bounded events have happened
  done,      \* payloads of finished Flush calls (history)
  stored,    \* batches whose transaction committed (history)
  dropped    \* payloads that ended nowhere: file error or crash (history)

mem == <<ewma, pc, batch, todo, own, rows>>
vars == <<db, stats, cache, files, mem, faults, crashes, done, stored, dropped>>

ASSUME FlusherAssumption ==
  /\ \A p \in Payload : Field[p].ts \in Int
  /\ MaxBatch \in Nat

NoRows == [k \in {} |-> {}]

(* The rows s written over the rows t. *)
Over(s, t) ==
  [k \in DOMAIN s \union DOMAIN t |-> IF k \in DOMAIN s THEN s[k] ELSE t[k]]

-----------------------------------------------------------------------------
(* The statements of a flush, as a function of the batch. *)

(* The rows the payloads of the batch need, table by table. *)
upsertConferences(b) ==
  [i \in DOMAIN b |->
    LET f == Field[b[i]]
    IN  [key |-> <<"conf", f.app, f.conf>>, parent |-> <<"app", f.app>>]]

(* The "seen" maps: only the first upsert of a key is sent. *)
sent(ups) == {i \in DOMAIN ups : \A j \in 1 .. i - 1 : ups[j].key # ups[i].key}

(* confIDs: external id -> row.  The map has no app in its key, so the last  *)
(* of several apps with the same external id in a batch wins.                *)
confID(b, conf) ==
  LET us == upsertConferences(b)
  IN  us[Max({i \in sent(us) : us[i].key[3] = conf})].key

participantKey(b, p) == <<"part", confID(b, Field[p].conf), Field[p].user>>

upsertParticipants(b) ==
  [i \in DOMAIN b |->
    [key |-> participantKey(b, b[i]), parent |-> confID(b, Field[b[i]].conf)]]

upsertSessions(b) ==
  [i \in DOMAIN b |->
    [key |-> <<"sess", Field[b[i]].sess>>, parent |-> participantKey(b, b[i])]]

upsertConnections(b) ==
  [i \in DOMAIN b |->
    [key |-> <<"conn", Field[b[i]].conn>>, parent |-> <<"sess", Field[b[i]].sess>>]]

(* In this order; a flush sends the statements of sent(Upserts(b)). *)
Upserts(b) ==
  upsertConferences(b) \o upsertParticipants(b)
    \o upsertSessions(b) \o upsertConnections(b)

(* Mutant: the state key lacks the source. *)
ewmaKeyNoSource(p) == <<Field[p].conn, "browser">>

ewmaKey(p) == <<Field[p].conn, Field[p].source>>

(* buildStatRows over a batch: each sample extends the history of its key,   *)
(* and its row carries the EWMA of that history.                             *)
addSample(state, p) ==
  LET k == ewmaKey(p)
      h == IF k \in DOMAIN state THEN state[k] ELSE <<>>
  IN  Over([j \in {k} |-> Append(h, p)], state)

(* The state after each prefix of the batch. *)
ewmaStates(b, state) ==
  LET after[i \in 0 .. Len(b)] ==
        IF i = 0 THEN state ELSE addSample(after[i - 1], b[i])
  IN  after

(* updateCache: per conference of the batch, its users and latest ts in it.  *)
confKey(p) == <<Field[p].app, Field[p].conf>>

cacheEntries(b) ==
  [k \in {confKey(p) : p \in Range(b)} |->
    LET mine == {p \in Range(b) : confKey(p) = k}
    IN  [participants |-> Cardinality({Field[p].user : p \in mine}),
         last |-> Max({Field[p].ts : p \in mine})]]

-----------------------------------------------------------------------------
Init ==
  /\ db = NoRows
  /\ stats = {}
  /\ cache = NoRows
  /\ files = {}
  /\ ewma = NoRows
  /\ pc = [w \in Worker |-> "idle"]
  /\ batch = [w \in Worker |-> <<>>]
  /\ todo = [w \in Worker |-> {}]
  /\ own = [w \in Worker |-> NoRows]
  /\ rows = [w \in Worker |-> {}]
  /\ faults = 0 /\ crashes = 0
  /\ done = {} /\ stored = {} /\ dropped = {}

InFlight == UNION {Range(batch[w]) : w \in Worker}

(* Flush is called with a non-empty batch of payloads not seen before (the   *)
(* pool passes each payload once); the transaction begins.                   *)
Flush(w, b) ==
  /\ pc[w] = "idle"
  /\ batch' = [batch EXCEPT ![w] = b]
  /\ todo' = [todo EXCEPT ![w] = sent(Upserts(b))]
  /\ pc' = [pc EXCEPT ![w] = "upsert"]
  /\ UNCHANGED <<db, stats, cache, files, ewma, own, rows, faults, crashes,
                 done, stored, dropped>>

(* The key of w's next statement and the transactions that hold it. *)
Stmt(w) == Upserts(batch[w])[Min(todo[w])]
Holders(w) == {v \in Worker \ {w} : Stmt(w).key \in DOMAIN own[v]}

Advance(w) ==
  /\ todo' = [todo EXCEPT ![w] = @ \ {Min(@)}]
  /\ pc' = [pc EXCEPT ![w] = IF todo[w] = {Min(todo[w])} THEN "build" ELSE "upsert"]

(* ON CONFLICT DO NOTHING on a row the statement sees: its id is selected.   *)
UpsertSelect(w) ==
  /\ pc[w] = "upsert"
  /\ Stmt(w).key \in DOMAIN db
  /\ Advance(w)
  /\ UNCHANGED <<db, stats, cache, files, ewma, batch, own, rows, faults,
                 crashes, done, stored, dropped>>

(* No such row anywhere: insert it.  A statement that waited for another     *)
(* transaction inserts when that one has rolled back.                        *)
UpsertInsert(w) ==
  /\ pc[w] \in {"upsert", "waiting"}
  /\ Stmt(w).key \notin DOMAIN db
  /\ Holders(w) = {}
  /\ own' = [own EXCEPT ![w] = Over([k \in {Stmt(w).key} |-> Stmt(w).parent], @)]
  /\ Advance(w)
  /\ UNCHANGED <<db, stats, cache, files, ewma, batch, rows, faults, crashes,
                 done, stored, dropped>>

(* Another open transaction has inserted the key: the insert waits for it.   *)
UpsertWait(w) ==
  /\ pc[w] = "upsert"
  /\ Holders(w) # {}
  /\ pc' = [pc EXCEPT ![w] = "waiting"]
  /\ UNCHANGED <<db, stats, cache, files, ewma, batch, todo, own, rows, faults,
                 crashes, done, stored, dropped>>

(* Mutant: the upserts run on the pool, outside the transaction. *)
RollbackAutoCommit(w) ==
  /\ db' = Over(own[w], db)
  /\ own' = [own EXCEPT ![w] = NoRows]
  /\ rows' = [rows EXCEPT ![w] = {}]
  /\ pc' = [pc EXCEPT ![w] = "deadletter"]
  /\ UNCHANGED <<stats, cache, files, ewma, batch, todo, crashes, done, stored,
                 dropped>>

(* flush returns an error: the deferred Rollback discards the transaction.   *)
Rollback(w) ==
  /\ own' = [own EXCEPT ![w] = NoRows]
  /\ rows' = [rows EXCEPT ![w] = {}]
  /\ pc' = [pc EXCEPT ![w] = "deadletter"]
  /\ UNCHANGED <<db, stats, cache, files, ewma, batch, todo, crashes, done,
                 stored, dropped>>

(* The awaited transaction committed.  The insert does nothing, and the      *)
(* SELECT of the same statement still reads the snapshot taken before the    *)
(* wait: no row, pgx.ErrNoRows, and flush fails.                             *)
UpsertNoRows(w) ==
  /\ pc[w] = "waiting"
  /\ Stmt(w).key \in DOMAIN db
  /\ Rollback(w)
  /\ UNCHANGED faults

(* Postgres aborts one of the transactions that wait for each other.         *)
WaitsFor(v, w) == pc[v] = "waiting" /\ w \in Holders(v)
DeadlockAbort(w) ==
  /\ \E v \in Worker : WaitsFor(w, v) /\ WaitsFor(v, w)
  /\ Rollback(w)
  /\ UNCHANGED faults

(* Any statement, CopyFrom or Commit fails: an app_id that is no number, a   *)
(* ts without partition, a lost connection.                                  *)
DBError(w) ==
  /\ pc[w] \in {"upsert", "waiting", "copy"}
  /\ faults < MaxFaults
  /\ faults' = faults + 1
  /\ Rollback(w)

(* Under ewmaMu: evict the idle entries (any, as any time may have passed),  *)
(* then fold the batch into the state.                                       *)
buildStatRows(w, idle) ==
  /\ pc[w] = "build"
  /\ LET kept == [k \in DOMAIN ewma \ idle |-> ewma[k]]
         after == ewmaStates(batch[w], kept)
         row(i) == [payload |-> batch[w][i], ewma |-> after[i][ewmaKey(batch[w][i])]]
     IN  /\ ewma' = after[Len(batch[w])]
         /\ rows' = [rows EXCEPT ![w] = {row(i) : i \in DOMAIN batch[w]}]
  /\ pc' = [pc EXCEPT ![w] = "copy"]
  /\ UNCHANGED <<db, stats, cache, files, batch, todo, own, faults, crashes,
                 done, stored, dropped>>

(* CopyFrom and Commit.  When the answer to Commit is lost, the caller sees  *)
(* an error for a transaction that did commit.                               *)
Commit(w, answered) ==
  /\ pc[w] = "copy"
  /\ answered \/ faults < MaxFaults
  /\ db' = Over(own[w], db)
  /\ stats' = stats \union rows[w]
  /\ stored' = stored \union {batch[w]}
  /\ own' = [own EXCEPT ![w] = NoRows]
  /\ rows' = [rows EXCEPT ![w] = {}]
  /\ pc' = [pc EXCEPT ![w] = IF answered THEN "cache" ELSE "deadletter"]
  /\ faults' = IF answered THEN faults ELSE faults + 1
  /\ UNCHANGED <<cache, files, ewma, batch, todo, crashes, done, dropped>>

Return(w) ==
  /\ pc' = [pc EXCEPT ![w] = "idle"]
  /\ batch' = [batch EXCEPT ![w] = <<>>]
  /\ todo' = [todo EXCEPT ![w] = {}]
  /\ done' = done \union Range(batch[w])

(* updateCache: one pipeline; a Redis error is only logged. *)
updateCache(w, ok) ==
  /\ pc[w] = "cache"
  /\ ok \/ faults < MaxFaults
  /\ cache' = IF ok THEN Over(cacheEntries(batch[w]), cache) ELSE cache
  /\ faults' = IF ok THEN faults ELSE faults + 1
  /\ Return(w)
  /\ UNCHANGED <<db, stats, files, ewma, own, rows, crashes, stored, dropped>>

(* An active_conf key outlives its TTL of 600 s. *)
CacheExpire(k) ==
  /\ cache' = [j \in DOMAIN cache \ {k} |-> cache[j]]
  /\ UNCHANGED <<db, stats, files, mem, faults, crashes, done, stored, dropped>>

(* Mutant: the file is created but nothing is written to it. *)
writeDeadLetterEmpty(w, ok) ==
  /\ pc[w] = "deadletter"
  /\ ok \/ faults < MaxFaults
  /\ dropped' = IF ok THEN dropped ELSE dropped \union Range(batch[w])
  /\ faults' = IF ok THEN faults ELSE faults + 1
  /\ Return(w)
  /\ UNCHANGED <<db, stats, cache, files, ewma, own, rows, crashes, stored>>

(* writeDeadLetter: an error of the file system is only logged. *)
writeDeadLetter(w, ok) ==
  /\ pc[w] = "deadletter"
  /\ ok \/ faults < MaxFaults
  /\ files' = IF ok THEN files \union Range(batch[w]) ELSE files
  /\ dropped' = IF ok THEN dropped ELSE dropped \union Range(batch[w])
  /\ faults' = IF ok THEN faults ELSE faults + 1
  /\ Return(w)
  /\ UNCHANGED <<db, stats, cache, ewma, own, rows, crashes, stored>>

(* The process dies: Postgres rolls the open transactions back, the memory   *)
(* of the process is gone, Redis and the files stay.                         *)
Crash ==
  /\ crashes < MaxCrashes
  /\ InFlight # {}
  /\ crashes' = crashes + 1
  /\ ewma' = NoRows
  /\ pc' = [w \in Worker |-> "idle"]
  /\ batch' = [w \in Worker |-> <<>>]
  /\ todo' = [w \in Worker |-> {}]
  /\ own' = [w \in Worker |-> NoRows]
  /\ rows' = [w \in Worker |-> {}]
  /\ done' = done \union InFlight
  /\ dropped' = dropped \union InFlight
  /\ UNCHANGED <<db, stats, cache, files, faults, stored>>

(* Every payload has been flushed. *)
Rest == done = Payload /\ UNCHANGED vars

Step(w) ==
  \/ UpsertSelect(w) \/ UpsertInsert(w) \/ UpsertWait(w) \/ UpsertNoRows(w)
  \/ DeadlockAbort(w) \/ DBError(w)
  \/ \E idle \in SUBSET DOMAIN ewma : buildStatRows(w, idle)
  \/ \E ok \in BOOLEAN : Commit(w, ok) \/ updateCache(w, ok) \/ writeDeadLetter(w, ok)

Batches == UNION {{b \in [1 .. n -> Payload \ (done \union InFlight)] :
                     IsInjective(b)} : n \in 1 .. MaxBatch}

Next ==
  \/ \E w \in Worker, b \in Batches : Flush(w, b)
  \/ \E w \in Worker : Step(w)
  \/ \E k \in DOMAIN cache : CacheExpire(k)
  \/ Crash
  \/ Rest

Spec == Init /\ [][Next]_vars

-----------------------------------------------------------------------------
Keys(b) == {u.key : u \in Range(Upserts(b))}
Stored == UNION {Range(b) : b \in stored}

(* A batch is stored as a whole or not at all (flush.go:107-111, 160): the   *)
(* committed rows are those of the committed batches, so are the statistics, *)
(* and the active-conference cache shows stored payloads only (flush.go:     *)
(* 90-91), whatever failed, waited or crashed in between.                    *)
AllOrNothing ==
  /\ DOMAIN db = UNION {Keys(b) : b \in stored}
  /\ {r.payload : r \in stats} = Stored
  /\ \A k \in DOMAIN cache :
       \E p \in Stored : confKey(p) = k /\ Field[p].ts = cache[k].last

(* A payload whose Flush is over is in the database, in a dead-letter file,  *)
(* or was dropped by a crash or a file system error; it is stored and also   *)
(* dead-lettered only if a fault hit.                                        *)
NoSilentLoss ==
  /\ done \subseteq Stored \union files \union dropped
  /\ faults = 0 => Stored \intersect files = {}
  /\ faults = 0 /\ crashes = 0 => dropped = {}

(* The EWMA of a row has seen samples of its own connection and source only, *)
(* each once, its own last (flush.go:343-344).                               *)
EwmaIsolated ==
  \A r \in stats :
    /\ \A p \in Range(r.ewma) : /\ Field[p].conn = Field[r.payload].conn
                                /\ Field[p].source = Field[r.payload].source
    /\ IsInjective(r.ewma)
    /\ r.ewma[Len(r.ewma)] = r.payload

(* A stored payload's participant row is in the conference of its own app:   *)
(* (app_id, external_id) is the unique key of a conference (flush.go:164).   *)
OwnConference ==
  \A p \in Stored :
    <<"part", <<"conf", Field[p].app, Field[p].conf>>, Field[p].user>> \in DOMAIN db

(* While database, file system and process work, every payload whose Flush   *)
(* is over is in the database.                                               *)
StoredWhenHealthy == faults = 0 /\ crashes = 0 => done \subseteq Stored
=============================================================================
