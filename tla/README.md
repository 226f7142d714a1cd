# rtcmon in TLA+

This directory models the rtcmon backend: the ingest API, which receives call
statistics over HTTP and stores them, and the background jobs and query API
around it. The modules are written from the Go code; TLC checks small
instances, TLAPS proves their safety properties for every configuration. `PROJECT.json` lists the components, runs, mutants, theorems,
hazards and findings, and the source lines every definition stands for.

## The system

| part | state | operations | talks to |
|---|---|---|---|
| worker pool (`internal/worker`) | channel, closed flag, per-worker batch | Enqueue, Shutdown, worker loop, doFlush | handlers enqueue, flusher is called |
| flusher (`internal/ingest`) | Postgres transaction, EWMA map, dead-letter files, Redis `active_conf` keys | Flush, four upserts, buildStatRows, Commit, updateCache, writeDeadLetter | Postgres, Redis, file system |
| event handlers (`services/ingest-api/handler`) | the request | HandleEvents, HandleServerEvents | pool |
| end-conference handler | `conferences.ended_at` | HandleEndConference | Postgres, eMOS channel, analytics cache |
| stale job (`internal/stale`) | the list of a scan | Start, RunOnce, Shutdown | Postgres, eMOS channel |
| eMOS job (`internal/emos`) | `session_quality`, observations | RunJob, runObservations | Postgres |
| shutdown (`services/ingest-api/serve.go`) | the step it has reached | serveWithShutdown | all of the above |
| retention job (`internal/retention`) | partitions, events | Start, RunOnce, Shutdown | Postgres |
| rate limiter (`internal/ratelimit`) | Redis sorted sets | Allow, middlewares | Redis |
| authentication (`internal/auth`) | nonces in Redis | token and signature checks | Redis, Postgres |
| sessions (`internal/session`) | Redis keys | Create, Get, Delete | Redis |
| query API (`services/query-api`) | organisations, members, invitations, apps, server keys, share tokens, cached analytics | the handlers | Postgres, Redis |

What makes it hard: workers, handlers, two jobs and the shutdown run
concurrently; transactions of several workers meet on the same keys; batches,
the EWMA map and queued eMOS jobs live in memory only; several operations are a
read followed by a write with nothing in between to protect them; the shutdown
is an ordered sequence with a timeout in it. The hazards are listed line by line
in `PROJECT.json`.

## Modules

**WorkerPool** is `worker.go` step by step. `ch`, `closed`, `once` and the
`RWMutex` (its readers are the Enqueue calls between RLock and RUnlock, a
pending writer keeps new readers out) are shared, `batch[w]` is the local slice
of a worker. Each element of `Payload` is one Enqueue call and each element of
`Stopper` one Shutdown call. `flushes`, `ticket` and `issued` are history.

**PoolContract** is what the pool promises: an offered payload is accepted or
rejected, flushes take accepted payloads once and at most `BatchSize` at a time,
and after a Shutdown has returned nothing is pending or accepted any more.
WorkerPool implements it (`ImplementsContract`), and IngestService uses it.

**Flusher** is one process's `Flusher` called by several workers. The statements
of a flush are pure operators over the batch: `Upserts` lists the row each payload
needs in each of the four tables, and `sent` picks those the `seen` maps let through;
`todo` holds the places of the ones still to send. The steps of Postgres in READ
COMMITTED (a visible row, a new key, a wait for a concurrent insert, no row
because the statement's snapshot is older than the awaited commit, a deadlock)
are external actions. A row is identified by its unique key. An EWMA value is
represented by the sequence of samples that went into it; `ewmaStates` is the loop of
`buildStatRows`, a recursive function of the number of payloads done.

**IngestService** composes the pool's contract with the handlers, the stale job,
the eMOS goroutine and `serveWithShutdown`, over the tables they share. A flush
is one step here: Flusher shows that it is all or nothing. A score is represented
by the reports it was computed from.

A report that fails validation never reaches the pool (`EventsInvalid`).

**Retention** is the retention job: the schedule, the partitions of
`connection_stats` (attached, detached, dropped) and the events of every app, with
days and months shortened to a few ticks. A cancelled context makes every
statement fail.

**Team** is registration, login, sessions, new organisations, members and
invitations of the query API. A slot serves one request at a time; a handler is split after each read and
before each write that commits. `raced` (history) names the organisations with
two changes of members in progress at once.

**AnalyticsCache** is the cached GET endpoints and the goroutine of
HandleEndConference that unlinks their keys. A query's result is represented by
the version of the data it saw. Each endpoint has its TTL (`Lifetime`). SCAN is what Redis guarantees: a key that is there
from beginning to end is returned, others may be.

**RateLimiter** is the Lua script, run as one step some time after the clock was
read. The member of the sorted set is the instant that was read and the score is its
second. Calls and answers can be lost and commands sent again.

**ServerRequests** composes it with the authentication that comes before it: a
request with a token, or a delivery of a signed message that goes through
headers, timestamp, the lookup of its key, and the nonce in Redis. `MsgOf` says
which message a request delivers, so that a message can come twice; `TextOf` how its
`X-Signature` header is spelled, because the nonce is made of the key, the timestamp and
the text of the header, while the signature is compared by its bytes; `Flaw` what is
wrong with a request. `passed` and `lost` are history. Which requests come
together, and which routes have a limiter, is chosen at the start.

**Apps** is what changes an app and its keys: a handler reads the row, later
writes it, and later answers. Keys are numbered as they are generated. `told` is
what the callers know, `raced` the apps with overlapping requests and `unsure`
those with a lost answer (history).

**Conferences** extends it with the conferences of the app: flushes add the rows a
payload names, or find them, so that a session may be without connections and a
participant without sessions; retention drops statistics, the app's deletion cascades or is refused because of
statistics that refer to it. On top of these the paginated list, walked through
by a client, the detail view with the Go slices it is put together from
(`Assemble`: a pointer into a slice that `append` has moved is lost; `FullAt` says when
it does), and share
tokens. The view of a token is modelled for a caller whose session is in the
context; its route is outside the session middleware
(`query-api/server/server.go:82`), so that as routed every visitor is redirected to
the login. With the redirect in the model nothing after the first line of the handler
would be checked.

**EmosJob** is the eMOS score, the nine observation rules and the job that runs
them. ComputeEMOS is in integers (tenths of milliseconds, tenths for R, thousandths for
the score), with the loss coefficient as a parameter (`LossCoeff`, `EMOS_LOSS_COEFF`).
The columns `rtt_ms` and `jitter_ms` are scanned into integers, which pgx does for whole
numbers only (`Scans`): a connection with another value is not evaluated. The
loop that the sustained rules share is `Runs`. An observation in the events table
is compared as in the code: times formatted to the second against exact ones.
While the job reads the rows of a query it has one connection of the database pool
and takes a second one for each statement (`Held`, `ConnFree`); `busy` counts the
connections of handlers and workers.

`MC*` modules hold the constants for TLC. `MCIngestProcess` and `MCApis` check two
modules that share no variable in one run: a behaviour of one beside an initial state of
the other, with the fairness of the one that moves. A definition with the comment
"Mutant" is a changed form of the definition after it, used to check that the
property named with it in `PROJECT.json` fails when the code is wrong in that way.

## Runs

| run | bounds | shows |
|---|---|---|
| `ingest_process` | pool: 3 Enqueue calls, 2 workers, 2 Shutdown calls, batch 2, capacity 2; retention job: 3 apps with a retention of 1 and 3 days and none, 5 days of 2 ticks, months of 2 days, batches of 1, one fault, one restart | no send on a closed channel, nothing lost or flushed twice, order, a returned Shutdown has drained; every accepted payload is flushed, every Shutdown returns, the contract is implemented. No event is deleted before its app's retention is over, no table before the shortest one, old events and partitions go in the end, Shutdown returns from every state |
| `flusher` | 2 workers, 4 payloads of 2 apps, batches of up to 2, one fault, one crash | a batch is stored whole or not at all and only then cached, a payload is stored, in a file, or lost to a counted fault or crash, EWMA histories are separate |
| `ingest` | 2 conferences, 2 sessions, 2 reports, 2 end requests, eMOS channel of 1, one database error | ended_at is set once, the stale job closes what was idle at its scan and never sends on the closed channel, a 202 is stored at exit; an ended conference is scored unless its job was dropped, failed or cut off by the shutdown; a shutdown completes |
| `team` | 2 users, 2 requests at a time, 1 invitation, 2 passwords, 2 sessions | an organisation keeps an admin unless two changes overlap, one organisation is founded by registering unless two registrations overlap, invitations change neither passwords nor existing roles |
| `analytics_cache` | an overview, a breakdown and statistics of one app, 2 requests, 1 invalidation, TTL 2 (statistics 1), one change, one fault | a finished invalidation leaves only what was written since it began, stale answers are bounded by the TTL of their endpoint and one handler's delay, the cache ends up in agreement with the data |
| `emos_job` | 1 connection, 4 kinds of samples, one with a fraction of a millisecond, at 3 half seconds, 2 runs of the job, one fault, a pool of 2; all sequences of 7 samples for the loop; a grid of losses and round trips for the score | the loop finds the maximal runs, the score never rises with loss or round trip, observations are stored, and once when their times are whole seconds; a job returns |
| `apis` | query API: 1 app, 2 requests at a time in 5 mixes, 5 keys, 8 payloads, pages of 1, 1 share token, 3 views, one fault; ingest API: 2 or 3 requests of 9 kinds in 5 mixes, limit 2, window of 2 seconds, skew of 1 second, 6 half seconds, one fault | the keys in the row are the ones the callers were told, a walk through the pages shows every conference, the detail is whole, counted views were shown and one revocation succeeds. The limit holds for scripts that run in the second they read, a denial has its reason, a signed message passes once, a message refused as a duplicate was handed on |

The bounds are the smallest at which each hazard occurs: the channel can be full
and the batch partial, two transactions can hold each other's keys, two actors
can close one conference, the eMOS channel can overflow, a handler can outlive
the HTTP timeout, a month can end within one app's retention and beyond
another's, a result can be written to the cache after the invalidation, a
script can run after its second is over, a nonce can expire within the window of
its message, an observation can begin in the middle of a second, the pool can be
used up, a participant has two sessions whose connections alternate and a third one
without any, two conferences start together. Time is bounded by a cap on the clock (Retention,
RateLimiter) or counted as time left (AnalyticsCache). ServerRequests and
Conferences choose one of a few mixes of requests in the initial state: every
interleaving within a mix is explored, and requests of different mixes touch
different state.

Five runs expect a violation: each states a sentence of the repository that the
code does not keep, quoted under `findings`.

* `flusher_shared_name`: a batch with two apps that use one conference id files
  participants under the wrong app's conference.
* `flusher_healthy`: two workers inserting the same new key send one batch to a
  dead-letter file although nothing failed.
* `team_last_admin`: two overlapping requests take the role from both admins.
* `retention_no_data_lost`: the table of a month goes when the shortest retention is
  over, with the statistics of apps that keep theirs longer or for ever.
* `emos_observations`: a round-trip time or jitter that is not a whole number of
  milliseconds leaves its connection without observations.

Some properties are stated with an exception, because the code does not do
better; their comments and the hazards say so: `WithinLimit` leaves out scripts that run
late, `PassedOnce` a message seen in the first and again in the last second of its
window, a delivery that stalls until the window is over and one whose header spells the
signature otherwise, `DuplicateWasHandedOn` a lost answer of SETNX,
`WholeSecondsOnce` times with fractions of a second, `EndedIsScored` jobs that the
shutdown cuts off (a handler that outlives the HTTP timeout sends on the closed
channel and panics), `KeysAsTold` overlapping requests and lost answers,
`WalkShowsAll` conferences with equal start times, `SustainedIsMaximal` connections that
cannot be loaded; `ShortestKept` speaks of the apps with the shortest retention,
`InvalidationComplete` excuses what is written during the SCAN.

## Fairness

WorkerPool assumes that the Go scheduler runs every runnable goroutine, the
ticker keeps firing and flushFn returns; nobody is obliged to call Enqueue or
Shutdown. IngestService assumes that handlers, workers and jobs go on and a
shutdown in progress continues; no request, signal or passing of time is
assumed. The end of the stale job needs strong fairness: its `select` chooses at
random between a tick and `done`, so it cannot choose the tick for ever. Retention
assumes the same of its job, and that time passes and statements return.
AnalyticsCache assumes that time passes and that a handler which has begun ends.
EmosJob assumes that statements of others end and give their connection back, and,
because pgxpool serves waiting callers in their order, that a job which finds a free
connection again and again gets one (strong fairness); failures are not assumed.
Flusher, Team, ServerRequests and Conferences are checked for safety and deadlock only.
After its last tick the retention job may be stopped for good, and rest
(`JobRests`).

## Proofs

Each proof module extends the module TLC checks and proves theorems for every value
of its constants, so for any number of requests, faults, ticks and restarts (the
bounds are natural numbers and nothing more). What the constants must satisfy is the
named ASSUME of the module, which TLC evaluates in the run. A proof goes the same
way each time: an inductive invariant that implies the property, a lemma for each
action or for a group of actions that leave the same things alone, and a last step
that puts them together.

`PoolAndCacheProofs` proves of the worker pool, for every set of calls, workers and stoppers, every
`BatchSize` and `ChannelCap` above zero and at least one worker: type
correctness, `ExactlyOnce`, `NeverSendClosed`, `WithinBounds`, `InOrder`,
`ShutdownDrains` and the refinement of PoolContract. None of the invariants is
inductive alone. `PoolInv` adds that tickets are issued in order and to accepted
payloads only, that no payload is in two batches, and what each worker state
implies: a worker at its select has room, one that flushes has something to
flush, one that ends has seen the channel closed and empty. The last is what makes
`ShutdownDrains` follow, and it is where a worker must exist: with none, Shutdown
returns at once and the channel is never drained. The proof has a lemma per
caller (`EnqueueKeeps`, `ShutdownKeeps`, `WorkerLoopKeeps`) and one for steps that
move no payload.

Of the analytics cache, which shares nothing with the pool, it proves `InvalidationComplete` and `StaleBounded`. `ScanInv` says
that an old entry the invalidation has not removed is still among the keys its SCAN
has to return, or belongs to the pattern that comes next; `LateInv` that the lateness
of an entry and the time it has left add up to at most the TTL of its endpoint and the
delay.

`RateLimiterProofs` proves `WithinLimit` and `DeniedWhenFull` of the limiter behind
the authentication. Counting the entries of a sorted set says nothing about requests
unless entries and requests correspond: `LimInv` adds that an entry is the instant
some request of the key has read, that an entry made on time stays while the clock
is in its window (the script prunes only older ones and the key does not expire
before), and that two requests on time have different entries. The theorems then
compare cardinalities along these maps (`Injects`, `Covers`).

Of the authentication it proves `PassedOnce` and `DuplicateWasHandedOn`. `AuthInv` adds
that the nonce of a delivery that has passed within its window outlives the window, so
that another one with the same header finds it,
and that a nonce exists only for a message that was handed on or whose answer was
lost. The lemmas about instants and whole seconds serve both.

`FlusherProofs` proves `NoSilentLoss`, `AllOrNothing` and `EwmaIsolated`, each from an
invariant of its own. `LossInv` adds that a payload is in one batch only and that
nothing of an open transaction is stored; a batch on its way to a dead-letter file may
be stored already when the answer to COMMIT was lost, and then a fault has been counted.
`RowsInv` follows each transaction through the statements it has left: every key of the
batch that neither the transaction nor the database has yet is the key of a statement
still to send, so that none is missing when the statistics are copied, although the
`seen` maps leave statements out (`SentKeys`: the first statement of each key is sent)
and other workers insert the same keys meanwhile. `EwmaInv` says that the shared state
holds histories of one connection and source each, without repetition, of batches whose
rows are built already: a sample is therefore new when its batch reaches
`buildStatRows`. What the loop has computed after each payload (`EveryPrefix`,
`StatesOfLoop`) is shown by looking at the first place where it would be wrong, with
`LeastNumber`, because the induction theorems of the library are out of the prover's
reach. `FlusherAssumption`: timestamps are integers, batches have a natural number as
their limit.

`ConferencesProofs` proves `KeysAsTold` and `TokensAsTold`. `KeyInv` says of an app whose
requests did not overlap that at most one is in progress; that the row holds what the
callers were told or, between the write and the answer, what this request is about to
tell them; and that an app which does not exist yet has no keys and no requests.
`TokenInv` bounds the count of a live token from below by the answers that were sent and
from above by these and the faults so far, and adds that a request between two
statements names a token that was stored: rows of tokens are never removed, so that a
revoked one cannot come back.

`ConferenceListProofs` proves `WalkShowsAll`. `WalkInv` says of every conference that was
there when the walk began and whose start time is its own that it was shown, or that at
least as many conferences come before it as earlier pages have shown, and the last page
was full. New conferences only push it further back (`AboveGrows`), so the next page
that holds its place shows it (`PageOrLater`); a page that is not full ends with the
last conference. Places in a list are related to numbers of conferences by
`CardOfImage` and `Enumerates`. `ConferencesAssumption`: a page has at least one row,
ids and start times are integers.

The module also proves `DetailIsWhole`, for any participants, sessions and connections.
It holds of every table, so that no step matters: what is shown is an invariant of the
loop over the rows (`RowStep`). After each row a session that has been seen is in the
answer once, with the connections seen so far, and the pointer to the session of the
last row is into the array that `p.Sessions` has now. ORDER BY puts the rows of a
session together (`QueryRows`), so a row is of the session before it or of a new one,
and only a new one makes `append` move the array; a session without connections has one
row, which adds nothing more. `FullAt` is any set: the theorem holds whenever `append`
moves the array. That the loop has this result (`AssemblyExists`,
`LoopAssembles`) is shown by the least row at which it would not.

`EmosJobProofs` proves the invariants of EmosJob and two general facts about its
algorithms. `RunsAreMaximal` is about the loop of the sustained rules, for any number of
samples and any minimum from 1 on: `LoopInv` says that the intervals reported so far are
the maximal runs that have ended, in order, and that `start` and `count` describe the run
that has not. `EmosGrowsWorse` is about ComputeEMOS for all losses and round trips: the
impairments grow, whatever the loss coefficient (`ImpairmentGrows`), the cubic grows from R = 6.6 on and is cut off
below (`CubicGrows`, `CubicLow`), and rounding keeps the order. `ScoreMonotone` follows
with `MedianMonotone`: a table of values that grow has medians that grow.
`WholeSecondsOnce` is inductive once the table is a sequence. `FoundInv` adds to `FoundIsStored`
that what was found is stored or still to be inserted, and that everything in between is an
observation with times; the latter needs what all nine rules return
(`RulesGiveObservations`), for instance that a run of freezes never begins at the first
sample. `EmosAssumption`: loss is a ratio, round trips are natural numbers, a pool has two
connections, and a configured `min_samples` is at least 1. The code does not check the
last: nothing under `src/` writes `observation_config`, and with 0 the Go loop would
index the sample before the first.

`IngestServiceProofs` proves `StaleSendSafe`, `EndedAtStable`, `StaleClosesIdle` and
`AcceptedStoredAtExit`. `CloseInv` says that the shutdown is past the stale job when it
closes the channel, `IdleInv` that what is on the list of a scan was idle at the scan
or has woken since, `StoreInv` that an answered report is in the pool or flushed and
that the pool is empty once its Shutdown returned. The pool is the contract that
`PoolAndCacheProofs` shows the worker pool to implement. `IngestAssumption` keeps the
names of conferences and requests apart from the names of states.

The same module proves `EventsKept` and `ShortestKept` of the retention job, which runs in
that process (`JobSpec`; the two models share no state). `EventsInv` adds
that the cutoff in use belongs to an app with a retention and is no later than one
computed now: a slow run deletes less, never more. `PartInv` adds the same of the tables
on the list and of the one between DETACH and DROP. That a month before the month of
the cutoff lies wholly before the cutoff is `MonthBefore`; that the shortest
retention exists needs the well-foundedness of the natural numbers (`Least`).

`TeamProofs` proves `OrgHasAdminUnlessRaced`, `FoundedOnce` and `ExistingKept` from one
invariant. `TeamInv` adds that members, sessions, open invitations and whatever a
request remembers between two steps belong to organisations whose founder has an
account; that a change of members without a race is the only one of its
organisation, is about someone who is still a member and, once counted, leaves an
admin; and that a registration without a race is the only one and no account exists
yet. That a member still has a row when the change is written matters: otherwise an
accepted invitation could make an admin of someone between the count and the write.
The proof needs
`TeamAssumption`: "no account" is not a password.

Left to TLC is liveness (`EventuallyFlushed`, `ShutdownTerminates`, `JobReturns` and the
other properties with `~>` or `<>`), which is out of the prover's reach. Every safety
property that a passing run checks is a theorem.

## Not modelled

JSON decoding, formatting, logging, metrics, configuration files, migrations, health
endpoints and the wiring of routes have no state that anything depends on. The
remaining read-only endpoints (connection events, user calls, the lists of apps,
members, invitations and tokens) are single queries, or use the page arithmetic of the
conference list. Signatures, encryption and password hashes are represented by
whether they succeed. Clocks that differ between hosts, and several processes that
work on one conference at once, are not modelled; nor are the filters and the total of
the conference list.
