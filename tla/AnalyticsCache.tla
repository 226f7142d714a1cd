--------------------------- MODULE AnalyticsCache ---------------------------
(***************************************************************************)
(* The query API's cache of overviews, breakdowns and connection           *)
(* statistics in Redis (handler/analytics_overview.go,                     *)
(* analytics_breakdown.go, connection_stats.go), and its invalidation by   *)
(* the ingest API's HandleEndConference.                                   *)
(*                                                                         *)
(* A key stands for one cacheKey.  The result of a query is represented by *)
(* the version of the app's data it saw.  Time is in ticks: an entry holds *)
(* the ticks it has left, and late counts, for an entry or for a result on *)
(* its way to the cache, the ticks since the data changed (history).       *)
(***************************************************************************)
EXTENDS Naturals, FiniteSets

CONSTANTS
  App, Key,
  Reader,        \* slots serving the three cached GET endpoints
  Ender,         \* calls of HandleEndConference that pass its checks
  AppOf,         \* the app in a key
  Kind,          \* "overview", "breakdown" or "stats"
  EnderApp,      \* confAppID of a call
  TTL,           \* overviewCacheTTL, breakdownCacheTTL, statsCacheTTL, in ticks
  MaxDelay,      \* ticks a handler takes from its query to its Set
  MaxVersion,    \* bound on the changes of an app's data
  MaxFaults      \* bound on failing Redis calls

ASSUME CacheAssumption ==
  /\ AppOf \in [Key -> App]
  /\ Kind \in [Key -> {"overview", "breakdown", "stats"}]
  /\ EnderApp \in [Ender -> App]
  /\ TTL \in [{"overview", "breakdown", "stats"} -> Nat \ {0}]
  /\ MaxDelay \in Nat \ {0} /\ MaxVersion \in Nat /\ MaxFaults \in Nat

VARIABLES
  version,       \* version[a]: how often the data of app a has changed
  cache,         \* cache[k]: an entry or None
  reader,        \* reader[r]: the request of slot r
  ender,         \* ender[e]: how far call e and its goroutine are
  must,          \* must[e]: keys its SCAN still has to return
  ended,         \* ended[e]: the version its UPDATE made (history)
  faults,
  failed         \* calls whose goroutine met a fault (history)

cacheVars == <<version, cache, reader, ender, must, ended, faults, failed>>

None == [at |-> "none"]
Idle == [at |-> "idle"]
Lifetime(k) == TTL[Kind[k]]
MaxLate(k) == Lifetime(k) + MaxDelay + 1

CacheInit ==
  /\ version = [a \in App |-> 0]
  /\ cache = [k \in Key |-> None]
  /\ reader = [r \in Reader |-> Idle]
  /\ ender = [e \in Ender |-> "update"]
  /\ must = [e \in Ender |-> {}]
  /\ ended = [e \in Ender |-> 0]
  /\ faults = 0
  /\ failed = {}

Go(r, req) == reader' = [reader EXCEPT ![r] = req]
enderVars == <<ender, must, ended, failed>>
-----------------------------------------------------------------------------
(* A request for the key k has to ask the database. *)
Miss(r, k) == Go(r, [at |-> "query", key |-> k])

(* Mutant: a hit gives the entry a new lifetime. *)
GetSliding(r, k) ==
  /\ reader[r] = Idle
  /\ \/ /\ cache[k] # None
        /\ cache' = [cache EXCEPT ![k].ttl = Lifetime(k)]
        /\ UNCHANGED reader
     \/ /\ cache[k] = None
        /\ Miss(r, k)
        /\ UNCHANGED cache
  /\ UNCHANGED <<version, enderVars, faults>>

(* A request's parameters give the cacheKey.  rdb.Get: a hit is the answer,  *)
(* a miss goes on to the database.                                           *)
Get(r, k) ==
  /\ reader[r] = Idle
  /\ cache[k] = None
  /\ Miss(r, k)
  /\ UNCHANGED <<version, cache, enderVars, faults>>

(* rdb.Get fails: any error counts as a miss. *)
GetError(r, k) ==
  /\ reader[r] = Idle
  /\ faults < MaxFaults
  /\ faults' = faults + 1
  /\ Miss(r, k)
  /\ UNCHANGED <<version, cache, enderVars>>

(* Mutant: the statement runs on a replica that may lag behind. *)
QueryReplica(r) ==
  /\ reader[r].at = "query"
  /\ \E v \in 0..version[AppOf[reader[r].key]] :
       Go(r, [at |-> "set", key |-> reader[r].key, version |-> v,
              waited |-> 0, late |-> 0])
  /\ UNCHANGED <<version, cache, enderVars, faults>>

(* What a query for k sees: the data of the app as committed. *)
Snapshot(k) == version[AppOf[k]]

(* The app or the connection is the caller's, and the statement sees one     *)
(* snapshot, ...                                                             *)
Query(r) ==
  /\ reader[r].at = "query"
  /\ Go(r, [at |-> "set", key |-> reader[r].key,
            version |-> Snapshot(reader[r].key), waited |-> 0, late |-> 0])
  /\ UNCHANGED <<version, cache, enderVars, faults>>

(* ... or it is refused, or a statement fails: the request ends, uncached. *)
Refuse(r) ==
  /\ reader[r].at = "query"
  /\ Go(r, Idle)
  /\ UNCHANGED <<version, cache, enderVars, faults>>

(* The enders whose SCAN for k's pattern has begun. *)
Begun(k) ==
  {e \in Ender : /\ EnderApp[e] = AppOf[k]
                 /\ ender[e] \in {Kind[k], "done"}
                      \union (IF Kind[k] = "overview" THEN {"breakdown"} ELSE {})}

EntryOf(req) ==
  [at |-> "entry", version |-> req.version, ttl |-> Lifetime(req.key),
   late |-> req.late, after |-> Begun(req.key)]

(* rdb.Set with the TTL of the endpoint, then the answer. *)
Set(r) ==
  /\ reader[r].at = "set"
  /\ cache' = [cache EXCEPT ![reader[r].key] = EntryOf(reader[r])]
  /\ Go(r, Idle)
  /\ UNCHANGED <<version, enderVars, faults>>

(* rdb.Set fails: logged, and the answer is given. *)
SetError(r) ==
  /\ reader[r].at = "set"
  /\ faults < MaxFaults
  /\ faults' = faults + 1
  /\ Go(r, Idle)
  /\ UNCHANGED <<version, cache, enderVars>>
-----------------------------------------------------------------------------
(* A flush, an eMOS job or the stale job changes the data of an app. *)
Change(a) ==
  /\ version[a] < MaxVersion
  /\ version' = [version EXCEPT ![a] = @ + 1]
  /\ UNCHANGED <<cache, reader, enderVars, faults>>

(* HandleEndConference sets ended_at unless it is set, and starts the        *)
(* goroutine.                                                                *)
EndUpdate(e) ==
  /\ ender[e] = "update"
  /\ \E v \in {version[EnderApp[e]], version[EnderApp[e]] + 1} :
       /\ v <= MaxVersion
       /\ version' = [version EXCEPT ![EnderApp[e]] = v]
  /\ ended' = [ended EXCEPT ![e] = version'[EnderApp[e]]]
  /\ ender' = [ender EXCEPT ![e] = "go"]
  /\ UNCHANGED <<cache, reader, must, faults, failed>>

Matching(e, kind) == {k \in Key : AppOf[k] = EnderApp[e] /\ Kind[k] = kind}

(* The iterator for a pattern: SCAN returns every key that is there from its *)
(* beginning to its end.                                                     *)
ScanFrom(e, kind) ==
  /\ ender' = [ender EXCEPT ![e] = kind]
  /\ must' = [must EXCEPT ![e] = {k \in Matching(e, kind) : cache[k] # None}]

ScanBegin(e) ==
  /\ ender[e] = "go"
  /\ ScanFrom(e, "overview")
  /\ UNCHANGED <<version, cache, reader, ended, faults, failed>>

(* iter.Next returns a key, which is unlinked: one that must be returned, or *)
(* one that has been there for a part of the SCAN only.                      *)
Unlink(e, k) ==
  /\ ender[e] \in {"overview", "breakdown"}
  /\ k \in Matching(e, ender[e])
  /\ cache' = [cache EXCEPT ![k] = None]
  /\ must' = [f \in Ender |-> must[f] \ {k}]
  /\ UNCHANGED <<version, reader, ender, ended, faults, failed>>

(* Unlink fails: its error is not looked at. *)
UnlinkError(e, k) ==
  /\ ender[e] \in {"overview", "breakdown"}
  /\ k \in must[e]
  /\ faults < MaxFaults
  /\ faults' = faults + 1
  /\ must' = [must EXCEPT ![e] = @ \ {k}]
  /\ failed' = failed \union {e}
  /\ UNCHANGED <<version, cache, reader, ender, ended>>

(* Mutant: the goroutine returns after the first pattern. *)
NextPatternNone(e) ==
  /\ ender' = [ender EXCEPT ![e] = "done"]
  /\ must' = [must EXCEPT ![e] = {}]

NextPattern(e) ==
  IF ender[e] = "overview" THEN ScanFrom(e, "breakdown")
  ELSE /\ ender' = [ender EXCEPT ![e] = "done"]
       /\ must' = [must EXCEPT ![e] = {}]

(* iter.Next is false because the SCAN is complete ... *)
ScanEnd(e) ==
  /\ ender[e] \in {"overview", "breakdown"}
  /\ must[e] = {}
  /\ NextPattern(e)
  /\ UNCHANGED <<version, cache, reader, ended, faults, failed>>

(* ... or because it failed: the goroutine does not tell the two apart. *)
ScanError(e) ==
  /\ ender[e] \in {"overview", "breakdown"}
  /\ faults < MaxFaults
  /\ faults' = faults + 1
  /\ failed' = failed \union {e}
  /\ NextPattern(e)
  /\ UNCHANGED <<version, cache, reader, ended>>

(* The process exits; nothing waits for the goroutine. *)
Exit(e) ==
  /\ ender[e] \in {"go", "overview", "breakdown"}
  /\ ender' = [ender EXCEPT ![e] = "killed"]
  /\ must' = [must EXCEPT ![e] = {}]
  /\ UNCHANGED <<version, cache, reader, ended, faults, failed>>
-----------------------------------------------------------------------------
Later(x, k) ==
  IF x.version < version[AppOf[k]] /\ x.late < MaxLate(k) THEN x.late + 1 ELSE x.late

(* A tick of Redis' clock: what has no time left is gone.  No handler takes  *)
(* longer than MaxDelay.                                                     *)
CacheTick ==
  /\ \A r \in Reader : reader[r].at = "set" => reader[r].waited < MaxDelay
  /\ cache' = [k \in Key |->
                 IF cache[k] = None \/ cache[k].ttl = 1 THEN None
                 ELSE [cache[k] EXCEPT !.ttl = @ - 1,
                                       !.late = Later(cache[k], k)]]
  /\ reader' = [r \in Reader |->
                  IF reader[r].at # "set" THEN reader[r]
                  ELSE [reader[r] EXCEPT !.waited = @ + 1,
                          !.late = Later(reader[r], reader[r].key)]]
  /\ must' = [e \in Ender |-> {k \in must[e] : cache'[k] # None}]
  /\ UNCHANGED <<version, ender, ended, faults, failed>>

Serve(r) == Query(r) \/ Refuse(r) \/ Set(r)
Invalidate(e) == ScanBegin(e) \/ ScanEnd(e) \/ \E k \in Key : Unlink(e, k)
Fault ==
  \/ \E r \in Reader : SetError(r) \/ \E k \in Key : GetError(r, k)
  \/ \E e \in Ender : ScanError(e) \/ Exit(e) \/ \E k \in Key : UnlinkError(e, k)

CacheNext ==
  \/ \E r \in Reader : Serve(r) \/ \E k \in Key : Get(r, k)
  \/ \E e \in Ender : EndUpdate(e) \/ Invalidate(e)
  \/ \E a \in App : Change(a)
  \/ Fault
  \/ CacheTick

CacheSpec == CacheInit /\ [][CacheNext]_cacheVars

(* Handlers finish and time passes.  Nothing obliges anybody to ask, to end  *)
(* a conference or to change data.                                           *)
FairCacheSpec == CacheSpec /\ WF_cacheVars(CacheTick) /\ \A r \in Reader : WF_cacheVars(Serve(r))
-----------------------------------------------------------------------------
(* When the goroutine of HandleEndConference has finished without a Redis    *)
(* error, every overview and breakdown of the app that is older than the     *)
(* UPDATE was put into the cache after the SCAN for its prefix had begun, by *)
(* a request that had queried before the UPDATE.  What had been cached       *)
(* earlier is gone, every time range of it.                                  *)
InvalidationComplete ==
  \A e \in Ender : ender[e] = "done" /\ e \notin failed =>
    \A k \in Key :
      /\ AppOf[k] = EnderApp[e]
      /\ Kind[k] \in {"overview", "breakdown"}
      /\ cache[k] # None
      => cache[k].version >= ended[e] \/ e \in cache[k].after

(* Whatever the order of queries, writes, expiries and invalidations, and    *)
(* with any Redis call failing, the cache never answers with data that was   *)
(* replaced longer ago than the TTL of its endpoint and one handler's delay. *)
StaleBounded == \A k \in Key : cache[k] # None => cache[k].late < MaxLate(k) - 1

(* Once the data no longer changes, cached answers agree with it for good:   *)
(* no late Set can bring an old answer back after that.                      *)
EventuallyFresh ==
  <>[](\A k \in Key : cache[k] # None => cache[k].version = version[AppOf[k]])
=============================================================================
