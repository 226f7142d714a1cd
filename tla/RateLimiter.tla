----------------------------- MODULE RateLimiter -----------------------------
(***************************************************************************)
(* The sliding-window rate limiter (internal/ratelimit): Allow reads the   *)
(* clock, and later Redis runs the Lua script as one step.  The answer     *)
(* arrives or is lost; when it does matters to nobody else.                *)
(*                                                                         *)
(* Time is in instants, PerSecond of them in a second; an instant stands   *)
(* for a value of UnixNano.  The member of the sorted set is the instant   *)
(* that the clock showed and its score is the second of that instant, so a *)
(* sorted set is a set of instants.                                        *)
(***************************************************************************)
EXTENDS Naturals, FiniteSets

CONSTANTS
  Key,           \* app ids and server API keys
  Request,
  KeyOf,         \* what keyFn returns for a request, never "" after
                 \* the authentication
  RateLimit,         \* Config.Max
  WindowSecs,
  PerSecond,
  MaxInstant,    \* bound on the clock
  MaxRedisFaults      \* bound on lost calls and answers

ASSUME LimiterAssumption ==
  /\ KeyOf \in [Request -> Key]
  /\ RateLimit \in Nat \ {0} /\ WindowSecs \in Nat \ {0} /\ PerSecond \in Nat \ {0}
  /\ MaxInstant \in Nat /\ MaxRedisFaults \in Nat

VARIABLES
  now,           \* the clock
  zset,          \* zset[k]: the sorted set "ratelimit:" k
  expireAt,      \* expireAt[k]: when Redis drops it
  at,            \* at[r]: where request r is
  read,          \* read[r]: the instant r read
  redisFaults,
  claims,        \* requests whose script has added an entry (history)
  ontime         \* those of them that added a new one in the second they read (history)

limiterVars == <<now, zset, expireAt, at, read, redisFaults, claims, ontime>>

Instant == 0..MaxInstant
Second(t) == t \div PerSecond

(* The set as Redis shows it: nothing once it has expired. *)
Entries(k) == IF now < expireAt[k] THEN zset[k] ELSE {}

(* now - window < score: in the window of a request that read t. *)
InWindow(m, t) == Second(m) + WindowSecs > Second(t)

LimiterInit ==
  /\ now = 0
  /\ zset = [k \in Key |-> {}]
  /\ expireAt = [k \in Key |-> 0]
  /\ at = [r \in Request |-> "new"]
  /\ read = [r \in Request |-> 0]
  /\ redisFaults = 0
  /\ claims = {}
  /\ ontime = {}

Go(r, s) == at' = [at EXCEPT ![r] = s]

Advance ==
  /\ now < MaxInstant
  /\ now' = now + 1
  /\ UNCHANGED <<zset, expireAt, at, read, redisFaults, claims, ontime>>

(* MiddlewareWithKeyFn: Allow reads the clock and sends the script. *)
ReadClock(r) ==
  /\ at[r] = "new"
  /\ read' = [read EXCEPT ![r] = now]
  /\ Go(r, "eval")
  /\ UNCHANGED <<now, zset, expireAt, redisFaults, claims, ontime>>

(* Mutant: nothing is removed. *)
PrunedNot(k, t) == Entries(k)

(* ZREMRANGEBYSCORE key 0 now-window *)
Pruned(k, t) == {m \in Entries(k) : InWindow(m, t)}

(* Mutant: EXPIRE with a second less. *)
LifetimeShort == (WindowSecs - 1) * PerSecond

(* ZCARD, count >= limit *)
Full(s) == Cardinality(s) >= RateLimit

(* EXPIRE key window *)
Lifetime == WindowSecs * PerSecond

(* The script; allowed tells whether it returns 1.  A set emptied by         *)
(* ZREMRANGEBYSCORE is gone with its expiry; ZADD of a member that is there  *)
(* adds nothing.                                                             *)
rateLimitScript(r, allowed) ==
  LET k == KeyOf[r]
      s == Pruned(k, read[r]) IN
  /\ allowed = ~Full(s)
  /\ zset' = [zset EXCEPT ![k] = IF allowed THEN s \union {read[r]} ELSE s]
  /\ expireAt' = [expireAt EXCEPT ![k] = IF allowed THEN now + Lifetime ELSE @]
  /\ claims' = IF allowed THEN claims \union {r} ELSE claims
  /\ ontime' = IF allowed /\ Second(read[r]) = Second(now) /\ read[r] \notin s
               THEN ontime \union {r} ELSE ontime

(* Allow returns the answer; the middleware serves the request or says 429. *)
Eval(r) ==
  /\ at[r] = "eval"
  /\ \E allowed \in BOOLEAN :
       /\ rateLimitScript(r, allowed)
       /\ Go(r, IF allowed THEN "served" ELSE "429")
  /\ UNCHANGED <<now, read, redisFaults>>

RedisFails == redisFaults < MaxRedisFaults /\ redisFaults' = redisFaults + 1

(* Eval returns an error without having run the script: fail open. *)
FailOpen(r) ==
  /\ at[r] = "eval"
  /\ RedisFails
  /\ Go(r, "served")
  /\ UNCHANGED <<now, zset, expireAt, read, claims, ontime>>

(* The script runs and its answer is lost: Eval returns an error, or the     *)
(* client library sends the same command again.                              *)
ScriptAnswerLost(r) ==
  /\ at[r] = "eval"
  /\ RedisFails
  /\ \E allowed \in BOOLEAN : rateLimitScript(r, allowed)
  /\ Go(r, "served") \/ Go(r, "eval")
  /\ UNCHANGED <<now, read>>

Allow(r) == ReadClock(r) \/ Eval(r) \/ FailOpen(r) \/ ScriptAnswerLost(r)
-----------------------------------------------------------------------------
(* In no window of WindowSecs seconds do the scripts of one key grant more   *)
(* than RateLimit slots to requests whose script ran in the second they read *)
(* and whose instant no other had: pruning and expiry forget no entry that   *)
(* still counts, whatever delayed, repeated or denied scripts run between.   *)
WithinLimit ==
  \A k \in Key, t \in Instant :
    Cardinality({r \in ontime : /\ KeyOf[r] = k
                                /\ InWindow(read[r], t)
                                /\ read[r] <= t}) <= RateLimit

(* A request is denied only when RateLimit slots of its own key have been    *)
(* claimed since its window began: entries that have left the window, and    *)
(* the use of other keys, deny nobody.                                       *)
DeniedWhenFull ==
  [][\A r \in Request : at[r] = "eval" /\ at'[r] = "429" =>
       Cardinality({q \in claims : /\ KeyOf[q] = KeyOf[r]
                                   /\ InWindow(read[q], read[r])}) >= RateLimit]_limiterVars
=============================================================================
