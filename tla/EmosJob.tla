------------------------------- MODULE EmosJob -------------------------------
(***************************************************************************)
(* The eMOS job of one conference (internal/emos): RunJob scores every     *)
(* session from the medians of its statistics and then evaluates the       *)
(* observation rules on every connection.  One goroutine runs the jobs one *)
(* after the other; the same conference may be triggered again, and        *)
(* statistics keep arriving.  The job, the handlers and the flush workers  *)
(* share a pool of database connections.                                   *)
(*                                                                         *)
(* Loss and concealment are in tenths of a percent, stored round trips and *)
(* jitter in tenths of a millisecond, R in tenths, scores in thousandths.  *)
(* Time is in instants, PerSecond of them in a second.  An observation is  *)
(* a rule with its first and last instant; message, average and severity   *)
(* follow from these.                                                      *)
(***************************************************************************)
EXTENDS Integers, FiniteSets, Sequences, Functions

CONSTANTS
  Session, Conn, SessionOf,
  Sample,        \* what a report can say about a connection
  Ice,           \* Ice[c]: instants with an ICE failure in events
  Config,        \* observation_config of the app
  LossCoeff,     \* EMOS_LOSS_COEFF in tenths; 75 unless it is set
  MaxConns,      \* connections of the database pool
  PerSecond, MaxInstant, MaxJobs, MaxFaults

NoRow == [none |-> TRUE]

ASSUME EmosAssumption ==
  /\ IsFiniteSet(Conn)
  /\ SessionOf \in [Conn -> Session]
  /\ PerSecond \in Nat \ {0} /\ LossCoeff \in Nat \ {0}
  /\ MaxConns \in Nat /\ MaxConns >= 2
  /\ NoRow \notin Sample
  /\ \A x \in Sample : x.loss \in 0..1000 /\ x.rtt \in Nat
  /\ MaxInstant \in Nat
  /\ Ice \in [Conn -> SUBSET (0..MaxInstant)]
  /\ Conn \intersect {"idle", "score", "connections"} = {}
  /\ \A k \in {"packet_loss_sustained_min", "rtt_high_min", "jitter_high_min",
               "audio_concealment_high_min"} :
       k \in DOMAIN Config => Config[k] \in Nat \ {0}   \* else samples[i-1] may not exist

VARIABLES
  stats,         \* connection_stats: stats[c][t], or NoRow
  quality,       \* session_quality: quality[s], or NoRow
  events,        \* observation rows of events, in the order of insertion
  at,            \* where the goroutine is
  scores,        \* rows of the query that are not upserted yet
  conns,         \* connections that are not evaluated yet
  todo,          \* allObservations that are not inserted yet
  busy,          \* connections of the pool that handlers and workers have
  jobs, faults,
  found          \* what the rules gave for the last connection, {} if an
                 \* insert failed (history)

jobVars == <<stats, quality, events, at, scores, conns, todo, jobs, faults, found>>
vars == <<jobVars, busy>>

Instant == 0..MaxInstant
-----------------------------------------------------------------------------
(* ComputeEMOS *)
Ie(loss) ==
  IF loss < 10 THEN 0
  ELSE IF loss < 50 THEN (loss - 10) * 3
  ELSE 120 + ((loss - 50) * LossCoeff) \div 10

(* Mutant: the second branch does not start where the first one ends. *)
IdGap(rtt) ==
  IF rtt < 500 THEN 0
  ELSE IF rtt < 2500 THEN ((rtt - 500) * 4) \div 100
  ELSE ((rtt - 2500) * 25) \div 1000

Id(rtt) ==
  IF rtt < 500 THEN 0
  ELSE IF rtt < 2500 THEN ((rtt - 500) * 4) \div 100
  ELSE 80 + ((rtt - 2500) * 25) \div 1000

Clamp(x, lo, hi) == IF x < lo THEN lo ELSE IF x > hi THEN hi ELSE x

Mos(r) == 1000 + (3500 * r + (r * (r - 600) * (1000 - r) * 7) \div 1000) \div 1000

ComputeEMOS(loss, rtt) ==
  LET r == Clamp(932 - Ie(loss) - Id(rtt), 0, 1000)
      mos == Clamp(Mos(r), 1000, 5000) IN
  [emos |-> mos,
   outcome |-> IF mos >= 3500 THEN "success"
               ELSE IF mos >= 2000 THEN "degraded" ELSE "failed"]

(* percentile_cont(0.5): f maps rows to values. *)
Ranked(f, k) ==
  CHOOSE v \in {f[x] : x \in DOMAIN f} :
    /\ Cardinality({x \in DOMAIN f : f[x] < v}) < k
    /\ Cardinality({x \in DOMAIN f : f[x] <= v}) >= k

Median(f) ==
  LET n == Cardinality(DOMAIN f) IN
  (Ranked(f, (n + 1) \div 2) + Ranked(f, n \div 2 + 1)) \div 2

RowsOf(st, s) ==
  {x \in Conn \X Instant : SessionOf[x[1]] = s /\ st[x[1]][x[2]] # NoRow}

Score(st, s) ==
  ComputeEMOS(Median([x \in RowsOf(st, s) |-> st[x[1]][x[2]].loss]),
              Median([x \in RowsOf(st, s) |-> st[x[1]][x[2]].rtt]))
-----------------------------------------------------------------------------
(* The thresholds: defaults, overridden by the app's configuration. *)
Defaults ==
  [packet_loss_sustained |-> 50, packet_loss_spike |-> 150, rtt_high |-> 300,
   rtt_spike_delta |-> 100, jitter_high |-> 50, audio_concealment_high |-> 100,
   bitrate_collapse_ratio |-> 50, packet_loss_sustained_min |-> 3,
   rtt_high_min |-> 2, jitter_high_min |-> 3, audio_concealment_high_min |-> 3]

loadThresholds ==
  [k \in DOMAIN Defaults |-> IF k \in DOMAIN Config THEN Config[k] ELSE Defaults[k]]

Obs(rule, rows, i, j) == [rule |-> rule, start |-> rows[i].ts, end |-> rows[j].ts]

(* A set of numbers as a sequence, the smallest first. *)
InOrder(S) ==
  CHOOSE s \in [1..Cardinality(S) -> S] : \A i, j \in DOMAIN s : i < j => s[i] < s[j]

(* The loop over consecutive.start and consecutive.count for n samples;      *)
(* bad has the indices of the samples over the threshold.                    *)
RunStep(p, i, bad, min) ==
  IF i \in bad
  THEN [start |-> IF p.count = 0 THEN i ELSE p.start, count |-> p.count + 1, out |-> p.out]
  ELSE [start |-> p.start, count |-> 0,
        out |-> IF p.count >= min THEN Append(p.out, <<p.start, i - 1>>) ELSE p.out]

RunLoop(n, bad, min) ==
  LET loop[i \in 0..n] == IF i = 0 THEN [start |-> 0, count |-> 0, out |-> <<>>]
                          ELSE RunStep(loop[i - 1], i, bad, min)
  IN loop[n]

(* Mutant: a run that lasts to the end of the samples is not reported. *)
RunsNoTail(n, bad, min) == RunLoop(n, bad, min).out

(* The loop, and the run that lasts to the end of the samples. *)
Runs(n, bad, min) ==
  LET last == RunLoop(n, bad, min)
  IN IF last.count >= min THEN Append(last.out, <<last.start, n>>) ELSE last.out

Sustained(rule, rows, bad, min) ==
  LET found_ == Runs(Len(rows), bad, min)
  IN [n \in DOMAIN found_ |-> Obs(rule, rows, found_[n][1], found_[n][2])]

evaluatePacketLossSustained(rows, th) ==
  Sustained("packet_loss_sustained", rows,
            {i \in DOMAIN rows : rows[i].loss > th.packet_loss_sustained},
            th.packet_loss_sustained_min)

evaluateRTTHigh(rows, th) ==
  Sustained("rtt_high", rows, {i \in DOMAIN rows : rows[i].rtt > th.rtt_high},
            th.rtt_high_min)

evaluateJitterHigh(rows, th) ==
  Sustained("jitter_high", rows, {i \in DOMAIN rows : rows[i].jitter > th.jitter_high},
            th.jitter_high_min)

evaluateAudioConcealmentHigh(rows, th) ==
  Sustained("audio_concealment_high", rows,
            {i \in DOMAIN rows : rows[i].concealment > th.audio_concealment_high},
            th.audio_concealment_high_min)

(* Two samples in a row in which the freeze count grew; the run begins at    *)
(* the sample before.                                                        *)
evaluateVideoFreezeRepeated(rows) ==
  LET grown == Runs(Len(rows), {i \in DOMAIN rows :
                                  i > 1 /\ rows[i].freeze > rows[i - 1].freeze}, 2)
  IN [n \in DOMAIN grown |->
        Obs("video_freeze_repeated", rows, grown[n][1] - 1, grown[n][2])]

(* The rules on single samples and on pairs of them; hit has their indices. *)
Spikes(rule, rows, hit) ==
  [n \in DOMAIN InOrder(hit) |-> Obs(rule, rows, InOrder(hit)[n], InOrder(hit)[n])]

Pairs(rule, rows, hit) ==
  [n \in DOMAIN InOrder(hit) |-> Obs(rule, rows, InOrder(hit)[n] - 1, InOrder(hit)[n])]

evaluatePacketLossSpike(rows, th) ==
  Spikes("packet_loss_spike", rows,
         {i \in DOMAIN rows : rows[i].loss > th.packet_loss_spike})

evaluateRTTSpike(rows, th) ==
  Pairs("rtt_spike", rows,
        {i \in DOMAIN rows : i > 1 /\ rows[i].rtt - rows[i - 1].rtt > th.rtt_spike_delta})

(* drop > ratio, with the ratio in percent *)
evaluateBitrateCollapse(rows, th) ==
  Pairs("bitrate_collapse", rows,
        {i \in DOMAIN rows :
           /\ i > 1
           /\ rows[i - 1].bitrate > 0
           /\ 100 * rows[i].bitrate
                < (100 - th.bitrate_collapse_ratio) * rows[i - 1].bitrate})

evaluateICEFailure(c) ==
  [n \in DOMAIN InOrder(Ice[c]) |->
     [rule |-> "ice_failure", start |-> InOrder(Ice[c])[n], end |-> InOrder(Ice[c])[n]]]

(* DefaultRules, in order, the ICE rule aside. *)
RuleObservations(rows, th) ==
  evaluatePacketLossSustained(rows, th) \o evaluatePacketLossSpike(rows, th)
    \o evaluateRTTHigh(rows, th) \o evaluateRTTSpike(rows, th)
    \o evaluateJitterHigh(rows, th) \o evaluateVideoFreezeRepeated(rows)
    \o evaluateAudioConcealmentHigh(rows, th) \o evaluateBitrateCollapse(rows, th)

(* Scan puts float4 columns into int32 fields: pgx takes whole numbers only. *)
Whole(ms) == ms % 10 = 0

Scans(c) ==
  \A t \in Instant :
    stats[c][t] # NoRow => Whole(stats[c][t].rtt) /\ Whole(stats[c][t].jitter)

(* The rows in the order of ts, when all of them can be scanned.             *)
(* VideoFreezeCount is not loaded: it is 0.                                  *)
loadConnectionStats(c) ==
  LET ts == InOrder({t \in Instant : stats[c][t] # NoRow})
  IN [i \in DOMAIN ts |->
        [ts |-> ts[i], loss |-> stats[c][ts[i]].loss, rtt |-> stats[c][ts[i]].rtt \div 10,
         jitter |-> stats[c][ts[i]].jitter \div 10, freeze |-> 0,
         concealment |-> stats[c][ts[i]].concealment,
         bitrate |-> stats[c][ts[i]].bitrate]]
-----------------------------------------------------------------------------
Init ==
  /\ stats = [c \in Conn |-> [t \in Instant |-> NoRow]]
  /\ quality = [s \in Session |-> NoRow]
  /\ events = <<>>
  /\ at = "idle"
  /\ scores = {} /\ conns = {} /\ todo = <<>>
  /\ jobs = 0 /\ faults = 0
  /\ found = {}
  /\ busy = 0

Fault == faults < MaxFaults /\ faults' = faults + 1

(* A flush stores a report, in whatever order. *)
Store(c, t, x) ==
  /\ stats[c][t] = NoRow
  /\ stats' = [stats EXCEPT ![c][t] = x]
  /\ UNCHANGED <<quality, events, at, scores, conns, todo, jobs, faults, found>>

(* RunJob: one query gives the medians of every session with statistics. *)
QuerySessions ==
  /\ at = "idle"
  /\ jobs < MaxJobs
  /\ jobs' = jobs + 1
  /\ at' = "score"
  /\ scores' = {[session |-> s, score |-> Score(stats, s)] :
                  s \in {s \in Session : RowsOf(stats, s) # {}}}
  /\ UNCHANGED <<stats, quality, events, conns, todo, faults, found>>

(* INSERT ... ON CONFLICT DO UPDATE, session by session. *)
Upsert(row) ==
  /\ at = "score"
  /\ row \in scores
  /\ quality' = [quality EXCEPT ![row.session] = row.score]
  /\ scores' = scores \ {row}
  /\ UNCHANGED <<stats, events, at, conns, todo, jobs, faults, found>>

(* The query or an upsert fails: RunJob returns. *)
JobError ==
  /\ at = "score"
  /\ Fault
  /\ at' = "idle"
  /\ scores' = {}
  /\ UNCHANGED <<stats, quality, events, conns, todo, jobs, found>>

(* runObservations: the connections of the conference, ... *)
QueryConnections ==
  /\ at = "score" /\ scores = {}
  /\ at' = "connections"
  /\ conns' = Conn
  /\ UNCHANGED <<stats, quality, events, scores, todo, jobs, faults, found>>

(* ... or an error, which RunJob logs. *)
QueryConnectionsError ==
  /\ at = "score" /\ scores = {}
  /\ Fault
  /\ at' = "idle"
  /\ UNCHANGED <<stats, quality, events, scores, conns, todo, jobs, found>>

(* EvaluateConnection: load, evaluate all rules.  A row that does not scan   *)
(* is an error, which runObservations logs; without rows there is nothing to *)
(* do; an error of the ICE query leaves out that rule only.                  *)
EvaluateConnection(c) ==
  /\ at = "connections"
  /\ c \in conns
  /\ conns' = conns \ {c}
  /\ LET rows == loadConnectionStats(c)
         obs == RuleObservations(rows, loadThresholds) IN
     IF ~Scans(c) \/ rows = <<>>
     THEN /\ found' = {}
          /\ UNCHANGED <<at, todo, faults>>
     ELSE /\ at' = c
          /\ \/ /\ todo' = obs \o evaluateICEFailure(c)
                /\ UNCHANGED faults
             \/ Fault /\ todo' = obs
          /\ found' = Range(todo')
  /\ UNCHANGED <<stats, quality, events, scores, jobs>>

(* Loading the rows or the thresholds fails: on to the next connection. *)
EvaluateError(c) ==
  /\ at = "connections"
  /\ c \in conns
  /\ Fault
  /\ conns' = conns \ {c}
  /\ found' = {}
  /\ UNCHANGED <<stats, quality, events, at, scores, todo, jobs>>

(* What Format(time.RFC3339) keeps of an instant. *)
RFC3339(t) == (t \div PerSecond) * PerSecond

(* Mutants: the rule alone decides; there is no check. *)
ExistsRule(c, o) == \E e \in Range(events) : e.conn = c /\ e.obs.rule = o.rule
ExistsNot(c, o) == FALSE

(* SELECT EXISTS: the payload has the formatted times, $3 and $4 are exact. *)
Exists(c, o) ==
  \E e \in Range(events) :
    /\ e.conn = c
    /\ e.obs.rule = o.rule
    /\ RFC3339(e.obs.start) = o.start
    /\ RFC3339(e.obs.end) = o.end

(* insertObservationIfNew.  The row is kept with the exact times of its      *)
(* observation (history); the code reads only RFC3339 of them.               *)
insertObservationIfNew ==
  /\ at \in Conn /\ todo # <<>>
  /\ events' = IF Exists(at, Head(todo)) THEN events
               ELSE Append(events, [conn |-> at, obs |-> Head(todo)])
  /\ todo' = Tail(todo)
  /\ UNCHANGED <<stats, quality, at, scores, conns, jobs, faults, found>>

(* The check or the INSERT fails: on to the next observation. *)
InsertError ==
  /\ at \in Conn /\ todo # <<>>
  /\ Fault
  /\ todo' = Tail(todo)
  /\ found' = found \ {Head(todo)}
  /\ UNCHANGED <<stats, quality, events, at, scores, conns, jobs>>

NextConnection ==
  /\ at \in Conn /\ todo = <<>>
  /\ at' = "connections"
  /\ found' = {}
  /\ UNCHANGED <<stats, quality, events, scores, conns, todo, jobs, faults>>

JobDone ==
  /\ at = "connections" /\ conns = {}
  /\ at' = "idle"
  /\ found' = {}
  /\ UNCHANGED <<stats, quality, events, scores, conns, todo, jobs, faults>>

(* Mutant: the first query's rows stay open until RunJob returns. *)
HeldBoth ==
  IF at = "idle" THEN 0 ELSE IF at = "score" THEN 1 ELSE 2

(* The connection of the query whose rows the job is reading.  Next gives it *)
(* back after the last row.                                                  *)
Held ==
  IF at = "idle" \/ (at = "score" /\ scores = {}) \/ (at = "connections" /\ conns = {})
  THEN 0 ELSE 1

ConnFree == Held + busy < MaxConns

(* Every statement of the job needs a connection of its own. *)
Statement ==
  \/ QuerySessions \/ QueryConnections \/ QueryConnectionsError \/ JobError
  \/ \E row \in scores : Upsert(row)
  \/ \E c \in conns : EvaluateConnection(c) \/ EvaluateError(c)
  \/ insertObservationIfNew \/ InsertError

RunJob ==
  /\ (ConnFree /\ Statement) \/ NextConnection \/ JobDone
  /\ UNCHANGED busy

(* A handler or a worker takes a connection for a statement or a transaction *)
(* and gives it back; none of them waits for another one meanwhile.          *)
Acquire == ConnFree /\ busy' = busy + 1 /\ UNCHANGED jobVars

Release == busy > 0 /\ busy' = busy - 1 /\ UNCHANGED jobVars

Quiet == at = "idle" /\ jobs = MaxJobs /\ UNCHANGED vars

Next ==
  \/ \E c \in Conn, t \in Instant, x \in Sample : Store(c, t, x) /\ UNCHANGED busy
  \/ RunJob
  \/ Acquire \/ Release
  \/ Quiet

(* Statements end, and the pool serves those who wait in their order, so the *)
(* job gets on.  Every step that takes c from conns evaluates it.            *)
Evaluated(c) == at = "connections" /\ ConnFree /\ conns' = conns \ {c}

Writes ==
  /\ ConnFree
  /\ (\E row \in scores : Upsert(row)) \/ QueryConnections \/ insertObservationIfNew
  /\ UNCHANGED busy

Fairness ==
  /\ WF_vars(Release)
  /\ SF_vars(Writes)
  /\ SF_conns(\E c \in conns : Evaluated(c))
  /\ WF_vars((NextConnection \/ JobDone) /\ UNCHANGED busy)

Spec == Init /\ [][Next]_vars /\ Fairness
-----------------------------------------------------------------------------
(* The reference for the loop of the sustained rules: the maximal runs of    *)
(* samples over the threshold that are at least min long.                    *)
MaximalRuns(n, bad, min) ==
  {r \in (1..n) \X (1..n) :
     /\ r[2] - r[1] + 1 >= min
     /\ r[1]..r[2] \subseteq bad
     /\ r[1] - 1 \notin bad /\ r[2] + 1 \notin bad}

LoopIsMaximal ==
  \A n \in 0..7 : \A bad \in SUBSET (1..n), min \in 1..4 :
    LET out == Runs(n, bad, min) IN
    /\ Range(out) = MaximalRuns(n, bad, min)
    /\ \A i, j \in DOMAIN out : i < j => out[i][2] < out[j][1]

(* The runs of high loss in what is stored about a connection. *)
LossRuns(c) ==
  LET ts == InOrder({t \in Instant : stats[c][t] # NoRow})
      bad == {i \in DOMAIN ts : stats[c][ts[i]].loss > loadThresholds.packet_loss_sustained}
  IN {[rule |-> "packet_loss_sustained", start |-> ts[r[1]], end |-> ts[r[2]]] :
        r \in MaximalRuns(Len(ts), bad, loadThresholds.packet_loss_sustained_min)}

(* The loop of evaluatePacketLossSustained and its copies finds each maximal *)
(* run of bad samples, once and in order, a run that reaches the last sample *)
(* included: for every sequence of up to seven samples, and for what is      *)
(* stored about a connection that is about to be evaluated, if it can be     *)
(* loaded (see ObservationsOnAll).                                           *)
SustainedIsMaximal ==
  /\ LoopIsMaximal
  /\ \A c \in conns : at = "connections" /\ Scans(c) =>
       Range(evaluatePacketLossSustained(loadConnectionStats(c), loadThresholds))
         = LossRuns(c)

(* "RunJob also runs the observations engine on all connections to detect    *)
(* quality issues" (emos/job.go:14-15): a connection whose turn comes while  *)
(* nothing fails in the database gets an observation for every run of high   *)
(* loss in its statistics.                                                   *)
ObservationsOnAll ==
  [][\A c \in conns : c \notin conns' /\ faults' = faults => LossRuns(c) \subseteq found']_vars

EmosFalls ==
  \A loss \in 0..300, d \in 0..100 :
    LET emos(l, r) == ComputeEMOS(l, r).emos IN
    /\ emos(loss + 1, 100 * d) <= emos(loss, 100 * d)
    /\ emos(loss, 100 * d + 100) <= emos(loss, 100 * d)

(* More loss or a longer round trip never gives a higher score, across the   *)
(* branches of the two impairments, the clamps and the cubic: for losses to  *)
(* 30% and round trips to a second, and for a session, through its medians,  *)
(* when one of its samples is replaced by a worse one.                       *)
ScoreMonotone ==
  /\ EmosFalls
  /\ at = "score" =>
       \A c \in Conn, t \in Instant, x \in Sample :
         /\ stats[c][t] # NoRow
         /\ x.loss >= stats[c][t].loss /\ x.rtt >= stats[c][t].rtt
         => Score([stats EXCEPT ![c][t] = x], SessionOf[c]).emos
              <= Score(stats, SessionOf[c]).emos

(* An observation with times in whole seconds is stored once, however often  *)
(* the job runs and whatever statistics arrive between the runs.             *)
WholeSecondsOnce ==
  \A i, j \in DOMAIN events :
    LET o == events[i].obs IN
    events[i] = events[j] /\ RFC3339(o.start) = o.start /\ RFC3339(o.end) = o.end => i = j

(* When EvaluateConnection is done with a connection, everything the rules   *)
(* found is in the events table to the second, except what failed to be      *)
(* inserted: the check for duplicates suppresses nothing else.               *)
FoundIsStored ==
  at \in Conn /\ todo = <<>> =>
    \A o \in found : \E e \in Range(events) :
      /\ e.conn = at /\ e.obs.rule = o.rule
      /\ RFC3339(e.obs.start) = RFC3339(o.start)
      /\ RFC3339(e.obs.end) = RFC3339(o.end)

(* A job that has begun returns, although it asks for a second connection    *)
(* while it reads the rows of a query, and handlers and workers compete for  *)
(* the pool: two connections are enough (emos/job.go:43-55, 106-115).        *)
JobReturns == at # "idle" ~> at = "idle"
=============================================================================
