--------------------------- MODULE IngestService ---------------------------
(***************************************************************************)
(* The ingest API process: HTTP handlers, the worker pool, the stale-      *)
(* conference job, the eMOS goroutine and the shutdown sequence, over one  *)
(* Postgres database (services/ingest-api, internal/stale, internal/emos). *)
(*                                                                         *)
(* The pool is its contract, PoolContract.  Report p is the payload of one *)
(* POST /v1/events, request r one POST /v1/conferences/{id}/end.  The      *)
(* statistics of a session are the set of its stored reports, its quality  *)
(* the set of reports its eMOS score was computed from.                    *)
(***************************************************************************)
EXTENDS Integers, Sequences

CONSTANTS
  Conf, Session, Report, Request,
  AppOf, Name,     \* AppOf[c], Name[c]: app_id and external_id of a conference
  ConfOf,          \* ConfOf[s]: conference of a session
  SessionOf,       \* SessionOf[p]: session of a report
  Caller, Target,  \* Caller[r], Target[r]: app and external_id of a request
  BatchSize,       \* batch size of the pool
  EmosCap,         \* capacity of emosCh, 256 in main.go
  MaxFaults        \* bound on database errors

(* Conferences and requests are none of the words that stand for a state. *)
ASSUME IngestAssumption ==
  /\ \A s \in Session : ConfOf[s] \in Conf
  /\ \A p \in Report : SessionOf[p] \in Session
  /\ Report \intersect Request = {}
  /\ Conf \intersect {"select", "update", "ended", "idle"} = {}
  /\ Request \intersect {"absent", "open", "stale"} = {}

VARIABLES
  fate, stopped,   \* the pool, see PoolContract
  conf,            \* conf[c]: "absent", "open", or who ended it
  active,          \* active[c]: c has a stat newer than idleThreshold
  stats,           \* stats[s]: stored reports of session s
  quality,         \* quality[s]: reports behind session_quality of s
  http,            \* http[h]: progress of the handler of report or request h
  found,           \* found[r]: the conference request r looked up
  stale,           \* the stale job: "select", "update", "ended", or the
                   \* conference it has closed and will trigger eMOS for
  ids,             \* conferences left in the stale job's run
  woke,            \* those of them with statistics since the scan (history)
  emosCh, emosOpen,  \* the channel of conferences to score
  job,             \* the eMOS goroutine: "idle", "ended", or the conference
  left,            \* left: sessions the running job has yet to upsert
  main,            \* main: the step serveWithShutdown has reached
  faults,          \* database errors so far
  unqueued, failed,  \* conferences whose eMOS job was dropped, or failed (history)
  due              \* due[s]: statistics of s when its conference ended (history)

pool == <<fate, stopped>>
tables == <<conf, active, stats, quality>>
staleVars == <<stale, ids, woke>>
emosVars == <<emosCh, emosOpen, job, left>>
history == <<unqueued, failed, due>>
vars == <<pool, tables, http, found, staleVars, emosVars, main, faults, history>>

Pool == INSTANCE PoolContract WITH Payload <- Report

Handler == Report \union Request
Nobody == "nobody"

Init ==
  /\ Pool!CInit
  /\ conf = [c \in Conf |-> "absent"]
  /\ active = [c \in Conf |-> FALSE]
  /\ stats = [s \in Session |-> {}]
  /\ quality = [s \in Session |-> {}]
  /\ http = [h \in Handler |-> "new"]
  /\ found = [r \in Request |-> Nobody]
  /\ stale = "select" /\ ids = {} /\ woke = {}
  /\ emosCh = <<>> /\ emosOpen = TRUE
  /\ job = "idle" /\ left = {}
  /\ main = "serving"
  /\ faults = 0
  /\ unqueued = {} /\ failed = {} /\ due = [s \in Session |-> {}]

Running == main \notin {"exited", "failed"}
Fault == faults < MaxFaults /\ faults' = faults + 1

-----------------------------------------------------------------------------
(* A request reaches its handler while the server accepts connections. *)
Arrive(h) ==
  /\ main = "serving"
  /\ http[h] = "new"
  /\ http' = [http EXCEPT ![h] = "running"]
  /\ UNCHANGED <<pool, tables, found, staleVars, emosVars, main, faults, history>>

(* HandleEvents and HandleServerEvents: validatePayload refuses a payload, *)
EventsInvalid(p) ==
  /\ Running
  /\ http[p] = "running"
  /\ http' = [http EXCEPT ![p] = "400"]
  /\ UNCHANGED <<pool, tables, found, staleVars, emosVars, main, faults, history>>

(* ... or it is enqueued: 202 or 429. *)
HandleEvents(p) ==
  /\ Running
  /\ http[p] = "running"
  /\ \/ Pool!Accept(p) /\ http' = [http EXCEPT ![p] = "202"]
     \/ Pool!Reject(p) /\ http' = [http EXCEPT ![p] = "429"]
  /\ UNCHANGED <<tables, found, staleVars, emosVars, main, faults, history>>

(* A worker flushes the batch b and its transaction commits (Flusher): the   *)
(* conferences exist, ended ones stay ended, the statistics are stored.      *)
FlushCommit(b) ==
  /\ Running
  /\ Pool!Flush(b)
  /\ LET new == {b[i] : i \in DOMAIN b}
         touched == {ConfOf[SessionOf[p]] : p \in new}
     IN  /\ stats' = [s \in Session |->
                        stats[s] \union {p \in new : SessionOf[p] = s}]
         /\ conf' = [c \in Conf |-> IF c \in touched /\ conf[c] = "absent"
                                    THEN "open" ELSE conf[c]]
         /\ active' = [c \in Conf |-> active[c] \/ c \in touched]
         /\ woke' = woke \union (touched \intersect ids)
  /\ UNCHANGED <<quality, http, found, stale, ids, emosVars, main, faults, history>>

(* The flush fails and the batch goes to a dead-letter file. *)
FlushFail(b) ==
  /\ Running
  /\ Fault
  /\ Pool!Flush(b)
  /\ UNCHANGED <<tables, http, found, staleVars, emosVars, main, history>>

(* idleThreshold passes without a new statistic of c.  The ts of a statistic *)
(* is the client's clock, so this may be as soon as it is stored.            *)
GoIdle(c) ==
  /\ active[c]
  /\ active' = [active EXCEPT ![c] = FALSE]
  /\ UNCHANGED <<pool, conf, stats, quality, http, found, staleVars, emosVars,
                 main, faults, history>>

-----------------------------------------------------------------------------
(* emosTrigger: a non-blocking send that drops the job when emosCh is full. *)
emosTrigger(c) ==
  IF Len(emosCh) < EmosCap
  THEN emosCh' = Append(emosCh, c) /\ UNCHANGED unqueued
  ELSE unqueued' = unqueued \union {c} /\ UNCHANGED emosCh

(* UPDATE conferences SET ended_at = now(), by who. *)
EndNow(c, who) ==
  /\ conf' = [conf EXCEPT ![c] = who]
  /\ due' = [s \in Session |-> IF ConfOf[s] = c THEN stats[s] ELSE due[s]]

(* HandleEndConference: look the conference up by external_id (LIMIT 1: any  *)
(* match), compare the app, ...                                              *)
EndLookup(r) ==
  /\ Running
  /\ http[r] = "running"
  /\ LET match == {c \in Conf : conf[c] # "absent" /\ Name[c] = Target[r]}
     IN  \/ /\ match = {}
            /\ http' = [http EXCEPT ![r] = "404"]
            /\ UNCHANGED found
         \/ \E c \in match :
              /\ found' = [found EXCEPT ![r] = c]
              /\ http' = [http EXCEPT ![r] =
                            IF AppOf[c] = Caller[r] THEN "update" ELSE "403"]
  /\ UNCHANGED <<pool, tables, staleVars, emosVars, main, faults, history>>

(* Mutant: the UPDATE lacks "AND ended_at IS NULL". *)
EndUpdateAlways(r) ==
  /\ Running
  /\ http[r] = "update"
  /\ EndNow(found[r], r)
  /\ http' = [http EXCEPT ![r] = "trigger"]
  /\ UNCHANGED <<pool, active, stats, quality, found, staleVars, emosVars, main,
                 faults, unqueued, failed>>

(* ... set ended_at unless it is set, ... *)
EndUpdate(r) ==
  /\ Running
  /\ http[r] = "update"
  /\ IF conf[found[r]] = "open" THEN EndNow(found[r], r)
                                ELSE UNCHANGED <<conf, due>>
  /\ http' = [http EXCEPT ![r] = "trigger"]
  /\ UNCHANGED <<pool, active, stats, quality, found, staleVars, emosVars, main,
                 faults, unqueued, failed>>

(* ... and trigger eMOS in any case.  A send on the closed channel panics,   *)
(* which the Recoverer middleware turns into a 500.                          *)
EndTrigger(r) ==
  /\ Running
  /\ http[r] = "trigger"
  /\ IF emosOpen
     THEN emosTrigger(found[r]) /\ http' = [http EXCEPT ![r] = "202"]
     ELSE http' = [http EXCEPT ![r] = "panic"] /\ UNCHANGED <<emosCh, unqueued>>
  /\ UNCHANGED <<pool, tables, found, staleVars, emosOpen, job, left, main,
                 faults, failed, due>>

(* The lookup or the UPDATE fails. *)
EndError(r) ==
  /\ Running
  /\ http[r] \in {"running", "update"}
  /\ Fault
  /\ http' = [http EXCEPT ![r] = "500"]
  /\ UNCHANGED <<pool, tables, found, staleVars, emosVars, main, history>>

HandleEndConference(r) ==
  EndLookup(r) \/ EndUpdate(r) \/ EndTrigger(r) \/ EndError(r)

-----------------------------------------------------------------------------
(* Where RunOnce is when it has dealt with one conference. *)
AfterOne(rest) == IF rest = {} THEN "select" ELSE "update"

(* Mutant: the scan does not look at the statistics. *)
StaleTickAll ==
  /\ Running
  /\ stale = "select"
  /\ ids' = {c \in Conf : conf[c] = "open"} /\ woke' = {}
  /\ stale' = AfterOne(ids')
  /\ UNCHANGED <<pool, tables, http, found, emosVars, main, faults, history>>

(* The stale job.  RunOnce selects the idle open conferences, ... *)
StaleTick ==
  /\ Running
  /\ stale = "select"
  /\ ids' = {c \in Conf : conf[c] = "open" /\ ~active[c]} /\ woke' = {}
  /\ stale' = AfterOne(ids')
  /\ UNCHANGED <<pool, tables, http, found, emosVars, main, faults, history>>

(* Mutant: eMOS is not triggered. *)
StaleUpdateSilent(c) ==
  /\ Running
  /\ stale = "update"
  /\ c \in ids
  /\ ids' = ids \ {c} /\ woke' = woke \ {c}
  /\ IF conf[c] = "open" THEN EndNow(c, "stale") ELSE UNCHANGED <<conf, due>>
  /\ stale' = AfterOne(ids')
  /\ UNCHANGED <<pool, active, stats, quality, http, found, emosVars, main,
                 faults, unqueued, failed>>

(* ... closes one after the other, unless somebody else has, ... *)
StaleUpdate(c) ==
  /\ Running
  /\ stale = "update"
  /\ c \in ids
  /\ ids' = ids \ {c} /\ woke' = woke \ {c}
  /\ IF conf[c] = "open"
     THEN EndNow(c, "stale") /\ stale' = c
     ELSE UNCHANGED <<conf, due>> /\ stale' = AfterOne(ids')
  /\ UNCHANGED <<pool, active, stats, quality, http, found, emosVars, main,
                 faults, unqueued, failed>>

(* ... and triggers eMOS for those it closed.  Nothing recovers from a panic *)
(* here: see StaleSendSafe.                                                  *)
StaleTrigger ==
  /\ Running
  /\ stale \in Conf
  /\ emosOpen
  /\ emosTrigger(stale)
  /\ stale' = AfterOne(ids)
  /\ UNCHANGED <<pool, tables, http, found, ids, woke, emosOpen, job, left, main,
                 faults, failed, due>>

(* A failing UPDATE ends the run: the rest is left to the next tick. *)
StaleError ==
  /\ Running
  /\ stale = "update"
  /\ Fault
  /\ ids' = {} /\ woke' = {} /\ stale' = "select"
  /\ UNCHANGED <<pool, tables, http, found, emosVars, main, history>>

(* Mutant: Shutdown waits for the goroutine before it closes done. *)
StaleEndLate ==
  /\ stale = "select"
  /\ main = "retention"
  /\ stale' = "ended"
  /\ UNCHANGED <<pool, tables, http, found, ids, woke, emosVars, main, faults, history>>

(* done is closed by Shutdown; the loop sees it between two runs. *)
StaleEnd ==
  /\ stale = "select"
  /\ main = "stale"
  /\ stale' = "ended"
  /\ UNCHANGED <<pool, tables, http, found, ids, woke, emosVars, main, faults, history>>

-----------------------------------------------------------------------------
(* The eMOS goroutine: RunJob reads the statistics of every session of the   *)
(* conference that has any, then upserts one score after the other.  (The    *)
(* observations that follow change no state of this module.)                 *)
EmosReceive ==
  /\ Running
  /\ job = "idle"
  /\ emosCh # <<>>
  /\ job' = Head(emosCh)
  /\ emosCh' = Tail(emosCh)
  /\ left' = {[session |-> s, seen |-> stats[s]] :
                s \in {t \in Session : ConfOf[t] = Head(emosCh) /\ stats[t] # {}}}
  /\ UNCHANGED <<pool, tables, http, found, staleVars, emosOpen, main, faults,
                 history>>

EmosUpsert(q) ==
  /\ Running
  /\ q \in left
  /\ quality' = [quality EXCEPT ![q.session] = q.seen]
  /\ left' = left \ {q}
  /\ UNCHANGED <<pool, conf, active, stats, http, found, staleVars, emosCh,
                 emosOpen, job, main, faults, history>>

EmosDone ==
  /\ Running
  /\ job \in Conf
  /\ left = {}
  /\ job' = "idle"
  /\ UNCHANGED <<pool, tables, http, found, staleVars, emosCh, emosOpen, left,
                 main, faults, history>>

EmosError ==
  /\ Running
  /\ job \in Conf
  /\ Fault
  /\ job' = "idle" /\ left' = {}
  /\ failed' = failed \union {job}
  /\ UNCHANGED <<pool, tables, http, found, staleVars, emosCh, emosOpen, main,
                 unqueued, due>>

EmosEnd ==
  /\ Running
  /\ job = "idle"
  /\ ~emosOpen /\ emosCh = <<>>
  /\ job' = "ended"
  /\ UNCHANGED <<pool, tables, http, found, staleVars, emosCh, emosOpen, left,
                 main, faults, history>>

-----------------------------------------------------------------------------
(* serveWithShutdown: one step after the other. *)
Idle(h) == http[h] \notin {"running", "update", "trigger"}

Signal ==
  /\ main = "serving"
  /\ main' = "http"
  /\ UNCHANGED <<pool, tables, http, found, staleVars, emosVars, faults, history>>

(* ListenAndServe fails: main returns the error at once, without draining. *)
ServeError ==
  /\ main = "serving"
  /\ main' = "failed"
  /\ UNCHANGED <<pool, tables, http, found, staleVars, emosVars, faults, history>>

(* httpSrv.Shutdown waits for the running handlers, or gives up on them: they *)
(* keep running.                                                             *)
HttpDrained ==
  /\ main = "http"
  /\ \A h \in Handler : Idle(h)
  /\ main' = "pool"
  /\ UNCHANGED <<pool, tables, http, found, staleVars, emosVars, faults, history>>

HttpTimeout ==
  /\ main = "http"
  /\ \E h \in Handler : ~Idle(h)
  /\ main' = "pool"
  /\ UNCHANGED <<pool, tables, http, found, staleVars, emosVars, faults, history>>

(* Mutant: wp.Shutdown is not called. *)
PoolShutdownSkipped ==
  /\ main = "pool"
  /\ main' = "stale"
  /\ UNCHANGED <<pool, tables, http, found, staleVars, emosVars, faults, history>>

PoolShutdown ==
  /\ main = "pool"
  /\ Pool!Stop
  /\ main' = "stale"
  /\ UNCHANGED <<tables, http, found, staleVars, emosVars, faults, history>>

(* Mutant: the goroutine is not waited for. *)
StaleShutdownNoWait ==
  /\ main = "stale"
  /\ main' = "retention"
  /\ UNCHANGED <<pool, tables, http, found, staleVars, emosVars, faults, history>>

StaleShutdown ==
  /\ main = "stale"
  /\ stale = "ended"
  /\ main' = "retention"
  /\ UNCHANGED <<pool, tables, http, found, staleVars, emosVars, faults, history>>

RetentionShutdown ==
  /\ main = "retention"
  /\ main' = "close"
  /\ UNCHANGED <<pool, tables, http, found, staleVars, emosVars, faults, history>>

CloseEmos ==
  /\ main = "close"
  /\ emosOpen
  /\ emosOpen' = FALSE
  /\ UNCHANGED <<pool, tables, http, found, staleVars, emosCh, job, left, main,
                 faults, history>>

(* The metrics server is stopped, main returns and the process ends. *)
Exit ==
  /\ main = "close"
  /\ ~emosOpen
  /\ main' = "exited"
  /\ UNCHANGED <<pool, tables, http, found, staleVars, emosVars, faults, history>>

ShutdownStep ==
  \/ HttpDrained \/ HttpTimeout \/ PoolShutdown \/ StaleShutdown
  \/ RetentionShutdown \/ CloseEmos \/ Exit

serveWithShutdown == Signal \/ ServeError \/ ShutdownStep

Rest == ~Running /\ UNCHANGED vars

Batch == UNION {[1 .. n -> Report] : n \in 1 .. BatchSize}
Stale ==
  \/ StaleTick \/ StaleTrigger \/ StaleError
  \/ \E c \in Conf : StaleUpdate(c)
Emos ==
  \/ EmosReceive \/ EmosDone \/ EmosError \/ EmosEnd
  \/ \E q \in left : EmosUpsert(q)

Next ==
  \/ \E h \in Handler : Arrive(h)
  \/ \E p \in Report : HandleEvents(p) \/ EventsInvalid(p)
  \/ \E b \in Batch : FlushCommit(b) \/ FlushFail(b)
  \/ \E c \in Conf : GoIdle(c)
  \/ \E r \in Request : HandleEndConference(r)
  \/ Stale \/ StaleEnd
  \/ Emos
  \/ serveWithShutdown
  \/ Rest

Spec == Init /\ [][Next]_vars

(* Handlers, workers, the jobs and a shutdown in progress go on; nobody has  *)
(* to send a request or a signal.  The stale job's select chooses at random  *)
(* between tick and done, so it cannot ignore done for ever.                 *)
FairSpec ==
  /\ Spec
  /\ \A p \in Report : WF_vars(HandleEvents(p) \/ EventsInvalid(p))
  /\ \A r \in Request : WF_vars(HandleEndConference(r))
  /\ WF_vars(\E b \in Batch : FlushCommit(b) \/ FlushFail(b))
  /\ WF_vars(Stale) /\ SF_vars(StaleEnd)
  /\ WF_vars(Emos)
  /\ WF_vars(ShutdownStep)

-----------------------------------------------------------------------------
Ended(c) == conf[c] \notin {"absent", "open"}

(* Once set, ended_at is never changed or unset, whoever ends the conference *)
(* and however the handlers and the stale job interleave (end_conference.go: *)
(* 91, stale/job.go:132-133).                                                *)
EndedAtStable == [][\A c \in Conf : Ended(c) => conf'[c] = conf[c]]_vars

(* The stale job never sends on a closed emosCh, which would end the process *)
(* in the middle of its shutdown (serve.go:84-86).                           *)
StaleSendSafe == stale \in Conf => emosOpen

(* When the process exits, every report answered with 202 has left the pool, *)
(* and unless a flush failed it is in the database (serve.go:81-82).         *)
AcceptedStoredAtExit ==
  main = "exited" => \A p \in Report : http[p] = "202" =>
    /\ fate[p] = "flushed"
    /\ faults = 0 => p \in stats[SessionOf[p]]

(* The stale job closes a conference only if it had no recent statistics at  *)
(* the scan; any it has at the UPDATE came in between (stale/job.go:2-3).    *)
StaleClosesIdle ==
  [][\A c \in Conf : conf[c] = "open" /\ conf'[c] = "stale" =>
       ~active[c] \/ c \in woke]_vars

(* The process ended before the job of c had: it was queued or running, or   *)
(* about to be triggered; or a handler that outlived the shutdown timeout    *)
(* found emosCh closed.                                                      *)
CutOff(c) ==
  \/ /\ ~Running
     /\ \/ job = c \/ stale = c
        \/ \E i \in DOMAIN emosCh : emosCh[i] = c
        \/ \E r \in Request : found[r] = c /\ http[r] = "trigger"
  \/ \E r \in Request : found[r] = c /\ http[r] = "panic"

(* The statistics stored when a conference ended get into its score, unless  *)
(* the channel was full, the job failed, or the process ended before it: a   *)
(* shutdown alone loses nothing that emosCh can still take                   *)
(* (serve.go:84-92, main.go's emosTrigger).                                  *)
EndedIsScored ==
  \A s \in Session :
    Ended(ConfOf[s]) ~> \/ due[s] \subseteq quality[s]
                        \/ ConfOf[s] \in unqueued \union failed
                        \/ CutOff(ConfOf[s])

(* A shutdown once begun completes.                                          *)
ShutdownCompletes == main = "http" ~> main = "exited"
=============================================================================
