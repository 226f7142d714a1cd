----------------------------- MODULE Retention -----------------------------
(***************************************************************************)
(* The data-retention job (internal/retention/job.go): once a day it       *)
(* drops the monthly partitions of connection_stats that are too old and   *)
(* deletes old events app by app.                                          *)
(*                                                                         *)
(* Time is counted in ticks, TicksPerDay to a day, DaysPerMonth days to a  *)
(* month.  Each app stores a statistic at every tick, in the partition of  *)
(* the month, and an event at the first tick of every day.  A statistic is *)
(* visible as long as its partition is attached, so no variable holds the  *)
(* statistics.                                                             *)
(***************************************************************************)
EXTENDS Integers, FiniteSets

CONSTANTS
  App, RetentionDays,        \* RetentionDays[a]: 0 means keep for ever
  TicksPerDay, DaysPerMonth,
  RunTick,                   \* tick of the day named by the cron expression
  DeleteBatch,               \* batchSize
  MaxTick, MaxErrors, MaxRestarts   \* bounds

ASSUME RetentionAssumption ==
  /\ TicksPerDay \in Nat \ {0}
  /\ DaysPerMonth \in Nat \ {0}
  /\ RunTick \in 0..TicksPerDay - 1
  /\ DeleteBatch \in Nat \ {0}
  /\ MaxTick \in Nat /\ MaxErrors \in Nat /\ MaxRestarts \in Nat
  /\ RetentionDays \in [App -> Nat]

VARIABLES
  now,             \* the clock, in ticks
  part,            \* part[m]: state of table m
  events,          \* the stored events, pairs of an app and a time
  loop,             \* where the goroutine is
  next,            \* time the timer is set to
  todo,            \* old partitions left in this run
  table,           \* the partition between DETACH and DROP
  appsLeft,        \* apps left in this run
  app, cutoff,     \* the app whose events are being deleted, and its cutoff
  done,            \* ctx is cancelled and the done channel closed
  stopper,         \* progress of the Shutdown call
  errors, restarts \* database errors and restarts so far

stores == <<part, events>>
runVars == <<todo, table, appsLeft, app, cutoff>>
stopVars == <<done, stopper>>
bounds == <<errors, restarts>>
jobVars == <<now, stores, loop, next, runVars, stopVars, bounds>>

NoApp == "no app"
DaysAgo(t, n) == t - n * TicksPerDay
FirstOfDay(t) == t % TicksPerDay = 0
Month(t) == t \div (TicksPerDay * DaysPerMonth)

(* A table connection_stats_* is named by its month; NotAMonth is one whose *)
(* suffix parsePartitionMonth refuses.                                      *)
NotAMonth == -1
Table == (0..Month(MaxTick)) \union {NotAMonth}
parsePartitionMonth(m) == IF m = NotAMonth THEN {} ELSE {m}

nextRunTime(from) ==
  LET today == (from \div TicksPerDay) * TicksPerDay + RunTick
  IN  IF today > from THEN today ELSE today + TicksPerDay

JobInit ==
  /\ now = 0
  /\ part = [m \in Table |-> "attached"]
  /\ events = {<<a, 0>> : a \in App}
  /\ loop = "new"
  /\ next = 0
  /\ todo = {} /\ table = NotAMonth /\ appsLeft = {} /\ app = NoApp /\ cutoff = 0
  /\ done = FALSE /\ stopper = "idle"
  /\ errors = 0 /\ restarts = 0

-----------------------------------------------------------------------------
(* The rest of the system: time passes and every app stores its rows. *)
TimePasses ==
  /\ now < MaxTick
  /\ now' = now + 1
  /\ events' = events \union (IF FirstOfDay(now + 1) THEN {<<a, now + 1>> : a \in App} ELSE {})
  /\ UNCHANGED <<part, loop, next, runVars, stopVars, bounds>>

(* A statement fails: always once ctx is cancelled, else at most MaxErrors *)
(* times.                                                                  *)
StatementFails ==
  /\ done \/ errors < MaxErrors
  /\ errors' = IF done THEN errors ELSE errors + 1

-----------------------------------------------------------------------------
(* Start: an expression parseDailyCron accepts starts the goroutine. *)
Start ==
  /\ loop = "new"
  /\ loop' = "select"
  /\ next' = nextRunTime(now)
  /\ UNCHANGED <<now, stores, runVars, stopVars, bounds>>

StartInvalid ==
  /\ loop = "new"
  /\ loop' = "stopped"
  /\ UNCHANGED <<now, stores, next, runVars, stopVars, bounds>>

(* The timer fires.  At the end of the modelled time it keeps firing. *)
TimerDue == now >= next \/ now = MaxTick

Managed == {a \in App : RetentionDays[a] > 0}

RunEnds ==
  /\ loop' = "select"
  /\ next' = nextRunTime(now)
  /\ todo' = {} /\ table' = NotAMonth /\ appsLeft' = {} /\ app' = NoApp /\ cutoff' = 0

(* RunOnce: SELECT the apps with a retention; without one the run is over. *)
RunOnce ==
  /\ loop = "select" /\ TimerDue /\ ~done
  /\ IF Managed = {}
     THEN RunEnds
     ELSE /\ loop' = "list"
          /\ appsLeft' = Managed
          /\ UNCHANGED <<next, todo, table, app, cutoff>>
  /\ UNCHANGED <<now, stores, stopVars, bounds>>

RunOnceError ==
  /\ loop = "select" /\ TimerDue
  /\ StatementFails
  /\ RunEnds
  /\ UNCHANGED <<now, stores, stopVars, restarts>>

-----------------------------------------------------------------------------
minRetentionDays ==
  CHOOSE d \in {RetentionDays[a] : a \in Managed} :
    \A a \in Managed : d <= RetentionDays[a]

(* Mutant: the month of the cutoff is dropped too. *)
IsOldTooFar(m) ==
  \E month \in parsePartitionMonth(m) : month <= Month(DaysAgo(now, minRetentionDays))

(* partMonth.Before(cutoffMonth) *)
IsOld(m) ==
  \E month \in parsePartitionMonth(m) : month < Month(DaysAgo(now, minRetentionDays))

(* dropOldPartitions lists the tables, attached or not. *)
ListPartitions ==
  /\ loop = "list" /\ ~done
  /\ loop' = "detach"
  /\ todo' = {m \in Table : part[m] # "gone" /\ IsOld(m)}
  /\ UNCHANGED <<now, stores, next, table, appsLeft, app, cutoff, stopVars, bounds>>

ListError ==
  /\ loop = "list"
  /\ StatementFails
  /\ RunEnds
  /\ UNCHANGED <<now, stores, stopVars, restarts>>

First(m) == m \in todo /\ \A n \in todo : m <= n

Detach(m) ==
  /\ loop = "detach" /\ First(m) /\ ~done
  /\ part[m] = "attached"
  /\ part' = [part EXCEPT ![m] = "detached"]
  /\ todo' = todo \ {m}
  /\ table' = m
  /\ loop' = "drop"
  /\ UNCHANGED <<now, events, next, appsLeft, app, cutoff, stopVars, bounds>>

(* DETACH fails and the table is skipped.  It always fails on a table that *)
(* is not attached; a failure reported for one that is may come after the  *)
(* statement took effect.                                                  *)
DetachError(m) ==
  /\ loop = "detach" /\ First(m)
  /\ IF part[m] = "attached"
     THEN /\ StatementFails
          /\ part' \in {part, [part EXCEPT ![m] = "detached"]}
     ELSE UNCHANGED <<part, errors>>
  /\ todo' = todo \ {m}
  /\ UNCHANGED <<now, events, loop, next, table, appsLeft, app, cutoff, stopVars, restarts>>

(* Mutant: DROP is never sent. *)
DropForgotten ==
  /\ loop = "drop" /\ ~done
  /\ loop' = "detach"
  /\ table' = NotAMonth
  /\ UNCHANGED <<now, stores, next, todo, appsLeft, app, cutoff, stopVars, bounds>>

Drop ==
  /\ loop = "drop" /\ ~done
  /\ part' = [part EXCEPT ![table] = "gone"]
  /\ loop' = "detach"
  /\ table' = NotAMonth
  /\ UNCHANGED <<now, events, next, todo, appsLeft, app, cutoff, stopVars, bounds>>

(* A failed DROP ends the run, events included. *)
DropError ==
  /\ loop = "drop"
  /\ StatementFails
  /\ part' \in {part, [part EXCEPT ![table] = "gone"]}
  /\ RunEnds
  /\ UNCHANGED <<now, events, stopVars, restarts>>

-----------------------------------------------------------------------------
(* Mutant: one cutoff for all apps. *)
appCutoffShared(a) == DaysAgo(now, minRetentionDays)

(* cutoff := time.Now().UTC().AddDate(0, 0, -a.retentionDays) *)
appCutoff(a) == DaysAgo(now, RetentionDays[a])

(* The partitions are done: the events of the next app. *)
NextApp(a) ==
  /\ loop \in {"detach", "delete"} /\ todo = {} /\ app = NoApp
  /\ a \in appsLeft
  /\ loop' = "delete"
  /\ app' = a
  /\ appsLeft' = appsLeft \ {a}
  /\ cutoff' = appCutoff(a)
  /\ UNCHANGED <<now, stores, next, todo, table, stopVars, bounds>>

OldEvents == {e \in events : e[1] = app /\ e[2] < cutoff}

(* deleteOldEvents: one DELETE of at most DeleteBatch rows; the one that     *)
(* finds none ends the loop.                                               *)
deleteOldEvents ==
  /\ loop = "delete" /\ app # NoApp /\ ~done
  /\ \E batch \in SUBSET OldEvents :
       /\ batch = OldEvents \/ Cardinality(batch) = DeleteBatch
       /\ Cardinality(batch) <= DeleteBatch
       /\ events' = events \ batch
       /\ app' = IF batch = {} THEN NoApp ELSE app
  /\ UNCHANGED <<now, part, loop, next, todo, table, appsLeft, cutoff, stopVars, bounds>>

DeleteError ==
  /\ loop = "delete" /\ app # NoApp
  /\ StatementFails
  /\ RunEnds
  /\ UNCHANGED <<now, stores, stopVars, restarts>>

(* Mutant: the run returns after one app. *)
RunReturnsEarly ==
  /\ loop = "delete" /\ app = NoApp
  /\ RunEnds
  /\ UNCHANGED <<now, stores, stopVars, bounds>>

RunReturns ==
  /\ loop = "delete" /\ app = NoApp /\ appsLeft = {}
  /\ RunEnds
  /\ UNCHANGED <<now, stores, stopVars, bounds>>

-----------------------------------------------------------------------------
(* Mutant: Shutdown waits without having closed done. *)
JobShutdownNoClose ==
  /\ stopper = "idle" /\ loop # "new"
  /\ stopper' = "waiting"
  /\ UNCHANGED <<now, stores, loop, next, runVars, done, bounds>>

JobShutdown ==
  /\ stopper = "idle" /\ loop # "new"
  /\ stopper' = "waiting"
  /\ done' = TRUE
  /\ UNCHANGED <<now, stores, loop, next, runVars, bounds>>

JobEnd ==
  /\ loop = "select" /\ done
  /\ loop' = "stopped"
  /\ UNCHANGED <<now, stores, next, runVars, stopVars, bounds>>

JobShutdownReturn ==
  /\ stopper = "waiting" /\ loop = "stopped"
  /\ stopper' = "returned"
  /\ UNCHANGED <<now, stores, loop, next, runVars, done, bounds>>

(* The process ends, at a shutdown or by a crash, and a new one starts. *)
Restart ==
  /\ restarts < MaxRestarts
  /\ restarts' = restarts + 1
  /\ loop' = "new"
  /\ todo' = {} /\ table' = NotAMonth /\ appsLeft' = {} /\ app' = NoApp /\ cutoff' = 0
  /\ done' = FALSE /\ stopper' = "idle"
  /\ UNCHANGED <<now, stores, next, errors>>

JobStep ==
  \/ Start \/ StartInvalid
  \/ RunOnce \/ RunOnceError
  \/ ListPartitions \/ ListError
  \/ \E m \in Table : Detach(m) \/ DetachError(m)
  \/ Drop \/ DropError
  \/ \E a \in App : NextApp(a)
  \/ deleteOldEvents \/ DeleteError
  \/ RunReturns

JobNext == TimePasses \/ JobStep \/ JobEnd \/ JobShutdown \/ JobShutdownReturn \/ Restart

JobSpec == JobInit /\ [][JobNext]_jobVars

(* Time passes, statements return and the goroutine is scheduled.  Its     *)
(* select chooses at random between a due timer and done, so it cannot     *)
(* choose the timer for ever.                                              *)
JobFairness ==
  /\ WF_jobVars(TimePasses) /\ WF_jobVars(JobStep) /\ SF_jobVars(JobEnd) /\ WF_jobVars(JobShutdownReturn)

FairJobSpec == JobSpec /\ JobFairness

-----------------------------------------------------------------------------
(* An event is deleted only when it is older than the retention of its own  *)
(* app, whatever the other apps' settings and however long the run takes    *)
(* (RunOnce, deleteOldEvents).                                              *)
EventsKept ==
  \A a \in App, t \in 0..now :
    FirstOfDay(t) /\ <<a, t>> \notin events =>
      RetentionDays[a] > 0 /\ t < DaysAgo(now, RetentionDays[a])

(* A table leaves connection_stats only when it is a month whose statistics  *)
(* are all older than the retention of app a.                               *)
StatsKept(a) ==
  \A m \in Table : part[m] # "attached" =>
    /\ m # NotAMonth
    /\ RetentionDays[a] > 0
    /\ \A t \in 0..MaxTick : Month(t) = m => t < DaysAgo(now, RetentionDays[a])

(* Dropping the partitions that every app shares loses no statistic that    *)
(* its own app still keeps: "according to each app's retention_days         *)
(* setting" (job.go:3), "conservative, no data lost" (job.go:116-117).      *)
NoDataLost == \A a \in App : StatsKept(a)

(* The apps with the shortest retention lose none: not in the boundary      *)
(* month, not in a table with another name, whatever fails between DETACH   *)
(* and DROP and whenever the process restarts (dropOldPartitions).          *)
ShortestKept ==
  \A a \in Managed :
    (\A b \in Managed : RetentionDays[a] <= RetentionDays[b]) => StatsKept(a)

(* However often events outlive their app's retention, the job gets to a    *)
(* point where none of them is left, unless it is stopped (deleteOldEvents). *)
OldEventsDeleted ==
  []<>( \/ \A e \in events :
            e[1] \in Managed => e[2] >= DaysAgo(now, RetentionDays[e[1]])
        \/ done \/ loop = "stopped" )

(* The same of the months that ended before the shortest retention, unless  *)
(* a statement failed or the process was restarted (dropOldPartitions).     *)
OldPartitionsDropped ==
  []<>( \/ \A m \in Table \ {NotAMonth} :
            m < Month(DaysAgo(now, minRetentionDays)) => part[m] = "gone"
        \/ done \/ loop = "stopped" \/ errors > 0 \/ restarts > 0 )

(* Shutdown returns, also when the job was never started for a bad cron     *)
(* expression and when it is in the middle of a run (Shutdown, Start).      *)
ShutdownReturns == stopper = "waiting" ~> stopper # "waiting"
=============================================================================
