------------------------ MODULE IngestServiceProofs ------------------------
(***************************************************************************)
(* Proofs about the ingest API process, for every set of conferences,      *)
(* sessions, reports and requests, every batch size and channel capacity,  *)
(* and any number of database errors; and about the retention job that     *)
(* runs in it, for every set of apps and settings of their retention,      *)
(* every length of days and months, and any number of errors and restarts. *)
(***************************************************************************)
EXTENDS IngestService, Retention, WellFoundedInduction, TLAPS

-----------------------------------------------------------------------------
(* The shutdown closes emosCh only when the stale job has ended. *)
CloseInv ==
  /\ main \in {"retention", "close", "exited"} => stale = "ended"
  /\ ~emosOpen => main \in {"close", "exited"}

(* Every step keeps it. *)
LEMMA CloseStep == CloseInv /\ [Next]_vars => CloseInv'
<1> SUFFICES ASSUME CloseInv, [Next]_vars PROVE CloseInv'  OBVIOUS
<1> USE DEF CloseInv, emosVars, staleVars
<1>1. ASSUME NEW h \in Handler, Arrive(h) PROVE CloseInv'
  BY <1>1 DEF Arrive
<1>2. ASSUME NEW p \in Report, HandleEvents(p) \/ EventsInvalid(p) PROVE CloseInv'
  BY Zenon, <1>2 DEF HandleEvents, EventsInvalid
<1>3. ASSUME NEW b \in Batch, FlushCommit(b) \/ FlushFail(b) PROVE CloseInv'
  BY <1>3 DEF FlushCommit, FlushFail
<1>4. ASSUME NEW c \in Conf, GoIdle(c) PROVE CloseInv'
  BY Zenon, <1>4 DEF GoIdle
<1>5. ASSUME NEW r \in Request, HandleEndConference(r) PROVE CloseInv'
  BY <1>5 DEF HandleEndConference, EndLookup, EndUpdate, EndTrigger, EndError
<1>6. CASE Stale
  <2>1. CASE StaleTick \/ StaleError \/ \E c \in Conf : StaleUpdate(c)
    BY <2>1 DEF StaleTick, StaleError, StaleUpdate
  <2>2. CASE StaleTrigger
    <3>1. stale # "ended"  BY <2>2, IngestAssumption DEF StaleTrigger
    <3> QED  BY Zenon, <2>2, <3>1 DEF StaleTrigger
  <2> QED  BY Zenon, <1>6, <2>1, <2>2 DEF Stale
<1>7. CASE StaleEnd
  BY Zenon, <1>7 DEF StaleEnd
<1>8. CASE Emos
  BY Zenon, <1>8 DEF Emos, EmosReceive, EmosDone, EmosError, EmosEnd, EmosUpsert
<1>9. CASE serveWithShutdown
  BY Zenon, <1>9 DEF serveWithShutdown, Signal, ServeError, ShutdownStep, HttpDrained, HttpTimeout,
              PoolShutdown, StaleShutdown, RetentionShutdown, CloseEmos, Exit
<1>10. CASE UNCHANGED vars
  BY <1>10 DEF vars
<1> QED
  BY Zenon, <1>1, <1>2, <1>3, <1>4, <1>5, <1>6, <1>7, <1>8, <1>9, <1>10 DEF Next, Rest

(* The stale job never sends on a closed channel, though nothing but the    *)
(* order of the shutdown keeps it from that (serve.go:84-92).               *)
THEOREM StaleSendsSafely == Spec => []StaleSendSafe
<1>1. Init => CloseInv  BY DEF Init, CloseInv
<1>2. CloseInv => StaleSendSafe  BY IngestAssumption DEF CloseInv, StaleSendSafe
<1> QED  BY CloseStep, <1>1, <1>2, PTL DEF Spec
-----------------------------------------------------------------------------
(* A conference on the list of the stale job was idle at the scan. *)
IdleInv ==
  /\ conf \in [Conf -> {"absent", "open", "stale"} \union Request]
  /\ active \in [Conf -> BOOLEAN]
  /\ ids \subseteq Conf
  /\ \A c \in ids : ~active[c] \/ c \in woke

(* What a step may do to ended_at, and why. *)
EndedOnce ==
  \A c \in Conf : /\ Ended(c) => conf'[c] = conf[c]
                  /\ conf[c] = "open" /\ conf'[c] = "stale" => ~active[c] \/ c \in woke

(* Most steps leave the tables and the list alone. *)
LEMMA TablesKept ==
  ASSUME IdleInv, UNCHANGED <<conf, active, ids, woke>>
  PROVE  IdleInv' /\ EndedOnce
BY DEF IdleInv, EndedOnce

(* The UPDATE that ends a conference, by a handler or by the stale job. *)
LEMMA EndNowKeeps ==
  ASSUME IdleInv, NEW c, NEW who \in {"stale"} \union Request,
         conf[c] = "open", conf' = [conf EXCEPT ![c] = who],
         who = "stale" => c \in ids,
         ids' \subseteq ids, woke \intersect ids' \subseteq woke', UNCHANGED active
  PROVE  IdleInv' /\ EndedOnce
<1>1. conf' \in [Conf -> {"absent", "open", "stale"} \union Request]
  BY Zenon DEF IdleInv
<1>2. \A d \in Conf : conf'[d] = IF d = c THEN who ELSE conf[d]
  BY DEF IdleInv
<1>3. "stale" \notin Request  BY IngestAssumption
<1>4. IdleInv'  BY Zenon, <1>1 DEF IdleInv
<1>5. EndedOnce  BY Zenon, <1>2, <1>3 DEF EndedOnce, Ended, IdleInv
<1> QED  BY <1>4, <1>5

(* Every step keeps the invariant and does what it may. *)
LEMMA IdleStep == IdleInv /\ [Next]_vars => IdleInv' /\ EndedOnce
<1> SUFFICES ASSUME IdleInv, [Next]_vars PROVE IdleInv' /\ EndedOnce  OBVIOUS
<1> DEFINE Kept == UNCHANGED <<conf, active, ids, woke>>
<1> USE DEF tables, staleVars
<1>1. ASSUME NEW h \in Handler, Arrive(h) PROVE Kept
  BY Zenon, <1>1 DEF Arrive
<1>2. ASSUME NEW p \in Report, HandleEvents(p) \/ EventsInvalid(p) PROVE Kept
  BY <1>2 DEF HandleEvents, EventsInvalid
<1>3. ASSUME NEW b \in Batch, FlushCommit(b) PROVE IdleInv' /\ EndedOnce
  <2> DEFINE touched == {ConfOf[SessionOf[p]] : p \in {b[i] : i \in DOMAIN b}}
  <2>1. /\ conf' = [c \in Conf |-> IF c \in touched /\ conf[c] = "absent"
                                    THEN "open" ELSE conf[c]]
        /\ active' = [c \in Conf |-> active[c] \/ c \in touched]
        /\ woke' = woke \union (touched \intersect ids)
        /\ ids' = ids
    BY Zenon, <1>3 DEF FlushCommit
  <2> HIDE DEF touched
  <2>2. IdleInv'  BY Zenon, <2>1 DEF IdleInv
  <2>3. EndedOnce  BY <2>1 DEF EndedOnce, Ended
  <2> QED  BY Zenon, <2>2, <2>3
<1>4. ASSUME NEW b \in Batch, FlushFail(b) PROVE Kept
  BY Zenon, <1>4 DEF FlushFail
<1>5. ASSUME NEW c \in Conf, GoIdle(c) PROVE IdleInv' /\ EndedOnce
  BY Zenon, <1>5 DEF GoIdle, IdleInv, EndedOnce
<1>6. ASSUME NEW r \in Request, EndLookup(r) \/ EndTrigger(r) \/ EndError(r) PROVE Kept
  BY Zenon, <1>6 DEF EndLookup, EndTrigger, EndError
<1>7. ASSUME NEW r \in Request, EndUpdate(r) PROVE IdleInv' /\ EndedOnce
  <2>1. CASE conf[found[r]] = "open"
    <3>1. r # "stale"  BY Zenon, IngestAssumption
    <3>2. conf' = [conf EXCEPT ![found[r]] = r] /\ UNCHANGED <<active, ids, woke>>
      BY Zenon, <1>7, <2>1 DEF EndUpdate, EndNow
    <3> QED  BY <2>1, <3>1, <3>2, EndNowKeeps, Zenon
  <2>2. CASE conf[found[r]] # "open"
    BY Zenon, <1>7, <2>2, TablesKept DEF EndUpdate
  <2> QED  BY <2>1, <2>2
<1>8. CASE StaleTick \/ StaleError
  BY Zenon, <1>8 DEF StaleTick, StaleError, IdleInv, EndedOnce
<1>9. CASE StaleTrigger
  BY <1>9, TablesKept DEF StaleTrigger
<1>10. ASSUME NEW c \in Conf, StaleUpdate(c) PROVE IdleInv' /\ EndedOnce
  <2>1. c \in ids /\ ids' = ids \ {c} /\ woke' = woke \ {c} /\ UNCHANGED active
    BY <1>10 DEF StaleUpdate
  <2>2. CASE conf[c] = "open"
    <3>1. conf' = [conf EXCEPT ![c] = "stale"]
      BY Zenon, <1>10, <2>2 DEF StaleUpdate, EndNow
    <3> QED  BY <2>1, <2>2, <3>1, EndNowKeeps, Zenon
  <2>3. CASE conf[c] # "open"
    <3>1. conf' = conf  BY Zenon, <1>10, <2>3 DEF StaleUpdate
    <3> QED  BY Zenon, <2>1, <3>1 DEF IdleInv, EndedOnce
  <2> QED  BY Zenon, <2>2, <2>3
<1>11. CASE StaleEnd
  BY Zenon, <1>11, TablesKept DEF StaleEnd
<1>12. ASSUME Emos PROVE Kept
  BY Zenon, <1>12 DEF Emos, EmosReceive, EmosDone, EmosError, EmosEnd, EmosUpsert
<1>13. ASSUME serveWithShutdown PROVE Kept
  BY Zenon, <1>13 DEF serveWithShutdown, Signal, ServeError, ShutdownStep, HttpDrained, HttpTimeout,
               PoolShutdown, StaleShutdown, RetentionShutdown, CloseEmos, Exit
<1>14. ASSUME UNCHANGED vars PROVE Kept
  BY Zenon, <1>14 DEF vars
<1> QED
  BY Zenon, <1>1, <1>2, <1>3, <1>4, <1>5, <1>6, <1>7, <1>8, <1>9, <1>10, <1>11, <1>12, <1>13, <1>14,
     TablesKept DEF Next, Stale, HandleEndConference, Rest

(* Nothing is on the list at the start. *)
LEMMA IdleInit == Init => IdleInv
BY DEF Init, IdleInv

(* ended_at is set once, whoever ends the conference and in whatever order  *)
(* (end_conference.go:91, stale/job.go:132-133).                            *)
THEOREM EndedAtSetOnce == Spec => EndedAtStable
<1> DEFINE A == \A c \in Conf : Ended(c) => conf'[c] = conf[c]
<1>1. EndedOnce => A  BY DEF EndedOnce
<1> QED  BY IdleInit, IdleStep, <1>1, PTL DEF Spec, EndedAtStable

(* The stale job closes only what was idle at its scan, and what it closes  *)
(* although it is active became so since (stale/job.go:2-3).                *)
THEOREM StaleJobClosesIdle == Spec => StaleClosesIdle
<1> DEFINE A == \A c \in Conf : conf[c] = "open" /\ conf'[c] = "stale" =>
                   ~active[c] \/ c \in woke
<1>1. EndedOnce => A  BY Zenon DEF EndedOnce
<1> QED  BY IdleInit, IdleStep, <1>1, PTL DEF Spec, StaleClosesIdle
-----------------------------------------------------------------------------
(* A report answered with 202 is in the pool or flushed; Shutdown leaves    *)
(* nothing in the pool; without an error what was flushed is stored.        *)
Fate == {"offered", "accepted", "rejected", "flushed"}
StoreInv ==
  /\ fate \in [Report -> Fate]
  /\ stats \in [Session -> SUBSET Report]
  /\ DOMAIN http = Handler
  /\ faults \in Nat
  /\ \A p \in Report : http[p] = "202" => fate[p] \in {"accepted", "flushed"}
  /\ stopped => \A p \in Report : fate[p] # "accepted"
  /\ main \in {"stale", "retention", "close", "exited"} => stopped
  /\ faults = 0 => \A p \in Report : fate[p] = "flushed" => p \in stats[SessionOf[p]]

(* Nothing has been reported at the start. *)
LEMMA StoreInit == Init => StoreInv
BY DEF Init, StoreInv, Fate, Handler, Pool!CInit

(* A handler answers, or an error is counted; the pool is left alone. *)
LEMMA PoolKept ==
  ASSUME StoreInv, UNCHANGED <<fate, stopped, stats, main>>, faults' \in {faults, faults + 1},
         DOMAIN http' = Handler, \A p \in Report : http'[p] = "202" => http[p] = "202"
  PROVE  StoreInv'
BY DEF StoreInv

(* A batch is flushed. *)
LEMMA FlushKeeps ==
  ASSUME StoreInv, NEW b \in Batch, Pool!Flush(b), UNCHANGED <<http, main>>,
         stats' \in [Session -> SUBSET Report],
         \A s \in Session : stats[s] \subseteq stats'[s],
         \/ faults' = faults + 1
         \/ faults' = faults /\ \A i \in DOMAIN b : b[i] \in stats'[SessionOf[b[i]]]
  PROVE  StoreInv'
<1>1. /\ fate' = [p \in Report |-> IF \E i \in DOMAIN b : b[i] = p THEN "flushed" ELSE fate[p]]
      /\ stopped' = stopped
      /\ \A i \in DOMAIN b : fate[b[i]] = "accepted"
  BY Zenon DEF Pool!Flush
<1>2. fate' \in [Report -> Fate]  BY Zenon, <1>1 DEF StoreInv, Fate
<1>3. ASSUME NEW p \in Report, http'[p] = "202" PROVE fate'[p] \in {"accepted", "flushed"}
  BY Zenon, <1>1, <1>3 DEF StoreInv
<1>4. stopped' => \A p \in Report : fate'[p] # "accepted"  BY Zenon, <1>1 DEF StoreInv
<1>5. ASSUME faults' = 0, NEW p \in Report, fate'[p] = "flushed"
      PROVE  p \in stats'[SessionOf[p]]
  <2>1. faults' = faults /\ \A i \in DOMAIN b : b[i] \in stats'[SessionOf[b[i]]]
    BY <1>5 DEF StoreInv
  <2>2. SessionOf[p] \in Session  BY Zenon, IngestAssumption
  <2>3. CASE \E i \in DOMAIN b : b[i] = p  BY Zenon, <2>1, <2>3
  <2>4. CASE fate[p] = "flushed"  BY Zenon, <1>5, <2>1, <2>2, <2>4 DEF StoreInv
  <2> QED  BY Zenon, <1>1, <1>5, <2>3, <2>4
<1>6. faults' \in Nat  BY DEF StoreInv
<1> QED  BY Zenon, <1>1, <1>2, <1>3, <1>4, <1>5, <1>6 DEF StoreInv

(* Every step keeps the invariant. *)
LEMMA StoreStep == StoreInv /\ [Next]_vars => StoreInv'
<1> SUFFICES ASSUME StoreInv, [Next]_vars PROVE StoreInv'  OBVIOUS
<1> DEFINE Kept == /\ UNCHANGED <<fate, stopped, stats, main>> /\ faults' \in {faults, faults + 1}
                   /\ DOMAIN http' = Handler
                   /\ \A p \in Report : http'[p] = "202" => http[p] = "202"
<1> USE DEF pool, tables
<1>1. ASSUME NEW h \in Handler, NEW a, http' = [http EXCEPT ![h] = a],
             a # "202" \/ h \in Request
      PROVE  /\ DOMAIN http' = Handler
             /\ \A p \in Report : http'[p] = "202" => http[p] = "202"
  BY <1>1, IngestAssumption DEF StoreInv
<1>2. ASSUME NEW h \in Handler, Arrive(h) PROVE Kept
  BY <1>1, <1>2, Zenon DEF Arrive
<1>3. ASSUME NEW p \in Report, EventsInvalid(p) PROVE Kept
  BY <1>1, <1>3, Zenon DEF EventsInvalid, Handler
<1>4. ASSUME NEW p \in Report, HandleEvents(p) PROVE StoreInv'
  <2>1. UNCHANGED <<stats, main, faults>>  BY Zenon, <1>4 DEF HandleEvents
  <2>2. CASE Pool!Accept(p) /\ http' = [http EXCEPT ![p] = "202"]
    <3>1. /\ fate' = [fate EXCEPT ![p] = "accepted"] /\ fate[p] = "offered"
          /\ ~stopped /\ stopped' = stopped
      BY Zenon, <2>2 DEF Pool!Accept
    <3> QED  BY <2>1, <2>2, <3>1 DEF StoreInv, Fate
  <2>3. CASE Pool!Reject(p) /\ http' = [http EXCEPT ![p] = "429"]
    <3>1. /\ fate' = [fate EXCEPT ![p] = "rejected"] /\ fate[p] = "offered"
          /\ stopped' = stopped
      BY Zenon, <2>3 DEF Pool!Reject
    <3> QED  BY <2>1, <2>3, <3>1 DEF StoreInv, Fate
  <2> QED  BY Zenon, <1>4, <2>2, <2>3 DEF HandleEvents
<1>5. ASSUME NEW b \in Batch, FlushCommit(b) PROVE StoreInv'
  <2> DEFINE new == {b[i] : i \in DOMAIN b}
  <2>1. \A i \in DOMAIN b : b[i] \in Report  BY Zenon DEF Batch
  <2>2. /\ stats' = [s \in Session |-> stats[s] \union {p \in new : SessionOf[p] = s}]
        /\ Pool!Flush(b) /\ UNCHANGED <<http, main, faults>>
    BY Zenon, <1>5 DEF FlushCommit
  <2>3. stats' \in [Session -> SUBSET Report]  BY <2>1, <2>2 DEF StoreInv
  <2>4. \A i \in DOMAIN b : b[i] \in stats'[SessionOf[b[i]]]
    BY Zenon, <2>1, <2>2, IngestAssumption
  <2>5. \A s \in Session : stats[s] \subseteq stats'[s]  BY Zenon, <2>2
  <2> QED  BY Zenon, <2>2, <2>3, <2>4, <2>5, FlushKeeps
<1>6. ASSUME NEW b \in Batch, FlushFail(b) PROVE StoreInv'
  <2>1. /\ stats' = stats /\ faults' = faults + 1 /\ Pool!Flush(b) /\ UNCHANGED <<http, main>>
    BY Zenon, <1>6 DEF FlushFail, Fault
  <2> QED  BY Zenon, <2>1, FlushKeeps DEF StoreInv
<1>7. ASSUME NEW c \in Conf, GoIdle(c) PROVE Kept
  BY <1>7 DEF GoIdle, StoreInv
<1>8. ASSUME NEW r \in Request, HandleEndConference(r) PROVE Kept
  <2>1. PICK a : http' = [http EXCEPT ![r] = a]
    BY Zenon, <1>8 DEF HandleEndConference, EndLookup, EndUpdate, EndTrigger, EndError
  <2>2. UNCHANGED <<fate, stopped, stats, main>> /\ faults' \in {faults, faults + 1}
    BY Zenon, <1>8 DEF HandleEndConference, EndLookup, EndUpdate, EndTrigger, EndError, Fault
  <2> QED  BY <1>1, <2>1, <2>2, Zenon DEF Handler
<1>9. ASSUME Stale \/ StaleEnd PROVE Kept
  <2>1. UNCHANGED <<fate, stopped, stats, http, main>> /\ faults' \in {faults, faults + 1}
    BY <1>9 DEF Stale, StaleEnd, StaleTick, StaleTrigger, StaleError, StaleUpdate, Fault
  <2>2. DOMAIN http = Handler  BY Zenon DEF StoreInv
  <2> QED  BY Zenon, <2>1, <2>2
<1>10. ASSUME Emos PROVE Kept
  BY Zenon, <1>10 DEF Emos, EmosReceive, EmosDone, EmosError, EmosEnd, EmosUpsert, Fault, StoreInv
<1>11. CASE serveWithShutdown
  <2>1. CASE PoolShutdown
    <3>1. stopped' = TRUE /\ fate' = fate /\ \A p \in Report : fate[p] # "accepted"
      BY <2>1, ZenonT(60) DEF PoolShutdown, Pool!Stop
    <3> QED  BY <2>1, <3>1 DEF PoolShutdown, StoreInv
  <2>2. CASE ~PoolShutdown
    BY <1>11, <2>2 DEF serveWithShutdown, Signal, ServeError, ShutdownStep, HttpDrained,
          HttpTimeout, StaleShutdown, RetentionShutdown, CloseEmos, Exit, StoreInv
  <2> QED  BY Zenon, <2>1, <2>2
<1>12. ASSUME UNCHANGED vars PROVE Kept
  BY <1>12 DEF vars, StoreInv
<1> QED
  BY Zenon, <1>2, <1>3, <1>4, <1>5, <1>6, <1>7, <1>8, <1>9, <1>10, <1>11, <1>12, PoolKept
  DEF Next, Rest

(* What was answered with 202 has left the pool when the process exits, and *)
(* without an error it is in the database (serve.go:81-82).                 *)
THEOREM AcceptedIsStored == Spec => []AcceptedStoredAtExit
<1>1. StoreInv => AcceptedStoredAtExit  BY DEF StoreInv, AcceptedStoredAtExit
<1> QED  BY StoreInit, StoreStep, <1>1, PTL DEF Spec
-----------------------------------------------------------------------------
(* The retention job, which runs in the same process.                       *)

(* A non-empty set of numbers has a least one. *)
LEMMA Least ==
  ASSUME NEW S \in SUBSET Nat, S # {}
  PROVE  \E d \in S : \A e \in S : d <= e
<1> DEFINE R == OpToRel(<, Nat)
<1>1. IsWellFoundedOn(R, Nat)  BY NatLessThanWellFounded, Zenon
<1>2. PICK d \in S : \A e \in S : ~(<<e, d>> \in R)
  <2> HIDE DEF R
  <2> QED  BY <1>1, WFMin, Zenon
<1>3. ASSUME NEW e \in S PROVE d <= e
  <2>1. ~(e < d)
    <3>1. SUFFICES ASSUME e < d PROVE FALSE  OBVIOUS
    <3>2. <<e, d>> \in R  BY Zenon, <3>1 DEF OpToRel
    <3> QED  BY <1>2, <3>2, Zenon
  <2> QED  BY <2>1
<1> QED  BY <1>3

(* The shortest retention, of apps that have one. *)
LEMMA ShortestType ==
  ASSUME Managed # {}
  PROVE  minRetentionDays \in Nat
<1> DEFINE S == {RetentionDays[a] : a \in Managed}
<1>1. S \in SUBSET Nat /\ S # {}  BY RetentionAssumption DEF Managed
<1>2. \E d \in S : \A e \in S : d <= e
  <2> HIDE DEF S
  <2> QED  BY Zenon, <1>1, Least
<1>3. \E d \in S : \A a \in Managed : d <= RetentionDays[a]  BY Zenon, <1>2
<1> QED  BY Zenon, <1>1, <1>3 DEF minRetentionDays

(* A month before another lies before every time of the other. *)
LEMMA MonthBefore ==
  ASSUME NEW t \in Nat, NEW x \in Int, Month(t) < Month(x)
  PROVE  t < x
<1> DEFINE d == TicksPerDay * DaysPerMonth
<1>1. d \in Nat /\ d > 0  BY RetentionAssumption
<1>2. Month(t) = t \div d /\ Month(x) = x \div d  BY Zenon DEF Month
<1> HIDE DEF d
<1>3. t \div d \in Int /\ x \div d \in Int  BY <1>1
<1>4. (t \div d) * d <= t /\ t < (t \div d + 1) * d  BY <1>1
<1>5. (x \div d) * d <= x  BY <1>1
<1>6. (t \div d + 1) * d <= (x \div d) * d  BY <1>1, <1>2, <1>3
<1> QED  BY <1>1, <1>3, <1>4, <1>5, <1>6

(* Time only makes things older. *)
LEMMA Older ==
  ASSUME NEW s \in Nat, NEW t \in Nat, s <= t, NEW n \in Nat
  PROVE  DaysAgo(s, n) \in Int /\ DaysAgo(t, n) \in Int /\ DaysAgo(s, n) <= DaysAgo(t, n)
<1>1. n * TicksPerDay \in Nat  BY RetentionAssumption
<1> QED  BY <1>1 DEF DaysAgo
-----------------------------------------------------------------------------
(* The app whose events are being deleted has a retention, and its cutoff   *)
(* is no later than one computed now would be.                              *)
EventsInv ==
  /\ now \in Nat
  /\ appsLeft \subseteq Managed
  /\ app # NoApp => /\ app \in Managed
                    /\ cutoff \in Int
                    /\ cutoff <= DaysAgo(now, RetentionDays[app])
  /\ EventsKept

(* A step that neither deletes events nor turns to another app. *)
LEMMA EventsQuiet ==
  ASSUME EventsInv, UNCHANGED <<now, events>>, appsLeft' \subseteq appsLeft,
         app' = NoApp \/ UNCHANGED <<app, cutoff>>
  PROVE  EventsInv'
BY Zenon DEF EventsInv, EventsKept, DaysAgo, FirstOfDay

(* Time passes: everything gets older, and the events of today are stored. *)
LEMMA EventsTick ==
  ASSUME EventsInv, TimePasses
  PROVE  EventsInv'
<1>1. now \in Nat /\ now' = now + 1 /\ UNCHANGED <<appsLeft, app, cutoff>>
  BY Zenon DEF EventsInv, TimePasses, runVars
<1>2. \A a \in App : RetentionDays[a] \in Nat  BY Zenon, RetentionAssumption
<1>3. ASSUME app # NoApp PROVE cutoff <= DaysAgo(now', RetentionDays[app])
  <2>1. app \in App /\ cutoff \in Int /\ cutoff <= DaysAgo(now, RetentionDays[app])
    BY Zenon, <1>3 DEF EventsInv, Managed
  <2> QED  BY <1>1, <1>2, <2>1, Older
<1>4. ASSUME NEW a \in App, NEW t \in 0..now', FirstOfDay(t), <<a, t>> \notin events'
      PROVE  RetentionDays[a] > 0 /\ t < DaysAgo(now', RetentionDays[a])
  <2>1. t # now + 1
    BY Zenon, <1>1, <1>4 DEF TimePasses
  <2>2. t \in 0..now  BY <1>1, <2>1
  <2>3. <<a, t>> \notin events  BY Zenon, <1>4 DEF TimePasses
  <2>4. RetentionDays[a] > 0 /\ t < DaysAgo(now, RetentionDays[a])
    BY Zenon, <1>4, <2>2, <2>3 DEF EventsInv, EventsKept
  <2> QED  BY <1>1, <1>2, <2>2, <2>4, Older
<1>5. EventsKept'  BY Zenon, <1>4 DEF EventsKept, DaysAgo, FirstOfDay
<1> QED  BY <1>1, <1>3, <1>5 DEF EventsInv, DaysAgo

(* A batch is deleted. *)
LEMMA EventsDelete ==
  ASSUME EventsInv, deleteOldEvents
  PROVE  EventsInv'
<1>1. PICK batch \in SUBSET OldEvents :
        events' = events \ batch /\ app' = IF batch = {} THEN NoApp ELSE app
  BY Zenon DEF deleteOldEvents
<1>2. app # NoApp /\ UNCHANGED <<now, appsLeft, cutoff>>  BY Zenon DEF deleteOldEvents
<1>3. ASSUME NEW a \in App, NEW t \in 0..now, FirstOfDay(t), <<a, t>> \notin events'
      PROVE  RetentionDays[a] > 0 /\ t < DaysAgo(now, RetentionDays[a])
  <2>1. CASE <<a, t>> \notin events
    BY Zenon, <1>3, <2>1 DEF EventsInv, EventsKept
  <2>2. CASE <<a, t>> \in batch
    <3>1. a = app /\ t < cutoff  BY Zenon, <2>2 DEF OldEvents
    <3>2. app \in Managed /\ cutoff \in Int /\ cutoff <= DaysAgo(now, RetentionDays[app])
      BY Zenon, <1>2 DEF EventsInv
    <3>3. DaysAgo(now, RetentionDays[a]) \in Int /\ RetentionDays[a] > 0
      BY <3>1, <3>2, Older, RetentionAssumption DEF EventsInv, Managed
    <3> QED  BY <3>1, <3>2, <3>3
  <2> QED  BY Zenon, <1>1, <1>3, <2>1, <2>2
<1>4. EventsKept'  BY Zenon, <1>2, <1>3 DEF EventsKept, DaysAgo, FirstOfDay
<1> QED  BY Zenon, <1>1, <1>2, <1>4 DEF EventsInv, DaysAgo

(* Every step keeps the invariant. *)
LEMMA EventsStep == EventsInv /\ [JobNext]_jobVars => EventsInv'
<1> SUFFICES ASSUME EventsInv, [JobNext]_jobVars PROVE EventsInv'  OBVIOUS
<1> DEFINE Quiet == /\ UNCHANGED <<now, events>> /\ appsLeft' \subseteq appsLeft
                    /\ app' = NoApp \/ UNCHANGED <<app, cutoff>>
<1> USE DEF stores, runVars
<1>1. CASE TimePasses  BY Zenon, <1>1, EventsTick
<1>2. CASE deleteOldEvents  BY Zenon, <1>2, EventsDelete
<1>3. ASSUME NEW a \in App, NextApp(a) PROVE EventsInv'
  <2>1. a \in Managed /\ a \in App /\ now \in Nat  BY Zenon, <1>3 DEF NextApp, EventsInv
  <2>2. /\ app' = a /\ appsLeft' = appsLeft \ {a} /\ cutoff' = DaysAgo(now, RetentionDays[a])
        /\ UNCHANGED <<now, events>>
    BY Zenon, <1>3 DEF NextApp, appCutoff
  <2>3. DaysAgo(now, RetentionDays[a]) \in Int  BY <2>1, Older, RetentionAssumption
  <2>4. EventsKept'  BY Zenon, <2>2 DEF EventsInv, EventsKept, DaysAgo, FirstOfDay
  <2> QED  BY <2>1, <2>2, <2>3, <2>4 DEF EventsInv, DaysAgo
<1>4. CASE RunOnce
  <2>1. UNCHANGED <<now, events>> /\ (app' = NoApp \/ UNCHANGED <<app, cutoff>>)
    BY Zenon, <1>4 DEF RunOnce, RunEnds
  <2>2. appsLeft' \subseteq Managed  BY Zenon, <1>4 DEF RunOnce, RunEnds
  <2> QED  BY Zenon, <2>1, <2>2 DEF EventsInv, EventsKept, DaysAgo, FirstOfDay
<1>5. ASSUME RunOnceError \/ ListError \/ DropError \/ DeleteError \/ RunReturns PROVE Quiet
  BY Zenon, <1>5 DEF RunOnceError, ListError, DropError, DeleteError, RunReturns, RunEnds
<1>6. ASSUME Start \/ StartInvalid \/ ListPartitions \/ Drop PROVE Quiet
  BY Zenon, <1>6 DEF Start, StartInvalid, ListPartitions, Drop
<1>7. ASSUME NEW m \in Table, Detach(m) \/ DetachError(m) PROVE Quiet
  BY Zenon, <1>7 DEF Detach, DetachError
<1>8. ASSUME JobEnd \/ JobShutdown \/ JobShutdownReturn \/ Restart PROVE Quiet
  BY Zenon, <1>8 DEF JobEnd, JobShutdown, JobShutdownReturn, Restart
<1>9. ASSUME UNCHANGED jobVars PROVE Quiet
  BY Zenon, <1>9 DEF jobVars
<1> QED
  BY Zenon, <1>1, <1>2, <1>3, <1>4, <1>5, <1>6, <1>7, <1>8, <1>9, EventsQuiet DEF JobNext, JobStep

(* No event is deleted before the retention of its own app is over, however *)
(* long a run takes and whatever the settings of the others are             *)
(* (RunOnce, deleteOldEvents).                                              *)
THEOREM EventsKeptLongEnough == JobSpec => []EventsKept
<1>1. JobInit => EventsInv
  <2> SUFFICES ASSUME JobInit PROVE EventsInv  BY Zenon
  <2>1. now = 0 /\ appsLeft = {} /\ app = NoApp /\ events = {<<a, 0>> : a \in App}  BY Zenon DEF JobInit
  <2>2. EventsKept  BY <2>1 DEF EventsKept
  <2> QED  BY Zenon, <2>1, <2>2 DEF EventsInv
<1>2. EventsInv => EventsKept  BY Zenon DEF EventsInv
<1> QED  BY EventsStep, <1>1, <1>2, PTL DEF JobSpec
-----------------------------------------------------------------------------
(* A table of a month that ended before the cutoff. *)
PastAt(m, t) ==
  /\ m # NotAMonth
  /\ \A u \in 0..MaxTick : Month(u) = m => u < DaysAgo(t, minRetentionDays)

(* What is on the list, between DETACH and DROP, or detached, is old.       *)
PartInv ==
  /\ now \in Nat
  /\ part \in [Table -> {"attached", "detached", "gone"}]
  /\ todo \subseteq Table
  /\ \A m \in todo : PastAt(m, now)
  /\ loop = "drop" => PastAt(table, now)
  /\ \A m \in Table : part[m] # "attached" => PastAt(m, now)
  /\ loop \in {"list", "drop"} \/ todo # {} \/ (\E m \in Table : part[m] # "attached")
       => Managed # {}

(* What is old stays old. *)
LEMMA PastStays ==
  ASSUME NEW m, NEW s \in Nat, NEW t \in Nat, s <= t, Managed # {}, PastAt(m, s)
  PROVE  PastAt(m, t)
<1>1. minRetentionDays \in Nat  BY Zenon, ShortestType
<1>2. /\ DaysAgo(s, minRetentionDays) \in Int /\ DaysAgo(t, minRetentionDays) \in Int
      /\ DaysAgo(s, minRetentionDays) <= DaysAgo(t, minRetentionDays)
  BY Zenon, <1>1, Older
<1> QED  BY <1>2, RetentionAssumption DEF PastAt

(* What the job lists is old. *)
LEMMA ListedIsPast ==
  ASSUME now \in Nat, Managed # {}, NEW m \in Table, IsOld(m)
  PROVE  PastAt(m, now)
<1> DEFINE x == DaysAgo(now, minRetentionDays)
<1>1. x \in Int  BY ShortestType, Older
<1>2. m # NotAMonth /\ m < Month(x)  BY Zenon DEF IsOld, parsePartitionMonth
<1>3. ASSUME NEW u \in 0..MaxTick, Month(u) = m PROVE u < x
  <2> HIDE DEF x
  <2> QED  BY <1>1, <1>2, <1>3, MonthBefore, RetentionAssumption
<1> QED  BY Zenon, <1>2, <1>3 DEF PastAt

(* A step of the run after the list: tables that leave are old. *)
LEMMA PartQuiet ==
  ASSUME PartInv, UNCHANGED now, todo' \subseteq todo,
         part' \in [Table -> {"attached", "detached", "gone"}],
         \A m \in Table : part'[m] # "attached" => part[m] # "attached" \/ PastAt(m, now),
         \A m \in Table : part'[m] # "attached" => part[m] # "attached" \/ Managed # {},
         loop' = "drop" => PastAt(table', now),
         loop' \in {"list", "drop"} => Managed # {}
  PROVE  PartInv'
BY Zenon DEF PartInv, PastAt, DaysAgo

(* Every step keeps the invariant. *)
LEMMA PartStep == PartInv /\ [JobNext]_jobVars => PartInv'
<1> SUFFICES ASSUME PartInv, [JobNext]_jobVars PROVE PartInv'  OBVIOUS
<1> DEFINE Rests == /\ UNCHANGED <<now, part>> /\ todo' \subseteq todo
                    /\ UNCHANGED <<loop, table>> \/ loop' \notin {"list", "drop"}
<1> USE DEF stores, runVars
<1>1. Rests => PartInv'
  BY PartQuiet DEF PartInv
<1>2. CASE TimePasses
  <2>1. now \in Nat /\ now' = now + 1 /\ now' \in Nat /\ now <= now'
        /\ UNCHANGED <<part, todo, loop, table>>
    <3>1. now' = now + 1 /\ UNCHANGED <<part, todo, loop, table>>  BY <1>2, Zenon DEF TimePasses
    <3>2. now \in Nat  BY Zenon DEF PartInv
    <3> HIDE DEF Rests
    <3> QED  BY <3>1, <3>2
  <2>2. Managed # {} => \A m : PastAt(m, now) => PastAt(m, now')
    BY Zenon, <2>1, PastStays
  <2>3. CASE Managed # {}
    <3>1. \A m : PastAt(m, now)' <=> PastAt(m, now')  BY Zenon DEF PastAt, DaysAgo
    <3> QED  BY Zenon, <2>1, <2>2, <2>3, <3>1 DEF PartInv
  <2>4. CASE Managed = {}
    BY Zenon, <2>1, <2>4 DEF PartInv
  <2> HIDE DEF Rests
  <2> QED  BY <2>3, <2>4, Zenon
<1>3. CASE RunOnce
  <2>1. UNCHANGED <<now, part>> /\ todo' \subseteq todo /\ loop' # "drop"
        /\ (loop' = "list" => Managed # {})
    BY Zenon, <1>3 DEF RunOnce, RunEnds
  <2> QED  BY Zenon, <2>1, PartQuiet DEF PartInv
<1>4. CASE ListPartitions
  <2>1. /\ UNCHANGED <<now, part>> /\ loop' = "detach" /\ Managed # {}
        /\ todo' = {m \in Table : part[m] # "gone" /\ IsOld(m)}
    BY Zenon, <1>4 DEF ListPartitions, PartInv
  <2>2. \A m \in todo' : PastAt(m, now)
    BY Zenon, <2>1, ListedIsPast DEF PartInv
  <2> QED  BY Zenon, <2>1, <2>2 DEF PartInv, PastAt, DaysAgo
<1>5. ASSUME NEW m \in Table, Detach(m) PROVE PartInv'
  <2>1. m \in todo /\ PastAt(m, now) /\ Managed # {}  BY Zenon, <1>5 DEF Detach, First, PartInv
  <2>2. /\ UNCHANGED now /\ todo' \subseteq todo /\ table' = m /\ loop' = "drop"
        /\ part' = [part EXCEPT ![m] = "detached"]
    BY Zenon, <1>5 DEF Detach
  <2> QED  BY Zenon, <2>1, <2>2, PartQuiet DEF PartInv
<1>6. ASSUME NEW m \in Table, DetachError(m) PROVE PartInv'
  <2>1. m \in todo /\ PastAt(m, now) /\ Managed # {} /\ loop = "detach"
    BY Zenon, <1>6 DEF DetachError, First, PartInv
  <2>2. /\ UNCHANGED <<now, loop>> /\ todo' \subseteq todo
        /\ part' = part \/ part' = [part EXCEPT ![m] = "detached"]
    BY Zenon, <1>6 DEF DetachError
  <2> QED  BY Zenon, <2>1, <2>2, PartQuiet DEF PartInv
<1>7. CASE Drop \/ DropError
  <2>1. PastAt(table, now) /\ Managed # {}  BY Zenon, <1>7 DEF Drop, DropError, PartInv
  <2>2. /\ UNCHANGED now /\ todo' \subseteq todo /\ loop' \notin {"list", "drop"}
        /\ part' = part \/ part' = [part EXCEPT ![table] = "gone"]
    BY Zenon, <1>7 DEF Drop, DropError, RunEnds
  <2> QED  BY Zenon, <2>1, <2>2, PartQuiet DEF PartInv
<1>8. ASSUME RunOnceError \/ ListError \/ DeleteError \/ RunReturns PROVE Rests
  BY Zenon, <1>8 DEF RunOnceError, ListError, DeleteError, RunReturns, RunEnds
<1>9. ASSUME Start \/ StartInvalid \/ deleteOldEvents PROVE Rests
  BY Zenon, <1>9 DEF Start, StartInvalid, deleteOldEvents
<1>10. ASSUME NEW a \in App, NextApp(a) PROVE Rests
  BY Zenon, <1>10 DEF NextApp
<1>11. ASSUME JobEnd \/ JobShutdown \/ JobShutdownReturn \/ Restart PROVE Rests
  BY Zenon, <1>11 DEF JobEnd, JobShutdown, JobShutdownReturn, Restart
<1>12. ASSUME UNCHANGED jobVars PROVE Rests
  BY Zenon, <1>12 DEF jobVars
<1> HIDE DEF Rests
<1> QED
  BY Zenon, <1>1, <1>2, <1>3, <1>4, <1>5, <1>6, <1>7, <1>8, <1>9, <1>10, <1>11, <1>12
  DEF JobNext, JobStep

(* The cutoff is that of the apps with the shortest retention. *)
LEMMA ShortestIs ==
  ASSUME NEW a \in Managed, \A b \in Managed : RetentionDays[a] <= RetentionDays[b]
  PROVE  minRetentionDays = RetentionDays[a]
<1> DEFINE S == {RetentionDays[b] : b \in Managed}
           d == minRetentionDays
<1>1. S \subseteq Nat /\ RetentionDays[a] \in S  BY RetentionAssumption DEF Managed
<1>2. \E e \in S : \A b \in Managed : e <= RetentionDays[b]  BY Zenon, <1>1
<1>3. d \in S /\ d <= RetentionDays[a]  BY Zenon, <1>2 DEF minRetentionDays
<1>4. RetentionDays[a] <= d  BY Zenon, <1>3
<1> QED  BY <1>1, <1>3, <1>4

(* The statistics of an app with the shortest retention are dropped only    *)
(* once every one of the table is older than that, whatever fails between   *)
(* DETACH and DROP and whenever the process restarts (dropOldPartitions).   *)
THEOREM ShortestRetentionKept == JobSpec => []ShortestKept
<1>1. JobInit => PartInv
  BY DEF JobInit, PartInv
<1>2. PartInv => ShortestKept
  <2> SUFFICES ASSUME PartInv, NEW a \in Managed,
                      \A b \in Managed : RetentionDays[a] <= RetentionDays[b]
               PROVE  StatsKept(a)
    BY Zenon DEF ShortestKept
  <2>1. minRetentionDays = RetentionDays[a] /\ RetentionDays[a] > 0
    BY Zenon, ShortestIs DEF Managed
  <2> QED  BY Zenon, <2>1 DEF PartInv, PastAt, StatsKept
<1> QED  BY PartStep, <1>1, <1>2, PTL DEF JobSpec
=============================================================================
