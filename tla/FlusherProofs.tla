--------------------------- MODULE FlusherProofs ---------------------------
(***************************************************************************)
(* Proofs about the flush of the ingest API, for every set of workers and  *)
(* payloads, every length of a batch and any number of errors and crashes. *)
(***************************************************************************)
EXTENDS Flusher, FiniteSetTheorems, WellFoundedInduction, TLAPS

-----------------------------------------------------------------------------
(* A non-empty set of numbers has a least one, which Min is. *)
LEMMA LeastNumber ==
  ASSUME NEW S \in SUBSET Nat, S # {}
  PROVE  Min(S) \in S /\ \A e \in S : Min(S) <= e
<1> DEFINE R == OpToRel(<, Nat)
<1>1. IsWellFoundedOn(R, Nat)  BY NatLessThanWellFounded, Zenon
<1>2. PICK d \in S : \A e \in S : ~(<<e, d>> \in R)
  <2> HIDE DEF R
  <2> QED  BY <1>1, WFMin, Zenon
<1>3. ASSUME NEW e \in S PROVE d <= e
  <2>1. ~(e < d)
    <3>1. SUFFICES ASSUME e < d PROVE FALSE  OBVIOUS
    <3>2. <<e, d>> \in R  BY <3>1 DEF OpToRel
    <3> QED  BY <1>2, <3>2, Zenon
  <2> QED  BY <2>1
<1> QED  BY <1>3, Zenon DEF Min

(* A finite non-empty set of numbers has a greatest one, which Max is: in a  *)
(* smallest set without one, all but one element have a greatest.            *)
LEMMA GreatestNumber ==
  ASSUME NEW S \in SUBSET Int, S # {}, IsFiniteSet(S)
  PROVE  Max(S) \in S
<1> DEFINE Top(T) == \E x \in T : \A y \in T : x >= y
           Bad == {T \in SUBSET Int : T # {} /\ IsFiniteSet(T) /\ ~Top(T)}
           Sizes == {Cardinality(T) : T \in Bad}
<1>1. SUFFICES Top(S)  BY Zenon DEF Max
<1>2. SUFFICES ASSUME Bad # {} PROVE FALSE  BY Zenon
<1>3. Sizes \in SUBSET Nat /\ Sizes # {}  BY Zenon, <1>2, FS_CardinalityType
<1>4. PICK T \in Bad : \A U \in Bad : Cardinality(T) <= Cardinality(U)
  <2>1. PICK n \in Sizes : \A m \in Sizes : n <= m
    <3> HIDE DEF Sizes
    <3> QED  BY <1>3, LeastNumber, Zenon
  <2> QED  BY <2>1
<1>5. PICK x \in T : TRUE  BY Zenon
<1>6. /\ IsFiniteSet(T \ {x}) /\ Cardinality(T \ {x}) = Cardinality(T) - 1
      /\ Cardinality(T) \in Nat
  BY Zenon, FS_RemoveElement, FS_CardinalityType
<1>7. T \ {x} \notin Bad
  <2>1. SUFFICES ASSUME T \ {x} \in Bad PROVE FALSE  OBVIOUS
  <2>2. Cardinality(T) <= Cardinality(T \ {x})
    <3> HIDE DEF Bad
    <3> QED  BY <1>4, <2>1
  <2> QED  BY <1>6, <2>2
<1>8. CASE T \ {x} = {}
  <2>1. T = {x}  BY <1>8
  <2> QED  BY <2>1
<1>9. CASE T \ {x} # {}
  <2>1. PICK m \in T \ {x} : \A y \in T \ {x} : m >= y  BY <1>6, <1>7, <1>9
  <2>2. Top(T)
    <3>1. CASE m >= x  BY <2>1, <3>1
    <3>2. CASE x >= m
      <4>1. \A y \in T : x >= y  BY <2>1, <3>2
      <4> QED  BY <4>1
    <3> QED  BY <3>1, <3>2, <2>1
  <2> QED  BY <2>2
<1> QED  BY <1>8, <1>9

(* The set of payloads of a batch is finite. *)
LEMMA BatchFinite ==
  ASSUME NEW b \in Seq(Payload)
  PROVE  IsFiniteSet(Range(b))
<1> DEFINE f == [i \in 1 .. Len(b) |-> b[i]]
<1>1. IsFiniteSet(1 .. Len(b))  BY FS_Interval
<1>2. f \in Surjection(1 .. Len(b), Range(b))  BY DEF Surjection, Range
<1> QED  BY <1>1, <1>2, FS_Surjection

(* A cache entry shows the timestamp of a payload of the batch. *)
LEMMA EntryOfBatch ==
  ASSUME NEW b \in Seq(Payload), NEW k \in DOMAIN cacheEntries(b)
  PROVE  \E p \in Range(b) : confKey(p) = k /\ Field[p].ts = cacheEntries(b)[k].last
<1> DEFINE mine == {p \in Range(b) : confKey(p) = k}
           T == {Field[p].ts : p \in mine}
           f == [p \in mine |-> Field[p].ts]
<1>1. mine # {}  BY DEF cacheEntries
<1>2. IsFiniteSet(mine)  BY BatchFinite, FS_Subset
<1>3. IsFiniteSet(T)
  <2>1. f \in Surjection(mine, T)  BY DEF Surjection
  <2> HIDE DEF f, T, mine
  <2> QED  BY <1>2, <2>1, FS_Surjection
<1>4. mine \subseteq Payload  BY DEF Range
<1>5. T \in SUBSET Int /\ T # {}  BY <1>1, <1>4, FlusherAssumption
<1>6. Max(T) \in T
  <2> HIDE DEF T
  <2> QED  BY <1>3, <1>5, GreatestNumber
<1>7. cacheEntries(b)[k].last = Max(T)  BY DEF cacheEntries
<1> QED  BY <1>6, <1>7, Zenon

(* The statements of a batch, four for each payload. *)
LEMMA UpsertsDomain ==
  ASSUME NEW b \in Seq(Payload)
  PROVE  DOMAIN Upserts(b) = 1 .. 4 * Len(b)
<1>1. ASSUME NEW f, f = [i \in DOMAIN b |-> f[i]]
      PROVE  f \in Seq({f[i] : i \in DOMAIN b}) /\ Len(f) = Len(b)
  BY <1>1
<1>2. /\ upsertConferences(b) \in Seq({upsertConferences(b)[i] : i \in DOMAIN b})
      /\ Len(upsertConferences(b)) = Len(b)
  BY <1>1 DEF upsertConferences
<1>3. /\ upsertParticipants(b) \in Seq({upsertParticipants(b)[i] : i \in DOMAIN b})
      /\ Len(upsertParticipants(b)) = Len(b)
  BY <1>1 DEF upsertParticipants
<1>4. /\ upsertSessions(b) \in Seq({upsertSessions(b)[i] : i \in DOMAIN b})
      /\ Len(upsertSessions(b)) = Len(b)
  BY <1>1 DEF upsertSessions
<1>5. /\ upsertConnections(b) \in Seq({upsertConnections(b)[i] : i \in DOMAIN b})
      /\ Len(upsertConnections(b)) = Len(b)
  BY <1>1 DEF upsertConnections
<1>6. ASSUME NEW S, NEW T, NEW s \in Seq(S), NEW t \in Seq(T)
      PROVE  s \o t \in Seq(S \union T) /\ Len(s \o t) = Len(s) + Len(t)
  OBVIOUS
<1> DEFINE c == upsertConferences(b)   p == upsertParticipants(b)
           s == upsertSessions(b)      n == upsertConnections(b)
<1>7. PICK C, P, S, N : c \in Seq(C) /\ p \in Seq(P) /\ s \in Seq(S) /\ n \in Seq(N)
  BY <1>2, <1>3, <1>4, <1>5
<1>8. Len(c) = Len(b) /\ Len(p) = Len(b) /\ Len(s) = Len(b) /\ Len(n) = Len(b)
  BY <1>2, <1>3, <1>4, <1>5
<1>9. Upserts(b) = ((c \o p) \o s) \o n  BY DEF Upserts
<1> HIDE DEF c, p, s, n
<1>10. c \o p \in Seq(C \union P) /\ Len(c \o p) = Len(c) + Len(p)  BY <1>6, <1>7
<1>11. /\ (c \o p) \o s \in Seq((C \union P) \union S)
       /\ Len((c \o p) \o s) = Len(c \o p) + Len(s)
  BY <1>6, <1>7, <1>10
<1>12. /\ ((c \o p) \o s) \o n \in Seq(((C \union P) \union S) \union N)
       /\ Len(((c \o p) \o s) \o n) = Len((c \o p) \o s) + Len(n)
  BY <1>6, <1>7, <1>11
<1>13. Upserts(b) \in Seq(((C \union P) \union S) \union N) /\ Len(Upserts(b)) = 4 * Len(b)
  BY <1>8, <1>9, <1>10, <1>11, <1>12
<1> QED  BY <1>13

(* Of the upserts with one key, the first is sent. *)
LEMMA SentKeys ==
  ASSUME NEW b \in Seq(Payload), NEW k \in Keys(b)
  PROVE  \E i \in sent(Upserts(b)) : Upserts(b)[i].key = k
<1> DEFINE u == Upserts(b)
           Places == {i \in DOMAIN u : u[i].key = k}
<1>1. DOMAIN u = 1 .. 4 * Len(b)  BY UpsertsDomain
<1> HIDE DEF u
<1>2. Places \in SUBSET Nat /\ Places # {}  BY <1>1 DEF Keys, Range, u
<1>3. PICK i \in Places : \A j \in Places : i <= j
  <2> HIDE DEF Places
  <2> QED  BY <1>2, LeastNumber, Zenon
<1>4. i \in sent(u)  BY <1>1, <1>3 DEF sent
<1> QED  BY <1>3, <1>4 DEF u

(* A non-empty batch has something to send. *)
LEMMA SentSome ==
  ASSUME NEW b \in Seq(Payload), b # <<>>
  PROVE  sent(Upserts(b)) # {}
<1>1. 1 \in DOMAIN Upserts(b)  BY UpsertsDomain
<1>2. 1 \in sent(Upserts(b))  BY <1>1 DEF sent
<1> QED  BY <1>2

-----------------------------------------------------------------------------
(* Where a worker can be, and where its transaction has not committed. *)
Open == {"upsert", "waiting", "build", "copy"}
Place == Open \union {"idle", "cache", "deadletter"}

PlaceType ==
  /\ pc \in [Worker -> Place]
  /\ batch \in [Worker -> Seq(Payload)]
  /\ stored \subseteq Seq(Payload)
  /\ faults \in Nat /\ crashes \in Nat

(* A payload is in one batch only, in flight or over. *)
Apart ==
  /\ \A w \in Worker : /\ Range(batch[w]) \intersect done = {}
                       /\ IsInjective(batch[w])
                       /\ pc[w] = "idle" => batch[w] = <<>>
  /\ \A v, w \in Worker : v # w => Range(batch[v]) \intersect Range(batch[w]) = {}

(* What became of the payloads: nothing of an open transaction is stored,    *)
(* and a batch waits for its dead-letter file without being stored unless a  *)
(* fault has hit.                                                            *)
LossInv ==
  /\ PlaceType
  /\ Apart
  /\ files \subseteq done
  /\ Stored \subseteq done \union InFlight
  /\ \A w \in Worker :
       /\ \/ pc[w] \in Open
          \/ pc[w] = "deadletter" /\ faults = 0
          => Range(batch[w]) \intersect Stored = {}
       /\ pc[w] = "cache" => batch[w] \in stored
  /\ NoSilentLoss

(* A worker moves on, or its transaction is rolled back. *)
LEMMA LossMove ==
  ASSUME LossInv, NEW w \in Worker, NEW q \in Open \union {"deadletter"},
         pc[w] \in Open, pc' = [pc EXCEPT ![w] = q],
         faults' \in Nat, faults' >= faults,
         UNCHANGED <<batch, stored, crashes, files, done, dropped>>
  PROVE  LossInv'
<1>1. PlaceType'  BY DEF LossInv, PlaceType, Place, Open
<1>2. Apart'  BY DEF LossInv, PlaceType, Place, Apart, Open
<1>3. Stored' = Stored /\ InFlight' = InFlight  BY DEF Stored, InFlight
<1>4. faults' = 0 => faults = 0  BY DEF LossInv, PlaceType
<1>5. ASSUME NEW v \in Worker
      PROVE  /\ pc'[v] \in Open \/ (pc'[v] = "deadletter" /\ faults' = 0)
                => Range(batch[v]) \intersect Stored = {}
             /\ pc'[v] = "cache" => batch[v] \in stored
  BY <1>4 DEF LossInv, PlaceType, Open
<1>6. NoSilentLoss'  BY Zenon, <1>3, <1>4 DEF LossInv, NoSilentLoss
<1> QED  BY Zenon, <1>1, <1>2, <1>3, <1>5, <1>6 DEF LossInv

(* A worker takes a batch of new payloads. *)
LEMMA LossFlush ==
  ASSUME LossInv, NEW w \in Worker, NEW b \in Batches, Flush(w, b)
  PROVE  LossInv'
<1>1. PICK n \in Nat : b \in [1 .. n -> Payload \ (done \union InFlight)]
  BY FlusherAssumption DEF Batches
<1>2. b \in Seq(Payload) /\ IsInjective(b) /\ Range(b) \intersect (done \union InFlight) = {}
  <2>1. IsInjective(b)  BY DEF Batches
  <2>2. b \in Seq(Payload)  BY <1>1
  <2>3. Range(b) \intersect (done \union InFlight) = {}  BY Zenon, <1>1 DEF Range
  <2> QED  BY Zenon, <2>1, <2>2, <2>3
<1>3. /\ batch' = [batch EXCEPT ![w] = b] /\ pc' = [pc EXCEPT ![w] = "upsert"]
      /\ UNCHANGED <<stored, faults, crashes, files, done, dropped>>
      /\ pc[w] = "idle"
  BY DEF Flush
<1>4. PlaceType'  BY Zenon, <1>2, <1>3 DEF LossInv, PlaceType, Place, Open
<1>5. Stored' = Stored  BY <1>3 DEF Stored
<1>6. \A v \in Worker : Range(batch[v]) \intersect Range(b) = {}  BY Zenon, <1>2 DEF InFlight
<1>7. batch[w] = <<>> /\ Range(batch[w]) = {}
  BY <1>3 DEF LossInv, Apart, Range
<1>8. \A v \in Worker : batch'[v] = (IF v = w THEN b ELSE batch[v])
                        /\ pc'[v] = (IF v = w THEN "upsert" ELSE pc[v])
  BY <1>3 DEF LossInv, PlaceType
<1>9. Apart'
  <2>1. ASSUME NEW v \in Worker
        PROVE  /\ Range(batch'[v]) \intersect done' = {} /\ IsInjective(batch'[v])
               /\ pc'[v] = "idle" => batch'[v] = <<>>
    BY <1>2, <1>3, <1>8 DEF LossInv, Apart
  <2>2. ASSUME NEW u \in Worker, NEW v \in Worker, u # v
        PROVE  Range(batch'[u]) \intersect Range(batch'[v]) = {}
    BY Zenon, <1>6, <1>8, <2>2 DEF LossInv, Apart
  <2> QED  BY <2>1, <2>2, Zenon DEF Apart
<1>10. InFlight \subseteq InFlight'
  BY Zenon, <1>7, <1>8 DEF InFlight
<1>11. ASSUME NEW v \in Worker
       PROVE  /\ pc'[v] \in Open \/ (pc'[v] = "deadletter" /\ faults = 0)
                 => Range(batch'[v]) \intersect Stored = {}
              /\ pc'[v] = "cache" => batch'[v] \in stored
  BY Zenon, <1>2, <1>8 DEF LossInv, Open
<1> QED  BY Zenon, <1>3, <1>4, <1>5, <1>9, <1>10, <1>11 DEF LossInv, NoSilentLoss

(* COMMIT: the batch is stored, whether or not the answer arrives. *)
LEMMA LossCommit ==
  ASSUME LossInv, NEW w \in Worker, NEW answered \in BOOLEAN, Commit(w, answered)
  PROVE  LossInv'
<1>1. /\ stored' = stored \union {batch[w]}
      /\ pc' = [pc EXCEPT ![w] = IF answered THEN "cache" ELSE "deadletter"]
      /\ faults' = (IF answered THEN faults ELSE faults + 1)
      /\ UNCHANGED <<batch, files, crashes, done, dropped>>
      /\ pc[w] = "copy"
  BY DEF Commit
<1>2. PlaceType'  BY <1>1 DEF LossInv, PlaceType, Place, Open
<1>3. Apart'  BY <1>1 DEF LossInv, PlaceType, Place, Apart, Open
<1>4. Stored' = Stored \union Range(batch[w])  BY <1>1 DEF Stored
<1>5. InFlight' = InFlight /\ Range(batch[w]) \subseteq InFlight  BY Zenon, <1>1 DEF InFlight
<1>6. faults' = 0 => faults = 0 /\ answered  BY <1>1 DEF LossInv, PlaceType
<1>7. ASSUME NEW v \in Worker
      PROVE  /\ pc'[v] \in Open \/ (pc'[v] = "deadletter" /\ faults' = 0)
                => Range(batch[v]) \intersect Stored' = {}
             /\ pc'[v] = "cache" => batch[v] \in stored'
  <2>1. CASE v = w
    BY Zenon, <1>1, <1>6, <2>1 DEF LossInv, PlaceType, Open
  <2>2. CASE v # w
    <3>1. Range(batch[v]) \intersect Range(batch[w]) = {}  BY Zenon, <2>2 DEF LossInv, Apart
    <3>2. pc'[v] = pc[v]  BY Zenon, <1>1, <2>2 DEF LossInv, PlaceType
    <3> QED  BY Zenon, <1>1, <1>4, <1>6, <3>1, <3>2 DEF LossInv
  <2> QED  BY Zenon, <2>1, <2>2
<1>8. Range(batch[w]) \intersect files = {}  BY Zenon DEF LossInv, Apart
<1>9. NoSilentLoss'  BY Zenon, <1>1, <1>4, <1>6, <1>8 DEF LossInv, NoSilentLoss
<1> QED  BY Zenon, <1>1, <1>2, <1>3, <1>4, <1>5, <1>7, <1>9 DEF LossInv

(* Flush returns: the batch, stored, in a file or dropped, is over. *)
LEMMA LossReturn ==
  ASSUME LossInv, NEW w \in Worker, Return(w),
         faults' \in Nat, faults' >= faults, UNCHANGED <<stored, crashes>>,
         pc[w] \in {"cache", "deadletter"},
         \/ pc[w] = "cache" /\ UNCHANGED <<files, dropped>>
         \/ /\ pc[w] = "deadletter"
            /\ \/ files' = files \union Range(batch[w]) /\ dropped' = dropped
               \/ /\ files' = files /\ dropped' = dropped \union Range(batch[w])
                  /\ faults' # 0
  PROVE  LossInv'
<1>1. /\ pc' = [pc EXCEPT ![w] = "idle"] /\ batch' = [batch EXCEPT ![w] = <<>>]
      /\ done' = done \union Range(batch[w])
  BY Zenon DEF Return
<1>2. PlaceType'  BY <1>1 DEF LossInv, PlaceType, Place, Open
<1>3. \A v \in Worker : batch'[v] = (IF v = w THEN <<>> ELSE batch[v])
                        /\ pc'[v] = (IF v = w THEN "idle" ELSE pc[v])
  BY Zenon, <1>1 DEF LossInv, PlaceType
<1>4. Range(<<>>) = {} /\ IsInjective(<<>>)  BY DEF Range, IsInjective
<1>5. Apart'
  <2>1. ASSUME NEW v \in Worker
        PROVE  /\ Range(batch'[v]) \intersect done' = {} /\ IsInjective(batch'[v])
               /\ pc'[v] = "idle" => batch'[v] = <<>>
    <3>1. CASE v = w  BY Zenon, <1>3, <1>4, <3>1
    <3>2. CASE v # w
      <4>1. Range(batch[v]) \intersect Range(batch[w]) = {}  BY Zenon, <3>2 DEF LossInv, Apart
      <4> QED  BY Zenon, <1>1, <1>3, <3>2, <4>1 DEF LossInv, Apart
    <3> QED  BY Zenon, <3>1, <3>2
  <2>2. ASSUME NEW u \in Worker, NEW v \in Worker, u # v
        PROVE  Range(batch'[u]) \intersect Range(batch'[v]) = {}
    BY <1>3, <1>4, <2>2, Zenon DEF LossInv, Apart
  <2> QED  BY <2>1, <2>2, Zenon DEF Apart
<1>6. Stored' = Stored  BY DEF Stored
<1>7. done \union InFlight \subseteq done' \union InFlight'  BY <1>1, <1>3 DEF InFlight
<1>8. faults' = 0 => faults = 0  BY DEF LossInv, PlaceType
<1>9. ASSUME NEW v \in Worker
      PROVE  /\ pc'[v] \in Open \/ (pc'[v] = "deadletter" /\ faults' = 0)
                => Range(batch'[v]) \intersect Stored = {}
             /\ pc'[v] = "cache" => batch'[v] \in stored
  BY Zenon, <1>3, <1>8 DEF LossInv, Open
<1>10. files' \subseteq done'  BY Zenon, <1>1 DEF LossInv
<1>11. NoSilentLoss'
  <2>1. Range(batch[w]) \subseteq Stored' \union files' \union dropped'
    BY Zenon, <1>6 DEF LossInv, Stored
  <2>2. done' \subseteq Stored' \union files' \union dropped'
    BY Zenon, <1>1, <1>6, <2>1 DEF LossInv, NoSilentLoss
  <2>3. faults' = 0 => Stored \intersect files' = {}
    BY Zenon, <1>8 DEF LossInv, NoSilentLoss
  <2>4. faults' = 0 /\ crashes = 0 => dropped' = {}
    BY Zenon, <1>8 DEF LossInv, NoSilentLoss
  <2> QED  BY Zenon, <1>6, <2>2, <2>3, <2>4 DEF NoSilentLoss
<1> QED  BY Zenon, <1>2, <1>5, <1>6, <1>7, <1>9, <1>10, <1>11 DEF LossInv

(* A crash loses what is in memory, and counts. *)
LEMMA LossCrash ==
  ASSUME LossInv, Crash
  PROVE  LossInv'
<1>1. /\ crashes' = crashes + 1
      /\ pc' = [w \in Worker |-> "idle"] /\ batch' = [w \in Worker |-> <<>>]
      /\ done' = done \union InFlight /\ dropped' = dropped \union InFlight
      /\ UNCHANGED <<files, faults, stored>>
  BY Zenon DEF Crash
<1>2. PlaceType'  BY <1>1 DEF LossInv, PlaceType, Place
<1>3. Range(<<>>) = {} /\ IsInjective(<<>>)  BY DEF Range, IsInjective
<1>4. Apart'  BY Zenon, <1>1, <1>3 DEF Apart
<1>5. Stored' = Stored  BY Zenon, <1>1 DEF Stored
<1>6. crashes' # 0  BY <1>1 DEF LossInv, PlaceType
<1>7. NoSilentLoss'  BY Zenon, <1>1, <1>5, <1>6 DEF LossInv, NoSilentLoss
<1> QED  BY Zenon, <1>1, <1>2, <1>4, <1>5, <1>7 DEF LossInv, Open

(* Every step keeps the invariant. *)
LEMMA LossNext ==
  ASSUME LossInv, [Next]_vars
  PROVE  LossInv'
<1>1. ASSUME NEW w \in Worker, NEW b \in Batches, Flush(w, b) PROVE LossInv'
  BY <1>1, LossFlush
<1>2. ASSUME NEW w \in Worker,
             UpsertSelect(w) \/ UpsertInsert(w) \/ UpsertWait(w)
               \/ \E idle \in SUBSET DOMAIN ewma : buildStatRows(w, idle)
      PROVE  LossInv'
  <2>1. /\ \E q \in Open : pc' = [pc EXCEPT ![w] = q]
        /\ pc[w] \in Open
        /\ UNCHANGED <<batch, stored, faults, crashes, files, done, dropped>>
    BY <1>2, Zenon DEF UpsertSelect, UpsertInsert, UpsertWait, buildStatRows, Advance, Open
  <2>2. PICK q \in Open : pc' = [pc EXCEPT ![w] = q]  BY <2>1, Zenon
  <2>3. faults' \in Nat /\ faults' >= faults  BY <2>1 DEF LossInv, PlaceType
  <2> QED  BY <2>1, <2>2, <2>3, LossMove, Zenon
<1>3. ASSUME NEW w \in Worker, UpsertNoRows(w) \/ DeadlockAbort(w) \/ DBError(w)
      PROVE  LossInv'
  <2>1. /\ pc' = [pc EXCEPT ![w] = "deadletter"]
        /\ pc[w] \in Open
        /\ faults' = faults \/ faults' = faults + 1
        /\ UNCHANGED <<batch, stored, crashes, files, done, dropped>>
    BY Zenon, <1>3 DEF UpsertNoRows, DeadlockAbort, DBError, Rollback, WaitsFor, Open
  <2>2. faults' \in Nat /\ faults' >= faults  BY <2>1 DEF LossInv, PlaceType
  <2> QED  BY <2>1, <2>2, LossMove, Zenon
<1>4. ASSUME NEW w \in Worker, NEW ok \in BOOLEAN, Commit(w, ok) PROVE LossInv'
  BY Zenon, <1>4, LossCommit
<1>5. ASSUME NEW w \in Worker, NEW ok \in BOOLEAN, updateCache(w, ok) PROVE LossInv'
  <2>1. faults' \in Nat /\ faults' >= faults  BY <1>5 DEF updateCache, LossInv, PlaceType
  <2> QED  BY Zenon, <1>5, <2>1, LossReturn DEF updateCache
<1>6. ASSUME NEW w \in Worker, NEW ok \in BOOLEAN, writeDeadLetter(w, ok) PROVE LossInv'
  <2>1. faults' \in Nat /\ faults' >= faults /\ (~ok => faults' # 0)
    BY <1>6 DEF writeDeadLetter, LossInv, PlaceType
  <2> QED  BY Zenon, <1>6, <2>1, LossReturn DEF writeDeadLetter
<1>7. ASSUME UNCHANGED <<pc, batch, stored, faults, crashes, files, done, dropped>>
      PROVE  LossInv'
  BY <1>7 DEF LossInv, PlaceType, Apart, NoSilentLoss, Stored, InFlight
<1>8. CASE \E k \in DOMAIN cache : CacheExpire(k)
  BY Zenon, <1>7, <1>8 DEF CacheExpire, mem
<1>9. CASE Crash  BY Zenon, <1>9, LossCrash
<1>10. CASE Rest \/ UNCHANGED vars  BY Zenon, <1>7, <1>10 DEF Rest, vars, mem
<1> QED  BY Zenon, <1>1, <1>2, <1>3, <1>4, <1>5, <1>6, <1>8, <1>9, <1>10 DEF Next, Step

(* At the start there is nothing to lose. *)
LEMMA LossInit == Init => LossInv
<1> SUFFICES ASSUME Init PROVE LossInv  OBVIOUS
<1>1. Range(<<>>) = {} /\ IsInjective(<<>>)  BY DEF Range, IsInjective
<1>2. PlaceType /\ Stored = {}  BY DEF Init, PlaceType, Place, Stored
<1>3. Apart  BY Zenon, <1>1 DEF Init, Apart
<1>4. NoSilentLoss  BY <1>2 DEF Init, NoSilentLoss
<1> QED  BY Zenon, <1>2, <1>3, <1>4 DEF Init, LossInv, Open

(* Whatever fails, waits or crashes, a payload whose Flush is over is in the *)
(* database, in a dead-letter file or known to be dropped (flush.go:88-161). *)
THEOREM NoPayloadLostSilently == Spec => []NoSilentLoss
<1>1. Init => LossInv  BY LossInit
<1>2. LossInv /\ [Next]_vars => LossInv'  BY Zenon, LossNext
<1>3. LossInv => NoSilentLoss  BY Zenon DEF LossInv
<1> QED  BY <1>1, <1>2, <1>3, PTL DEF Spec

-----------------------------------------------------------------------------
(* The upserts of a batch that are sent, and those already in effect.        *)
Covered(w) == DOMAIN own[w] \union DOMAIN db

(* What w's transaction has done: every key it still lacks is the key of a   *)
(* statement it has still to send.                                           *)
OwnInv(w) ==
  /\ DOMAIN own[w] \subseteq Keys(batch[w])
  /\ todo[w] \subseteq sent(Upserts(batch[w]))
  /\ pc[w] \notin Open => own[w] = NoRows
  /\ pc[w] \in {"upsert", "waiting"} =>
       /\ todo[w] # {}
       /\ \A k \in Keys(batch[w]) \ Covered(w) :
            \E i \in todo[w] : Upserts(batch[w])[i].key = k
  /\ pc[w] \in {"build", "copy"} => Keys(batch[w]) \subseteq Covered(w)
  /\ pc[w] = "copy" => {r.payload : r \in rows[w]} = Range(batch[w])

RowsInv ==
  /\ own = [w \in Worker |-> own[w]]
  /\ rows = [w \in Worker |-> rows[w]]
  /\ todo = [w \in Worker |-> todo[w]]
  /\ \A w \in Worker : OwnInv(w)
  /\ AllOrNothing

(* A step of w leaves the transaction of another worker alone, and rows of   *)
(* the database are never deleted by a flush.                                *)
LEMMA OwnOther ==
  ASSUME NEW v \in Worker, OwnInv(v), DOMAIN db \subseteq DOMAIN db',
         pc'[v] = pc[v], batch'[v] = batch[v], todo'[v] = todo[v],
         own'[v] = own[v], rows'[v] = rows[v]
  PROVE  OwnInv(v)'
<1>1. Covered(v) \subseteq Covered(v)'  BY Zenon DEF Covered
<1> QED  BY Zenon, <1>1 DEF OwnInv

(* What the tables show does not depend on the workers. *)
LEMMA AllOrNothingKept ==
  ASSUME AllOrNothing, UNCHANGED <<db, stats, stored, cache>>
  PROVE  AllOrNothing'
BY Zenon DEF AllOrNothing, Stored

(* A step of w touches the transaction of w only. *)
OnlyOf(w) ==
  /\ own' = [v \in Worker |-> own'[v]]
  /\ rows' = [v \in Worker |-> rows'[v]]
  /\ todo' = [v \in Worker |-> todo'[v]]
  /\ \A v \in Worker \ {w} :
       /\ pc'[v] = pc[v] /\ batch'[v] = batch[v] /\ todo'[v] = todo[v]
       /\ own'[v] = own[v] /\ rows'[v] = rows[v]

(* A step of one worker keeps what the others know of their transactions. *)
LEMMA RowsStep ==
  ASSUME RowsInv, NEW w \in Worker, OnlyOf(w), DOMAIN db \subseteq DOMAIN db',
         AllOrNothing', OwnInv(w)'
  PROVE  RowsInv'
<1>1. ASSUME NEW v \in Worker, v # w PROVE OwnInv(v)'
  BY Zenon, <1>1, OwnOther DEF RowsInv, OnlyOf
<1> QED  BY Zenon, <1>1 DEF RowsInv, OnlyOf

(* A step of one worker that leaves the database alone. *)
LEMMA RowsLocal ==
  ASSUME RowsInv, NEW w \in Worker, OnlyOf(w), UNCHANGED <<db, stats, stored, cache>>,
         OwnInv(w)'
  PROVE  RowsInv'
<1>1. AllOrNothing'  BY Zenon, AllOrNothingKept DEF RowsInv
<1> QED  BY Zenon, <1>1, RowsStep

(* What one table over another shows. *)
LEMMA Override ==
  ASSUME NEW f, NEW g
  PROVE  /\ DOMAIN Over(f, g) = DOMAIN f \union DOMAIN g
         /\ \A x \in DOMAIN f : Over(f, g)[x] = f[x]
         /\ \A x \in DOMAIN g \ DOMAIN f : Over(f, g)[x] = g[x]
BY Zenon DEF Over

(* A new batch has no rows of its own yet. *)
LEMMA RowsFlush ==
  ASSUME LossInv, RowsInv, NEW w \in Worker, NEW b \in Batches, Flush(w, b)
  PROVE  RowsInv'
<1>1. PICK n \in 1 .. MaxBatch : b \in [1 .. n -> Payload \ (done \union InFlight)]
  BY DEF Batches
<1>2. b \in Seq(Payload) /\ b # <<>>
  <2>1. n \in Nat /\ n > 0  BY FlusherAssumption
  <2>2. b \in [1 .. n -> Payload]  BY Zenon, <1>1
  <2> QED  BY <2>1, <2>2
<1>3. /\ batch' = [batch EXCEPT ![w] = b] /\ pc' = [pc EXCEPT ![w] = "upsert"]
      /\ todo' = [todo EXCEPT ![w] = sent(Upserts(b))]
      /\ UNCHANGED <<db, stats, stored, cache, own, rows>>
      /\ pc[w] = "idle"
  BY DEF Flush
<1>4. OnlyOf(w)  BY <1>3, Zenon DEF OnlyOf, RowsInv, LossInv, PlaceType
<1>5. own[w] = NoRows  BY Zenon, <1>3 DEF RowsInv, OwnInv, Open
<1>6. /\ pc'[w] = "upsert" /\ batch'[w] = b /\ todo'[w] = sent(Upserts(b))
      /\ own'[w] = NoRows
  BY Zenon, <1>3, <1>5 DEF LossInv, PlaceType, RowsInv
<1>7. OwnInv(w)'
  <2>1. sent(Upserts(b)) # {}  BY Zenon, <1>2, SentSome
  <2>2. \A k \in Keys(b) : \E i \in sent(Upserts(b)) : Upserts(b)[i].key = k
    BY <1>2, SentKeys
  <2>3. DOMAIN NoRows = {}  BY Zenon DEF NoRows
  <2> QED  BY <1>6, <2>1, <2>2, <2>3 DEF OwnInv, Open
<1> QED  BY Zenon, <1>3, <1>4, <1>7, RowsLocal

(* The next statement is the first that is left, and it is of the batch. *)
LEMMA NextStatement ==
  ASSUME LossInv, RowsInv, NEW w \in Worker, pc[w] \in {"upsert", "waiting"}
  PROVE  /\ Min(todo[w]) \in todo[w]
         /\ Stmt(w).key \in Keys(batch[w])
<1>1. batch[w] \in Seq(Payload)  BY Zenon DEF LossInv, PlaceType
<1>2. todo[w] \subseteq DOMAIN Upserts(batch[w]) /\ todo[w] # {}
  BY DEF RowsInv, OwnInv, sent
<1>3. todo[w] \subseteq Nat  BY <1>1, <1>2, UpsertsDomain
<1>4. Min(todo[w]) \in todo[w]  BY Zenon, <1>2, <1>3, LeastNumber
<1> QED  BY Zenon, <1>2, <1>4 DEF Stmt, Keys, Range

(* A statement is done: its key is now in the database or inserted by w. *)
LEMMA RowsAdvance ==
  ASSUME LossInv, RowsInv, NEW w \in Worker, pc[w] \in {"upsert", "waiting"},
         Advance(w), NEW o, own' = [own EXCEPT ![w] = o],
         DOMAIN own[w] \union {Stmt(w).key} \subseteq DOMAIN o \union DOMAIN db,
         DOMAIN o \subseteq DOMAIN own[w] \union {Stmt(w).key},
         DOMAIN own[w] \subseteq DOMAIN o,
         UNCHANGED <<db, stats, stored, cache, batch, rows>>
  PROVE  RowsInv'
<1> DEFINE m == Min(todo[w])
           q == IF todo[w] = {m} THEN "build" ELSE "upsert"
<1>1. m \in todo[w] /\ Stmt(w).key \in Keys(batch[w])  BY Zenon, NextStatement
<1>2. /\ todo' = [todo EXCEPT ![w] = todo[w] \ {m}]
      /\ pc' = [pc EXCEPT ![w] = q]
  BY DEF Advance
<1>3. OnlyOf(w)
  <2> HIDE DEF q, m
  <2> QED  BY <1>2, Zenon DEF OnlyOf, RowsInv, LossInv, PlaceType
<1>4. /\ pc'[w] = q /\ todo'[w] = todo[w] \ {m} /\ own'[w] = o
      /\ batch'[w] = batch[w]
  BY Zenon, <1>2 DEF LossInv, PlaceType, RowsInv
<1>5. Stmt(w) = Upserts(batch[w])[m]  BY Zenon DEF Stmt
<1> HIDE DEF m
<1>6. Covered(w)' = DOMAIN o \union DOMAIN db  BY Zenon, <1>4 DEF Covered
<1>7. ASSUME NEW k \in Keys(batch[w]), k \notin Covered(w)'
      PROVE  \E i \in todo[w] \ {m} : Upserts(batch[w])[i].key = k
  <2>1. k \notin Covered(w) /\ k # Stmt(w).key  BY Zenon, <1>6, <1>7 DEF Covered
  <2>2. PICK i \in todo[w] : Upserts(batch[w])[i].key = k
    BY Zenon, <2>1 DEF RowsInv, OwnInv
  <2> QED  BY Zenon, <1>5, <2>1, <2>2
<1>8. DOMAIN o \subseteq Keys(batch[w])  BY Zenon, <1>1 DEF RowsInv, OwnInv
<1>9. todo[w] \ {m} \subseteq sent(Upserts(batch[w]))  BY Zenon DEF RowsInv, OwnInv
<1>10. OwnInv(w)'  BY Zenon, <1>1, <1>4, <1>7, <1>8, <1>9 DEF OwnInv, Open
<1> QED  BY Zenon, <1>3, <1>10, RowsLocal

(* The transaction is rolled back. *)
LEMMA RowsRollback ==
  ASSUME LossInv, RowsInv, NEW w \in Worker, Rollback(w)
  PROVE  RowsInv'
<1>1. /\ own' = [own EXCEPT ![w] = NoRows] /\ rows' = [rows EXCEPT ![w] = {}]
      /\ pc' = [pc EXCEPT ![w] = "deadletter"]
      /\ UNCHANGED <<db, stats, stored, cache, batch, todo>>
  BY DEF Rollback
<1>2. OnlyOf(w)  BY <1>1, Zenon DEF OnlyOf, RowsInv, LossInv, PlaceType
<1>3. pc'[w] = "deadletter" /\ own'[w] = NoRows
  BY <1>1 DEF RowsInv, LossInv, PlaceType
<1>4. DOMAIN NoRows = {}  BY Zenon DEF NoRows
<1>5. OwnInv(w)'  BY Zenon, <1>1, <1>3, <1>4 DEF RowsInv, OwnInv, Open
<1> QED  BY Zenon, <1>1, <1>2, <1>5, RowsLocal

(* buildStatRows makes one row of every payload of the batch. *)
LEMMA RowsBuild ==
  ASSUME LossInv, RowsInv, NEW w \in Worker, NEW idle, buildStatRows(w, idle)
  PROVE  RowsInv'
<1>1. PICK r : rows' = [rows EXCEPT ![w] = r] /\ {x.payload : x \in r} = Range(batch[w])
  <2> DEFINE after == ewmaStates(batch[w], [k \in DOMAIN ewma \ idle |-> ewma[k]])
             r == {[payload |-> batch[w][i], ewma |-> after[i][ewmaKey(batch[w][i])]] :
                     i \in DOMAIN batch[w]}
  <2>1. rows' = [rows EXCEPT ![w] = r]  BY Zenon DEF buildStatRows
  <2> HIDE DEF after
  <2>2. {x.payload : x \in r} = {batch[w][i] : i \in DOMAIN batch[w]}
    <3>1. ASSUME NEW i \in DOMAIN batch[w] PROVE \E x \in r : x.payload = batch[w][i]
      <4>1. [payload |-> batch[w][i], ewma |-> after[i][ewmaKey(batch[w][i])]] \in r
        BY Zenon
      <4> HIDE DEF r
      <4> QED  BY Zenon, <4>1
    <3>2. \A x \in r : \E i \in DOMAIN batch[w] : x.payload = batch[w][i]  OBVIOUS
    <3> HIDE DEF r
    <3> QED  BY <3>1, <3>2
  <2> QED  BY <2>1, <2>2, Zenon DEF Range
<1>2. /\ pc[w] = "build" /\ pc' = [pc EXCEPT ![w] = "copy"]
      /\ UNCHANGED <<db, stats, stored, cache, batch, todo, own>>
  BY DEF buildStatRows
<1>3. OnlyOf(w)  BY <1>1, <1>2, Zenon DEF OnlyOf, RowsInv, LossInv, PlaceType
<1>4. pc'[w] = "copy" /\ rows'[w] = r  BY Zenon, <1>1, <1>2 DEF RowsInv, LossInv, PlaceType
<1>5. OwnInv(w)'  BY Zenon, <1>1, <1>2, <1>4 DEF RowsInv, OwnInv, Open, Covered
<1> QED  BY Zenon, <1>1, <1>2, <1>3, <1>5, RowsLocal

(* Commit publishes the rows of the transaction and nothing else. *)
LEMMA RowsCommit ==
  ASSUME LossInv, RowsInv, NEW w \in Worker, NEW answered \in BOOLEAN, Commit(w, answered)
  PROVE  RowsInv'
<1>1. /\ pc[w] = "copy" /\ db' = Over(own[w], db) /\ stats' = stats \union rows[w]
      /\ stored' = stored \union {batch[w]}
      /\ own' = [own EXCEPT ![w] = NoRows] /\ rows' = [rows EXCEPT ![w] = {}]
      /\ pc' = [pc EXCEPT ![w] = IF answered THEN "cache" ELSE "deadletter"]
      /\ UNCHANGED <<cache, batch, todo>>
  BY DEF Commit
<1>2. DOMAIN db' = DOMAIN own[w] \union DOMAIN db  BY <1>1, Override, Zenon
<1>3. Keys(batch[w]) \union DOMAIN db = DOMAIN db'
  BY Zenon, <1>1, <1>2 DEF RowsInv, OwnInv, Covered
<1>4. Stored' = Stored \union Range(batch[w])  BY Zenon, <1>1 DEF Stored
<1>5. AllOrNothing'
  <2>1. DOMAIN db' = UNION {Keys(b) : b \in stored'}
    BY <1>1, <1>3, ZenonT(60) DEF RowsInv, AllOrNothing
  <2>2. {r.payload : r \in stats'} = Stored'
    <3>1. {r.payload : r \in rows[w]} = Range(batch[w])  BY Zenon, <1>1 DEF RowsInv, OwnInv
    <3>2. {r.payload : r \in stats} = Stored  BY DEF RowsInv, AllOrNothing
    <3> QED  BY Zenon, <1>1, <1>4, <3>1, <3>2
  <2>3. \A k \in DOMAIN cache : \E p \in Stored' : confKey(p) = k /\ Field[p].ts = cache[k].last
    BY <1>4 DEF RowsInv, AllOrNothing
  <2> QED  BY Zenon, <1>1, <2>1, <2>2, <2>3 DEF AllOrNothing
<1>6. OnlyOf(w)
  <2> DEFINE q == IF answered THEN "cache" ELSE "deadletter"
  <2>1. pc' = [pc EXCEPT ![w] = q]  BY <1>1
  <2> HIDE DEF q
  <2> QED  BY <1>1, <2>1, Zenon DEF OnlyOf, RowsInv, LossInv, PlaceType
<1>7. OwnInv(w)'
  <2>1. pc'[w] \in {"cache", "deadletter"} /\ own'[w] = NoRows
    BY Zenon, <1>1 DEF RowsInv, LossInv, PlaceType
  <2>2. DOMAIN NoRows = {}  BY Zenon DEF NoRows
  <2>3. todo'[w] \subseteq sent(Upserts(batch'[w]))  BY Zenon, <1>1 DEF RowsInv, OwnInv
  <2> QED  BY Zenon, <2>1, <2>2, <2>3 DEF OwnInv, Open
<1> QED  BY Zenon, <1>2, <1>5, <1>6, <1>7, RowsStep

(* Flush returns, with the cache updated from a stored batch or left alone. *)
LEMMA RowsReturn ==
  ASSUME LossInv, RowsInv, NEW w \in Worker, Return(w),
         pc[w] \in {"cache", "deadletter"},
         UNCHANGED <<db, stats, stored, own, rows>>,
         \/ cache' = cache
         \/ pc[w] = "cache" /\ cache' = Over(cacheEntries(batch[w]), cache)
  PROVE  RowsInv'
<1>1. /\ pc' = [pc EXCEPT ![w] = "idle"] /\ batch' = [batch EXCEPT ![w] = <<>>]
      /\ todo' = [todo EXCEPT ![w] = {}]
  BY Zenon DEF Return
<1>2. \A k \in DOMAIN cache' :
        \E p \in Stored : confKey(p) = k /\ Field[p].ts = cache'[k].last
  <2>1. SUFFICES ASSUME pc[w] = "cache", cache' = Over(cacheEntries(batch[w]), cache),
                        NEW k \in DOMAIN cache'
                 PROVE  \E p \in Stored : confKey(p) = k /\ Field[p].ts = cache'[k].last
    BY DEF RowsInv, AllOrNothing
  <2>2. CASE k \in DOMAIN cacheEntries(batch[w])
    <3>1. batch[w] \in stored /\ batch[w] \in Seq(Payload)
      BY Zenon, <2>1 DEF LossInv, PlaceType
    <3>2. Range(batch[w]) \subseteq Stored  BY <3>1 DEF Stored
    <3>3. cache'[k] = cacheEntries(batch[w])[k]  BY <2>1, <2>2, Override, Zenon
    <3> QED  BY Zenon, <2>2, <3>1, <3>2, <3>3, EntryOfBatch
  <2>3. CASE k \notin DOMAIN cacheEntries(batch[w])
    <3> DEFINE e == cacheEntries(batch[w])
    <3> HIDE DEF e
    <3>1. DOMAIN Over(e, cache) = DOMAIN e \union DOMAIN cache
          /\ \A x \in DOMAIN cache \ DOMAIN e : Over(e, cache)[x] = cache[x]
      BY Override, Zenon
    <3>2. k \in DOMAIN cache /\ cache'[k] = cache[k]  BY Zenon, <2>1, <2>3, <3>1 DEF e
    <3> QED  BY <3>2 DEF RowsInv, AllOrNothing
  <2> QED  BY Zenon, <2>2, <2>3
<1>3. AllOrNothing'  BY <1>2 DEF RowsInv, AllOrNothing, Stored
<1>4. OnlyOf(w)  BY <1>1, Zenon DEF OnlyOf, RowsInv, LossInv, PlaceType
<1>5. OwnInv(w)'
  <2>1. pc'[w] = "idle" /\ own'[w] = NoRows /\ todo'[w] = {}
    BY Zenon, <1>1 DEF RowsInv, LossInv, PlaceType, OwnInv, Open
  <2>2. DOMAIN NoRows = {}  BY DEF NoRows
  <2> QED  BY Zenon, <2>1, <2>2 DEF OwnInv, Open
<1> QED  BY Zenon, <1>3, <1>4, <1>5, RowsStep

(* A crash ends every transaction without a trace. *)
LEMMA RowsCrash ==
  ASSUME RowsInv, Crash
  PROVE  RowsInv'
<1>1. /\ pc' = [w \in Worker |-> "idle"] /\ batch' = [w \in Worker |-> <<>>]
      /\ todo' = [w \in Worker |-> {}] /\ own' = [w \in Worker |-> NoRows]
      /\ rows' = [w \in Worker |-> {}] /\ UNCHANGED <<db, stats, stored, cache>>
  BY DEF Crash
<1>2. DOMAIN NoRows = {}  BY Zenon DEF NoRows
<1>3. \A w \in Worker : OwnInv(w)'  BY Zenon, <1>1, <1>2 DEF OwnInv, Open
<1>4. AllOrNothing'  BY Zenon, <1>1, AllOrNothingKept DEF RowsInv
<1> QED  BY Zenon, <1>1, <1>3, <1>4 DEF RowsInv

(* Every step keeps the invariant. *)
LEMMA RowsNext ==
  ASSUME LossInv, RowsInv, [Next]_vars
  PROVE  RowsInv'
<1>1. ASSUME NEW w \in Worker, NEW b \in Batches, Flush(w, b) PROVE RowsInv'
  BY <1>1, RowsFlush
<1>2. ASSUME NEW w \in Worker, UpsertSelect(w) PROVE RowsInv'
  <2>1. own' = [own EXCEPT ![w] = own[w]]  BY <1>2 DEF UpsertSelect, RowsInv
  <2> QED  BY <1>2, <2>1, RowsAdvance, Zenon DEF UpsertSelect
<1>3. ASSUME NEW w \in Worker, UpsertInsert(w) PROVE RowsInv'
  <2> DEFINE o == Over([k \in {Stmt(w).key} |-> Stmt(w).parent], own[w])
  <2>1. own' = [own EXCEPT ![w] = o]  BY <1>3, Zenon DEF UpsertInsert
  <2>2. DOMAIN o = DOMAIN own[w] \union {Stmt(w).key}
    <3> DEFINE r == [k \in {Stmt(w).key} |-> Stmt(w).parent]
    <3>1. DOMAIN r = {Stmt(w).key}  OBVIOUS
    <3> HIDE DEF r
    <3>2. DOMAIN Over(r, own[w]) = DOMAIN r \union DOMAIN own[w]  BY Override, Zenon
    <3> QED  BY Zenon, <3>1, <3>2 DEF r
  <2> HIDE DEF o
  <2> QED  BY <1>3, <2>1, <2>2, RowsAdvance, Zenon DEF UpsertInsert
<1>4. ASSUME NEW w \in Worker, UpsertWait(w) PROVE RowsInv'
  <2>1. /\ pc' = [pc EXCEPT ![w] = "waiting"] /\ pc[w] = "upsert"
        /\ UNCHANGED <<db, stats, stored, cache, batch, todo, own, rows>>
    BY Zenon, <1>4 DEF UpsertWait
  <2>2. OnlyOf(w)  BY Zenon, <2>1 DEF OnlyOf, RowsInv, LossInv, PlaceType
  <2>3. pc'[w] = "waiting"  BY Zenon, <2>1 DEF LossInv, PlaceType
  <2>4. OwnInv(w)'  BY <2>1, <2>3 DEF RowsInv, OwnInv, Open, Covered
  <2> QED  BY Zenon, <2>1, <2>2, <2>4, RowsLocal
<1>5. ASSUME NEW w \in Worker, UpsertNoRows(w) \/ DeadlockAbort(w) \/ DBError(w)
      PROVE  RowsInv'
  BY Zenon, <1>5, RowsRollback DEF UpsertNoRows, DeadlockAbort, DBError
<1>6. ASSUME NEW w \in Worker, NEW idle, buildStatRows(w, idle) PROVE RowsInv'
  BY Zenon, <1>6, RowsBuild
<1>7. ASSUME NEW w \in Worker, NEW ok \in BOOLEAN, Commit(w, ok) PROVE RowsInv'
  BY Zenon, <1>7, RowsCommit
<1>8. ASSUME NEW w \in Worker, NEW ok \in BOOLEAN, updateCache(w, ok) PROVE RowsInv'
  <2>1. /\ pc[w] = "cache" /\ Return(w) /\ UNCHANGED <<db, stats, stored, own, rows>>
        /\ cache' = cache \/ cache' = Over(cacheEntries(batch[w]), cache)
    BY Zenon, <1>8 DEF updateCache
  <2> QED  BY Zenon, <2>1, RowsReturn
<1>9. ASSUME NEW w \in Worker, NEW ok \in BOOLEAN, writeDeadLetter(w, ok) PROVE RowsInv'
  <2>1. /\ pc[w] = "deadletter" /\ Return(w)
        /\ UNCHANGED <<db, stats, stored, own, rows, cache>>
    BY <1>9 DEF writeDeadLetter
  <2> QED  BY Zenon, <2>1, RowsReturn
<1>10. ASSUME NEW k, CacheExpire(k) PROVE RowsInv'
  <2>1. /\ cache' = [j \in DOMAIN cache \ {k} |-> cache[j]]
        /\ UNCHANGED <<db, stats, stored, pc, batch, todo, own, rows>>
    BY <1>10 DEF CacheExpire, mem
  <2>2. AllOrNothing'  BY Zenon, <2>1 DEF RowsInv, AllOrNothing, Stored
  <2> QED  BY <2>1, <2>2, ZenonT(60) DEF RowsInv, OwnInv, Covered
<1>11. CASE Crash  BY Zenon, <1>11, RowsCrash
<1>12. CASE Rest \/ UNCHANGED vars
  <2>1. UNCHANGED <<db, stats, stored, cache, pc, batch, todo, own, rows>>
    BY Zenon, <1>12 DEF Rest, vars, mem
  <2>2. AllOrNothing'  BY <2>1, AllOrNothingKept DEF RowsInv
  <2> QED  BY <2>1, <2>2 DEF RowsInv, OwnInv, Covered
<1> QED
  BY Zenon, <1>1, <1>2, <1>3, <1>4, <1>5, <1>6, <1>7, <1>8, <1>9, <1>10, <1>11, <1>12
  DEF Next, Step

(* A batch is stored as a whole or not at all, and the active-conference     *)
(* cache shows stored payloads only (flush.go:107-111, 160; cache.go:21-67). *)
THEOREM BatchIsAtomic == Spec => []AllOrNothing
<1>1. Init => LossInv /\ RowsInv
  <2> SUFFICES ASSUME Init PROVE RowsInv  BY Zenon, LossInit
  <2>1. DOMAIN NoRows = {} /\ Stored = {}  BY Zenon DEF Init, NoRows, Stored
  <2>2. AllOrNothing  BY Zenon, <2>1 DEF Init, AllOrNothing
  <2>3. \A w \in Worker : OwnInv(w)  BY Zenon, <2>1 DEF Init, OwnInv, Open
  <2> QED  BY Zenon, <2>2, <2>3 DEF Init, RowsInv
<1>2. (LossInv /\ RowsInv) /\ [Next]_vars => (LossInv /\ RowsInv)'  BY Zenon, LossNext, RowsNext
<1>3. LossInv /\ RowsInv => AllOrNothing  BY DEF RowsInv
<1> QED  BY <1>1, <1>2, <1>3, PTL DEF Spec

-----------------------------------------------------------------------------
(* What holds before a loop and is kept by each of its rounds holds after it. *)
LEMMA EveryPrefix ==
  ASSUME NEW n \in Nat, NEW S, 0 \in S, \A i \in 1 .. n : i - 1 \in S => i \in S
  PROVE  0 .. n \subseteq S
<1> DEFINE Bad == {i \in 0 .. n : i \notin S}
<1>1. SUFFICES ASSUME Bad # {} PROVE FALSE  OBVIOUS
<1>2. Bad \in SUBSET Nat  OBVIOUS
<1>3. PICK m \in Bad : \A i \in Bad : m <= i
  <2> HIDE DEF Bad
  <2> QED  BY <1>1, <1>2, LeastNumber, Zenon
<1>4. m \in 1 .. n /\ m - 1 \in 0 .. n  OBVIOUS
<1>5. m - 1 \in S  BY <1>3, <1>4
<1> QED  BY Zenon, <1>3, <1>4, <1>5

(* The states of the loop of buildStatRows exist, each from the one before. *)
LEMMA StatesOfLoop ==
  ASSUME NEW b \in Seq(Payload), NEW state
  PROVE  LET after == ewmaStates(b, state)
         IN  /\ after[0] = state
             /\ \A i \in 1 .. Len(b) : after[i] = addSample(after[i - 1], b[i])
<1> DEFINE Loop(g) == g = [i \in 0 .. Len(b) |->
                             IF i = 0 THEN state ELSE addSample(g[i - 1], b[i])]
           Upto(n, g) == /\ DOMAIN g = 0 .. n
                         /\ g[0] = state
                         /\ \A i \in 1 .. n : g[i] = addSample(g[i - 1], b[i])
           S == {n \in 0 .. Len(b) : \E g : Upto(n, g)}
<1>1. Len(b) \in Nat  OBVIOUS
<1>2. 0 \in S
  <2>1. Upto(0, [i \in 0 .. 0 |-> state])  OBVIOUS
  <2> HIDE DEF Upto
  <2> QED  BY <1>1, <2>1
<1>3. ASSUME NEW m \in 1 .. Len(b), m - 1 \in S PROVE m \in S
  <2>1. PICK g : Upto(m - 1, g)  BY Zenon, <1>3
  <2> DEFINE h == [i \in 0 .. m |-> IF i = m THEN addSample(g[m - 1], b[m]) ELSE g[i]]
  <2>2. DOMAIN h = 0 .. m /\ h[0] = state  BY <2>1
  <2>3. ASSUME NEW i \in 1 .. m PROVE h[i] = addSample(h[i - 1], b[i])
    <3>1. h[i - 1] = g[i - 1]  OBVIOUS
    <3>2. CASE i = m  BY <3>1, <3>2
    <3>3. CASE i # m
      <4>1. i \in 1 .. m - 1 /\ h[i] = g[i]  BY <3>3
      <4> QED  BY Zenon, <2>1, <3>1, <4>1
    <3> QED  BY Zenon, <3>2, <3>3
  <2> HIDE DEF h
  <2>4. Upto(m, h)  BY Zenon, <2>2, <2>3
  <2> HIDE DEF Upto
  <2> QED  BY <1>1, <2>4
<1>4. Len(b) \in S
  <2> HIDE DEF S
  <2>1. 0 .. Len(b) \subseteq S  BY <1>1, <1>2, <1>3, EveryPrefix, Zenon
  <2> QED  BY <1>1, <2>1
<1>5. PICK g : Upto(Len(b), g)  BY Zenon, <1>4
<1> DEFINE f == [i \in 0 .. Len(b) |-> g[i]]
<1>6. Loop(f)
  <2>1. ASSUME NEW i \in 0 .. Len(b)
        PROVE  f[i] = IF i = 0 THEN state ELSE addSample(f[i - 1], b[i])
    <3>1. CASE i = 0  BY Zenon, <1>5, <3>1
    <3>2. CASE i # 0
      <4>1. i \in 1 .. Len(b) /\ i - 1 \in 0 .. Len(b)  BY <1>1, <3>2
      <4> QED  BY Zenon, <1>5, <4>1
    <3> QED  BY Zenon, <3>1, <3>2
  <2> QED  BY Zenon, <2>1
<1>7. ewmaStates(b, state) = CHOOSE h : Loop(h)  BY DEF ewmaStates
<1>8. Loop(ewmaStates(b, state))
  <2> HIDE DEF Loop, f
  <2> QED  BY Zenon, <1>6, <1>7
<1> DEFINE after == ewmaStates(b, state)
<1> HIDE DEF after
<1>9. after = [i \in 0 .. Len(b) |->
                 IF i = 0 THEN state ELSE addSample(after[i - 1], b[i])]
  BY Zenon, <1>8 DEF after
<1>10. after[0] = state  BY <1>1, <1>9
<1>11. ASSUME NEW i \in 1 .. Len(b) PROVE after[i] = addSample(after[i - 1], b[i])
  <2>1. i \in 0 .. Len(b) /\ i # 0  BY <1>1
  <2> QED  BY Zenon, <1>9, <2>1
<1> QED  BY Zenon, <1>10, <1>11 DEF after

-----------------------------------------------------------------------------
(* A history of the key k: its own samples, each once. *)
History(k, h) ==
  /\ h \in Seq(Payload)
  /\ IsInjective(h)
  /\ \A p \in Range(h) : ewmaKey(p) = k

GoodState(s) == \A k \in DOMAIN s : History(k, s[k])

GoodRow(r) ==
  /\ r.payload \in Payload
  /\ History(ewmaKey(r.payload), r.ewma)
  /\ r.ewma # <<>>
  /\ r.ewma[Len(r.ewma)] = r.payload

Folded(s) == UNION {Range(s[k]) : k \in DOMAIN s}

(* The state holds samples of batches whose rows are built already. *)
EwmaInv ==
  /\ rows = [w \in Worker |-> rows[w]]
  /\ GoodState(ewma)
  /\ Folded(ewma) \subseteq done \union InFlight
  /\ \A w \in Worker :
       /\ pc[w] \in Open \ {"copy"} => Range(batch[w]) \intersect Folded(ewma) = {}
       /\ \A r \in rows[w] : GoodRow(r)
  /\ \A r \in stats : GoodRow(r)

(* A new sample at the end of its history. *)
LEMMA OneMoreSample ==
  ASSUME NEW k, NEW h, History(k, h), NEW p \in Payload, p \notin Range(h), ewmaKey(p) = k
  PROVE  /\ History(k, Append(h, p))
         /\ Range(Append(h, p)) = Range(h) \union {p}
         /\ Append(h, p) # <<>>
         /\ Append(h, p)[Len(Append(h, p))] = p
<1> DEFINE a == Append(h, p)
<1>1. h \in Seq(Payload) /\ Len(h) \in Nat /\ DOMAIN h = 1 .. Len(h)  BY DEF History
<1>2. /\ a \in Seq(Payload) /\ Len(a) = Len(h) + 1 /\ DOMAIN a = 1 .. Len(h) + 1
      /\ a[Len(h) + 1] = p /\ \A i \in 1 .. Len(h) : a[i] = h[i]
  BY <1>1
<1> HIDE DEF a
<1>3. Range(a) = Range(h) \union {p}
  <2>1. \A x \in Range(a) : x \in Range(h) \union {p}  BY <1>1, <1>2 DEF Range
  <2>2. \A x \in Range(h) \union {p} : x \in Range(a)  BY <1>1, <1>2 DEF Range
  <2> QED  BY Zenon, <2>1, <2>2
<1>4. IsInjective(a)
  <2>1. \A i \in 1 .. Len(h) : h[i] # p  BY Zenon, <1>1 DEF Range
  <2>2. \A i, j \in 1 .. Len(h) : h[i] = h[j] => i = j
    BY Zenon, <1>1 DEF History, IsInjective
  <2>3. \A i, j \in 1 .. Len(h) + 1 : a[i] = a[j] => i = j
    BY <1>1, <1>2, <2>1, <2>2
  <2> QED  BY Zenon, <1>2, <2>3 DEF IsInjective
<1>5. \A x \in Range(a) : ewmaKey(x) = k  BY Zenon, <1>3 DEF History
<1> QED  BY <1>1, <1>2, <1>3, <1>4, <1>5 DEF History, a

(* One round of the loop, for a sample not seen before. *)
LEMMA GoodSample ==
  ASSUME NEW s, GoodState(s), NEW p \in Payload, p \notin Folded(s)
  PROVE  /\ GoodState(addSample(s, p))
         /\ Folded(addSample(s, p)) \subseteq Folded(s) \union {p}
         /\ GoodRow([payload |-> p, ewma |-> addSample(s, p)[ewmaKey(p)]])
<1> DEFINE k == ewmaKey(p)
           h == IF k \in DOMAIN s THEN s[k] ELSE <<>>
           r == [j \in {k} |-> Append(h, p)]
           t == addSample(s, p)
<1>1. History(k, h)
  BY DEF GoodState, History, IsInjective, Range
<1>2. p \notin Range(h)  BY DEF Folded, Range
<1>3. t = Over(r, s)  BY Zenon DEF addSample
<1>4. DOMAIN r = {k} /\ r[k] = Append(h, p)  BY Zenon
<1>5. Range(h) \subseteq Folded(s)  BY DEF Folded, Range
<1>6. k = ewmaKey(p)  BY Zenon
<1> HIDE DEF h, r, t, k
<1>7. /\ History(k, Append(h, p)) /\ Range(Append(h, p)) = Range(h) \union {p}
      /\ Append(h, p) # <<>> /\ Append(h, p)[Len(Append(h, p))] = p
  BY <1>1, <1>2, <1>6, OneMoreSample
<1>8. /\ DOMAIN t = {k} \union DOMAIN s /\ t[k] = Append(h, p)
      /\ \A j \in DOMAIN s \ {k} : t[j] = s[j]
  <2>1. /\ DOMAIN Over(r, s) = DOMAIN r \union DOMAIN s
        /\ \A j \in DOMAIN r : Over(r, s)[j] = r[j]
        /\ \A j \in DOMAIN s \ DOMAIN r : Over(r, s)[j] = s[j]
    BY Override, Zenon
  <2> QED  BY Zenon, <1>3, <1>4, <2>1
<1>9. GoodState(t)  BY <1>7, <1>8, Zenon DEF GoodState
<1>10. Folded(t) \subseteq Folded(s) \union {p}
  <2>1. ASSUME NEW j \in DOMAIN t PROVE Range(t[j]) \subseteq Folded(s) \union {p}
    <3>1. CASE j = k  BY <1>5, <1>7, <1>8, <3>1, Zenon
    <3>2. CASE j # k  BY Zenon, <1>8, <3>2 DEF Folded
    <3> QED  BY Zenon, <3>1, <3>2
  <2> QED  BY Zenon, <2>1 DEF Folded
<1>11. GoodRow([payload |-> p, ewma |-> t[k]])  BY Zenon, <1>6, <1>7, <1>8 DEF GoodRow
<1> QED  BY Zenon, <1>6, <1>9, <1>10, <1>11 DEF t

(* The whole loop over a batch of new samples. *)
LEMMA GoodBatch ==
  ASSUME NEW b \in Seq(Payload), IsInjective(b), NEW s, GoodState(s),
         Range(b) \intersect Folded(s) = {}
  PROVE  LET after == ewmaStates(b, s)
         IN  /\ GoodState(after[Len(b)])
             /\ Folded(after[Len(b)]) \subseteq Folded(s) \union Range(b)
             /\ \A i \in DOMAIN b :
                  GoodRow([payload |-> b[i], ewma |-> after[i][ewmaKey(b[i])]])
<1> DEFINE after == ewmaStates(b, s)
           Good(i) == /\ GoodState(after[i])
                      /\ Folded(after[i]) \subseteq Folded(s) \union {b[j] : j \in 1 .. i}
           S == {i \in 0 .. Len(b) : Good(i)}
<1>1. /\ after[0] = s
      /\ \A i \in 1 .. Len(b) : after[i] = addSample(after[i - 1], b[i])
  BY ZenonT(60), StatesOfLoop
<1> HIDE DEF after
<1>2. Len(b) \in Nat /\ DOMAIN b = 1 .. Len(b)  OBVIOUS
<1>3. ASSUME NEW i \in 1 .. Len(b), Good(i - 1)
      PROVE  /\ Good(i)
             /\ GoodRow([payload |-> b[i], ewma |-> after[i][ewmaKey(b[i])]])
  <2>1. b[i] \in Payload /\ b[i] \notin Folded(s)  BY <1>2 DEF Range
  <2>2. \A j \in 1 .. i - 1 : b[j] # b[i]  BY <1>2 DEF IsInjective
  <2>3. b[i] \notin Folded(after[i - 1])  BY Zenon, <1>3, <2>1, <2>2
  <2>4. after[i] = addSample(after[i - 1], b[i])  BY Zenon, <1>1
  <2>5. /\ GoodState(after[i]) /\ Folded(after[i]) \subseteq Folded(after[i - 1]) \union {b[i]}
        /\ GoodRow([payload |-> b[i], ewma |-> after[i][ewmaKey(b[i])]])
    BY <1>3, <2>1, <2>3, <2>4, GoodSample
  <2>6. Folded(after[i]) \subseteq Folded(s) \union {b[j] : j \in 1 .. i}
    <3>1. {b[j] : j \in 1 .. i - 1} \subseteq {b[j] : j \in 1 .. i}  OBVIOUS
    <3>2. b[i] \in {b[j] : j \in 1 .. i}  BY <1>2
    <3> QED  BY Zenon, <1>3, <2>5, <3>1, <3>2
  <2> QED  BY Zenon, <2>5, <2>6
<1>4. Good(0)  BY Zenon, <1>1
<1> HIDE DEF Good
<1>5. 0 .. Len(b) \subseteq S
  <2>1. 0 \in S  BY <1>2, <1>4
  <2>2. ASSUME NEW i \in 1 .. Len(b), i - 1 \in S PROVE i \in S
    <3>1. Good(i)  BY <1>3, <2>2, Zenon
    <3> QED  BY <1>2, <3>1
  <2> HIDE DEF S
  <2> QED  BY <1>2, <2>1, <2>2, EveryPrefix, Zenon
<1>6. \A i \in 0 .. Len(b) : Good(i)  BY Zenon, <1>5
<1>7. \A i \in DOMAIN b : GoodRow([payload |-> b[i], ewma |-> after[i][ewmaKey(b[i])]])
  BY <1>2, <1>3, <1>6
<1>8. Good(Len(b))  BY <1>2, <1>6
<1>9. {b[j] : j \in 1 .. Len(b)} = Range(b)  BY Zenon, <1>2 DEF Range
<1> QED  BY Zenon, <1>7, <1>8, <1>9 DEF Good, after

(* A step that folds nothing: no batch that is still to be folded contains a *)
(* sample of the state, and only built rows are stored.                      *)
LEMMA EwmaQuiet ==
  ASSUME EwmaInv, ewma' = ewma,
         done \union InFlight \subseteq done' \union InFlight',
         rows' = [w \in Worker |-> rows'[w]],
         \A w \in Worker : rows'[w] \subseteq rows[w],
         stats' \subseteq stats \union UNION {rows[w] : w \in Worker},
         \A w \in Worker : pc'[w] \in Open \ {"copy"} =>
           \/ pc[w] \in Open \ {"copy"} /\ batch'[w] = batch[w]
           \/ Range(batch'[w]) \intersect (done \union InFlight) = {}
  PROVE  EwmaInv'
<1>1. ASSUME NEW w \in Worker, pc'[w] \in Open \ {"copy"}
      PROVE  Range(batch'[w]) \intersect Folded(ewma) = {}
  BY Zenon, <1>1 DEF EwmaInv
<1>2. \A w \in Worker : \A r \in rows'[w] : GoodRow(r)  BY Zenon DEF EwmaInv
<1>3. \A r \in stats' : GoodRow(r)  BY DEF EwmaInv
<1> QED  BY Zenon, <1>1, <1>2, <1>3 DEF EwmaInv

(* A worker takes a batch of payloads no other one holds. *)
LEMMA EwmaFlush ==
  ASSUME LossInv, EwmaInv, NEW w \in Worker, NEW b \in Batches, Flush(w, b)
  PROVE  EwmaInv'
<1>1. PICK n : b \in [1 .. n -> Payload \ (done \union InFlight)]  BY Zenon DEF Batches
<1>2. Range(b) \intersect (done \union InFlight) = {}  BY Zenon, <1>1 DEF Range
<1>3. /\ \A v \in Worker : /\ batch'[v] = (IF v = w THEN b ELSE batch[v])
                           /\ v # w => pc'[v] = pc[v]
      /\ UNCHANGED <<ewma, done, rows, stats>> /\ pc[w] = "idle"
  BY Zenon DEF Flush, LossInv, PlaceType
<1>4. batch[w] = <<>> /\ Range(batch[w]) = {}
  BY <1>3 DEF LossInv, Apart, Range
<1>5. InFlight \subseteq InFlight'  BY Zenon, <1>3, <1>4 DEF InFlight
<1>6. rows' = [v \in Worker |-> rows'[v]] /\ \A v \in Worker : rows'[v] \subseteq rows[v]
  BY Zenon, <1>3 DEF EwmaInv
<1>7. ASSUME NEW v \in Worker, pc'[v] \in Open \ {"copy"}
      PROVE  \/ pc[v] \in Open \ {"copy"} /\ batch'[v] = batch[v]
             \/ Range(batch'[v]) \intersect (done \union InFlight) = {}
  BY Zenon, <1>2, <1>3, <1>7
<1> QED  BY Zenon, <1>3, <1>5, <1>6, <1>7, EwmaQuiet

(* A worker moves within its transaction, or leaves it. *)
LEMMA EwmaMove ==
  ASSUME LossInv, EwmaInv, NEW w \in Worker, NEW q, pc' = [pc EXCEPT ![w] = q],
         pc[w] \in Open \ {"copy"} \/ q \notin Open \ {"copy"},
         rows' = rows \/ rows' = [rows EXCEPT ![w] = {}],
         stats' \subseteq stats \union rows[w],
         UNCHANGED <<ewma, batch, done>>
  PROVE  EwmaInv'
<1>1. InFlight' = InFlight  BY Zenon DEF InFlight
<1>2. rows' = [v \in Worker |-> rows'[v]] /\ \A v \in Worker : rows'[v] \subseteq rows[v]
  BY Zenon DEF EwmaInv
<1>3. stats' \subseteq stats \union UNION {rows[v] : v \in Worker}  BY Zenon
<1>4. ASSUME NEW v \in Worker, pc'[v] \in Open \ {"copy"}
      PROVE  pc[v] \in Open \ {"copy"} /\ batch'[v] = batch[v]
  BY Zenon, <1>4 DEF LossInv, PlaceType
<1> QED  BY Zenon, <1>1, <1>2, <1>3, <1>4, EwmaQuiet

(* A worker is done with its batch. *)
LEMMA EwmaReturn ==
  ASSUME LossInv, EwmaInv, NEW w \in Worker, Return(w), UNCHANGED <<ewma, rows, stats>>
  PROVE  EwmaInv'
<1>1. /\ \A v \in Worker : /\ batch'[v] = (IF v = w THEN <<>> ELSE batch[v])
                           /\ pc'[v] = (IF v = w THEN "idle" ELSE pc[v])
      /\ done' = done \union Range(batch[w])
  BY Zenon DEF Return, LossInv, PlaceType
<1>2. done \union InFlight \subseteq done' \union InFlight'  BY Zenon, <1>1 DEF InFlight
<1>3. rows' = [v \in Worker |-> rows'[v]] /\ \A v \in Worker : rows'[v] \subseteq rows[v]
  BY Zenon DEF EwmaInv
<1>4. ASSUME NEW v \in Worker, pc'[v] \in Open \ {"copy"}
      PROVE  pc[v] \in Open \ {"copy"} /\ batch'[v] = batch[v]
  BY Zenon, <1>1, <1>4 DEF Open
<1> QED  BY Zenon, <1>2, <1>3, <1>4, EwmaQuiet

(* Under ewmaMu: idle entries are evicted, then the batch is folded in. *)
LEMMA EwmaBuild ==
  ASSUME LossInv, EwmaInv, NEW w \in Worker, NEW idle, buildStatRows(w, idle)
  PROVE  EwmaInv'
<1> DEFINE b == batch[w]
           kept == [k \in DOMAIN ewma \ idle |-> ewma[k]]
           after == ewmaStates(b, kept)
           row(i) == [payload |-> b[i], ewma |-> after[i][ewmaKey(b[i])]]
<1>1. /\ ewma' = after[Len(b)] /\ rows' = [rows EXCEPT ![w] = {row(i) : i \in DOMAIN b}]
      /\ pc[w] = "build" /\ pc' = [pc EXCEPT ![w] = "copy"]
      /\ UNCHANGED <<batch, done, stats>>
  BY Zenon DEF buildStatRows
<1>2. b \in Seq(Payload) /\ IsInjective(b)  BY Zenon DEF LossInv, PlaceType, Apart
<1>3. GoodState(kept) /\ Folded(kept) \subseteq Folded(ewma)
  BY DEF EwmaInv, GoodState, Folded
<1>4. Range(b) \intersect Folded(kept) = {}  BY <1>1, <1>3, Zenon DEF EwmaInv, Open
<1> HIDE DEF kept
<1>5. /\ GoodState(after[Len(b)]) /\ Folded(after[Len(b)]) \subseteq Folded(kept) \union Range(b)
      /\ \A i \in DOMAIN b : GoodRow([payload |-> b[i], ewma |-> after[i][ewmaKey(b[i])]])
  BY <1>2, <1>3, <1>4, GoodBatch, Zenon
<1> HIDE DEF after
<1>6. InFlight' = InFlight /\ Range(b) \subseteq InFlight  BY Zenon, <1>1 DEF InFlight
<1>7. Folded(ewma') \subseteq Folded(ewma) \union Range(b)  BY Zenon, <1>1, <1>3, <1>5
<1>8. Folded(ewma') \subseteq done' \union InFlight'  BY Zenon, <1>1, <1>6, <1>7 DEF EwmaInv
<1>9. rows' = [v \in Worker |-> rows'[v]]  BY <1>1, Zenon DEF EwmaInv
<1>10. ASSUME NEW v \in Worker
       PROVE  /\ pc'[v] \in Open \ {"copy"} => Range(batch'[v]) \intersect Folded(ewma') = {}
              /\ \A r \in rows'[v] : GoodRow(r)
  <2>1. CASE v = w
    <3>1. pc'[w] = "copy" /\ rows'[w] = {row(i) : i \in DOMAIN b}
      BY Zenon, <1>1 DEF LossInv, PlaceType, EwmaInv
    <3> QED  BY Zenon, <1>5, <2>1, <3>1
  <2>2. CASE v # w
    <3>1. pc'[v] = pc[v] /\ rows'[v] = rows[v] /\ batch'[v] = batch[v]
      BY Zenon, <1>1, <2>2 DEF LossInv, PlaceType, EwmaInv
    <3>2. Range(batch[v]) \intersect Range(b) = {}  BY Zenon, <2>2 DEF LossInv, Apart
    <3> QED  BY Zenon, <1>7, <3>1, <3>2 DEF EwmaInv
  <2> QED  BY Zenon, <2>1, <2>2
<1>11. \A r \in stats' : GoodRow(r)  BY Zenon, <1>1 DEF EwmaInv
<1> QED  BY Zenon, <1>1, <1>5, <1>8, <1>9, <1>10, <1>11 DEF EwmaInv

(* Every step keeps the invariant. *)
LEMMA EwmaNext ==
  ASSUME LossInv, EwmaInv, [Next]_vars
  PROVE  EwmaInv'
<1>1. ASSUME NEW w \in Worker, NEW b \in Batches, Flush(w, b) PROVE EwmaInv'
  BY <1>1, EwmaFlush
<1>2. ASSUME NEW w \in Worker, UpsertSelect(w) \/ UpsertInsert(w) \/ UpsertWait(w)
      PROVE  EwmaInv'
  <2>1. /\ \E q : pc' = [pc EXCEPT ![w] = q]
        /\ pc[w] \in Open \ {"copy"}
        /\ UNCHANGED <<ewma, rows, stats, batch, done>>
    BY Zenon, <1>2 DEF UpsertSelect, UpsertInsert, UpsertWait, Advance, Open
  <2>2. PICK q : pc' = [pc EXCEPT ![w] = q]  BY <2>1, Zenon
  <2> QED  BY <2>1, <2>2, EwmaMove, Zenon
<1>3. ASSUME NEW w \in Worker, Rollback(w) PROVE EwmaInv'
  <2>1. /\ pc' = [pc EXCEPT ![w] = "deadletter"] /\ rows' = [rows EXCEPT ![w] = {}]
        /\ UNCHANGED <<ewma, stats, batch, done>> /\ "deadletter" \notin Open \ {"copy"}
    BY Zenon, <1>3 DEF Rollback, Open
  <2> QED  BY <2>1, EwmaMove, Zenon
<1>4. ASSUME NEW w \in Worker, UpsertNoRows(w) \/ DeadlockAbort(w) \/ DBError(w)
      PROVE  EwmaInv'
  BY Zenon, <1>3, <1>4 DEF UpsertNoRows, DeadlockAbort, DBError
<1>5. ASSUME NEW w \in Worker, NEW idle, buildStatRows(w, idle) PROVE EwmaInv'
  BY <1>5, EwmaBuild
<1>6. ASSUME NEW w \in Worker, NEW ok \in BOOLEAN, Commit(w, ok) PROVE EwmaInv'
  <2> DEFINE q == IF ok THEN "cache" ELSE "deadletter"
  <2>1. /\ pc' = [pc EXCEPT ![w] = q] /\ rows' = [rows EXCEPT ![w] = {}]
        /\ stats' = stats \union rows[w] /\ UNCHANGED <<ewma, batch, done>>
    BY <1>6, Zenon DEF Commit
  <2>2. q \notin Open \ {"copy"}  BY Zenon DEF Open
  <2> HIDE DEF q
  <2> QED  BY <2>1, <2>2, EwmaMove, ZenonT(30)
<1>7. ASSUME NEW w \in Worker, NEW ok \in BOOLEAN,
             updateCache(w, ok) \/ writeDeadLetter(w, ok)
      PROVE  EwmaInv'
  <2>1. Return(w) /\ UNCHANGED <<ewma, rows, stats>>
    BY Zenon, <1>7 DEF updateCache, writeDeadLetter
  <2> QED  BY Zenon, <2>1, EwmaReturn
<1>8. CASE Crash
  <2>1. /\ ewma' = NoRows /\ pc' = [w \in Worker |-> "idle"]
        /\ rows' = [w \in Worker |-> {}] /\ UNCHANGED stats
    BY Zenon, <1>8 DEF Crash
  <2>2. GoodState(ewma') /\ Folded(ewma') = {}  BY Zenon, <2>1 DEF GoodState, Folded, NoRows
  <2> QED  BY Zenon, <2>1, <2>2 DEF EwmaInv, Open
<1>9. ASSUME UNCHANGED <<ewma, rows, stats, pc, batch, done>> PROVE EwmaInv'
  BY Zenon, <1>9 DEF EwmaInv, InFlight
<1>10. CASE \E k \in DOMAIN cache : CacheExpire(k)  BY Zenon, <1>9, <1>10 DEF CacheExpire, mem
<1>11. CASE Rest \/ UNCHANGED vars  BY Zenon, <1>9, <1>11 DEF Rest, vars, mem
<1> QED
  BY ZenonT(60), <1>1, <1>2, <1>4, <1>5, <1>6, <1>7, <1>8, <1>10, <1>11 DEF Next, Step

(* The EWMA of a stored row has seen the samples of its own connection and   *)
(* source only, each once and its own last, although all workers share one   *)
(* state, which loses entries when idle and is lost in a crash               *)
(* (flush.go:337-394).                                                       *)
THEOREM EwmaOfItsOwn == Spec => []EwmaIsolated
<1>1. Init => LossInv /\ EwmaInv
  <2> SUFFICES ASSUME Init PROVE EwmaInv  BY LossInit
  <2>1. GoodState(ewma) /\ Folded(ewma) = {}  BY Zenon DEF Init, GoodState, Folded, NoRows
  <2> QED  BY Zenon, <2>1 DEF Init, EwmaInv, Open
<1>2. (LossInv /\ EwmaInv) /\ [Next]_vars => (LossInv /\ EwmaInv)'  BY LossNext, EwmaNext
<1>3. LossInv /\ EwmaInv => EwmaIsolated
  <2> SUFFICES ASSUME EwmaInv, NEW r \in stats
               PROVE  /\ \A p \in Range(r.ewma) :
                           /\ Field[p].conn = Field[r.payload].conn
                           /\ Field[p].source = Field[r.payload].source
                      /\ IsInjective(r.ewma)
                      /\ r.ewma[Len(r.ewma)] = r.payload
    BY Zenon DEF EwmaIsolated
  <2>1. GoodRow(r)  BY Zenon DEF EwmaInv
  <2>2. \A p \in Range(r.ewma) : ewmaKey(p) = ewmaKey(r.payload)
    BY <2>1 DEF GoodRow, History
  <2> QED  BY Zenon, <2>1, <2>2 DEF GoodRow, History, ewmaKey
<1> QED  BY <1>1, <1>2, <1>3, PTL DEF Spec
=============================================================================
