------------------------- MODULE PoolAndCacheProofs -------------------------
(***************************************************************************)
(* Proofs about two components that several goroutines share: the worker   *)
(* pool, for every set of payloads, workers and Shutdown callers, every    *)
(* batch size and every channel capacity; and the cache of the query API,  *)
(* for every set of apps, keys, requests and calls of HandleEndConference, *)
(* every TTL and delay, and any number of faults.                          *)
(***************************************************************************)
EXTENDS WorkerPool, AnalyticsCache, TLAPS

-----------------------------------------------------------------------------
(* The items of a sequence after a send and after a receive. *)
LEMMA ItemsAppend ==
  ASSUME NEW S, NEW s \in Seq(S), NEW x \in S
  PROVE  Items(Append(s, x)) = Items(s) \union {x}
<1>1. /\ DOMAIN Append(s, x) = 1 .. (Len(s) + 1)
      /\ DOMAIN s = 1 .. Len(s) /\ Len(s) \in Nat
      /\ \A i \in 1 .. Len(s) : Append(s, x)[i] = s[i]
      /\ Append(s, x)[Len(s) + 1] = x
  OBVIOUS
<1>2. Items(Append(s, x)) \subseteq Items(s) \union {x}
  <2>1. ASSUME NEW i \in 1 .. (Len(s) + 1)
        PROVE  Append(s, x)[i] \in Items(s) \union {x}
    BY <1>1, <2>1 DEF Items
  <2>2. QED  BY <1>1, <2>1 DEF Items
<1>3. Items(s) \union {x} \subseteq Items(Append(s, x))
  <2>1. ASSUME NEW i \in 1 .. Len(s) PROVE s[i] \in Items(Append(s, x))
    BY <1>1, <2>1 DEF Items
  <2>2. Len(s) + 1 \in 1 .. (Len(s) + 1)  BY <1>1
  <2>3. x \in Items(Append(s, x))  BY <1>1, <2>2 DEF Items
  <2>4. QED  BY <1>1, <2>1, <2>3 DEF Items
<1>4. QED  BY <1>2, <1>3

LEMMA ItemsTail ==
  ASSUME NEW S, NEW s \in Seq(S), s # <<>>
  PROVE  Items(s) = {Head(s)} \union Items(Tail(s))
<1>1. /\ Head(s) = s[1] /\ 1 \in DOMAIN s
      /\ DOMAIN Tail(s) = 1 .. (Len(s) - 1)
      /\ \A i \in DOMAIN Tail(s) : Tail(s)[i] = s[i + 1] /\ i + 1 \in DOMAIN s
      /\ DOMAIN s = 1 .. Len(s) /\ Len(s) \in Nat \ {0}
  OBVIOUS
<1>2. ASSUME NEW i \in DOMAIN s PROVE s[i] \in {Head(s)} \union Items(Tail(s))
  <2>1. CASE i = 1  BY <2>1, <1>1
  <2>2. CASE i # 1
    <3>1. i - 1 \in DOMAIN Tail(s) /\ (i - 1) + 1 = i  BY <2>2, <1>1
    <3>2. QED  BY <3>1, <1>1 DEF Items
  <2>3. QED  BY <2>1, <2>2
<1>3. Items(s) \subseteq {Head(s)} \union Items(Tail(s))
  BY <1>2 DEF Items
<1>4. {Head(s)} \union Items(Tail(s)) \subseteq Items(s)
  BY <1>1 DEF Items
<1>5. QED  BY <1>3, <1>4

LEMMA ItemsEmpty == Items(<<>>) = {}
BY DEF Items

-----------------------------------------------------------------------------
(* Type correctness. *)
LEMMA TypeInductive == TypeOK /\ [Next]_vars => TypeOK'
<1> SUFFICES ASSUME TypeOK, [Next]_vars PROVE TypeOK'  OBVIOUS
<1> USE DEF TypeOK, CallState, StopState, RunState
<1>1. ASSUME NEW p \in Payload, Enqueue(p) PROVE TypeOK'
  <2>1. CASE EnqueueRLock(p)  BY <2>1 DEF EnqueueRLock
  <2>2. CASE EnqueueTestClosed(p)  BY <2>2 DEF EnqueueTestClosed
  <2>3. CASE EnqueueSend(p)
    <3>1. ch' \in Seq(Payload)  BY <2>3 DEF EnqueueSend
    <3>2. QED  BY <2>3, <3>1 DEF EnqueueSend
  <2>4. CASE EnqueueFull(p)  BY <2>4 DEF EnqueueFull
  <2>5. QED  BY <1>1, <2>1, <2>2, <2>3, <2>4 DEF Enqueue
<1>2. ASSUME NEW s \in Stopper, Shutdown(s) PROVE TypeOK'
  BY <1>2, Zenon DEF Shutdown, ShutdownOnce, ShutdownAgain, ShutdownClose, ShutdownReturn
<1>3. ASSUME NEW w \in Worker, WorkerLoop(w) PROVE TypeOK'
  <2>1. CASE Receive(w)
    <3>1. Head(ch) \in Payload /\ Tail(ch) \in Seq(Payload)
      BY <2>1 DEF Receive
    <3>2. Append(batch[w], Head(ch)) \in Seq(Payload)  BY <3>1
    <3>3. QED  BY <2>1, <3>1, <3>2 DEF Receive
  <2>2. CASE ReceiveClosed(w)  BY <2>2 DEF ReceiveClosed
  <2>3. CASE Tick(w)  BY <2>3 DEF Tick
  <2>4. CASE doFlush(w)
    <3>1. <<>> \in Seq(Payload)  OBVIOUS
    <3>2. batch' \in [Worker -> Seq(Payload)]  BY <2>4, <3>1 DEF doFlush
    <3>3. flushes' \in [Payload -> Nat]  BY <2>4 DEF doFlush
    <3>4. QED  BY <2>4, <3>2, <3>3 DEF doFlush
  <2>5. QED  BY <1>3, <2>1, <2>2, <2>3, <2>4 DEF WorkerLoop
<1>4. CASE UNCHANGED vars  BY <1>4 DEF vars
<1>5. QED  BY <1>1, <1>2, <1>3, <1>4 DEF Next, Rest

(* Every state of the pool is well typed: no step of Enqueue, Shutdown or    *)
(* the worker loop leaves the declared states.                               *)
THEOREM TypeCorrect == Spec => []TypeOK
<1>1. Init => TypeOK
  <2> SUFFICES ASSUME Init PROVE TypeOK  OBVIOUS
  <2> USE DEF Init, CallState, StopState, RunState
  <2>1. <<>> \in Seq(Payload)  OBVIOUS
  <2>2. ch \in Seq(Payload) /\ batch \in [Worker -> Seq(Payload)]  BY <2>1
  <2>3. call \in [Payload -> CallState] /\ stop \in [Stopper -> StopState]
    OBVIOUS
  <2>4. run \in [Worker -> RunState]  OBVIOUS
  <2>5. QED  BY <2>2, <2>3, <2>4, Zenon DEF TypeOK
<1>2. QED  BY <1>1, TypeInductive, PTL DEF Spec

-----------------------------------------------------------------------------
(* The inductive invariant PoolInv, part by part.  Most steps move no item:  *)
(* they change a program counter, the lock or closed.                        *)
NoItemMoves ==
  /\ UNCHANGED <<ch, batch, flushes, ticket, issued>>
  /\ \A p \in Payload : call'[p] = "accepted" <=> call[p] = "accepted"

LEMMA NoItemMovesKeeps ==
  ASSUME PoolInv, NoItemMoves
  PROVE  ExactlyOnce' /\ WithinBounds' /\ InOrder' /\ TicketsIssued'
           /\ BatchesDisjoint'
<1> USE DEF PoolInv, NoItemMoves
<1>1. ExactlyOnce'  BY DEF ExactlyOnce, Held
<1>2. WithinBounds'  BY DEF WithinBounds
<1>3. InOrder'  BY DEF InOrder
<1>4. TicketsIssued'  BY DEF TicketsIssued
<1>5. BatchesDisjoint'  BY DEF BatchesDisjoint
<1>6. QED  BY <1>1, <1>2, <1>3, <1>4, <1>5

LEMMA EnqueueKeeps ==
  ASSUME PoolInv, TypeOK', NEW p \in Payload, Enqueue(p)
  PROVE  PoolInv'
<1> USE DEF PoolInv
<1>1. CASE EnqueueRLock(p)
  <2>1. NoItemMoves  BY <1>1 DEF EnqueueRLock, NoItemMoves, TypeOK
  <2>2. NeverSendClosed'  BY <1>1 DEF EnqueueRLock, NeverSendClosed, TypeOK
  <2>3. WorkerStates'  BY <1>1 DEF EnqueueRLock, WorkerStates
  <2>4. QED  BY <2>1, <2>2, <2>3, NoItemMovesKeeps
<1>2. CASE EnqueueTestClosed(p)
  <2>1. NoItemMoves  BY <1>2 DEF EnqueueTestClosed, NoItemMoves, TypeOK
  <2>2. NeverSendClosed'  BY <1>2 DEF EnqueueTestClosed, NeverSendClosed, TypeOK
  <2>3. WorkerStates'  BY <1>2 DEF EnqueueTestClosed, WorkerStates
  <2>4. QED  BY <2>1, <2>2, <2>3, NoItemMovesKeeps
<1>3. CASE EnqueueFull(p)
  <2>1. NoItemMoves  BY <1>3 DEF EnqueueFull, NoItemMoves, TypeOK
  <2>2. NeverSendClosed'  BY <1>3 DEF EnqueueFull, NeverSendClosed, TypeOK
  <2>3. WorkerStates'  BY <1>3 DEF EnqueueFull, WorkerStates
  <2>4. QED  BY <2>1, <2>2, <2>3, NoItemMovesKeeps
<1>4. CASE EnqueueSend(p)
  <2> USE <1>4 DEF EnqueueSend
  <2>1. Items(ch') = Items(ch) \union {p}  BY ItemsAppend DEF TypeOK
  <2>2. ~Held(p) /\ flushes[p] = 0  BY DEF ExactlyOnce
  <2>3. \A q \in Payload : Held(q)' <=> Held(q) \/ q = p  BY <2>1 DEF Held
  <2>4. ExactlyOnce'  BY <2>2, <2>3 DEF ExactlyOnce, TypeOK
  <2>5. NeverSendClosed'  BY DEF NeverSendClosed
  <2>6. WithinBounds'
    BY ChannelCapAssumption DEF WithinBounds, TypeOK
  <2>7. TicketsIssued'  BY DEF TicketsIssued, TypeOK
  <2>8. BatchesDisjoint'  BY DEF BatchesDisjoint
  <2>9. WorkerStates'  BY DEF WorkerStates
  <2>10. InOrder'
    <3>1. \A q \in Payload : Held(q) => ticket'[q] = ticket[q]
      BY <2>2 DEF TypeOK
    <3>2. \A q \in Payload : Held(q) => ticket'[q] < issued + 1
      BY <3>1 DEF TicketsIssued, TypeOK
    <3>3. ticket'[p] = issued + 1  BY DEF TypeOK
    <3>4. /\ DOMAIN ch' = 1 .. (Len(ch) + 1) /\ DOMAIN ch = 1 .. Len(ch)
          /\ Len(ch) \in Nat /\ ch'[Len(ch) + 1] = p
          /\ \A i \in DOMAIN ch : ch'[i] = ch[i]
      BY DEF TypeOK
    <3>5. \A i \in DOMAIN ch : ch[i] \in Payload /\ Held(ch[i])
      BY DEF TypeOK, Held, Items
    <3>6. \A w \in Worker : \A i \in DOMAIN batch[w] :
            batch[w][i] \in Payload /\ Held(batch[w][i])
      BY DEF TypeOK, Held, Items
    <3>7. ASSUME NEW i \in DOMAIN ch', NEW j \in DOMAIN ch', i < j
          PROVE  ticket'[ch'[i]] < ticket'[ch'[j]]
      <4>1. i \in DOMAIN ch  BY <3>7, <3>4
      <4>2. CASE j = Len(ch) + 1  BY <4>1, <4>2, <3>2, <3>3, <3>4, <3>5
      <4>3. CASE j # Len(ch) + 1
        <5>1. j \in DOMAIN ch  BY <4>3, <3>4
        <5>2. QED  BY <5>1, <4>1, <3>7, <3>4, <3>5, <3>1 DEF InOrder
      <4>4. QED  BY <4>2, <4>3
    <3>8. ASSUME NEW w \in Worker,
                 NEW i \in DOMAIN batch[w], NEW j \in DOMAIN ch'
          PROVE  ticket'[batch[w][i]] < ticket'[ch'[j]]
      <4>1. CASE j = Len(ch) + 1  BY <4>1, <3>2, <3>3, <3>4, <3>6
      <4>2. CASE j # Len(ch) + 1
        <5>1. j \in DOMAIN ch  BY <4>2, <3>4
        <5>2. QED  BY <5>1, <3>4, <3>5, <3>6, <3>1 DEF InOrder
      <4>3. QED  BY <4>1, <4>2
    <3>9. \A w \in Worker : \A i, j \in DOMAIN batch[w] :
            i < j => ticket'[batch[w][i]] < ticket'[batch[w][j]]
      BY <3>1, <3>6 DEF InOrder
    <3>10. QED  BY Zenon, <3>7, <3>8, <3>9 DEF InOrder
  <2>11. QED
    BY <2>4, <2>5, <2>6, <2>7, <2>8, <2>9, <2>10
<1>5. QED  BY <1>1, <1>2, <1>3, <1>4 DEF Enqueue

LEMMA ShutdownKeeps ==
  ASSUME PoolInv, TypeOK', NEW s \in Stopper, Shutdown(s)
  PROVE  PoolInv'
<1> USE DEF PoolInv
<1>1. NoItemMoves
  BY DEF Shutdown, ShutdownOnce, ShutdownAgain, ShutdownClose, ShutdownReturn,
         NoItemMoves
<1>2. NeverSendClosed'
  BY DEF Shutdown, ShutdownOnce, ShutdownAgain, ShutdownClose, ShutdownReturn,
         NeverSendClosed, Readers
<1>3. WorkerStates'
  BY Zenon DEF Shutdown, ShutdownOnce, ShutdownAgain, ShutdownClose, ShutdownReturn,
         WorkerStates, TypeOK
<1>4. QED  BY <1>1, <1>2, <1>3, NoItemMovesKeeps

LEMMA WorkerLoopKeeps ==
  ASSUME PoolInv, TypeOK', NEW w \in Worker, WorkerLoop(w)
  PROVE  PoolInv'
<1> USE DEF PoolInv
<1>1. CASE ReceiveClosed(w)
  <2>1. NoItemMoves  BY <1>1 DEF ReceiveClosed, NoItemMoves
  <2>2. NeverSendClosed'  BY <1>1 DEF ReceiveClosed, NeverSendClosed
  <2>3. WorkerStates'  BY Zenon, <1>1 DEF ReceiveClosed, WorkerStates, TypeOK
  <2>4. QED  BY <2>1, <2>2, <2>3, NoItemMovesKeeps
<1>2. CASE Tick(w)
  <2>1. NoItemMoves  BY <1>2 DEF Tick, NoItemMoves
  <2>2. NeverSendClosed'  BY <1>2 DEF Tick, NeverSendClosed
  <2>3. WorkerStates'  BY <1>2 DEF Tick, WorkerStates, TypeOK
  <2>4. QED  BY <2>1, <2>2, <2>3, NoItemMovesKeeps
<1>3. CASE Receive(w)
  <2> USE <1>3 DEF Receive
  <2>1. Items(ch) = {Head(ch)} \union Items(ch')  BY ItemsTail DEF TypeOK
  <2>2. Head(ch) \in Payload  BY DEF TypeOK
  <2>3. /\ Items(batch'[w]) = Items(batch[w]) \union {Head(ch)}
        /\ \A v \in Worker : v # w => batch'[v] = batch[v]
    BY <2>2, ItemsAppend DEF TypeOK
  <2>4. \A q \in Payload : Held(q)' <=> Held(q)  BY <2>1, <2>3 DEF Held
  <2>5. ExactlyOnce'  BY <2>4 DEF ExactlyOnce
  <2>6. NeverSendClosed'  BY DEF NeverSendClosed
  <2>7. /\ Len(batch'[w]) = Len(batch[w]) + 1 /\ Len(batch[w]) \in Nat
        /\ Len(ch') = Len(ch) - 1 /\ Len(ch) \in Nat
    BY DEF TypeOK
  <2>8. run[w] = "select" /\ Len(batch[w]) < BatchSize
    BY DEF WorkerStates
  <2>9. WithinBounds'
    BY <2>3, <2>7, <2>8, BatchSizeAssumption, ChannelCapAssumption
       DEF WithinBounds
  <2>10. TicketsIssued'  BY DEF TicketsIssued
  <2>11. WorkerStates'
    <3>1. batch'[w] # <<>>  BY <2>7
    <3>2. ASSUME NEW v \in Worker
          PROVE  /\ run'[v] = "select" => Len(batch'[v]) < BatchSize
                 /\ run'[v] \in {"flush", "final"} => batch'[v] # <<>>
                 /\ run'[v] \in {"final", "exited"} => closed' /\ ch' = <<>>
                 /\ run'[v] = "exited" => batch'[v] = <<>>
      <4>1. CASE v = w
        <5>1. run'[w] \in {"select", "flush"}
          BY <2>8 DEF TypeOK
        <5>2. run'[w] = "select" => Len(batch'[w]) < BatchSize
          BY <2>7, <2>8, BatchSizeAssumption DEF TypeOK
        <5>3. QED  BY <4>1, <3>1, <5>1, <5>2
      <4>2. CASE v # w  BY <4>2, <2>3 DEF WorkerStates, TypeOK
      <4>3. QED  BY <4>1, <4>2
    <3>3. \A s \in Stopper : stop'[s] # "returned"
      BY <2>8 DEF WorkerStates
    <3>4. QED  BY <3>2, <3>3 DEF WorkerStates
  <2>12. Head(ch) = ch[1] /\ 1 \in DOMAIN ch  BY DEF TypeOK
  <2>13. \A v \in Worker : Head(ch) \notin Items(batch[v])
    <3> SUFFICES ASSUME NEW v \in Worker, NEW i \in DOMAIN batch[v],
                        batch[v][i] = Head(ch)
                 PROVE  FALSE
      BY DEF Items
    <3>1. ticket[batch[v][i]] < ticket[ch[1]]  BY <2>12 DEF InOrder
    <3>2. ticket[Head(ch)] \in Nat  BY <2>2 DEF TypeOK
    <3>3. ticket[Head(ch)] < ticket[Head(ch)]  BY <3>1, <2>12
    <3>4. QED  BY <3>2, <3>3
  <2>14. BatchesDisjoint'
    <3> HIDE <1>3 DEF Receive
    <3>1. ASSUME NEW u \in Worker, NEW v \in Worker, u # v
          PROVE  Items(batch[u]) \intersect Items(batch[v]) = {}
      BY <3>1 DEF BatchesDisjoint
    <3>2. ASSUME NEW v \in Worker, v # w
          PROVE  Items(batch'[w]) \intersect Items(batch'[v]) = {}
      BY <3>1, <3>2, <2>3, <2>13
    <3>3. ASSUME NEW u \in Worker, NEW v \in Worker, u # v
          PROVE  Items(batch'[u]) \intersect Items(batch'[v]) = {}
      <4>1. CASE u = w  BY <4>1, <3>2, <3>3
      <4>2. CASE v = w  BY <4>2, <3>2, <3>3
      <4>3. CASE u # w /\ v # w  BY Zenon, <4>3, <3>1, <3>3, <2>3
      <4>4. QED  BY <4>1, <4>2, <4>3
    <3>4. QED  BY <3>3 DEF BatchesDisjoint, Items
  <2>15. InOrder'
    <3>1. /\ DOMAIN ch = 1 .. Len(ch) /\ DOMAIN ch' = 1 .. (Len(ch) - 1)
          /\ \A j \in DOMAIN ch' : ch'[j] = ch[j + 1] /\ j + 1 \in DOMAIN ch
      BY DEF TypeOK
    <3>2. \A i, j \in DOMAIN ch' : i < j => ticket[ch'[i]] < ticket[ch'[j]]
      BY <3>1 DEF InOrder
    <3>3. /\ DOMAIN batch[w] = 1 .. Len(batch[w])
          /\ DOMAIN batch'[w] = 1 .. (Len(batch[w]) + 1)
          /\ \A i \in DOMAIN batch[w] : batch'[w][i] = batch[w][i]
          /\ batch'[w][Len(batch[w]) + 1] = ch[1]
      BY SMTT(30), <2>12 DEF TypeOK
    <3>4. ASSUME NEW j \in DOMAIN ch'
          PROVE  ticket[ch[1]] < ticket[ch'[j]]
      <4> HIDE <1>3 DEF Receive
      <4>1. j \in Nat \ {0} /\ j + 1 \in DOMAIN ch /\ ch'[j] = ch[j + 1]
        BY <3>1, <2>7
      <4>2. 1 < j + 1  BY <4>1
      <4>3. QED  BY <4>1, <4>2, <2>12 DEF InOrder
    <3>5. ASSUME NEW i \in DOMAIN batch'[w], NEW j \in DOMAIN batch'[w], i < j
          PROVE  ticket[batch'[w][i]] < ticket[batch'[w][j]]
      <4>1. i \in DOMAIN batch[w]  BY <3>5, <3>3, <2>7
      <4>2. CASE j = Len(batch[w]) + 1
        BY <4>1, <4>2, <3>3, <2>12 DEF InOrder
      <4>3. CASE j # Len(batch[w]) + 1
        <5>1. j \in DOMAIN batch[w]  BY <4>3, <3>3, <2>7
        <5>2. QED  BY <5>1, <4>1, <3>5, <3>3 DEF InOrder
      <4>4. QED  BY <4>2, <4>3
    <3>6. ASSUME NEW i \in DOMAIN batch'[w], NEW j \in DOMAIN ch'
          PROVE  ticket[batch'[w][i]] < ticket[ch'[j]]
      <4>1. CASE i = Len(batch[w]) + 1  BY Zenon, <4>1, <3>3, <3>4
      <4>2. CASE i # Len(batch[w]) + 1
        <5>1. i \in DOMAIN batch[w]  BY <4>2, <3>3, <2>7
        <5>2. QED  BY <5>1, <3>3, <3>1 DEF InOrder
      <4>3. QED  BY Zenon, <4>1, <4>2
    <3>7. ASSUME NEW v \in Worker, v # w
          PROVE  /\ \A i, j \in DOMAIN batch'[v] :
                      i < j => ticket[batch'[v][i]] < ticket[batch'[v][j]]
                 /\ \A i \in DOMAIN batch'[v], j \in DOMAIN ch' :
                      ticket[batch'[v][i]] < ticket[ch'[j]]
      BY <3>7, <2>3, <3>1 DEF InOrder
    <3>8. ticket' = ticket  OBVIOUS
    <3>9. QED  BY ZenonT(60), <3>2, <3>5, <3>6, <3>7, <3>8 DEF InOrder
  <2>16. QED  BY <2>5, <2>6, <2>9, <2>10, <2>11, <2>14, <2>15
<1>4. CASE doFlush(w)
  <2> USE <1>4 DEF doFlush
  <2>1. batch'[w] = <<>> /\ \A v \in Worker : v # w => batch'[v] = batch[v]
    BY DEF TypeOK
  <2>2. Items(batch'[w]) = {}  BY <2>1, ItemsEmpty
  <2>3. \A q \in Items(batch[w]) : q \notin Items(ch)
    <3> SUFFICES ASSUME NEW i \in DOMAIN batch[w], NEW j \in DOMAIN ch,
                        batch[w][i] = ch[j]
                 PROVE  FALSE
      BY DEF Items
    <3>1. ticket[batch[w][i]] < ticket[ch[j]]  BY ZenonT(60) DEF InOrder
    <3>2. ticket[ch[j]] \in Nat  BY DEF TypeOK
    <3>3. QED  BY <3>1, <3>2
  <2>4. \A q \in Payload : Held(q)' <=> Held(q) /\ q \notin Items(batch[w])
    BY Zenon, <2>1, <2>2, <2>3 DEF Held, BatchesDisjoint
  <2>5. \A q \in Items(batch[w]) : Held(q)  BY DEF Held
  <2>6. ExactlyOnce'  BY <2>4, <2>5 DEF ExactlyOnce, TypeOK
  <2>7. NeverSendClosed'  BY DEF NeverSendClosed
  <2>8. Len(batch'[w]) = 0  BY <2>1
  <2>9. WithinBounds'  BY <2>1, <2>8, BatchSizeAssumption DEF WithinBounds
  <2>10. TicketsIssued'  BY DEF TicketsIssued
  <2>11. BatchesDisjoint'  BY Zenon, <2>1, <2>2 DEF BatchesDisjoint
  <2>12. DOMAIN batch'[w] = {}  BY <2>1
  <2>13. InOrder'  BY ZenonT(60), <2>1, <2>12 DEF InOrder
  <2>14. WorkerStates'
    BY <2>1, <2>8, BatchSizeAssumption DEF WorkerStates, TypeOK
  <2>15. QED  BY <2>6, <2>7, <2>9, <2>10, <2>11, <2>13, <2>14
<1>5. QED  BY <1>1, <1>2, <1>3, <1>4 DEF WorkerLoop

(* PoolInv holds in every reachable state of the pool. *)
THEOREM PoolInvariant == Spec => []PoolInv
<1>1. Init => PoolInv
  <2> SUFFICES ASSUME Init PROVE PoolInv  OBVIOUS
  <2> USE DEF Init
  <2>1. TypeOK
    <3> USE DEF CallState, StopState, RunState
    <3>1. <<>> \in Seq(Payload)  OBVIOUS
    <3>2. ch \in Seq(Payload) /\ batch \in [Worker -> Seq(Payload)]  BY <3>1
    <3>3. call \in [Payload -> CallState] /\ stop \in [Stopper -> StopState]
      OBVIOUS
    <3>4. run \in [Worker -> RunState]  OBVIOUS
    <3>5. QED  BY <3>2, <3>3, <3>4, Zenon DEF TypeOK
  <2>2. ExactlyOnce  BY ItemsEmpty, Zenon DEF ExactlyOnce, Held
  <2>3. WithinBounds
    BY BatchSizeAssumption, ChannelCapAssumption DEF WithinBounds
  <2>4. InOrder /\ NeverSendClosed /\ TicketsIssued
    BY DEF InOrder, NeverSendClosed, TicketsIssued
  <2>5. BatchesDisjoint  BY ItemsEmpty DEF BatchesDisjoint
  <2>6. WorkerStates  BY BatchSizeAssumption DEF WorkerStates
  <2>7. QED  BY <2>1, <2>2, <2>3, <2>4, <2>5, <2>6 DEF PoolInv
<1>2. PoolInv /\ [Next]_vars => PoolInv'
  <2> SUFFICES ASSUME PoolInv, [Next]_vars PROVE PoolInv'  OBVIOUS
  <2>1. TypeOK'  BY TypeInductive DEF PoolInv
  <2>2. CASE UNCHANGED vars
    <3>1. NoItemMoves  BY <2>2 DEF vars, NoItemMoves
    <3>2. NeverSendClosed' /\ WorkerStates'
      BY <2>2 DEF vars, PoolInv, NeverSendClosed, WorkerStates
    <3>3. QED  BY <2>1, <3>1, <3>2, NoItemMovesKeeps DEF PoolInv
  <2>3. QED
    BY <2>1, <2>2, EnqueueKeeps, ShutdownKeeps, WorkerLoopKeeps
       DEF Next, Rest
<1>3. QED  BY <1>1, <1>2, PTL DEF Spec

(* Nothing the pool accepted is lost or flushed twice, under any             *)
(* interleaving of Enqueue calls, workers, ticks and Shutdown calls.         *)
THEOREM AcceptedExactlyOnce == Spec => []ExactlyOnce
<1>1. PoolInv => ExactlyOnce  BY DEF PoolInv
<1>2. QED  BY <1>1, PoolInvariant, PTL

(* The send in Enqueue never meets a closed channel. *)
THEOREM SendNeverPanics == Spec => []NeverSendClosed
<1>1. PoolInv => NeverSendClosed  BY DEF PoolInv
<1>2. QED  BY <1>1, PoolInvariant, PTL

(* The channel never exceeds ChannelCap nor a batch BatchSize, whatever the  *)
(* configuration.                                                            *)
THEOREM BoundsKept == Spec => []WithinBounds
<1>1. PoolInv => WithinBounds  BY DEF PoolInv
<1>2. QED  BY <1>1, PoolInvariant, PTL

(* Channel and batches keep the order of acceptance. *)
THEOREM OrderKept == Spec => []InOrder
<1>1. PoolInv => InOrder  BY DEF PoolInv
<1>2. QED  BY <1>1, PoolInvariant, PTL

(* The pool is empty when a Shutdown has returned: it returns only after     *)
(* every worker ended, a worker ends only with the channel closed and empty  *)
(* and its own batch flushed, and nothing enters a closed channel.  This is  *)
(* where WorkerAssumption is needed: without workers nobody drains.          *)
LEMMA ReturnedMeansEmpty ==
  ASSUME PoolInv, NEW s \in Stopper, stop[s] = "returned"
  PROVE  closed /\ \A p \in Payload : ~Held(p)
<1>1. \A w \in Worker : closed /\ ch = <<>> /\ batch[w] = <<>>
  BY DEF PoolInv, WorkerStates
<1>2. closed /\ ch = <<>>  BY <1>1, WorkerAssumption
<1>3. Items(ch) = {} /\ \A w \in Worker : Items(batch[w]) = {}
  BY <1>1, <1>2, ItemsEmpty
<1>4. QED  BY <1>2, <1>3 DEF Held

(* A returned Shutdown leaves nothing unflushed (worker.go:91-92). *)
THEOREM ShutdownDrainsAll == Spec => []ShutdownDrains
<1>1. PoolInv => ShutdownDrains
  BY ReturnedMeansEmpty DEF PoolInv, ExactlyOnce, ShutdownDrains
<1>2. QED  BY <1>1, PoolInvariant, PTL

-----------------------------------------------------------------------------
(* Refinement: every step of the pool is a step of the contract or leaves    *)
(* the contract's variables unchanged.                                       *)
THEOREM PoolImplementsContract == Spec => ImplementsContract
<1>1. Init => Contract!CInit
  <2> SUFFICES ASSUME Init PROVE Contract!CInit  OBVIOUS
  <2>1. fateOf = [p \in Payload |-> "offered"]  BY DEF Init, fateOf, Fate
  <2>2. stoppedOf = FALSE  BY DEF Init, stoppedOf
  <2>3. QED  BY <2>1, <2>2 DEF Contract!CInit
<1>2. PoolInv /\ PoolInv' /\ [Next]_vars => [Contract!CNext]_(Contract!cvars)
  <2> SUFFICES ASSUME PoolInv, PoolInv', [Next]_vars
               PROVE  Contract!CNext \/ UNCHANGED <<fateOf, stoppedOf>>
    BY DEF Contract!cvars
  <2> USE DEF PoolInv
  <2>1. ASSUME UNCHANGED <<call, flushes, stop>>
        PROVE  UNCHANGED <<fateOf, stoppedOf>>
    BY <2>1 DEF fateOf, Fate, stoppedOf
  <2>2. ASSUME NEW p \in Payload, Enqueue(p)
        PROVE  Contract!CNext \/ UNCHANGED <<fateOf, stoppedOf>>
    <3>1. UNCHANGED stoppedOf
      BY Zenon, <2>2 DEF Enqueue, EnqueueRLock, EnqueueTestClosed, EnqueueSend,
                  EnqueueFull, stoppedOf
    <3>2. /\ flushes' = flushes /\ call' = [call EXCEPT ![p] = call'[p]]
          /\ call[p] \in {"idle", "rlocked", "sending"}
          /\ call'[p] \in CallState
      BY ZenonT(60), <2>2 DEF Enqueue, EnqueueRLock, EnqueueTestClosed, EnqueueSend,
                  EnqueueFull, TypeOK
    <3>3. fateOf[p] = "offered" /\ flushes[p] = 0
      BY <3>2 DEF fateOf, Fate, ExactlyOnce
    <3>4. \A q \in Payload : q # p => fateOf'[q] = fateOf[q]
      BY <3>2 DEF fateOf, Fate, TypeOK
    <3>5. CASE call'[p] = "accepted"
      <4>1. fateOf'[p] = "accepted"  BY <3>2, <3>3, <3>5 DEF fateOf, Fate
      <4>2. fateOf' = [fateOf EXCEPT ![p] = "accepted"]
        BY <3>4, <4>1, Zenon DEF fateOf, Fate
      <4>3. call[p] = "sending"
        BY Zenon, <2>2, <3>2, <3>5 DEF Enqueue, EnqueueRLock, EnqueueTestClosed,
             EnqueueSend, EnqueueFull, TypeOK
      <4>4. ~stoppedOf
        BY Zenon, <4>3, ReturnedMeansEmpty DEF NeverSendClosed, stoppedOf
      <4>5. Contract!Accept(p)  BY <3>1, <3>3, <4>2, <4>4 DEF Contract!Accept
      <4>6. QED  BY Zenon, <4>5 DEF Contract!CNext
    <3>6. CASE call'[p] = "rejected"
      <4>1. fateOf'[p] = "rejected"  BY <3>6 DEF fateOf, Fate
      <4>2. fateOf' = [fateOf EXCEPT ![p] = "rejected"]
        BY <3>4, <4>1, Zenon DEF fateOf, Fate
      <4>3. Contract!Reject(p)  BY <3>1, <3>3, <4>2 DEF Contract!Reject
      <4>4. QED  BY <4>3 DEF Contract!CNext
    <3>7. CASE call'[p] \in {"idle", "rlocked", "sending"}
      <4>1. fateOf'[p] = "offered"  BY Zenon, <3>7 DEF fateOf, Fate
      <4>2. fateOf' = fateOf  BY <3>3, <3>4, <4>1 DEF fateOf, Fate
      <4>3. QED  BY <3>1, <4>2
    <3>8. QED  BY <3>2, <3>5, <3>6, <3>7 DEF CallState
  <2>3. ASSUME NEW s \in Stopper, Shutdown(s)
        PROVE  Contract!CNext \/ UNCHANGED <<fateOf, stoppedOf>>
    <3>1. UNCHANGED fateOf
      BY <2>3 DEF Shutdown, ShutdownOnce, ShutdownAgain, ShutdownClose,
                  ShutdownReturn, fateOf, Fate
    <3>2. CASE ShutdownReturn(s)
      <4>1. stop'[s] = "returned"  BY <3>2 DEF ShutdownReturn, TypeOK
      <4>2. stoppedOf' = TRUE  BY <4>1 DEF stoppedOf
      <4>3. \A w \in Worker : closed /\ ch = <<>> /\ batch[w] = <<>>
        BY <3>2 DEF ShutdownReturn, WorkerStates
      <4>4. Items(ch) = {} /\ \A w \in Worker : Items(batch[w]) = {}
        BY <4>3, WorkerAssumption, ItemsEmpty
      <4>5. \A p \in Payload : fateOf[p] # "accepted"
        <5>1. \A p \in Payload : ~Held(p)  BY <4>4 DEF Held
        <5>2. \A p \in Payload : call[p] = "accepted" => flushes[p] = 1
          BY <5>1 DEF ExactlyOnce
        <5>3. QED  BY <5>2 DEF fateOf, Fate
      <4>6. Contract!Stop  BY <3>1, <4>2, <4>5 DEF Contract!Stop
      <4>7. QED  BY ZenonT(60), <4>6 DEF Contract!CNext
    <3>3. CASE ~ShutdownReturn(s)
      <4>1. UNCHANGED stoppedOf
        BY <2>3, <3>3 DEF Shutdown, ShutdownOnce, ShutdownAgain, ShutdownClose,
                          stoppedOf, TypeOK
      <4>2. QED  BY <3>1, <4>1
    <3>4. QED  BY ZenonT(60), <3>2, <3>3
  <2>4. ASSUME NEW w \in Worker, doFlush(w)
        PROVE  Contract!CNext
    <3> DEFINE b == batch[w]
    <3>1. b \in Seq(Payload) /\ b # <<>> /\ Len(b) <= BatchSize
      BY ZenonT(60), <2>4 DEF doFlush, WorkerStates, WithinBounds, TypeOK
    <3>2. /\ Len(b) \in 1 .. BatchSize /\ DOMAIN b = 1 .. Len(b)
          /\ b \in [1 .. Len(b) -> Payload]
      BY <3>1, BatchSizeAssumption
    <3>3. \A i, j \in DOMAIN b : b[i] = b[j] => i = j
      <4> SUFFICES ASSUME NEW i \in DOMAIN b, NEW j \in DOMAIN b,
                          b[i] = b[j], i < j
                   PROVE  FALSE
        BY SMTT(30), <3>2
      <4>1. ticket[b[i]] < ticket[b[j]]  BY DEF InOrder
      <4>2. b[j] \in Payload /\ ticket \in [Payload -> Nat]  BY Zenon, <3>2 DEF TypeOK
      <4>3. ticket[b[j]] \in Nat  BY <4>2, Zenon
      <4>4. QED  BY <4>1, <4>3
    <3>4. \A i \in DOMAIN b : /\ b[i] \in Payload /\ b[i] \in Items(b)
                              /\ call[b[i]] = "accepted" /\ flushes[b[i]] = 0
      <4> SUFFICES ASSUME NEW i \in DOMAIN b
                   PROVE  /\ b[i] \in Payload /\ b[i] \in Items(b)
                          /\ call[b[i]] = "accepted" /\ flushes[b[i]] = 0
        BY Zenon
      <4>1. b[i] \in Payload  BY <3>2, Zenon
      <4>2. b[i] \in Items(b)  BY Zenon DEF Items
      <4>3. Held(b[i])  BY <4>2, Zenon DEF Held
      <4>4. call[b[i]] = "accepted" /\ flushes[b[i]] = 0
        BY <4>1, <4>3, Zenon DEF ExactlyOnce
      <4> QED  BY <4>1, <4>2, <4>4, Zenon
    <3>5. \A i \in DOMAIN b : fateOf[b[i]] = "accepted"
      BY <3>4 DEF fateOf, Fate
    <3>6. \A p \in Payload : p \in Items(b) <=> \E i \in DOMAIN b : b[i] = p
      BY ZenonT(60) DEF Items
    <3>7. \A p \in Payload :
            fateOf'[p] = IF \E i \in DOMAIN b : b[i] = p
                         THEN "flushed" ELSE fateOf[p]
      BY <2>4, <3>4, <3>6 DEF doFlush, fateOf, Fate, TypeOK
    <3>8. fateOf' = [p \in Payload |-> IF \E i \in DOMAIN b : b[i] = p
                                      THEN "flushed" ELSE fateOf[p]]
      BY <3>7 DEF fateOf
    <3>9. UNCHANGED stoppedOf  BY ZenonT(60), <2>4 DEF doFlush, stoppedOf
    <3> HIDE DEF b
    <3>10. Contract!Flush(b)
      BY <3>3, <3>5, <3>8, <3>9 DEF Contract!Flush
    <3>11. QED  BY Zenon, <3>2, <3>10 DEF Contract!CNext
  <2>5. ASSUME NEW w \in Worker, WorkerLoop(w)
        PROVE  Contract!CNext \/ UNCHANGED <<fateOf, stoppedOf>>
    BY <2>1, <2>4, <2>5 DEF WorkerLoop, Receive, ReceiveClosed, Tick
  <2>6. CASE UNCHANGED vars  BY <2>1, <2>6 DEF vars
  <2>7. QED  BY <2>2, <2>3, <2>5, <2>6 DEF Next, Rest
<1>3. QED
  BY <1>1, <1>2, PoolInvariant, PTL DEF Spec, ImplementsContract, Contract!CSpec

-----------------------------------------------------------------------------
(* The cache of the query API. *)

Phase == {"update", "go", "overview", "breakdown", "done", "killed"}
Entry == [at : {"entry"}, version : Nat, ttl : Nat, late : Nat, after : SUBSET Ender]
SetRequest == [at : {"set"}, key : Key, version : Nat, waited : Nat, late : Nat]
Request == {Idle} \union [at : {"query"}, key : Key] \union SetRequest

CacheType ==
  /\ version \in [App -> Nat]
  /\ cache \in [Key -> {None} \union Entry]
  /\ reader \in [Reader -> Request]
  /\ ender \in [Ender -> Phase]
  /\ must \in [Ender -> SUBSET Key]
  /\ ended \in [Ender -> Nat]

(* A result is not later than it has waited, and an entry not later than    *)
(* its request has waited and it has itself been there.                     *)
LateInv ==
  /\ \A r \in Reader : reader[r].at = "set" =>
       reader[r].late <= reader[r].waited /\ reader[r].waited <= MaxDelay
  /\ \A k \in Key : cache[k] # None =>
       cache[k].ttl > 0 /\ cache[k].late + cache[k].ttl <= Lifetime(k) + MaxDelay

(* What the call e has to remove and has not removed is still before it.    *)
Old(e, k) == cache[k] # None /\ ~(cache[k].version >= ended[e] \/ e \in cache[k].after)
Left(e, k) ==
  \/ ender[e] = Kind[k] /\ k \in must[e]
  \/ ender[e] = "overview" /\ Kind[k] = "breakdown"
ScanInv ==
  \A e \in Ender, k \in Key :
    /\ ender[e] \in {"overview", "breakdown", "done"} /\ e \notin failed
    /\ AppOf[k] = EnderApp[e] /\ Kind[k] \in {"overview", "breakdown"}
    /\ Old(e, k)
    => Left(e, k)

CacheInv == CacheType /\ LateInv /\ ScanInv
-----------------------------------------------------------------------------
(* A record of the one kind is none of the other. *)
LEMMA Kinds ==
  /\ \A x \in Entry : x # None
  /\ \A x \in Request : (x.at = "set" <=> x \in SetRequest)
  /\ \A x \in Request : (x.at = "query" <=> x \in [at : {"query"}, key : Key])
BY DEF Entry, None, Request, SetRequest, Idle

(* The TTL of a key's endpoint is positive. *)
LEMMA Lifetimes == \A k \in Key : Lifetime(k) \in Nat /\ Lifetime(k) > 0
BY CacheAssumption DEF Lifetime

(* The cache starts empty. *)
LEMMA CacheStarts == CacheInit => CacheInv
<1> SUFFICES ASSUME CacheInit PROVE CacheInv  OBVIOUS
<1>1. CacheType
  BY Zenon DEF CacheInit, CacheType, Phase, Request
<1>2. LateInv  BY DEF CacheInit, LateInv, Idle
<1>3. ScanInv  BY DEF CacheInit, ScanInv
<1> QED  BY <1>1, <1>2, <1>3 DEF CacheInv

(* A request of a reader moves on without touching the cache. *)
LEMMA ReaderMoves ==
  ASSUME CacheInv, NEW r \in Reader, NEW x \in Request, Go(r, x),
         x.at = "set" => x.late = 0 /\ x.waited = 0,
         UNCHANGED <<version, cache, enderVars>>
  PROVE  CacheInv'
<1>1. CacheType'  BY Zenon DEF CacheInv, CacheType, Go, enderVars
<1>2. LateInv'
  <2>1. \A q \in Reader : reader'[q] = IF q = r THEN x ELSE reader[q]
    BY Zenon DEF CacheInv, CacheType, Go
  <2>2. \A q \in Reader : reader'[q].at = "set" =>
          reader'[q].late <= reader'[q].waited /\ reader'[q].waited <= MaxDelay
    BY <2>1, CacheAssumption DEF CacheInv, LateInv
  <2> QED  BY <2>2 DEF CacheInv, LateInv
<1>3. ScanInv'  BY DEF CacheInv, ScanInv, Old, Left, enderVars
<1> QED  BY <1>1, <1>2, <1>3 DEF CacheInv

(* A result is put into the cache. *)
LEMMA SetKeeps ==
  ASSUME CacheInv, NEW r \in Reader, Set(r)
  PROVE  CacheInv'
<1> DEFINE k == reader[r].key
           x == EntryOf(reader[r])
<1>1. reader[r] \in SetRequest /\ k \in Key
  BY Kinds DEF CacheInv, CacheType, Set, SetRequest
<1>2. Begun(k) \subseteq Ender  BY ZenonT(60) DEF Begun
<1>3. /\ x \in Entry /\ x.ttl = Lifetime(k) /\ x.late = reader[r].late /\ x.after = Begun(k)
      /\ x # None
  BY <1>1, <1>2, Kinds, Lifetimes DEF EntryOf, Entry, SetRequest
<1> HIDE DEF x
<1>4. /\ cache' = [cache EXCEPT ![k] = x] /\ reader' = [reader EXCEPT ![r] = Idle]
      /\ UNCHANGED <<version, ender, must, ended, failed>>
  BY DEF Set, Go, enderVars, x
<1>5. /\ cache'[k] = x /\ \A l \in Key \ {k} : cache'[l] = cache[l]
      /\ \A q \in Reader : reader'[q] = IF q = r THEN Idle ELSE reader[q]
  BY <1>1, <1>4 DEF CacheInv, CacheType
<1>6. CacheType'
  BY <1>3, <1>4, Zenon DEF CacheInv, CacheType, Request
<1>7. LateInv'
  <2>1. \A q \in Reader : reader'[q].at = "set" =>
          reader'[q].late <= reader'[q].waited /\ reader'[q].waited <= MaxDelay
    BY SMTT(30), <1>5 DEF CacheInv, LateInv, Idle
  <2>2. reader[r].late <= MaxDelay
    BY SMTT(30), <1>1, CacheAssumption DEF CacheInv, LateInv, SetRequest
  <2>3. x.ttl > 0 /\ x.late + x.ttl <= Lifetime(k) + MaxDelay
    BY SMTT(30), <1>1, <1>3, <2>2, Lifetimes, CacheAssumption DEF SetRequest
  <2>4. \A l \in Key : cache'[l] # None =>
          cache'[l].ttl > 0 /\ cache'[l].late + cache'[l].ttl <= Lifetime(l) + MaxDelay
    BY <1>5, <2>3 DEF CacheInv, LateInv
  <2> QED  BY Zenon, <2>1, <2>4 DEF LateInv
<1>8. ScanInv'
  <2> SUFFICES ASSUME NEW e \in Ender, NEW l \in Key,
                      ender[e] \in {"overview", "breakdown", "done"}, e \notin failed,
                      AppOf[l] = EnderApp[e], Kind[l] \in {"overview", "breakdown"},
                      Old(e, l)'
               PROVE  Left(e, l)'
    BY Zenon, <1>4 DEF ScanInv
  <2>1. CASE l = k
    <3>1. e \notin Begun(k)  BY Zenon, <1>3, <1>5, <2>1 DEF Old
    <3> QED  BY Zenon, <1>4, <2>1, <3>1 DEF Begun, Left
  <2>2. CASE l # k
    <3>1. Old(e, l)  BY <1>4, <1>5, <2>2 DEF Old
    <3> QED  BY ZenonT(60), <1>4, <3>1 DEF CacheInv, ScanInv, Left
  <2> QED  BY Zenon, <2>1, <2>2
<1> QED  BY <1>6, <1>7, <1>8 DEF CacheInv
(* An entry is removed, and no SCAN has to return it any more. *)
LEMMA UnlinkKeeps ==
  ASSUME CacheInv, NEW e \in Ender, NEW k \in Key, Unlink(e, k)
  PROVE  CacheInv'
<1>1. /\ cache' = [cache EXCEPT ![k] = None] /\ must' = [f \in Ender |-> must[f] \ {k}]
      /\ UNCHANGED <<version, reader, ender, ended, failed>>
  BY DEF Unlink
<1>2. cache'[k] = None /\ \A l \in Key \ {k} : cache'[l] = cache[l]
  BY <1>1 DEF CacheInv, CacheType
<1>3. CacheType'  BY Zenon, <1>1 DEF CacheInv, CacheType
<1>4. LateInv'  BY Zenon, <1>1, <1>2 DEF CacheInv, LateInv
<1>5. ScanInv'
  <2> SUFFICES ASSUME NEW f \in Ender, NEW l \in Key,
                      ender[f] \in {"overview", "breakdown", "done"}, f \notin failed,
                      AppOf[l] = EnderApp[f], Kind[l] \in {"overview", "breakdown"},
                      Old(f, l)'
               PROVE  Left(f, l)'
    BY Zenon, <1>1 DEF ScanInv
  <2>1. l # k /\ Old(f, l)  BY ZenonT(60), <1>1, <1>2 DEF Old
  <2>2. Left(f, l)  BY <2>1 DEF CacheInv, ScanInv
  <2> QED  BY <1>1, <2>1, <2>2, Zenon DEF Left
<1> QED  BY ZenonT(60), <1>3, <1>4, <1>5 DEF CacheInv

(* The data changes, or a call goes on: it begins, it goes to the next      *)
(* pattern when nothing is left of this one, or it ends or fails.           *)
LEMMA EnderKeeps ==
  ASSUME CacheInv, NEW e \in Ender, NEW p \in Phase, NEW M \in SUBSET Key,
         ender' = [ender EXCEPT ![e] = p], must' = [must EXCEPT ![e] = M],
         version' \in [App -> Nat], UNCHANGED <<cache, reader>>,
         ended' \in [Ender -> Nat], \A f \in Ender \ {e} : ended'[f] = ended[f],
         failed' \in {failed, failed \union {e}},
         \/ p \in {"update", "go", "killed"}
         \/ failed' = failed \union {e}
         \/ /\ ended' = ended
            /\ \/ p = "overview" /\ M = {k \in Matching(e, p) : cache[k] # None}
               \/ /\ p = "breakdown" /\ M = {k \in Matching(e, p) : cache[k] # None}
                  /\ ender[e] = "overview" /\ must[e] = {}
               \/ p = "done" /\ ender[e] = "breakdown" /\ must[e] = {}
  PROVE  CacheInv'
<1>1. CacheType'  BY Zenon DEF CacheInv, CacheType
<1>2. LateInv'  BY Zenon DEF CacheInv, LateInv
<1>3. /\ \A f \in Ender : ender'[f] = IF f = e THEN p ELSE ender[f]
      /\ \A f \in Ender : must'[f] = IF f = e THEN M ELSE must[f]
  BY Zenon DEF CacheInv, CacheType
<1>4. ScanInv'
  <2> SUFFICES ASSUME NEW f \in Ender, NEW l \in Key,
                      ender'[f] \in {"overview", "breakdown", "done"}, f \notin failed',
                      AppOf[l] = EnderApp[f], Kind[l] \in {"overview", "breakdown"},
                      Old(f, l)'
               PROVE  Left(f, l)'
    BY Zenon DEF ScanInv
  <2>1. CASE f # e
    <3>1. Old(f, l) /\ f \notin failed /\ ended'[f] = ended[f]  BY Zenon, <2>1 DEF Old
    <3>2. Left(f, l)  BY Zenon, <1>3, <2>1, <3>1 DEF CacheInv, ScanInv
    <3> QED  BY Zenon, <1>3, <2>1, <3>2 DEF Left
  <2>2. CASE f = e
    <3>1. ended' = ended /\ p \in {"overview", "breakdown", "done"} /\ e \notin failed
      BY Zenon, <1>3, <2>2
    <3>2. Old(e, l) /\ cache[l] # None  BY ZenonT(60), <2>2, <3>1 DEF Old
    <3>3. CASE p = "overview"
      BY <1>3, <2>2, <3>2, <3>3 DEF Left, Matching
    <3>4. CASE p # "overview"
      <4>1. ender[e] \in {"overview", "breakdown"} /\ must[e] = {}
        BY Zenon, <1>3, <2>2, <3>1, <3>4
      <4>2. Left(e, l)  BY Zenon, <2>2, <3>1, <3>2, <4>1 DEF CacheInv, ScanInv
      <4>3. ender[e] = "overview" /\ Kind[l] = "breakdown"  BY Zenon, <4>1, <4>2 DEF Left
      <4>4. p = "breakdown" /\ M = {k \in Matching(e, p) : cache[k] # None}
        BY Zenon, <1>3, <2>2, <3>4, <4>3
      <4>5. ender'[f] = Kind[l] /\ l \in M  BY <1>3, <2>2, <3>2, <4>3, <4>4 DEF Matching
      <4> QED  BY <1>3, <2>2, <4>5, ZenonT(60) DEF Left
    <3> QED  BY Zenon, <3>3, <3>4
  <2> QED  BY Zenon, <2>1, <2>2
<1> QED  BY <1>1, <1>2, <1>4 DEF CacheInv

(* A tick brings every entry nearer to its end by what it makes it later.   *)
LEMMA TickKeeps ==
  ASSUME CacheInv, CacheTick
  PROVE  CacheInv'
<1>1. UNCHANGED <<version, ender, ended, failed>>  BY Zenon DEF CacheTick
<1>2. ASSUME NEW k \in Key, cache'[k] # None
      PROVE  /\ cache[k] \in Entry /\ cache[k] # None
             /\ cache'[k] \in Entry
             /\ cache'[k].version = cache[k].version /\ cache'[k].after = cache[k].after
             /\ cache'[k].ttl > 0
             /\ cache'[k].late + cache'[k].ttl <= Lifetime(k) + MaxDelay
  <2>1. cache[k] # None /\ cache[k].ttl # 1  BY <1>2, Zenon DEF CacheTick
  <2>2. cache'[k] = [cache[k] EXCEPT !.ttl = cache[k].ttl - 1, !.late = Later(cache[k], k)]
    BY <2>1, Zenon DEF CacheTick
  <2>3. cache[k] \in Entry  BY <2>1 DEF CacheInv, CacheType
  <2>4. cache[k].ttl > 0 /\ cache[k].late + cache[k].ttl <= Lifetime(k) + MaxDelay
    BY Zenon, <2>1 DEF CacheInv, LateInv
  <2>5. cache[k].ttl \in Nat /\ cache[k].late \in Nat  BY <2>3 DEF Entry
  <2>6. Later(cache[k], k) \in {cache[k].late, cache[k].late + 1}  BY Zenon DEF Later
  <2>7. cache[k].ttl - 1 \in Nat /\ Later(cache[k], k) \in Nat
    BY <2>1, <2>4, <2>5, <2>6
  <2>8. /\ cache'[k] \in Entry /\ cache'[k].ttl = cache[k].ttl - 1
        /\ cache'[k].late = Later(cache[k], k)
        /\ cache'[k].version = cache[k].version /\ cache'[k].after = cache[k].after
    <3>1. cache'[k] \in Entry  BY <2>2, <2>3, <2>7, Zenon DEF Entry
    <3>2. cache'[k].ttl = cache[k].ttl - 1  BY <2>2, <2>3 DEF Entry
    <3>3. cache'[k].late = Later(cache[k], k)  BY <2>2, <2>3 DEF Entry
    <3>4. cache'[k].version = cache[k].version /\ cache'[k].after = cache[k].after
      BY ZenonT(60), <2>2, <2>3 DEF Entry
    <3> QED  BY <3>1, <3>2, <3>3, <3>4
  <2>9. /\ cache[k].ttl - 1 > 0
        /\ Later(cache[k], k) + (cache[k].ttl - 1) <= Lifetime(k) + MaxDelay
    BY <2>1, <2>4, <2>5, <2>6, Lifetimes, CacheAssumption
  <2> QED  BY <2>1, <2>3, <2>8, <2>9, Zenon
<1>3. ASSUME NEW r \in Reader
      PROVE  /\ reader'[r] \in Request
             /\ reader'[r].at = "set" =>
                  reader'[r].late <= reader'[r].waited /\ reader'[r].waited <= MaxDelay
  <2>1. CASE reader[r].at # "set"
    BY <2>1, Zenon DEF CacheTick, CacheInv, CacheType
  <2>2. CASE reader[r].at = "set"
    <3> DEFINE n == Later(reader[r], reader[r].key)
    <3>1. reader[r] \in SetRequest  BY <2>2, Kinds, Zenon DEF CacheInv, CacheType
    <3>2. reader'[r] = [reader[r] EXCEPT !.waited = reader[r].waited + 1, !.late = n]
      BY <2>2, Zenon DEF CacheTick
    <3>3. reader[r].waited \in Nat /\ reader[r].late \in Nat  BY <3>1 DEF SetRequest
    <3>4. n \in {reader[r].late, reader[r].late + 1}  BY Zenon DEF Later
    <3>5. /\ reader[r].late <= reader[r].waited /\ reader[r].waited < MaxDelay
      BY <2>2, Zenon DEF CacheInv, LateInv, CacheTick
    <3>6. n \in Nat  BY <3>3, <3>4
    <3> HIDE DEF n
    <3>7. /\ reader'[r] \in SetRequest
          /\ reader'[r].waited = reader[r].waited + 1 /\ reader'[r].late = n
      <4>1. reader[r].waited + 1 \in Nat  BY <3>3
      <4>2. reader'[r] \in SetRequest  BY <3>1, <3>2, <3>6, <4>1, Zenon DEF SetRequest
      <4>3. reader'[r].waited = reader[r].waited + 1  BY <3>1, <3>2 DEF SetRequest
      <4>4. reader'[r].late = n  BY Zenon, <3>1, <3>2 DEF SetRequest
      <4> QED  BY <4>2, <4>3, <4>4
    <3>8. n <= reader[r].waited + 1 /\ reader[r].waited + 1 <= MaxDelay
      BY <3>3, <3>4, <3>5, CacheAssumption
    <3> QED  BY <3>7, <3>8 DEF Request
  <2> QED  BY <2>1, <2>2
<1>4. CacheType'
  <2>1. cache' \in [Key -> {None} \union Entry]
    <3>1. \A k \in Key : cache'[k] \in {None} \union Entry  BY <1>2
    <3>2. cache' = [k \in Key |-> cache'[k]]  BY Zenon DEF CacheTick
    <3> QED  BY <3>1, <3>2
  <2>2. reader' \in [Reader -> Request]
    <3>1. reader' = [r \in Reader |-> reader'[r]]  BY Zenon DEF CacheTick
    <3> QED  BY <1>3, <3>1
  <2>3. must' \in [Ender -> SUBSET Key]
    BY Zenon DEF CacheTick, CacheInv, CacheType
  <2> QED  BY <1>1, <2>1, <2>2, <2>3 DEF CacheInv, CacheType
<1>5. LateInv'  BY Zenon, <1>2, <1>3 DEF LateInv
<1>6. ScanInv'
  <2> SUFFICES ASSUME NEW e \in Ender, NEW k \in Key,
                      ender[e] \in {"overview", "breakdown", "done"}, e \notin failed,
                      AppOf[k] = EnderApp[e], Kind[k] \in {"overview", "breakdown"},
                      Old(e, k)'
               PROVE  Left(e, k)'
    BY Zenon, <1>1 DEF ScanInv
  <2>1. cache'[k] # None  BY ZenonT(60) DEF Old
  <2>2. Old(e, k)  BY <1>1, <1>2, <2>1 DEF Old
  <2>3. Left(e, k)  BY <2>2, Zenon DEF CacheInv, ScanInv
  <2>4. must'[e] = {l \in must[e] : cache'[l] # None}  BY Zenon DEF CacheTick
  <2> QED  BY Zenon, <1>1, <2>1, <2>3, <2>4 DEF Left
<1> QED  BY <1>4, <1>5, <1>6 DEF CacheInv
(* Every step keeps the invariant. *)
LEMMA CacheStep == CacheInv /\ [CacheNext]_cacheVars => CacheInv'
<1> SUFFICES ASSUME CacheInv, [CacheNext]_cacheVars PROVE CacheInv'  OBVIOUS
<1>1. ASSUME NEW r \in Reader, Serve(r) PROVE CacheInv'
  <2>1. CASE Query(r)
    <3> DEFINE x == [at |-> "set", key |-> reader[r].key,
                     version |-> Snapshot(reader[r].key), waited |-> 0, late |-> 0]
    <3>1. reader[r].key \in Key
      BY <2>1, Kinds DEF Query, CacheInv, CacheType
    <3>2. Snapshot(reader[r].key) \in Nat
      BY Zenon, <3>1, CacheAssumption DEF Snapshot, CacheInv, CacheType
    <3>3. x \in Request /\ x.late = 0 /\ x.waited = 0
      BY Zenon, <3>1, <3>2 DEF Request, SetRequest
    <3>4. Go(r, x) /\ UNCHANGED <<version, cache, enderVars>>  BY ZenonT(60), <2>1 DEF Query
    <3> HIDE DEF x
    <3> QED  BY Zenon, <3>3, <3>4, ReaderMoves
  <2>2. CASE Refuse(r)
    <3>1. Idle \in Request /\ Idle.at # "set"  BY DEF Idle, Request
    <3> QED  BY <2>2, <3>1, ReaderMoves DEF Refuse
  <2>3. CASE Set(r)
    BY <2>3, SetKeeps
  <2> QED  BY <1>1, <2>1, <2>2, <2>3 DEF Serve
<1>2. ASSUME NEW r \in Reader, NEW k \in Key, Get(r, k) \/ GetError(r, k) PROVE CacheInv'
  <2> DEFINE x == [at |-> "query", key |-> k]
  <2>1. x \in Request /\ x.at # "set"  BY DEF Request
  <2>2. Go(r, x) /\ UNCHANGED <<version, cache, enderVars>>
    BY Zenon, <1>2 DEF Get, GetError, Miss
  <2> HIDE DEF x
  <2> QED  BY <2>1, <2>2, ReaderMoves
<1>3. ASSUME NEW r \in Reader, SetError(r) PROVE CacheInv'
  <2>1. Idle \in Request /\ Idle.at # "set"  BY DEF Idle, Request
  <2> QED  BY <1>3, <2>1, ReaderMoves DEF SetError
<1>4. /\ version \in [App -> Nat] /\ ender \in [Ender -> Phase]
      /\ must \in [Ender -> SUBSET Key] /\ ended \in [Ender -> Nat]
  BY Zenon DEF CacheInv, CacheType
<1>5. ASSUME NEW a \in App, Change(a) PROVE CacheInv'
  <2>1. version' \in [App -> Nat]  BY <1>4, <1>5 DEF Change
  <2> QED  BY <1>5, <2>1, Zenon
           DEF Change, CacheInv, CacheType, LateInv, ScanInv, Old, Left, enderVars
<1>6. ASSUME NEW e \in Ender, EndUpdate(e) PROVE CacheInv'
  <2>1. PICK v \in {version[EnderApp[e]], version[EnderApp[e]] + 1} :
          version' = [version EXCEPT ![EnderApp[e]] = v]
    BY <1>6, Zenon DEF EndUpdate
  <2>2. version' \in [App -> Nat]
    BY <1>4, <2>1, CacheAssumption
  <2>3. /\ ender' = [ender EXCEPT ![e] = "go"] /\ must' = [must EXCEPT ![e] = must[e]]
        /\ must[e] \in SUBSET Key /\ "go" \in Phase
        /\ UNCHANGED <<cache, reader, failed>>
    BY Zenon, <1>4, <1>6 DEF EndUpdate, Phase
  <2>4. ended' \in [Ender -> Nat] /\ \A f \in Ender \ {e} : ended'[f] = ended[f]
    <3>1. ended' = [ended EXCEPT ![e] = version'[EnderApp[e]]]  BY <1>6 DEF EndUpdate
    <3>2. version'[EnderApp[e]] \in Nat  BY <2>2, CacheAssumption
    <3> QED  BY <1>4, <3>1, <3>2
  <2> QED  BY <2>2, <2>3, <2>4, EnderKeeps, Zenon
<1>7. ASSUME NEW e \in Ender, ScanBegin(e) PROVE CacheInv'
  <2> DEFINE M == {k \in Matching(e, "overview") : cache[k] # None}
  <2>1. /\ ender' = [ender EXCEPT ![e] = "overview"] /\ must' = [must EXCEPT ![e] = M]
        /\ UNCHANGED <<version, cache, reader, ended, failed>>
    BY <1>7 DEF ScanBegin, ScanFrom
  <2>2. M \in SUBSET Key /\ "overview" \in Phase  BY DEF Matching, Phase
  <2> QED  BY <1>4, <2>1, <2>2, EnderKeeps, Zenon
<1>8. ASSUME NEW e \in Ender, ScanEnd(e) \/ ScanError(e) PROVE CacheInv'
  <2>1. /\ UNCHANGED <<version, cache, reader, ended>>
        /\ \/ failed' = failed /\ must[e] = {}
           \/ failed' = failed \union {e}
        /\ ender[e] \in {"overview", "breakdown"} /\ NextPattern(e)
    BY <1>8 DEF ScanEnd, ScanError
  <2>2. CASE ender[e] = "overview"
    <3> DEFINE M == {k \in Matching(e, "breakdown") : cache[k] # None}
    <3>1. ender' = [ender EXCEPT ![e] = "breakdown"] /\ must' = [must EXCEPT ![e] = M]
      BY <2>1, <2>2 DEF NextPattern, ScanFrom
    <3>2. M \in SUBSET Key /\ "breakdown" \in Phase  BY DEF Matching, Phase
    <3> QED  BY <1>4, <2>1, <2>2, <3>1, <3>2, EnderKeeps, Zenon
  <2>3. CASE ender[e] = "breakdown"
    <3>1. ender' = [ender EXCEPT ![e] = "done"] /\ must' = [must EXCEPT ![e] = {}]
      BY <2>1, <2>3 DEF NextPattern
    <3>2. {} \in SUBSET Key /\ "done" \in Phase  BY DEF Phase
    <3> QED  BY <1>4, <2>1, <2>3, <3>1, <3>2, EnderKeeps, Zenon
  <2> QED  BY ZenonT(60), <2>1, <2>2, <2>3
<1>9. ASSUME NEW e \in Ender, Exit(e) PROVE CacheInv'
  <2>1. {} \in SUBSET Key /\ "killed" \in Phase  BY DEF Phase
  <2> QED  BY <1>4, <1>9, <2>1, EnderKeeps, Zenon DEF Exit
<1>10. ASSUME NEW e \in Ender, NEW k \in Key, Unlink(e, k) PROVE CacheInv'
  BY <1>10, UnlinkKeeps
<1>11. ASSUME NEW e \in Ender, NEW k \in Key, UnlinkError(e, k) PROVE CacheInv'
  <2>1. /\ must' = [must EXCEPT ![e] = must[e] \ {k}] /\ ender' = [ender EXCEPT ![e] = ender[e]]
        /\ failed' = failed \union {e} /\ UNCHANGED <<version, cache, reader, ended>>
    BY <1>4, <1>11 DEF UnlinkError
  <2>2. must[e] \ {k} \in SUBSET Key /\ ender[e] \in Phase  BY <1>4
  <2> QED  BY <1>4, <2>1, <2>2, EnderKeeps, Zenon
<1>12. CASE CacheTick  BY Zenon, <1>12, TickKeeps
<1>13. CASE UNCHANGED cacheVars
  BY <1>13, ZenonT(60) DEF cacheVars, CacheInv, CacheType, LateInv, ScanInv, Old, Left
<1> QED
  BY <1>1, <1>2, <1>3, <1>5, <1>6, <1>7, <1>8, <1>9, <1>10, <1>11, <1>12, <1>13
  DEF CacheNext, Invalidate, Fault

(* When the goroutine of HandleEndConference is done without an error, no   *)
(* overview or breakdown of the app from before its SCAN is left            *)
(* (end_conference.go).                                                     *)
THEOREM InvalidatesAll == CacheSpec => []InvalidationComplete
<1>1. CacheInv => InvalidationComplete
  <2> SUFFICES ASSUME CacheInv, NEW e \in Ender, ender[e] = "done", e \notin failed,
                      NEW k \in Key, AppOf[k] = EnderApp[e],
                      Kind[k] \in {"overview", "breakdown"}, cache[k] # None
               PROVE  cache[k].version >= ended[e] \/ e \in cache[k].after
    BY Zenon DEF InvalidationComplete
  <2>1. ~Left(e, k)  BY Zenon DEF Left
  <2> QED  BY <2>1, Zenon DEF CacheInv, ScanInv, Old
<1> QED  BY CacheStarts, CacheStep, <1>1, PTL DEF CacheSpec

(* No cached answer was replaced in the database longer ago than the TTL of *)
(* its endpoint and the delay of one handler, for all TTLs and delays       *)
(* (analytics_overview.go, analytics_breakdown.go, connection_stats.go).    *)
THEOREM StalenessBounded == CacheSpec => []StaleBounded
<1>1. CacheInv => StaleBounded
  <2> SUFFICES ASSUME CacheInv, NEW k \in Key, cache[k] # None
               PROVE  cache[k].late < MaxLate(k) - 1
    BY Zenon DEF StaleBounded
  <2>1. cache[k].ttl > 0 /\ cache[k].late + cache[k].ttl <= Lifetime(k) + MaxDelay
    BY DEF CacheInv, LateInv
  <2>2. cache[k] \in Entry  BY DEF CacheInv, CacheType
  <2>3. cache[k].ttl \in Nat /\ cache[k].late \in Nat  BY <2>2 DEF Entry
  <2>4. MaxLate(k) - 1 = Lifetime(k) + MaxDelay  BY Lifetimes, CacheAssumption DEF MaxLate
  <2> QED  BY <2>1, <2>3, <2>4, Lifetimes, CacheAssumption
<1> QED  BY CacheStarts, CacheStep, <1>1, PTL DEF CacheSpec
=============================================================================
