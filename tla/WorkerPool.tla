----------------------------- MODULE WorkerPool -----------------------------
(***************************************************************************)
(* The in-process worker pool of the ingest API (internal/worker).         *)
(*                                                                         *)
(* HTTP handlers call Enqueue, worker goroutines drain a shared buffered   *)
(* channel into private batches and hand every batch to flushFn, and       *)
(* Shutdown closes the channel and waits for the workers.  Each payload    *)
(* stands for one Enqueue call, each stopper for one Shutdown call.        *)
(*                                                                         *)
(* The RWMutex is its set of readers (the payloads between RLock and       *)
(* RUnlock) and the pending writer (the stopper at "lock"): as in Go, a    *)
(* pending writer keeps new readers out.  The writer's critical section    *)
(* does not block, so it is one step.                                      *)
(***************************************************************************)
EXTENDS Integers, Sequences

CONSTANTS
  Payload,      \* one element per Enqueue call
  Worker,       \* cfg.WorkerCount goroutines
  Stopper,      \* callers of Shutdown
  BatchSize,    \* cfg.BatchSize
  ChannelCap    \* cfg.ChannelCap

ASSUME WorkerAssumption == Worker # {}
ASSUME BatchSizeAssumption == BatchSize \in Nat \ {0}
ASSUME ChannelCapAssumption == ChannelCap \in Nat \ {0}

VARIABLES
  ch,        \* p.ch, oldest item first
  closed,    \* p.closed, and whether p.ch is closed: both change in one
             \* critical section and only the latter is read outside it
  once,      \* p.once: "new", "running" or "done"
  call,      \* call[p]: progress of Enqueue(p)
  stop,      \* stop[s]: progress of the Shutdown call s
  run,       \* run[w]: where worker w's loop is
  batch,     \* batch[w]: worker w's local batch
  flushes,   \* flushes[p]: how often flushFn has returned for p (history)
  ticket,    \* ticket[p]: p's rank among the accepted, 0 if not (history)
  issued     \* how many payloads have been accepted (history)

vars == <<ch, closed, once, call, stop, run, batch, flushes, ticket, issued>>

CallState == {"idle", "rlocked", "sending", "accepted", "rejected"}
StopState == {"idle", "lock", "wait", "returned"}
RunState == {"select", "flush", "final", "exited"}

Readers == {p \in Payload : call[p] \in {"rlocked", "sending"}}

(* The payloads that occur in a sequence of payloads. *)
Items(s) == {s[i] : i \in DOMAIN s}

-----------------------------------------------------------------------------
(* New: an empty channel and cfg.WorkerCount running goroutines. *)
Init ==
  /\ ch = <<>>
  /\ closed = FALSE
  /\ once = "new"
  /\ call = [p \in Payload |-> "idle"]
  /\ stop = [s \in Stopper |-> "idle"]
  /\ run = [w \in Worker |-> "select"]
  /\ batch = [w \in Worker |-> <<>>]
  /\ flushes = [p \in Payload |-> 0]
  /\ ticket = [p \in Payload |-> 0]
  /\ issued = 0

-----------------------------------------------------------------------------
(* Enqueue, in three steps: take the read lock, test closed, send. *)
EnqueueRLock(p) ==
  /\ call[p] = "idle"
  /\ \A s \in Stopper : stop[s] # "lock"
  /\ call' = [call EXCEPT ![p] = "rlocked"]
  /\ UNCHANGED <<ch, closed, once, stop, run, batch, flushes, ticket, issued>>

EnqueueTestClosed(p) ==
  /\ call[p] = "rlocked"
  /\ call' = [call EXCEPT ![p] = IF closed THEN "rejected" ELSE "sending"]
  /\ UNCHANGED <<ch, closed, once, stop, run, batch, flushes, ticket, issued>>

(* The select with a default: a free slot takes the payload, a full channel  *)
(* rejects it.  A send on a closed channel would panic: see NeverSendClosed. *)
EnqueueSend(p) ==
  /\ call[p] = "sending"
  /\ ~closed
  /\ Len(ch) < ChannelCap
  /\ ch' = Append(ch, p)
  /\ call' = [call EXCEPT ![p] = "accepted"]
  /\ issued' = issued + 1
  /\ ticket' = [ticket EXCEPT ![p] = issued + 1]
  /\ UNCHANGED <<closed, once, stop, run, batch, flushes>>

EnqueueFull(p) ==
  /\ call[p] = "sending"
  /\ ~closed
  /\ Len(ch) >= ChannelCap
  /\ call' = [call EXCEPT ![p] = "rejected"]
  /\ UNCHANGED <<ch, closed, once, stop, run, batch, flushes, ticket, issued>>

-----------------------------------------------------------------------------
(* Shutdown: the first caller closes the channel inside once.Do; the others *)
(* wait for that, then every caller waits for the workers.                  *)
ShutdownOnce(s) ==
  /\ stop[s] = "idle"
  /\ once = "new"
  /\ once' = "running"
  /\ stop' = [stop EXCEPT ![s] = "lock"]
  /\ UNCHANGED <<ch, closed, call, run, batch, flushes, ticket, issued>>

ShutdownAgain(s) ==
  /\ stop[s] = "idle"
  /\ once = "done"
  /\ stop' = [stop EXCEPT ![s] = "wait"]
  /\ UNCHANGED <<ch, closed, once, call, run, batch, flushes, ticket, issued>>

(* Mutant: p.closed is set and p.ch closed without the write lock. *)
ShutdownCloseUnlocked(s) ==
  /\ stop[s] = "lock"
  /\ closed' = TRUE
  /\ once' = "done"
  /\ stop' = [stop EXCEPT ![s] = "wait"]
  /\ UNCHANGED <<ch, call, run, batch, flushes, ticket, issued>>

ShutdownClose(s) ==
  /\ stop[s] = "lock"
  /\ Readers = {}
  /\ closed' = TRUE
  /\ once' = "done"
  /\ stop' = [stop EXCEPT ![s] = "wait"]
  /\ UNCHANGED <<ch, call, run, batch, flushes, ticket, issued>>

(* Mutant: Shutdown returns without p.wg.Wait(). *)
ShutdownReturnEarly(s) ==
  /\ stop[s] = "wait"
  /\ stop' = [stop EXCEPT ![s] = "returned"]
  /\ UNCHANGED <<ch, closed, once, call, run, batch, flushes, ticket, issued>>

ShutdownReturn(s) ==
  /\ stop[s] = "wait"
  /\ \A w \in Worker : run[w] = "exited"
  /\ stop' = [stop EXCEPT ![s] = "returned"]
  /\ UNCHANGED <<ch, closed, once, call, run, batch, flushes, ticket, issued>>

-----------------------------------------------------------------------------
(* Mutant: the newest item is taken instead of the oldest. *)
ReceiveNewest(w) ==
  /\ run[w] = "select"
  /\ ch # <<>>
  /\ ch' = SubSeq(ch, 1, Len(ch) - 1)
  /\ batch' = [batch EXCEPT ![w] = Append(@, ch[Len(ch)])]
  /\ run' = [run EXCEPT ![w] =
               IF Len(batch[w]) + 1 >= BatchSize THEN "flush" ELSE "select"]
  /\ UNCHANGED <<closed, once, call, stop, flushes, ticket, issued>>

(* The worker loop: receive an item, see the channel closed and empty, or   *)
(* be woken by the ticker (a tick with an empty batch changes nothing).     *)
Receive(w) ==
  /\ run[w] = "select"
  /\ ch # <<>>
  /\ ch' = Tail(ch)
  /\ batch' = [batch EXCEPT ![w] = Append(@, Head(ch))]
  /\ run' = [run EXCEPT ![w] =
               IF Len(batch[w]) + 1 >= BatchSize THEN "flush" ELSE "select"]
  /\ UNCHANGED <<closed, once, call, stop, flushes, ticket, issued>>

(* Mutant: the loop flushes but does not return. *)
ReceiveClosedStay(w) ==
  /\ run[w] = "select"
  /\ closed /\ ch = <<>>
  /\ run' = [run EXCEPT ![w] = IF batch[w] = <<>> THEN "select" ELSE "flush"]
  /\ UNCHANGED <<ch, closed, once, call, stop, batch, flushes, ticket, issued>>

ReceiveClosed(w) ==
  /\ run[w] = "select"
  /\ closed /\ ch = <<>>
  /\ run' = [run EXCEPT ![w] = IF batch[w] = <<>> THEN "exited" ELSE "final"]
  /\ UNCHANGED <<ch, closed, once, call, stop, batch, flushes, ticket, issued>>

(* Mutant: a tick flushes full batches only. *)
TickFullOnly(w) ==
  /\ run[w] = "select"
  /\ Len(batch[w]) >= BatchSize
  /\ run' = [run EXCEPT ![w] = "flush"]
  /\ UNCHANGED <<ch, closed, once, call, stop, batch, flushes, ticket, issued>>

Tick(w) ==
  /\ run[w] = "select"
  /\ batch[w] # <<>>
  /\ run' = [run EXCEPT ![w] = "flush"]
  /\ UNCHANGED <<ch, closed, once, call, stop, batch, flushes, ticket, issued>>

(* Mutant: batch = batch[:0] is missing. *)
doFlushNoReset(w) ==
  /\ run[w] \in {"flush", "final"}
  /\ flushes' = [p \in Payload |->
                   IF p \in Items(batch[w]) THEN flushes[p] + 1 ELSE flushes[p]]
  /\ run' = [run EXCEPT ![w] = IF @ = "final" THEN "exited" ELSE "select"]
  /\ UNCHANGED <<ch, closed, once, call, stop, batch, ticket, issued>>

(* Mutant: what waits in the channel is flushed along with the batch. *)
doFlushDrains(w) ==
  /\ run[w] \in {"flush", "final"}
  /\ flushes' = [p \in Payload |->
                   IF p \in Items(batch[w]) \union Items(ch)
                   THEN flushes[p] + 1 ELSE flushes[p]]
  /\ batch' = [batch EXCEPT ![w] = <<>>]
  /\ ch' = <<>>
  /\ run' = [run EXCEPT ![w] = IF @ = "final" THEN "exited" ELSE "select"]
  /\ UNCHANGED <<closed, once, call, stop, ticket, issued>>

(* doFlush returns: flushFn has been called with the whole batch, and the   *)
(* loop goes on with an empty one or, after the final flush, ends.          *)
doFlush(w) ==
  /\ run[w] \in {"flush", "final"}
  /\ flushes' = [p \in Payload |->
                   IF p \in Items(batch[w]) THEN flushes[p] + 1 ELSE flushes[p]]
  /\ batch' = [batch EXCEPT ![w] = <<>>]
  /\ run' = [run EXCEPT ![w] = IF @ = "final" THEN "exited" ELSE "select"]
  /\ UNCHANGED <<ch, closed, once, call, stop, ticket, issued>>

(* After every call has returned the pool rests. *)
Rest ==
  /\ \A p \in Payload : call[p] \in {"accepted", "rejected"}
  /\ \A s \in Stopper : stop[s] = "returned"
  /\ UNCHANGED vars

-----------------------------------------------------------------------------
Enqueue(p) ==
  EnqueueRLock(p) \/ EnqueueTestClosed(p) \/ EnqueueSend(p) \/ EnqueueFull(p)
Shutdown(s) ==
  ShutdownOnce(s) \/ ShutdownAgain(s) \/ ShutdownClose(s) \/ ShutdownReturn(s)
WorkerLoop(w) == Receive(w) \/ ReceiveClosed(w) \/ Tick(w) \/ doFlush(w)

Next ==
  \/ \E p \in Payload : Enqueue(p)
  \/ \E s \in Stopper : Shutdown(s)
  \/ \E w \in Worker : WorkerLoop(w)
  \/ Rest

Spec == Init /\ [][Next]_vars

(* The Go scheduler runs every runnable goroutine, the ticker keeps firing,  *)
(* and flushFn returns (Postgres answers or the connection breaks).  A       *)
(* handler that has taken the read lock goes on; nobody is obliged to call   *)
(* Enqueue or Shutdown, but a Shutdown call in progress goes on.             *)
Fairness ==
  /\ \A w \in Worker : WF_vars(WorkerLoop(w))
  /\ \A p \in Payload : WF_vars(call[p] # "idle" /\ Enqueue(p))
  /\ \A s \in Stopper : WF_vars(stop[s] # "idle" /\ Shutdown(s))

FairSpec == Spec /\ Fairness

-----------------------------------------------------------------------------
TypeOK ==
  /\ ch \in Seq(Payload)
  /\ closed \in BOOLEAN
  /\ once \in {"new", "running", "done"}
  /\ call \in [Payload -> CallState]
  /\ stop \in [Stopper -> StopState]
  /\ run \in [Worker -> RunState]
  /\ batch \in [Worker -> Seq(Payload)]
  /\ flushes \in [Payload -> Nat]
  /\ ticket \in [Payload -> Nat]
  /\ issued \in Nat

(* p is still inside the pool: in the channel or in some worker's batch. *)
Held(p) == p \in Items(ch) \/ \E w \in Worker : p \in Items(batch[w])

(* Enqueue never sends on a closed channel, which would panic: the read lock *)
(* (worker.go:47-49) keeps Shutdown from closing it between test and send.   *)
NeverSendClosed == \A p \in Payload : call[p] = "sending" => ~closed

(* Every payload Enqueue accepted is either still held by the pool or has    *)
(* been passed to flushFn, never both and never twice, and a payload that    *)
(* was not accepted is neither: no loss, no duplicate, whatever the order of *)
(* receives, ticks and Shutdown.                                             *)
ExactlyOnce ==
  \A p \in Payload :
    IF call[p] = "accepted"
    THEN (flushes[p] = 0 /\ Held(p)) \/ (flushes[p] = 1 /\ ~Held(p))
    ELSE flushes[p] = 0 /\ ~Held(p)

(* Batches and channel stay within their configured bounds (the batch slice  *)
(* has capacity BatchSize and must never be appended to when full).          *)
WithinBounds ==
  /\ Len(ch) <= ChannelCap
  /\ \A w \in Worker : Len(batch[w]) <= BatchSize

(* Payloads keep the order in which they were accepted: along the channel,   *)
(* along every batch, and from every batch to the channel.  The EWMA that    *)
(* flushFn updates depends on the order inside a batch.                      *)
InOrder ==
  /\ \A i, j \in DOMAIN ch : i < j => ticket[ch[i]] < ticket[ch[j]]
  /\ \A w \in Worker : \A i, j \in DOMAIN batch[w] :
       i < j => ticket[batch[w][i]] < ticket[batch[w][j]]
  /\ \A w \in Worker : \A i \in DOMAIN batch[w], j \in DOMAIN ch :
       ticket[batch[w][i]] < ticket[ch[j]]

(* When a Shutdown call returns, every accepted payload has been flushed     *)
(* (worker.go:91-92), also the calls that did not close the channel.         *)
ShutdownDrains ==
  \A s \in Stopper : stop[s] = "returned" =>
    \A p \in Payload : call[p] = "accepted" => flushes[p] = 1

(* The contract's view of a payload whose Enqueue call is in state c and     *)
(* that has been flushed n times.                                            *)
Fate(c, n) ==
  IF c = "accepted" THEN IF n = 0 THEN "accepted" ELSE "flushed"
  ELSE IF c = "rejected" THEN "rejected" ELSE "offered"

fateOf == [p \in Payload |-> Fate(call[p], flushes[p])]

stoppedOf == \E s \in Stopper : stop[s] = "returned"

Contract == INSTANCE PoolContract WITH fate <- fateOf, stopped <- stoppedOf

(* The pool with its mutex, channel and goroutines implements PoolContract:  *)
(* a flush takes accepted payloads only and at most BatchSize of them, a     *)
(* Shutdown returns only when nothing is pending, nothing is accepted later. *)
ImplementsContract == Contract!CSpec

(* The facts that make the safety invariants inductive.  Tickets are handed  *)
(* out in order to accepted payloads only; no two batches share a payload; a *)
(* worker at its select has room, one that is flushing has something to      *)
(* flush, and one that ends has seen the channel closed and empty.           *)
TicketsIssued ==
  \A p \in Payload :
    /\ ticket[p] # 0 <=> call[p] = "accepted"
    /\ ticket[p] <= issued

BatchesDisjoint ==
  \A v, w \in Worker :
    v # w => Items(batch[v]) \intersect Items(batch[w]) = {}

WorkerStates ==
  /\ \A w \in Worker :
       /\ run[w] = "select" => Len(batch[w]) < BatchSize
       /\ run[w] \in {"flush", "final"} => batch[w] # <<>>
       /\ run[w] \in {"final", "exited"} => closed /\ ch = <<>>
       /\ run[w] = "exited" => batch[w] = <<>>
  /\ \A s \in Stopper : stop[s] = "returned" =>
       \A w \in Worker : run[w] = "exited"

PoolInv ==
  /\ TypeOK
  /\ NeverSendClosed
  /\ ExactlyOnce
  /\ WithinBounds
  /\ InOrder
  /\ TicketsIssued
  /\ BatchesDisjoint
  /\ WorkerStates

(* Every accepted payload is eventually flushed, by size, tick or Shutdown.  *)
EventuallyFlushed ==
  \A p \in Payload : call[p] = "accepted" ~> flushes[p] = 1

(* Every Shutdown call returns.                                              *)
ShutdownTerminates ==
  \A s \in Stopper : stop[s] = "lock" \/ stop[s] = "wait" ~> stop[s] = "returned"
=============================================================================
