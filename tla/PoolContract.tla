---------------------------- MODULE PoolContract ----------------------------
(***************************************************************************)
(* What the worker pool promises the HTTP handlers and main: an accepted   *)
(* payload is flushed once, in a batch of at most BatchSize, and when      *)
(* Shutdown has returned nothing is pending and nothing is accepted.       *)
(* Channel, mutex, workers and ticker are not visible here.                *)
(***************************************************************************)
EXTENDS Integers

CONSTANTS Payload, BatchSize

VARIABLES
  fate,     \* fate[p]: "offered", "accepted", "rejected" or "flushed"
  stopped   \* a Shutdown call has returned

cvars == <<fate, stopped>>

CInit ==
  /\ fate = [p \in Payload |-> "offered"]
  /\ stopped = FALSE

Accept(p) ==
  /\ fate[p] = "offered" /\ ~stopped
  /\ fate' = [fate EXCEPT ![p] = "accepted"]
  /\ UNCHANGED stopped

Reject(p) ==
  /\ fate[p] = "offered"
  /\ fate' = [fate EXCEPT ![p] = "rejected"]
  /\ UNCHANGED stopped

(* flushFn is called with the batch b: accepted payloads, each only once. *)
Flush(b) ==
  /\ \A i, j \in DOMAIN b : b[i] = b[j] => i = j
  /\ \A i \in DOMAIN b : fate[b[i]] = "accepted"
  /\ fate' = [p \in Payload |->
                IF \E i \in DOMAIN b : b[i] = p THEN "flushed" ELSE fate[p]]
  /\ UNCHANGED stopped

Stop ==
  /\ \A p \in Payload : fate[p] # "accepted"
  /\ stopped' = TRUE
  /\ UNCHANGED fate

CNext ==
  \/ \E p \in Payload : Accept(p) \/ Reject(p)
  \/ \E n \in 1 .. BatchSize : \E b \in [1 .. n -> Payload] : Flush(b)
  \/ Stop

CSpec == CInit /\ [][CNext]_cvars
=============================================================================
