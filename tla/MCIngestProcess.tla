-------------------------- MODULE MCIngestProcess --------------------------
(***************************************************************************)
(* Two parts of the ingest process for TLC, the worker pool and the        *)
(* retention job.  main starts both; they share no variable, so that a     *)
(* behaviour of one is checked beside the initial state of the other:      *)
(* runs tells which one moves.                                             *)
(***************************************************************************)
EXTENDS WorkerPool, MCRetention

VARIABLE runs

ProcessInit == runs \in {"pool", "retention"} /\ Init /\ JobInit

(* The job may come to rest; the pool may only when all calls are back. *)
JobRests == UNCHANGED jobVars

ProcessNext ==
  \/ runs = "pool" /\ Next /\ UNCHANGED <<runs, jobVars>>
  \/ runs = "retention" /\ (JobNext \/ JobRests) /\ UNCHANGED <<runs, vars>>

(* Each part has the fairness of its own specification when it moves. *)
ProcessSpec ==
  /\ ProcessInit
  /\ [][ProcessNext]_<<runs, vars, jobVars>>
  /\ \/ runs = "pool" /\ Fairness
     \/ runs = "retention" /\ JobFairness
=============================================================================
