---------------------------- MODULE MCRetention ----------------------------
(***************************************************************************)
(* Retention for TLC: app a keeps its data for one day, b for three days   *)
(* and c for ever.                                                         *)
(***************************************************************************)
EXTENDS Retention, TLC

CONSTANTS a, b, c

MCRetentionDays == a :> 1 @@ b :> 3 @@ c :> 0
=============================================================================
