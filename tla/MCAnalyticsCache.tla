-------------------------- MODULE MCAnalyticsCache --------------------------
(* One app with an overview, a breakdown and the statistics of a connection, *)
(* and two requests at a time.                                               *)
EXTENDS AnalyticsCache

CONSTANTS a1, overview, breakdown, stats, e1, r1, r2

MCAppOf == [k \in Key |-> a1]
MCKind ==
  [k \in Key |-> IF k = overview THEN "overview"
                 ELSE IF k = breakdown THEN "breakdown" ELSE "stats"]
MCEnderApp == [e \in Ender |-> a1]
(* 5 minutes, 5 minutes and 60 seconds. *)
MCTTL == [kind \in {"overview", "breakdown", "stats"} |-> IF kind = "stats" THEN 1 ELSE 2]
=============================================================================
