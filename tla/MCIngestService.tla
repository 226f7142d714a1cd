-------------------------- MODULE MCIngestService --------------------------
(***************************************************************************)
(* IngestService for TLC.  Conferences c1 and c2 belong to apps 1 and 2.   *)
(***************************************************************************)
EXTENDS IngestService, TLC

CONSTANTS c1, c2, s1, s2, s3, p1, p2, p3, r1, r2

MCApp == c1 :> 1 @@ c2 :> 2
TwoNames == c1 :> "x" @@ c2 :> "y"
MCConfOf == s1 :> c1 @@ s2 :> c1 @@ s3 :> c2
MCSessionOf == p1 :> s1 @@ p2 :> s2 @@ p3 :> s3
MCCaller == r1 :> 1 @@ r2 :> 1
MCTarget == r1 :> "x" @@ r2 :> "x"
=============================================================================
