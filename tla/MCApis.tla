------------------------------- MODULE MCApis -------------------------------
(***************************************************************************)
(* Two parts of the APIs for TLC, the conferences of the query API and the *)
(* authenticated and limited requests of the ingest API.  They share no    *)
(* variable, so that a behaviour of one is checked beside an initial state *)
(* of the other: the requests move when some are sent.                     *)
(***************************************************************************)
EXTENDS MCConferences, MCServerRequests

VARIABLE moves

ApisInit ==
  /\ Init /\ SInit
  /\ moves \in {"conferences", "requests"}
  /\ moves = "conferences" <=> \A r \in Request : auth[r] = "not sent"
  /\ moves = "requests" => menu.reports = {}

ApisNext ==
  \/ moves = "conferences" /\ Next /\ UNCHANGED <<moves, allVars>>
  \/ moves = "requests" /\ SNext /\ UNCHANGED <<moves, vars>>

ApisSpec == ApisInit /\ [][ApisNext]_<<moves, vars, allVars>>
=============================================================================
