--------------------------- MODULE ServerRequests ---------------------------
(***************************************************************************)
(* How a request gets to a handler of the ingest API: authentication       *)
(* (internal/auth), then the rate limiter, in the order of setupRoutes.    *)
(*                                                                         *)
(* A request is one delivery.  Server SDKs sign a message once and may     *)
(* deliver it more than once; the other requests carry a token.  A message *)
(* stands for its key, timestamp, path, body and signature.  X-Signature   *)
(* carries the signature in hexadecimal digits, which has more than one    *)
(* spelling; the nonce is made of the text.  The timestamp is compared in  *)
(* seconds, the nonce expires at an instant.                               *)
(***************************************************************************)
EXTENDS RateLimiter, Integers

CONSTANTS
  Message, MsgOf,  \* MsgOf[r]: message that request r delivers, or NoMsg
  NoMsg,           \* a request with a token
  TextOf,          \* TextOf[r]: how the X-Signature of request r begins
  Stamp,           \* Stamp[m]: X-Timestamp of a message
  Until,           \* Until[r]: the exp claim of a request's token, in seconds
  Flaw,            \* Flaw[r]: "none", or what is wrong with its headers,
                   \* token or signature
  Skew,            \* 300 in the code
  Traffic          \* the requests that may come and the routes with a limiter

ASSUME RequestsAssumption ==
  /\ MsgOf \in [Request -> Message \union {NoMsg}]
  /\ NoMsg \notin Message
  /\ Stamp \in [Message -> Nat] /\ Until \in [Request -> Nat]
  /\ Flaw \in [Request -> {"none", "header", "signature"}]
  /\ Skew \in Nat \ {0}
  /\ \A t \in Traffic : t.sent \subseteq Request /\ t.limits \subseteq {"token", "signed"}
  /\ \A q, r \in Request : MsgOf[q] = MsgOf[r] /\ MsgOf[q] # NoMsg =>
                             KeyOf[q] = KeyOf[r]
  (* Signatures of different messages of a key and second begin differently. *)
  /\ \A q, r \in Request :
       /\ Flaw[q] = "none" /\ Flaw[r] = "none" /\ NoMsg \notin {MsgOf[q], MsgOf[r]}
       /\ KeyOf[q] = KeyOf[r] /\ Stamp[MsgOf[q]] = Stamp[MsgOf[r]] /\ TextOf[q] = TextOf[r]
       => MsgOf[q] = MsgOf[r]

VARIABLES
  limits,        \* the groups of routes whose limiter is not nil
  auth,          \* auth[r]: where the authentication of r is
  nonce,         \* nonce[n]: the instant Redis drops nonce n
  retired,       \* server keys that are in no row of apps any more
  passed,        \* passed[r]: how r passed authentication (history)
  lost           \* messages of which a SETNX answer was lost (history)

limiter == <<zset, expireAt, at, read, claims, ontime>>
authVars == <<auth, nonce, retired, passed, lost>>
allVars == <<now, redisFaults, limits, limiter, authVars>>

(* Mutants: the nonce lives as long as the window is wide on one side; the   *)
(* nonce does not tell the messages of a key and second apart.               *)
NonceSecsShort == Skew
NonceOfSecond(r) == <<KeyOf[r], Stamp[MsgOf[r]]>>

(* 600 seconds *)
NonceSecs == 2 * Skew

(* server_nonce:key:timestamp:first 16 characters of the header *)
NonceOf(r) == <<KeyOf[r], Stamp[MsgOf[r]], TextOf[r]>>

Signed == {r \in Request : MsgOf[r] # NoMsg}
Nonce == {NonceOf(r) : r \in Signed}

SInit ==
  /\ LimiterInit
  /\ \E t \in Traffic :
       /\ limits = t.limits
       /\ auth = [r \in Request |-> IF r \in t.sent THEN "new" ELSE "not sent"]
  /\ nonce = [n \in Nonce |-> 0]
  /\ retired = {}
  /\ passed = [r \in Request |-> "no"]
  /\ lost = {}

(* The server keys in use. *)
ServerKey == {KeyOf[r] : r \in {q \in Signed : auth[q] # "not sent"}}

Answer(r, a) == auth' = [auth EXCEPT ![r] = a]
Pass(r, how) == Answer(r, "ok") /\ passed' = [passed EXCEPT ![r] = how]

(* Where in the window of its message a delivery passes. *)
Within == {"first second", "between", "last second"}

When(r) ==
  LET s == Second(now) - Stamp[MsgOf[r]] IN
  IF s > Skew THEN "over" ELSE IF s = Skew THEN "last second"
  ELSE IF s > -Skew THEN "between" ELSE "first second"
-----------------------------------------------------------------------------
(* Authenticate: the token of an SDK in a browser. *)
Authenticate(r) ==
  /\ auth[r] = "new" /\ MsgOf[r] = NoMsg
  /\ IF Flaw[r] = "none" /\ Second(now) < Until[r]
     THEN Pass(r, "token")
     ELSE Answer(r, "refused") /\ UNCHANGED passed
  /\ UNCHANGED <<now, redisFaults, limits, limiter, nonce, retired, lost>>

(* AuthenticateAPIKey: the headers and the timestamp, ... *)
CheckHeaders(r) ==
  /\ auth[r] = "new" /\ MsgOf[r] # NoMsg
  /\ LET diff == Second(now) - Stamp[MsgOf[r]] IN
     Answer(r, IF Flaw[r] = "header" \/ diff < -Skew \/ diff > Skew
               THEN "refused" ELSE "lookup")
  /\ UNCHANGED <<now, redisFaults, limits, limiter, nonce, retired, passed, lost>>

(* ... the key's row and with its secret the signature, ... *)
Lookup(r) ==
  /\ auth[r] = "lookup"
  /\ Answer(r, IF KeyOf[r] \notin retired /\ Flaw[r] = "none"
               THEN "nonce" ELSE "refused")
  /\ UNCHANGED <<now, redisFaults, limits, limiter, nonce, retired, passed, lost>>

(* (the query fails, or the secret or the body cannot be read) *)
LookupError(r) ==
  /\ auth[r] = "lookup"
  /\ RedisFails
  /\ Answer(r, "refused")
  /\ UNCHANGED <<now, limits, limiter, nonce, retired, passed, lost>>

(* SETNX with its expiry; set tells whether it returns 1. *)
SetNX(n, set) ==
  /\ set = (now >= nonce[n])
  /\ nonce' = IF set THEN [nonce EXCEPT ![n] = now + NonceSecs * PerSecond] ELSE nonce

(* ... and the nonce. *)
CheckNonce(r) ==
  /\ auth[r] = "nonce"
  /\ \E set \in BOOLEAN :
       /\ SetNX(NonceOf(r), set)
       /\ IF set THEN Pass(r, When(r)) ELSE Answer(r, "duplicate") /\ UNCHANGED passed
  /\ UNCHANGED <<now, redisFaults, limits, limiter, retired, lost>>

(* Redis does not get the command: the request passes. *)
NonceFailOpen(r) ==
  /\ auth[r] = "nonce"
  /\ RedisFails
  /\ Pass(r, "open")
  /\ UNCHANGED <<now, limits, limiter, nonce, retired, lost>>

(* The answer is lost: the request passes, or the client library sends the   *)
(* command again.                                                            *)
NonceAnswerLost(r) ==
  /\ auth[r] = "nonce"
  /\ RedisFails
  /\ \E set \in BOOLEAN : SetNX(NonceOf(r), set)
  /\ lost' = lost \union {MsgOf[r]}
  /\ Pass(r, "open") \/ UNCHANGED <<auth, passed>>
  /\ UNCHANGED <<now, limits, limiter, retired>>

AuthenticateAPIKey(r) ==
  \/ CheckHeaders(r) \/ Lookup(r) \/ LookupError(r)
  \/ CheckNonce(r) \/ NonceFailOpen(r) \/ NonceAnswerLost(r)
-----------------------------------------------------------------------------
(* A row of apps changes (see Apps): a key is replaced or deleted.  The keys *)
(* are random, none comes back.                                              *)
RetireKey(k) ==
  /\ k \notin retired
  /\ retired' = retired \union {k}
  /\ UNCHANGED <<now, redisFaults, limits, limiter, auth, nonce, passed, lost>>

(* The limiter's middleware comes after the authentication, if the group of  *)
(* routes has one.                                                           *)
Group(r) == IF MsgOf[r] = NoMsg THEN "token" ELSE "signed"

Limited(r) ==
  /\ auth[r] = "ok" /\ Group(r) \in limits
  /\ Allow(r)
  /\ UNCHANGED <<limits, authVars>>

Unlimited(r) ==
  /\ auth[r] = "ok" /\ Group(r) \notin limits /\ at[r] = "new"
  /\ Go(r, "served")
  /\ UNCHANGED <<now, redisFaults, limits, zset, expireAt, read, claims, ontime, authVars>>

Clock == Advance /\ UNCHANGED <<limits, authVars>>

AllAnswered ==
  /\ \A r \in Request : \/ auth[r] \in {"not sent", "refused", "duplicate"}
                        \/ at[r] \in {"served", "429"}
  /\ now = MaxInstant
  /\ UNCHANGED allVars

SNext ==
  \/ Clock
  \/ \E r \in Request : Authenticate(r) \/ AuthenticateAPIKey(r)
                         \/ Limited(r) \/ Unlimited(r)
  \/ \E k \in ServerKey : RetireKey(k)
  \/ AllAnswered

SSpec == SInit /\ [][SNext]_allVars
-----------------------------------------------------------------------------
(* A message that is delivered again with the same headers passes once       *)
(* within its window while Redis answers, however the deliveries overlap.    *)
(* The one exception is exact: the window has both its ends and is a second  *)
(* longer than the nonce lives, so a delivery in its first second leaves     *)
(* room for one in its last.  A delivery that stalls after the check of the  *)
(* timestamp until the window is over, and one whose header spells the       *)
(* signature otherwise, are not the same (apikey_middleware.go:111-157).     *)
PassedOnce ==
  \A q, r \in {p \in Request : passed[p] \in Within} :
    q # r /\ MsgOf[q] = MsgOf[r] /\ TextOf[q] = TextOf[r] =>
      {passed[q], passed[r]} = {"first second", "last second"}

(* A message is refused as a duplicate only when a delivery of it has been   *)
(* handed on, or an answer of Redis was lost and nobody knows: no signed     *)
(* request disappears because of another one (apikey_middleware.go:144-157). *)
DuplicateWasHandedOn ==
  \A r \in Request : auth[r] = "duplicate" =>
    \/ MsgOf[r] \in lost
    \/ \E q \in Request : MsgOf[q] = MsgOf[r] /\ auth[q] = "ok"
=============================================================================
