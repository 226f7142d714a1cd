------------------------- MODULE RateLimiterProofs -------------------------
(***************************************************************************)
(* Proofs about the authentication of server requests and the rate limiter *)
(* behind it, for every set of requests, messages and keys, every skew,    *)
(* limit and window, every number of instants in a second and any number   *)
(* of faults.                                                              *)
(***************************************************************************)
EXTENDS ServerRequests, FiniteSetTheorems, TLAPS

(* Where an instant lies in its second. *)
LEMMA SecondType ==
  ASSUME NEW a \in Nat
  PROVE  /\ Second(a) \in Nat
         /\ Second(a) * PerSecond <= a
         /\ a < (Second(a) + 1) * PerSecond
BY LimiterAssumption, SMT DEF Second

(* n seconds later the clock shows at least n more. *)
LEMMA SecondLater ==
  ASSUME NEW a \in Nat, NEW b \in Nat, NEW n \in Nat, b >= a + n * PerSecond
  PROVE  Second(b) >= Second(a) + n
<1> DEFINE p == Second(a)  q == Second(b)
<1>1. p \in Nat /\ q \in Nat /\ p * PerSecond <= a /\ b < (q + 1) * PerSecond
  BY SecondType
<1> HIDE DEF p, q
<1>2. (p + n) * PerSecond < (q + 1) * PerSecond
  BY <1>1, LimiterAssumption, SMT
<1>3. p + n < q + 1
  BY <1>1, <1>2, LimiterAssumption, SMT
<1> QED BY <1>1, <1>3 DEF p, q

(* Instants in order have their seconds in order. *)
LEMMA SecondMonotone ==
  ASSUME NEW a \in Nat, NEW b \in Nat, a <= b
  PROVE  Second(a) <= Second(b)
<1>1. b >= a + 0 * PerSecond  BY LimiterAssumption
<1> QED  BY <1>1, SecondLater, SecondType
-----------------------------------------------------------------------------
AuthState == {"not sent", "new", "lookup", "nonce", "ok", "refused", "duplicate"}
Passage == Within \union {"no", "token", "over", "open"}

(* The nonce of a delivery that passed lives until the last second of the   *)
(* window, and if that was not in the first second, until it is over.       *)
Outlives(r) ==
  /\ r \in Signed
  /\ Second(nonce[NonceOf(r)]) >= Stamp[MsgOf[r]] + Skew
  /\ passed[r] # "first second" => Second(nonce[NonceOf(r)]) > Stamp[MsgOf[r]] + Skew

(* A nonce is there because of a delivery that was handed on, or nobody     *)
(* knows.                                                                   *)
Explained(n) ==
  \E q \in Signed : /\ Flaw[q] = "none" /\ NonceOf(q) = n
                    /\ MsgOf[q] \in lost \/ auth[q] = "ok"

AuthInv ==
  /\ now \in Nat
  /\ auth \in [Request -> AuthState]
  /\ passed \in [Request -> Passage]
  /\ nonce \in [Nonce -> Nat]
  /\ \A r \in Request : auth[r] \in {"lookup", "nonce"} =>
       r \in Signed /\ Second(now) >= Stamp[MsgOf[r]] - Skew
  /\ \A r \in Request : auth[r] = "nonce" => Flaw[r] = "none"
  /\ \A r \in Request : passed[r] \in Within => Outlives(r)
  /\ \A n \in Nonce : nonce[n] > 0 => Explained(n)
  /\ PassedOnce
  /\ DuplicateWasHandedOn

(* What the constants and the nonce of a signed request are. *)
LEMMA SignedType ==
  ASSUME NEW r \in Signed
  PROVE  /\ r \in Request /\ MsgOf[r] \in Message /\ NonceOf(r) \in Nonce
         /\ Stamp[MsgOf[r]] \in Nat /\ Skew \in Nat \ {0}
<1>1. r \in Request /\ MsgOf[r] \in Message  BY RequestsAssumption DEF Signed
<1>2. NonceOf(r) \in Nonce  BY Zenon DEF Nonce
<1> QED  BY <1>1, <1>2, RequestsAssumption

(* Deliveries of a message with one text have one nonce, ... *)
LEMMA SameNonce ==
  ASSUME NEW q \in Signed, NEW r \in Request, MsgOf[q] = MsgOf[r], TextOf[q] = TextOf[r]
  PROVE  r \in Signed /\ NonceOf(q) = NonceOf(r)
<1>1. q \in Request /\ MsgOf[q] # NoMsg  BY Zenon DEF Signed
<1>2. KeyOf[q] = KeyOf[r]  BY Zenon, <1>1, RequestsAssumption
<1>3. Stamp[MsgOf[q]] = Stamp[MsgOf[r]]  OBVIOUS
<1> QED  BY Zenon, <1>1, <1>2, <1>3 DEF Signed, NonceOf

(* ... and well-signed deliveries with one nonce are of one message. *)
LEMMA SameMessage ==
  ASSUME NEW q \in Signed, NEW r \in Signed, Flaw[q] = "none", Flaw[r] = "none",
         NonceOf(q) = NonceOf(r)
  PROVE  MsgOf[q] = MsgOf[r]
<1>1. KeyOf[q] = KeyOf[r] /\ Stamp[MsgOf[q]] = Stamp[MsgOf[r]] /\ TextOf[q] = TextOf[r]
  BY DEF NonceOf
<1> QED  BY Zenon, <1>1, RequestsAssumption DEF Signed

(* At the start nothing has passed and there is no nonce. *)
LEMMA AuthInit == SInit => AuthInv
<1> SUFFICES ASSUME SInit PROVE AuthInv  OBVIOUS
<1>1. auth \in [Request -> {"new", "not sent"}]  BY Zenon DEF SInit
<1>2. now \in Nat /\ nonce = [n \in Nonce |-> 0] /\ passed = [r \in Request |-> "no"]
  BY Zenon DEF SInit, LimiterInit
<1>3. /\ auth \in [Request -> AuthState] /\ passed \in [Request -> Passage]
      /\ nonce \in [Nonce -> Nat] /\ \A n \in Nonce : nonce[n] = 0
      /\ \A r \in Request : auth[r] \in {"new", "not sent"} /\ passed[r] = "no"
  BY <1>1, <1>2, Zenon DEF AuthState, Passage
<1>4. PassedOnce  BY <1>3 DEF PassedOnce, Within
<1>5. DuplicateWasHandedOn  BY <1>3, Zenon DEF DuplicateWasHandedOn
<1>6. \A n \in Nonce : ~(nonce[n] > 0)
  <2> SUFFICES ASSUME NEW n \in Nonce PROVE ~(nonce[n] > 0)  OBVIOUS
  <2>1. nonce[n] = 0  BY <1>3, Zenon
  <2> QED  BY <2>1
<1> QED  BY <1>2, <1>3, <1>4, <1>5, <1>6, Zenon DEF AuthInv, Within

(* A step that lets time pass, or leaves the authentication alone. *)
LEMMA OthersKeep ==
  ASSUME AuthInv, now' \in Nat, now' >= now, UNCHANGED <<auth, nonce, passed, lost>>
  PROVE  AuthInv'
<1>1. Second(now) \in Nat /\ Second(now') \in Nat /\ Second(now') >= Second(now)
  BY SecondType, SecondMonotone DEF AuthInv
<1>2. \A r \in Request : auth'[r] \in {"lookup", "nonce"} =>
        r \in Signed /\ Second(now') >= Stamp[MsgOf[r]] - Skew
  BY <1>1, SignedType DEF AuthInv
<1>3. \A r \in Request : passed'[r] \in Within => Outlives(r)'
  BY Zenon DEF AuthInv, Outlives, Second
<1>4. \A n \in Nonce : nonce'[n] > 0 => Explained(n)'
  BY Zenon DEF AuthInv, Explained
<1>5. PassedOnce' /\ DuplicateWasHandedOn'
  BY Zenon DEF AuthInv, PassedOnce, DuplicateWasHandedOn
<1>6. Second(now)' = Second(now')  BY DEF Second
<1> QED  BY <1>2, <1>3, <1>4, <1>5, <1>6, Zenon DEF AuthInv

(* Deliveries that pass otherwise than within the window. *)
LEMMA PassedKept ==
  ASSUME PassedOnce, \A q \in Request : passed'[q] \in Within => passed'[q] = passed[q]
  PROVE  PassedOnce'
<1> SUFFICES ASSUME NEW p \in Request, NEW q \in Request, p # q, MsgOf[p] = MsgOf[q],
                    TextOf[p] = TextOf[q], passed'[p] \in Within, passed'[q] \in Within
             PROVE  {passed'[p], passed'[q]} = {"first second", "last second"}
  BY DEF PassedOnce, Within
<1>1. passed'[p] = passed[p] /\ passed'[q] = passed[q]  BY Zenon
<1>2. {passed[p], passed[q]} \subseteq Within  BY Zenon, <1>1
<1>3. {passed[p], passed[q]} = {"first second", "last second"}
  BY Zenon, <1>2 DEF PassedOnce, Within
<1> QED  BY Zenon, <1>1, <1>3

(* A request is answered or goes on without touching a nonce. *)
LEMMA AnswerKeeps ==
  ASSUME AuthInv, NEW r \in Request, NEW a \in AuthState \ {"duplicate"},
         NEW how \in Passage \ Within,
         auth[r] \in {"new", "lookup", "nonce"},
         a \in {"lookup", "nonce"} =>
           r \in Signed /\ Second(now) >= Stamp[MsgOf[r]] - Skew,
         a = "nonce" => Flaw[r] = "none",
         Answer(r, a), passed' \in {passed, [passed EXCEPT ![r] = how]},
         UNCHANGED <<now, nonce, lost>>
  PROVE  AuthInv'
<1>1. /\ auth' \in [Request -> AuthState] /\ passed' \in [Request -> Passage]
      /\ \A q \in Request : passed'[q] \in Within => passed'[q] = passed[q]
      /\ \A q \in Request : auth[q] = "ok" => auth'[q] = "ok"
      /\ \A q \in Request : auth'[q] = "duplicate" => auth[q] = "duplicate"
      /\ \A q \in Request : auth'[q] \in {"lookup", "nonce"} =>
           (r = q /\ auth'[q] = a) \/ auth'[q] = auth[q]
  BY DEF AuthInv, Answer
<1>2. \A n \in Nonce : nonce'[n] > 0 => Explained(n)'
  BY Zenon, <1>1 DEF AuthInv, Explained, Signed
<1>3. PassedOnce'
  BY Zenon, <1>1, PassedKept DEF AuthInv
<1>4. DuplicateWasHandedOn'
  BY <1>1 DEF AuthInv, DuplicateWasHandedOn
<1>5. \A q \in Request : auth'[q] \in {"lookup", "nonce"} =>
        /\ q \in Signed /\ Second(now) >= Stamp[MsgOf[q]] - Skew
        /\ auth'[q] = "nonce" => Flaw[q] = "none"
  BY Zenon, <1>1 DEF AuthInv
<1>6. \A q \in Request : passed'[q] \in Within => Outlives(q)'
  BY Zenon, <1>1 DEF AuthInv, Outlives, Second
<1>7. Second(now)' = Second(now)  BY DEF Second
<1> QED  BY Zenon, <1>1, <1>2, <1>3, <1>4, <1>5, <1>6, <1>7 DEF AuthInv

(* What an instant has reached, a later one has. *)
LEMMA StillReached ==
  ASSUME NEW v \in Nat, NEW w \in Nat, w >= v, NEW a \in Nat, NEW b \in Nat
  PROVE  (v >= a + b => w >= a + b) /\ (v > a + b => w > a + b)
OBVIOUS

(* What SETNX does to the lifetime of the nonces. *)
LEMMA NonceGrows ==
  ASSUME AuthInv, NEW m \in Nonce, NEW set \in BOOLEAN, SetNX(m, set), now' = now
  PROVE  /\ nonce' \in [Nonce -> Nat]
         /\ \A n \in Nonce : Second(nonce'[n]) >= Second(nonce[n])
         /\ \A n \in Nonce \ {m} : nonce'[n] = nonce[n]
         /\ set => Second(nonce'[m]) >= Second(now) + 2 * Skew
         /\ set => now >= nonce[m]
         /\ ~set => nonce[m] > 0 /\ nonce' = nonce
<1>1. now \in Nat /\ nonce \in [Nonce -> Nat] /\ Skew \in Nat /\ PerSecond \in Nat
  BY RequestsAssumption, LimiterAssumption DEF AuthInv
<1>2. NonceSecs \in Nat /\ NonceSecs * PerSecond \in Nat /\ NonceSecs = 2 * Skew
  BY <1>1 DEF NonceSecs
<1>3. \A n \in Nonce : Second(nonce[n]) \in Nat
  BY <1>1, SecondType
<1>4. CASE set
  <2>1. nonce' = [nonce EXCEPT ![m] = now + NonceSecs * PerSecond] /\ now >= nonce[m]
    BY <1>4, Zenon DEF SetNX
  <2>2. nonce'[m] = now + NonceSecs * PerSecond /\ nonce'[m] \in Nat
    BY <1>1, <1>2, <2>1
  <2>3. Second(nonce'[m]) >= Second(now) + NonceSecs
    BY <1>1, <1>2, <2>2, SecondLater
  <2>4. Second(nonce'[m]) >= Second(nonce[m]) + 0
    <3>1. nonce'[m] >= nonce[m] + 0 * PerSecond  BY <1>1, <1>2, <2>1, <2>2
    <3> QED  BY <1>1, <2>2, <3>1, SecondLater
  <2>5. nonce' \in [Nonce -> Nat] /\ \A n \in Nonce \ {m} : nonce'[n] = nonce[n]
    BY Zenon, <1>1, <2>1, <2>2
  <2> QED  BY <1>2, <1>3, <1>4, <2>1, <2>3, <2>4, <2>5
<1>5. CASE ~set
  <2>1. nonce' = nonce /\ ~(now >= nonce[m])
    BY <1>5, Zenon DEF SetNX
  <2> QED  BY <1>1, <1>3, <1>5, <2>1
<1> QED  BY <1>4, <1>5

(* SETNX with an answer: a delivery that passes within the window leaves a   *)
(* nonce that lives until its last second, and unless it came in the first,  *)
(* until it is over.                                                         *)
LEMMA CheckNonceKeeps ==
  ASSUME AuthInv, NEW r \in Request, CheckNonce(r)
  PROVE  AuthInv'
<1> DEFINE m == NonceOf(r)  stamp == Stamp[MsgOf[r]]
<1>1. /\ r \in Signed /\ Flaw[r] = "none" /\ Second(now) >= stamp - Skew
      /\ auth[r] = "nonce" /\ now' = now /\ lost' = lost
  BY Zenon DEF AuthInv, CheckNonce
<1>2. PICK set \in BOOLEAN :
        /\ SetNX(m, set)
        /\ IF set THEN Pass(r, When(r)) ELSE Answer(r, "duplicate") /\ UNCHANGED passed
  BY Zenon DEF CheckNonce
<1>3. /\ m \in Nonce /\ stamp \in Nat /\ Skew \in Nat \ {0}
  BY Zenon, <1>1, SignedType
<1>4. /\ nonce' \in [Nonce -> Nat]
      /\ \A n \in Nonce : Second(nonce'[n]) >= Second(nonce[n])
      /\ \A n \in Nonce \ {m} : nonce'[n] = nonce[n]
      /\ set => Second(nonce'[m]) >= Second(now) + 2 * Skew
      /\ set => now >= nonce[m]
      /\ ~set => nonce[m] > 0 /\ nonce' = nonce
  BY Zenon, <1>1, <1>2, <1>3, NonceGrows
<1>5. /\ \A n \in Nonce : Second(nonce[n]) \in Nat /\ Second(nonce'[n]) \in Nat
      /\ Second(now) \in Nat
  BY Zenon, <1>4, SecondType DEF AuthInv
<1>6. CASE set
  <2>1. auth' = [auth EXCEPT ![r] = "ok"] /\ passed' = [passed EXCEPT ![r] = When(r)]
    BY <1>2, <1>6 DEF Pass, Answer
  <2>2. When(r) \in Within \union {"over"}
    BY DEF When, Within
  <2>3. /\ auth' \in [Request -> AuthState] /\ passed' \in [Request -> Passage]
        /\ auth'[r] = "ok" /\ passed'[r] = When(r)
        /\ \A q \in Request \ {r} : auth'[q] = auth[q] /\ passed'[q] = passed[q]
    BY <2>1, <2>2, ZenonT(60) DEF AuthInv, AuthState, Passage
  <2>4. Second(now) >= Second(nonce[m])
    BY Zenon, <1>3, <1>4, <1>6, SecondMonotone DEF AuthInv
  <2>5. /\ Second(nonce'[m]) >= stamp + Skew
        /\ When(r) \in {"between", "last second"} => Second(nonce'[m]) > stamp + Skew
    BY <1>1, <1>3, <1>4, <1>5, <1>6 DEF When
  <2>6. /\ Second(nonce[m]) >= stamp + Skew => When(r) \in {"last second", "over"}
        /\ Second(nonce[m]) > stamp + Skew => When(r) = "over"
    BY <1>3, <1>5, <2>4 DEF When
  <2>7. \A q \in Request : passed'[q] \in Within => Outlives(q)'
    <3> SUFFICES ASSUME NEW q \in Request, passed'[q] \in Within PROVE Outlives(q)'
      OBVIOUS
    <3>1. CASE q = r
      BY <1>1, <2>3, <2>5, <3>1 DEF Outlives, Within, Second
    <3>2. CASE q # r
      <4>1. passed'[q] = passed[q] /\ Outlives(q)  BY Zenon, <2>3, <3>2 DEF AuthInv
      <4>2. NonceOf(q) \in Nonce /\ Stamp[MsgOf[q]] \in Nat
        BY Zenon, <4>1, SignedType DEF Outlives
      <4>3. /\ q \in Signed /\ Second(nonce'[NonceOf(q)]) >= Stamp[MsgOf[q]] + Skew
            /\ passed'[q] # "first second" =>
                 Second(nonce'[NonceOf(q)]) > Stamp[MsgOf[q]] + Skew
        <5> DEFINE v == Second(nonce[NonceOf(q)])  w == Second(nonce'[NonceOf(q)])
        <5>1. w >= v /\ v \in Nat /\ w \in Nat  BY Zenon, <1>4, <1>5, <4>2
        <5>2. /\ q \in Signed /\ v >= Stamp[MsgOf[q]] + Skew
              /\ passed'[q] # "first second" => v > Stamp[MsgOf[q]] + Skew
          BY Zenon, <4>1 DEF Outlives
        <5> HIDE DEF v, w
        <5>3. /\ w >= Stamp[MsgOf[q]] + Skew
              /\ passed'[q] # "first second" => w > Stamp[MsgOf[q]] + Skew
          <6>1. Skew \in Nat  BY <1>3
          <6> QED  BY Zenon, <4>2, <5>1, <5>2, <6>1, StillReached
        <5> QED  BY Zenon, <5>2, <5>3 DEF w
      <4> QED  BY Zenon, <4>3 DEF Outlives, Second
    <3> QED  BY Zenon, <3>1, <3>2
  <2>8. ASSUME NEW q \in Request, q # r, MsgOf[q] = MsgOf[r], TextOf[q] = TextOf[r],
               passed[q] \in Within, When(r) \in Within
        PROVE  passed[q] = "first second" /\ When(r) = "last second"
    <3>1. NonceOf(q) = m /\ Outlives(q)  BY Zenon, <1>1, <2>8, SameNonce DEF AuthInv
    <3>2. /\ Second(nonce[m]) >= stamp + Skew
          /\ passed[q] # "first second" => Second(nonce[m]) > stamp + Skew
      BY <2>8, <3>1 DEF Outlives
    <3> QED  BY <2>6, <2>8, <3>2 DEF Within
  <2>9. PassedOnce'
    <3> SUFFICES ASSUME NEW p \in Request, NEW q \in Request, p # q, MsgOf[p] = MsgOf[q],
                        TextOf[p] = TextOf[q], passed'[p] \in Within, passed'[q] \in Within
                 PROVE  {passed'[p], passed'[q]} = {"first second", "last second"}
      BY DEF PassedOnce, Within
    <3>1. CASE p = r
      BY <2>3, <2>8, <3>1
    <3>2. CASE q = r
      BY <2>3, <2>8, <3>2
    <3>3. CASE p # r /\ q # r
      <4>1. passed'[p] = passed[p] /\ passed'[q] = passed[q]  BY Zenon, <2>3, <3>3
      <4>2. {passed[p], passed[q]} \subseteq Within  BY Zenon, <4>1
      <4>3. {passed[p], passed[q]} = {"first second", "last second"}
        BY Zenon, <4>2 DEF AuthInv, PassedOnce, Within
      <4> QED  BY Zenon, <4>1, <4>3
    <3> QED  BY Zenon, <3>1, <3>2, <3>3
  <2>10. DuplicateWasHandedOn'
    BY <1>1, <2>3 DEF AuthInv, DuplicateWasHandedOn
  <2>11. \A n \in Nonce : nonce'[n] > 0 => Explained(n)'
    <3> SUFFICES ASSUME NEW n \in Nonce, nonce'[n] > 0 PROVE Explained(n)'  OBVIOUS
    <3>1. CASE n = m
      BY Zenon, <1>1, <2>3, <3>1 DEF Explained
    <3>2. CASE n # m
      <4>1. Explained(n)  BY Zenon, <1>4, <3>2 DEF AuthInv
      <4> QED  BY Zenon, <1>1, <2>3, <4>1 DEF Explained, Signed
    <3> QED  BY Zenon, <3>1, <3>2
  <2>12. \A q \in Request : auth'[q] \in {"lookup", "nonce"} =>
           /\ q \in Signed /\ Second(now) >= Stamp[MsgOf[q]] - Skew
           /\ auth'[q] = "nonce" => Flaw[q] = "none"
    BY Zenon, <2>3 DEF AuthInv
  <2>13. Second(now)' = Second(now)  BY <1>1 DEF Second
  <2> QED  BY Zenon, <1>1, <1>4, <2>3, <2>7, <2>9, <2>10, <2>11, <2>12, <2>13 DEF AuthInv
<1>7. CASE ~set
  <2>1. auth' = [auth EXCEPT ![r] = "duplicate"] /\ UNCHANGED <<passed, nonce, lost, now>>
    BY <1>1, <1>2, <1>4, <1>7 DEF Answer
  <2>2. /\ auth' \in [Request -> AuthState]
        /\ \A q \in Request \ {r} : auth'[q] = auth[q]
        /\ auth'[r] = "duplicate"
    BY <2>1, Zenon DEF AuthInv, AuthState
  <2>3. PICK q \in Signed : /\ Flaw[q] = "none" /\ NonceOf(q) = m
                            /\ MsgOf[q] \in lost \/ auth[q] = "ok"
    BY Zenon, <1>3, <1>4, <1>7 DEF AuthInv, Explained
  <2>4. MsgOf[q] = MsgOf[r] /\ q \in Request
    BY Zenon, <1>1, <2>3, SameMessage, SignedType
  <2>5. DuplicateWasHandedOn'
    BY <1>1, <2>1, <2>2, <2>3, <2>4 DEF AuthInv, DuplicateWasHandedOn
  <2>6. \A n \in Nonce : nonce'[n] > 0 => Explained(n)'
    BY Zenon, <1>1, <2>1, <2>2 DEF AuthInv, Explained, Signed
  <2>7. \A p \in Request : auth'[p] \in {"lookup", "nonce"} =>
          /\ p \in Signed /\ Second(now) >= Stamp[MsgOf[p]] - Skew
          /\ auth'[p] = "nonce" => Flaw[p] = "none"
    BY Zenon, <2>2 DEF AuthInv
  <2>8. Second(now)' = Second(now)  BY <1>1 DEF Second
  <2>9. \A p \in Request : passed'[p] \in Within => Outlives(p)'
    BY Zenon, <2>1 DEF AuthInv, Outlives, Second
  <2>10. PassedOnce'
    BY Zenon, <2>1 DEF AuthInv, PassedOnce
  <2> QED  BY Zenon, <2>1, <2>2, <2>5, <2>6, <2>7, <2>8, <2>9, <2>10 DEF AuthInv
<1> QED  BY Zenon, <1>6, <1>7

(* SETNX without one: the message counts as lost, whatever comes of it.     *)
LEMMA NonceAnswerLostKeeps ==
  ASSUME AuthInv, NEW r \in Request, NonceAnswerLost(r)
  PROVE  AuthInv'
<1> DEFINE m == NonceOf(r)
<1>1. /\ r \in Signed /\ Flaw[r] = "none" /\ auth[r] = "nonce"
      /\ now' = now /\ lost' = lost \union {MsgOf[r]}
      /\ Pass(r, "open") \/ UNCHANGED <<auth, passed>>
  BY Zenon DEF AuthInv, NonceAnswerLost
<1>2. PICK set \in BOOLEAN : SetNX(m, set)
  BY Zenon DEF NonceAnswerLost
<1>3. /\ m \in Nonce
      /\ nonce' \in [Nonce -> Nat]
      /\ \A n \in Nonce : Second(nonce'[n]) >= Second(nonce[n])
      /\ \A n \in Nonce \ {m} : nonce'[n] = nonce[n]
  BY Zenon, <1>1, <1>2, SignedType, NonceGrows
<1>4. \A n \in Nonce : Second(nonce[n]) \in Nat /\ Second(nonce'[n]) \in Nat
  BY Zenon, <1>3, SecondType DEF AuthInv
<1>5. /\ auth' \in [Request -> AuthState] /\ passed' \in [Request -> Passage]
      /\ \A q \in Request : passed'[q] \in Within => passed'[q] = passed[q]
      /\ \A q \in Request : auth[q] = "ok" => auth'[q] = "ok"
      /\ \A q \in Request : auth'[q] \in {"duplicate", "lookup", "nonce"} => auth'[q] = auth[q]
  <2>1. CASE Pass(r, "open")
    <3>1. /\ auth' = [auth EXCEPT ![r] = "ok"] /\ passed' = [passed EXCEPT ![r] = "open"]
          /\ auth \in [Request -> AuthState] /\ passed \in [Request -> Passage]
          /\ "ok" \in AuthState /\ "open" \in Passage \ Within
      BY <2>1, Zenon DEF AuthInv, Pass, Answer, AuthState, Passage, Within
    <3> QED  BY <3>1
  <2>2. CASE UNCHANGED <<auth, passed>>
    BY Zenon, <2>2 DEF AuthInv
  <2> QED  BY Zenon, <1>1, <2>1, <2>2
<1>6. \A q \in Request : passed'[q] \in Within => Outlives(q)'
  <2> SUFFICES ASSUME NEW q \in Request, passed'[q] \in Within PROVE Outlives(q)'
    OBVIOUS
  <2>1. passed'[q] = passed[q] /\ Outlives(q)  BY Zenon, <1>5 DEF AuthInv
  <2>2. NonceOf(q) \in Nonce /\ Stamp[MsgOf[q]] \in Nat /\ Skew \in Nat
    BY Zenon, <2>1, SignedType DEF Outlives
  <2>3. /\ q \in Signed /\ Second(nonce'[NonceOf(q)]) >= Stamp[MsgOf[q]] + Skew
        /\ passed'[q] # "first second" =>
             Second(nonce'[NonceOf(q)]) > Stamp[MsgOf[q]] + Skew
    <3> DEFINE v == Second(nonce[NonceOf(q)])  w == Second(nonce'[NonceOf(q)])
    <3>1. w >= v /\ v \in Nat /\ w \in Nat  BY Zenon, <1>3, <1>4, <2>2
    <3>2. /\ q \in Signed /\ v >= Stamp[MsgOf[q]] + Skew
          /\ passed'[q] # "first second" => v > Stamp[MsgOf[q]] + Skew
      BY Zenon, <2>1 DEF Outlives
    <3> HIDE DEF v, w
    <3>3. /\ w >= Stamp[MsgOf[q]] + Skew
          /\ passed'[q] # "first second" => w > Stamp[MsgOf[q]] + Skew
      BY Zenon, <2>2, <3>1, <3>2, StillReached
    <3> QED  BY Zenon, <3>2, <3>3 DEF w
  <2> QED  BY Zenon, <2>3 DEF Outlives, Second
<1>7. \A n \in Nonce : nonce'[n] > 0 => Explained(n)'
  <2> SUFFICES ASSUME NEW n \in Nonce, nonce'[n] > 0 PROVE Explained(n)'  OBVIOUS
  <2>1. CASE n = m
    BY Zenon, <1>1, <2>1 DEF Explained
  <2>2. CASE n # m
    <3>1. Explained(n)  BY Zenon, <1>3, <2>2 DEF AuthInv
    <3> QED  BY Zenon, <1>1, <1>5, <3>1 DEF Explained, Signed
  <2> QED  BY Zenon, <2>1, <2>2
<1>8. PassedOnce' /\ DuplicateWasHandedOn'
  <2>1. PassedOnce'  BY Zenon, <1>5, PassedKept DEF AuthInv
  <2>2. DuplicateWasHandedOn'  BY <1>1, <1>5 DEF AuthInv, DuplicateWasHandedOn
  <2> QED  BY Zenon, <2>1, <2>2
<1>9. \A q \in Request : auth'[q] \in {"lookup", "nonce"} =>
        /\ q \in Signed /\ Second(now) >= Stamp[MsgOf[q]] - Skew
        /\ auth'[q] = "nonce" => Flaw[q] = "none"
  BY Zenon, <1>5 DEF AuthInv
<1>10. Second(now)' = Second(now)  BY <1>1 DEF Second
<1> QED  BY Zenon, <1>1, <1>3, <1>5, <1>6, <1>7, <1>8, <1>9, <1>10 DEF AuthInv

(* Every step keeps the invariant of the authentication. *)
LEMMA AuthStep == AuthInv /\ [SNext]_allVars => AuthInv'
<1> SUFFICES ASSUME AuthInv, [SNext]_allVars PROVE AuthInv'  OBVIOUS
<1>0. /\ {"ok", "refused", "lookup", "nonce"} \subseteq AuthState \ {"duplicate"}
      /\ {"token", "open"} \subseteq Passage \ Within
  BY Zenon DEF AuthState, Passage, Within
<1>00. now' = now => now' \in Nat /\ now' >= now  BY DEF AuthInv
<1>1. CASE Clock
  BY <1>1, OthersKeep DEF Clock, Advance, authVars, AuthInv
<1>2. ASSUME NEW r \in Request, Authenticate(r) PROVE AuthInv'
  <2>1. auth[r] = "new" /\ UNCHANGED <<now, nonce, lost>>  BY Zenon, <1>2 DEF Authenticate
  <2>2. \/ Answer(r, "ok") /\ passed' = [passed EXCEPT ![r] = "token"]
        \/ Answer(r, "refused") /\ passed' = passed
    BY <1>2 DEF Authenticate, Pass
  <2>3. CASE Answer(r, "ok") /\ passed' = [passed EXCEPT ![r] = "token"]
    BY <1>0, <2>1, <2>3, AnswerKeeps, Zenon
  <2>4. CASE Answer(r, "refused") /\ passed' = passed
    BY Zenon, <1>0, <2>1, <2>4, AnswerKeeps
  <2> QED  BY Zenon, <2>2, <2>3, <2>4
<1>3. ASSUME NEW r \in Request, AuthenticateAPIKey(r) PROVE AuthInv'
  <2>1. CASE CheckHeaders(r)
    <3>1. /\ r \in Signed /\ auth[r] = "new"
          /\ UNCHANGED <<now, nonce, lost>> /\ passed' = passed
      BY Zenon, <2>1 DEF CheckHeaders, Signed
    <3>2. \/ Answer(r, "refused")
          \/ Answer(r, "lookup") /\ Second(now) >= Stamp[MsgOf[r]] - Skew
      <4>1. Second(now) \in Nat /\ Stamp[MsgOf[r]] \in Nat /\ Skew \in Nat
        BY Zenon, <3>1, SecondType, SignedType DEF AuthInv
      <4>2. CASE Second(now) - Stamp[MsgOf[r]] < -Skew
        BY Zenon, <2>1, <4>2 DEF CheckHeaders
      <4>3. CASE ~(Second(now) - Stamp[MsgOf[r]] < -Skew)
        <5>1. Second(now) >= Stamp[MsgOf[r]] - Skew  BY <4>1, <4>3
        <5> QED  BY Zenon, <2>1, <5>1 DEF CheckHeaders
      <4> QED  BY Zenon, <4>2, <4>3
    <3>3. CASE Answer(r, "refused")  BY Zenon, <1>0, <3>1, <3>3, AnswerKeeps
    <3>4. CASE Answer(r, "lookup") /\ Second(now) >= Stamp[MsgOf[r]] - Skew
      BY Zenon, <1>0, <3>1, <3>4, AnswerKeeps
    <3> QED  BY Zenon, <3>2, <3>3, <3>4
  <2>2. CASE Lookup(r)
    <3>1. /\ r \in Signed /\ Second(now) >= Stamp[MsgOf[r]] - Skew /\ auth[r] = "lookup"
          /\ UNCHANGED <<now, nonce, lost>> /\ passed' = passed
      BY Zenon, <2>2 DEF Lookup, AuthInv
    <3>2. Answer(r, "refused") \/ (Answer(r, "nonce") /\ Flaw[r] = "none")
      <4>1. CASE KeyOf[r] \notin retired /\ Flaw[r] = "none"
        BY Zenon, <2>2, <4>1 DEF Lookup
      <4>2. CASE ~(KeyOf[r] \notin retired /\ Flaw[r] = "none")
        BY Zenon, <2>2, <4>2 DEF Lookup
      <4> QED  BY Zenon, <4>1, <4>2
    <3>3. CASE Answer(r, "refused")  BY Zenon, <1>0, <3>1, <3>3, AnswerKeeps
    <3>4. CASE Answer(r, "nonce") /\ Flaw[r] = "none"
      BY Zenon, <1>0, <3>1, <3>4, AnswerKeeps
    <3> QED  BY Zenon, <3>2, <3>3, <3>4
  <2>3. CASE LookupError(r)
    BY Zenon, <1>0, <2>3, AnswerKeeps DEF LookupError
  <2>4. CASE CheckNonce(r)
    BY <2>4, CheckNonceKeeps
  <2>5. CASE NonceFailOpen(r)
    BY <1>0, <2>5, AnswerKeeps, Zenon DEF NonceFailOpen, Pass
  <2>6. CASE NonceAnswerLost(r)
    BY <2>6, NonceAnswerLostKeeps
  <2> QED  BY Zenon, <1>3, <2>1, <2>2, <2>3, <2>4, <2>5, <2>6 DEF AuthenticateAPIKey
<1>4. ASSUME NEW r \in Request, Limited(r) \/ Unlimited(r) PROVE AuthInv'
  BY Zenon, <1>00, <1>4, OthersKeep
  DEF Limited, Unlimited, Allow, ReadClock, Eval, FailOpen, ScriptAnswerLost, authVars, AuthInv
<1>5. ASSUME NEW k, RetireKey(k) PROVE AuthInv'
  BY Zenon, <1>00, <1>5, OthersKeep DEF RetireKey, AuthInv
<1>6. CASE UNCHANGED allVars
  BY <1>6, OthersKeep DEF allVars, authVars, AuthInv
<1> QED  BY <1>1, <1>2, <1>3, <1>4, <1>5, <1>6, Zenon DEF SNext, AllAnswered

(* Of the deliveries of a message with one text of its signature only one   *)
(* passes within its window while Redis answers, or one in its first second *)
(* and one in its last: for every window and however the deliveries         *)
(* interleave (apikey_middleware.go:111-157).                               *)
THEOREM MessagePassesOnce == SSpec => []PassedOnce
<1>1. AuthInv => PassedOnce  BY Zenon DEF AuthInv
<1> QED  BY AuthInit, AuthStep, <1>1, PTL DEF SSpec

(* A message that is refused as a duplicate has been handed on, or an       *)
(* answer of Redis was lost (apikey_middleware.go:144-157).                 *)
THEOREM DuplicatesHandedOn == SSpec => []DuplicateWasHandedOn
<1>1. AuthInv => DuplicateWasHandedOn  BY Zenon DEF AuthInv
<1> QED  BY AuthInit, AuthStep, <1>1, PTL DEF SSpec

(* A set is not larger than one it is mapped into without collisions, ...   *)
LEMMA Injects ==
  ASSUME NEW S, NEW T, IsFiniteSet(S), IsFiniteSet(T), NEW f,
         \A x \in S : f[x] \in T,
         \A x, y \in S : x # y => f[x] # f[y]
  PROVE  Cardinality(S) <= Cardinality(T)
<1> DEFINE g == [x \in S |-> f[x]]
<1>1. g \in [S -> T] /\ ~ \E x, y \in S : x # y /\ g[x] = g[y]  BY Zenon
<1> HIDE DEF g
<1>2. ~(Cardinality(T) < Cardinality(S))  BY <1>1, FS_PigeonHole, SMTT(30)
<1> QED  BY <1>2, FS_CardinalityType

(* ... nor than one it is the image of.                                     *)
LEMMA Covers ==
  ASSUME NEW S, NEW T, IsFiniteSet(S), IsFiniteSet(T), NEW f,
         \A t \in T : \E x \in S : f[x] = t
  PROVE  Cardinality(T) <= Cardinality(S)
<1> DEFINE g == [t \in T |-> CHOOSE x \in S : f[x] = t]
<1>1. \A t \in T : g[t] \in S /\ f[g[t]] = t  BY Zenon
<1>2. \A t, u \in T : t # u => g[t] # g[u]  BY Zenon, <1>1
<1> HIDE DEF g
<1> QED  BY Zenon, <1>1, <1>2, Injects

(* An entry is the instant some request of the key has read; an entry made  *)
(* on time stays as long as the clock is in its window, and no two of them  *)
(* are the same.                                                            *)
LimInv ==
  /\ now \in Nat
  /\ at \in [Request -> {"new", "eval", "served", "429"}]
  /\ read \in [Request -> Nat]
  /\ expireAt \in [Key -> Nat]
  /\ zset \in [Key -> SUBSET Nat]
  /\ \A k \in Key : IsFiniteSet(zset[k])
  /\ claims \subseteq Request /\ ontime \subseteq claims /\ IsFiniteSet(claims)
  /\ \A r \in Request : read[r] <= now
  /\ \A r \in claims : at[r] # "new"
  /\ \A k \in Key : \A m \in zset[k] : \E q \in claims : KeyOf[q] = k /\ read[q] = m
  /\ \A q \in ontime :
       /\ Second(expireAt[KeyOf[q]]) >= Second(read[q]) + WindowSecs
       /\ Second(now) < Second(read[q]) + WindowSecs => read[q] \in zset[KeyOf[q]]
  /\ \A q, r \in ontime : q # r /\ KeyOf[q] = KeyOf[r] => read[q] # read[r]
  /\ WithinLimit

(* At the start no script has run. *)
LEMMA LimInit == SInit => LimInv
<1> SUFFICES ASSUME SInit PROVE LimInv  OBVIOUS
<1>1. /\ now = 0 /\ zset = [k \in Key |-> {}] /\ expireAt = [k \in Key |-> 0]
      /\ at = [r \in Request |-> "new"] /\ read = [r \in Request |-> 0]
      /\ claims = {} /\ ontime = {}
  BY Zenon DEF SInit, LimiterInit
<1>2. IsFiniteSet({}) /\ Cardinality({}) = 0  BY Zenon, FS_EmptySet
<1>3. \A k \in Key, t \in Instant :
        {r \in ontime : KeyOf[r] = k /\ InWindow(read[r], t) /\ read[r] <= t} = {}
  BY Zenon, <1>1
<1>4. WithinLimit  BY <1>2, <1>3, LimiterAssumption DEF WithinLimit
<1> QED  BY <1>1, <1>2, <1>4 DEF LimInv

(* A step that runs no script. *)
LEMMA NoScript ==
  ASSUME LimInv, now' \in Nat, now' >= now,
         at' \in [Request -> {"new", "eval", "served", "429"}],
         \A r \in Request : at'[r] = "new" => at[r] = "new",
         read' \in [Request -> Nat],
         \A r \in Request : read'[r] = read[r] \/ (at[r] = "new" /\ read'[r] = now),
         UNCHANGED <<zset, expireAt, claims, ontime>>
  PROVE  LimInv'
<1>1. \A q \in claims : q \in Request /\ read'[q] = read[q] /\ at'[q] # "new"
  BY Zenon DEF LimInv
<1>2. \A q \in ontime : q \in claims  BY Zenon DEF LimInv
<1>3. \A r \in Request : read'[r] <= now'  BY DEF LimInv
<1>4. \A k \in Key : \A m \in zset'[k] : \E q \in claims' : KeyOf[q] = k /\ read'[q] = m
  BY <1>1 DEF LimInv
<1>5. ASSUME NEW q \in ontime
      PROVE  /\ Second(expireAt'[KeyOf[q]]) >= Second(read'[q]) + WindowSecs
             /\ Second(now') < Second(read'[q]) + WindowSecs => read'[q] \in zset'[KeyOf[q]]
  <2>1. read'[q] = read[q] /\ read[q] \in Nat  BY Zenon, <1>1, <1>2 DEF LimInv
  <2>2. now \in Nat /\ Second(now) <= Second(now')  BY Zenon, SecondMonotone DEF LimInv
  <2>3. Second(now) \in Nat /\ Second(now') \in Nat /\ Second(read[q]) \in Nat
    BY Zenon, <2>1, <2>2, SecondType
  <2>4. /\ Second(expireAt[KeyOf[q]]) >= Second(read[q]) + WindowSecs
        /\ Second(now) < Second(read[q]) + WindowSecs => read[q] \in zset[KeyOf[q]]
    BY Zenon DEF LimInv
  <2> QED  BY <2>1, <2>2, <2>3, <2>4, LimiterAssumption DEF Second
<1>6. \A q, r \in ontime : q # r /\ KeyOf[q] = KeyOf[r] => read'[q] # read'[r]
  BY <1>1, <1>2 DEF LimInv
<1>7. WithinLimit'
  <2> SUFFICES ASSUME NEW k \in Key, NEW t \in Instant
               PROVE  Cardinality({r \in ontime : KeyOf[r] = k /\ InWindow(read'[r], t) /\ read'[r] <= t}) <= RateLimit
    BY Zenon DEF WithinLimit, InWindow, Second, Instant
  <2>1. {r \in ontime : KeyOf[r] = k /\ InWindow(read'[r], t) /\ read'[r] <= t}
        = {r \in ontime : KeyOf[r] = k /\ InWindow(read[r], t) /\ read[r] <= t}
    BY Zenon, <1>1, <1>2
  <2> QED  BY <2>1 DEF LimInv, WithinLimit
<1> QED  BY Zenon, <1>1, <1>3, <1>4, <1>5, <1>6, <1>7 DEF LimInv
(* The set that a script counts: what is left of the entries of its key.    *)
(* An entry made on time in the window of the clock is in it.               *)
LEMMA PrunedKeeps ==
  ASSUME LimInv, NEW r \in Request
  PROVE  /\ KeyOf[r] \in Key
         /\ Pruned(KeyOf[r], read[r]) \subseteq zset[KeyOf[r]]
         /\ IsFiniteSet(Pruned(KeyOf[r], read[r]))
         /\ \A m \in Pruned(KeyOf[r], read[r]) : InWindow(m, read[r])
         /\ \A q \in ontime :
              KeyOf[q] = KeyOf[r] /\ Second(now) < Second(read[q]) + WindowSecs
              => read[q] \in Pruned(KeyOf[r], read[r])
<1> DEFINE k == KeyOf[r]
<1>1. k \in Key  BY Zenon, LimiterAssumption
<1>2. Pruned(k, read[r]) \subseteq zset[k] /\ \A m \in Pruned(k, read[r]) : InWindow(m, read[r])
  BY Zenon DEF Pruned, Entries
<1>3. IsFiniteSet(Pruned(k, read[r]))
  BY <1>1, <1>2, FS_Subset DEF LimInv
<1>4. ASSUME NEW q \in ontime, KeyOf[q] = k, Second(now) < Second(read[q]) + WindowSecs
      PROVE  read[q] \in Pruned(k, read[r])
  <2>1. q \in Request /\ now \in Nat /\ expireAt[k] \in Nat /\ read[q] \in Nat
        /\ read[r] \in Nat /\ read[r] <= now
    BY Zenon, <1>1 DEF LimInv
  <2>2. read[q] \in zset[k] /\ Second(expireAt[k]) >= Second(read[q]) + WindowSecs
    BY Zenon, <1>4 DEF LimInv
  <2>3. /\ Second(now) \in Nat /\ Second(expireAt[k]) \in Nat
        /\ Second(read[q]) \in Nat /\ Second(read[r]) \in Nat
    BY Zenon, <2>1, SecondType
  <2>4. now < expireAt[k]
    <3>1. SUFFICES ASSUME expireAt[k] <= now PROVE FALSE  BY <2>1
    <3>2. Second(expireAt[k]) <= Second(now)  BY Zenon, <2>1, <3>1, SecondMonotone
    <3> QED  BY <1>4, <2>2, <2>3, <3>2, LimiterAssumption
  <2>5. Second(read[r]) <= Second(now)  BY Zenon, <2>1, SecondMonotone
  <2>6. InWindow(read[q], read[r])
    BY <1>4, <2>3, <2>5, LimiterAssumption DEF InWindow
  <2> QED  BY Zenon, <2>2, <2>4, <2>6 DEF Pruned, Entries
<1> QED  BY Zenon, <1>1, <1>2, <1>3, <1>4
(* A script keeps the invariant, whether it adds an entry or not, and       *)
(* whether its answer arrives or not.                                       *)
LEMMA ScriptKeeps ==
  ASSUME LimInv, NEW r \in Request, at[r] = "eval",
         NEW allowed \in BOOLEAN, rateLimitScript(r, allowed),
         UNCHANGED <<now, read>>,
         at' \in [Request -> {"new", "eval", "served", "429"}],
         \A q \in Request : at'[q] = "new" => at[q] = "new"
  PROVE  LimInv'
<1> DEFINE k == KeyOf[r]
           s == Pruned(k, read[r])
           e == IF allowed THEN s \union {read[r]} ELSE s
           add == allowed /\ Second(read[r]) = Second(now) /\ read[r] \notin s
<1>1. /\ k \in Key /\ s \subseteq zset[k] /\ IsFiniteSet(s)
      /\ \A q \in ontime : KeyOf[q] = k /\ Second(now) < Second(read[q]) + WindowSecs
                            => read[q] \in s
  BY PrunedKeeps, Zenon
<1>2. /\ allowed = ~Full(s)
      /\ zset' = [zset EXCEPT ![k] = e]
      /\ expireAt' = [expireAt EXCEPT ![k] = IF allowed THEN now + Lifetime ELSE @]
      /\ claims' = IF allowed THEN claims \union {r} ELSE claims
      /\ ontime' = IF add THEN ontime \union {r} ELSE ontime
  BY Zenon DEF rateLimitScript
<1> HIDE DEF k, s
<1>3. /\ now \in Nat /\ read[r] \in Nat /\ read[r] <= now /\ zset[k] \subseteq Nat
      /\ WindowSecs \in Nat \ {0} /\ Lifetime \in Nat /\ RateLimit \in Nat
      /\ Lifetime = WindowSecs * PerSecond
  BY <1>1, LimiterAssumption DEF LimInv, Lifetime
<1>4. e \subseteq Nat /\ IsFiniteSet(e) /\ s \subseteq e
  BY Zenon, <1>1, <1>3, FS_AddElement
<1>5. /\ zset' \in [Key -> SUBSET Nat] /\ zset'[k] = e
      /\ \A l \in Key \ {k} : zset'[l] = zset[l]
      /\ expireAt' \in [Key -> Nat]
      /\ \A l \in Key \ {k} : expireAt'[l] = expireAt[l]
      /\ expireAt'[k] = expireAt[k] \/ expireAt'[k] = now + WindowSecs * PerSecond
      /\ allowed => expireAt'[k] = now + WindowSecs * PerSecond
  <2> HIDE DEF e
  <2>1. /\ zset' \in [Key -> SUBSET Nat] /\ zset'[k] = e
        /\ \A l \in Key \ {k} : zset'[l] = zset[l]
    BY <1>1, <1>2, <1>4 DEF LimInv
  <2>2. CASE allowed
    <3>1. expireAt' = [expireAt EXCEPT ![k] = now + Lifetime]  BY <1>2, <2>2, Zenon
    <3> QED  BY <1>1, <1>3, <2>1, <3>1 DEF LimInv
  <2>3. CASE ~allowed
    <3>1. expireAt' = [expireAt EXCEPT ![k] = @]  BY Zenon, <1>2, <2>3
    <3> QED  BY <1>1, <1>3, <2>1, <2>3, <3>1 DEF LimInv
  <2> QED  BY Zenon, <2>2, <2>3
<1>6. \A l \in Key : IsFiniteSet(zset'[l])
  BY <1>4, <1>5 DEF LimInv
<1>7. /\ claims' \subseteq Request /\ IsFiniteSet(claims') /\ claims \subseteq claims'
      /\ ontime' \subseteq claims' /\ ontime \subseteq ontime'
      /\ allowed => r \in claims'
      /\ \A q \in claims' : at'[q] # "new"
  <2>1. IsFiniteSet(claims')  BY <1>2, FS_AddElement, Zenon DEF LimInv
  <2>2. claims \subseteq Request /\ ontime \subseteq claims /\ \A q \in claims : at[q] # "new"
    BY Zenon DEF LimInv
  <2> QED  BY Zenon, <1>2, <2>1, <2>2
<1>8. ASSUME NEW l \in Key, NEW m \in zset'[l]
      PROVE  \E q \in claims' : KeyOf[q] = l /\ read'[q] = m
  <2>1. CASE m \in zset[l]
    BY <1>7, <2>1 DEF LimInv
  <2>2. CASE m \notin zset[l]
    <3>1. l = k /\ m \in e /\ m \notin s  BY <1>1, <1>5, <1>8, <2>2
    <3>2. allowed /\ m = read[r]  BY Zenon, <3>1
    <3> QED  BY Zenon, <1>7, <3>1, <3>2 DEF k
  <2> QED  BY Zenon, <2>1, <2>2
<1>9. ASSUME NEW q \in ontime'
      PROVE  /\ Second(expireAt'[KeyOf[q]]) >= Second(read[q]) + WindowSecs
             /\ Second(now) < Second(read[q]) + WindowSecs => read[q] \in zset'[KeyOf[q]]
  <2>1. q \in Request /\ KeyOf[q] \in Key /\ read[q] \in Nat /\ read[q] <= now
    BY Zenon, <1>7, LimiterAssumption DEF LimInv
  <2>2. /\ Second(read[q]) \in Nat /\ Second(now) \in Nat
        /\ Second(read[q]) <= Second(now) /\ Second(expireAt'[KeyOf[q]]) \in Nat
    BY Zenon, <1>3, <1>5, <2>1, SecondType, SecondMonotone
  <2>3. expireAt'[k] = now + WindowSecs * PerSecond => Second(expireAt'[k]) >= Second(now) + WindowSecs
    <3>1. SUFFICES ASSUME expireAt'[k] = now + WindowSecs * PerSecond
                   PROVE  Second(expireAt'[k]) >= Second(now) + WindowSecs
      BY Zenon
    <3>2. expireAt'[k] \in Nat /\ expireAt'[k] >= now + WindowSecs * PerSecond
      BY <1>1, <1>3, <1>5, <3>1
    <3> QED  BY Zenon, <1>3, <3>2, SecondLater
  <2>4. CASE q \in ontime
    <3>1. /\ Second(expireAt[KeyOf[q]]) >= Second(read[q]) + WindowSecs
          /\ Second(now) < Second(read[q]) + WindowSecs => read[q] \in zset[KeyOf[q]]
      BY Zenon, <2>4 DEF LimInv
    <3>2. CASE KeyOf[q] # k
      <4>1. expireAt'[KeyOf[q]] = expireAt[KeyOf[q]] /\ zset'[KeyOf[q]] = zset[KeyOf[q]]
        BY Zenon, <1>5, <2>1, <3>2
      <4> QED  BY Zenon, <3>1, <4>1
    <3>3. CASE KeyOf[q] = k
      <4>1. Second(now) < Second(read[q]) + WindowSecs => read[q] \in zset'[k]
        <5> HIDE DEF e
        <5> QED  BY <1>1, <1>4, <1>5, <2>4, <3>3, Zenon
      <4>2. CASE expireAt'[k] = expireAt[k]
        BY Zenon, <3>1, <3>3, <4>1, <4>2
      <4>3. CASE expireAt'[k] = now + WindowSecs * PerSecond
        BY <1>3, <2>2, <2>3, <3>3, <4>1, <4>3
      <4> QED  BY Zenon, <1>5, <4>2, <4>3
    <3> QED  BY Zenon, <3>2, <3>3
  <2>5. CASE q \notin ontime
    <3>1. q = r /\ allowed  BY Zenon, <1>2, <2>5
    <3>2. read[q] \in zset'[k] /\ KeyOf[q] = k  BY Zenon, <1>5, <3>1 DEF k
    <3> QED  BY <1>3, <1>5, <2>2, <2>3, <3>1, <3>2
  <2> QED  BY Zenon, <2>4, <2>5
<1>10. ASSUME add, NEW q \in ontime, KeyOf[q] = k PROVE read[q] # read[r]
  <2>1. Second(read[r]) \in Nat  BY Zenon, <1>3, SecondType
  <2> QED  BY <1>1, <1>3, <1>10, <2>1
<1>11. \A p, q \in ontime' : p # q /\ KeyOf[p] = KeyOf[q] => read'[p] # read'[q]
  <2> HIDE DEF add
  <2> QED  BY <1>2, <1>10 DEF LimInv, k
<1>12. WithinLimit'
  <2> DEFINE W(l, t) == {q \in ontime : KeyOf[q] = l /\ InWindow(read[q], t) /\ read[q] <= t}
             V(l, t) == {q \in ontime' : KeyOf[q] = l /\ InWindow(read[q], t) /\ read[q] <= t}
  <2>1. SUFFICES ASSUME NEW l \in Key, NEW t \in Instant PROVE Cardinality(V(l, t)) <= RateLimit
    BY Zenon, <2>1 DEF WithinLimit, InWindow, Second, Instant
  <2>2. Cardinality(W(l, t)) <= RateLimit  BY DEF LimInv, WithinLimit
  <2>3. CASE V(l, t) = W(l, t)
    BY Zenon, <2>2, <2>3
  <2>4. CASE V(l, t) # W(l, t)
    <3>1. /\ add /\ l = k /\ InWindow(read[r], t) /\ read[r] <= t
          /\ V(l, t) = W(l, t) \union {r}
      BY Zenon, <1>2, <2>4 DEF k
    <3>2. t \in Nat /\ Second(read[r]) <= Second(t) /\ Second(t) \in Nat
      BY <1>3, <3>1, SecondMonotone, SecondType, LimiterAssumption DEF Instant
    <3>3. ASSUME NEW q \in W(l, t) PROVE read[q] \in s
      <4>1. q \in ontime /\ KeyOf[q] = k /\ Second(read[q]) + WindowSecs > Second(t)
        BY Zenon, <3>1, <3>3 DEF InWindow
      <4>2. Second(now) = Second(read[r])  BY Zenon, <3>1
      <4>3. q \in Request /\ read[q] \in Nat  BY Zenon, <4>1 DEF LimInv
      <4>4. Second(read[q]) \in Nat /\ Second(now) \in Nat  BY Zenon, <1>3, <4>3, SecondType
      <4>5. Second(now) < Second(read[q]) + WindowSecs
        BY <1>3, <3>2, <4>1, <4>2, <4>4
      <4> QED  BY Zenon, <1>1, <4>1, <4>5
    <3>4. IsFiniteSet(W(l, t))
      <4>1. W(l, t) \in SUBSET claims /\ IsFiniteSet(claims)  BY Zenon DEF LimInv
      <4> HIDE DEF W
      <4> QED  BY Zenon, <4>1, FS_Subset
    <3>5. \A p, q \in W(l, t) : p # q => read[p] # read[q]
      BY DEF LimInv
    <3>6. Cardinality(W(l, t)) <= Cardinality(s)
      <4> HIDE DEF W
      <4> QED  BY Zenon, <1>1, <3>3, <3>4, <3>5, Injects
    <3>7. ~(Cardinality(s) >= RateLimit)  BY <1>2, <3>1, Zenon DEF Full
    <3> HIDE DEF W
    <3>8. /\ Cardinality(W(l, t)) \in Nat /\ Cardinality(s) \in Nat
          /\ Cardinality(W(l, t) \union {r}) =
               IF r \in W(l, t) THEN Cardinality(W(l, t)) ELSE Cardinality(W(l, t)) + 1
      BY Zenon, <1>1, <3>4, FS_CardinalityType, FS_AddElement
    <3>9. Cardinality(W(l, t) \union {r}) <= RateLimit
      BY <1>3, <3>6, <3>7, <3>8, SMTT(30)
    <3>10. V(l, t) = W(l, t) \union {r}  BY Zenon, <3>1
    <3> HIDE DEF V
    <3> QED  BY Zenon, <3>9, <3>10
  <2> QED  BY Zenon, <2>3, <2>4
<1>13. \A q \in Request : read'[q] <= now'  BY Zenon DEF LimInv
<1>14. \A q \in ontime' :
         /\ Second(expireAt'[KeyOf[q]]) >= Second(read'[q]) + WindowSecs
         /\ Second(now') < Second(read'[q]) + WindowSecs => read'[q] \in zset'[KeyOf[q]]
  BY Zenon, <1>9
<1>15. now' \in Nat /\ read' \in [Request -> Nat]  BY DEF LimInv
<1> QED  BY Zenon, <1>5, <1>6, <1>7, <1>8, <1>11, <1>12, <1>13, <1>14, <1>15 DEF LimInv

(* Every step keeps the invariant of the limiter. *)
LEMMA LimStep == LimInv /\ [SNext]_allVars => LimInv'
<1> SUFFICES ASSUME LimInv, [SNext]_allVars PROVE LimInv'  OBVIOUS
<1> DEFINE Place == {"new", "eval", "served", "429"}
<1>1. now \in Nat /\ at \in [Request -> Place] /\ read \in [Request -> Nat]  BY Zenon DEF LimInv
<1>2. CASE Clock
  BY <1>1, <1>2, NoScript DEF Clock, Advance
<1>3. CASE UNCHANGED <<now, limiter>>
  BY <1>1, <1>3, NoScript DEF limiter
<1>4. ASSUME NEW r \in Request, NEW p \in Place \ {"new"}, Go(r, p)
      PROVE  at' \in [Request -> Place] /\ \A q \in Request : at'[q] = "new" => at[q] = "new"
  BY Zenon, <1>1, <1>4 DEF Go
<1>5. ASSUME NEW r \in Request, Limited(r) PROVE LimInv'
  <2>1. CASE ReadClock(r)
    <3>1. at' \in [Request -> Place] /\ \A q \in Request : at'[q] = "new" => at[q] = "new"
      BY Zenon, <1>4, <2>1 DEF ReadClock
    <3>2. /\ read' \in [Request -> Nat]
          /\ \A q \in Request : read'[q] = read[q] \/ (at[q] = "new" /\ read'[q] = now)
      BY Zenon, <1>1, <2>1 DEF ReadClock
    <3>3. UNCHANGED <<now, zset, expireAt, claims, ontime>>  BY Zenon, <2>1 DEF ReadClock
    <3> QED  BY <1>1, <3>1, <3>2, <3>3, NoScript
  <2>2. CASE Eval(r)
    <3>1. PICK allowed \in BOOLEAN :
            rateLimitScript(r, allowed) /\ Go(r, IF allowed THEN "served" ELSE "429")
      BY Zenon, <2>2 DEF Eval
    <3>2. at' \in [Request -> Place] /\ \A q \in Request : at'[q] = "new" => at[q] = "new"
      BY Zenon, <1>4, <3>1
    <3>3. at[r] = "eval" /\ UNCHANGED <<now, read>>  BY Zenon, <2>2 DEF Eval
    <3> QED  BY Zenon, <3>1, <3>2, <3>3, ScriptKeeps
  <2>3. CASE FailOpen(r)
    <3>1. at' \in [Request -> Place] /\ \A q \in Request : at'[q] = "new" => at[q] = "new"
      BY Zenon, <1>4, <2>3 DEF FailOpen
    <3>2. UNCHANGED <<now, read, zset, expireAt, claims, ontime>>  BY Zenon, <2>3 DEF FailOpen
    <3> QED  BY <1>1, <3>1, <3>2, NoScript
  <2>4. CASE ScriptAnswerLost(r)
    <3>1. PICK allowed \in BOOLEAN : rateLimitScript(r, allowed)
      BY Zenon, <2>4 DEF ScriptAnswerLost
    <3>2. at' \in [Request -> Place] /\ \A q \in Request : at'[q] = "new" => at[q] = "new"
      BY Zenon, <1>4, <2>4 DEF ScriptAnswerLost
    <3>3. at[r] = "eval" /\ UNCHANGED <<now, read>>  BY Zenon, <2>4 DEF ScriptAnswerLost
    <3> QED  BY Zenon, <3>1, <3>2, <3>3, ScriptKeeps
  <2> QED  BY Zenon, <1>5, <2>1, <2>2, <2>3, <2>4 DEF Limited, Allow
<1>6. ASSUME NEW r \in Request, Unlimited(r) PROVE LimInv'
  <2>1. at' \in [Request -> Place] /\ \A q \in Request : at'[q] = "new" => at[q] = "new"
    BY Zenon, <1>4, <1>6 DEF Unlimited
  <2>2. UNCHANGED <<now, read, zset, expireAt, claims, ontime>>  BY Zenon, <1>6 DEF Unlimited
  <2> QED  BY <1>1, <2>1, <2>2, NoScript
<1>7. ASSUME NEW r \in Request, Authenticate(r) \/ AuthenticateAPIKey(r)
      PROVE  UNCHANGED <<now, limiter>>
  BY Zenon, <1>7 DEF Authenticate, AuthenticateAPIKey, CheckHeaders, Lookup, LookupError,
              CheckNonce, NonceFailOpen, NonceAnswerLost
<1>8. ASSUME NEW k, RetireKey(k) PROVE UNCHANGED <<now, limiter>>
  BY Zenon, <1>8 DEF RetireKey
<1>9. ASSUME UNCHANGED allVars PROVE UNCHANGED <<now, limiter>>
  BY <1>9 DEF allVars
<1> QED  BY <1>2, <1>3, <1>5, <1>6, <1>7, <1>8, <1>9, Zenon DEF SNext, AllAnswered

(* The limit holds in every window, for every limit, window, key and        *)
(* number of requests, whatever calls and answers are lost                  *)
(* (ratelimit.go: rateLimitScript, Allow).                                  *)
THEOREM LimitHolds == SSpec => []WithinLimit
<1>1. LimInv => WithinLimit  BY Zenon DEF LimInv
<1> QED  BY LimInit, LimStep, <1>1, PTL DEF SSpec

(* Only the script denies, and each entry it counts was claimed by a        *)
(* request of its own.                                                      *)
LEMMA DenialCounts ==
  ASSUME LimInv, [SNext]_allVars, NEW r \in Request, at[r] = "eval", at'[r] = "429"
  PROVE  Cardinality({q \in claims : KeyOf[q] = KeyOf[r] /\ InWindow(read[q], read[r])}) >= RateLimit
<1> DEFINE s == Pruned(KeyOf[r], read[r])
           C == {q \in claims : KeyOf[q] = KeyOf[r] /\ InWindow(read[q], read[r])}
<1>1. ASSUME NEW q \in Request, NEW p, Go(q, p) PROVE q = r /\ p = "429"
  BY <1>1 DEF Go, LimInv
<1>2. Eval(r)
  <2>1. ASSUME NEW q \in Request, Limited(q) PROVE Eval(r)
    <3>1. ReadClock(q) \/ FailOpen(q) \/ ScriptAnswerLost(q) \/ Eval(q)  BY Zenon, <2>1 DEF Limited, Allow
    <3>2. ReadClock(q) => Go(q, "eval")  BY Zenon DEF ReadClock
    <3>3. FailOpen(q) => Go(q, "served")  BY Zenon DEF FailOpen
    <3>4. ScriptAnswerLost(q) => Go(q, "served") \/ Go(q, "eval")  BY Zenon DEF ScriptAnswerLost
    <3>5. Eval(q) => q = r
      <4>1. SUFFICES ASSUME Eval(q) PROVE q = r  BY Zenon
      <4>2. PICK allowed \in BOOLEAN : Go(q, IF allowed THEN "served" ELSE "429")
        BY Zenon, <4>1 DEF Eval
      <4> QED  BY Zenon, <1>1, <4>2
    <3> QED  BY <1>1, <3>1, <3>2, <3>3, <3>4, <3>5
  <2>2. ASSUME NEW q \in Request, Unlimited(q) PROVE FALSE
    BY Zenon, <1>1, <2>2 DEF Unlimited
  <2>3. at' # at  BY Zenon
  <2>4. ASSUME NEW q \in Request, Authenticate(q) \/ AuthenticateAPIKey(q) PROVE at' = at
    <3>1. UNCHANGED limiter
      BY <2>4, Zenon DEF Authenticate, AuthenticateAPIKey, CheckHeaders, Lookup, LookupError,
                         CheckNonce, NonceFailOpen, NonceAnswerLost
    <3> QED  BY <3>1 DEF limiter
  <2>5. ASSUME NEW k, RetireKey(k) PROVE at' = at  BY Zenon, <2>5 DEF RetireKey, limiter
  <2>6. Clock \/ UNCHANGED allVars => at' = at  BY DEF Clock, Advance, allVars, limiter
  <2> QED  BY <2>1, <2>2, <2>3, <2>4, <2>5, <2>6, Zenon DEF SNext, AllAnswered
<1>3. Full(s)
  <2>1. PICK allowed \in BOOLEAN :
          rateLimitScript(r, allowed) /\ Go(r, IF allowed THEN "served" ELSE "429")
    BY Zenon, <1>2 DEF Eval
  <2>2. (IF allowed THEN "served" ELSE "429") = "429"  BY Zenon, <1>1, <2>1
  <2>3. ~allowed  BY Zenon, <2>2
  <2>4. allowed = ~Full(s)  BY Zenon, <2>1 DEF rateLimitScript
  <2> QED  BY <2>3, <2>4, Zenon DEF Full
<1>4. IsFiniteSet(s) /\ KeyOf[r] \in Key /\ s \subseteq zset[KeyOf[r]]
      /\ \A m \in s : InWindow(m, read[r])
  BY Zenon, PrunedKeeps
<1>5. \A m \in s : \E q \in C : read[q] = m
  <2> HIDE DEF s
  <2> QED  BY <1>4 DEF LimInv
<1>6. IsFiniteSet(C)
  <2>1. C \in SUBSET claims /\ IsFiniteSet(claims)  BY Zenon DEF LimInv
  <2> HIDE DEF C
  <2> QED  BY Zenon, <2>1, FS_Subset
<1>7. Cardinality(C) >= RateLimit
  <2>1. Cardinality(s) >= RateLimit  BY Zenon, <1>3 DEF Full
  <2> HIDE DEF s, C
  <2>2. Cardinality(s) <= Cardinality(C)  BY Zenon, <1>4, <1>5, <1>6, Covers
  <2>3. Cardinality(s) \in Nat /\ Cardinality(C) \in Nat  BY <1>4, <1>6, FS_CardinalityType
  <2> QED  BY <2>1, <2>2, <2>3, LimiterAssumption
<1> QED  BY Zenon, <1>7

(* A request is denied only when its own key has used its slots in the      *)
(* window of the request (ratelimit.go: rateLimitScript, Allow).            *)
THEOREM DeniesOnlyWhenFull == SSpec => DeniedWhenFull
<1> DEFINE A == \A r \in Request : at[r] = "eval" /\ at'[r] = "429" =>
                  Cardinality({q \in claims : /\ KeyOf[q] = KeyOf[r]
                                              /\ InWindow(read[q], read[r])}) >= RateLimit
<1>1. LimInv /\ [SNext]_allVars => [A]_limiterVars
  <2> SUFFICES ASSUME LimInv, [SNext]_allVars PROVE A  OBVIOUS
  <2> QED  BY Zenon, DenialCounts
<1>2. LimInv /\ [SNext]_allVars => LimInv'  BY LimStep
<1> QED  BY LimInit, <1>1, <1>2, PTL DEF SSpec, DeniedWhenFull
=============================================================================
