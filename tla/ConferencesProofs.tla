------------------------- MODULE ConferencesProofs -------------------------
(***************************************************************************)
(* Proofs about apps, their keys, conferences and share tokens in the      *)
(* query API, for every set of apps, requests, connections and tokens, and *)
(* any number of faults.                                                   *)
(***************************************************************************)
EXTENDS Conferences, TLAPS

-----------------------------------------------------------------------------
(* Requests for the keys of an app. *)
KeyOp == WriteOp \union {"answer"}
Field == {"server", "client"}

ListField == {"op", "app", "page", "seen", "full", "first"}

Request(x) ==
  /\ x.op \in KeyOp => x.app \in App
  /\ x.op = "answer" => x.field \in Field /\ x.key \in Nat
  /\ x.op = "list" => x = [f \in ListField |-> x[f]]

KeyType ==
  /\ app \in [App -> {"none", "live", "deleted"}]
  /\ server \in [App -> Nat]
  /\ client \in [App -> Nat]
  /\ told \in [App -> [server : Nat, client : Nat]]
  /\ keys \in Nat
  /\ slot = [s \in Slot |-> slot[s]]
  /\ \A s \in Slot : Request(slot[s])

(* The row has what callers were told, or are about to be told. *)
Answers(s, a, f) == On(s, a) /\ slot[s].op = "answer" /\ slot[s].field = f

Settled(a, f, row, heard) ==
  /\ (\A s \in Slot : ~Answers(s, a, f)) => heard = row
  /\ \A s \in Slot : Answers(s, a, f) => slot[s].key = row

(* What is known of an app with one request at a time, all of them answered. *)
Agrees(a) ==
  /\ \A s, t \in Slot : On(s, a) /\ On(t, a) => s = t
  /\ Settled(a, "server", server[a], told[a].server)
  /\ Settled(a, "client", client[a], told[a].client)

Unused(a) ==
  /\ \A s \in Slot : ~On(s, a)
  /\ server[a] = NoKey /\ client[a] = NoKey
  /\ told[a].server = NoKey /\ told[a].client = NoKey

Calm(a) == app[a] = "live" /\ a \notin raced \union unsure

KeyInv ==
  /\ KeyType
  /\ \A a \in App : (app[a] = "none" => Unused(a)) /\ (Calm(a) => Agrees(a))

(* A step of the handler in slot s that concerns no app but b. *)
SlotStep(s) ==
  /\ slot' = [t \in Slot |-> slot'[t]]
  /\ \A t \in Slot \ {s} : slot'[t] = slot[t]

Concerns(s, b) ==
  /\ SlotStep(s)
  /\ \A c \in App \ {b} :
       /\ ~On(s, c) /\ ~On(s, c)'
       /\ app'[c] = app[c] /\ server'[c] = server[c] /\ client'[c] = client[c]
       /\ told'[c] = told[c]
  /\ raced \subseteq raced' /\ unsure \subseteq unsure'

(* A step of one request keeps what it leaves alone. *)
LEMMA KeyStep ==
  ASSUME KeyInv, NEW s \in Slot, NEW b \in App, Concerns(s, b), KeyType',
         app'[b] = "none" => Unused(b)', Calm(b)' => Agrees(b)'
  PROVE  KeyInv'
<1>1. ASSUME NEW c \in App, c # b
      PROVE  (app'[c] = "none" => Unused(c)') /\ (Calm(c)' => Agrees(c)')
  <2>1. \A t \in Slot : On(t, c)' <=> On(t, c)
    <3>1. ASSUME NEW t \in Slot, t # s PROVE On(t, c)' <=> On(t, c)
      BY <3>1 DEF Concerns, SlotStep, On
    <3>2. ~On(s, c) /\ ~On(s, c)'  BY <1>1 DEF Concerns
    <3> QED  BY <3>1, <3>2
  <2>2. \A t \in Slot : On(t, c) => slot'[t] = slot[t]
    BY <1>1 DEF Concerns, SlotStep
  <2>3. \A t \in Slot, f \in Field : Answers(t, c, f)' <=> Answers(t, c, f)
    BY <2>1, <2>2 DEF Answers
  <2>4. Calm(c)' => Calm(c)  BY <1>1 DEF Calm, Concerns
  <2>5. /\ server'[c] = server[c] /\ client'[c] = client[c] /\ told'[c] = told[c]
        /\ app'[c] = app[c]
    BY <1>1 DEF Concerns
  <2>6. ASSUME NEW f \in Field, NEW row, NEW heard, Settled(c, f, row, heard)
        PROVE  Settled(c, f, row, heard)'
    <3>1. (\A t \in Slot : ~Answers(t, c, f)') => heard = row  BY <2>3, <2>6 DEF Settled
    <3>2. \A t \in Slot : Answers(t, c, f)' => slot'[t].key = row
      BY Zenon, <2>2, <2>3, <2>6 DEF Settled, Answers
    <3> QED  BY <3>1, <3>2 DEF Settled
  <2>7. Agrees(c) => Agrees(c)'
    <3> SUFFICES ASSUME Agrees(c) PROVE Agrees(c)'  OBVIOUS
    <3>1. \A t, u \in Slot : On(t, c)' /\ On(u, c)' => t = u  BY <2>1 DEF Agrees
    <3>2. Settled(c, "server", server[c], told[c].server)'
      BY Zenon, <2>5, <2>6 DEF Agrees, Field
    <3>3. Settled(c, "client", client[c], told[c].client)'
      BY Zenon, <2>5, <2>6 DEF Agrees, Field
    <3> QED  BY <3>1, <3>2, <3>3 DEF Agrees
  <2>8. Unused(c) => Unused(c)'  BY Zenon, <2>1, <2>5 DEF Unused
  <2> QED  BY <2>4, <2>5, <2>7, <2>8 DEF KeyInv
<1> QED  BY <1>1 DEF KeyInv

(* The types after a step of slot s. *)
LEMMA KeyTypeStep ==
  ASSUME KeyType, NEW s \in Slot, SlotStep(s),
         Request(slot'[s]),
         app' \in [App -> {"none", "live", "deleted"}], server' \in [App -> Nat],
         client' \in [App -> Nat], told' \in [App -> [server : Nat, client : Nat]],
         keys' \in Nat
  PROVE  KeyType'
<1>1. ASSUME NEW t \in Slot PROVE Request(slot'[t])
  BY Zenon DEF KeyType, SlotStep
<1> QED  BY <1>1 DEF KeyType, SlotStep, Request

(* A request that has written nothing yet ends, or a request that is not for *)
(* keys goes on.                                                             *)
LEMMA KeyQuiet ==
  ASSUME KeyInv, NEW s \in Slot, NEW x, Put(s, x), x.op \notin KeyOp,
         Request(x), slot[s].op # "answer", keys' \in Nat,
         UNCHANGED <<app, server, client, told, raced, unsure>>
  PROVE  KeyInv'
<1>1. SlotStep(s) /\ slot'[s] = x  BY Zenon DEF KeyInv, KeyType, Put, SlotStep
<1>2. KeyType'  BY <1>1, KeyTypeStep DEF KeyInv, KeyType
<1>3. ASSUME NEW c \in App
      PROVE  (app'[c] = "none" => Unused(c)') /\ (Calm(c)' => Agrees(c)')
  <2>1. \A t \in Slot : On(t, c)' => On(t, c) /\ t # s
    BY <1>1 DEF SlotStep, On, KeyOp
  <2>2. \A t \in Slot, f \in Field : Answers(t, c, f)' <=> Answers(t, c, f)
    <3>1. ASSUME NEW t \in Slot, t # s, NEW f
          PROVE  Answers(t, c, f)' <=> Answers(t, c, f)
      BY <1>1, <3>1 DEF SlotStep, Answers, On
    <3>2. \A f : ~Answers(s, c, f) /\ ~Answers(s, c, f)'
      BY <2>1 DEF Answers
    <3> QED  BY <3>1, <3>2
  <2>3. ASSUME NEW f \in Field, NEW row, NEW heard, Settled(c, f, row, heard)
        PROVE  Settled(c, f, row, heard)'
    <3>1. (\A t \in Slot : ~Answers(t, c, f)') => heard = row  BY <2>2, <2>3 DEF Settled
    <3>2. \A t \in Slot : Answers(t, c, f)' => slot'[t].key = row
      BY <1>1, <2>1, <2>2, <2>3 DEF Settled, Answers, SlotStep
    <3> QED  BY <3>1, <3>2 DEF Settled
  <2>4. Agrees(c) => Agrees(c)'
    <3> SUFFICES ASSUME Agrees(c) PROVE Agrees(c)'  BY Zenon
    <3>1. \A t, u \in Slot : On(t, c)' /\ On(u, c)' => t = u  BY <2>1 DEF Agrees
    <3>2. Settled(c, "server", server[c], told[c].server)'  BY Zenon, <2>3 DEF Agrees, Field
    <3>3. Settled(c, "client", client[c], told[c].client)'  BY <2>3 DEF Agrees, Field
    <3> QED  BY <3>1, <3>2, <3>3 DEF Agrees
  <2>5. Unused(c) => Unused(c)'  BY <2>1 DEF Unused
  <2> QED  BY <2>4, <2>5 DEF KeyInv, Calm
<1> QED  BY <1>2, <1>3 DEF KeyInv

(* The first statement of a handler. *)
LEMMA KeyFound ==
  ASSUME KeyInv, NEW s \in Slot, NEW op \in WriteOp, NEW b \in App, Found(s, op, b)
  PROVE  KeyInv'
<1>1. /\ slot[s].op = "free" /\ slot' = [slot EXCEPT ![s] = [op |-> op, app |-> b]]
      /\ raced' = (IF \E t \in Slot : On(t, b) THEN raced \union {b} ELSE raced)
      /\ UNCHANGED <<app, server, client, keys, told, unsure>>
      /\ app[b] = "live"
  BY DEF Found, Put, Free
<1>2. SlotStep(s) /\ slot'[s].op = op /\ slot'[s].app = b
  BY <1>1 DEF KeyInv, KeyType, SlotStep
<1>3. "free" \notin KeyOp /\ op \in KeyOp /\ op # "answer"  BY Zenon DEF KeyOp, WriteOp
<1>4. KeyType'
  <2>1. Request(slot'[s])  BY <1>2, <1>3, Zenon DEF Request, WriteOp
  <2> QED  BY Zenon, <1>1, <1>2, <2>1, KeyTypeStep DEF KeyInv, KeyType
<1>5. Concerns(s, b)  BY Zenon, <1>1, <1>2, <1>3 DEF Concerns, On, KeyOp
<1>6. ASSUME Calm(b)' PROVE Agrees(b)'
  <2>1. \A t \in Slot : ~On(t, b)  BY <1>1, <1>6 DEF Calm
  <2>2. \A t \in Slot : On(t, b)' => t = s  BY Zenon, <1>2, <2>1 DEF SlotStep, On
  <2>3. \A t \in Slot, f \in Field : ~Answers(t, b, f) /\ ~Answers(t, b, f)'
    BY Zenon, <1>2, <1>3, <2>1, <2>2 DEF Answers
  <2>4. server[b] = told[b].server /\ client[b] = told[b].client
    BY Zenon, <1>1, <1>6, <2>3 DEF KeyInv, Calm, Agrees, Settled, Field
  <2> QED  BY Zenon, <1>1, <2>2, <2>3, <2>4 DEF Agrees, Settled, Field
<1> QED  BY Zenon, <1>1, <1>4, <1>5, <1>6, KeyStep

(* The row is written: the caller is about to be told what is in it. *)
LEMMA KeyWrote ==
  ASSUME KeyInv, NEW s \in Slot, NEW b \in App, NEW f \in Field, NEW k \in Nat,
         Put(s, [op |-> "answer", app |-> b, field |-> f, key |-> k]),
         UNCHANGED <<told, raced, unsure>>, keys' \in Nat,
         app' \in [App -> {"none", "live", "deleted"}], server' \in [App -> Nat],
         client' \in [App -> Nat],
         \A c \in App \ {b} : /\ ~On(s, c) /\ app'[c] = app[c]
                              /\ server'[c] = server[c] /\ client'[c] = client[c],
         app'[b] # "none",
         \/ app'[b] = "live" /\ app[b] = "live" /\ On(s, b) /\ slot[s].op # "answer"
         \/ app'[b] = "live" /\ app[b] = "none"
         \/ app'[b] = "deleted",
         app'[b] = "live" =>
           IF f = "server" THEN server'[b] = k /\ client'[b] = client[b]
                           ELSE client'[b] = k /\ server'[b] = server[b]
  PROVE  KeyInv'
<1>1. /\ SlotStep(s) /\ slot'[s].op = "answer" /\ slot'[s].app = b /\ slot'[s].field = f
      /\ slot'[s].key = k
  BY Zenon DEF KeyInv, KeyType, Put, SlotStep
<1>2. KeyType'
  <2>1. Request(slot'[s])  BY Zenon, <1>1 DEF Request
  <2> QED  BY Zenon, <1>1, <2>1, KeyTypeStep DEF KeyInv, KeyType
<1>3. Concerns(s, b)  BY Zenon, <1>1 DEF Concerns, On
<1>4. ASSUME Calm(b)' PROVE Agrees(b)'
  <2>1. app'[b] = "live" /\ b \notin raced \union unsure  BY Zenon, <1>4 DEF Calm
  <2>2. /\ \A t \in Slot : On(t, b) => t = s /\ slot[t].op # "answer"
        /\ server[b] = told[b].server /\ client[b] = told[b].client
    <3>1. CASE app[b] = "none"  BY Zenon, <3>1 DEF KeyInv, Unused
    <3>2. CASE app[b] = "live" /\ On(s, b) /\ slot[s].op # "answer"
      <4>1. Agrees(b)  BY Zenon, <2>1, <3>2 DEF KeyInv, Calm
      <4>2. \A t \in Slot : On(t, b) => t = s /\ slot[t].op # "answer"
        BY Zenon, <3>2, <4>1 DEF Agrees
      <4>3. \A t \in Slot, g \in Field : ~Answers(t, b, g)  BY Zenon, <4>2 DEF Answers
      <4> QED  BY Zenon, <4>1, <4>2, <4>3 DEF Agrees, Settled, Field
    <3> QED  BY Zenon, <2>1, <3>1, <3>2
  <2>3. \A t \in Slot : On(t, b)' => t = s  BY <1>1, <2>2 DEF SlotStep, On
  <2>4. \A t \in Slot, g \in Field : Answers(t, b, g)' <=> t = s /\ g = f
    BY Zenon, <1>1, <2>3 DEF Answers, On
  <2>5. CASE f = "server"
    <3>1. Settled(b, "server", server[b], told[b].server)'
      BY Zenon, <1>1, <2>1, <2>4, <2>5 DEF Settled, Field
    <3>2. Settled(b, "client", client[b], told[b].client)'
      BY Zenon, <1>1, <2>1, <2>2, <2>4, <2>5 DEF Settled, Field
    <3> QED  BY Zenon, <2>3, <3>1, <3>2 DEF Agrees
  <2>6. CASE f = "client"
    <3>1. Settled(b, "client", client[b], told[b].client)'
      BY Zenon, <1>1, <2>1, <2>4, <2>6 DEF Settled, Field
    <3>2. Settled(b, "server", server[b], told[b].server)'
      BY Zenon, <1>1, <2>1, <2>2, <2>4, <2>6 DEF Settled, Field
    <3> QED  BY Zenon, <2>3, <3>1, <3>2 DEF Agrees
  <2> QED  BY Zenon, <2>5, <2>6 DEF Field
<1> QED  BY Zenon, <1>2, <1>3, <1>4, KeyStep

(* Whose keys a request in progress is for. *)
LEMMA KeyOwner ==
  ASSUME KeyInv, NEW s \in Slot, slot[s].op \in KeyOp
  PROVE  /\ slot[s].app \in App /\ On(s, slot[s].app)
         /\ app[slot[s].app] \in {"live", "deleted"}
         /\ \A c \in App \ {slot[s].app} : ~On(s, c)
<1>1. slot[s].app \in App  BY DEF KeyInv, KeyType, Request
<1>2. On(s, slot[s].app)  BY Zenon DEF On, KeyOp
<1>3. app[slot[s].app] # "none"  BY Zenon, <1>1, <1>2 DEF KeyInv, Unused
<1> QED  BY Zenon, <1>1, <1>2, <1>3 DEF KeyInv, KeyType, On

(* A request that has written is over, for better or worse. *)
LEMMA KeyDone ==
  ASSUME KeyInv, NEW s \in Slot, Respond(s) \/ AnswerLost(s)
  PROVE  KeyInv'
<1>1. slot[s].op = "answer" /\ slot[s].op \in KeyOp  BY Zenon DEF Respond, AnswerLost, KeyOp
<1>2. PICK b \in App, f \in Field, k \in Nat :
        b = slot[s].app /\ f = slot[s].field /\ k = slot[s].key
  BY Zenon, <1>1 DEF KeyInv, KeyType, Request
<1>3. /\ On(s, b) /\ app[b] # "none" /\ \A c \in App \ {b} : ~On(s, c)
      /\ Answers(s, b, f)
  BY Zenon, <1>1, <1>2, KeyOwner DEF Answers
<1>4. SlotStep(s) /\ slot'[s].op = "free"
  BY DEF KeyInv, KeyType, Respond, AnswerLost, Put, SlotStep, Free
<1>5. \A c : ~On(s, c)'  BY Zenon, <1>4 DEF On, WriteOp
<1>6. UNCHANGED <<app, server, client, keys, raced>>  BY Zenon DEF Respond, AnswerLost
<1>7. /\ told' \in [App -> [server : Nat, client : Nat]] /\ unsure \subseteq unsure'
      /\ \A c \in App \ {b} : told'[c] = told[c]
  <2>1. CASE Respond(s)
    <3>1. told' = [told EXCEPT ![b][f] = k] /\ unsure' = unsure
      BY Zenon, <1>2, <2>1 DEF Respond
    <3>2. told \in [App -> [server : Nat, client : Nat]]  BY Zenon DEF KeyInv, KeyType
    <3>3. [told[b] EXCEPT ![f] = k] \in [server : Nat, client : Nat]
      BY Zenon, <1>2, <3>2 DEF Field
    <3> QED  BY Zenon, <1>2, <3>1, <3>2, <3>3
  <2>2. CASE AnswerLost(s)  BY <2>2 DEF AnswerLost, KeyInv, KeyType
  <2> QED  BY Zenon, <2>1, <2>2
<1>8. KeyType'
  <2>1. Request(slot'[s])  BY Zenon, <1>4 DEF Request, KeyOp, WriteOp
  <2> QED  BY <1>4, <1>6, <1>7, <2>1, KeyTypeStep, Zenon DEF KeyInv, KeyType
<1>9. Concerns(s, b)  BY Zenon, <1>3, <1>4, <1>5, <1>6, <1>7 DEF Concerns
<1>10. ASSUME Calm(b)' PROVE Agrees(b)'
  <2>1. Calm(b)  BY Zenon, <1>6, <1>7, <1>10 DEF Calm
  <2>2. Agrees(b)  BY Zenon, <1>2, <2>1 DEF KeyInv
  <2>3. Respond(s)
    <3>1. b \in unsure' => FALSE  BY Zenon, <1>10 DEF Calm
    <3> QED  BY Zenon, <1>2, <3>1 DEF AnswerLost
  <2>4. \A t \in Slot : On(t, b) => t = s  BY Zenon, <1>3, <2>2 DEF Agrees
  <2>5. \A t \in Slot : ~On(t, b)'
    BY Zenon, <1>4, <1>5, <2>4 DEF SlotStep, On
  <2>6. \A t \in Slot, g \in Field : /\ ~Answers(t, b, g)'
                                     /\ Answers(t, b, g) => t = s /\ g = f
    BY Zenon, <1>2, <2>4, <2>5 DEF Answers
  <2>7. told'[b] = [told[b] EXCEPT ![f] = k] /\ told[b] \in [server : Nat, client : Nat]
    BY Zenon, <1>2, <2>3 DEF Respond, KeyInv, KeyType
  <2>8. server'[b] = told'[b].server
    <3>1. CASE f = "server"
      <4>1. k = server[b]  BY Zenon, <1>2, <1>3, <2>2, <3>1 DEF Agrees, Settled
      <4> QED  BY Zenon, <1>6, <2>7, <3>1, <4>1
    <3>2. CASE f # "server"
      <4>1. told[b].server = server[b]  BY Zenon, <2>2, <2>6, <3>2 DEF Agrees, Settled, Field
      <4> QED  BY Zenon, <1>6, <2>7, <3>2, <4>1
    <3> QED  BY Zenon, <3>1, <3>2
  <2>9. client'[b] = told'[b].client
    <3>1. CASE f = "client"
      <4>1. k = client[b]  BY Zenon, <1>2, <1>3, <2>2, <3>1 DEF Agrees, Settled
      <4> QED  BY Zenon, <1>6, <2>7, <3>1, <4>1
    <3>2. CASE f # "client"
      <4>1. told[b].client = client[b]  BY Zenon, <2>2, <2>6, <3>2 DEF Agrees, Settled, Field
      <4> QED  BY Zenon, <1>6, <2>7, <3>2, <4>1
    <3> QED  BY Zenon, <3>1, <3>2
  <2> QED  BY Zenon, <2>5, <2>6, <2>8, <2>9 DEF Agrees, Settled, Field
<1> QED  BY Zenon, <1>2, <1>3, <1>6, <1>8, <1>9, <1>10, KeyStep

(* A step of a handler for something else than keys. *)
LEMMA KeyReads ==
  ASSUME KeyInv, NEW s \in Slot, NEW x, Reads(s, x), x.op \notin KeyOp,
         Request(x), slot[s].op # "answer"
  PROVE  KeyInv'
<1>1. keys' \in Nat  BY DEF Reads, KeyInv, KeyType
<1> QED  BY Zenon, <1>1, KeyQuiet DEF Reads

(* An idle slot holds no request for keys. *)
LEMMA FreeIsQuiet == Free.op \notin KeyOp /\ Request(Free) /\ Free.op = "free"
BY DEF Free, KeyOp, WriteOp, Request

(* What a slot holds between the two statements of a deletion. *)
LEMMA DeletesApp ==
  ASSUME NEW x, NEW a, x = [op |-> "delete app", app |-> a]
  PROVE  x.op = "delete app" /\ x.op # "answer" /\ x.app = a
BY Zenon

(* A walk through the list is no request for keys. *)
LEMMA ListIsQuiet ==
  ASSUME NEW x, x.op = "list", x = [f \in ListField |-> x[f]]
  PROVE  x.op \notin KeyOp /\ Request(x)
BY DEF KeyOp, WriteOp, Request

(* What an assignment to one app's key does to the column. *)
LEMMA UpdatedAt ==
  ASSUME NEW g \in [App -> Nat], NEW b \in App, NEW k \in Nat,
         NEW h, h = [g EXCEPT ![b] = k]
  PROVE  /\ h \in [App -> Nat] /\ h[b] = k /\ \A c \in App \ {b} : h[c] = g[c]
OBVIOUS

(* A statement of a key handler that wrote the server key (if the app is     *)
(* still live) and leaves the rest of the row.                               *)
LEMMA KeyWroteServer ==
  ASSUME KeyInv, NEW s \in Slot, NEW b \in App, NEW k \in Nat,
         slot[s].op # "answer", On(s, b), app[b] \in {"live", "deleted"},
         \A c \in App \ {b} : ~On(s, c),
         UNCHANGED <<app, told, raced, unsure>>, keys' \in Nat, client' = client,
         server' \in [App -> Nat], server'[b] = k,
         \A c \in App \ {b} : server'[c] = server[c],
         Put(s, [op |-> "answer", app |-> b, field |-> "server", key |-> k])
  PROVE  KeyInv'
<1>1. app \in [App -> {"none", "live", "deleted"}] /\ client \in [App -> Nat]
  BY Zenon DEF KeyInv, KeyType
<1>2. "server" \in Field /\ app'[b] # "none"  BY DEF Field
<1>3. \/ app'[b] = "live" /\ app[b] = "live" /\ On(s, b) /\ slot[s].op # "answer"
      \/ app'[b] = "live" /\ app[b] = "none"
      \/ app'[b] = "deleted"
  BY Zenon
<1> QED  BY <1>1, <1>2, <1>3, KeyWrote, Zenon

(* The same for the client key. *)
LEMMA KeyWroteClient ==
  ASSUME KeyInv, NEW s \in Slot, NEW b \in App, NEW k \in Nat,
         slot[s].op # "answer", On(s, b), app[b] \in {"live", "deleted"},
         \A c \in App \ {b} : ~On(s, c),
         UNCHANGED <<app, told, raced, unsure>>, keys' \in Nat, server' = server,
         client' \in [App -> Nat], app[b] = "live" => client'[b] = k,
         \A c \in App \ {b} : client'[c] = client[c],
         Put(s, [op |-> "answer", app |-> b, field |-> "client", key |-> k])
  PROVE  KeyInv'
<1>1. app \in [App -> {"none", "live", "deleted"}] /\ server \in [App -> Nat]
  BY Zenon DEF KeyInv, KeyType
<1>2. "client" \in Field /\ app'[b] # "none" /\ "client" # "server"  BY DEF Field
<1>3. \/ app'[b] = "live" /\ app[b] = "live" /\ On(s, b) /\ slot[s].op # "answer"
      \/ app'[b] = "live" /\ app[b] = "none"
      \/ app'[b] = "deleted"
  BY Zenon
<1> QED  BY <1>1, <1>2, <1>3, KeyWrote, Zenon

(* The statements of a handler that write keys. *)
LEMMA KeyWrites ==
  ASSUME KeyInv, NEW s \in Slot,
         generateAndStore(s) \/ DeleteServerKey(s) \/ HandleRotateKey(s)
  PROVE  KeyInv'
<1>1. slot[s].op \in KeyOp /\ slot[s].op # "answer"
  BY Zenon DEF generateAndStore, DeleteServerKey, HandleRotateKey, KeyOp, WriteOp
<1>2. PICK b \in App : b = slot[s].app  BY Zenon, <1>1, KeyOwner
<1>3. /\ On(s, b) /\ app[b] \in {"live", "deleted"}
      /\ \A c \in App \ {b} : ~On(s, c)
  BY Zenon, <1>1, <1>2, KeyOwner
<1>4. /\ app \in [App -> {"none", "live", "deleted"}] /\ server \in [App -> Nat]
      /\ client \in [App -> Nat] /\ keys \in Nat /\ NoKey \in Nat
  BY DEF KeyInv, KeyType, NoKey
<1>5. UNCHANGED <<app, told, raced, unsure>>
  BY Zenon DEF generateAndStore, DeleteServerKey, HandleRotateKey
<1>6. CASE generateAndStore(s) /\ app[b] = "live"
  <2>1. /\ server' = [server EXCEPT ![b] = keys'] /\ client' = client /\ keys' = keys + 1
        /\ Put(s, [op |-> "answer", app |-> b, field |-> "server", key |-> keys'])
    BY <1>2, <1>6, Zenon DEF generateAndStore, Wrote, NewKey
  <2>2. PICK k \in Nat : k = keys'  BY <1>4, <2>1
  <2>3. /\ server' \in [App -> Nat] /\ server'[b] = k
        /\ \A c \in App \ {b} : server'[c] = server[c]
    BY <1>4, <2>1, <2>2, UpdatedAt, Zenon
  <2> QED  BY <1>1, <1>3, <1>4, <1>5, <2>1, <2>2, <2>3, KeyWroteServer, Zenon
<1>7. CASE generateAndStore(s) /\ app[b] # "live"
  <2>1. Put(s, Free) /\ keys' = keys + 1 /\ UNCHANGED <<app, server, client, told, raced, unsure>>
    BY <1>2, <1>7, ZenonT(30) DEF generateAndStore, NewKey
  <2>2. keys' \in Nat  BY <1>4, <2>1
  <2> QED  BY <1>1, <2>1, <2>2, KeyQuiet, FreeIsQuiet, Zenon
<1>8. CASE DeleteServerKey(s)
  <2>1. /\ server' = [server EXCEPT ![b] = NoKey] /\ client' = client /\ keys' = keys
        /\ Put(s, [op |-> "answer", app |-> b, field |-> "server", key |-> NoKey])
    BY <1>2, <1>8, Zenon DEF DeleteServerKey, Wrote
  <2>2. /\ server' \in [App -> Nat] /\ server'[b] = NoKey
        /\ \A c \in App \ {b} : server'[c] = server[c]
    BY <1>4, <2>1, UpdatedAt, Zenon
  <2> QED  BY <1>1, <1>3, <1>4, <1>5, <2>1, <2>2, KeyWroteServer, Zenon
<1>9. CASE HandleRotateKey(s)
  <2>1. /\ client' = IF app[b] = "live" THEN [client EXCEPT ![b] = keys'] ELSE client
        /\ server' = server /\ keys' = keys + 1
        /\ Put(s, [op |-> "answer", app |-> b, field |-> "client", key |-> keys'])
    BY <1>2, <1>9, Zenon DEF HandleRotateKey, Wrote, NewKey
  <2>2. PICK k \in Nat : k = keys'  BY <1>4, <2>1
  <2>3. /\ client' \in [App -> Nat] /\ app[b] = "live" => client'[b] = k
        /\ \A c \in App \ {b} : client'[c] = client[c]
    <3>1. CASE app[b] = "live"  BY <1>4, <2>1, <2>2, <3>1, UpdatedAt, ZenonT(60)
    <3>2. CASE app[b] # "live"  BY <1>4, <2>1, <3>2, Zenon
    <3> QED  BY <3>1, <3>2, Zenon
  <2> QED  BY <1>1, <1>3, <1>4, <1>5, <2>1, <2>2, <2>3, KeyWroteClient, Zenon
<1> QED  BY <1>6, <1>7, <1>8, <1>9, Zenon

(* HandleCreateApp and HandleDeleteApp. *)
LEMMA KeyApp ==
  ASSUME KeyInv, NEW s \in Slot, NEW b \in App,
         HandleCreateApp(s, b) \/ HandleDeleteApp(s, b)
  PROVE  KeyInv'
<1>1. CASE HandleCreateApp(s, b)
  <2>1. /\ client' = [client EXCEPT ![b] = keys'] /\ server' = server /\ keys' = keys + 1
        /\ app' = [app EXCEPT ![b] = "live"] /\ app[b] = "none" /\ slot[s] = Free
        /\ Put(s, [op |-> "answer", app |-> b, field |-> "client", key |-> keys'])
        /\ UNCHANGED <<told, raced, unsure>>
    BY Zenon, <1>1 DEF HandleCreateApp, NewKey
  <2>2. PICK k \in Nat : k = keys'  BY <2>1 DEF KeyInv, KeyType
  <2>3. /\ app \in [App -> {"none", "live", "deleted"}] /\ server \in [App -> Nat]
        /\ client \in [App -> Nat]
    BY DEF KeyInv, KeyType
  <2>4. \A c \in App : ~On(s, c)  BY <2>1, FreeIsQuiet, Zenon DEF On, KeyOp
  <2> QED  BY Zenon, <2>1, <2>2, <2>3, <2>4, KeyWrote DEF Field
<1>2. CASE HandleDeleteApp(s, b)
  <2>1. /\ slot[s].op = "delete app" /\ slot[s].app = b
        /\ SlotStep(s) /\ slot'[s] = Free
        /\ app' = [app EXCEPT ![b] = "deleted"] /\ server' = [server EXCEPT ![b] = NoKey]
        /\ client' = [client EXCEPT ![b] = NoKey]
        /\ UNCHANGED <<keys, told, raced, unsure>>
    <3>1. slot[s] = [op |-> "delete app", app |-> b]  BY <1>2, Zenon DEF HandleDeleteApp
    <3>2. slot[s].op = "delete app" /\ slot[s].app = b  BY <3>1, DeletesApp, Zenon
    <3>3. /\ Put(s, Free)
          /\ app' = [app EXCEPT ![b] = "deleted"] /\ server' = [server EXCEPT ![b] = NoKey]
          /\ client' = [client EXCEPT ![b] = NoKey]
          /\ UNCHANGED <<keys, told, raced, unsure>>
      BY <1>2, Zenon DEF HandleDeleteApp
    <3>4. SlotStep(s) /\ slot'[s] = Free  BY Zenon, <3>3 DEF Put, SlotStep, KeyInv, KeyType
    <3> QED  BY <3>2, <3>3, <3>4, Zenon
  <2>2. KeyType'
    BY <2>1, FreeIsQuiet, KeyTypeStep, Zenon DEF KeyInv, KeyType, NoKey
  <2>3. Concerns(s, b)
    <3>1. \A c \in App \ {b} : ~On(s, c) /\ ~On(s, c)'
      BY <2>1, FreeIsQuiet, Zenon DEF On, KeyOp
    <3>2. \A c \in App \ {b} : /\ app'[c] = app[c] /\ server'[c] = server[c]
                               /\ client'[c] = client[c] /\ told'[c] = told[c]
      BY <2>1, Zenon DEF KeyInv, KeyType
    <3> QED  BY <2>1, <3>1, <3>2, Zenon DEF Concerns
  <2>4. app'[b] = "deleted"  BY <2>1, Zenon DEF KeyInv, KeyType
  <2> QED  BY <2>2, <2>3, <2>4, KeyStep DEF Calm
<1> QED  BY <1>1, <1>2

(* The steps of the other handlers. *)
LEMMA KeyOthers ==
  ASSUME KeyInv, NEW s \in Slot,
         \/ \E a \in App : DeleteAppRefused(s, a) \/ ListBegin(s, a)
         \/ \E c \in confs : DetailBegin(s, c) \/ \E u \in User : ShareBegin(s, c, u)
         \/ \E t \in Token : \/ HandleCreateShareToken(s, t)
                             \/ ViewBegin(s, t) \/ \E u \in User : RevokeBegin(s, t, u)
         \/ HandleListConferences(s) \/ ListEnd(s)
         \/ ReadParticipants(s) \/ ReadSessions(s)
         \/ ViewConference(s) \/ CountView(s)
         \/ HandleRevokeShareToken(s) \/ StatementError(s)
  PROVE  KeyInv'
<1> DEFINE Other(x) == x.op \notin KeyOp /\ Request(x)
<1>1. ASSUME NEW x, Reads(s, x), Other(x), slot[s].op # "answer" PROVE KeyInv'
  BY <1>1, KeyReads, Zenon
<1>2. ASSUME Put(s, Free), slot[s].op # "answer",
             UNCHANGED <<app, server, client, keys, told, raced, unsure>>
      PROVE  KeyInv'
  <2>1. keys' \in Nat  BY Zenon, <1>2 DEF KeyInv, KeyType
  <2> QED  BY <1>2, <2>1, KeyQuiet, FreeIsQuiet, Zenon
<1>3. Other(Free) /\ Free.op # "answer"  BY FreeIsQuiet
<1>4. ASSUME NEW a \in App, DeleteAppRefused(s, a) PROVE KeyInv'
  <2>1. slot[s] = [op |-> "delete app", app |-> a]  BY <1>4, Zenon DEF DeleteAppRefused
  <2>2. slot[s].op # "answer"  BY <2>1, DeletesApp, Zenon
  <2> QED  BY <1>2, <1>4, <2>2, Zenon DEF DeleteAppRefused
<1>5. ASSUME NEW a \in App, ListBegin(s, a) PROVE KeyInv'
  <2>1. PICK x : /\ x = [op |-> "list", app |-> a, page |-> 1, seen |-> {},
                         full |-> TRUE, first |-> ConfsOf(a)]
                 /\ Reads(s, x) /\ slot[s] = Free
    BY <1>5, Zenon DEF ListBegin
  <2>2. x.op = "list" /\ x = [f \in ListField |-> x[f]]  BY <2>1, Zenon DEF ListField
  <2>3. Other(x)  BY <2>2, ListIsQuiet
  <2> QED  BY <1>1, <1>3, <2>1, <2>3, Zenon
<1>6. ASSUME NEW c, DetailBegin(s, c) PROVE KeyInv'
  BY <1>1, <1>3, <1>6, Zenon DEF DetailBegin, KeyOp, WriteOp, Request
<1>7. ASSUME NEW c, NEW u, ShareBegin(s, c, u) PROVE KeyInv'
  BY <1>1, <1>3, <1>7, Zenon DEF ShareBegin, KeyOp, WriteOp, Request
<1>8. ASSUME NEW t, HandleCreateShareToken(s, t) PROVE KeyInv'
  BY <1>2, <1>8, Zenon DEF HandleCreateShareToken
<1>9. ASSUME NEW t, ViewBegin(s, t) PROVE KeyInv'
  BY <1>1, <1>3, <1>9, Zenon DEF ViewBegin, KeyOp, WriteOp, Request
<1>10. ASSUME NEW t, NEW u, RevokeBegin(s, t, u) PROVE KeyInv'
  BY <1>1, <1>3, <1>10, Zenon DEF RevokeBegin, KeyOp, WriteOp, Request
<1>11. CASE HandleListConferences(s)
  <2>1. slot[s].op = "list" /\ slot[s] = [f \in ListField |-> slot[s][f]]
    BY <1>11, Zenon DEF HandleListConferences, KeyInv, KeyType, Request
  <2>2. PICK r : r = slot[s]  OBVIOUS
  <2>3. PICK data, full, x :
          /\ x = [r EXCEPT !.page = @ + 1, !.seen = @ \union data, !.full = full]
          /\ Reads(s, x)
    BY <1>11, <2>2, Zenon DEF HandleListConferences
  <2>4. x.op = "list" /\ x = [f \in ListField |-> x[f]]
    BY <2>1, <2>2, <2>3, Zenon DEF ListField
  <2>5. Other(x)  BY <2>4, ListIsQuiet
  <2> QED  BY <1>1, <2>1, <2>3, <2>5, Zenon
<1>12. CASE ListEnd(s)  BY <1>1, <1>3, <1>12, Zenon DEF ListEnd
<1>13. CASE ReadParticipants(s)
  <2>1. PICK q : Reads(s, [op |-> "sessions", conf |-> slot[s].conf,
                           token |-> slot[s].token, order |-> q])
    BY <1>13, Zenon DEF ReadParticipants
  <2> QED  BY <1>1, <1>13, <2>1, Zenon DEF ReadParticipants, KeyOp, WriteOp, Request
<1>14. CASE ReadSessions(s)
  <2>1. \/ Reads(s, Free)
        \/ Reads(s, [op |-> "count", token |-> slot[s].token])
    BY <1>14 DEF ReadSessions
  <2> QED  BY <1>1, <1>3, <1>14, <2>1, Zenon DEF ReadSessions, KeyOp, WriteOp, Request
<1>15. CASE ViewConference(s)
  <2>1. \/ Reads(s, Free)
        \/ Reads(s, [op |-> "participants", conf |-> slot[s].conf, token |-> slot[s].token])
    BY <1>15 DEF ViewConference
  <2> QED  BY <1>1, <1>3, <1>15, <2>1, Zenon DEF ViewConference, KeyOp, WriteOp, Request
<1>16. CASE CountView(s)  BY <1>2, <1>16, Zenon DEF CountView
<1>17. CASE HandleRevokeShareToken(s)  BY <1>2, <1>17, Zenon DEF HandleRevokeShareToken
<1>18. CASE StatementError(s)  BY <1>2, <1>18, Zenon DEF StatementError
<1> QED
  BY Zenon, <1>4, <1>5, <1>6, <1>7, <1>8, <1>9, <1>10, <1>11, <1>12, <1>13, <1>14, <1>15,
     <1>16, <1>17, <1>18

(* Every step keeps the invariant. *)
LEMMA KeyNext == ASSUME KeyInv, [Next]_vars PROVE KeyInv'
<1>1. ASSUME UNCHANGED appVars PROVE KeyInv'
  BY <1>1 DEF appVars, KeyInv, KeyType, Request, Unused, Calm, Agrees, Settled, Answers, On
<1>2. ASSUME NEW s \in Slot, NEW a \in App,
             \/ GenerateFetch(s, a) \/ RotateFetch(s, a) \/ DeleteFetch(s, a)
             \/ RotateKeyFetch(s, a) \/ DeleteAppFetch(s, a)
      PROVE  KeyInv'
  <2>1. PICK op \in WriteOp : Found(s, op, a)
    BY <1>2, Zenon DEF GenerateFetch, RotateFetch, DeleteFetch, RotateKeyFetch, DeleteAppFetch,
                WriteOp
  <2> QED  BY <2>1, KeyFound
<1>3. ASSUME NEW s \in Slot, WriteError(s) PROVE KeyInv'
  <2>1. keys' \in Nat /\ slot[s].op # "answer"
    BY <1>3, Zenon DEF WriteError, KeyInv, KeyType, WriteOp
  <2> QED  BY <1>3, <2>1, KeyQuiet, FreeIsQuiet, Zenon DEF WriteError
<1>4. CASE KeyRequests
  BY Zenon, <1>2, <1>3, <1>4, KeyWrites, KeyApp, KeyDone DEF KeyRequests
<1>5. ASSUME NEW s \in Slot, NEW a \in App, DeleteApp(s, a) PROVE KeyInv'
  BY <1>5, KeyApp DEF DeleteApp
<1> QED  BY Zenon, <1>1, <1>4, <1>5, KeyOthers DEF Next, Flush, DropPartition, Idle, vars

(* KeyInv is inductive. *)
LEMMA KeysHold == Spec => []KeyInv
<1>1. Init => KeyInv
  <2> SUFFICES ASSUME Init PROVE KeyInv  BY Zenon
  <2>1. \A s \in Slot : slot[s] = Free  BY Zenon DEF Init, AInit
  <2>2. \A s \in Slot, a \in App : ~On(s, a)  BY Zenon, <2>1, FreeIsQuiet DEF On, KeyOp
  <2>3. KeyType  BY Zenon, <2>1, FreeIsQuiet DEF Init, AInit, KeyType, NoKey
  <2>4. \A a \in App : app[a] = "none" /\ Unused(a)
    BY <2>2 DEF Init, AInit, Unused
  <2> QED  BY <2>3, <2>4 DEF KeyInv, Calm
<1>2. KeyInv /\ [Next]_vars => KeyInv'  BY KeyNext
<1> QED  BY <1>1, <1>2, PTL DEF Spec

(* When no request is in progress, an app's row has the keys that callers    *)
(* were last given, unless two requests overlapped or an answer was lost     *)
(* (server_key.go:297-317, app.go:359-370).                                  *)
THEOREM RowHasKeysTold == Spec => []KeysAsTold
<1>1. KeyInv => KeysAsTold
  <2> SUFFICES ASSUME KeyInv, NEW a \in App, Calm(a), \A s \in Slot : ~On(s, a)
               PROVE  told[a] = [server |-> server[a], client |-> client[a]]
    BY Zenon DEF KeysAsTold, Calm
  <2>1. told[a].server = server[a] /\ told[a].client = client[a]
    BY Zenon DEF KeyInv, Agrees, Settled, Answers
  <2> QED  BY Zenon, <2>1 DEF KeyInv, KeyType
<1> QED  BY <1>1, KeysHold, PTL

-----------------------------------------------------------------------------
(* A row r of share_tokens after n answered views, m answered revocations    *)
(* and f faults.                                                             *)
TokenField == {"state", "conf", "by", "views"}

TokenRow(r, n, m, f) ==
  /\ r.state \in {"none", "live", "revoked"}
  /\ n \in Nat /\ m \in {0, 1}
  /\ r.state # "revoked" => m = 0
  /\ r.state = "none" => n = 0
  /\ r.state = "live" => /\ r = [x \in TokenField |-> r[x]]
                         /\ r.views \in Nat /\ n <= r.views /\ r.views <= n + f

(* A request for a token, which has been stored. *)
Named(x) ==
  \/ x.op \in {"conference", "count", "revoke"}
  \/ x.op \in {"participants", "sessions"} /\ x.token # "none"

StoredToken(t) == t \in Token /\ token[t].state # "none"

TokenInv ==
  /\ faults \in Nat
  /\ slot = [s \in Slot |-> slot[s]]
  /\ token = [t \in Token |-> token[t]]
  /\ shown = [t \in Token |-> shown[t]]
  /\ revokes = [t \in Token |-> revokes[t]]
  /\ \A t \in Token : TokenRow(token[t], shown[t], revokes[t], faults)
  /\ \A s \in Slot : Named(slot[s]) => StoredToken(slot[s].token)

(* What one statement makes of a row. *)
LEMMA RowLater ==
  ASSUME NEW r, NEW n, NEW m, NEW f \in Nat, NEW g \in Nat, f <= g, TokenRow(r, n, m, f)
  PROVE  TokenRow(r, n, m, g)
BY DEF TokenRow

(* A new row has been shown to no one. *)
LEMMA RowShared ==
  ASSUME NEW c, NEW u, NEW n, NEW m, NEW f \in Nat, TokenRow(NoRow, n, m, f), NEW r,
         r = [state |-> "live", conf |-> c, by |-> u, views |-> 0]
  PROVE  TokenRow(r, n, m, f) /\ r.state = "live"
<1>1. NoRow.state = "none"  BY Zenon DEF NoRow
<1>2. n = 0 /\ m = 0  BY Zenon, <1>1 DEF TokenRow
<1>3. r.state = "live" /\ r.views = 0 /\ r = [x \in TokenField |-> r[x]]  BY DEF TokenField
<1> QED  BY <1>2, <1>3 DEF TokenRow

(* A view is counted: its answer is sent, or lost with a fault. *)
LEMMA RowCounted ==
  ASSUME NEW r, NEW n, NEW m, NEW f \in Nat, TokenRow(r, n, m, f), r.state = "live",
         NEW x, x = [r EXCEPT !.views = @ + 1]
  PROVE  x.state = "live" /\ TokenRow(x, n + 1, m, f) /\ TokenRow(x, n, m, f + 1)
<1>1. r = [y \in TokenField |-> r[y]] /\ r.views \in Nat /\ n <= r.views /\ r.views <= n + f
      /\ n \in Nat /\ m = 0
  BY DEF TokenRow
<1>2. x.state = "live" /\ x.views = r.views + 1 /\ x = [y \in TokenField |-> x[y]]
  BY Zenon, <1>1 DEF TokenField
<1> QED  BY <1>1, <1>2 DEF TokenRow

(* A live row is revoked: its answer is sent, or lost with a fault. *)
LEMMA RowRevoked ==
  ASSUME NEW r, NEW n, NEW m, NEW f \in Nat, TokenRow(r, n, m, f), r.state = "live"
  PROVE  Revoked.state = "revoked" /\ TokenRow(Revoked, n, m + 1, f) /\ TokenRow(Revoked, n, m, f)
<1>1. Revoked.state = "revoked"  BY Zenon DEF Revoked
<1> QED  BY <1>1 DEF TokenRow

(* A step of the handler in slot s. *)
LEMMA TokenStep ==
  ASSUME TokenInv, NEW s \in Slot, NEW x, Put(s, x),
         Named(x) => StoredToken(x.token)',
         faults' = faults \/ faults' = faults + 1,
         token' = [t \in Token |-> token'[t]],
         shown' = [t \in Token |-> shown'[t]],
         revokes' = [t \in Token |-> revokes'[t]],
         \A t \in Token :
           \/ token'[t] = token[t] /\ shown'[t] = shown[t] /\ revokes'[t] = revokes[t]
           \/ /\ TokenRow(token'[t], shown'[t], revokes'[t], faults')
              /\ token'[t].state # "none"
  PROVE  TokenInv'
<1>1. slot' = [t \in Slot |-> IF t = s THEN x ELSE slot[t]]  BY Zenon DEF TokenInv, Put
<1>2. faults' \in Nat /\ faults <= faults'  BY DEF TokenInv
<1>3. ASSUME NEW t \in Token PROVE TokenRow(token'[t], shown'[t], revokes'[t], faults')
  <2>1. CASE token'[t] = token[t] /\ shown'[t] = shown[t] /\ revokes'[t] = revokes[t]
    <3>1. TokenRow(token[t], shown[t], revokes[t], faults) /\ faults \in Nat  BY Zenon DEF TokenInv
    <3>2. TokenRow(token[t], shown[t], revokes[t], faults')  BY Zenon, <1>2, <3>1, RowLater
    <3> QED  BY Zenon, <2>1, <3>2
  <2> QED  BY Zenon, <2>1
<1>4. \A t : StoredToken(t) => StoredToken(t)'  BY Zenon DEF StoredToken
<1>5. ASSUME NEW u \in Slot, Named(slot'[u]), NEW k, k = slot'[u].token
      PROVE  StoredToken(k)'
  <2>1. CASE u = s  BY Zenon, <1>1, <1>5, <2>1
  <2>2. CASE u # s
    <3>1. slot'[u] = slot[u]  BY Zenon, <1>1, <2>2
    <3>2. StoredToken(k)  BY Zenon, <1>5, <3>1 DEF TokenInv
    <3> QED  BY Zenon, <1>4, <3>2
  <2> QED  BY Zenon, <2>1, <2>2
<1>6. \A u \in Slot : Named(slot'[u]) => StoredToken(slot[u].token)'
  BY Zenon, <1>5 DEF StoredToken
<1> QED  BY Zenon, <1>1, <1>2, <1>3, <1>6 DEF TokenInv, Named

(* A step that leaves the tokens alone. *)
LEMMA TokenQuiet ==
  ASSUME TokenInv, NEW s \in Slot, NEW x, Put(s, x),
         Named(x) => StoredToken(x.token),
         faults' = faults \/ faults' = faults + 1,
         UNCHANGED <<token, shown, revokes>>
  PROVE  TokenInv'
<1>1. Named(x) => StoredToken(x.token)'  BY Zenon DEF StoredToken
<1>2. /\ token' = [t \in Token |-> token'[t]]
      /\ shown' = [t \in Token |-> shown'[t]]
      /\ revokes' = [t \in Token |-> revokes'[t]]
  BY Zenon DEF TokenInv
<1> QED  BY Zenon, <1>1, <1>2, TokenStep

(* A statement that only reads, and leaves a token to the next one. *)
LEMMA TokenReads ==
  ASSUME TokenInv, NEW s \in Slot, NEW x, Reads(s, x), Named(x) => StoredToken(x.token)
  PROVE  TokenInv'
BY Zenon, TokenQuiet DEF Reads, confVars

(* An idle slot names no token. *)
LEMMA FreeNamesNone == ~Named(Free) /\ Free.op = "free"
BY Zenon DEF Named, Free

(* Requests for keys. *)
LEMMA TokenKeys ==
  ASSUME TokenInv, KeyRequests, UNCHANGED confVars PROVE TokenInv'
<1>1. PICK s \in Slot :
        \/ \E a \in App : \/ HandleCreateApp(s, a) \/ GenerateFetch(s, a)
                          \/ RotateFetch(s, a) \/ DeleteFetch(s, a)
                          \/ RotateKeyFetch(s, a) \/ DeleteAppFetch(s, a)
        \/ generateAndStore(s) \/ DeleteServerKey(s) \/ HandleRotateKey(s)
        \/ WriteError(s) \/ Respond(s) \/ AnswerLost(s)
  BY Zenon DEF KeyRequests
<1>2. ASSUME NEW x, Put(s, x), ~Named(x), faults' = faults \/ faults' = faults + 1
      PROVE  TokenInv'
  BY <1>2, TokenQuiet DEF confVars
<1>3. ASSUME NEW a, NEW f, NEW k,
             Put(s, [op |-> "answer", app |-> a, field |-> f, key |-> k]), faults' = faults
      PROVE  TokenInv'
  <2>1. PICK x : x = [op |-> "answer", app |-> a, field |-> f, key |-> k]  BY Zenon
  <2>2. ~Named(x)  BY Zenon, <2>1 DEF Named
  <2> QED  BY <1>2, <1>3, <2>1, <2>2, Zenon
<1>4. ASSUME Put(s, Free), faults' = faults \/ faults' = faults + 1 PROVE TokenInv'
  BY Zenon, <1>2, <1>4, FreeNamesNone
<1>5. ASSUME NEW a, NEW op \in WriteOp, Found(s, op, a) PROVE TokenInv'
  <2>1. PICK x : x = [op |-> op, app |-> a]  BY Zenon
  <2>2. ~Named(x)  BY <2>1, Zenon DEF Named, WriteOp
  <2> QED  BY <1>2, <1>5, <2>1, <2>2, Zenon DEF Found
<1>6. ASSUME NEW a, \/ GenerateFetch(s, a) \/ RotateFetch(s, a) \/ DeleteFetch(s, a)
                    \/ RotateKeyFetch(s, a) \/ DeleteAppFetch(s, a)
      PROVE  TokenInv'
  BY <1>5, <1>6, Zenon DEF GenerateFetch, RotateFetch, DeleteFetch, RotateKeyFetch,
                    DeleteAppFetch, WriteOp
<1>7. ASSUME NEW a, HandleCreateApp(s, a) PROVE TokenInv'
  BY <1>3, <1>7, Zenon DEF HandleCreateApp
<1>8. CASE generateAndStore(s)  BY <1>3, <1>4, <1>8, Zenon DEF generateAndStore, Wrote
<1>9. CASE DeleteServerKey(s)  BY <1>3, <1>9, Zenon DEF DeleteServerKey, Wrote
<1>10. CASE HandleRotateKey(s)  BY <1>3, <1>10, Zenon DEF HandleRotateKey, Wrote
<1>11. CASE WriteError(s) \/ Respond(s) \/ AnswerLost(s)
  BY <1>4, <1>11 DEF WriteError, Respond, AnswerLost, Fault
<1> QED  BY Zenon, <1>1, <1>6, <1>7, <1>8, <1>9, <1>10, <1>11

(* A handler ends with a statement that changes one row. *)
LEMMA TokenOneRow ==
  ASSUME TokenInv, NEW s \in Slot, NEW t \in Token, NEW r, NEW n, NEW m, Put(s, Free),
         faults' = faults \/ faults' = faults + 1,
         token' = [token EXCEPT ![t] = r],
         shown' = [shown EXCEPT ![t] = n],
         revokes' = [revokes EXCEPT ![t] = m],
         TokenRow(r, n, m, faults'), r.state # "none"
  PROVE  TokenInv'
<1>1. /\ token' = [u \in Token |-> IF u = t THEN r ELSE token[u]]
      /\ shown' = [u \in Token |-> IF u = t THEN n ELSE shown[u]]
      /\ revokes' = [u \in Token |-> IF u = t THEN m ELSE revokes[u]]
  BY Zenon DEF TokenInv
<1>2. /\ token' = [u \in Token |-> token'[u]]
      /\ shown' = [u \in Token |-> shown'[u]]
      /\ revokes' = [u \in Token |-> revokes'[u]]
  BY <1>1, Zenon
<1>3. \A u \in Token :
         \/ token'[u] = token[u] /\ shown'[u] = shown[u] /\ revokes'[u] = revokes[u]
         \/ /\ TokenRow(token'[u], shown'[u], revokes'[u], faults')
            /\ token'[u].state # "none"
  BY Zenon, <1>1
<1> QED  BY <1>2, <1>3, FreeNamesNone, TokenStep, Zenon

(* The INSERT, the UPDATE and the DELETE of share.go, done, whether or not   *)
(* the caller gets to know.                                                  *)
LEMMA TokenWritten ==
  ASSUME TokenInv, NEW s \in Slot, NEW t \in Token, Put(s, Free),
         \/ token[t] = NoRow /\ token' = Shared(s, t) /\ UNCHANGED <<shown, revokes>>
         \/ /\ token[t].state # "none" /\ token' = CountOne(t) /\ UNCHANGED revokes
            /\ \/ shown' = [shown EXCEPT ![t] = @ + 1]
               \/ UNCHANGED shown /\ faults' = faults + 1
         \/ /\ Live(t) /\ token' = [token EXCEPT ![t] = Revoked] /\ UNCHANGED shown
            /\ revokes' = [revokes EXCEPT ![t] = @ + 1] \/ UNCHANGED revokes,
         faults' = faults \/ faults' = faults + 1
  PROVE  TokenInv'
<1>1. /\ faults \in Nat /\ faults' \in Nat /\ faults <= faults'
      /\ TokenRow(token[t], shown[t], revokes[t], faults)
  BY DEF TokenInv
<1>2. TokenRow(token[t], shown[t], revokes[t], faults')  BY <1>1, RowLater
<1>3. /\ shown = [shown EXCEPT ![t] = shown[t]]
      /\ revokes = [revokes EXCEPT ![t] = revokes[t]]
      /\ token = [token EXCEPT ![t] = token[t]]
  BY Zenon DEF TokenInv
<1>4. CASE token' = token /\ UNCHANGED <<shown, revokes>>
  BY <1>4, FreeNamesNone, TokenQuiet
<1>5. CASE /\ token[t] = NoRow /\ token' = Shared(s, t) /\ token' # token
           /\ UNCHANGED <<shown, revokes>>
  <2>1. PICK r : /\ r = [state |-> "live", conf |-> slot[s].conf, by |-> slot[s].by, views |-> 0]
                 /\ token' = [token EXCEPT ![t] = r]
    BY <1>5, Zenon DEF Shared
  <2>2. TokenRow(r, shown[t], revokes[t], faults') /\ r.state = "live"
    BY Zenon, <1>1, <1>2, <1>5, <2>1, RowShared
  <2>3. /\ shown' = [shown EXCEPT ![t] = shown[t]]
        /\ revokes' = [revokes EXCEPT ![t] = revokes[t]] /\ r.state # "none"
    BY Zenon, <1>3, <1>5, <2>2
  <2> QED  BY <2>1, <2>2, <2>3, TokenOneRow, Zenon
<1>6. CASE /\ Live(t) /\ token' = CountOne(t) /\ UNCHANGED revokes
           /\ \/ shown' = [shown EXCEPT ![t] = @ + 1]
              \/ UNCHANGED shown /\ faults' = faults + 1
  <2>1. PICK r : r = [token[t] EXCEPT !.views = @ + 1] /\ token' = [token EXCEPT ![t] = r]
    BY <1>6, Zenon DEF CountOne
  <2>2. /\ r.state = "live" /\ TokenRow(r, shown[t] + 1, revokes[t], faults)
        /\ TokenRow(r, shown[t], revokes[t], faults + 1)
    BY <1>1, <1>6, <2>1, RowCounted DEF Live
  <2>3. TokenRow(r, shown[t] + 1, revokes[t], faults')  BY <1>1, <2>2, RowLater
  <2>4. CASE shown' = [shown EXCEPT ![t] = shown[t] + 1]
    BY <1>3, <1>6, <2>1, <2>2, <2>3, <2>4, TokenOneRow, Zenon
  <2>5. CASE UNCHANGED shown /\ faults' = faults + 1
    <3>1. /\ shown' = [shown EXCEPT ![t] = shown[t]]
          /\ revokes' = [revokes EXCEPT ![t] = revokes[t]] /\ r.state # "none"
          /\ TokenRow(r, shown[t], revokes[t], faults')
      BY Zenon, <1>3, <1>6, <2>2, <2>5
    <3> QED  BY <2>1, <3>1, TokenOneRow, Zenon
  <2> QED  BY <1>6, <2>4, <2>5
<1>7. CASE /\ token[t].state # "none" /\ ~Live(t) /\ token' = CountOne(t) /\ UNCHANGED revokes
           /\ shown' = [shown EXCEPT ![t] = @ + 1]
  <2>1. token' = token  BY <1>7 DEF CountOne
  <2>2. TokenRow(token[t], shown[t] + 1, revokes[t], faults')  BY <1>2, <1>7 DEF TokenRow, Live
  <2> QED  BY <1>3, <1>7, <2>1, <2>2, TokenOneRow, ZenonT(30)
<1>8. CASE /\ Live(t) /\ token' = [token EXCEPT ![t] = Revoked] /\ UNCHANGED shown
           /\ revokes' = [revokes EXCEPT ![t] = @ + 1] \/ UNCHANGED revokes
  <2>1. /\ Revoked.state = "revoked" /\ TokenRow(Revoked, shown[t], revokes[t] + 1, faults')
        /\ TokenRow(Revoked, shown[t], revokes[t], faults')
    BY Zenon, <1>1, <1>2, <1>8, RowRevoked DEF Live
  <2>2. shown' = [shown EXCEPT ![t] = shown[t]] /\ Revoked.state # "none"
    BY Zenon, <1>3, <1>8, <2>1
  <2>3. CASE revokes' = [revokes EXCEPT ![t] = revokes[t] + 1]
    BY <1>8, <2>1, <2>2, <2>3, TokenOneRow, Zenon
  <2>4. CASE revokes' = [revokes EXCEPT ![t] = revokes[t]]
    BY <1>8, <2>1, <2>2, <2>4, TokenOneRow, Zenon
  <2> QED  BY Zenon, <1>3, <1>8, <2>3, <2>4
<1>9. ~Live(t) => CountOne(t) = token  BY Zenon DEF CountOne
<1> QED  BY Zenon, <1>4, <1>5, <1>6, <1>7, <1>8, <1>9

(* Every step keeps the invariant. *)
LEMMA TokenNext == ASSUME TokenInv, KeyType, [Next]_vars PROVE TokenInv'
<1>1. ASSUME UNCHANGED <<appVars, token, shown, revokes>> PROVE TokenInv'
  BY <1>1 DEF appVars, TokenInv, Named, StoredToken
<1>2. CASE KeyRequests /\ UNCHANGED confVars  BY Zenon, <1>2, TokenKeys
<1>3. ASSUME NEW s \in Slot, NEW a \in App, DeleteApp(s, a) PROVE TokenInv'
  <2>1. /\ token' = [t \in Token |-> IF Live(t) /\ AppOf[token[t].conf] = a
                                     THEN Revoked ELSE token[t]]
        /\ Put(s, Free) /\ UNCHANGED <<faults, shown, revokes>>
    BY <1>3, Zenon DEF DeleteApp, HandleDeleteApp, Cascade
  <2>2. ASSUME NEW t \in Token, token'[t] # token[t]
        PROVE  /\ TokenRow(token'[t], shown'[t], revokes'[t], faults')
               /\ token'[t].state # "none"
    <3>1. token'[t] = Revoked /\ Live(t)  BY Zenon, <2>1, <2>2
    <3>2. TokenRow(token[t], shown[t], revokes[t], faults) /\ faults \in Nat  BY Zenon DEF TokenInv
    <3> QED  BY Zenon, <2>1, <3>1, <3>2, RowRevoked DEF Live
  <2>3. /\ token' = [t \in Token |-> token'[t]]
        /\ shown' = [t \in Token |-> shown'[t]]
        /\ revokes' = [t \in Token |-> revokes'[t]]
    BY Zenon, <2>1 DEF TokenInv
  <2> QED  BY Zenon, <2>1, <2>2, <2>3, FreeNamesNone, TokenStep
<1>4. ASSUME NEW s \in Slot, Reads(s, Free) PROVE TokenInv'  BY Zenon, <1>4, TokenReads, FreeNamesNone
<1>5. ASSUME NEW s \in Slot, NEW a \in App, DeleteAppRefused(s, a) PROVE TokenInv'
  BY <1>4, <1>5, Zenon DEF DeleteAppRefused, Reads
<1>6. ASSUME NEW s \in Slot, NEW a \in App, ListBegin(s, a) PROVE TokenInv'
  <2>1. PICK x : Reads(s, x) /\ x.op = "list"  BY <1>6 DEF ListBegin
  <2> QED  BY ZenonT(60), <2>1, TokenReads DEF Named
<1>7. ASSUME NEW s \in Slot, NEW c, DetailBegin(s, c) PROVE TokenInv'
  <2>1. PICK x : Reads(s, x) /\ x.op = "participants" /\ x.token = "none"
    BY <1>7 DEF DetailBegin
  <2> QED  BY ZenonT(60), <2>1, TokenReads DEF Named
<1>8. ASSUME NEW s \in Slot, NEW c, NEW u, ShareBegin(s, c, u) PROVE TokenInv'
  <2>1. PICK x : Reads(s, x) /\ x.op = "share"  BY <1>8 DEF ShareBegin
  <2> QED  BY Zenon, <2>1, TokenReads DEF Named
<1>9. ASSUME NEW s \in Slot, NEW t \in Token, HandleCreateShareToken(s, t) PROVE TokenInv'
  BY Zenon, <1>9, TokenWritten DEF HandleCreateShareToken
<1>10. ASSUME NEW s \in Slot, NEW t \in Token,
              ViewBegin(s, t) \/ \E u \in User : RevokeBegin(s, t, u)
       PROVE  TokenInv'
  <2>1. PICK x : Reads(s, x) /\ x.token = t  BY <1>10 DEF ViewBegin, RevokeBegin
  <2>2. StoredToken(t)  BY <1>10 DEF ViewBegin, RevokeBegin, Live, StoredToken
  <2> QED  BY Zenon, <2>1, <2>2, TokenReads
<1>11. ASSUME NEW s \in Slot, HandleListConferences(s) PROVE TokenInv'
  <2>1. PICK r : r = slot[s]  OBVIOUS
  <2>2. PICK data, full, x :
          /\ x = [r EXCEPT !.page = @ + 1, !.seen = @ \union data, !.full = full]
          /\ Reads(s, x)
    BY <1>11, <2>1, Zenon DEF HandleListConferences
  <2>3. r.op = "list"  BY <1>11, <2>1, Zenon DEF HandleListConferences
  <2>4. r = [f \in ListField |-> r[f]]  BY Zenon, <2>1, <2>3 DEF KeyType, Request
  <2>5. x.op = "list"  BY Zenon, <2>2, <2>3, <2>4 DEF ListField
  <2> QED  BY <2>2, <2>5, TokenReads, Zenon DEF Named
<1>12. ASSUME NEW s \in Slot, ListEnd(s) PROVE TokenInv'  BY Zenon, <1>4, <1>12 DEF ListEnd
<1>13. ASSUME NEW s \in Slot, ReadParticipants(s) PROVE TokenInv'
  <2>1. PICK x : Reads(s, x) /\ x.op = "sessions" /\ x.token = slot[s].token
    <3>1. PICK q : Reads(s, [op |-> "sessions", conf |-> slot[s].conf,
                             token |-> slot[s].token, order |-> q])
      BY <1>13, Zenon DEF ReadParticipants
    <3> QED  BY <3>1
  <2>2. x.token # "none" => StoredToken(x.token)
    <3>1. slot[s].op = "participants"  BY <1>13, Zenon DEF ReadParticipants
    <3> QED  BY Zenon, <2>1, <3>1 DEF TokenInv, Named
  <2> QED  BY Zenon, <2>1, <2>2, TokenReads DEF Named
<1>14. ASSUME NEW s \in Slot, ReadSessions(s) PROVE TokenInv'
  <2>1. CASE slot[s].token = "none"  BY Zenon, <1>4, <1>14, <2>1 DEF ReadSessions
  <2>2. CASE slot[s].token # "none"
    <3>1. PICK x : Reads(s, x) /\ x.op = "count" /\ x.token = slot[s].token
      BY <1>14, <2>2 DEF ReadSessions
    <3>2. StoredToken(x.token)  BY Zenon, <1>14, <2>2, <3>1 DEF ReadSessions, TokenInv, Named
    <3> QED  BY Zenon, <3>1, <3>2, TokenReads
  <2> QED  BY Zenon, <2>1, <2>2
<1>15. ASSUME NEW s \in Slot, ViewConference(s) PROVE TokenInv'
  <2>1. CASE slot[s].conf \notin confs  BY Zenon, <1>4, <1>15, <2>1 DEF ViewConference
  <2>2. CASE slot[s].conf \in confs
    <3>1. PICK x : Reads(s, x) /\ x.token = slot[s].token
      BY <1>15, <2>2 DEF ViewConference
    <3>2. StoredToken(x.token)  BY Zenon, <1>15, <3>1 DEF ViewConference, TokenInv, Named
    <3> QED  BY Zenon, <3>1, <3>2, TokenReads
  <2> QED  BY Zenon, <2>1, <2>2
<1>16. ASSUME NEW s \in Slot, slot[s].op \in {"count", "revoke"}
       PROVE  slot[s].token \in Token /\ token[slot[s].token].state # "none"
  BY <1>16 DEF TokenInv, Named, StoredToken
<1>17. ASSUME NEW s \in Slot, CountView(s) PROVE TokenInv'
  <2>1. PICK t \in Token : t = slot[s].token /\ token[t].state # "none"
    BY Zenon, <1>16, <1>17 DEF CountView
  <2>2. /\ Put(s, Free) /\ faults' = faults /\ token' = CountOne(t) /\ UNCHANGED revokes
        /\ shown' = [shown EXCEPT ![t] = @ + 1]
    BY Zenon, <1>17, <2>1 DEF CountView
  <2> QED  BY <2>1, <2>2, TokenWritten, Zenon
<1>18. ASSUME NEW s \in Slot, HandleRevokeShareToken(s) PROVE TokenInv'
  <2>1. PICK t \in Token : t = slot[s].token  BY Zenon, <1>16, <1>18 DEF HandleRevokeShareToken
  <2>2. CASE Live(t)  BY Zenon, <1>18, <2>1, <2>2, TokenWritten DEF HandleRevokeShareToken
  <2>3. CASE ~Live(t)
    BY Zenon, <1>18, <2>1, <2>3, FreeNamesNone, TokenQuiet DEF HandleRevokeShareToken
  <2> QED  BY Zenon, <2>2, <2>3
<1>19. ASSUME NEW s \in Slot, StatementError(s) PROVE TokenInv'
  <2>1. Put(s, Free) /\ faults' = faults + 1 /\ UNCHANGED <<shown, revokes>>
    BY Zenon, <1>19 DEF StatementError, Fault
  <2>2. CASE UNCHANGED token  BY Zenon, <2>1, <2>2, FreeNamesNone, TokenQuiet
  <2>3. ASSUME NEW t \in Token, token[t] = NoRow, token' = Shared(s, t) PROVE TokenInv'
    BY <2>1, <2>3, TokenWritten
  <2>4. CASE slot[s].op = "count" /\ token' = CountOne(slot[s].token)
    <3>1. PICK t \in Token : t = slot[s].token /\ token[t].state # "none"  BY Zenon, <1>16, <2>4
    <3> QED  BY <2>1, <2>4, <3>1, TokenWritten, Zenon
  <2>5. CASE /\ slot[s].op = "revoke" /\ Live(slot[s].token)
             /\ token' = [token EXCEPT ![slot[s].token] = Revoked]
    <3>1. PICK t \in Token : t = slot[s].token  BY <1>16, <2>5
    <3> QED  BY <2>1, <2>5, <3>1, TokenWritten, Zenon
  <2> QED  BY Zenon, <1>19, <2>2, <2>3, <2>4, <2>5 DEF StatementError
<1> QED
  BY ZenonT(60), <1>1, <1>2, <1>3, <1>5, <1>6, <1>7, <1>8, <1>9, <1>10, <1>11, <1>12, <1>13, <1>14,
     <1>15, <1>17, <1>18, <1>19
  DEF Next, Flush, DropPartition, Idle, vars, confVars

(* A live token's count is the number of views answered with the conference, *)
(* and one more for each failed UPDATE at most; no token is revoked twice    *)
(* with 204 (share.go:165-185, 233-251).                                     *)
THEOREM TokensCountedOnce == Spec => []TokensAsTold
<1>1. Init => TokenInv
  <2> SUFFICES ASSUME Init PROVE TokenInv  OBVIOUS
  <2>1. NoRow.state = "none"  BY DEF NoRow
  <2>2. TokenRow(NoRow, 0, 0, 0)  BY <2>1 DEF TokenRow
  <2> QED  BY Zenon, <2>2, FreeNamesNone DEF Init, AInit, TokenInv
<1>2. TokenInv /\ KeyType /\ [Next]_vars => TokenInv'  BY Zenon, TokenNext
<1>3. TokenInv => TokensAsTold
  <2> SUFFICES ASSUME TokenInv, NEW t \in Token
               PROVE  /\ Live(t) => token[t].views \in shown[t] .. shown[t] + faults
                      /\ revokes[t] <= 1
    BY Zenon DEF TokensAsTold
  <2>1. TokenRow(token[t], shown[t], revokes[t], faults) /\ faults \in Nat  BY DEF TokenInv
  <2> QED  BY <2>1 DEF TokenRow, Live
<1>4. Spec => []KeyType  BY KeysHold, PTL DEF KeyInv
<1> QED  BY <1>1, <1>2, <1>3, <1>4, PTL DEF Spec
=============================================================================
