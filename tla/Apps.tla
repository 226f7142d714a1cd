-------------------------------- MODULE Apps --------------------------------
(***************************************************************************)
(* Apps and their keys in the query API (handler/app.go, server_key.go).   *)
(* A slot serves one request at a time.  A handler reads the app's row,    *)
(* later writes it with a second statement, and later answers; nothing     *)
(* protects the row in between.                                            *)
(*                                                                         *)
(* Keys are random; here they are numbered as they are generated, and a    *)
(* number stands for a key, its secret or hash, and its date.              *)
(***************************************************************************)
EXTENDS Naturals, FiniteSets

CONSTANTS
  App, Slot,
  Menus,         \* the kinds of requests and rows that come together
  MaxKeys,       \* bound on generated keys
  MaxFaults      \* bound on database errors and lost answers

VARIABLES
  menu,          \* menu.ops: the requests, menu.reports: the payloads
  app,           \* app[a]: "none", "live" or "deleted"
  server,        \* server[a]: server_api_key, NoKey for NULL
  client,        \* client[a]: the key behind api_key_hash
  keys,          \* keys generated so far
  slot,          \* slot[s]: the request in progress, or Free
  faults,
  told,          \* told[a]: the keys that the callers know of (history)
  raced,         \* apps with two requests in progress at once (history)
  unsure         \* apps with a written change that nobody was told of (history)

appVars == <<menu, app, server, client, keys, slot, faults, told, raced, unsure>>

NoKey == 0
Free == [op |-> "free"]
WriteOp == {"generate", "rotate", "delete", "rotate client", "delete app"}

AInit ==
  /\ menu \in Menus
  /\ app = [a \in App |-> "none"]
  /\ server = [a \in App |-> NoKey]
  /\ client = [a \in App |-> NoKey]
  /\ keys = 0
  /\ slot = [s \in Slot |-> Free]
  /\ faults = 0
  /\ told = [a \in App |-> [server |-> NoKey, client |-> NoKey]]
  /\ raced = {} /\ unsure = {}

Put(s, x) == slot' = [slot EXCEPT ![s] = x]
Fault == faults < MaxFaults /\ faults' = faults + 1

(* GenerateKeyPair, generateClientKey *)
NewKey == keys' = keys + 1

(* The bound leaves a key for every request in progress. *)
KeysLeft == keys + Cardinality({s \in Slot : slot[s].op \in WriteOp}) < MaxKeys

(* A request for the app's keys is in progress. *)
On(s, a) == slot[s].op \in WriteOp \union {"answer"} /\ slot[s].app = a

(* The first statement of a handler has found the row as it must be. *)
Found(s, op, a) ==
  /\ slot[s] = Free
  /\ op \in menu.ops
  /\ KeysLeft
  /\ app[a] = "live"
  /\ Put(s, [op |-> op, app |-> a])
  /\ raced' = IF \E t \in Slot : On(t, a) THEN raced \union {a} ELSE raced
  /\ UNCHANGED <<menu, app, server, client, keys, faults, told, unsure>>

(* The statement that writes is done; what to tell is in the slot. *)
Wrote(s, field, key) ==
  Put(s, [op |-> "answer", app |-> slot[s].app, field |-> field, key |-> key])
-----------------------------------------------------------------------------
(* HandleCreateApp: one INSERT. *)
HandleCreateApp(s, a) ==
  /\ slot[s] = Free
  /\ app[a] = "none"
  /\ KeysLeft /\ NewKey
  /\ app' = [app EXCEPT ![a] = "live"]
  /\ client' = [client EXCEPT ![a] = keys']
  /\ Put(s, [op |-> "answer", app |-> a, field |-> "client", key |-> keys'])
  /\ UNCHANGED <<menu, server, faults, told, raced, unsure>>

(* HandleGenerateServerKey, HandleRotateServerKey, HandleDeleteServerKey:    *)
(* fetchAppRow; 404 without a row, 409 or 404 when there is a key or none.   *)
GenerateFetch(s, a) == server[a] = NoKey /\ Found(s, "generate", a)
RotateFetch(s, a) == server[a] # NoKey /\ Found(s, "rotate", a)
DeleteFetch(s, a) == server[a] # NoKey /\ Found(s, "delete", a)

(* UPDATE apps ... RETURNING; without a row the request fails. *)
generateAndStore(s) ==
  /\ slot[s].op \in {"generate", "rotate"}
  /\ NewKey
  /\ LET a == slot[s].app IN
     IF app[a] = "live"
     THEN server' = [server EXCEPT ![a] = keys'] /\ Wrote(s, "server", keys')
     ELSE Put(s, Free) /\ UNCHANGED server
  /\ UNCHANGED <<menu, app, client, faults, told, raced, unsure>>

(* Mutant: the key is not among the columns. *)
DeleteServerKeyNot(s) ==
  /\ slot[s].op = "delete"
  /\ Wrote(s, "server", NoKey)
  /\ UNCHANGED <<menu, app, server, client, keys, faults, told, raced, unsure>>

(* The three columns are set to NULL; it does not matter whether there is a  *)
(* row.                                                                      *)
DeleteServerKey(s) ==
  /\ slot[s].op = "delete"
  /\ server' = [server EXCEPT ![slot[s].app] = NoKey]
  /\ Wrote(s, "server", NoKey)
  /\ UNCHANGED <<menu, app, client, keys, faults, told, raced, unsure>>

(* HandleRotateKey: the row is looked up, then its hash is replaced.  A row  *)
(* that is gone by then makes no difference to the answer.                   *)
RotateKeyFetch(s, a) == Found(s, "rotate client", a)

HandleRotateKey(s) ==
  /\ slot[s].op = "rotate client"
  /\ NewKey
  /\ client' = IF app[slot[s].app] = "live"
               THEN [client EXCEPT ![slot[s].app] = keys'] ELSE client
  /\ Wrote(s, "client", keys')
  /\ UNCHANGED <<menu, app, server, faults, told, raced, unsure>>

(* HandleDeleteApp: the row is looked up, ... *)
DeleteAppFetch(s, a) == Found(s, "delete app", a)

(* ... then deleted with all that refers to it and may be (cascades); a row  *)
(* that is gone makes no difference to the answer.                           *)
HandleDeleteApp(s, a) ==
  /\ slot[s] = [op |-> "delete app", app |-> a]
  /\ app' = [app EXCEPT ![a] = "deleted"]
  /\ server' = [server EXCEPT ![a] = NoKey]
  /\ client' = [client EXCEPT ![a] = NoKey]
  /\ Put(s, Free)
  /\ UNCHANGED <<menu, keys, faults, told, raced, unsure>>

(* The writing statement fails: 500. *)
WriteError(s) ==
  /\ slot[s].op \in WriteOp
  /\ Fault
  /\ Put(s, Free)
  /\ UNCHANGED <<menu, app, server, client, keys, told, raced, unsure>>

(* The caller gets the answer, or does not. *)
Respond(s) ==
  /\ slot[s].op = "answer"
  /\ told' = [told EXCEPT ![slot[s].app][slot[s].field] = slot[s].key]
  /\ Put(s, Free)
  /\ UNCHANGED <<menu, app, server, client, keys, faults, raced, unsure>>

AnswerLost(s) ==
  /\ slot[s].op = "answer"
  /\ Fault
  /\ unsure' = unsure \union {slot[s].app}
  /\ Put(s, Free)
  /\ UNCHANGED <<menu, app, server, client, keys, told, raced>>

KeyRequests ==
  \E s \in Slot :
    \/ \E a \in App : \/ HandleCreateApp(s, a) \/ GenerateFetch(s, a)
                      \/ RotateFetch(s, a) \/ DeleteFetch(s, a)
                      \/ RotateKeyFetch(s, a) \/ DeleteAppFetch(s, a)
    \/ generateAndStore(s) \/ DeleteServerKey(s) \/ HandleRotateKey(s)
    \/ WriteError(s) \/ Respond(s) \/ AnswerLost(s)
-----------------------------------------------------------------------------
(* When no request is in progress, the keys in the row are the last ones     *)
(* that a caller was given, unless two requests overlapped or an answer was  *)
(* lost (server_key.go:297-317, app.go:359-370).                             *)
KeysAsTold ==
  \A a \in App :
    app[a] = "live" /\ a \notin raced \union unsure /\ (\A s \in Slot : ~On(s, a))
    => told[a] = [server |-> server[a], client |-> client[a]]
=============================================================================
