---------------------------- MODULE Conferences ----------------------------
(***************************************************************************)
(* Conferences in the query API: the paginated list (handler/conference.go), *)
(* the detail view (conference_detail.go, and its copy in share.go) and    *)
(* share tokens (share.go), while flushes add rows and apps are deleted.   *)
(*                                                                         *)
(* A row is its id, and what it refers to is fixed with the id.  A session *)
(* may be without connections and a participant without sessions: a        *)
(* payload may name a session or connection that another one has stored.   *)
(*                                                                         *)
(* The view of a shared conference is modelled for a caller whose session  *)
(* is in the request's context.  The route is outside the session          *)
(* middleware (query/server.go:80-82), so that as routed every visitor is  *)
(* redirected to the login.                                                *)
(***************************************************************************)
EXTENDS Apps, Sequences, Functions

CONSTANTS
  Report,          \* payloads, as the ids of the rows that they name
  SessionOf, PartOf, ConfOf, AppOf,  \* the rows above a connection, session,
                                     \* participant, conference
  ConnStart, Joined, Start,  \* started_at, joined_at, started_at of them
  FullAt,          \* lengths at which append finds a slice full
  Limit,           \* page size of the list
  Token, User, Admin,  \* Admin: users with the admin role
  MaxViews         \* bound on views of a token

VARIABLES
  confs, parts, sessions, conns,  \* rows of conferences, ..., connections
  stats,           \* connections with rows in connection_stats
  token,           \* token[t]: a row of share_tokens, NoRow or Revoked
  shown,           \* shown[t]: 200 answers to views of t (history)
  revokes          \* revokes[t]: 204 answers to revocations of t (history)

tables == <<confs, parts, sessions, conns, stats>>
confVars == <<tables, token, shown, revokes>>
vars == <<appVars, confVars>>

NoRow == [state |-> "none"]
Revoked == [state |-> "revoked"]
Live(t) == token[t].state = "live"

Init ==
  /\ AInit
  /\ confs = {} /\ parts = {} /\ sessions = {} /\ conns = {} /\ stats = {}
  /\ token = [t \in Token |-> NoRow]
  /\ shown = [t \in Token |-> 0]
  /\ revokes = [t \in Token |-> 0]

ConfOfConn(k) == ConfOf[PartOf[SessionOf[k]]]
Participants(c) == {p \in parts : ConfOf[p] = c}
ConfsOf(a) == {c \in confs : AppOf[c] = a}

(* The limit of a page is at least 1 (conference.go:77-83); ids and times    *)
(* are numbers, ids positive ones (BIGSERIAL).                               *)
Null == 0
ASSUME ConferencesAssumption ==
  /\ Limit \in Nat \ {0}
  /\ \A x \in Report : /\ x.sess \in Int /\ PartOf[x.sess] \in Int
                        /\ Start[x.conf] \in Int /\ x.conn # Null

(* The sequences in which ORDER BY may return a set of rows: equal keys come *)
(* in any order.                                                             *)
Ordered(rows, Before(_, _)) ==
  {q \in [1 .. Cardinality(rows) -> rows] :
     /\ Range(q) = rows
     /\ \A i, j \in DOMAIN q : i < j => ~Before(q[j], q[i])}
-----------------------------------------------------------------------------
(* A payload is stored.  Each upsert takes the row that has the external id  *)
(* (the user, of a participant), or adds one below the row of the payload.   *)
(* A participant may be below another conference of the batch (Flusher).     *)
Flush(x) ==
  /\ x \in menu.reports
  /\ app[AppOf[x.conf]] = "live"
  /\ ConfOf[x.part] \in confs \union {x.conf}
  /\ x.sess \in sessions \/ PartOf[x.sess] = x.part
  /\ x.conn \in conns \/ SessionOf[x.conn] = x.sess
  /\ confs' = confs \union {x.conf}
  /\ parts' = parts \union {x.part}
  /\ sessions' = sessions \union {x.sess}
  /\ conns' = conns \union {x.conn}
  /\ stats' = stats \union {x.conn}
  /\ UNCHANGED <<appVars, token, shown, revokes>>

(* The retention job drops partitions with old statistics (Retention). *)
DropPartition ==
  /\ stats' \in SUBSET stats \ {stats}
  /\ UNCHANGED <<appVars, confs, parts, sessions, conns, token, shown, revokes>>

(* ON DELETE CASCADE from apps down to connections and share_tokens. *)
Cascade(a) ==
  /\ confs' = {c \in confs : AppOf[c] # a}
  /\ parts' = {p \in parts : AppOf[ConfOf[p]] # a}
  /\ sessions' = {s \in sessions : AppOf[ConfOf[PartOf[s]]] # a}
  /\ conns' = {k \in conns : AppOf[ConfOfConn(k)] # a}
  /\ token' = [t \in Token |-> IF Live(t) /\ AppOf[token[t].conf] = a
                               THEN Revoked ELSE token[t]]

(* The DELETE takes everything with it; connection_stats refers to           *)
(* connections without ON DELETE, so statistics make it fail.                *)
DeleteApp(s, a) ==
  /\ \A k \in stats : AppOf[ConfOfConn(k)] # a
  /\ HandleDeleteApp(s, a)
  /\ Cascade(a)
  /\ UNCHANGED <<stats, shown, revokes>>

DeleteAppRefused(s, a) ==
  /\ \E k \in stats : AppOf[ConfOfConn(k)] = a
  /\ slot[s] = [op |-> "delete app", app |-> a]
  /\ Put(s, Free)
  /\ UNCHANGED <<menu, app, server, client, keys, faults, told, raced, unsure, confVars>>

-----------------------------------------------------------------------------
(* A step of a handler that changes nothing but its slot. *)
Reads(s, x) ==
  /\ Put(s, x)
  /\ UNCHANGED <<menu, app, server, client, keys, faults, told, raced, unsure, confVars>>

(* Mutant: pages are counted from 0. *)
OffsetFromOne(page) == page * Limit

Offset(page) == (page - 1) * Limit

(* ORDER BY started_at DESC LIMIT OFFSET *)
Page(q, page) ==
  {q[i] : i \in {i \in DOMAIN q : Offset(page) < i /\ i <= Offset(page) + Limit}}

(* A client walks through the pages of HandleListConferences until one is    *)
(* not full: the app is looked up (403), then a page is read.                *)
ListBegin(s, a) ==
  /\ slot[s] = Free
  /\ "list" \in menu.ops
  /\ app[a] = "live"
  /\ Reads(s, [op |-> "list", app |-> a, page |-> 1, seen |-> {}, full |-> TRUE,
               first |-> ConfsOf(a)])

HandleListConferences(s) ==
  /\ slot[s].op = "list" /\ slot[s].full
  /\ app[slot[s].app] = "live"
  /\ \E q \in Ordered(ConfsOf(slot[s].app), LAMBDA b, c : Start[b] > Start[c]) :
       LET data == Page(q, slot[s].page) IN
       Reads(s, [slot[s] EXCEPT !.page = @ + 1, !.seen = @ \union data,
                                !.full = Cardinality(data) = Limit])

ListEnd(s) ==
  /\ slot[s].op = "list"
  /\ ~slot[s].full \/ app[slot[s].app] # "live"
  /\ Reads(s, Free)
-----------------------------------------------------------------------------
(* The rows of sessions LEFT JOIN connections WHERE participant_id = ANY: a  *)
(* session without a connection has one row.                                 *)
JoinRows(ps) ==
  LET of == {s \in sessions : PartOf[s] \in ps}
      joined == {k \in conns : SessionOf[k] \in of}
      Row(s, k) == [part |-> PartOf[s], sess |-> s, conn |-> k] IN
  {Row(SessionOf[k], k) : k \in joined}
    \union {Row(s, Null) : s \in {s \in of : \A k \in joined : SessionOf[k] # s}}

(* started_at NULLS LAST *)
Earlier(k, l) == k # Null /\ (l = Null \/ ConnStart[k] < ConnStart[l])

(* Mutant: ORDER BY participant_id, started_at. *)
RowBeforeNoSession(x, y) ==
  \/ x.part < y.part
  \/ x.part = y.part /\ Earlier(x.conn, y.conn)

(* ORDER BY participant_id, session id, started_at *)
RowBefore(x, y) ==
  \/ x.part < y.part
  \/ x.part = y.part /\ x.sess < y.sess
  \/ x.sess = y.sess /\ Earlier(x.conn, y.conn)

(* What the loop over the rows builds.  sessions[p] is p.Sessions, array[p]  *)
(* the number of its array (append moves a full slice to a new one),         *)
(* pointer[s] what sessionMap has for s: an array and an index.              *)
Unassembled(order) ==
  [sessions |-> [p \in Range(order) |-> <<>>],
   array |-> [p \in Range(order) |-> 0],
   pointer |-> <<>>]

(* The first row of a session appends it. *)
AddSession(st, x) ==
  IF x.sess \in DOMAIN st.pointer THEN st
  ELSE LET n == Len(st.sessions[x.part])
           arr == st.array[x.part] + (IF n \in FullAt THEN 1 ELSE 0) IN
       [sessions |-> [st.sessions EXCEPT ![x.part] =
                        Append(@, [id |-> x.sess, conns |-> <<>>])],
        array |-> [st.array EXCEPT ![x.part] = arr],
        pointer |-> [s \in DOMAIN st.pointer \union {x.sess} |->
                       IF s = x.sess THEN <<arr, n + 1>> ELSE st.pointer[s]]]

(* A connection, if the row has one, is appended through the pointer; in an  *)
(* array that p.Sessions has left it is not in the answer.                   *)
AddConn(st, x) ==
  IF x.conn # Null /\ st.pointer[x.sess][1] = st.array[x.part]
  THEN [st EXCEPT !.sessions[x.part][st.pointer[x.sess][2]].conns = Append(@, x.conn)]
  ELSE st

AssembleLoop(order, rows) ==
  LET loop[i \in 0..Len(rows)] ==
        IF i = 0 THEN Unassembled(order)
        ELSE AddConn(AddSession(loop[i - 1], rows[i]), rows[i])
  IN loop[Len(rows)]

Assemble(order, rows) ==
  LET loop == AssembleLoop(order, rows) IN
  [i \in DOMAIN order |-> [id |-> order[i], sessions |-> loop.sessions[order[i]]]]

(* HandleGetConference: the conference with its organisation, ... *)
DetailBegin(s, c) ==
  /\ slot[s] = Free
  /\ "detail" \in menu.ops
  /\ c \in confs
  /\ Reads(s, [op |-> "participants", conf |-> c, token |-> "none"])

(* ... the participants, ORDER BY joined_at, ... *)
ReadParticipants(s) ==
  /\ slot[s].op = "participants"
  /\ \E q \in Ordered(Participants(slot[s].conf), LAMBDA x, y : Joined[x] < Joined[y]) :
       Reads(s, [op |-> "sessions", conf |-> slot[s].conf, token |-> slot[s].token,
                 order |-> q])

(* ... and their sessions and connections, assembled (see DetailIsWhole). *)
ReadSessions(s) ==
  /\ slot[s].op = "sessions"
  /\ Reads(s, IF slot[s].token = "none" THEN Free
              ELSE [op |-> "count", token |-> slot[s].token])
-----------------------------------------------------------------------------
(* HandleCreateShareToken: the conference, ... *)
ShareBegin(s, c, u) ==
  /\ slot[s] = Free
  /\ "share" \in menu.ops
  /\ Cardinality({x \in Slot : slot[x].op = "share"})
       < Cardinality({t \in Token : token[t] = NoRow})
  /\ c \in confs
  /\ Reads(s, [op |-> "share", conf |-> c, by |-> u])

(* ... then the token, which needs the conference (foreign key). *)
Shared(s, t) ==
  IF slot[s].conf \in confs
  THEN [token EXCEPT ![t] = [state |-> "live", conf |-> slot[s].conf,
                             by |-> slot[s].by, views |-> 0]]
  ELSE token

HandleCreateShareToken(s, t) ==
  /\ slot[s].op = "share"
  /\ token[t] = NoRow
  /\ Put(s, Free)
  /\ token' = Shared(s, t)
  /\ UNCHANGED <<menu, app, server, client, keys, faults, told, raced, unsure,
                 tables, shown, revokes>>

(* HandleGetShareToken, for a caller whose session is in the context: the    *)
(* token and its organisation, ...                                           *)
ViewBegin(s, t) ==
  /\ slot[s] = Free
  /\ "view" \in menu.ops
  /\ Live(t) /\ token[t].views < MaxViews
  /\ Reads(s, [op |-> "conference", token |-> t, conf |-> token[t].conf])

(* ... fetchConferenceDetail, which fails without the conference and goes on *)
(* as HandleGetConference does, ...                                          *)
ViewConference(s) ==
  /\ slot[s].op = "conference"
  /\ Reads(s, IF slot[s].conf \in confs
              THEN [op |-> "participants", conf |-> slot[s].conf, token |-> slot[s].token]
              ELSE Free)

(* view_count = view_count + 1 of a token that may be gone *)
CountOne(t) == IF Live(t) THEN [token EXCEPT ![t].views = @ + 1] ELSE token

(* ... then the view is counted and the conference shown. *)
CountView(s) ==
  /\ slot[s].op = "count"
  /\ token' = CountOne(slot[s].token)
  /\ shown' = [shown EXCEPT ![slot[s].token] = @ + 1]
  /\ Put(s, Free)
  /\ UNCHANGED <<menu, app, server, client, keys, faults, told, raced, unsure,
                 tables, revokes>>

(* HandleRevokeShareToken: the token, for an admin or its creator, ... *)
RevokeBegin(s, t, u) ==
  /\ slot[s] = Free
  /\ "revoke" \in menu.ops
  /\ Live(t)
  /\ u \in Admin \/ token[t].by = u
  /\ Reads(s, [op |-> "revoke", token |-> t])

(* Mutant: RowsAffected is not looked at. *)
RevokeAnyway(s) ==
  /\ slot[s].op = "revoke"
  /\ LET t == slot[s].token IN
     /\ token' = IF Live(t) THEN [token EXCEPT ![t] = Revoked] ELSE token
     /\ revokes' = [revokes EXCEPT ![t] = @ + 1]
  /\ Put(s, Free)
  /\ UNCHANGED <<menu, app, server, client, keys, faults, told, raced, unsure,
                 tables, shown>>

(* ... then its DELETE: 204, or 404 if it has gone. *)
HandleRevokeShareToken(s) ==
  /\ slot[s].op = "revoke"
  /\ LET t == slot[s].token IN
     IF Live(t)
     THEN /\ token' = [token EXCEPT ![t] = Revoked]
          /\ revokes' = [revokes EXCEPT ![t] = @ + 1]
     ELSE UNCHANGED <<token, revokes>>
  /\ Put(s, Free)
  /\ UNCHANGED <<menu, app, server, client, keys, faults, told, raced, unsure,
                 tables, shown>>

(* A statement of these handlers fails: 500.  One that writes may have been  *)
(* done although its answer was lost.                                        *)
StatementError(s) ==
  /\ slot[s].op \in {"participants", "sessions", "share", "conference", "count", "revoke"}
  /\ Fault
  /\ \/ UNCHANGED token
     \/ slot[s].op = "share" /\ \E t \in Token : token[t] = NoRow /\ token' = Shared(s, t)
     \/ slot[s].op = "count" /\ token' = CountOne(slot[s].token)
     \/ slot[s].op = "revoke" /\ Live(slot[s].token)
        /\ token' = [token EXCEPT ![slot[s].token] = Revoked]
  /\ Put(s, Free)
  /\ UNCHANGED <<menu, app, server, client, keys, told, raced, unsure,
                 tables, shown, revokes>>

(* No request is in progress, and none need come. *)
Idle == (\A s \in Slot : slot[s] = Free) /\ UNCHANGED vars
-----------------------------------------------------------------------------
Next ==
  \/ KeyRequests /\ UNCHANGED confVars
  \/ \E x \in Report : Flush(x)
  \/ DropPartition
  \/ \E s \in Slot :
       \/ \E a \in App : DeleteApp(s, a) \/ DeleteAppRefused(s, a) \/ ListBegin(s, a)
       \/ \E c \in confs : DetailBegin(s, c) \/ \E u \in User : ShareBegin(s, c, u)
       \/ \E t \in Token : \/ HandleCreateShareToken(s, t)
                           \/ ViewBegin(s, t) \/ \E u \in User : RevokeBegin(s, t, u)
       \/ HandleListConferences(s) \/ ListEnd(s)
       \/ ReadParticipants(s) \/ ReadSessions(s)
       \/ ViewConference(s) \/ CountView(s)
       \/ HandleRevokeShareToken(s) \/ StatementError(s)
  \/ Idle

Spec == Init /\ [][Next]_vars
-----------------------------------------------------------------------------
(* A walk through the pages shows every conference that was there when it    *)
(* began and whose start time is its own, whatever is stored meanwhile:      *)
(* offsets of later pages never skip one (conference.go:76-84, 186-191).     *)
(* Conferences of one flush share their start time, and their order may      *)
(* differ from page to page.                                                 *)
WalkShowsAll ==
  \A s \in Slot : slot[s].op = "list" /\ ~slot[s].full /\ app[slot[s].app] = "live" =>
    \A c \in slot[s].first :
      \/ c \in slot[s].seen
      \/ \E d \in ConfsOf(slot[s].app) : d # c /\ Start[d] = Start[c]

(* The detail view has every participant it has read with all of its         *)
(* sessions, and every session with all of its connections, once: no         *)
(* connection is attached through a pointer into an array that append has    *)
(* left (conference_detail.go:205-232, share.go:424-452).                    *)
DetailIsWhole ==
  \A s \in Slot : slot[s].op = "sessions" =>
    LET order == slot[s].order IN
    \A rows \in Ordered(JoinRows(Range(order)), RowBefore) :
      LET detail == Assemble(order, rows) IN
      \A i \in DOMAIN order :
        LET ss == detail[i].sessions IN
        /\ Range([j \in DOMAIN ss |-> ss[j].id]) = {x \in sessions : PartOf[x] = order[i]}
        /\ \A j, n \in DOMAIN ss : ss[j].id = ss[n].id => j = n
        /\ \A j \in DOMAIN ss :
             /\ Range(ss[j].conns) = {k \in conns : SessionOf[k] = ss[j].id}
             /\ Len(ss[j].conns) = Cardinality(Range(ss[j].conns))

(* What callers were told of a share token agrees with its row, however      *)
(* views and revocations by its creator and by admins overlap: view_count is *)
(* the number of views that were answered with the conference (one more is   *)
(* counted only by an UPDATE that was reported as failed), and at most one   *)
(* revocation is answered with 204 (share.go:165-185, 233-251).              *)
TokensAsTold ==
  \A t \in Token :
    /\ Live(t) => token[t].views \in shown[t] .. shown[t] + faults
    /\ revokes[t] <= 1
=============================================================================
