-------------------------------- MODULE Team --------------------------------
(***************************************************************************)
(* Accounts, organisations, members, invitations and sessions of the query *)
(* API (handler/auth.go, handler/team.go, HandleCreateOrg of               *)
(* handler/app.go, internal/session).                                      *)
(*                                                                         *)
(* A user is named by the email, an organisation by the user who founded   *)
(* it.  A slot serves one request at a time.  Each handler is split where  *)
(* another request can come in between: after a read, and before a write   *)
(* that commits.  In READ COMMITTED the reads of a transaction see what is *)
(* committed at that moment, and its writes are seen when it commits.      *)
(* Every request can fail at any of its statements.                        *)
(***************************************************************************)
EXTENDS FiniteSets, Naturals

CONSTANTS
  User, Slot, Inv,
  Password,    \* passwords, represented by their hashes
  MaxSessions  \* bound on the sessions in Redis at once

VARIABLES
  password,    \* users: password[u] or NoAccount
  role,        \* organization_members: role[o][u], "none" without a row
  inv,         \* invitations
  orgs,        \* organizations
  sess,        \* sessions in Redis
  req,         \* req[q]: the request served in slot q
  raced        \* organisations with two changes of members in progress at
               \* once, and "register" for two registrations (history)

vars == <<password, role, inv, orgs, sess, req, raced>>

NoAccount == "no account"

ASSUME TeamAssumption == NoAccount \notin Password

Role == {"admin", "member"}
Idle == [at |-> "idle"]

Exists(u) == password[u] # NoAccount
Admins(o) == {u \in User : role[o][u] = "admin"}
NoInvitation == [state |-> "none"]

(* The session of a request's cookie is in Redis. *)
sessionMiddleware(s) == s \in sess

(* requireAdmin looks at the role kept in the session. *)
requireAdmin(s) == sessionMiddleware(s) /\ s.role = "admin"

Init ==
  /\ password = [u \in User |-> NoAccount]
  /\ role = [o \in User |-> [u \in User |-> "none"]]
  /\ inv = [i \in Inv |-> NoInvitation]
  /\ orgs = {}
  /\ sess = {}
  /\ req = [q \in Slot |-> Idle]
  /\ raced = {}

Begin(q, r) == req[q] = Idle /\ req' = [req EXCEPT ![q] = r]

(* raced, when a request of kind op about key begins. *)
Racing(op, key) ==
  IF \E q \in Slot : req[q] # Idle /\ req[q].op = op /\ req[q].org = key
  THEN raced \union {key} ELSE raced
At(q, op, at) == req[q].at = at /\ req[q].op = op
Finish(q) == req' = [req EXCEPT ![q] = Idle]

(* Committed: the handler goes on to create a session for u in o. *)
ThenSession(q, o, u, r) ==
  req' = [req EXCEPT ![q] = [at |-> "session", op |-> "session",
                             new |-> [org |-> o, user |-> u, role |-> r]]]

(* A statement fails: 500, and the deferred Rollback. *)
Fail(q) ==
  /\ req[q] # Idle
  /\ Finish(q)
  /\ UNCHANGED <<password, role, inv, orgs, sess, raced>>

-----------------------------------------------------------------------------
(* Mutant: the count is left out. *)
RegisterCountAny(q, u, p) ==
  /\ Begin(q, [at |-> "insert", op |-> "register", org |-> "register", user |-> u, password |-> p])
  /\ raced' = Racing("register", "register")
  /\ UNCHANGED <<password, role, inv, orgs, sess>>

(* HandleRegister counts the users and, if there are none, *)
RegisterCount(q, u, p) ==
  /\ \A v \in User : ~Exists(v)
  /\ Begin(q, [at |-> "insert", op |-> "register", org |-> "register", user |-> u, password |-> p])
  /\ raced' = Racing("register", "register")
  /\ UNCHANGED <<password, role, inv, orgs, sess>>

(* ... inserts the user, an organisation and its first admin.  users.email  *)
(* is unique.                                                               *)
RegisterInsert(q) ==
  /\ At(q, "register", "insert")
  /\ LET u == req[q].user IN
       /\ ~Exists(u)
       /\ password' = [password EXCEPT ![u] = req[q].password]
       /\ orgs' = orgs \union {u}
       /\ role' = [role EXCEPT ![u][u] = "admin"]
       /\ ThenSession(q, u, u, "admin")
  /\ UNCHANGED <<inv, sess, raced>>

(* HandleLogin reads account, organisation and role together. *)
LoginRead(q, o, u) ==
  /\ Exists(u) /\ role[o][u] # "none"
  /\ Begin(q, [at |-> "session", op |-> "session",
               new |-> [org |-> o, user |-> u, role |-> role[o][u]]])
  /\ UNCHANGED <<password, role, inv, orgs, sess, raced>>

(* sessions.Create *)
SessionCreate(q) ==
  /\ At(q, "session", "session")
  /\ sess' = sess \union {req[q].new}
  /\ Cardinality(sess') <= MaxSessions
  /\ Finish(q)
  /\ UNCHANGED <<password, role, inv, orgs, raced>>

(* HandleLogout, and the expiry of the key. *)
SessionDelete(s) ==
  /\ s \in sess
  /\ sess' = sess \ {s}
  /\ UNCHANGED <<password, role, inv, orgs, req, raced>>

(* HandleCreateOrg inserts an organisation and its admin, and commits; the   *)
(* old session is deleted (an error is ignored) and a new one created.  The  *)
(* bound is one organisation for each founder.                               *)
HandleCreateOrg(q, s) ==
  /\ sessionMiddleware(s)
  /\ s.user \notin orgs
  /\ req[q] = Idle
  /\ orgs' = orgs \union {s.user}
  /\ role' = [role EXCEPT ![s.user][s.user] = "admin"]
  /\ sess' = sess \ {s} \/ sess' = sess
  /\ ThenSession(q, s.user, s.user, "admin")
  /\ UNCHANGED <<password, inv, raced>>

HandlePatchMe(s, p) ==
  /\ sessionMiddleware(s)
  /\ password' = [password EXCEPT ![s.user] = p]
  /\ UNCHANGED <<role, inv, orgs, sess, req, raced>>

-----------------------------------------------------------------------------
(* HandleChangeRole and HandleRemoveMember read the member's role; only an  *)
(* admin who is to lose the role is counted first.                          *)
ChangeRoleRead(q, s, u, r) ==
  /\ requireAdmin(s)
  /\ role[s.org][u] # "none"
  /\ Begin(q, [at |-> IF role[s.org][u] = "admin" /\ r = "member" THEN "count" ELSE "write",
               op |-> "change", org |-> s.org, user |-> u, role |-> r])
  /\ raced' = Racing("change", s.org)
  /\ UNCHANGED <<password, role, inv, orgs, sess>>

RemoveMemberRead(q, s, u) ==
  /\ requireAdmin(s)
  /\ role[s.org][u] # "none"
  /\ Begin(q, [at |-> IF role[s.org][u] = "admin" THEN "count" ELSE "write",
               op |-> "change", org |-> s.org, user |-> u, role |-> "none"])
  /\ raced' = Racing("change", s.org)
  /\ UNCHANGED <<password, role, inv, orgs, sess>>

(* Mutant: adminCount == 0. *)
CountAdminsZero(q) ==
  /\ At(q, "change", "count")
  /\ req' = [req EXCEPT ![q] = IF Admins(req[q].org) = {}
                               THEN Idle ELSE [@ EXCEPT !.at = "write"]]
  /\ UNCHANGED <<password, role, inv, orgs, sess, raced>>

(* adminCount == 1: 409. *)
CountAdmins(q) ==
  /\ At(q, "change", "count")
  /\ req' = [req EXCEPT ![q] = IF Cardinality(Admins(req[q].org)) = 1
                               THEN Idle ELSE [@ EXCEPT !.at = "write"]]
  /\ UNCHANGED <<password, role, inv, orgs, sess, raced>>

(* UPDATE or DELETE of the row, if it is still there, and Commit. *)
ChangeMember(q) ==
  /\ At(q, "change", "write")
  /\ role' = [role EXCEPT ![req[q].org][req[q].user] =
                IF @ = "none" THEN @ ELSE req[q].role]
  /\ Finish(q)
  /\ UNCHANGED <<password, inv, orgs, sess, raced>>

-----------------------------------------------------------------------------
(* HandleCreateInvitation refuses an email that is a member already. *)
InviteCheck(q, s, u, r) ==
  /\ requireAdmin(s)
  /\ role[s.org][u] = "none"
  /\ Begin(q, [at |-> "insert", op |-> "invite", org |-> s.org, user |-> u, role |-> r])
  /\ UNCHANGED <<password, role, inv, orgs, sess, raced>>

InviteInsert(q, i) ==
  /\ At(q, "invite", "insert")
  /\ inv[i] = NoInvitation
  /\ inv' = [inv EXCEPT ![i] = [state |-> "open", org |-> req[q].org,
                                user |-> req[q].user, role |-> req[q].role]]
  /\ Finish(q)
  /\ UNCHANGED <<password, role, orgs, sess, raced>>

HandleRevokeInvitation(s, i) ==
  /\ requireAdmin(s)
  /\ inv[i].state \in {"open", "accepted", "expired"} /\ inv[i].org = s.org
  /\ inv' = [inv EXCEPT ![i] = [state |-> "revoked"]]
  /\ UNCHANGED <<password, role, orgs, sess, req, raced>>

(* Seven days pass. *)
InvitationExpire(i) ==
  /\ inv[i].state = "open"
  /\ inv' = [inv EXCEPT ![i].state = "expired"]
  /\ UNCHANGED <<password, role, orgs, sess, req, raced>>

(* HandleAcceptInvitation reads the invitation and, if it is open, *)
AcceptRead(q, i, p) ==
  /\ inv[i].state = "open"
  /\ Begin(q, [at |-> "write", op |-> "accept", inv |-> i, password |-> p,
               org |-> inv[i].org, user |-> inv[i].user, role |-> inv[i].role])
  /\ UNCHANGED <<password, role, inv, orgs, sess, raced>>

(* Mutant: ON CONFLICT (org_id, user_id) DO UPDATE. *)
AcceptWriteRole(q) ==
  /\ At(q, "accept", "write")
  /\ LET a == req[q] IN
       /\ password' = [password EXCEPT ![a.user] = IF @ = NoAccount THEN a.password ELSE @]
       /\ role' = [role EXCEPT ![a.org][a.user] = a.role]
       /\ inv' = [inv EXCEPT ![a.inv].state = IF @ = "revoked" THEN @ ELSE "accepted"]
       /\ ThenSession(q, a.org, a.user, a.role)
  /\ UNCHANGED <<orgs, sess, raced>>

(* ... inserts the user and the member unless they exist, marks the         *)
(* invitation (if it has not been deleted) and commits.                     *)
AcceptWrite(q) ==
  /\ At(q, "accept", "write")
  /\ LET a == req[q] IN
       /\ password' = [password EXCEPT ![a.user] = IF @ = NoAccount THEN a.password ELSE @]
       /\ role' = [role EXCEPT ![a.org][a.user] = IF @ = "none" THEN a.role ELSE @]
       /\ inv' = [inv EXCEPT ![a.inv].state = IF @ = "revoked" THEN @ ELSE "accepted"]
       /\ ThenSession(q, a.org, a.user, a.role)
  /\ UNCHANGED <<orgs, sess, raced>>

-----------------------------------------------------------------------------
Next ==
  \/ \E q \in Slot, u \in User, p \in Password : RegisterCount(q, u, p)
  \/ \E q \in Slot : RegisterInsert(q) \/ SessionCreate(q) \/ CountAdmins(q)
                       \/ ChangeMember(q) \/ AcceptWrite(q) \/ Fail(q)
  \/ \E q \in Slot, o, u \in User : LoginRead(q, o, u)
  \/ \E s \in sess : SessionDelete(s) \/ \E q \in Slot : HandleCreateOrg(q, s)
  \/ \E s \in sess, p \in Password : HandlePatchMe(s, p)
  \/ \E q \in Slot, s \in sess, u \in User :
       \/ RemoveMemberRead(q, s, u)
       \/ \E r \in Role : ChangeRoleRead(q, s, u, r) \/ InviteCheck(q, s, u, r)
  \/ \E q \in Slot, i \in Inv :
       InviteInsert(q, i) \/ \E p \in Password : AcceptRead(q, i, p)
  \/ \E i \in Inv : InvitationExpire(i) \/ \E s \in sess : HandleRevokeInvitation(s, i)

Spec == Init /\ [][Next]_vars

-----------------------------------------------------------------------------
(* An organisation always keeps an admin, through role changes, removals    *)
(* and accepted invitations ("Cannot demote the last admin",                *)
(* HandleChangeRole, HandleRemoveMember).                                   *)
OrgHasAdmin == \A o \in orgs : Admins(o) # {}

(* The same as long as no two changes of its members were in progress at    *)
(* once: other requests may come between the count and the write.           *)
OrgHasAdminUnlessRaced == \A o \in orgs \ raced : Admins(o) # {}

(* A registration that commits finds no account, unless two registrations   *)
(* were in progress at once: as soon as any user exists, accounts and        *)
(* organisations come from members only (HandleRegister).                   *)
FoundedOnce ==
  [][\A q \in Slot :
       At(q, "register", "insert") /\ req'[q].at = "session" /\ "register" \notin raced
       => \A u \in User : ~Exists(u)]_vars

(* What an account or a member already has is not overwritten by accepting  *)
(* another invitation: a password changes only by a request of its owner    *)
(* ("never overwrite credentials of an existing account",                   *)
(* HandleAcceptInvitation), a role only by a change an admin asked for.     *)
ExistingKept ==
  [][/\ \A u \in User : Exists(u) /\ password'[u] # password[u] =>
          \E s \in sess : s.user = u /\ HandlePatchMe(s, password'[u])
     /\ \A o, u \in User : role[o][u] # "none" /\ role'[o][u] # role[o][u] =>
          \E q \in Slot : req[q] # Idle /\ req[q].op = "change"
                            /\ req[q].org = o /\ req[q].user = u]_vars
=============================================================================
