---------------------------- MODULE TeamProofs ----------------------------
(***************************************************************************)
(* Proofs about accounts, organisations and their members, for every set   *)
(* of users, invitations and passwords and any number of requests at once. *)
(***************************************************************************)
EXTENDS Team, FiniteSetTheorems, TLAPS

Session == [org : User, user : User, role : Role]
Row == [state : {"open", "accepted", "expired"}, org : User, user : User, role : Role]
Revoked == [state |-> "revoked"]

RegisterReq ==
  [at : {"insert"}, op : {"register"}, org : {"register"}, user : User, password : Password]
SessionReq == [at : {"session"}, op : {"session"}, new : Session]
ChangeReq ==
  [at : {"count", "write"}, op : {"change"}, org : User, user : User, role : Role \union {"none"}]
InviteReq == [at : {"insert"}, op : {"invite"}, org : User, user : User, role : Role]
AcceptReq ==
  [at : {"write"}, op : {"accept"}, inv : Inv, password : Password,
   org : User, user : User, role : Role]
Request == {Idle} \union RegisterReq \union SessionReq \union ChangeReq
             \union InviteReq \union AcceptReq

TeamType ==
  /\ password \in [User -> Password \union {NoAccount}]
  /\ role \in [User -> [User -> Role \union {"none"}]]
  /\ orgs \in SUBSET User
  /\ sess \in SUBSET Session
  /\ inv \in [Inv -> Row \union {NoInvitation, Revoked}]
  /\ req \in [Slot -> Request]

(* Members, sessions and open invitations belong to organisations that      *)
(* were founded, and their founders have accounts.                          *)
OrgInv ==
  /\ \A o \in orgs : Exists(o)
  /\ \A o, u \in User : role[o][u] # "none" => o \in orgs
  /\ \A s \in sess : s.org \in orgs /\ Exists(s.user)
  /\ \A i \in Inv : inv[i].state = "open" => inv[i].org \in orgs

(* So does what a request remembers between two of its steps. *)
RefOK(q) ==
  /\ req[q] \in SessionReq => req[q].new.org \in orgs /\ Exists(req[q].new.user)
  /\ req[q] \in ChangeReq \union InviteReq \union AcceptReq => req[q].org \in orgs
  /\ req[q] \in AcceptReq => inv[req[q].inv].state # "none"

(* The write about to be sent leaves the organisation an admin. *)
WriteOK(o, u, r) ==
  \/ r = "admin"
  \/ role[o][u] # "admin"
  \/ \E v \in User : v # u /\ role[o][v] = "admin"

(* The only change in progress is about someone who is still a member. *)
ChangeOK(q) ==
  req[q] \in ChangeReq /\ req[q].org \notin raced =>
    /\ role[req[q].org][req[q].user] # "none"
    /\ \A p \in Slot : req[p] \in ChangeReq /\ req[p].org = req[q].org => p = q
    /\ req[q].at = "write" => WriteOK(req[q].org, req[q].user, req[q].role)

(* The only registration in progress began without accounts, and there are  *)
(* none yet.                                                                *)
RegisterOK(q) ==
  req[q] \in RegisterReq /\ "register" \notin raced =>
    /\ \A u \in User : ~Exists(u)
    /\ \A p \in Slot : req[p] \in RegisterReq => p = q

RefsInv == \A q \in Slot : RefOK(q)
ChangeInv == \A q \in Slot : ChangeOK(q)
RegisterInv == \A q \in Slot : RegisterOK(q)

TeamInv ==
  TeamType /\ OrgInv /\ RefsInv /\ ChangeInv /\ RegisterInv /\ OrgHasAdminUnlessRaced
-----------------------------------------------------------------------------
(* What a request is, from where it is. *)
LEMMA KindOf ==
  ASSUME NEW r \in Request
  PROVE  /\ r.at = "insert" /\ r.op = "register" => r \in RegisterReq
         /\ r.at = "session" => r \in SessionReq
         /\ r.at = "insert" /\ r.op = "invite" => r \in InviteReq
         /\ r.at = "write" /\ r.op = "accept" => r \in AcceptReq
         /\ r.at \in {"count", "write"} /\ r.op = "change" => r \in ChangeReq
         /\ r \in ChangeReq => r # Idle /\ r.op = "change"
         /\ r \in RegisterReq => r # Idle /\ r.op = "register" /\ r.org = "register"
<1>1. Idle.at = "idle"  BY DEF Idle
<1>2. r = Idle \/ r \in RegisterReq \/ r \in SessionReq \/ r \in ChangeReq
        \/ r \in InviteReq \/ r \in AcceptReq
  BY DEF Request
<1>3. /\ r \in RegisterReq => r.at = "insert" /\ r.op = "register" /\ r.org = "register"
      /\ r \in SessionReq => r.at = "session" /\ r.op = "session"
  BY DEF RegisterReq, SessionReq
<1>4. /\ r \in ChangeReq => r.at \in {"count", "write"} /\ r.op = "change"
      /\ r \in InviteReq => r.at = "insert" /\ r.op = "invite"
      /\ r \in AcceptReq => r.at = "write" /\ r.op = "accept"
  BY DEF ChangeReq, InviteReq, AcceptReq
<1> QED  BY <1>1, <1>2, <1>3, <1>4

(* The kinds of requests are disjoint. *)
LEMMA Kinds ==
  ASSUME NEW r
  PROVE  /\ r \in SessionReq => r \notin RegisterReq \union ChangeReq \union InviteReq \union AcceptReq
         /\ r \in InviteReq => r \notin RegisterReq \union ChangeReq \union SessionReq \union AcceptReq
         /\ r \in AcceptReq => r \notin RegisterReq \union ChangeReq \union SessionReq \union InviteReq
         /\ r \in ChangeReq => r \notin RegisterReq \union AcceptReq \union SessionReq \union InviteReq
         /\ r \in RegisterReq => r \notin ChangeReq \union AcceptReq \union SessionReq \union InviteReq
<1>1. /\ r \in RegisterReq => r.op = "register"
      /\ r \in SessionReq => r.op = "session"
  BY DEF RegisterReq, SessionReq
<1>2. /\ r \in ChangeReq => r.op = "change"
      /\ r \in InviteReq => r.op = "invite"
      /\ r \in AcceptReq => r.op = "accept"
  BY DEF ChangeReq, InviteReq, AcceptReq
<1> QED  BY <1>1, <1>2

(* No request is Idle. *)
LEMMA IdleKind ==
  Idle \notin RegisterReq \union SessionReq \union ChangeReq \union InviteReq \union AcceptReq
<1>1. Idle.at = "idle"  BY DEF Idle
<1>2. Idle \notin RegisterReq \union SessionReq  BY <1>1 DEF RegisterReq, SessionReq
<1>3. Idle \notin ChangeReq \union InviteReq \union AcceptReq
  BY Zenon, <1>1 DEF ChangeReq, InviteReq, AcceptReq
<1> QED  BY <1>2, <1>3
-----------------------------------------------------------------------------
(* What a request remembers stays true: accounts, organisations and         *)
(* invitations do not go away.                                              *)
LEMMA RefsKept ==
  ASSUME RefsInv, orgs \subseteq orgs',
         \A u : Exists(u) => Exists(u)',
         \A i \in Inv : inv[i].state # "none" => inv'[i].state # "none",
         \A p \in Slot : req'[p] = req[p] \/ RefOK(p)'
  PROVE  RefsInv'
<1> SUFFICES ASSUME NEW p \in Slot, req'[p] = req[p] PROVE RefOK(p)'
  BY DEF RefsInv
<1>1. RefOK(p)  BY DEF RefsInv
<1>2. req[p] \in AcceptReq => req[p].inv \in Inv  BY Zenon DEF AcceptReq
<1> QED  BY <1>1, <1>2 DEF RefOK, Exists

(* Only another change can spoil a change: what others write is new. *)
LEMMA ChangeKept ==
  ASSUME ChangeInv, raced \subseteq raced',
         \A p \in Slot : req'[p] = req[p] \/ req'[p] \notin ChangeReq,
         \A o, u \in User : role[o][u] # "none" => role'[o][u] = role[o][u]
  PROVE  ChangeInv'
<1> SUFFICES ASSUME NEW q \in Slot, req'[q] \in ChangeReq, req'[q].org \notin raced'
             PROVE  ChangeOK(q)'
  BY DEF ChangeInv, ChangeOK
<1>1. req'[q] = req[q] /\ req[q] \in ChangeReq /\ req[q].org \notin raced  OBVIOUS
<1>2. req[q].org \in User /\ req[q].user \in User  BY Zenon, <1>1 DEF ChangeReq
<1>3. /\ role[req[q].org][req[q].user] # "none"
      /\ \A p \in Slot : req[p] \in ChangeReq /\ req[p].org = req[q].org => p = q
      /\ req[q].at = "write" => WriteOK(req[q].org, req[q].user, req[q].role)
  BY Zenon, <1>1 DEF ChangeInv, ChangeOK
<1>4. \A p \in Slot : req'[p] \in ChangeReq /\ req'[p].org = req'[q].org => p = q
  BY Zenon, <1>1, <1>3
<1>5. role'[req[q].org][req[q].user] = role[req[q].org][req[q].user]  BY Zenon, <1>2, <1>3
<1>6. WriteOK(req[q].org, req[q].user, req[q].role) =>
        \/ req[q].role = "admin"
        \/ role'[req[q].org][req[q].user] # "admin"
        \/ \E v \in User : v # req[q].user /\ role'[req[q].org][v] = "admin"
  BY <1>2, <1>5 DEF WriteOK
<1> QED  BY Zenon, <1>1, <1>3, <1>4, <1>5, <1>6 DEF ChangeOK, WriteOK

(* Without a new registration: accounts only come where there are some. *)
LEMMA RegisterKept ==
  ASSUME RegisterInv, raced \subseteq raced',
         \A p \in Slot : req'[p] = req[p] \/ req'[p] \notin RegisterReq,
         password' = password \/ \E u \in User : Exists(u)
  PROVE  RegisterInv'
<1> SUFFICES ASSUME NEW q \in Slot, req'[q] \in RegisterReq, "register" \notin raced'
             PROVE  RegisterOK(q)'
  BY DEF RegisterInv, RegisterOK
<1>1. RegisterOK(q) /\ req'[q] = req[q] /\ "register" \notin raced  BY DEF RegisterInv
<1> QED  BY <1>1 DEF RegisterOK, Exists

(* An organisation keeps its admins when only new rows are written. *)
LEMMA AdminsKept ==
  ASSUME OrgHasAdminUnlessRaced, raced \subseteq raced',
         \A o, u \in User : role[o][u] # "none" => role'[o][u] = role[o][u],
         orgs \subseteq User,
         \A o \in orgs' \ orgs : o \in User /\ role'[o][o] = "admin"
  PROVE  OrgHasAdminUnlessRaced'
BY DEF OrgHasAdminUnlessRaced, Admins
-----------------------------------------------------------------------------
(* A step that starts no change and no registration and only adds rows. *)
LEMMA OnlyAdds ==
  ASSUME TeamInv, TeamType', OrgInv', raced' = raced, orgs \subseteq orgs',
         \A u : Exists(u) => Exists(u)',
         \A i \in Inv : inv[i].state # "none" => inv'[i].state # "none",
         \A p \in Slot : req'[p] = req[p] \/
           (req'[p] \notin ChangeReq \union RegisterReq /\ RefOK(p)'),
         \A o, u \in User : role[o][u] # "none" => role'[o][u] = role[o][u],
         \A o \in orgs' \ orgs : o \in User /\ role'[o][o] = "admin",
         password' = password \/ \E u \in User : Exists(u)
  PROVE  TeamInv'
<1>1. RefsInv'  BY RefsKept DEF TeamInv
<1>2. ChangeInv'  BY ChangeKept DEF TeamInv
<1>3. RegisterInv'  BY Zenon, RegisterKept DEF TeamInv
<1>4. OrgHasAdminUnlessRaced'  BY Zenon, AdminsKept DEF TeamInv, TeamType
<1> QED  BY Zenon, <1>1, <1>2, <1>3, <1>4 DEF TeamInv

(* The same of a step that writes no row. *)
LEMMA OnlyRequest ==
  ASSUME TeamInv, UNCHANGED <<password, role, inv, orgs, sess, raced>>,
         NEW q \in Slot, req' = [req EXCEPT ![q] = req'[q]],
         req'[q] \in Request, req'[q] \notin ChangeReq \union RegisterReq, RefOK(q)'
  PROVE  TeamInv'
<1>1. TeamType'  BY DEF TeamInv, TeamType
<1>2. OrgInv'  BY DEF TeamInv, OrgInv, Exists
<1>3. \A p \in Slot : p # q => req'[p] = req[p]  BY DEF TeamInv, TeamType
<1>4. \A u : Exists(u) => Exists(u)'  BY DEF Exists
<1> QED  BY Zenon, <1>1, <1>2, <1>3, <1>4, OnlyAdds

(* A request that ends, by an error. *)
LEMMA FailStep ==
  ASSUME TeamInv, NEW q \in Slot, Fail(q)
  PROVE  TeamInv'
<1>1. req' = [req EXCEPT ![q] = Idle] /\ req'[q] = Idle
  BY DEF Fail, Finish, TeamInv, TeamType
<1>2. RefOK(q)'  BY <1>1, IdleKind DEF RefOK
<1> QED  BY <1>1, <1>2, IdleKind, OnlyRequest, Zenon DEF Request, Fail

(* HandleLogin *)
LEMMA LoginStep ==
  ASSUME TeamInv, NEW q \in Slot, NEW o \in User, NEW u \in User, LoginRead(q, o, u)
  PROVE  TeamInv'
<1> DEFINE r == [at |-> "session", op |-> "session",
                 new |-> [org |-> o, user |-> u, role |-> role[o][u]]]
<1>1. req' = [req EXCEPT ![q] = r] /\ req'[q] = r
  BY Zenon DEF LoginRead, Begin, TeamInv, TeamType
<1>2. Exists(u) /\ role[o][u] # "none" /\ UNCHANGED <<password, role, inv, orgs, sess, raced>>
  BY DEF LoginRead
<1>3. role[o][u] \in Role  BY Zenon, <1>2 DEF TeamInv, TeamType
<1>4. r \in SessionReq  BY Zenon, <1>3 DEF SessionReq, Session
<1>5. r.new.org = o /\ r.new.user = u  OBVIOUS
<1>6. o \in orgs  BY Zenon, <1>2 DEF TeamInv, OrgInv
<1> HIDE DEF r
<1>7. RefOK(q)'  BY <1>1, <1>2, <1>4, <1>5, <1>6, Kinds DEF RefOK, Exists
<1> QED  BY <1>1, <1>2, <1>4, <1>7, Kinds, OnlyRequest, Zenon DEF Request

(* HandleCreateInvitation, up to the insert *)
LEMMA InviteStep ==
  ASSUME TeamInv, NEW q \in Slot, NEW s \in sess, NEW u \in User, NEW c \in Role,
         InviteCheck(q, s, u, c)
  PROVE  TeamInv'
<1> DEFINE r == [at |-> "insert", op |-> "invite", org |-> s.org, user |-> u, role |-> c]
<1>1. req' = [req EXCEPT ![q] = r] /\ req'[q] = r
  BY DEF InviteCheck, Begin, TeamInv, TeamType
<1>2. UNCHANGED <<password, role, inv, orgs, sess, raced>>  BY DEF InviteCheck
<1>3. s.org \in orgs /\ s.org \in User  BY DEF TeamInv, OrgInv, TeamType
<1>4. r \in InviteReq /\ r.org = s.org  BY Zenon, <1>3 DEF InviteReq
<1> HIDE DEF r
<1>5. RefOK(q)'  BY <1>1, <1>2, <1>3, <1>4, Kinds DEF RefOK
<1> QED  BY <1>1, <1>2, <1>4, <1>5, Kinds, OnlyRequest, Zenon DEF Request

(* HandleAcceptInvitation, up to the transaction *)
LEMMA AcceptReadStep ==
  ASSUME TeamInv, NEW q \in Slot, NEW i \in Inv, NEW p \in Password, AcceptRead(q, i, p)
  PROVE  TeamInv'
<1> DEFINE r == [at |-> "write", op |-> "accept", inv |-> i, password |-> p,
                 org |-> inv[i].org, user |-> inv[i].user, role |-> inv[i].role]
<1>1. req' = [req EXCEPT ![q] = r] /\ req'[q] = r
  BY Zenon DEF AcceptRead, Begin, TeamInv, TeamType
<1>2. inv[i].state = "open" /\ UNCHANGED <<password, role, inv, orgs, sess, raced>>
  BY DEF AcceptRead
<1>3. inv[i] \in Row  BY <1>2 DEF TeamInv, TeamType, NoInvitation, Revoked
<1>4. inv[i].org \in User /\ inv[i].user \in User /\ inv[i].role \in Role  BY Zenon, <1>3 DEF Row
<1>5. r \in AcceptReq /\ r.org = inv[i].org /\ r.inv = i  BY Zenon, <1>4 DEF AcceptReq
<1>6. inv[i].org \in orgs  BY Zenon, <1>2 DEF TeamInv, OrgInv
<1> HIDE DEF r
<1>7. RefOK(q)'  BY <1>1, <1>2, <1>5, <1>6, Kinds DEF RefOK
<1> QED  BY <1>1, <1>2, <1>5, <1>7, Kinds, OnlyRequest, Zenon DEF Request
-----------------------------------------------------------------------------
(* sessions.Create *)
LEMMA SessionCreateStep ==
  ASSUME TeamInv, NEW q \in Slot, SessionCreate(q)
  PROVE  TeamInv'
<1>1. req' = [req EXCEPT ![q] = Idle] /\ req'[q] = Idle
      /\ \A p \in Slot : p # q => req'[p] = req[p]
  BY DEF SessionCreate, Finish, TeamInv, TeamType
<1>2. sess' = sess \union {req[q].new} /\ UNCHANGED <<password, role, inv, orgs, raced>>
  BY Zenon DEF SessionCreate
<1>3. req[q] \in SessionReq
  BY KindOf DEF SessionCreate, At, TeamInv, TeamType
<1>4. req[q].new \in Session  BY Zenon, <1>3 DEF SessionReq
<1>5. req[q].new.org \in orgs /\ Exists(req[q].new.user)
  BY Zenon, <1>3 DEF TeamInv, RefsInv, RefOK
<1>6. TeamType'  BY Zenon, <1>1, <1>2, <1>4 DEF TeamInv, TeamType, Request
<1>7. OrgInv'  BY Zenon, <1>2, <1>5 DEF TeamInv, OrgInv, Exists
<1>8. RefOK(q)'  BY Zenon, <1>1, IdleKind DEF RefOK
<1>9. \A u : Exists(u) => Exists(u)'  BY Zenon, <1>2 DEF Exists
<1> QED  BY Zenon, <1>1, <1>2, <1>6, <1>7, <1>8, <1>9, IdleKind, OnlyAdds

(* A session ends. *)
LEMMA SessionDeleteStep ==
  ASSUME TeamInv, NEW s \in sess, SessionDelete(s)
  PROVE  TeamInv'
<1>1. sess' \subseteq sess /\ UNCHANGED <<password, role, inv, orgs, req, raced>>
  BY Zenon DEF SessionDelete
<1>2. TeamType'  BY Zenon, <1>1 DEF TeamInv, TeamType
<1>3. OrgInv'  BY <1>1 DEF TeamInv, OrgInv, Exists
<1>4. \A u : Exists(u) => Exists(u)'  BY Zenon, <1>1 DEF Exists
<1> QED  BY Zenon, <1>1, <1>2, <1>3, <1>4, OnlyAdds

(* A member founds another organisation. *)
LEMMA CreateOrgStep ==
  ASSUME TeamInv, NEW q \in Slot, NEW s \in sess, HandleCreateOrg(q, s)
  PROVE  TeamInv'
<1> DEFINE o == s.user
           r == [at |-> "session", op |-> "session",
                 new |-> [org |-> o, user |-> o, role |-> "admin"]]
<1>1. o \in User /\ Exists(o) /\ o \notin orgs
  BY DEF TeamInv, TeamType, Session, OrgInv, HandleCreateOrg
<1>2. /\ orgs' = orgs \union {o} /\ role' = [role EXCEPT ![o][o] = "admin"]
      /\ sess' \subseteq sess /\ UNCHANGED <<password, inv, raced>>
  BY Zenon DEF HandleCreateOrg
<1>3. req' = [req EXCEPT ![q] = r] /\ req'[q] = r /\ \A p \in Slot : p # q => req'[p] = req[p]
  BY DEF HandleCreateOrg, ThenSession, TeamInv, TeamType
<1>4. r \in SessionReq /\ r.new.org = o /\ r.new.user = o
  BY Zenon, <1>1 DEF SessionReq, Session, Role
<1> HIDE DEF r, o
<1>5. role[o][o] = "none"  BY Zenon, <1>1 DEF TeamInv, OrgInv
<1>6. /\ role' \in [User -> [User -> Role \union {"none"}]] /\ role'[o][o] = "admin"
      /\ \A g, u \in User : role[g][u] # "none" => role'[g][u] = role[g][u]
      /\ \A g, u \in User : role'[g][u] # role[g][u] => g = o
  BY Zenon, <1>1, <1>2, <1>5 DEF TeamInv, TeamType, Role
<1>7. TeamType'  BY <1>1, <1>2, <1>3, <1>4, <1>6 DEF TeamInv, TeamType, Request
<1>8. OrgInv'  BY Zenon, <1>1, <1>2, <1>6 DEF TeamInv, OrgInv, Exists
<1>9. RefOK(q)'  BY <1>1, <1>2, <1>3, <1>4, Kinds DEF RefOK, Exists
<1>10. \A u : Exists(u) => Exists(u)'  BY Zenon, <1>2 DEF Exists
<1>11. \A g \in orgs' \ orgs : g \in User /\ role'[g][g] = "admin"  BY Zenon, <1>1, <1>2, <1>6
<1>12. \A p \in Slot : req'[p] = req[p] \/
         (req'[p] \notin ChangeReq \union RegisterReq /\ RefOK(p)')
  BY Zenon, <1>3, <1>4, <1>9, Kinds
<1> QED  BY Zenon, <1>2, <1>6, <1>7, <1>8, <1>10, <1>11, <1>12, OnlyAdds

(* HandlePatchMe *)
LEMMA PatchMeStep ==
  ASSUME TeamInv, NEW s \in sess, NEW p \in Password, HandlePatchMe(s, p)
  PROVE  TeamInv'
<1>1. /\ password' = [password EXCEPT ![s.user] = p]
      /\ UNCHANGED <<role, inv, orgs, sess, req, raced>>
  BY Zenon DEF HandlePatchMe
<1>2. s.user \in User /\ Exists(s.user)  BY Zenon DEF TeamInv, TeamType, Session, OrgInv
<1>3. \A u : Exists(u) => Exists(u)'
  BY <1>1, <1>2, TeamAssumption DEF Exists, TeamInv, TeamType
<1>4. TeamType'  BY <1>1, Zenon DEF TeamInv, TeamType
<1>5. OrgInv'  BY Zenon, <1>1, <1>3 DEF TeamInv, OrgInv
<1> QED  BY Zenon, <1>1, <1>2, <1>3, <1>4, <1>5, OnlyAdds

(* The invitation is stored, is deleted or expires. *)
LEMMA InvitationStep ==
  ASSUME TeamInv, NEW i \in Inv,
         \/ \E q \in Slot : InviteInsert(q, i)
         \/ \E s \in sess : HandleRevokeInvitation(s, i)
         \/ InvitationExpire(i)
  PROVE  TeamInv'
<1> DEFINE Keeps == /\ inv'[i].state # "none" /\ inv'[i] \in Row \union {Revoked}
                    /\ inv'[i].state = "open" => inv'[i].org \in orgs
                    /\ inv' = [inv EXCEPT ![i] = inv'[i]]
<1>1. UNCHANGED <<password, role, orgs, sess, raced>>
  BY DEF InviteInsert, HandleRevokeInvitation, InvitationExpire
<1>2. \A u : Exists(u) => Exists(u)'  BY Zenon, <1>1 DEF Exists
<1>3. ASSUME Keeps PROVE OrgInv' /\ inv' \in [Inv -> Row \union {NoInvitation, Revoked}]
                         /\ \A j \in Inv : inv[j].state # "none" => inv'[j].state # "none"
  <2>1. inv' \in [Inv -> Row \union {NoInvitation, Revoked}] /\ \A j \in Inv : j # i => inv'[j] = inv[j]
    BY Zenon, <1>3 DEF TeamInv, TeamType
  <2> QED  BY Zenon, <1>1, <1>3, <2>1 DEF TeamInv, OrgInv, Exists
<1>4. CASE \E q \in Slot : InviteInsert(q, i)
  <2>1. PICK q \in Slot : InviteInsert(q, i)  BY Zenon, <1>4
  <2>2. req' = [req EXCEPT ![q] = Idle] /\ req'[q] = Idle
        /\ \A p \in Slot : p # q => req'[p] = req[p]
    BY Zenon, <2>1 DEF InviteInsert, Finish, TeamInv, TeamType
  <2>3. req[q] \in InviteReq  BY Zenon, <2>1, KindOf DEF InviteInsert, At, TeamInv, TeamType
  <2>4. req[q].org \in orgs  BY Zenon, <2>3 DEF TeamInv, RefsInv, RefOK
  <2>5. req[q].org \in User /\ req[q].user \in User /\ req[q].role \in Role  BY Zenon, <2>3 DEF InviteReq
  <2> DEFINE w == [state |-> "open", org |-> req[q].org, user |-> req[q].user, role |-> req[q].role]
  <2>6. w \in Row /\ w.state = "open" /\ w.org = req[q].org  BY Zenon, <2>5 DEF Row
  <2>7. inv' = [inv EXCEPT ![i] = w]  BY Zenon, <2>1 DEF InviteInsert
  <2> HIDE DEF w
  <2>8. Keeps  BY Zenon, <2>4, <2>6, <2>7 DEF TeamInv, TeamType
  <2>9. TeamType'  BY Zenon, <1>1, <1>3, <2>2, <2>8 DEF TeamInv, TeamType, Request
  <2>10. RefOK(q)'  BY Zenon, <2>2, IdleKind DEF RefOK
  <2> HIDE DEF Keeps
  <2> QED  BY Zenon, <1>1, <1>2, <1>3, <2>2, <2>8, <2>9, <2>10, IdleKind, OnlyAdds
<1>5. CASE \E s \in sess : HandleRevokeInvitation(s, i)
  <2>1. inv' = [inv EXCEPT ![i] = Revoked] /\ req' = req
    BY Zenon, <1>5 DEF HandleRevokeInvitation, Revoked
  <2>2. Revoked.state = "revoked"  BY DEF Revoked
  <2>3. Keeps  BY Zenon, <2>1, <2>2 DEF TeamInv, TeamType
  <2>4. TeamType'  BY Zenon, <1>1, <1>3, <2>1, <2>3 DEF TeamInv, TeamType
  <2> HIDE DEF Keeps
  <2> QED  BY Zenon, <1>1, <1>2, <1>3, <2>1, <2>3, <2>4, OnlyAdds
<1>6. CASE InvitationExpire(i)
  <2>1. inv[i].state = "open" /\ inv' = [inv EXCEPT ![i].state = "expired"] /\ req' = req
    BY <1>6 DEF InvitationExpire
  <2>2. inv[i] \in Row  BY <2>1 DEF TeamInv, TeamType, NoInvitation, Revoked
  <2> DEFINE w == [inv[i] EXCEPT !.state = "expired"]
  <2>3. w \in Row /\ w.state = "expired"  BY <2>2 DEF Row
  <2>4. inv' = [inv EXCEPT ![i] = w]  BY Zenon, <2>1
  <2> HIDE DEF w
  <2>5. Keeps  BY Zenon, <2>3, <2>4 DEF TeamInv, TeamType
  <2>6. TeamType'  BY Zenon, <1>1, <1>3, <2>1, <2>5 DEF TeamInv, TeamType
  <2> HIDE DEF Keeps
  <2> QED  BY Zenon, <1>1, <1>2, <1>3, <2>1, <2>5, <2>6, OnlyAdds
<1> QED  BY Zenon, <1>4, <1>5, <1>6
(* The transaction of HandleAcceptInvitation *)
LEMMA AcceptWriteStep ==
  ASSUME TeamInv, NEW q \in Slot, AcceptWrite(q)
  PROVE  TeamInv'
<1> DEFINE a == req[q]
           r == [at |-> "session", op |-> "session",
                 new |-> [org |-> a.org, user |-> a.user, role |-> a.role]]
<1>1. a \in AcceptReq  BY Zenon, KindOf DEF AcceptWrite, At, TeamInv, TeamType
<1>2. /\ a.inv \in Inv /\ a.password \in Password
      /\ a.org \in User /\ a.user \in User /\ a.role \in Role
  BY Zenon, <1>1 DEF AcceptReq
<1>3. a.org \in orgs /\ inv[a.inv].state # "none"  BY Zenon, <1>1 DEF TeamInv, RefsInv, RefOK
<1>4. /\ password' = [password EXCEPT ![a.user] = IF @ = NoAccount THEN a.password ELSE @]
      /\ role' = [role EXCEPT ![a.org][a.user] = IF @ = "none" THEN a.role ELSE @]
      /\ inv' = [inv EXCEPT ![a.inv].state = IF @ = "revoked" THEN @ ELSE "accepted"]
      /\ UNCHANGED <<orgs, sess, raced>>
  BY Zenon DEF AcceptWrite
<1>5. req' = [req EXCEPT ![q] = r] /\ req'[q] = r /\ \A p \in Slot : p # q => req'[p] = req[p]
  BY Zenon DEF AcceptWrite, ThenSession, TeamInv, TeamType
<1>6. r \in SessionReq /\ r.new.org = a.org /\ r.new.user = a.user
  BY Zenon, <1>2 DEF SessionReq, Session
<1> HIDE DEF r, a
<1>7. password' \in [User -> Password \union {NoAccount}] /\ password'[a.user] # NoAccount
      /\ \A u : Exists(u) => Exists(u)'
  <2>1. password \in [User -> Password \union {NoAccount}]  BY Zenon DEF TeamInv, TeamType
  <2> QED  BY <1>2, <1>4, <2>1, TeamAssumption DEF Exists
<1>8. /\ role' \in [User -> [User -> Role \union {"none"}]]
      /\ \A o, u \in User : role[o][u] # "none" => role'[o][u] = role[o][u]
      /\ \A o, u \in User : role'[o][u] # role[o][u] => o = a.org
  <2>1. role \in [User -> [User -> Role \union {"none"}]]  BY Zenon DEF TeamInv, TeamType
  <2> QED  BY Zenon, <1>2, <1>4, <2>1
<1>9. /\ inv' \in [Inv -> Row \union {NoInvitation, Revoked}]
      /\ \A i \in Inv : i # a.inv => inv'[i] = inv[i]
      /\ inv'[a.inv].state \in {"revoked", "accepted"}
  <2> DEFINE w == [inv[a.inv] EXCEPT !.state = IF @ = "revoked" THEN @ ELSE "accepted"]
  <2>1. inv \in [Inv -> Row \union {NoInvitation, Revoked}]  BY Zenon DEF TeamInv, TeamType
  <2>2. inv[a.inv] \in Row \/ inv[a.inv] = Revoked
    BY <1>2, <1>3, <2>1 DEF NoInvitation
  <2>3. CASE inv[a.inv] \in Row
    <3>1. w \in Row /\ w.state = "accepted"  BY Zenon, <2>3 DEF Row
    <3> QED  BY Zenon, <1>2, <1>4, <2>1, <3>1
  <2>4. CASE inv[a.inv] = Revoked
    <3>1. w = Revoked /\ w.state = "revoked"  BY <2>4 DEF Revoked
    <3> QED  BY Zenon, <1>2, <1>4, <2>1, <3>1
  <2> QED  BY Zenon, <2>2, <2>3, <2>4
<1>10. TeamType'  BY Zenon, <1>4, <1>5, <1>6, <1>7, <1>8, <1>9 DEF TeamInv, TeamType, Request
<1>11. OrgInv'
  <2>1. \A i \in Inv : inv'[i].state = "open" => inv'[i].org \in orgs'
    BY Zenon, <1>4, <1>9 DEF TeamInv, OrgInv
  <2>2. \A o, u \in User : role'[o][u] # "none" => o \in orgs'
    BY Zenon, <1>3, <1>4, <1>8 DEF TeamInv, OrgInv
  <2> QED  BY Zenon, <1>4, <1>7, <2>1, <2>2 DEF TeamInv, OrgInv
<1>12. RefOK(q)'  BY <1>3, <1>4, <1>5, <1>6, <1>7, Kinds DEF RefOK, Exists
<1>13. Exists(a.org) /\ a.org \in User  BY Zenon, <1>2, <1>3 DEF TeamInv, OrgInv
<1>14. \A p \in Slot : req'[p] = req[p] \/
         (req'[p] \notin ChangeReq \union RegisterReq /\ RefOK(p)')
  BY Zenon, <1>5, <1>6, <1>12, Kinds
<1>15. \A i \in Inv : inv[i].state # "none" => inv'[i].state # "none"  BY Zenon, <1>9
<1> QED
  BY Zenon, <1>4, <1>7, <1>8, <1>10, <1>11, <1>13, <1>14, <1>15, OnlyAdds
-----------------------------------------------------------------------------
(* HandleRegister counts: no account, and no other registration unless this *)
(* one makes it a race.                                                     *)
LEMMA RegisterCountStep ==
  ASSUME TeamInv, NEW q \in Slot, NEW u \in User, NEW p \in Password, RegisterCount(q, u, p)
  PROVE  TeamInv'
<1> DEFINE r == [at |-> "insert", op |-> "register", org |-> "register", user |-> u, password |-> p]
<1>1. req[q] = Idle /\ req' = [req EXCEPT ![q] = r] /\ req'[q] = r
      /\ \A x \in Slot : x # q => req'[x] = req[x]
  BY Zenon DEF RegisterCount, Begin, TeamInv, TeamType
<1>2. /\ \A v \in User : ~Exists(v)
      /\ raced' = Racing("register", "register")
      /\ UNCHANGED <<password, role, inv, orgs, sess>>
  BY Zenon DEF RegisterCount
<1>3. r \in RegisterReq  BY Zenon DEF RegisterReq
<1> HIDE DEF r
<1>4. raced \subseteq raced'  BY Zenon, <1>2 DEF Racing
<1>5. TeamType'  BY Zenon, <1>1, <1>2, <1>3 DEF TeamInv, TeamType, Request
<1>6. OrgInv'  BY Zenon, <1>2 DEF TeamInv, OrgInv, Exists
<1>7. RefsInv'
  <2>1. RefOK(q)'  BY Zenon, <1>1, <1>3, Kinds DEF RefOK
  <2>2. \A v : Exists(v) => Exists(v)'  BY Zenon, <1>2 DEF Exists
  <2> QED  BY Zenon, <1>1, <1>2, <2>1, <2>2, RefsKept DEF TeamInv
<1>8. ChangeInv'  BY Zenon, <1>1, <1>2, <1>3, <1>4, Kinds, ChangeKept DEF TeamInv
<1>9. "register" \notin raced' => \A x \in Slot : req[x] \notin RegisterReq
  <2>1. \A x \in Slot : req[x] \in RegisterReq =>
          req[x] # Idle /\ req[x].op = "register" /\ req[x].org = "register"
    BY Zenon, KindOf DEF TeamInv, TeamType
  <2> QED  BY Zenon, <1>2, <2>1 DEF Racing
<1>10. RegisterInv'
  <2>1. \A v \in User : ~Exists(v)'  BY Zenon, <1>2 DEF Exists
  <2> QED  BY Zenon, <1>1, <1>9, <2>1 DEF RegisterInv, RegisterOK
<1>11. OrgHasAdminUnlessRaced'  BY Zenon, <1>2, <1>4, AdminsKept DEF TeamInv, TeamType
<1> QED  BY Zenon, <1>5, <1>6, <1>7, <1>8, <1>10, <1>11 DEF TeamInv

(* HandleRegister inserts the user, the organisation and its admin. *)
LEMMA RegisterInsertStep ==
  ASSUME TeamInv, NEW q \in Slot, RegisterInsert(q)
  PROVE  TeamInv'
<1> DEFINE u == req[q].user
           r == [at |-> "session", op |-> "session",
                 new |-> [org |-> u, user |-> u, role |-> "admin"]]
<1>1. req[q] \in RegisterReq  BY Zenon, KindOf DEF RegisterInsert, At, TeamInv, TeamType
<1>2. u \in User /\ req[q].password \in Password  BY Zenon, <1>1 DEF RegisterReq
<1>3. /\ ~Exists(u) /\ password' = [password EXCEPT ![u] = req[q].password]
      /\ orgs' = orgs \union {u} /\ role' = [role EXCEPT ![u][u] = "admin"]
      /\ UNCHANGED <<inv, sess, raced>>
  BY Zenon DEF RegisterInsert
<1>4. req' = [req EXCEPT ![q] = r] /\ req'[q] = r /\ \A p \in Slot : p # q => req'[p] = req[p]
  BY Zenon DEF RegisterInsert, ThenSession, TeamInv, TeamType
<1>5. r \in SessionReq /\ r.new.org = u /\ r.new.user = u
  BY Zenon, <1>2 DEF SessionReq, Session, Role
<1> HIDE DEF r, u
<1>6. u \notin orgs /\ role[u][u] = "none"  BY Zenon, <1>2, <1>3 DEF TeamInv, OrgInv
<1>7. password' \in [User -> Password \union {NoAccount}] /\ password'[u] # NoAccount
      /\ \A v : Exists(v) => Exists(v)'
  <2>1. password \in [User -> Password \union {NoAccount}]  BY DEF TeamInv, TeamType
  <2> QED  BY <1>2, <1>3, <2>1, TeamAssumption DEF Exists
<1>8. /\ role' \in [User -> [User -> Role \union {"none"}]] /\ role'[u][u] = "admin"
      /\ \A g, v \in User : role[g][v] # "none" => role'[g][v] = role[g][v]
      /\ \A g, v \in User : role'[g][v] # role[g][v] => g = u
  BY Zenon, <1>2, <1>3, <1>6 DEF TeamInv, TeamType, Role
<1>9. TeamType'  BY <1>2, <1>3, <1>4, <1>5, <1>7, <1>8 DEF TeamInv, TeamType, Request
<1>10. OrgInv'
  <2>1. \A o \in orgs' : Exists(o)'  BY Zenon, <1>3, <1>7 DEF TeamInv, OrgInv, Exists
  <2> QED  BY Zenon, <1>3, <1>7, <1>8, <2>1 DEF TeamInv, OrgInv
<1>11. RefsInv'
  <2>1. RefOK(q)'  BY <1>3, <1>4, <1>5, <1>7, Kinds DEF RefOK, Exists
  <2> QED  BY Zenon, <1>3, <1>4, <1>7, <2>1, RefsKept DEF TeamInv
<1>12. ChangeInv'  BY <1>3, <1>4, <1>5, <1>8, Kinds, ChangeKept DEF TeamInv
<1>13. RegisterInv'
  <2>1. "register" \notin raced => \A p \in Slot : p # q => req[p] \notin RegisterReq
    BY Zenon, <1>1 DEF TeamInv, RegisterInv, RegisterOK
  <2>2. "register" \notin raced' => \A p \in Slot : req'[p] \notin RegisterReq
    BY Zenon, <1>3, <1>4, <1>5, <2>1, Kinds
  <2> QED  BY Zenon, <2>2 DEF RegisterInv, RegisterOK
<1>14. OrgHasAdminUnlessRaced'
  BY Zenon, <1>2, <1>3, <1>8, AdminsKept DEF TeamInv, TeamType
<1> QED  BY Zenon, <1>9, <1>10, <1>11, <1>12, <1>13, <1>14 DEF TeamInv

(* A change of members begins: it is the only one of its organisation unless *)
(* this makes it a race, and an admin who is to lose the role is counted     *)
(* before the write.                                                         *)
LEMMA ChangeReadStep ==
  ASSUME TeamInv, NEW q \in Slot, NEW s \in sess, NEW u \in User,
         \/ \E c \in Role : ChangeRoleRead(q, s, u, c)
         \/ RemoveMemberRead(q, s, u)
  PROVE  TeamInv'
<1>1. /\ role[s.org][u] # "none" /\ req[q] = Idle
      /\ raced' = Racing("change", s.org)
      /\ UNCHANGED <<password, role, inv, orgs, sess>>
  BY Zenon DEF ChangeRoleRead, RemoveMemberRead, Begin
<1>2. s.org \in orgs /\ s.org \in User  BY Zenon DEF TeamInv, OrgInv, TeamType
<1>3. PICK c \in Role \union {"none"}, at \in {"count", "write"} :
        /\ req' = [req EXCEPT ![q] = [at |-> at, op |-> "change", org |-> s.org, user |-> u, role |-> c]]
        /\ at = "write" => c = "admin" \/ role[s.org][u] # "admin"
  <2>1. CASE \E c \in Role : ChangeRoleRead(q, s, u, c)
    <3>1. PICK c \in Role : ChangeRoleRead(q, s, u, c)  BY Zenon, <2>1
    <3> DEFINE at == IF role[s.org][u] = "admin" /\ c = "member" THEN "count" ELSE "write"
    <3>2. at \in {"count", "write"} /\ (at = "write" => c = "admin" \/ role[s.org][u] # "admin")
      BY Zenon DEF Role
    <3>3. req' = [req EXCEPT ![q] = [at |-> at, op |-> "change", org |-> s.org, user |-> u, role |-> c]]
      BY <3>1 DEF ChangeRoleRead, Begin
    <3> HIDE DEF at
    <3> QED  BY <3>2, <3>3, Zenon
  <2>2. CASE RemoveMemberRead(q, s, u)
    <3> DEFINE at == IF role[s.org][u] = "admin" THEN "count" ELSE "write"
    <3>1. at \in {"count", "write"} /\ (at = "write" => role[s.org][u] # "admin")
      BY Zenon
    <3>2. req' = [req EXCEPT ![q] = [at |-> at, op |-> "change", org |-> s.org, user |-> u, role |-> "none"]]
      BY Zenon, <2>2 DEF RemoveMemberRead, Begin
    <3> HIDE DEF at
    <3> QED  BY <3>1, <3>2, Zenon
  <2> QED  BY <2>1, <2>2
<1> DEFINE r == [at |-> at, op |-> "change", org |-> s.org, user |-> u, role |-> c]
<1>4. req' = [req EXCEPT ![q] = r] /\ req'[q] = r /\ \A x \in Slot : x # q => req'[x] = req[x]
  BY Zenon, <1>3 DEF TeamInv, TeamType
<1>5. r \in ChangeReq /\ r.at = at /\ r.org = s.org /\ r.user = u /\ r.role = c
  BY Zenon, <1>2 DEF ChangeReq
<1> HIDE DEF r
<1>6. raced \subseteq raced'  BY Zenon, <1>1 DEF Racing
<1>7. TeamType'  BY Zenon, <1>1, <1>4, <1>5 DEF TeamInv, TeamType, Request
<1>8. OrgInv'  BY Zenon, <1>1 DEF TeamInv, OrgInv, Exists
<1>9. RefsInv'
  <2>1. RefOK(q)'  BY <1>1, <1>2, <1>4, <1>5, Kinds DEF RefOK
  <2>2. \A v : Exists(v) => Exists(v)'  BY Zenon, <1>1 DEF Exists
  <2> QED  BY Zenon, <1>1, <1>4, <2>1, <2>2, RefsKept DEF TeamInv
<1>10. RegisterInv'  BY Zenon, <1>1, <1>4, <1>5, <1>6, Kinds, RegisterKept DEF TeamInv
<1>11. OrgHasAdminUnlessRaced'  BY Zenon, <1>1, <1>6, AdminsKept DEF TeamInv, TeamType
<1>12. s.org \notin raced' => \A x \in Slot : ~(req[x] \in ChangeReq /\ req[x].org = s.org)
  <2>1. \A x \in Slot : req[x] \in ChangeReq => req[x] # Idle /\ req[x].op = "change"
    BY Zenon, KindOf DEF TeamInv, TeamType
  <2> QED  BY Zenon, <1>1, <2>1 DEF Racing
<1>13. ASSUME NEW x \in Slot, req'[x] \in ChangeReq, req'[x].org \notin raced' PROVE ChangeOK(x)'
  <2>1. CASE x = q
    <3>1. \A p \in Slot : req'[p] \in ChangeReq /\ req'[p].org = s.org => p = q
      BY Zenon, <1>4, <1>5, <1>12, <1>13, <2>1
    <3>2. req'[q].at = "write" => WriteOK(s.org, u, c)'
      BY <1>1, <1>3, <1>4, <1>5, Zenon DEF WriteOK
    <3> QED  BY <1>1, <1>4, <1>5, <2>1, <3>1, <3>2 DEF ChangeOK, WriteOK
  <2>2. CASE x # q
    <3>1. req'[x] = req[x] /\ req[x] \in ChangeReq /\ req[x].org \notin raced
      BY Zenon, <1>4, <1>6, <1>13, <2>2
    <3>2. req[x].org # s.org  BY Zenon, <1>12, <1>13, <3>1
    <3>3. ChangeOK(x)  BY Zenon DEF TeamInv, ChangeInv
    <3>4. \A p \in Slot : req'[p] \in ChangeReq /\ req'[p].org = req'[x].org => p = x
      BY Zenon, <1>4, <1>5, <3>1, <3>2, <3>3 DEF ChangeOK
    <3>5. /\ role[req[x].org][req[x].user] # "none"
          /\ req[x].at = "write" => WriteOK(req[x].org, req[x].user, req[x].role)
      BY Zenon, <3>1, <3>3 DEF ChangeOK
    <3>6. /\ role[req'[x].org][req'[x].user] # "none"
          /\ req'[x].at = "write" => WriteOK(req'[x].org, req'[x].user, req'[x].role)
      BY Zenon, <3>1, <3>5
    <3> QED  BY <1>1, <3>4, <3>6, Zenon DEF ChangeOK, WriteOK
  <2> QED  BY Zenon, <2>1, <2>2
<1>14. ChangeInv'  BY Zenon, <1>13 DEF ChangeInv, ChangeOK
<1> QED  BY Zenon, <1>7, <1>8, <1>9, <1>10, <1>11, <1>14 DEF TeamInv

(* The admins are counted: with a count other than one, an admin who is to  *)
(* lose the role is not the only one.                                       *)
LEMMA CountStep ==
  ASSUME TeamInv, NEW q \in Slot, CountAdmins(q)
  PROVE  TeamInv'
<1>1. UNCHANGED <<password, role, inv, orgs, sess, raced>>  BY DEF CountAdmins
<1>2. req[q] \in ChangeReq /\ RefOK(q) /\ ChangeOK(q)
  BY KindOf DEF CountAdmins, At, TeamInv, TeamType, RefsInv, ChangeInv
<1>3. req' = [req EXCEPT ![q] = IF Cardinality(Admins(req[q].org)) = 1
                               THEN Idle ELSE [req[q] EXCEPT !.at = "write"]]
  BY DEF CountAdmins
<1>4. CASE Cardinality(Admins(req[q].org)) = 1
  <2>1. req' = [req EXCEPT ![q] = Idle] /\ req'[q] = Idle  BY Zenon, <1>3, <1>4 DEF TeamInv, TeamType
  <2>2. RefOK(q)'  BY <2>1, IdleKind DEF RefOK
  <2> QED  BY <1>1, <2>1, <2>2, IdleKind, OnlyRequest, Zenon DEF Request
<1>5. CASE Cardinality(Admins(req[q].org)) # 1
  <2> DEFINE r == [req[q] EXCEPT !.at = "write"]
  <2>1. req' = [req EXCEPT ![q] = r] /\ req'[q] = r /\ \A x \in Slot : x # q => req'[x] = req[x]
    BY Zenon, <1>3, <1>5 DEF TeamInv, TeamType
  <2>2. r \in ChangeReq  BY <1>2 DEF ChangeReq
  <2>3. r.org = req[q].org /\ r.user = req[q].user /\ r.role = req[q].role  BY Zenon, <1>2 DEF ChangeReq
  <2>4. req[q].org \in User /\ req[q].user \in User  BY <1>2 DEF ChangeReq
  <2> HIDE DEF r
  <2>5. WriteOK(req[q].org, req[q].user, req[q].role)
    <3> SUFFICES ASSUME role[req[q].org][req[q].user] = "admin",
                        \A v \in User : v # req[q].user => role[req[q].org][v] # "admin"
                 PROVE  FALSE
      BY Zenon DEF WriteOK
    <3>1. Admins(req[q].org) = {req[q].user}  BY Zenon, <2>4 DEF Admins
    <3> QED  BY <1>5, <3>1, FS_Singleton, Zenon
  <2>6. TeamType'  BY Zenon, <1>1, <2>1, <2>2 DEF TeamInv, TeamType, Request
  <2>7. OrgInv'  BY Zenon, <1>1 DEF TeamInv, OrgInv, Exists
  <2>8. RefsInv'
    <3>1. RefOK(q)'  BY <1>1, <1>2, <2>1, <2>2, <2>3, Kinds DEF RefOK
    <3>2. \A v : Exists(v) => Exists(v)'  BY Zenon, <1>1 DEF Exists
    <3> QED  BY Zenon, <1>1, <2>1, <3>1, <3>2, RefsKept DEF TeamInv
  <2>9. RegisterInv'  BY Zenon, <1>1, <2>1, <2>2, Kinds, RegisterKept DEF TeamInv
  <2>10. OrgHasAdminUnlessRaced'  BY Zenon, <1>1, AdminsKept DEF TeamInv, TeamType
  <2>11. \A x \in Slot : /\ req'[x] \in ChangeReq <=> req[x] \in ChangeReq
                         /\ req'[x] \in ChangeReq => /\ req'[x].org = req[x].org
                                                     /\ req'[x].user = req[x].user
    BY Zenon, <1>2, <2>1, <2>2, <2>3
  <2>12. ASSUME NEW x \in Slot, req'[x] \in ChangeReq, req'[x].org \notin raced' PROVE ChangeOK(x)'
    <3>1. ChangeOK(x) /\ req[x] \in ChangeReq /\ req[x].org \notin raced
      BY Zenon, <1>1, <2>11, <2>12 DEF TeamInv, ChangeInv
    <3>2. req'[x].at = "write" => WriteOK(req'[x].org, req'[x].user, req'[x].role)
      BY Zenon, <2>1, <2>3, <2>5, <3>1 DEF ChangeOK
    <3>3. \A p \in Slot : req'[p] \in ChangeReq /\ req'[p].org = req'[x].org => p = x
      BY Zenon, <2>11, <2>12, <3>1 DEF ChangeOK
    <3>4. role[req'[x].org][req'[x].user] # "none"  BY Zenon, <2>11, <2>12, <3>1 DEF ChangeOK
    <3> QED  BY Zenon, <1>1, <3>2, <3>3, <3>4 DEF ChangeOK, WriteOK
  <2>13. ChangeInv'  BY Zenon, <2>12 DEF ChangeInv, ChangeOK
  <2> QED  BY Zenon, <2>6, <2>7, <2>8, <2>9, <2>10, <2>13 DEF TeamInv
<1> QED  BY <1>4, <1>5
(* The change is written.  Without a race there is no other one to spoil,   *)
(* and it leaves an admin.                                                  *)
LEMMA ChangeMemberStep ==
  ASSUME TeamInv, NEW q \in Slot, ChangeMember(q)
  PROVE  TeamInv'
<1> DEFINE o == req[q].org
           u == req[q].user
<1>1. req[q] \in ChangeReq /\ req[q].at = "write"
  BY Zenon, KindOf DEF ChangeMember, At, TeamInv, TeamType
<1>2. o \in User /\ u \in User /\ req[q].role \in Role \union {"none"}  BY Zenon, <1>1 DEF ChangeReq
<1>3. /\ role' = [role EXCEPT ![o][u] = IF @ = "none" THEN @ ELSE req[q].role]
      /\ UNCHANGED <<password, inv, orgs, sess, raced>>
  BY Zenon DEF ChangeMember
<1>4. req' = [req EXCEPT ![q] = Idle] /\ req'[q] = Idle
      /\ \A x \in Slot : x # q => req'[x] = req[x]
  BY DEF ChangeMember, Finish, TeamInv, TeamType
<1>5. ChangeOK(q)  BY Zenon DEF TeamInv, ChangeInv
<1>6. o \notin raced =>
        /\ \A p \in Slot : req[p] \in ChangeReq /\ req[p].org = o => p = q
        /\ WriteOK(o, u, req[q].role)
        /\ role[o][u] # "none"
  BY Zenon, <1>1, <1>5 DEF ChangeOK
<1> HIDE DEF o, u
<1>7. /\ role' \in [User -> [User -> Role \union {"none"}]]
      /\ \A g \in User : g # o => role'[g] = role[g]
      /\ \A v \in User : v # u => role'[o][v] = role[o][v]
      /\ role'[o][u] = IF role[o][u] = "none" THEN "none" ELSE req[q].role
  <2>1. role \in [User -> [User -> Role \union {"none"}]]  BY DEF TeamInv, TeamType
  <2> QED  BY Zenon, <1>2, <1>3, <2>1
<1>8. TeamType'  BY Zenon, <1>3, <1>4, <1>7 DEF TeamInv, TeamType, Request
<1>9. OrgInv'
  <2>1. \A g, v \in User : role'[g][v] # "none" => role[g][v] # "none"  BY Zenon, <1>7
  <2> QED  BY Zenon, <1>3, <2>1 DEF TeamInv, OrgInv, Exists
<1>10. RefsInv'
  <2>1. RefOK(q)'  BY <1>4, IdleKind DEF RefOK
  <2>2. \A v : Exists(v) => Exists(v)'  BY Zenon, <1>3 DEF Exists
  <2> QED  BY Zenon, <1>3, <1>4, <2>1, <2>2, RefsKept DEF TeamInv
<1>11. RegisterInv'  BY Zenon, <1>3, <1>4, IdleKind, RegisterKept DEF TeamInv
<1>12. ASSUME NEW g \in orgs, g \notin raced PROVE \E v \in User : role'[g][v] = "admin"
  <2>1. g \in User /\ \E v \in User : role[g][v] = "admin"
    BY Zenon, <1>12 DEF TeamInv, TeamType, OrgHasAdminUnlessRaced, Admins
  <2>2. CASE g # o  BY Zenon, <1>7, <2>1, <2>2
  <2>3. CASE g = o
    <3>1. WriteOK(o, u, req[q].role) /\ role[o][u] # "none"  BY Zenon, <1>6, <1>12, <2>3
    <3>2. CASE req[q].role = "admin"  BY Zenon, <1>2, <1>7, <2>3, <3>1, <3>2
    <3>3. CASE role[o][u] # "admin"  BY Zenon, <1>7, <2>1, <2>3, <3>3
    <3>4. CASE \E v \in User : v # u /\ role[o][v] = "admin"  BY Zenon, <1>7, <2>3, <3>4
    <3> QED  BY Zenon, <3>1, <3>2, <3>3, <3>4 DEF WriteOK
  <2> QED  BY Zenon, <2>2, <2>3
<1>13. OrgHasAdminUnlessRaced'  BY Zenon, <1>3, <1>12 DEF OrgHasAdminUnlessRaced, Admins
<1>14. ASSUME NEW x \in Slot, req'[x] \in ChangeReq, req'[x].org \notin raced' PROVE ChangeOK(x)'
  <2>1. x # q /\ req'[x] = req[x] /\ req[x] \in ChangeReq /\ req[x].org \notin raced
    BY <1>3, <1>4, <1>14, IdleKind
  <2>2. req[x].org # o /\ req[x].org \in User
    BY Zenon, <1>6, <2>1 DEF ChangeReq
  <2>3. role'[req[x].org] = role[req[x].org]  BY Zenon, <1>7, <2>2
  <2>4. ChangeOK(x)  BY Zenon DEF TeamInv, ChangeInv
  <2>5. \A p \in Slot : req'[p] \in ChangeReq /\ req'[p].org = req'[x].org => p = x
    BY Zenon, <1>4, <2>1, <2>4, IdleKind DEF ChangeOK
  <2> QED  BY Zenon, <2>1, <2>3, <2>4, <2>5 DEF ChangeOK, WriteOK
<1>15. ChangeInv'  BY <1>14 DEF ChangeInv, ChangeOK
<1> QED  BY <1>8, <1>9, <1>10, <1>11, <1>13, <1>15 DEF TeamInv

(* The invariant holds at the start, *)
LEMMA TeamInit == Init => TeamInv
<1> SUFFICES ASSUME Init PROVE TeamInv  BY Zenon
<1>1. /\ password = [u \in User |-> NoAccount]
      /\ role = [o \in User |-> [u \in User |-> "none"]]
      /\ inv = [i \in Inv |-> NoInvitation]
      /\ orgs = {} /\ sess = {} /\ req = [q \in Slot |-> Idle]
  BY Zenon DEF Init
<1>2. TeamType  BY Zenon, <1>1 DEF TeamType, Request
<1>3. OrgInv  BY <1>1 DEF OrgInv, NoInvitation
<1>4. \A q \in Slot : req[q] = Idle  BY Zenon, <1>1
<1>5. RefsInv /\ ChangeInv /\ RegisterInv
  BY Zenon, <1>4, IdleKind DEF RefsInv, RefOK, ChangeInv, ChangeOK, RegisterInv, RegisterOK
<1>6. OrgHasAdminUnlessRaced  BY Zenon, <1>1 DEF OrgHasAdminUnlessRaced
<1> QED  BY Zenon, <1>2, <1>3, <1>5, <1>6 DEF TeamInv

(* and every step keeps it. *)
LEMMA TeamStep == TeamInv /\ [Next]_vars => TeamInv'
<1> SUFFICES ASSUME TeamInv, [Next]_vars PROVE TeamInv'  BY Zenon
<1>1. ASSUME NEW q \in Slot,
             RegisterInsert(q) \/ SessionCreate(q) \/ CountAdmins(q) \/ ChangeMember(q)
               \/ AcceptWrite(q) \/ Fail(q)
      PROVE  TeamInv'
  BY Zenon, <1>1, RegisterInsertStep, SessionCreateStep, CountStep, ChangeMemberStep,
     AcceptWriteStep, FailStep
<1>2. CASE \E q \in Slot, u \in User, p \in Password : RegisterCount(q, u, p)
  BY Zenon, <1>2, RegisterCountStep
<1>3. CASE \E q \in Slot, o, u \in User : LoginRead(q, o, u)  BY Zenon, <1>3, LoginStep
<1>4. CASE \E s \in sess : SessionDelete(s) \/ \E q \in Slot : HandleCreateOrg(q, s)
  BY Zenon, <1>4, SessionDeleteStep, CreateOrgStep
<1>5. CASE \E s \in sess, p \in Password : HandlePatchMe(s, p)  BY Zenon, <1>5, PatchMeStep
<1>6. ASSUME NEW q \in Slot, NEW s \in sess, NEW u \in User,
             \/ RemoveMemberRead(q, s, u)
             \/ \E r \in Role : ChangeRoleRead(q, s, u, r) \/ InviteCheck(q, s, u, r)
      PROVE  TeamInv'
  BY Zenon, <1>6, ChangeReadStep, InviteStep
<1>7. ASSUME NEW q \in Slot, NEW i \in Inv,
             InviteInsert(q, i) \/ \E p \in Password : AcceptRead(q, i, p)
      PROVE  TeamInv'
  BY Zenon, <1>7, InvitationStep, AcceptReadStep
<1>8. CASE \E i \in Inv : InvitationExpire(i) \/ \E s \in sess : HandleRevokeInvitation(s, i)
  BY Zenon, <1>8, InvitationStep
<1>9. CASE UNCHANGED vars
  <2>1. UNCHANGED <<password, role, inv, orgs, sess, req, raced>>  BY Zenon, <1>9 DEF vars
  <2>2. TeamType'  BY Zenon, <2>1 DEF TeamInv, TeamType
  <2>3. OrgInv'  BY Zenon, <2>1 DEF TeamInv, OrgInv, Exists
  <2>4. \A u : Exists(u) => Exists(u)'  BY <2>1 DEF Exists
  <2> QED  BY Zenon, <2>1, <2>2, <2>3, <2>4, OnlyAdds
<1> QED  BY Zenon, <1>1, <1>2, <1>3, <1>4, <1>5, <1>6, <1>7, <1>8, <1>9 DEF Next
-----------------------------------------------------------------------------
(* An organisation keeps an admin as long as no two changes of its members  *)
(* overlap, whatever other requests come between the count and the write    *)
(* (HandleChangeRole, HandleRemoveMember).                                  *)
THEOREM KeepsAnAdmin == Spec => []OrgHasAdminUnlessRaced
<1>1. TeamInv => OrgHasAdminUnlessRaced  BY DEF TeamInv
<1> QED  BY TeamInit, TeamStep, <1>1, PTL DEF Spec

(* A registration commits only without accounts, unless two were in         *)
(* progress at once (HandleRegister).                                       *)
THEOREM FirstAccountOnly == Spec => FoundedOnce
<1> DEFINE A == \A q \in Slot :
                  At(q, "register", "insert") /\ req'[q].at = "session" /\ "register" \notin raced
                  => \A u \in User : ~Exists(u)
<1>1. TeamInv => A
  <2> SUFFICES ASSUME TeamInv, NEW q \in Slot, At(q, "register", "insert"), "register" \notin raced
               PROVE  \A u \in User : ~Exists(u)
    BY Zenon
  <2>1. req[q] \in RegisterReq  BY Zenon, KindOf DEF At, TeamInv, TeamType
  <2> QED  BY Zenon, <2>1 DEF TeamInv, RegisterInv, RegisterOK
<1>2. FoundedOnce <=> [][A]_vars  BY DEF FoundedOnce
<1> HIDE DEF A
<1> QED  BY TeamInit, TeamStep, <1>1, <1>2, PTL DEF Spec
(* Accepting an invitation overwrites neither a password nor a role: a      *)
(* password is changed by its owner, a role by a change that was asked for  *)
(* (HandleAcceptInvitation).                                                *)
THEOREM NothingOverwritten == Spec => ExistingKept
<1> DEFINE P == \A u \in User : Exists(u) /\ password'[u] # password[u] =>
                  \E s \in sess : s.user = u /\ HandlePatchMe(s, password'[u])
           R == \A o, u \in User : role[o][u] # "none" /\ role'[o][u] # role[o][u] =>
                  \E q \in Slot : req[q] # Idle /\ req[q].op = "change"
                                    /\ req[q].org = o /\ req[q].user = u
<1>1. TeamInv /\ [Next]_vars => P /\ R
  <2> SUFFICES ASSUME TeamInv, [Next]_vars PROVE P /\ R  BY Zenon
  <2> DEFINE SameP == password' = password
             SameR == role' = role
  <2>0. SameP => P  BY Zenon
  <2>00. SameR => R  BY Zenon
  <2>1. ASSUME NEW q \in Slot, RegisterInsert(q) PROVE P /\ R
    <3>1. req[q] \in RegisterReq  BY Zenon, <2>1, KindOf DEF RegisterInsert, At, TeamInv, TeamType
    <3>2. req[q].user \in User  BY Zenon, <3>1 DEF RegisterReq
    <3>3. /\ ~Exists(req[q].user) /\ password' = [password EXCEPT ![req[q].user] = req[q].password]
          /\ role' = [role EXCEPT ![req[q].user][req[q].user] = "admin"]
      BY Zenon, <2>1 DEF RegisterInsert
    <3>4. role[req[q].user][req[q].user] = "none"  BY Zenon, <3>2, <3>3 DEF TeamInv, OrgInv
    <3>5. P  BY Zenon, <3>2, <3>3 DEF TeamInv, TeamType
    <3>6. R  BY Zenon, <3>2, <3>3, <3>4 DEF TeamInv, TeamType
    <3> QED  BY Zenon, <3>5, <3>6
  <2>2. ASSUME NEW q \in Slot, AcceptWrite(q) PROVE P /\ R
    <3>1. req[q] \in AcceptReq  BY Zenon, <2>2, KindOf DEF AcceptWrite, At, TeamInv, TeamType
    <3>2. req[q].org \in User /\ req[q].user \in User  BY Zenon, <3>1 DEF AcceptReq
    <3>3. /\ password' = [password EXCEPT ![req[q].user] =
                             IF @ = NoAccount THEN req[q].password ELSE @]
          /\ role' = [role EXCEPT ![req[q].org][req[q].user] =
                             IF @ = "none" THEN req[q].role ELSE @]
      BY Zenon, <2>2 DEF AcceptWrite
    <3>4. P  BY Zenon, <3>2, <3>3 DEF TeamInv, TeamType, Exists
    <3>5. R  BY Zenon, <3>2, <3>3 DEF TeamInv, TeamType
    <3> QED  BY <3>4, <3>5
  <2>3. ASSUME NEW q \in Slot, ChangeMember(q) PROVE P /\ R
    <3>1. req[q] \in ChangeReq  BY Zenon, <2>3, KindOf DEF ChangeMember, At, TeamInv, TeamType
    <3>2. req[q] # Idle /\ req[q].op = "change" /\ req[q].org \in User /\ req[q].user \in User
      BY Zenon, <3>1, KindOf DEF ChangeReq, TeamInv, TeamType
    <3>3. /\ SameP
          /\ role' = [role EXCEPT ![req[q].org][req[q].user] =
                        IF @ = "none" THEN @ ELSE req[q].role]
      BY Zenon, <2>3 DEF ChangeMember
    <3>4. \A o, u \in User : role'[o][u] # role[o][u] => o = req[q].org /\ u = req[q].user
      BY Zenon, <3>2, <3>3 DEF TeamInv, TeamType
    <3>5. R  BY Zenon, <3>2, <3>4
    <3> QED  BY Zenon, <2>0, <3>3, <3>5
  <2>4. ASSUME NEW s \in sess, NEW q \in Slot, HandleCreateOrg(q, s) PROVE P /\ R
    <3>1. s.user \in User /\ s.user \notin orgs  BY Zenon, <2>4 DEF HandleCreateOrg, TeamInv, TeamType, Session
    <3>2. role[s.user][s.user] = "none"  BY Zenon, <3>1 DEF TeamInv, OrgInv
    <3>3. SameP /\ role' = [role EXCEPT ![s.user][s.user] = "admin"]  BY Zenon, <2>4 DEF HandleCreateOrg
    <3>4. R  BY Zenon, <3>1, <3>2, <3>3 DEF TeamInv, TeamType
    <3> QED  BY Zenon, <2>0, <3>3, <3>4
  <2>5. ASSUME NEW s \in sess, NEW p \in Password, HandlePatchMe(s, p) PROVE P /\ R
    <3>1. s.user \in User  BY Zenon DEF TeamInv, TeamType, Session
    <3>2. password' = [password EXCEPT ![s.user] = p] /\ SameR  BY Zenon, <2>5 DEF HandlePatchMe
    <3>3. password'[s.user] = p  BY Zenon, <3>1, <3>2 DEF TeamInv, TeamType
    <3>4. \A u \in User : password'[u] # password[u] => u = s.user
      BY <3>2 DEF TeamInv, TeamType
    <3>5. HandlePatchMe(s, password'[s.user])  BY <2>5, <3>3, Zenon DEF HandlePatchMe
    <3>6. P  BY Zenon, <3>4, <3>5
    <3> QED  BY Zenon, <2>00, <3>2, <3>6
  <2>6. ASSUME NEW q \in Slot, SessionCreate(q) \/ CountAdmins(q) \/ Fail(q) PROVE SameP /\ SameR
    BY <2>6 DEF SessionCreate, CountAdmins, Fail
  <2>7. ASSUME NEW q \in Slot, NEW u \in User,
               \/ \E p \in Password : RegisterCount(q, u, p)
               \/ \E o \in User : LoginRead(q, o, u)
        PROVE  SameP /\ SameR
    BY <2>7, Zenon DEF RegisterCount, LoginRead
  <2>8. ASSUME NEW q \in Slot, NEW s \in sess, NEW u \in User,
               \/ RemoveMemberRead(q, s, u)
               \/ \E r \in Role : ChangeRoleRead(q, s, u, r) \/ InviteCheck(q, s, u, r)
        PROVE  SameP /\ SameR
    BY <2>8, Zenon DEF RemoveMemberRead, ChangeRoleRead, InviteCheck
  <2>9. ASSUME NEW i \in Inv,
               \/ \E q \in Slot : InviteInsert(q, i) \/ \E p \in Password : AcceptRead(q, i, p)
               \/ InvitationExpire(i) \/ \E s \in sess : HandleRevokeInvitation(s, i)
        PROVE  SameP /\ SameR
    BY <2>9, Zenon DEF InviteInsert, AcceptRead, InvitationExpire, HandleRevokeInvitation
  <2>10. ASSUME NEW s \in sess, SessionDelete(s) PROVE SameP /\ SameR
    BY Zenon, <2>10 DEF SessionDelete
  <2>11. CASE UNCHANGED vars  BY Zenon, <2>0, <2>00, <2>11 DEF vars
  <2> HIDE DEF P, R, SameP, SameR
  <2> QED
    BY ZenonT(60), <2>0, <2>00, <2>1, <2>2, <2>3, <2>4, <2>5, <2>6, <2>7, <2>8, <2>9, <2>10, <2>11 DEF Next
<1> DEFINE A == /\ \A u \in User : Exists(u) /\ password'[u] # password[u] =>
                     \E s \in sess : s.user = u /\ HandlePatchMe(s, password'[u])
                /\ \A o, u \in User : role[o][u] # "none" /\ role'[o][u] # role[o][u] =>
                     \E q \in Slot : req[q] # Idle /\ req[q].op = "change"
                                       /\ req[q].org = o /\ req[q].user = u
<1>2. TeamInv /\ [Next]_vars => A  BY Zenon, <1>1
<1>3. ExistingKept <=> [][A]_vars  BY DEF ExistingKept
<1> HIDE DEF A, P, R
<1> QED  BY TeamInit, TeamStep, <1>2, <1>3, PTL DEF Spec
=============================================================================
