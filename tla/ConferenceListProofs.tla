----------------------- MODULE ConferenceListProofs ------------------------
(***************************************************************************)
(* Proofs about the list of conferences, page by page, and the detail view *)
(* of one, for every set of apps, requests and connections and every page  *)
(* size.                                                                   *)
(***************************************************************************)
EXTENDS Conferences, WellFoundedInduction, FiniteSetTheorems, TLAPS
-----------------------------------------------------------------------------
(* Lists without repetition *)

Image(q, a, b) == {q[i] : i \in a .. b}
Distinct(q, a, b) == \A i, j \in a .. b : q[i] = q[j] => i = j

(* A piece of a list without repetition has as many members as places. *)
LEMMA CardOfImage ==
  ASSUME NEW q, NEW a \in Int, NEW b \in Int, Distinct(q, a, b)
  PROVE  Cardinality(Image(q, a, b)) = IF a > b THEN 0 ELSE b - a + 1
<1> DEFINE f == [i \in a .. b |-> q[i]]
<1>1. IsFiniteSet(a .. b) /\ Cardinality(a .. b) = IF a > b THEN 0 ELSE b - a + 1
  BY Zenon, FS_Interval
<1>2. f \in Surjection(a .. b, Image(q, a, b))  BY DEF Surjection, Image
<1>3. f \in Injection(a .. b, Image(q, a, b))
  BY DEF Injection, IsInjective, Image, Distinct
<1> QED  BY Zenon, <1>1, <1>2, <1>3, FS_Surjection

(* A list of C that is no longer than C has no repetition. *)
LEMMA Enumerates ==
  ASSUME NEW C, IsFiniteSet(C), NEW q \in [1 .. Cardinality(C) -> C], Range(q) = C
  PROVE  /\ Cardinality(C) \in Nat
         /\ \A i, j \in 1 .. Cardinality(C) : q[i] = q[j] => i = j
<1>1. Cardinality(C) \in Nat  BY Zenon, FS_CardinalityType
<1>2. /\ IsFiniteSet(1 .. Cardinality(C))
      /\ Cardinality(1 .. Cardinality(C)) = Cardinality(C)
  BY <1>1, FS_Interval
<1>3. q \in Surjection(1 .. Cardinality(C), C)  BY DEF Surjection, Range
<1>4. q \in Injection(1 .. Cardinality(C), C)
  BY Zenon, <1>2, <1>3, FS_SurjSameCardinalityImpliesInj
<1> QED  BY Zenon, <1>1, <1>4 DEF Injection, IsInjective

(* A non-empty set of numbers has a least one. *)
LEMMA Least ==
  ASSUME NEW S \in SUBSET Nat, S # {}
  PROVE  \E d \in S : \A e \in S : d <= e
<1> DEFINE R == OpToRel(<, Nat)
<1>1. IsWellFoundedOn(R, Nat)  BY NatLessThanWellFounded, Zenon
<1>2. PICK d \in S : \A e \in S : ~(<<e, d>> \in R)
  <2> HIDE DEF R
  <2> QED  BY <1>1, WFMin, Zenon
<1>3. ASSUME NEW e \in S PROVE d <= e
  <2>1. ~(e < d)
    <3>1. d \in Nat /\ e \in Nat  OBVIOUS
    <3>2. e < d => <<e, d>> \in R  BY <3>1 DEF OpToRel
    <3> QED  BY <1>2, <3>2, Zenon
  <2> QED  BY <2>1
<1> QED  BY <1>3
-----------------------------------------------------------------------------
(* The detail view.  What is known of the rows of the query: each is a       *)
(* session of one of the participants P with a connection or Null, there is  *)
(* one for each connection, Null stands alone in its session, and the rows   *)
(* of a session are together.                                                *)
Conn == {x.conn : x \in Report}

RowsOfQuery(rows, n, P) ==
  /\ DOMAIN rows = 1..n
  /\ \A i \in 1..n :
       /\ rows[i].conn \in Conn \union {Null}
       /\ rows[i].part = PartOf[rows[i].sess] /\ rows[i].part \in P /\ rows[i].sess \in Int
  /\ \A i, j \in 1..n : rows[i].conn = rows[j].conn /\ rows[i].conn # Null => i = j
  /\ \A i, j \in 1..n : rows[i].sess = rows[j].sess /\ rows[i].conn = Null => i = j
  /\ \A i, j \in 1..n : i < j /\ rows[i].sess = rows[j].sess => rows[j - 1].sess = rows[j].sess

(* The sessions of the first i rows, and the connections of s among them. *)
Seen(rows, i) == {rows[j].sess : j \in 1..i}
Upto(rows, i, s) == {rows[j].conn : j \in {j \in 1..i : rows[j].sess = s}} \ {Null}

Entry == [id : Int, conns : Seq(Conn)]
Once(c) == \A u, v \in DOMAIN c : c[u] = c[v] => u = v

(* q has the sessions of p in the first i rows once, each with its           *)
(* connections in these rows, once.                                          *)
WholePart(q, rows, i, p) ==
  /\ \A a, b \in DOMAIN q : q[a].id = q[b].id => a = b
  /\ \A a \in DOMAIN q : q[a].id \in Seen(rows, i) /\ PartOf[q[a].id] = p
  /\ \A s \in Seen(rows, i) : PartOf[s] = p => \E a \in DOMAIN q : q[a].id = s
  /\ \A a \in DOMAIN q : Once(q[a].conns) /\ Range(q[a].conns) = Upto(rows, i, q[a].id)

(* The session of the last row is the last of its participant, and the       *)
(* pointer to it is good.                                                    *)
LastIs(st, x) ==
  LET n == Len(st.sessions[x.part]) IN
  /\ n > 0 /\ st.sessions[x.part][n].id = x.sess
  /\ st.pointer[x.sess] = <<st.array[x.part], n>>

(* The loop after i rows. *)
Assembled(st, rows, i, P) ==
  /\ st = [sessions |-> st.sessions, array |-> st.array, pointer |-> st.pointer]
  /\ st.sessions \in [P -> Seq(Entry)] /\ st.array \in [P -> Nat]
  /\ DOMAIN st.pointer = Seen(rows, i)
  /\ \A p \in P : WholePart(st.sessions[p], rows, i, p)
  /\ i > 0 => LastIs(st, rows[i])

AddRow(st, x) == AddConn(AddSession(st, x), x)

(* One more row. *)
LEMMA SeenNext ==
  ASSUME NEW rows, NEW i \in Nat \ {0}
  PROVE  /\ Seen(rows, i) = Seen(rows, i - 1) \union {rows[i].sess}
         /\ Upto(rows, i, rows[i].sess) = Upto(rows, i - 1, rows[i].sess)
                                           \union ({rows[i].conn} \ {Null})
<1>1. 1..i = (1..(i - 1)) \union {i} /\ i \notin 1..(i - 1)  OBVIOUS
<1> QED  BY <1>1, Zenon DEF Seen, Upto

(* ... that is not of s. *)
LEMMA SameUpto ==
  ASSUME NEW rows, NEW i \in Nat \ {0}, NEW s, s # rows[i].sess
  PROVE  Upto(rows, i, s) = Upto(rows, i - 1, s)
<1>1. 1..i = (1..(i - 1)) \union {i} /\ i \notin 1..(i - 1)  OBVIOUS
<1> QED  BY <1>1, Zenon DEF Upto

(* The sessions of another participant stay as they are. *)
LEMMA OtherPart ==
  ASSUME NEW rows, NEW i \in Nat \ {0}, NEW p, NEW q, WholePart(q, rows, i - 1, p),
         PartOf[rows[i].sess] # p
  PROVE  WholePart(q, rows, i, p)
<1>1. Seen(rows, i) = Seen(rows, i - 1) \union {rows[i].sess}  BY SeenNext, Zenon
<1>2. \A a \in DOMAIN q : q[a].id # rows[i].sess  BY Zenon DEF WholePart
<1>3. \A a \in DOMAIN q : Upto(rows, i, q[a].id) = Upto(rows, i - 1, q[a].id)
  BY <1>2, SameUpto, Zenon
<1> QED  BY <1>1, <1>3, Zenon DEF WholePart

(* The connections of a session after its first row. *)
Single(k) == IF k = Null THEN <<>> ELSE <<k>>

(* r is q with a session more, which has the connection of x. *)
OneMore(q, r, n, x) ==
  /\ n \in Nat /\ DOMAIN q = 1..n /\ DOMAIN r = 1..(n + 1) /\ \A a \in 1..n : r[a] = q[a]
  /\ r[n + 1].id = x.sess /\ r[n + 1].conns = Single(x.conn)

(* A session is added with its first connection. *)
LEMMA NewSession ==
  ASSUME NEW rows, NEW i \in Nat \ {0}, NEW x, x = rows[i], NEW p, p = PartOf[x.sess],
         NEW q, NEW r, NEW n, OneMore(q, r, n, x), x.sess \notin Seen(rows, i - 1),
         WholePart(q, rows, i - 1, p)
  PROVE  WholePart(r, rows, i, p)
<1> DEFINE s == rows[i].sess
<1> USE DEF OneMore
<1>0. DOMAIN r = (1..n) \union {n + 1} /\ n + 1 \notin 1..n  OBVIOUS
<1>1. Seen(rows, i) = Seen(rows, i - 1) \union {s}  BY SeenNext, Zenon
<1>2. \A a \in 1..n : q[a].id # s  BY Zenon DEF WholePart
<1>3. \A a, b \in DOMAIN r : r[a].id = r[b].id => a = b
  BY <1>0, <1>2 DEF WholePart
<1>4. \A a \in DOMAIN r : r[a].id \in Seen(rows, i) /\ PartOf[r[a].id] = p
  BY <1>0, <1>1 DEF WholePart
<1>5. \A t \in Seen(rows, i) : PartOf[t] = p => \E a \in DOMAIN r : r[a].id = t
  BY <1>0, <1>1 DEF WholePart
<1>6. \A a \in 1..n : Once(r[a].conns) /\ Range(r[a].conns) = Upto(rows, i, r[a].id)
  <2> SUFFICES ASSUME NEW a \in 1..n
               PROVE  Once(r[a].conns) /\ Range(r[a].conns) = Upto(rows, i, r[a].id)
    BY Zenon
  <2>1. q[a].id # rows[i].sess  BY <1>2, Zenon
  <2>2. Upto(rows, i, q[a].id) = Upto(rows, i - 1, q[a].id)  BY <2>1, SameUpto, Zenon
  <2> QED  BY <2>2, Zenon DEF WholePart
<1>7. Upto(rows, i - 1, s) = {}  BY Zenon DEF Upto, Seen
<1>8. Upto(rows, i, s) = {rows[i].conn} \ {Null}
  <2>1. Upto(rows, i, s) = Upto(rows, i - 1, s) \union ({rows[i].conn} \ {Null})
    BY SeenNext, Zenon
  <2> QED  BY <1>7, <2>1, Zenon
<1>9. Once(Single(rows[i].conn)) /\ Range(Single(rows[i].conn)) = {rows[i].conn} \ {Null}
  BY DEF Once, Range, Single
<1>10. Once(r[n + 1].conns) /\ Range(r[n + 1].conns) = Upto(rows, i, r[n + 1].id)
  BY <1>8, <1>9, Zenon
<1>11. \A a \in DOMAIN r : Once(r[a].conns) /\ Range(r[a].conns) = Upto(rows, i, r[a].id)
  BY <1>0, <1>6, <1>10, Zenon
<1> QED  BY <1>3, <1>4, <1>5, <1>11, Zenon DEF WholePart

(* The last session gets one more connection. *)
LEMMA SameSession ==
  ASSUME NEW rows, NEW i \in Nat \ {0}, NEW x, x = rows[i], NEW p, p = PartOf[x.sess],
         NEW q, NEW r, NEW n \in Nat \ {0},
         DOMAIN q = 1..n, DOMAIN r = 1..n, \A a \in 1..n : a # n => r[a] = q[a],
         q[n].id = x.sess, r[n].id = x.sess, q[n].conns \in Seq(Conn),
         r[n].conns = Append(q[n].conns, x.conn), x.conn \in Conn,
         \A j \in 1..(i - 1) : rows[j].conn # x.conn,
         WholePart(q, rows, i - 1, p)
  PROVE  WholePart(r, rows, i, p)
<1> DEFINE s == rows[i].sess
           c == q[n].conns
<1>0. n \in 1..n  OBVIOUS
<1>1. s \in Seen(rows, i - 1) /\ \A a \in 1..n : r[a].id = q[a].id  BY <1>0, Zenon DEF WholePart
<1>2. Seen(rows, i) = Seen(rows, i - 1)
  <2>1. Seen(rows, i) = Seen(rows, i - 1) \union {s}  BY SeenNext, Zenon
  <2> QED  BY <1>1, <2>1, Zenon
<1>3. \A a \in 1..n : a # n => q[a].id # s  BY <1>0 DEF WholePart
<1>4. ASSUME NEW a \in 1..n, a # n
      PROVE  Once(r[a].conns) /\ Range(r[a].conns) = Upto(rows, i, r[a].id)
  <2>1. Upto(rows, i, q[a].id) = Upto(rows, i - 1, q[a].id)  BY <1>3, <1>4, SameUpto, ZenonT(60)
  <2> QED  BY <1>4, <2>1, Zenon DEF WholePart
<1>5. Once(c) /\ Range(c) = Upto(rows, i - 1, s)
  <2>1. Once(q[n].conns) /\ Range(q[n].conns) = Upto(rows, i - 1, q[n].id)
    BY <1>0, Zenon DEF WholePart
  <2> QED  BY <2>1, Zenon
<1>6. rows[i].conn \notin Range(c)  BY <1>5, Zenon DEF Upto
<1>7. /\ DOMAIN Append(c, rows[i].conn) = DOMAIN c \union {Len(c) + 1}
      /\ Append(c, rows[i].conn)[Len(c) + 1] = rows[i].conn
      /\ \A u \in DOMAIN c : u # Len(c) + 1 /\ Append(c, rows[i].conn)[u] = c[u]
  <2> HIDE DEF c
  <2>1. c \in Seq(Conn)  BY Zenon DEF c
  <2> QED  BY <2>1
<1>8. Once(Append(c, rows[i].conn)) /\ Range(Append(c, rows[i].conn)) = Range(c) \union {rows[i].conn}
  BY <1>5, <1>6, <1>7 DEF Once, Range
<1>9. Range(r[n].conns) = Upto(rows, i, s) /\ Once(r[n].conns)
  <2>1. Upto(rows, i, s) = Upto(rows, i - 1, s) \union ({rows[i].conn} \ {Null})
    BY SeenNext, Zenon
  <2>2. rows[i].conn # Null  BY Zenon, ConferencesAssumption DEF Conn
  <2> QED  BY <1>5, <1>8, <2>1, <2>2, Zenon
<1>10. \A a \in 1..n : Once(r[a].conns) /\ Range(r[a].conns) = Upto(rows, i, r[a].id)
  BY <1>4, <1>9, Zenon
<1>11. \A a, b \in DOMAIN r : r[a].id = r[b].id => a = b  BY Zenon, <1>1 DEF WholePart
<1>12. \A a \in DOMAIN r : r[a].id \in Seen(rows, i) /\ PartOf[r[a].id] = p
  BY <1>1, <1>2 DEF WholePart
<1>13. \A t \in Seen(rows, i) : PartOf[t] = p => \E a \in DOMAIN r : r[a].id = t
  BY <1>1, <1>2 DEF WholePart
<1> QED  BY <1>10, <1>11, <1>12, <1>13, Zenon DEF WholePart

(* What a row needs of the loop's variables. *)
Variables(st, P) ==
  /\ st = [sessions |-> st.sessions, array |-> st.array, pointer |-> st.pointer]
  /\ st.sessions \in [P -> Seq(Entry)] /\ st.array \in [P -> Nat]

(* A connection is appended to session number m of p. *)
WithConn(st, p, m, k) == [st EXCEPT !.sessions[p][m].conns = Append(@, k)]

Extended(st, v, P, p, m, k) ==
  /\ Variables(v, P) /\ v.array = st.array /\ v.pointer = st.pointer
  /\ \A o \in P : o # p => v.sessions[o] = st.sessions[o]
  /\ Len(v.sessions[p]) = Len(st.sessions[p])
  /\ \A a \in DOMAIN st.sessions[p] : a # m => v.sessions[p][a] = st.sessions[p][a]
  /\ v.sessions[p][m].id = st.sessions[p][m].id
  /\ v.sessions[p][m].conns = Append(st.sessions[p][m].conns, k)

(* Nothing else changes. *)
LEMMA ConnAdded ==
  ASSUME NEW st, NEW P, Variables(st, P), NEW p \in P, NEW m \in DOMAIN st.sessions[p],
         NEW k \in Conn, NEW v, v = WithConn(st, p, m, k)
  PROVE  Extended(st, v, P, p, m, k)
<1> DEFINE q == st.sessions[p]
           e == [q[m] EXCEPT !.conns = Append(@, k)]
           r == [q EXCEPT ![m] = e]
           S == [st.sessions EXCEPT ![p] = r]
<1>1. st = [sessions |-> st.sessions, array |-> st.array, pointer |-> st.pointer]
  BY Zenon DEF Variables
<1>2. v = [sessions |-> S, array |-> st.array, pointer |-> st.pointer]
  BY <1>1, Zenon DEF WithConn
<1>3. q \in Seq(Entry) /\ q[m] \in Entry  BY DEF Variables
<1>4. e \in Entry /\ e.id = q[m].id /\ e.conns = Append(q[m].conns, k)
  <2>1. q[m].conns \in Seq(Conn) /\ q[m].id \in Int  BY <1>3 DEF Entry
  <2>2. Append(q[m].conns, k) \in Seq(Conn)  BY <2>1
  <2> QED  BY <1>3, <2>2, Zenon DEF Entry
<1> HIDE DEF e
<1>5. /\ r \in Seq(Entry) /\ Len(r) = Len(q) /\ r[m] = e
      /\ \A a \in DOMAIN q : a # m => r[a] = q[a]
  BY <1>3, <1>4
<1> HIDE DEF r
<1>6. /\ S \in [P -> Seq(Entry)] /\ S[p] = r /\ \A o \in P : o # p => S[o] = st.sessions[o]
  BY <1>5, Zenon DEF Variables
<1> HIDE DEF S
<1>7. /\ v.sessions = S /\ v.array = st.array /\ v.pointer = st.pointer
      /\ v = [sessions |-> v.sessions, array |-> v.array, pointer |-> v.pointer]
  <2>1. v.sessions = S /\ v.array = st.array /\ v.pointer = st.pointer  BY <1>2
  <2> QED  BY <1>2, <2>1, Zenon
<1>8. Variables(v, P)  BY <1>6, <1>7, Zenon DEF Variables
<1> QED  BY <1>4, <1>5, <1>6, <1>7, <1>8, Zenon DEF Extended

(* x opens a session: it becomes number n + 1 of p. *)
Opened(st, v, P, x, p, q, n) ==
  /\ Variables(v, P) /\ DOMAIN v.pointer = DOMAIN st.pointer \union {x.sess}
  /\ \A o \in P : o # p => v.sessions[o] = st.sessions[o]
  /\ Len(v.sessions[p]) = n + 1
  /\ \A a \in 1..n : v.sessions[p][a] = q[a]
  /\ v.sessions[p][n + 1].id = x.sess
  /\ v.sessions[p][n + 1].conns = Single(x.conn)
  /\ v.pointer[x.sess] = <<v.array[p], n + 1>>

(* A row of a session that is not in the map. *)
LEMMA NewRow ==
  ASSUME NEW st, NEW P, Variables(st, P), NEW x, x.part \in P, x.sess \in Int,
         x.conn \in Conn \union {Null},
         x.sess \notin DOMAIN st.pointer, NEW p, p = x.part, NEW q, q = st.sessions[p],
         NEW n, n = Len(q), NEW v, v = AddRow(st, x)
  PROVE  Opened(st, v, P, x, p, q, n)
<1> DEFINE arr == st.array[p] + (IF n \in FullAt THEN 1 ELSE 0)
           e == [id |-> x.sess, conns |-> <<>>]
           u == AddSession(st, x)
<1>0. p \in P  BY Zenon
<1>1. u = [sessions |-> [st.sessions EXCEPT ![p] = Append(q, e)],
           array |-> [st.array EXCEPT ![p] = arr],
           pointer |-> [s \in DOMAIN st.pointer \union {x.sess} |->
                          IF s = x.sess THEN <<arr, n + 1>> ELSE st.pointer[s]]]
  BY Zenon DEF AddSession
<1>2. q \in Seq(Entry) /\ n \in Nat  BY DEF Variables
<1>3. e \in Entry /\ e.id = x.sess /\ e.conns = <<>>  BY DEF Entry
<1>4. arr \in Nat  BY DEF Variables
<1> HIDE DEF arr, e, u
<1>5. /\ Append(q, e) \in Seq(Entry) /\ Len(Append(q, e)) = n + 1
      /\ Append(q, e)[n + 1] = e /\ \A a \in 1..n : Append(q, e)[a] = q[a]
      /\ n + 1 \in DOMAIN Append(q, e)
  BY <1>2, <1>3
<1>6. /\ u.sessions = [st.sessions EXCEPT ![p] = Append(q, e)]
      /\ u.array = [st.array EXCEPT ![p] = arr]
      /\ DOMAIN u.pointer = DOMAIN st.pointer \union {x.sess}
      /\ u.pointer[x.sess] = <<arr, n + 1>>
      /\ u = [sessions |-> u.sessions, array |-> u.array, pointer |-> u.pointer]
  BY <1>1
<1>7. /\ u.sessions \in [P -> Seq(Entry)] /\ u.sessions[p] = Append(q, e)
      /\ \A o \in P : o # p => u.sessions[o] = st.sessions[o]
      /\ u.array \in [P -> Nat] /\ u.array[p] = arr
  <2>1. st.sessions \in [P -> Seq(Entry)] /\ st.array \in [P -> Nat]  BY Zenon DEF Variables
  <2>2. /\ u.sessions \in [P -> Seq(Entry)] /\ u.sessions[p] = Append(q, e)
        /\ \A o \in P : o # p => u.sessions[o] = st.sessions[o]
    BY <1>0, <1>5, <1>6, <2>1
  <2>3. u.array \in [P -> Nat] /\ u.array[p] = arr  BY <1>0, <1>4, <1>6, <2>1
  <2> QED  BY <2>2, <2>3, Zenon
<1>8. Variables(u, P)  BY <1>6, <1>7, Zenon DEF Variables
<1>9. u.pointer[x.sess][1] = arr /\ u.pointer[x.sess][2] = n + 1  BY <1>6
<1>10. n + 1 \in DOMAIN u.sessions[p] /\ u.sessions[p][n + 1] = e /\ Len(u.sessions[p]) = n + 1
  BY <1>5, <1>7, Zenon
<1>11. /\ Variables(v, P) /\ v.array = u.array /\ v.pointer = u.pointer
       /\ \A o \in P : o # p => v.sessions[o] = u.sessions[o]
       /\ Len(v.sessions[p]) = Len(u.sessions[p])
       /\ \A a \in DOMAIN u.sessions[p] : a # n + 1 => v.sessions[p][a] = u.sessions[p][a]
       /\ v.sessions[p][n + 1].id = u.sessions[p][n + 1].id
       /\ v.sessions[p][n + 1].conns = Single(x.conn)
  <2>1. CASE x.conn = Null
    <3>1. v = u  BY <2>1, Zenon DEF AddRow, AddConn, u
    <3>2. v.sessions[p][n + 1].conns = Single(x.conn)
      BY <1>3, <1>10, <2>1, <3>1, Zenon DEF Single
    <3> QED  BY <1>8, <3>1, <3>2, Zenon
  <2>2. CASE x.conn # Null
    <3>1. v = WithConn(u, p, n + 1, x.conn)
      BY <1>7, <1>9, <2>2, Zenon DEF AddRow, AddConn, WithConn, u
    <3>2. x.conn \in Conn  BY <2>2, Zenon
    <3>3. Extended(u, v, P, p, n + 1, x.conn)
      BY <1>0, <1>8, <1>10, <3>1, <3>2, ConnAdded, Zenon
    <3>4. v.sessions[p][n + 1].conns = Append(<<>>, x.conn)
      BY <1>3, <1>10, <3>3, Zenon DEF Extended
    <3>5. Append(<<>>, x.conn) = <<x.conn>>  OBVIOUS
    <3>6. v.sessions[p][n + 1].conns = Single(x.conn)  BY <2>2, <3>4, <3>5, Zenon DEF Single
    <3> QED  BY <3>3, <3>6, Zenon DEF Extended
  <2> QED  BY <2>1, <2>2, Zenon
<1>12. \A a \in 1..n : a \in DOMAIN Append(q, e) /\ a # n + 1  BY <1>2, <1>5
<1>14. /\ Len(v.sessions[p]) = n + 1 /\ v.sessions[p][n + 1].id = x.sess
       /\ v.sessions[p][n + 1].conns = Single(x.conn)
  BY <1>3, <1>10, <1>11, Zenon
<1>15. ASSUME NEW a \in 1..n PROVE v.sessions[p][a] = q[a]
  <2>1. a \in DOMAIN u.sessions[p] /\ a # n + 1  BY <1>7, <1>12, Zenon
  <2>2. u.sessions[p][a] = q[a]  BY <1>5, <1>7, Zenon
  <2> QED  BY <1>11, <2>1, <2>2, Zenon
<1>16. /\ DOMAIN v.pointer = DOMAIN st.pointer \union {x.sess}
       /\ v.pointer[x.sess] = <<v.array[p], n + 1>>
  BY <1>6, <1>7, <1>11, Zenon
<1>17. \A o \in P : o # p => v.sessions[o] = st.sessions[o]  BY <1>7, <1>11, ZenonT(60)
<1> QED  BY <1>11, <1>14, <1>15, <1>16, <1>17, Zenon DEF Opened

(* The session of x is the last of p, number m, and AddConn reaches it. *)
Pointed(st, x, p, m) ==
  /\ m \in Nat \ {0} /\ st.sessions[p][m].id = x.sess /\ x.conn \in Conn
  /\ st.pointer[x.sess] = <<st.array[p], m>>
  /\ AddRow(st, x) = WithConn(st, p, m, x.conn)

(* A row of a session that is in the map: the session is the one of the row  *)
(* before, and the pointer to it is good.                                    *)
LEMMA OldRow ==
  ASSUME NEW P, NEW rows, NEW n \in Nat, RowsOfQuery(rows, n, P), NEW i \in 1..n,
         NEW st, Assembled(st, rows, i - 1, P), rows[i].sess \in Seen(rows, i - 1),
         NEW p, p = rows[i].part, NEW m, m = Len(st.sessions[p])
  PROVE  Pointed(st, rows[i], p, m)
<1>1. PICK j \in 1..(i - 1) : rows[j].sess = rows[i].sess  BY Zenon DEF Seen
<1>2. /\ i - 1 \in 1..n /\ i - 1 > 0 /\ j < i /\ j \in 1..n  BY <1>1
<1>3. rows[i - 1].sess = rows[i].sess  BY <1>1, <1>2, Zenon DEF RowsOfQuery
<1>4. rows[i - 1].part = p
  <2>1. rows[i - 1].part = PartOf[rows[i - 1].sess]  BY <1>2, Zenon DEF RowsOfQuery
  <2>2. rows[i].part = PartOf[rows[i].sess]  BY Zenon DEF RowsOfQuery
  <2> QED  BY <1>3, <2>1, <2>2, Zenon
<1>5. LastIs(st, rows[i - 1])  BY <1>2, Zenon DEF Assembled
<1>6. /\ m > 0 /\ st.sessions[p][m].id = rows[i].sess
      /\ st.pointer[rows[i].sess] = <<st.array[p], m>>
  BY <1>3, <1>4, <1>5, Zenon DEF LastIs
<1>7. p \in P  BY Zenon DEF RowsOfQuery
<1>8. m \in Nat  BY <1>7 DEF Assembled
<1>9. rows[i].sess \in DOMAIN st.pointer  BY Zenon DEF Assembled
<1>10. st.pointer[rows[i].sess][1] = st.array[p] /\ st.pointer[rows[i].sess][2] = m  BY <1>6
<1>13. rows[i].conn # Null /\ rows[i].conn \in Conn
  <2>1. j # i  BY <1>2
  <2>2. rows[i].conn # Null  BY <1>1, <1>2, <2>1, Zenon DEF RowsOfQuery
  <2> QED  BY <2>2, Zenon DEF RowsOfQuery
<1>11. AddRow(st, rows[i]) = WithConn(st, p, m, rows[i].conn)
  BY <1>9, <1>10, <1>13, ZenonT(60) DEF AddRow, AddSession, AddConn, WithConn
<1>12. m \in Nat \ {0}  BY <1>6, <1>8
<1> QED  BY <1>6, <1>11, <1>12, <1>13, Zenon DEF Pointed

(* One more row. *)
LEMMA RowStep ==
  ASSUME NEW P, NEW rows, NEW n \in Nat, RowsOfQuery(rows, n, P), NEW i \in 1..n,
         NEW st, Assembled(st, rows, i - 1, P), NEW v, v = AddRow(st, rows[i])
  PROVE  Assembled(v, rows, i, P)
<1>0. PICK x, p, q, m : x = rows[i] /\ p = x.part /\ q = st.sessions[p] /\ m = Len(q)  BY Zenon
<1>1. /\ x.part \in P /\ x.sess \in Int /\ x.conn \in Conn \union {Null}
      /\ p = PartOf[x.sess] /\ p \in P
  BY <1>0, Zenon DEF RowsOfQuery
<1>2. i \in Nat \ {0} /\ i > 0  OBVIOUS
<1>3. Variables(st, P) /\ DOMAIN st.pointer = Seen(rows, i - 1)
  BY Zenon DEF Assembled, Variables
<1>4. q \in Seq(Entry) /\ m \in Nat /\ DOMAIN q = 1..m  BY <1>0, <1>1, <1>3 DEF Variables
<1>5. Seen(rows, i) = Seen(rows, i - 1) \union {x.sess}  BY <1>0, <1>2, SeenNext, Zenon
<1>6. WholePart(q, rows, i - 1, p)  BY <1>0, <1>1, Zenon DEF Assembled
<1>7. ASSUME NEW o \in P, o # p PROVE WholePart(st.sessions[o], rows, i, o)
  <2>1. WholePart(st.sessions[o], rows, i - 1, o)  BY Zenon DEF Assembled
  <2>2. PartOf[rows[i].sess] # o  BY <1>0, <1>1, <1>7, Zenon
  <2> QED  BY <1>2, <2>1, <2>2, OtherPart, Zenon
<1>8. ASSUME Variables(v, P), DOMAIN v.pointer = Seen(rows, i),
             \A o \in P : o # p => v.sessions[o] = st.sessions[o],
             WholePart(v.sessions[p], rows, i, p), LastIs(v, x)
      PROVE  Assembled(v, rows, i, P)
  BY <1>0, <1>7, <1>8, Zenon DEF Assembled, Variables
<1>9. CASE x.sess \notin Seen(rows, i - 1)
  <2>1. Opened(st, v, P, x, p, q, m)  BY <1>0, <1>1, <1>3, <1>9, NewRow, Zenon
  <2> DEFINE r == v.sessions[p]
  <2>2. /\ Variables(v, P) /\ Len(r) = m + 1 /\ \A a \in 1..m : r[a] = q[a]
        /\ r[m + 1].id = x.sess /\ r[m + 1].conns = Single(x.conn)
        /\ DOMAIN v.pointer = DOMAIN st.pointer \union {x.sess}
        /\ \A o \in P : o # p => v.sessions[o] = st.sessions[o]
        /\ v.pointer[x.sess] = <<v.array[p], m + 1>>
    BY <2>1, Zenon DEF Opened
  <2>3. r \in Seq(Entry)  BY <1>1, <2>2, Zenon DEF Variables
  <2> HIDE DEF r
  <2>4. DOMAIN r = 1..(m + 1)  BY <2>2, <2>3
  <2>5. WholePart(r, rows, i, p)
    <3>1. OneMore(q, r, m, x)  BY <1>4, <2>2, <2>4, Zenon DEF OneMore
    <3> QED  BY <1>0, <1>1, <1>2, <1>6, <1>9, <3>1, NewSession, Zenon
  <2>6. m + 1 > 0  BY <1>4
  <2>7. LastIs(v, x)  BY <1>0, <2>2, <2>6, Zenon DEF LastIs, r
  <2>8. DOMAIN v.pointer = Seen(rows, i)  BY <1>3, <1>5, <2>2, Zenon
  <2> QED  BY <1>8, <2>2, <2>5, <2>7, <2>8, Zenon DEF r
<1>10. CASE x.sess \in Seen(rows, i - 1)
  <2>1. /\ m \in Nat \ {0} /\ q[m].id = x.sess /\ st.pointer[x.sess] = <<st.array[p], m>>
        /\ x.conn \in Conn /\ v = WithConn(st, p, m, x.conn)
    <3>1. p = rows[i].part /\ m = Len(st.sessions[p]) /\ rows[i].sess \in Seen(rows, i - 1)
      BY <1>0, <1>10, Zenon
    <3>2. Pointed(st, rows[i], p, m)  BY <3>1, OldRow, Zenon
    <3> QED  BY <1>0, <3>2, Zenon DEF Pointed
  <2>2. m \in DOMAIN q  BY <1>4, <2>1
  <2>3. Extended(st, v, P, p, m, x.conn)  BY <1>0, <1>1, <1>3, <2>1, <2>2, ConnAdded, Zenon
  <2> DEFINE r == v.sessions[p]
  <2>4. /\ Variables(v, P) /\ Len(r) = m /\ \A a \in 1..m : a # m => r[a] = q[a]
        /\ r[m].id = x.sess /\ r[m].conns = Append(q[m].conns, x.conn)
        /\ v.pointer = st.pointer /\ v.array = st.array
        /\ \A o \in P : o # p => v.sessions[o] = st.sessions[o]
    BY <1>0, <1>4, <2>1, <2>3, ZenonT(60) DEF Extended
  <2>5. r \in Seq(Entry)  BY <1>1, <2>4, Zenon DEF Variables
  <2> HIDE DEF r
  <2>6. DOMAIN r = 1..m  BY <2>4, <2>5
  <2>7. q[m].conns \in Seq(Conn)
    <3>1. q[m] \in Entry  BY <1>4, <2>2
    <3> QED  BY <3>1 DEF Entry
  <2>8. \A j \in 1..(i - 1) : rows[j].conn # x.conn
    <3>1. \A j \in 1..(i - 1) : j \in 1..n /\ j # i  OBVIOUS
    <3>2. x.conn # Null  BY <2>1, Zenon, ConferencesAssumption DEF Conn
    <3> QED  BY <1>0, <3>1, <3>2, Zenon DEF RowsOfQuery
  <2>9. WholePart(r, rows, i, p)
    BY <1>0, <1>1, <1>2, <1>4, <1>6, <2>1, <2>4, <2>6, <2>7, <2>8, SameSession, Zenon
  <2>10. m > 0  BY <2>1
  <2>11. LastIs(v, x)  BY <1>0, <2>1, <2>4, <2>10, Zenon DEF LastIs, r
  <2>12. DOMAIN v.pointer = Seen(rows, i)  BY <1>3, <1>5, <1>10, <2>4, Zenon
  <2> QED  BY <1>8, <2>4, <2>9, <2>11, <2>12, Zenon DEF r
<1> QED  BY <1>9, <1>10, Zenon

(* The recursive definition of the loop has a solution for n rows. *)
IsAssembly(f, n, order, rows) ==
  f = [i \in 0..n |-> IF i = 0 THEN Unassembled(order) ELSE AddRow(f[i - 1], rows[i])]

(* By the least n for which there is none. *)
LEMMA AssemblyExists ==
  ASSUME NEW order, NEW rows
  PROVE  \A n \in Nat : \E f : IsAssembly(f, n, order, rows)
<1> DEFINE None == {n \in Nat : ~\E f : IsAssembly(f, n, order, rows)}
<1> SUFFICES ASSUME None # {} PROVE FALSE  OBVIOUS
<1>1. PICK n \in None : \A m \in None : n <= m  BY Least, Zenon
<1>2. n \in Nat /\ ~\E f : IsAssembly(f, n, order, rows)  BY Zenon
<1>3. CASE n = 0
  <2> DEFINE f == [i \in 0..0 |-> Unassembled(order)]
  <2>1. IsAssembly(f, 0, order, rows)  BY DEF IsAssembly
  <2> QED  BY Zenon, <1>2, <1>3, <2>1
<1>4. CASE n # 0
  <2>1. n - 1 \in Nat /\ n - 1 \notin None  BY <1>1, <1>2, <1>4
  <2>2. PICK g : IsAssembly(g, n - 1, order, rows)  BY Zenon, <2>1
  <2> DEFINE f == [i \in 0..n |-> IF i = n THEN AddRow(g[n - 1], rows[n]) ELSE g[i]]
  <2>3. \A i \in 0..(n - 1) : g[i] = IF i = 0 THEN Unassembled(order)
                                     ELSE AddRow(g[i - 1], rows[i])
    BY Zenon, <2>2 DEF IsAssembly
  <2>4. ASSUME NEW i \in 0..n
        PROVE  f[i] = IF i = 0 THEN Unassembled(order) ELSE AddRow(f[i - 1], rows[i])
    <3>1. CASE i = n
      <4>1. i - 1 \in 0..n /\ i - 1 # n /\ i # 0  BY <1>2, <1>4, <3>1
      <4>2. f[i - 1] = g[i - 1]  BY Zenon, <4>1
      <4>3. f[i] = AddRow(g[n - 1], rows[n])  BY Zenon, <3>1
      <4> QED  BY Zenon, <3>1, <4>1, <4>2, <4>3
    <3>2. CASE i # n
      <4>1. i \in 0..(n - 1)  BY <1>2, <3>2
      <4>2. f[i] = g[i]  BY Zenon, <3>2
      <4>3. ASSUME i # 0 PROVE f[i - 1] = g[i - 1]
        <5>1. i - 1 \in 0..n /\ i - 1 # n  BY <4>1, <4>3, <1>2
        <5> QED  BY Zenon, <5>1
      <4> HIDE DEF f
      <4> QED  BY Zenon, <4>1, <4>2, <4>3, <2>3
    <3> QED  BY Zenon, <3>1, <3>2
  <2>5. f = [i \in 0..n |-> f[i]]  BY Zenon
  <2> HIDE DEF f
  <2>6. IsAssembly(f, n, order, rows)  BY <2>4, <2>5, Zenon DEF IsAssembly
  <2> QED  BY Zenon, <1>2, <2>6
<1> QED  BY Zenon, <1>3, <1>4

(* After all rows. *)
LEMMA LoopAssembles ==
  ASSUME NEW order, NEW rows, NEW n \in Nat, Len(rows) = n, RowsOfQuery(rows, n, Range(order))
  PROVE  Assembled(AssembleLoop(order, rows), rows, n, Range(order))
<1> DEFINE f == CHOOSE g : IsAssembly(g, n, order, rows)
           P == Range(order)
<1>1. IsAssembly(f, n, order, rows)  BY Zenon, AssemblyExists
<1>2. AssembleLoop(order, rows) = f[n]  BY Zenon DEF AssembleLoop, IsAssembly, AddRow
<1> HIDE DEF f, P
<1>3. \A i \in 0..n : f[i] = IF i = 0 THEN Unassembled(order) ELSE AddRow(f[i - 1], rows[i])
  BY Zenon, <1>1 DEF IsAssembly
<1>4. Assembled(f[0], rows, 0, P)
  <2>1. f[0] = Unassembled(order)  BY <1>3
  <2>2. /\ f[0] = [sessions |-> f[0].sessions, array |-> f[0].array, pointer |-> f[0].pointer]
        /\ f[0].sessions = [p \in P |-> <<>>] /\ f[0].array = [p \in P |-> 0]
        /\ f[0].pointer = <<>>
    <3>1. f[0] = [sessions |-> [p \in P |-> <<>>], array |-> [p \in P |-> 0], pointer |-> <<>>]
      BY <2>1, Zenon DEF Unassembled, P
    <3>2. /\ f[0].sessions = [p \in P |-> <<>>] /\ f[0].array = [p \in P |-> 0]
          /\ f[0].pointer = <<>>
      BY <3>1
    <3> QED  BY <3>1, <3>2, Zenon
  <2>3. <<>> \in Seq(Entry) /\ DOMAIN <<>> = {} /\ 1..0 = {} /\ 0 \in Nat /\ ~(0 > 0)  OBVIOUS
  <2>4. Seen(rows, 0) = {}  BY <2>3, Zenon DEF Seen
  <2>5. \A p \in P : WholePart(<<>>, rows, 0, p)  BY <2>3, <2>4, Zenon DEF WholePart
  <2>6. /\ f[0].sessions \in [P -> Seq(Entry)] /\ f[0].array \in [P -> Nat]
        /\ \A p \in P : f[0].sessions[p] = <<>>
    BY <2>2, <2>3, Zenon
  <2> QED  BY <2>2, <2>3, <2>4, <2>5, <2>6, Zenon DEF Assembled
<1> DEFINE Broken == {i \in 0..n : ~Assembled(f[i], rows, i, P)}
<1>5. ASSUME Broken # {} PROVE FALSE
  <2>0. Broken \in SUBSET Nat  OBVIOUS
  <2>1. PICK i \in Broken : \A j \in Broken : i <= j
    <3> HIDE DEF Broken
    <3> QED  BY Zenon, <1>5, <2>0, Least
  <2>2. i \in 1..n /\ i \in 0..n /\ i # 0  BY <1>4
  <2>3. i - 1 \in 0..n /\ ~(i <= i - 1)  BY <2>2
  <2>4. Assembled(f[i - 1], rows, i - 1, P)  BY <2>1, <2>3, Zenon
  <2>5. Assembled(f[i], rows, i, P)
    <3>1. f[i] = AddRow(f[i - 1], rows[i])  BY <1>3, <2>2, Zenon
    <3> QED  BY <2>2, <2>4, <3>1, RowStep, Zenon DEF P
  <2> QED  BY <2>1, <2>5, Zenon
<1>6. n \in 0..n  OBVIOUS
<1> QED  BY <1>2, <1>5, <1>6, Zenon DEF P

(* What is stored: finitely many rows with numbers for ids and times. *)
Rows ==
  /\ IsFiniteSet(confs) /\ IsFiniteSet(sessions) /\ IsFiniteSet(conns)
  /\ \A c \in confs : Start[c] \in Int
  /\ \A s \in sessions : s \in Int /\ PartOf[s] \in Int
  /\ conns \subseteq Conn

(* The rows J of the join for the participants P. *)
Joins(J, P) ==
  /\ \A x \in J : /\ x.sess \in sessions /\ x.part = PartOf[x.sess] /\ x.part \in P
                  /\ x.conn \in conns \union {Null}
                  /\ x.conn # Null => x.sess = SessionOf[x.conn]
  /\ \A x, y \in J : x.conn = y.conn /\ x.conn # Null => x = y
  /\ \A x, y \in J : x.sess = y.sess /\ x.conn = Null => x = y
  /\ \A s \in sessions : PartOf[s] \in P => \E x \in J : x.sess = s
  /\ \A k \in conns : SessionOf[k] \in sessions /\ PartOf[SessionOf[k]] \in P =>
       \E x \in J : x.conn = k

LEMMA JoinIs ==
  ASSUME Rows, NEW P
  PROVE  IsFiniteSet(JoinRows(P)) /\ Joins(JoinRows(P), P)
<1> DEFINE Of0 == {s \in sessions : PartOf[s] \in P}
           K == {k \in conns : SessionOf[k] \in Of0}
           B == {s \in Of0 : \A k \in K : SessionOf[k] # s}
           row(s, k) == [part |-> PartOf[s], sess |-> s, conn |-> k]
           J1 == {row(SessionOf[k], k) : k \in K}
           J2 == {row(s, Null) : s \in B}
           J == JoinRows(P)
<1>1. J = J1 \union J2  BY DEF JoinRows
<1>3. /\ \A k \in K : k \in conns /\ SessionOf[k] \in sessions /\ PartOf[SessionOf[k]] \in P
      /\ \A s \in B : s \in sessions /\ PartOf[s] \in P /\ \A k \in K : SessionOf[k] # s
      /\ \A s \in sessions : PartOf[s] \in P => s \in B \/ \E k \in K : SessionOf[k] = s
      /\ \A k \in conns : SessionOf[k] \in sessions /\ PartOf[SessionOf[k]] \in P => k \in K
  BY Zenon
<1>4. \A k \in K : k # Null
  <2>1. \A k \in conns : k # Null  BY Zenon, ConferencesAssumption DEF Rows, Conn
  <2> HIDE DEF K
  <2> QED  BY <1>3, <2>1, Zenon
<1>5. IsFiniteSet(K) /\ IsFiniteSet(B)
  <2>1. K \in SUBSET conns /\ B \in SUBSET sessions  BY <1>3, Zenon
  <2> HIDE DEF K, B
  <2> QED  BY <2>1, FS_Subset, Zenon DEF Rows
<1> HIDE DEF K, B, Of0, J
<1>6. IsFiniteSet(J1) /\ IsFiniteSet(J2)
  <2> DEFINE f == [k \in K |-> row(SessionOf[k], k)]
             g == [s \in B |-> row(s, Null)]
  <2>1. f \in Surjection(K, J1)  BY Zenon DEF Surjection
  <2>2. g \in Surjection(B, J2)  BY Zenon DEF Surjection
  <2> HIDE DEF f, g, J1, J2
  <2> QED  BY <1>5, <2>1, <2>2, FS_Surjection, Zenon
<1>7. IsFiniteSet(J)
  <2> HIDE DEF J1, J2
  <2> QED  BY <1>1, <1>6, FS_Union, Zenon
<1>8. ASSUME NEW x \in J
      PROVE  /\ x = row(x.sess, x.conn) /\ x.part = PartOf[x.sess]
             /\ \/ x.conn \in K /\ x.sess = SessionOf[x.conn]
                \/ x.conn = Null /\ x.sess \in B
  <2>1. ASSUME NEW k \in K, x = row(SessionOf[k], k)
        PROVE  x.conn = k /\ x.sess = SessionOf[k] /\ x.part = PartOf[SessionOf[k]]
    BY <2>1
  <2>2. ASSUME NEW s \in B, x = row(s, Null)
        PROVE  x.conn = Null /\ x.sess = s /\ x.part = PartOf[s]
    BY <2>2
  <2>3. (\E k \in K : x = row(SessionOf[k], k)) \/ \E s \in B : x = row(s, Null)
    BY <1>1, Zenon
  <2> HIDE DEF row
  <2>4. CASE \E k \in K : x = row(SessionOf[k], k)
    <3>1. PICK k \in K : x = row(SessionOf[k], k)  BY <2>4, Zenon
    <3>2. x.conn = k /\ x.sess = SessionOf[k] /\ x.part = PartOf[SessionOf[k]]
      BY <2>1, <3>1, Zenon
    <3> QED  BY <3>1, <3>2, Zenon
  <2>5. CASE \E s \in B : x = row(s, Null)
    <3>1. PICK s \in B : x = row(s, Null)  BY <2>5, Zenon
    <3>2. x.conn = Null /\ x.sess = s /\ x.part = PartOf[s]  BY <2>2, <3>1, Zenon
    <3> QED  BY <3>1, <3>2, Zenon
  <2> QED  BY <2>3, <2>4, <2>5, Zenon
<1>9. ASSUME NEW s, NEW k PROVE row(s, k).conn = k /\ row(s, k).sess = s
  OBVIOUS
<1> HIDE DEF row
<1>10. ASSUME NEW x \in J
       PROVE  /\ x.sess \in sessions /\ x.part = PartOf[x.sess] /\ x.part \in P
              /\ x.conn \in conns \union {Null}
              /\ x.conn # Null => x.sess = SessionOf[x.conn]
  <2>1. x.part = PartOf[x.sess]  BY <1>8, Zenon
  <2>2. CASE x.conn \in K /\ x.sess = SessionOf[x.conn]  BY <1>3, <2>1, <2>2, Zenon
  <2>3. CASE x.conn = Null /\ x.sess \in B  BY <1>3, <2>1, <2>3, Zenon
  <2> QED  BY <1>8, <2>2, <2>3, Zenon
<1>11. ASSUME NEW x \in J, NEW y \in J, x.conn = y.conn, x.conn # Null PROVE x = y
  <2>1. x.sess = SessionOf[x.conn] /\ y.sess = SessionOf[y.conn]  BY <1>8, <1>11, Zenon
  <2>2. x.sess = y.sess  BY <1>11, <2>1, Zenon
  <2>3. x = row(x.sess, x.conn) /\ y = row(y.sess, y.conn)  BY <1>8, Zenon
  <2> QED  BY <1>11, <2>2, <2>3, Zenon
<1>12. ASSUME NEW x \in J, NEW y \in J, x.sess = y.sess, x.conn = Null PROVE x = y
  <2>1. x.sess \in B  BY <1>4, <1>8, <1>12, Zenon
  <2>2. ~(y.conn \in K /\ y.sess = SessionOf[y.conn])  BY <1>3, <1>12, <2>1, Zenon
  <2>3. y.conn = Null  BY <1>8, <2>2, Zenon
  <2>4. x = row(x.sess, x.conn) /\ y = row(y.sess, y.conn)  BY <1>8, Zenon
  <2> QED  BY <1>12, <2>3, <2>4, Zenon
<1>13. ASSUME NEW s \in sessions, PartOf[s] \in P PROVE \E x \in J : x.sess = s
  <2>1. ASSUME NEW k \in K, SessionOf[k] = s PROVE \E x \in J : x.sess = s
    <3>1. row(s, k) \in J  BY <1>1, <2>1, Zenon
    <3> QED  BY <1>9, <3>1, Zenon
  <2>2. ASSUME s \in B PROVE \E x \in J : x.sess = s
    <3>1. row(s, Null) \in J  BY <1>1, <2>2, Zenon
    <3> QED  BY <1>9, <3>1, Zenon
  <2> QED  BY <1>3, <1>13, <2>1, <2>2, Zenon
<1>14. ASSUME NEW k \in conns, SessionOf[k] \in sessions, PartOf[SessionOf[k]] \in P
       PROVE  \E x \in J : x.conn = k
  <2>1. k \in K  BY <1>3, <1>14, Zenon
  <2>2. row(SessionOf[k], k) \in J  BY <1>1, <2>1, Zenon
  <2> QED  BY <1>9, <2>2, Zenon
<1>15. Joins(J, P)  BY <1>10, <1>11, <1>12, <1>13, <1>14, Zenon DEF Joins
<1> QED  BY <1>7, <1>15, Zenon DEF J

(* What the query returns: ORDER BY puts the rows of a session together. *)
LEMMA QueryRows ==
  ASSUME Rows, NEW P, NEW rows, rows \in Ordered(JoinRows(P), RowBefore)
  PROVE  \E n \in Nat : /\ Len(rows) = n /\ RowsOfQuery(rows, n, P)
                        /\ Joins({rows[i] : i \in 1..n}, P)
<1> DEFINE J == JoinRows(P)
<1>1. /\ rows \in [1..Cardinality(J) -> J] /\ Range(rows) = J
      /\ \A i, j \in DOMAIN rows : i < j => ~RowBefore(rows[j], rows[i])
  BY Zenon DEF Ordered
<1>0. IsFiniteSet(J) /\ Joins(J, P)  BY JoinIs, Zenon
<1> HIDE DEF J
<1>2. /\ \A x \in J : /\ x.conn \in Conn \union {Null} /\ x.part = PartOf[x.sess]
                       /\ x.part \in P /\ x.sess \in Int /\ x.part \in Int
      /\ \A x, y \in J : x.conn = y.conn /\ x.conn # Null => x = y
      /\ \A x, y \in J : x.sess = y.sess /\ x.conn = Null => x = y
  BY <1>0, Zenon DEF Joins, Rows
<1>3. PICK n \in Nat : /\ n = Cardinality(J) /\ rows \in [1..n -> J]
                       /\ \A i, j \in 1..n : rows[i] = rows[j] => i = j
  BY <1>0, <1>1, Enumerates, Zenon
<1>4. Len(rows) = n /\ DOMAIN rows = 1..n  BY <1>3
<1>5. \A i \in 1..n :
        /\ rows[i] \in J /\ rows[i].conn \in Conn \union {Null}
        /\ rows[i].part = PartOf[rows[i].sess]
        /\ rows[i].part \in P /\ rows[i].sess \in Int /\ rows[i].part \in Int
  BY <1>2, <1>3, Zenon
<1>6. ASSUME NEW i \in 1..n, NEW j \in 1..n,
             \/ rows[i].conn = rows[j].conn /\ rows[i].conn # Null
             \/ rows[i].sess = rows[j].sess /\ rows[i].conn = Null
      PROVE  i = j
  <2>1. rows[i] \in J /\ rows[j] \in J  BY <1>5, Zenon
  <2>2. rows[i] = rows[j]  BY <1>2, <1>6, <2>1, Zenon
  <2> QED  BY <1>3, <2>2, Zenon
<1>7. ASSUME NEW i \in 1..n, NEW j \in 1..n, i < j, rows[i].sess = rows[j].sess
      PROVE  rows[j - 1].sess = rows[j].sess
  <2>1. CASE i = j - 1  BY <1>7, <2>1, Zenon
  <2>2. CASE i # j - 1
    <3>1. j - 1 \in 1..n /\ i < j - 1 /\ j - 1 < j  BY <1>7, <2>2
    <3>2. PICK x, y, z \in J : x = rows[i] /\ y = rows[j - 1] /\ z = rows[j]
      BY <1>5, <3>1, Zenon
    <3>3. ~RowBefore(y, x) /\ ~RowBefore(z, y)  BY <1>1, <1>4, <3>1, <3>2, Zenon
    <3>4. /\ x.sess \in Int /\ y.sess \in Int /\ z.sess \in Int
          /\ x.part \in Int /\ y.part \in Int /\ z.part \in Int
          /\ x.sess = z.sess /\ x.part = z.part
      <4>1. x.sess = z.sess  BY <1>7, <3>2, Zenon
      <4>2. x.part = PartOf[x.sess] /\ z.part = PartOf[z.sess]  BY <1>2, Zenon
      <4>3. /\ x.sess \in Int /\ y.sess \in Int /\ z.sess \in Int
            /\ x.part \in Int /\ y.part \in Int /\ z.part \in Int
        BY <1>2, Zenon
      <4> QED  BY <4>1, <4>2, <4>3, Zenon
    <3>5. /\ ~(y.part < x.part) /\ ~(y.part = x.part /\ y.sess < x.sess)
          /\ ~(z.part < y.part) /\ ~(z.part = y.part /\ z.sess < y.sess)
      BY <3>3, Zenon DEF RowBefore
    <3>6. y.part = x.part  BY <3>4, <3>5
    <3>7. y.sess = z.sess  BY <3>4, <3>5, <3>6
    <3> QED  BY <3>2, <3>7, Zenon
  <2> QED  BY <2>1, <2>2, Zenon
<1>8. RowsOfQuery(rows, n, P)  BY <1>4, <1>5, <1>6, <1>7, ZenonT(60) DEF RowsOfQuery
<1>9. J = {rows[i] : i \in 1..n}  BY <1>1, <1>4, Zenon DEF Range
<1> QED  BY <1>0, <1>4, <1>8, <1>9, Zenon

(* ss is what DetailIsWhole says of participant p. *)
WholeSessions(ss, p) ==
  /\ Range([j \in DOMAIN ss |-> ss[j].id]) = {x \in sessions : PartOf[x] = p}
  /\ \A j, n \in DOMAIN ss : ss[j].id = ss[n].id => j = n
  /\ \A j \in DOMAIN ss : /\ Range(ss[j].conns) = {k \in conns : SessionOf[k] = ss[j].id}
                          /\ Len(ss[j].conns) = Cardinality(Range(ss[j].conns))

(* The detail view of what is stored is whole, whatever that is. *)
LEMMA DetailHolds ==
  ASSUME Rows
  PROVE  DetailIsWhole
<1> SUFFICES ASSUME NEW order, NEW rows,
                    rows \in Ordered(JoinRows(Range(order)), RowBefore), NEW i \in DOMAIN order
             PROVE  WholeSessions(Assemble(order, rows)[i].sessions, order[i])
  BY Zenon DEF DetailIsWhole, WholeSessions
<1> DEFINE P == Range(order)
           p == order[i]
           st == AssembleLoop(order, rows)
           ss == st.sessions[p]
<1>1. PICK n \in Nat : /\ Len(rows) = n /\ RowsOfQuery(rows, n, P)
                       /\ Joins({rows[a] : a \in 1..n}, P)
  BY QueryRows, Zenon
<1>2. Assembled(st, rows, n, P)  BY <1>1, LoopAssembles, Zenon
<1>3. p \in P  BY Zenon DEF Range
<1>4. Assemble(order, rows)[i].sessions = ss  BY DEF Assemble
<1> HIDE DEF P, p, st
<1>5. ss \in Seq(Entry) /\ WholePart(ss, rows, n, p)  BY <1>2, <1>3, Zenon DEF Assembled
<1> HIDE DEF ss
<1>6. /\ \A a \in 1..n : /\ rows[a].sess \in sessions /\ rows[a].conn \in conns \union {Null}
                         /\ rows[a].conn # Null => rows[a].sess = SessionOf[rows[a].conn]
      /\ \A s \in sessions : PartOf[s] \in P => \E a \in 1..n : rows[a].sess = s
      /\ \A k \in conns : SessionOf[k] \in sessions /\ PartOf[SessionOf[k]] \in P =>
           \E a \in 1..n : rows[a].conn = k
  <2> DEFINE J == {rows[a] : a \in 1..n}
  <2>1. (\A a \in 1..n : rows[a] \in J) /\ \A x \in J : \E a \in 1..n : x = rows[a]  BY Zenon
  <2>2. Joins(J, P)  BY <1>1, Zenon
  <2> HIDE DEF J
  <2>3. \A a \in 1..n : /\ rows[a].sess \in sessions /\ rows[a].conn \in conns \union {Null}
                        /\ rows[a].conn # Null => rows[a].sess = SessionOf[rows[a].conn]
    BY <2>1, <2>2, Zenon DEF Joins
  <2>4. ASSUME NEW s \in sessions, PartOf[s] \in P PROVE \E a \in 1..n : rows[a].sess = s
    <3>1. PICK x \in J : x.sess = s  BY <2>2, <2>4, Zenon DEF Joins
    <3>2. PICK a \in 1..n : x = rows[a]  BY <2>1, Zenon
    <3> QED  BY <3>1, <3>2, Zenon
  <2>5. ASSUME NEW k \in conns, SessionOf[k] \in sessions, PartOf[SessionOf[k]] \in P
        PROVE  \E a \in 1..n : rows[a].conn = k
    <3>1. PICK x \in J : x.conn = k  BY <2>2, <2>5, Zenon DEF Joins
    <3>2. PICK a \in 1..n : x = rows[a]  BY <2>1, Zenon
    <3> QED  BY <3>1, <3>2, Zenon
  <2> QED  BY <2>3, <2>4, <2>5, Zenon
<1>7. ASSUME NEW x, PartOf[x] = p
      PROVE  /\ x \in sessions <=> x \in Seen(rows, n)
             /\ x \in sessions => Upto(rows, n, x) = {k \in conns : SessionOf[k] = x}
  <2>1. ASSUME NEW k \in conns, SessionOf[k] = x, x \in sessions
        PROVE  \E a \in 1..n : rows[a].conn = k /\ rows[a].sess = x /\ k # Null
    <3>1. PartOf[SessionOf[k]] \in P  BY <1>3, <1>7, <2>1, Zenon
    <3>2. PICK a \in 1..n : rows[a].conn = k  BY <1>6, <2>1, <3>1, Zenon
    <3>3. k # Null  BY Zenon, ConferencesAssumption DEF Rows, Conn
    <3> QED  BY <1>6, <2>1, <3>2, <3>3, Zenon
  <2>2. x \in sessions => x \in Seen(rows, n)  BY <1>3, <1>6, <1>7, Zenon DEF Seen
  <2>3. x \in Seen(rows, n) => x \in sessions  BY <1>6, Zenon DEF Seen
  <2>4. ASSUME NEW k \in Upto(rows, n, x) PROVE k \in conns /\ SessionOf[k] = x
    <3>1. PICK a \in 1..n : rows[a].sess = x /\ rows[a].conn = k /\ k # Null  BY Zenon DEF Upto
    <3> QED  BY <1>6, <3>1, Zenon
  <2>5. ASSUME x \in sessions
        PROVE  \A k \in conns : SessionOf[k] = x => k \in Upto(rows, n, x)
    BY <2>1, <2>5, Zenon DEF Upto
  <2> QED  BY <2>2, <2>3, <2>4, <2>5, Zenon
<1>8. /\ \A a, b \in DOMAIN ss : ss[a].id = ss[b].id => a = b
      /\ \A a \in DOMAIN ss : ss[a].id \in Seen(rows, n) /\ PartOf[ss[a].id] = p
      /\ \A s \in Seen(rows, n) : PartOf[s] = p => \E a \in DOMAIN ss : ss[a].id = s
      /\ \A a \in DOMAIN ss : /\ Once(ss[a].conns)
                              /\ Range(ss[a].conns) = Upto(rows, n, ss[a].id)
  BY <1>5, Zenon DEF WholePart
<1>9. Range([j \in DOMAIN ss |-> ss[j].id]) = {x \in sessions : PartOf[x] = p}
  <2> DEFINE ids == [j \in DOMAIN ss |-> ss[j].id]
  <2>1. Range(ids) = {ss[j].id : j \in DOMAIN ss}  BY Zenon DEF Range
  <2>2. ASSUME NEW j \in DOMAIN ss PROVE ss[j].id \in {x \in sessions : PartOf[x] = p}
    <3>1. ss[j].id \in Seen(rows, n) /\ PartOf[ss[j].id] = p  BY <1>8, Zenon
    <3> QED  BY <1>7, <3>1, Zenon
  <2>3. ASSUME NEW x \in sessions, PartOf[x] = p PROVE \E j \in DOMAIN ss : ss[j].id = x
    <3>1. x \in Seen(rows, n)  BY <1>7, <2>3, Zenon
    <3> QED  BY <1>8, <2>3, <3>1, Zenon
  <2> QED  BY <2>1, <2>2, <2>3, Zenon
<1>10. ASSUME NEW j \in DOMAIN ss
       PROVE  /\ Range(ss[j].conns) = {k \in conns : SessionOf[k] = ss[j].id}
              /\ Len(ss[j].conns) = Cardinality(Range(ss[j].conns))
  <2>1. PartOf[ss[j].id] = p /\ Range(ss[j].conns) = Upto(rows, n, ss[j].id) /\ Once(ss[j].conns)
    BY <1>8, Zenon
  <2>2. Upto(rows, n, ss[j].id) = {k \in conns : SessionOf[k] = ss[j].id}
    <3>1. ss[j].id \in Seen(rows, n)  BY <1>8, Zenon
    <3> QED  BY <1>7, <2>1, <3>1, Zenon
  <2>3. ss[j] \in Entry  BY <1>5
  <2>4. PICK c \in Seq(Conn) : c = ss[j].conns  BY <2>3, Zenon DEF Entry
  <2>5. Len(c) \in Nat /\ DOMAIN c = 1..Len(c)  BY <2>4
  <2>6. Distinct(c, 1, Len(c)) /\ Image(c, 1, Len(c)) = Range(c)
    BY <2>1, <2>4, <2>5, Zenon DEF Distinct, Image, Once, Range
  <2>7. Cardinality(Range(c)) = IF 1 > Len(c) THEN 0 ELSE Len(c) - 1 + 1
    <3>1. 1 \in Int /\ Len(c) \in Int  BY <2>5
    <3> QED  BY <2>6, <3>1, CardOfImage, Zenon
  <2>8. Cardinality(Range(c)) = Len(c)  BY <2>5, <2>7
  <2> QED  BY <2>1, <2>2, <2>4, <2>8, Zenon
<1>11. WholeSessions(ss, p)  BY <1>8, <1>9, <1>10, Zenon DEF WholeSessions
<1> QED  BY <1>4, <1>11, Zenon DEF p
-----------------------------------------------------------------------------
(* Apps and requests in progress. *)
TableType ==
  /\ app \in [App -> {"none", "live", "deleted"}]
  /\ slot = [s \in Slot |-> slot[s]]

(* A step of the handler in slot s. *)
SlotStep(s) ==
  /\ slot' = [t \in Slot |-> slot'[t]]
  /\ \A t \in Slot \ {s} : slot'[t] = slot[t]

(* A step writes at most one app and one slot. *)
LEMMA TableStep == TableType /\ [Next]_vars => TableType'
<1> SUFFICES ASSUME TableType, [Next]_vars PROVE TableType'  BY Zenon
<1> DEFINE OneApp == \/ app' = app
                     \/ \E a \in App : app' = [app EXCEPT ![a] = "live"]
                     \/ \E a \in App : app' = [app EXCEPT ![a] = "deleted"]
           OneSlot == slot' = slot \/ \E s \in Slot : \E x : Put(s, x)
<1>1. ASSUME OneApp, OneSlot PROVE TableType'
  <2>1. app' \in [App -> {"none", "live", "deleted"}]  BY <1>1 DEF TableType
  <2>2. slot' = [s \in Slot |-> slot'[s]]  BY <1>1, Zenon DEF TableType, Put
  <2> QED  BY <2>1, <2>2, Zenon DEF TableType
<1>2. CASE UNCHANGED vars \/ Idle \/ DropPartition \/ \E x \in Report : Flush(x)
  BY <1>1, <1>2, Zenon DEF vars, appVars, Idle, DropPartition, Flush
<1>3. CASE KeyRequests
  <2>1. OneApp
    BY <1>3, ZenonT(60) DEF KeyRequests, HandleCreateApp, GenerateFetch, RotateFetch, DeleteFetch,
       RotateKeyFetch, DeleteAppFetch, Found, generateAndStore, DeleteServerKey, HandleRotateKey,
       WriteError, Respond, AnswerLost
  <2>2. OneSlot
    BY <1>3, ZenonT(60) DEF KeyRequests, HandleCreateApp, GenerateFetch, RotateFetch, DeleteFetch,
       RotateKeyFetch, DeleteAppFetch, Found, generateAndStore, DeleteServerKey, HandleRotateKey,
       Wrote, WriteError, Respond, AnswerLost
  <2> QED  BY <1>1, <2>1, <2>2, Zenon
<1>4. ASSUME NEW s \in Slot, NEW x, Reads(s, x) PROVE TableType'
  BY <1>1, <1>4, Zenon DEF Reads
<1>5. ASSUME NEW s \in Slot, NEW x, Put(s, x), app' = app PROVE TableType'
  BY <1>1, <1>5, Zenon
<1>6. ASSUME NEW s \in Slot, NEW a \in App,
             DeleteApp(s, a) \/ DeleteAppRefused(s, a) \/ ListBegin(s, a)
      PROVE  TableType'
  <2>1. CASE DeleteApp(s, a)  BY <1>1, <2>1, Zenon DEF DeleteApp, HandleDeleteApp
  <2>2. CASE DeleteAppRefused(s, a)  BY <1>5, <2>2, Zenon DEF DeleteAppRefused
  <2>3. CASE ListBegin(s, a)  BY <1>4, <2>3, Zenon DEF ListBegin
  <2> QED  BY <1>6, <2>1, <2>2, <2>3, Zenon
<1>7. ASSUME NEW s \in Slot, NEW c, NEW u,
             DetailBegin(s, c) \/ ShareBegin(s, c, u)
      PROVE  TableType'
  BY <1>4, <1>7, Zenon DEF DetailBegin, ShareBegin
<1>8. ASSUME NEW s \in Slot, NEW t, NEW u,
             HandleCreateShareToken(s, t) \/ ViewBegin(s, t) \/ RevokeBegin(s, t, u)
      PROVE  TableType'
  BY <1>4, <1>5, <1>8, Zenon DEF HandleCreateShareToken, ViewBegin, RevokeBegin
<1>9. ASSUME NEW s \in Slot,
             \/ HandleListConferences(s) \/ ListEnd(s) \/ ReadParticipants(s)
             \/ ReadSessions(s) \/ ViewConference(s)
      PROVE  TableType'
  BY <1>4, <1>9, Zenon DEF HandleListConferences, ListEnd, ReadParticipants, ReadSessions,
     ViewConference
<1>10. ASSUME NEW s \in Slot, CountView(s) \/ HandleRevokeShareToken(s) \/ StatementError(s)
       PROVE  TableType'
  BY <1>5, <1>10, Zenon DEF CountView, HandleRevokeShareToken, StatementError
<1> QED  BY <1>2, <1>3, <1>6, <1>7, <1>8, <1>9, <1>10, Zenon DEF Next

ListField == {"op", "app", "page", "seen", "full", "first"}

(* The conferences that a list has before c, and that c's start time is its  *)
(* own.                                                                      *)
Above(c, C) == {d \in C : Start[d] > Start[c]}
Alone(c, C) == \A d \in C : Start[d] = Start[c] => d = c

(* A walk has shown c, or will find it on a later page. *)
Walk(x) ==
  LET C == ConfsOf(x.app) IN
  /\ x = [f \in ListField |-> x[f]]
  /\ x.page \in Nat \ {0}
  /\ x.app \in App /\ app[x.app] # "none"
  /\ app[x.app] = "live" =>
       /\ x.first \subseteq C
       /\ \A c \in x.first : Alone(c, C) =>
            c \in x.seen \/ (x.full /\ Offset(x.page) <= Cardinality(Above(c, C)))

WalkInv ==
  /\ Rows
  /\ \A s \in Slot : slot[s].op = "list" => Walk(slot[s])

(* The rows of C in the order of the list. *)
Listed(q, C) ==
  /\ q \in [1 .. Cardinality(C) -> C] /\ Range(q) = C
  /\ \A i, j \in 1 .. Cardinality(C) : i < j => ~(Start[q[j]] > Start[q[i]])

(* In a list, c comes right after the conferences that started later. *)
LEMMA PlaceInList ==
  ASSUME NEW C, IsFiniteSet(C), \A d \in C : Start[d] \in Int,
         NEW q, Listed(q, C), NEW c \in C, Alone(c, C)
  PROVE  \E n \in 1 .. Cardinality(C) : q[n] = c /\ Cardinality(Above(c, C)) = n - 1
<1>1. /\ q \in [1 .. Cardinality(C) -> C] /\ Range(q) = C
      /\ \A i, j \in 1 .. Cardinality(C) : i < j => ~(Start[q[j]] > Start[q[i]])
  BY Zenon DEF Listed
<1>2. /\ Cardinality(C) \in Nat
      /\ \A i, j \in 1 .. Cardinality(C) : q[i] = q[j] => i = j
  BY Zenon, <1>1, Enumerates
<1>3. PICK n \in 1 .. Cardinality(C) : q[n] = c  BY Zenon, <1>1 DEF Range
<1>4. Above(c, C) = {q[i] : i \in 1 .. n - 1}
  <2>1. ASSUME NEW d \in Above(c, C) PROVE d \in {q[i] : i \in 1 .. n - 1}
    <3>1. PICK i \in 1 .. Cardinality(C) : q[i] = d  BY Zenon, <1>1, <2>1 DEF Range, Above
    <3>2. i < n  BY <1>1, <1>2, <1>3, <2>1, <3>1 DEF Above
    <3> QED  BY <1>2, <3>1, <3>2
  <2>2. ASSUME NEW i \in 1 .. n - 1 PROVE q[i] \in Above(c, C)
    <3>1. i \in 1 .. Cardinality(C) /\ i < n  BY <1>2, <2>2
    <3>2. q[i] \in C /\ q[i] # c  BY <1>1, <1>2, <1>3, <3>1
    <3>3. ~(Start[c] > Start[q[i]])  BY Zenon, <1>1, <1>3, <3>1
    <3> QED  BY <3>2, <3>3 DEF Above, Alone
  <2> QED  BY Zenon, <2>1, <2>2
<1>5. Cardinality(Above(c, C)) = n - 1
  <2>1. PICK b \in Int : b = n - 1 /\ b >= 0  BY <1>2, <1>3
  <2>2. Distinct(q, 1, b)  BY <1>2, <1>3, <2>1 DEF Distinct
  <2>3. Above(c, C) = Image(q, 1, b)  BY Zenon, <1>4, <2>1 DEF Image
  <2>4. Cardinality(Image(q, 1, b)) = IF 1 > b THEN 0 ELSE b - 1 + 1  BY <2>2, CardOfImage
  <2> QED  BY <2>1, <2>3, <2>4
<1> QED  BY Zenon, <1>3, <1>5

(* A page shows c, or it is full and c is on a later page. *)
LEMMA PageOrLater ==
  ASSUME NEW C, IsFiniteSet(C), \A d \in C : Start[d] \in Int,
         NEW q, Listed(q, C), NEW c \in C, Alone(c, C), NEW p \in Nat \ {0},
         Offset(p) <= Cardinality(Above(c, C))
  PROVE  \/ c \in Page(q, p)
         \/ /\ Cardinality(Page(q, p)) = Limit
            /\ Offset(p + 1) <= Cardinality(Above(c, C))
<1>1. PICK n \in 1 .. Cardinality(C) : q[n] = c /\ Cardinality(Above(c, C)) = n - 1
  BY Zenon, PlaceInList
<1>2. q \in [1 .. Cardinality(C) -> C] /\ Range(q) = C  BY Zenon DEF Listed
<1>3. /\ Cardinality(C) \in Nat
      /\ \A i, j \in 1 .. Cardinality(C) : q[i] = q[j] => i = j
  BY Zenon, <1>2, Enumerates
<1>4. PICK o \in Nat : o = Offset(p) /\ Offset(p + 1) = o + Limit
  BY ConferencesAssumption DEF Offset
<1>5. Limit \in Nat \ {0}  BY Zenon, ConferencesAssumption
<1>6. CASE n <= o + Limit
  <2>1. o < n /\ n \in DOMAIN q  BY <1>1, <1>2, <1>3, <1>4
  <2> QED  BY Zenon, <1>1, <1>4, <1>6, <2>1 DEF Page
<1>7. CASE n > o + Limit
  <2>1. {i \in DOMAIN q : o < i /\ i <= o + Limit} = o + 1 .. o + Limit
    BY <1>2, <1>3, <1>4, <1>5, <1>7
  <2>2. Page(q, p) = Image(q, o + 1, o + Limit)  BY Zenon, <1>4, <2>1 DEF Page, Image
  <2>3. Distinct(q, o + 1, o + Limit)  BY <1>3, <1>4, <1>5, <1>7 DEF Distinct
  <2>4. Cardinality(Page(q, p)) = Limit
    <3>1. PICK a \in Int, b \in Int : a = o + 1 /\ b = o + Limit  BY <1>4, <1>5
    <3>2. Cardinality(Image(q, a, b)) = IF a > b THEN 0 ELSE b - a + 1
      BY Zenon, <2>3, <3>1, CardOfImage
    <3> QED  BY <1>4, <1>5, <2>2, <3>1, <3>2
  <2> QED  BY <1>1, <1>3, <1>4, <1>5, <1>7, <2>4
<1> QED  BY <1>3, <1>4, <1>5, <1>6, <1>7

(* The conferences of a in K. *)
Of(K, a) == {c \in K : AppOf[c] = a}

(* They are finitely many. *)
LEMMA ConfsFinite ==
  ASSUME NEW K, IsFiniteSet(K), NEW a
  PROVE  IsFiniteSet(Of(K, a))
BY Zenon, FS_Subset DEF Of

(* Conferences that come later push c back. *)
LEMMA AboveGrows ==
  ASSUME NEW C, NEW D, IsFiniteSet(D), C \subseteq D, NEW c
  PROVE  Cardinality(Above(c, C)) <= Cardinality(Above(c, D))
         /\ (Alone(c, D) => Alone(c, C))
<1>1. IsFiniteSet(Above(c, D))  BY Zenon, FS_Subset DEF Above
<1>2. Above(c, C) \in SUBSET Above(c, D)  BY Zenon DEF Above
<1>3. Cardinality(Above(c, C)) <= Cardinality(Above(c, D))  BY Zenon, <1>1, <1>2, FS_Subset
<1> QED  BY Zenon, <1>3 DEF Alone

(* A step that keeps the conferences of apps that are live. *)
Keeps(K, L) ==
  \A a \in App :
    app[a] # "none" => /\ app'[a] # "none"
                       /\ app'[a] = "live" => app[a] = "live" /\ Of(K, a) \subseteq Of(L, a)

(* A walk is not disturbed by new conferences, or by the end of its app. *)
LEMMA WalkKept ==
  ASSUME NEW x, Walk(x), Keeps(confs, confs'), Rows'
  PROVE  Walk(x)'
<1>1. PICK a \in App : a = x.app /\ app[a] # "none"  BY Zenon DEF Walk
<1>2. PICK C, D : /\ C = Of(confs, a) /\ D = Of(confs', a)
                  /\ C = ConfsOf(a) /\ D = ConfsOf(a)'
  BY Zenon DEF Of, ConfsOf
<1>3. app'[a] # "none" /\ (app'[a] = "live" => app[a] = "live" /\ C \subseteq D)
  BY <1>1, <1>2, Zenon DEF Keeps
<1>4. IsFiniteSet(D)  BY <1>2, ConfsFinite, Zenon DEF Rows
<1>5. ASSUME app'[a] = "live"
      PROVE  /\ x.first \subseteq D
             /\ \A c \in x.first : Alone(c, D) =>
                  c \in x.seen \/ (x.full /\ Offset(x.page) <= Cardinality(Above(c, D)))
  <2>1. app[a] = "live" /\ C \subseteq D  BY Zenon, <1>3, <1>5
  <2>2. /\ x.first \subseteq C
        /\ \A c \in x.first : Alone(c, C) =>
             c \in x.seen \/ (x.full /\ Offset(x.page) <= Cardinality(Above(c, C)))
    BY Zenon, <1>1, <1>2, <2>1 DEF Walk
  <2>3. ASSUME NEW c \in x.first, Alone(c, D), c \notin x.seen
        PROVE  x.full /\ Offset(x.page) <= Cardinality(Above(c, D))
    <3>1. /\ Cardinality(Above(c, C)) <= Cardinality(Above(c, D)) /\ Alone(c, C)
          /\ Cardinality(Above(c, C)) \in Nat /\ Cardinality(Above(c, D)) \in Nat
      <4>1. IsFiniteSet(C)  BY Zenon, <1>4, <2>1, FS_Subset
      <4>2. IsFiniteSet(Above(c, C)) /\ IsFiniteSet(Above(c, D))
        BY Zenon, <1>4, <4>1, FS_Subset DEF Above
      <4> QED  BY ZenonT(60), <1>4, <2>1, <2>3, <4>2, AboveGrows, FS_CardinalityType
    <3>2. x.full /\ Offset(x.page) <= Cardinality(Above(c, C))  BY Zenon, <2>2, <2>3, <3>1
    <3>3. Offset(x.page) \in Int  BY ConferencesAssumption DEF Offset, Walk
    <3> QED  BY <3>1, <3>2, <3>3
  <2> QED  BY Zenon, <2>1, <2>2, <2>3
<1> QED  BY <1>1, <1>2, <1>3, <1>5, Zenon DEF Walk, Alone, Above, Offset

(* A step of the handler in slot s, or of none. *)
LEMMA WalkStep ==
  ASSUME WalkInv, Keeps(confs, confs'), Rows',
         NEW s \in Slot, SlotStep(s), NEW x, x = slot'[s], x.op = "list" => Walk(x)'
  PROVE  WalkInv'
<1>1. ASSUME NEW t \in Slot, NEW y, y = slot'[t], y.op = "list" PROVE Walk(y)'
  <2>1. CASE t = s  BY Zenon, <1>1, <2>1
  <2>2. CASE t # s
    <3>1. Walk(y)  BY Zenon, <1>1, <2>2 DEF SlotStep, WalkInv
    <3> QED  BY Zenon, <3>1, WalkKept
  <2> QED  BY Zenon, <2>1, <2>2
<1>2. \A t \in Slot : (slot[t].op = "list" => Walk(slot[t]))'
  <2>1. ASSUME NEW t \in Slot, slot'[t].op = "list" PROVE Walk(slot[t])'
    <3>1. PICK y : y = slot'[t]  BY Zenon
    <3>2. Walk(y)'  BY Zenon, <1>1, <2>1, <3>1
    <3> QED  BY <3>1, <3>2, Zenon DEF Walk
  <2> QED  BY Zenon, <2>1
<1> QED  BY Zenon, <1>2 DEF WalkInv

(* A step that stores or deletes no conference and creates no app. *)
LEMMA WalkQuiet ==
  ASSUME WalkInv, NEW s \in Slot, NEW x, slot = [t \in Slot |-> slot[t]], Put(s, x),
         x.op = "list" => Walk(x)', UNCHANGED <<app, confs, sessions, conns>>
  PROVE  WalkInv'
<1>1. Keeps(confs, confs')  BY Zenon DEF Keeps
<1>2. SlotStep(s) /\ x = slot'[s]  BY Zenon DEF SlotStep, Put
<1>3. Rows'  BY Zenon DEF WalkInv, Rows
<1> QED  BY Zenon, <1>1, <1>2, <1>3, WalkStep

(* Steps that concern no walk. *)
LEMMA WalkUnchanged ==
  ASSUME WalkInv, UNCHANGED <<app, confs, sessions, conns, slot>> PROVE WalkInv'
<1>1. Keeps(confs, confs')  BY Zenon DEF Keeps
<1>3. Rows'  BY Zenon DEF WalkInv, Rows
<1>2. ASSUME NEW t \in Slot, slot'[t].op = "list" PROVE Walk(slot[t])'
  <2>1. PICK y : y = slot[t] /\ y = slot'[t] /\ Walk(y)  BY Zenon, <1>2 DEF WalkInv
  <2>2. Walk(y)'  BY Zenon, <1>1, <1>3, <2>1, WalkKept
  <2> QED  BY <2>1, <2>2, Zenon DEF Walk
<1> QED  BY Zenon, <1>2, <1>3 DEF WalkInv

(* ListBegin: nothing has been shown. *)
LEMMA WalkBegins ==
  ASSUME WalkInv, TableType, NEW s \in Slot, NEW a \in App, ListBegin(s, a)
  PROVE  WalkInv'
<1>1. PICK x : /\ x = [op |-> "list", app |-> a, page |-> 1, seen |-> {},
                       full |-> TRUE, first |-> ConfsOf(a)]
               /\ Reads(s, x) /\ app[a] = "live"
  BY Zenon DEF ListBegin
<1>2. /\ x = [f \in ListField |-> x[f]] /\ x.app = a /\ x.page = 1 /\ x.full = TRUE
      /\ x.first = ConfsOf(a)
  BY <1>1, Zenon DEF ListField
<1>3. PICK C : C = ConfsOf(a) /\ C = Of(confs, a)  BY Zenon DEF ConfsOf, Of
<1>4. ASSUME NEW c \in C PROVE Offset(1) <= Cardinality(Above(c, C))
  <2>1. IsFiniteSet(C)  BY Zenon, <1>3, ConfsFinite DEF WalkInv, Rows
  <2>2. IsFiniteSet(Above(c, C))  BY Zenon, <2>1, FS_Subset DEF Above
  <2>3. Cardinality(Above(c, C)) \in Nat  BY Zenon, <2>2, FS_CardinalityType
  <2>4. Offset(1) = 0  BY ConferencesAssumption DEF Offset
  <2> QED  BY <2>3, <2>4
<1>5. UNCHANGED <<app, confs, sessions, conns>> /\ Put(s, x)  BY Zenon, <1>1 DEF Reads, confVars, tables
<1>6. C = ConfsOf(a)'  BY Zenon, <1>3, <1>5 DEF ConfsOf
<1>7. Walk(x)'
  <2>1. ConfsOf(x.app)' = C /\ x.first = C /\ app'[x.app] = "live"
    BY <1>1, <1>2, <1>3, <1>5, <1>6, ZenonT(60)
  <2>2. x.page \in Nat \ {0} /\ x.app \in App /\ x = [f \in ListField |-> x[f]]  BY <1>2
  <2>3. ASSUME NEW c \in x.first
        PROVE  x.full /\ Offset(x.page) <= Cardinality(Above(c, C))
    BY Zenon, <1>2, <1>4, <2>1
  <2> QED  BY <2>1, <2>2, <2>3, Zenon DEF Walk, Offset, Above, Alone
<1> QED  BY Zenon, <1>5, <1>7, WalkQuiet DEF TableType

(* HandleListConferences: a page is shown. *)
LEMMA WalkGoesOn ==
  ASSUME WalkInv, TableType, NEW s \in Slot, HandleListConferences(s)
  PROVE  WalkInv'
<1>1. PICK r : r = slot[s]  OBVIOUS
<1>2. r.op = "list" /\ r.full /\ app[r.app] = "live"
  BY <1>1, Zenon DEF HandleListConferences
<1>3. Walk(r)  BY Zenon, <1>1, <1>2 DEF WalkInv
<1>4. PICK a \in App : a = r.app /\ app[a] = "live"  BY Zenon, <1>2, <1>3 DEF Walk
<1>5. PICK C : C = ConfsOf(a) /\ C = Of(confs, a)  BY Zenon DEF ConfsOf, Of
<1>6. \E q : \E data : /\ Listed(q, C) /\ data = Page(q, r.page)
                       /\ Reads(s, [r EXCEPT !.page = @ + 1, !.seen = @ \union data,
                                             !.full = Cardinality(data) = Limit])
  BY <1>1, <1>4, <1>5, Zenon DEF HandleListConferences, Ordered, Listed
<1>7. PICK q, data, x :
        /\ Listed(q, C) /\ data = Page(q, r.page)
        /\ x = [r EXCEPT !.page = @ + 1, !.seen = @ \union data,
                         !.full = Cardinality(data) = Limit]
        /\ Reads(s, x)
  BY <1>6, Zenon
<1>8. r = [f \in ListField |-> r[f]] /\ r.page \in Nat \ {0}  BY Zenon, <1>3 DEF Walk
<1>9. /\ x = [f \in ListField |-> x[f]] /\ x.app = a /\ x.page = r.page + 1
      /\ x.seen = r.seen \union data /\ x.full = (Cardinality(data) = Limit)
      /\ x.first = r.first
  BY <1>4, <1>7, <1>8, Zenon DEF ListField
<1>10. r.first \subseteq C
       /\ \A c \in r.first : Alone(c, C) =>
            c \in r.seen \/ Offset(r.page) <= Cardinality(Above(c, C))
  BY Zenon, <1>3, <1>4, <1>5 DEF Walk
<1>11. ASSUME NEW c \in r.first, Alone(c, C)
       PROVE  c \in x.seen \/ (x.full /\ Offset(x.page) <= Cardinality(Above(c, C)))
  <2>1. IsFiniteSet(C) /\ \A d \in C : Start[d] \in Int
    <3>1. IsFiniteSet(confs) /\ \A d \in confs : Start[d] \in Int  BY Zenon DEF WalkInv, Rows
    <3>2. C \subseteq confs  BY Zenon, <1>5 DEF Of
    <3> QED  BY Zenon, <1>5, <3>1, <3>2, ConfsFinite
  <2>2. CASE Offset(r.page) <= Cardinality(Above(c, C))
    <3>1. \/ c \in Page(q, r.page)
          \/ /\ Cardinality(Page(q, r.page)) = Limit
             /\ Offset(r.page + 1) <= Cardinality(Above(c, C))
      BY ZenonT(60), <1>7, <1>8, <1>10, <1>11, <2>1, <2>2, PageOrLater
    <3> QED  BY <1>7, <1>9, <3>1, Zenon
  <2> QED  BY Zenon, <1>9, <1>10, <1>11, <2>2
<1>12. UNCHANGED <<app, confs, sessions, conns>> /\ Put(s, x)  BY Zenon, <1>7 DEF Reads, confVars, tables
<1>13. C = ConfsOf(a)'  BY Zenon, <1>5, <1>12 DEF ConfsOf
<1>14. Walk(x)'
  <2>1. ConfsOf(x.app)' = C /\ x.first \subseteq C /\ app'[x.app] = "live"
    BY Zenon, <1>4, <1>9, <1>10, <1>12, <1>13
  <2>2. x.page \in Nat \ {0} /\ x.app \in App  BY <1>8, <1>9
  <2> QED  BY <1>9, <1>11, <2>1, <2>2, Zenon DEF Walk, Offset, Above, Alone
<1> QED  BY Zenon, <1>12, <1>14, WalkQuiet DEF TableType

(* Cascade: the conferences of other apps stay. *)
LEMMA WalkDeleted ==
  ASSUME WalkInv, TableType, NEW s \in Slot, NEW b \in App, DeleteApp(s, b)
  PROVE  WalkInv'
<1>1. /\ confs' = {c \in confs : AppOf[c] # b}
      /\ sessions' \in SUBSET sessions /\ conns' \in SUBSET conns
      /\ app' = [app EXCEPT ![b] = "deleted"] /\ Put(s, Free)
  BY Zenon DEF DeleteApp, HandleDeleteApp, Cascade
<1>2. app' = [a \in App |-> IF a = b THEN "deleted" ELSE app[a]]  BY <1>1, Zenon DEF TableType
<1>3. \A a \in App \ {b} : Of(confs, a) \subseteq Of(confs', a)  BY Zenon, <1>1 DEF Of
<1>4. Keeps(confs, confs')  BY Zenon, <1>2, <1>3 DEF Keeps
<1>5. Rows'
  <2>1. confs' \in SUBSET confs  BY Zenon, <1>1
  <2> QED  BY Zenon, <1>1, <2>1, FS_Subset DEF WalkInv, Rows
<1>6. SlotStep(s) /\ slot'[s].op = "free"  BY Zenon, <1>1 DEF SlotStep, Put, TableType, Free
<1> QED  BY <1>4, <1>5, <1>6, WalkStep, Zenon

(* A flush adds rows. *)
LEMMA WalkFlush ==
  ASSUME WalkInv, NEW x \in Report, Flush(x) PROVE WalkInv'
<1>1. /\ confs' = confs \union {x.conf} /\ sessions' = sessions \union {x.sess}
      /\ conns' = conns \union {x.conn} /\ UNCHANGED <<app, slot>>
  BY Zenon DEF Flush, appVars
<1>2. \A a : Of(confs, a) \subseteq Of(confs', a)  BY Zenon, <1>1 DEF Of
<1>3. Keeps(confs, confs')  BY Zenon, <1>1, <1>2 DEF Keeps
<1>4. Rows'
  <2>1. IsFiniteSet(confs') /\ IsFiniteSet(sessions') /\ IsFiniteSet(conns')
    BY Zenon, <1>1, FS_AddElement DEF WalkInv, Rows
  <2>2. x.sess \in Int /\ PartOf[x.sess] \in Int /\ Start[x.conf] \in Int /\ x.conn \in Conn
    BY Zenon, ConferencesAssumption DEF Conn
  <2> QED  BY Zenon, <1>1, <2>1, <2>2 DEF WalkInv, Rows
<1>5. ASSUME NEW t \in Slot, slot'[t].op = "list" PROVE Walk(slot[t])'
  <2>1. PICK y : y = slot[t] /\ y = slot'[t] /\ Walk(y)  BY <1>1, <1>5, Zenon DEF WalkInv
  <2>2. Walk(y)'  BY Zenon, <1>3, <1>4, <2>1, WalkKept
  <2> QED  BY <2>1, <2>2, Zenon DEF Walk
<1> QED  BY <1>4, <1>5, Zenon DEF WalkInv

(* Requests for keys: an app that is created has had no list. *)
LEMMA WalkKeys ==
  ASSUME WalkInv, TableType, KeyRequests, UNCHANGED confVars PROVE WalkInv'
<1>1. PICK s \in Slot :
        \/ \E a \in App : \/ HandleCreateApp(s, a) \/ GenerateFetch(s, a)
                          \/ RotateFetch(s, a) \/ DeleteFetch(s, a)
                          \/ RotateKeyFetch(s, a) \/ DeleteAppFetch(s, a)
        \/ generateAndStore(s) \/ DeleteServerKey(s) \/ HandleRotateKey(s)
        \/ WriteError(s) \/ Respond(s) \/ AnswerLost(s)
  BY Zenon DEF KeyRequests
<1>2. UNCHANGED <<confs, sessions, conns>> /\ Rows'  BY Zenon DEF confVars, tables, WalkInv, Rows
<1>3. ASSUME NEW x, Put(s, x), x.op # "list", UNCHANGED app PROVE WalkInv'
  BY Zenon, <1>2, <1>3, WalkQuiet DEF TableType
<1>4. ASSUME NEW a, NEW f, NEW k, UNCHANGED app,
             Put(s, [op |-> "answer", app |-> a, field |-> f, key |-> k])
      PROVE  WalkInv'
  <2>1. PICK x : x = [op |-> "answer", app |-> a, field |-> f, key |-> k]  BY Zenon
  <2>2. x.op # "list"  BY Zenon, <2>1
  <2> QED  BY <1>3, <1>4, <2>1, <2>2, Zenon
<1>5. ASSUME Put(s, Free), UNCHANGED app PROVE WalkInv'
  <2>1. Free.op # "list"  BY Zenon DEF Free
  <2> QED  BY Zenon, <1>3, <1>5, <2>1
<1>6. ASSUME NEW a, \/ GenerateFetch(s, a) \/ RotateFetch(s, a) \/ DeleteFetch(s, a)
                    \/ RotateKeyFetch(s, a) \/ DeleteAppFetch(s, a)
      PROVE  WalkInv'
  <2>1. PICK op \in WriteOp : Found(s, op, a)
    BY <1>6, Zenon DEF GenerateFetch, RotateFetch, DeleteFetch, RotateKeyFetch, DeleteAppFetch,
                WriteOp
  <2>2. PICK x : x = [op |-> op, app |-> a]  BY Zenon
  <2>3. x.op # "list"  BY <2>2, Zenon DEF WriteOp
  <2> QED  BY <1>3, <2>1, <2>2, <2>3, ZenonT(60) DEF Found
<1>7. ASSUME NEW b \in App, HandleCreateApp(s, b) PROVE WalkInv'
  <2>1. /\ app[b] = "none" /\ app' = [app EXCEPT ![b] = "live"]
        /\ Put(s, [op |-> "answer", app |-> b, field |-> "client", key |-> keys'])
    BY <1>7, Zenon DEF HandleCreateApp
  <2>2. Keeps(confs, confs')  BY Zenon, <1>2, <2>1 DEF Keeps, TableType
  <2>3. SlotStep(s) /\ slot'[s].op # "list"  BY Zenon, <2>1 DEF SlotStep, Put, TableType
  <2> QED  BY Zenon, <1>2, <2>2, <2>3, WalkStep
<1>8. CASE generateAndStore(s)  BY <1>4, <1>5, <1>8, Zenon DEF generateAndStore, Wrote
<1>9. CASE DeleteServerKey(s)  BY <1>4, <1>9, Zenon DEF DeleteServerKey, Wrote
<1>10. CASE HandleRotateKey(s)  BY <1>4, <1>10, Zenon DEF HandleRotateKey, Wrote
<1>11. CASE WriteError(s) \/ Respond(s) \/ AnswerLost(s)
  BY ZenonT(60), <1>5, <1>11 DEF WriteError, Respond, AnswerLost
<1> QED  BY ZenonT(60), <1>1, <1>6, <1>7, <1>8, <1>9, <1>10, <1>11

(* Every step keeps the invariant. *)
LEMMA WalkNext == ASSUME WalkInv, TableType, [Next]_vars PROVE WalkInv'
<1>1. ASSUME NEW s \in Slot, Put(s, Free), UNCHANGED <<app, confs, sessions, conns>> PROVE WalkInv'
  <2>1. Free.op # "list"  BY Zenon DEF Free
  <2> QED  BY Zenon, <1>1, <2>1, WalkQuiet DEF TableType
<1>2. ASSUME NEW s \in Slot, NEW x, Reads(s, x), x.op # "list" PROVE WalkInv'
  BY Zenon, <1>2, WalkQuiet DEF TableType, Reads, confVars, tables
<1>3. ASSUME NEW s \in Slot, Reads(s, Free) PROVE WalkInv'  BY Zenon, <1>1, <1>3 DEF Reads, confVars, tables
<1>4. ASSUME NEW s \in Slot, NEW a \in App, DeleteAppRefused(s, a) PROVE WalkInv'
  BY <1>3, <1>4, Zenon DEF DeleteAppRefused, Reads
<1>5. ASSUME NEW s \in Slot, NEW c, DetailBegin(s, c) PROVE WalkInv'
  BY Zenon, <1>2, <1>5 DEF DetailBegin
<1>6. ASSUME NEW s \in Slot, NEW c, NEW u, ShareBegin(s, c, u) PROVE WalkInv'
  BY Zenon, <1>2, <1>6 DEF ShareBegin
<1>7. ASSUME NEW s \in Slot, NEW t, HandleCreateShareToken(s, t) PROVE WalkInv'
  BY <1>1, <1>7, Zenon DEF HandleCreateShareToken, tables
<1>8. ASSUME NEW s \in Slot, NEW t, ViewBegin(s, t) PROVE WalkInv'
  BY <1>2, <1>8, Zenon DEF ViewBegin
<1>9. ASSUME NEW s \in Slot, NEW t, NEW u, RevokeBegin(s, t, u) PROVE WalkInv'
  BY Zenon, <1>2, <1>9 DEF RevokeBegin
<1>10. ASSUME NEW s \in Slot, ListEnd(s) PROVE WalkInv'  BY Zenon, <1>3, <1>10 DEF ListEnd
<1>11. ASSUME NEW s \in Slot, ReadParticipants(s) PROVE WalkInv'
  <2>1. PICK q : Reads(s, [op |-> "sessions", conf |-> slot[s].conf,
                           token |-> slot[s].token, order |-> q])
    BY <1>11, Zenon DEF ReadParticipants
  <2> QED  BY Zenon, <1>2, <2>1
<1>12. ASSUME NEW s \in Slot, ReadSessions(s) PROVE WalkInv'
  <2>1. PICK k : Reads(s, Free) \/ Reads(s, [op |-> "count", token |-> k])
    BY <1>12, Zenon DEF ReadSessions
  <2> QED  BY Zenon, <1>2, <1>3, <2>1
<1>13. ASSUME NEW s \in Slot, ViewConference(s) PROVE WalkInv'
  <2>1. PICK c, k : Reads(s, Free) \/ Reads(s, [op |-> "participants", conf |-> c, token |-> k])
    BY <1>13, Zenon DEF ViewConference
  <2> QED  BY Zenon, <1>2, <1>3, <2>1
<1>14. ASSUME NEW s \in Slot, CountView(s) \/ HandleRevokeShareToken(s) \/ StatementError(s)
       PROVE  WalkInv'
  BY <1>1, <1>14, Zenon DEF CountView, HandleRevokeShareToken, StatementError, tables
<1>15. CASE UNCHANGED <<app, confs, sessions, conns, slot>>  BY Zenon, <1>15, WalkUnchanged
<1> QED
  BY SMTT(30), <1>4, <1>5, <1>6, <1>7, <1>8, <1>9, <1>10, <1>11, <1>12, <1>13, <1>14, <1>15,
     WalkKeys, WalkFlush, WalkDeleted, WalkBegins, WalkGoesOn
  DEF Next, DropPartition, Idle, vars, confVars, tables, appVars

(* Walks are never cut short, in any behaviour. *)
LEMMA WalkHolds == Spec => []WalkInv
<1>1. Init => WalkInv
  BY FS_EmptySet DEF Init, AInit, WalkInv, Rows, Free
<1>2. WalkInv /\ TableType /\ [Next]_vars => WalkInv'  BY Zenon, WalkNext
<1>3. Init => TableType  BY Zenon DEF Init, AInit, TableType
<1> QED  BY <1>1, <1>2, <1>3, TableStep, PTL DEF Spec

(* A walk through the pages of the list shows every conference that was      *)
(* there when it began and whose start time is its own, whatever is stored   *)
(* meanwhile (conference.go:76-84, 186-191).                                 *)
THEOREM NoConferenceSkipped == Spec => []WalkShowsAll
<1>1. WalkInv => WalkShowsAll
  <2> SUFFICES ASSUME WalkInv, NEW s \in Slot, slot[s].op = "list", ~slot[s].full,
                      app[slot[s].app] = "live", NEW c \in slot[s].first, c \notin slot[s].seen
               PROVE  \E d \in ConfsOf(slot[s].app) : d # c /\ Start[d] = Start[c]
    BY Zenon DEF WalkShowsAll
  <2>1. Walk(slot[s])  BY Zenon DEF WalkInv
  <2>2. ~Alone(c, ConfsOf(slot[s].app))  BY Zenon, <2>1 DEF Walk
  <2> QED  BY Zenon, <2>2 DEF Alone
<1> QED  BY <1>1, WalkHolds, PTL

(* The detail view has every session of its participants, each with all of   *)
(* its connections and nothing twice, for every set of rows: ORDER BY keeps  *)
(* the rows of a session together, so that the pointer a connection is       *)
(* appended through is never one into an array that append has left, however *)
(* append moves arrays (HandleGetConference, fetchConferenceDetail).         *)
THEOREM DetailComplete == Spec => []DetailIsWhole
<1>1. WalkInv => DetailIsWhole  BY DetailHolds, Zenon DEF WalkInv
<1> QED  BY <1>1, WalkHolds, PTL
=============================================================================
