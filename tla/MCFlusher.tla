----------------------------- MODULE MCFlusher -----------------------------
(***************************************************************************)
(* Flusher for TLC.  In TwoTenants two apps use different conference ids:  *)
(* p1 and p2 are browser and server samples of one connection of app 1, p3 *)
(* and p4 two users of a conference of app 2, so two batches can insert    *)
(* the same conferences in opposite orders.  In SharedName both apps use   *)
(* the same conference id.                                                 *)
(***************************************************************************)
EXTENDS Flusher, TLC

P(app, conf, user, sess, conn, source, ts) ==
  [app |-> app, conf |-> conf, user |-> user, sess |-> sess, conn |-> conn,
   source |-> source, ts |-> ts]

TwoTenants ==
  1 :> P(1, "c", "u", "s1", "k1", "browser", 1)
    @@ 2 :> P(1, "c", "u", "s1", "k1", "server", 2)
    @@ 3 :> P(2, "d", "u", "s2", "k2", "browser", 1)
    @@ 4 :> P(2, "d", "v", "s3", "k3", "browser", 2)

SharedName ==
  1 :> P(1, "c", "u", "s1", "k1", "browser", 1)
    @@ 2 :> P(1, "c", "v", "s2", "k2", "browser", 2)
    @@ 3 :> P(2, "c", "u", "s3", "k3", "browser", 1)

Symmetry == Permutations(Worker)
=============================================================================
