-------------------------- MODULE MCServerRequests --------------------------
(* Message m1 is delivered twice, m2 has the same key and second; r4, r5 and *)
(* r6 have a token; r7 is a garbled delivery of m1, r8 has a bad token, r9   *)
(* has the signature of m1 in capitals.  No, two or three requests come.     *)
EXTENDS ServerRequests, TLC

CONSTANTS appKey, serverKey, m1, m2, nomsg, r1, r2, r3, r4, r5, r6, r7, r8, r9

MCKeyOf == [r \in Request |-> IF r \in {r1, r2, r3, r7, r9} THEN serverKey ELSE appKey]
MCMsgOf == r1 :> m1 @@ r2 :> m1 @@ r3 :> m2 @@ r7 :> m1 @@ r9 :> m1
           @@ [r \in {r4, r5, r6, r8} |-> nomsg]
MCTextOf == r3 :> "2d" @@ r9 :> "1C" @@ [r \in Request |-> "1c"]
MCStamp == [m \in Message |-> 1]
MCUntil == [r \in Request |-> 2]
MCFlaw == r7 :> "signature" @@ r8 :> "header" @@ [r \in Request |-> "none"]
MCTraffic == {[sent |-> {r1, r2, r3}, limits |-> {}],
              [sent |-> {r1, r2}, limits |-> {"signed"}],
              [sent |-> {r1, r9}, limits |-> {}],
              [sent |-> {}, limits |-> {}],
              [sent |-> {r4, r5, r6}, limits |-> {"token"}],
              [sent |-> {r1, r7, r8}, limits |-> {"token"}]}
=============================================================================
