--------------------------- MODULE MCConferences ---------------------------
(* Connections 1 to 3 belong to two sessions of participant 1, which         *)
(* alternate in time; connection 4 to participant 2, who joined with the     *)
(* first; connection 5 to conference 2, which started with conference 3.     *)
(* Three payloads name a connection that another one has stored: one makes   *)
(* session 5, without connections, one participant 5 and one conference 3    *)
(* with participant 4, without sessions.                                     *)
EXTENDS Conferences

MCSessionOf == <<1, 2, 1, 3, 4>>
MCPartOf == <<1, 1, 2, 3, 1>>
MCConfOf == <<1, 1, 2, 3, 1>>
MCAppOf == [c \in 1..3 |-> "a"]
MCConnStart == <<1, 2, 3, 1, 1>>
MCJoined == <<1, 1, 1, 1, 1>>
MCStart == <<1, 2, 2>>
Payload(k) ==
  LET s == MCSessionOf[k] IN
  [conf |-> MCConfOf[MCPartOf[s]], part |-> MCPartOf[s], sess |-> s, conn |-> k]
BareSession == [conf |-> 1, part |-> 1, sess |-> 5, conn |-> 1]
BareParticipant == [conf |-> 1, part |-> 5, sess |-> 1, conn |-> 1]
BareConference == [conf |-> 3, part |-> 4, sess |-> 1, conn |-> 1]
MCReport == {Payload(k) : k \in 1..5} \union {BareSession, BareParticipant, BareConference}
Menu(ops, reports) == [ops |-> ops, reports |-> reports]
MCMenus ==
  {Menu({"generate", "rotate", "delete", "rotate client", "delete app"}, {}),
   Menu({"share", "view", "revoke", "delete app"}, {Payload(1)}),
   Menu({"detail", "delete app"}, {Payload(k) : k \in 1..3} \union {BareSession}),
   Menu({"detail", "delete app"}, {Payload(1), Payload(4), BareSession, BareParticipant}),
   Menu({"list", "delete app"}, {Payload(1), Payload(5), BareConference})}
=============================================================================
