------------------------------ MODULE MCEmosJob ------------------------------
(* One session with one connection; samples that reach every branch of the   *)
(* score and of the rules, one of them with a fraction of a millisecond; two *)
(* half seconds per second.                                                  *)
EXTENDS EmosJob

CONSTANTS c1, s1

MCSessionOf == [c \in Conn |-> s1]
MCIce == [c \in Conn |-> {1}]
MCConfig == [packet_loss_sustained_min |-> 2]

Smp(loss, rtt, jitter, concealment, bitrate) ==
  [loss |-> loss, rtt |-> rtt, jitter |-> jitter, concealment |-> concealment,
   bitrate |-> bitrate]
MCSample == {Smp(0, 200, 0, 0, 1000), Smp(30, 2400, 600, 0, 1000),
             Smp(150, 2605, 600, 200, 400), Smp(200, 4500, 0, 200, 0)}
=============================================================================
