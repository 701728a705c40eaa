----------------------------- MODULE MCUdpEcho -----------------------------
(* Instances of UdpEcho for TLC. *)
EXTENDS UdpEcho, TLC

CONSTANTS a, b

TwoClients == {a, b}

\* One client sends three packets, so that the first two can overtake the last;
\* the other one takes a slot of its own and is served between them.
ThreeAndOne == a :> 3 @@ b :> 1
=============================================================================
