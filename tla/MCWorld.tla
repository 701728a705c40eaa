------------------------------ MODULE MCWorld ------------------------------
(* Instances of World for TLC. *)
EXTENDS World

SecondWalks == {2}
AllKinds == {"flare", "teleport", "nova"}

\* The first spell comes after the second one in the table of the server.
Crossing == [key \in 1 .. 4 |-> IF key = 1 THEN 2 ELSE IF key = 2 THEN 1 ELSE 3]
=============================================================================
