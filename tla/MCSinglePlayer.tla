--------------------------- MODULE MCSinglePlayer ---------------------------
(* Instances of SinglePlayer for TLC. *)
EXTENDS SinglePlayer, TLC

CONSTANTS o1, l1, l2, l3, c1, c2, c3, c4

OneLight  == {o1}
ThreeLights == {l1, l2, l3}
FourCells == {c1, c2, c3, c4}
AllKinds  == {"flare", "nova", "teleport"}
=============================================================================
