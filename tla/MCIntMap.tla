------------------------------ MODULE MCIntMap ------------------------------
(* An instance of IntMap for TLC. *)
EXTENDS IntMap

ThreeKeys == {1, 2, 3}
FourElems == {"a", "b", "c", "d"}

\* Two keys that collide at the end of a table of 4, 8 or 16 slots, so that
\* their probe sequence wraps around, and one that it runs into.
Colliding == [key \in ThreeKeys |-> IF key = 3 THEN 0 ELSE 31]
=============================================================================
