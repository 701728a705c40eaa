------------------------------- MODULE Store -------------------------------
(***************************************************************************)
(* What an IntMap promises: it keeps the elements stored in it, each under *)
(* its key, until they are removed.  It never refuses one.  Several can    *)
(* have the same key; then it is left open which of them is found.         *)
(***************************************************************************)
CONSTANTS Keys, Elems

VARIABLE stored     \* the entries

Init == stored = {}

Put(key, elem) ==
    /\ \A e \in stored : e.elem # elem
    /\ stored' = stored \union {[key |-> key, elem |-> elem]}

Drop(e) == e \in stored /\ stored' = stored \ {e}

Next ==
    \/ \E key \in Keys, elem \in Elems : Put(key, elem)
    \/ \E e \in stored : Drop(e)

Spec == Init /\ [][Next]_stored
=============================================================================
