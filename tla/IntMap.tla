------------------------------- MODULE IntMap -------------------------------
(***************************************************************************)
(* An IntMap in use: elements are inserted under keys, removed by key, and *)
(* slots are freed directly, as game_logic_tick does with the spells that  *)
(* ended.  An element is a pointer, which is in the map at most once.      *)
(***************************************************************************)
EXTENDS IntMapTable, FiniteSets

CONSTANTS
    Keys,      \* the keys in use, never 0
    Elems,
    MaxLive    \* bound: elements in the map at a time

ASSUME KeysAssumption == Keys \subseteq DOMAIN Home /\ MaxLive \in Nat

Entry == [key : Keys, elem : Elems]

ASSUME EmptyAssumption == Empty \notin Entry

VARIABLE map

Live == Range(Entries(map))

Init == map = NewTable(MinSize)

Ins(key, elem) ==
    /\ Cardinality(Live) < MaxLive
    /\ \A e \in Live : e.elem # elem
    /\ map' = Insert(map, [key |-> key, elem |-> elem])

Rem(key) == map' = Delete(map, key)

FreeAt(h) == map.at[h] # Empty /\ map' = FreeSlot(map, h)

Next ==
    \/ \E key \in Keys, elem \in Elems : Ins(key, elem)
    \/ \E key \in Keys : Rem(key)
    \/ \E h \in DOMAIN map.at : FreeAt(h)

Spec == Init /\ [][Next]_map

-----------------------------------------------------------------------------
Sizes ==
    LET doubled[n \in 0 .. MaxLive] == IF n = 0 THEN MinSize ELSE 2 * doubled[n - 1]
    IN  {doubled[n] : n \in 0 .. MaxLive}

\* The table has the shape of the struct: a size it can get by growing and
\* shrinking, so many slots, and the free ones counted (count in a snapshot is
\* size - free, and every resize adds to what was counted before).  A quarter of
\* the slots is always free: intmap_ins, whose result no caller looks at, finds
\* one and never loses the element.
TypeOK ==
    /\ map.size \in Sizes
    /\ map.at \in [0 .. map.size - 1 -> Entry \union {Empty}]
    /\ map.free = Cardinality(EmptySlots(map))
    /\ 4 * map.free > map.size

\* A search finds an element under the key exactly when there is one, over the
\* holes that removed entries leave in the probe sequence.
FindsStored ==
    \A key \in Keys :
        LET under == {e.elem : e \in {x \in Live : x.key = key}}
        IN  IF under = {} THEN Find(map, key) = Missing ELSE Find(map, key) \in under

\* A joining client that reads the snapshot of the map into an empty one gets
\* every entry, provided that no two of them have the same key.
UniqueKeys == \A d, e \in Live : d.key = e.key => d = e

RoundTrip ==
    UniqueKeys => Range(Entries(Deserialize(NewTable(MinSize), Serialize(map)))) = Live

Kept == INSTANCE Store WITH stored <- Live

ImplementsStore == Kept!Spec
=============================================================================
