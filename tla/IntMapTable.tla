---------------------------- MODULE IntMapTable ----------------------------
(***************************************************************************)
(* The IntMap of core/hashmap.c as operators on a table: an open-addressed *)
(* hash table with linear probing that grows by four and shrinks by two.   *)
(* A slot is Empty (keys[h] = 0) or holds an entry, a key with the pointer *)
(* stored under it.  The table does not look for the key before it inserts *)
(* and a search goes on over empty slots, through the whole table.         *)
(***************************************************************************)
EXTENDS Naturals, Sequences, SequencesExt

CONSTANTS
    MinSize,  \* HASHMAP_MIN_SIZE
    Home,     \* intmap_h1: any function from the keys to the naturals
    Empty,    \* the key 0, which marks a free slot
    Missing   \* NULL, the answer of a search that finds nothing

ASSUME TableAssumption ==
    /\ MinSize \in {4 * n : n \in 1 .. 16}
    /\ \A key \in DOMAIN Home : Home[key] \in Nat

NewTable(size) ==
    [size |-> size, free |-> size, at |-> [h \in 0 .. size - 1 |-> Empty]]

EmptySlots(t)   == {h \in DOMAIN t.at : t.at[h] = Empty}
SlotsOf(t, key) == {h \in DOMAIN t.at \ EmptySlots(t) : t.at[h].key = key}

\* The entries in the order of the slots.
Entries(t) ==
    LET upto[i \in 0 .. t.size] ==
            IF i = 0 THEN <<>>
            ELSE IF t.at[i - 1] = Empty THEN upto[i - 1]
            ELSE Append(upto[i - 1], t.at[i - 1])
    IN  upto[t.size]

\* The slot of wanted that the probe sequence of key reaches first.
FirstProbed(t, key, wanted) ==
    LET Probe(k) == (Home[key] + k) % t.size
    IN  Probe(CHOOSE k \in 0 .. t.size - 1 :
                  Probe(k) \in wanted /\ \A j \in 0 .. k - 1 : Probe(j) \notin wanted)

\* (the search gives up at the first empty slot)
FoundUpToHole(t, key) ==
    {h \in SlotsOf(t, key) : h = FirstProbed(t, key, SlotsOf(t, key) \union EmptySlots(t))}

Found(t, key) ==
    {h \in SlotsOf(t, key) : h = FirstProbed(t, key, SlotsOf(t, key))}

Find(t, key) ==
    IF Found(t, key) = {} THEN Missing
    ELSE t.at[CHOOSE h \in Found(t, key) : TRUE].elem

\* (the slot is not probed for)
RelocAtHome(t, e) == [t EXCEPT !.at[Home[e.key] % t.size] = e]

Reloc(t, e) ==
    IF EmptySlots(t) = {} THEN t
    ELSE [t EXCEPT !.at[FirstProbed(t, e.key, EmptySlots(t))] = e]

\* The loop over the old table, slot by slot.
RelocAll(old, new) ==
    LET filled[i \in 0 .. old.size] ==
            IF i = 0 THEN new
            ELSE IF old.at[i - 1] = Empty THEN filled[i - 1]
            ELSE Reloc(filled[i - 1], old.at[i - 1])
    IN  filled[old.size]

\* (the number of free slots is that of the new table)
ResizeUncounted(t, size) == RelocAll(t, NewTable(size))

Resize(t, size) ==
    RelocAll(t, [NewTable(size) EXCEPT !.free = t.free + size - t.size])

\* (the table grows when it is full)
WriteElemGrowingLate(t, h, e) ==
    LET w == [t EXCEPT !.at[h] = e, !.free = @ - 1]
    IN  IF w.free = 0 THEN Resize(w, 4 * w.size) ELSE w

WriteElem(t, h, e) ==
    LET w == [t EXCEPT !.at[h] = e, !.free = @ - 1]
    IN  IF w.free <= w.size \div 4 THEN Resize(w, 4 * w.size) ELSE w

\* (a key that is in the table is not inserted again)
InsertIfNew(t, e) ==
    IF EmptySlots(t) = {} \/ SlotsOf(t, e.key) # {} THEN t
    ELSE WriteElem(t, FirstProbed(t, e.key, EmptySlots(t)), e)

Insert(t, e) ==
    IF EmptySlots(t) = {} THEN t
    ELSE WriteElem(t, FirstProbed(t, e.key, EmptySlots(t)), e)

\* (the slot is not counted as free)
FreeSlotUncounted(t, h) == [t EXCEPT !.at[h] = Empty]

FreeSlot(t, h) == [t EXCEPT !.at[h] = Empty, !.free = @ + 1]

Delete(t, key) ==
    IF Found(t, key) = {} THEN t
    ELSE LET f == FreeSlot(t, CHOOSE h \in Found(t, key) : TRUE)
         IN  IF f.free > 3 * (f.size \div 4) /\ f.size > MinSize
             THEN Resize(f, f.size \div 2)
             ELSE f

-----------------------------------------------------------------------------
(* The snapshot of a table: a count and the entries.  To read it, count    *)
(* entries are taken; one whose key is known already overwrites the        *)
(* element that is stored there, any other is inserted.                    *)

Serialize(t) == [count |-> t.size - t.free, entries |-> Entries(t)]

Absorb(t, e) ==
    IF Found(t, e.key) = {} THEN Insert(t, e)
    ELSE [t EXCEPT !.at[CHOOSE h \in Found(t, e.key) : TRUE] = e]

Deserialize(t, buf) ==
    LET read[i \in 0 .. buf.count] ==
            IF i = 0 THEN t ELSE Absorb(read[i - 1], buf.entries[i])
    IN  read[buf.count]
=============================================================================
