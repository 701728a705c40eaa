----------------------------- MODULE WorldProofs -----------------------------
(***************************************************************************)
(* The simulation, on a map of any size, with any number of critters and   *)
(* spells and any hash function: the structs keep their types, no spell    *)
(* hurts a critter twice (but for what a nova does in the frame in which   *)
(* it has been freed), and the server and a client that joined late have   *)
(* the same spells and, where nothing is left to chance, the same          *)
(* critters.                                                               *)
(***************************************************************************)
EXTENDS World, TLAPS, SequenceTheorems, FunctionTheorems, FiniteSetTheorems

\* What is proved of the tables in IntMapProofs, for the table of the spells.
Table == INSTANCE IntMapProofs
            WITH Keys <- Ids, Elems <- Spell, MaxLive <- MaxOrders, map <- game["server"].spells

Item == [key : Ids, elem : Spell]

Held(t) == {t.at[h] : h \in 0 .. t.size - 1} \ {Empty}

-----------------------------------------------------------------------------
(* The table of the spells.                                                *)

LEMMA SameItems == Table!Entry = Item
  BY DEF Table!Entry, Item

LEMMA SameHeld ==
    ASSUME NEW t
    PROVE  Table!Contents(t) = Held(t)
  BY Zenon DEF Table!Contents, Table!Part, Held

LEMMA SameCounts ==
    ASSUME NEW S
    PROVE  Table!Cardinality(S) = Cardinality(S) /\ Table!IsFiniteSet(S) = IsFiniteSet(S)
  BY Zenon DEF Cardinality, Table!Cardinality, IsFiniteSet, Table!IsFiniteSet

LEMMA TableAssumptions ==
    /\ Ids \subseteq DOMAIN Home /\ MaxOrders \in Nat
    /\ Empty \notin Table!Entry
  BY WorldAssumption, FreeAssumption, SameItems DEF Ids, Item

LEMMA BoundedInduction ==
    ASSUME NEW N \in Nat, NEW S, 0 \in S, \A n \in 0 .. N - 1 : n \in S => n + 1 \in S
    PROVE  0 .. N \subseteq S
  BY TableAssumptions, TableAssumption, Table!BoundedInduction

LEMMA TableShape ==
    ASSUME NEW t, Table!Good(t)
    PROVE  /\ t = [size |-> t.size, free |-> t.free, at |-> t.at]
           /\ t.size \in Nat \ {0} /\ t.free \in Nat
           /\ t.at \in [0 .. t.size - 1 -> Item \union {Empty}]
           /\ \A g, h \in 0 .. t.size - 1 : t.at[g] = t.at[h] /\ t.at[g] # Empty => g = h
           /\ Held(t) \subseteq Item
  <1>1. /\ t = [size |-> t.size, free |-> t.free, at |-> t.at]
        /\ t.size \in Nat \ {0} /\ t.free \in Nat
        /\ t.at \in [0 .. t.size - 1 -> Item \union {Empty}]
        /\ \A g, h \in 0 .. t.size - 1 : t.at[g] = t.at[h] /\ t.at[g] # Empty => g = h
    BY SameItems, Zenon DEF Table!Good, Table!Table, Table!Slotted, Table!Once
  <1>2. Held(t) \subseteq Item
    BY <1>1 DEF Held
  <1> QED
    BY <1>1, <1>2, Zenon

LEMMA TableCounts ==
    ASSUME NEW t, Table!Good(t)
    PROVE  /\ Range(Entries(t)) = Held(t)
           /\ t.free = Cardinality(EmptySlots(t))
           /\ t.size - t.free = Cardinality(Held(t))
  <1>1. Entries(t) = Table!Entries(t) /\ EmptySlots(t) = Table!EmptySlots(t)
    BY Zenon DEF Entries, Table!Entries, EmptySlots, Table!EmptySlots
  <1>2. Range(Entries(t)) = Held(t)
    <2>1. Table!Range(Table!Entries(t)) = Held(t)
      BY TableAssumptions, TableAssumption, SameHeld, Table!LiveIsContents
    <2> QED
      BY <1>1, <2>1, Zenon DEF Range, Table!Range
  <1>3. /\ t.size \in Nat /\ t.free \in Nat /\ Cardinality(Held(t)) \in Nat
        /\ t.size = t.free + Cardinality(Held(t))
    BY TableAssumptions, TableAssumption, SameHeld, Table!ContentsCounted, SameCounts
  <1>4. Cardinality(EmptySlots(t)) = t.size - Cardinality(Held(t))
    <2>1. Table!Table(t)
      BY DEF Table!Good
    <2> QED
      BY <1>1, <2>1, TableAssumptions, TableAssumption, SameHeld, SameCounts, Table!EmptyCount
  <1> QED
    BY <1>2, <1>3, <1>4

LEMMA TableInsert ==
    ASSUME NEW t, Table!Good(t), NEW e \in Item, e \notin Held(t)
    PROVE  Table!Good(Insert(t, e)) /\ Held(Insert(t, e)) = Held(t) \union {e}
  <1>1. Insert(t, e) = Table!Insert(t, e)
    BY Zenon DEF Insert, Table!Insert, WriteElem, Table!WriteElem, Resize, Table!Resize,
         RelocAll, Table!RelocAll, Reloc, Table!Reloc, EmptySlots, Table!EmptySlots,
         FirstProbed, Table!FirstProbed, NewTable, Table!NewTable
  <1>2. e \in Table!Entry /\ e \notin Table!Contents(t)
    BY SameItems, SameHeld
  <1>3. Table!Inserted(Table!Insert(t, e), t, e)
    BY <1>2, TableAssumptions, TableAssumption, Table!InsertKeeps
  <1> QED
    BY <1>1, <1>3, SameHeld, Zenon DEF Table!Inserted

\* The same slots but one.
SlotSet(u, t, h, x) == u = [size |-> t.size, free |-> u.free, at |-> [t.at EXCEPT ![h] = x]]

LEMMA TableFree ==
    ASSUME NEW t, Table!Good(t), NEW h \in 0 .. t.size - 1, t.at[h] # Empty,
           NEW u, u = FreeSlot(t, h)
    PROVE  Table!Good(u) /\ SlotSet(u, t, h, Empty)
  <1>1. u = Table!FreeSlot(t, h)
    BY Zenon DEF FreeSlot, Table!FreeSlot
  <1>2. Table!Freed(u, t, h)
    BY <1>1, TableAssumptions, TableAssumption, Table!FreeSlotKeeps
  <1>3. SlotSet(u, t, h, Empty)
    <2>1. u = Table!Giving(t, h, Empty)
      BY <1>1, Zenon DEF Table!FreeSlot, Table!Giving
    <2>2. PICK s, f, a : s = t.size /\ f = t.free /\ a = t.at
      OBVIOUS
    <2>3. t = [size |-> s, free |-> f, at |-> a]
      BY <2>2, TableShape
    <2>4. u = [size |-> s, free |-> f + 1, at |-> [a EXCEPT ![h] = Empty]]
      BY <2>1, <2>3, TableAssumptions, TableAssumption, Table!SlotAndCount
    <2> QED
      BY <2>2, <2>4 DEF SlotSet
  <1> QED
    BY <1>2, <1>3 DEF Table!Freed

\* An entry is replaced by another that is not in the table yet.
LEMMA TableChange ==
    ASSUME NEW t, Table!Good(t), NEW h \in 0 .. t.size - 1, t.at[h] # Empty,
           NEW e \in Item, \A j \in 0 .. t.size - 1 : t.at[j] = e => j = h,
           NEW u, u = [size |-> t.size, free |-> t.free, at |-> [t.at EXCEPT ![h] = e]]
    PROVE  Table!Good(u)
  <1>1. PICK v : v = FreeSlot(t, h)
    OBVIOUS
  <1>2. Table!Good(v) /\ SlotSet(v, t, h, Empty)
    BY <1>1, TableFree
  <1>3. v.size = t.size /\ v.at = [t.at EXCEPT ![h] = Empty]
    BY <1>2 DEF SlotSet
  <1>4. /\ t.size \in Nat \ {0} /\ t.at \in [0 .. t.size - 1 -> Item \union {Empty}]
        /\ \A i, j \in 0 .. t.size - 1 : t.at[i] = t.at[j] /\ t.at[i] # Empty => i = j
    BY TableShape
  <1>5. e # Empty
    BY FreeAssumption DEF Item
  <1>6. e \notin Held(v) /\ v.at[h] = Empty
    BY <1>3, <1>4, <1>5 DEF Held
  <1>7. u = [size |-> v.size, free |-> t.free, at |-> [v.at EXCEPT ![h] = e]]
    BY <1>3, <1>4
  <1>8. Table!Table(u) /\ Table!Contents(u) = Held(v) \union {e}
    <2>1. Table!Table(v) /\ e \in Table!Entry /\ e \notin Table!Contents(v) /\ t.free \in Nat
      BY <1>2, <1>6, SameItems, SameHeld, TableShape DEF Table!Good
    <2>2. h \in 0 .. v.size - 1
      BY <1>3
    <2> QED
      BY <1>6, <1>7, <2>1, <2>2, SameHeld, TableAssumptions, TableAssumption, Table!EntryInSlot
  <1>9. Table!Counted(u) /\ Table!Roomy(u)
    <2>1. Table!Freed(v, t, h)
      BY <1>1, TableAssumptions, TableAssumption, Table!FreeSlotKeeps
         DEF FreeSlot, Table!FreeSlot
    <2>2. /\ IsFiniteSet(Held(v)) /\ Cardinality(Held(v)) \in Nat
          /\ t.size = t.free + Cardinality(Held(t)) /\ Cardinality(Held(t)) \in Nat
          /\ t.free \in Nat /\ t.size \in Nat
      BY <1>2, TableAssumptions, TableAssumption, SameHeld, Table!ContentsCounted, SameCounts
    <2>3. Cardinality(Held(v)) = Cardinality(Held(t)) - 1
      BY <2>1, SameHeld, SameCounts DEF Table!Freed
    <2>4. Cardinality(Table!Contents(u)) = Cardinality(Held(v)) + 1
      BY <1>6, <1>8, <2>2, FS_AddElement
    <2>5. u.size = t.size /\ u.free = t.free
      OBVIOUS
    <2>6. Table!Counted(u)
      BY <2>2, <2>3, <2>4, <2>5, SameCounts DEF Table!Counted
    <2>7. Table!Roomy(t)
      BY DEF Table!Good
    <2> QED
      BY <2>5, <2>6, <2>7, Zenon DEF Table!Roomy
  <1> QED
    BY <1>8, <1>9, Zenon DEF Table!Good

LEMMA TableNew ==
    ASSUME NEW t, t = NewTable(MinSize)
    PROVE  Table!Good(t) /\ Held(t) = {}
  <1>1. t = Table!NewTable(MinSize)
    BY Zenon DEF NewTable, Table!NewTable
  <1> QED
    BY <1>1, TableAssumptions, TableAssumption, SameHeld, Table!NewTableGood

LEMMA TableReread ==
    ASSUME NEW t, Table!Good(t), \A d, e \in Held(t) : d.key = e.key => d = e,
           NEW u, u = Deserialize(NewTable(MinSize), Serialize(t))
    PROVE  Table!Good(u) /\ Held(u) = Held(t)
  <1>1. NewTable(MinSize) = Table!NewTable(MinSize) /\ Serialize(t) = Table!Serialize(t)
    BY Zenon DEF NewTable, Table!NewTable, Serialize, Table!Serialize, Entries, Table!Entries
  <1>2. PICK x, buf : x = NewTable(MinSize) /\ buf = Serialize(t)
    OBVIOUS
  <1>4. Deserialize(x, buf) = Table!Deserialize(x, buf)
    BY Zenon DEF Deserialize, Table!Deserialize, Absorb, Table!Absorb, Found,
         Table!Found, SlotsOf, Table!SlotsOf, Insert, Table!Insert, WriteElem, Table!WriteElem,
         Resize, Table!Resize, RelocAll, Table!RelocAll, Reloc, Table!Reloc, EmptySlots,
         Table!EmptySlots, FirstProbed, Table!FirstProbed, NewTable, Table!NewTable
  <1>5. u = Table!Reread(t)
    BY <1>1, <1>2, <1>4, Zenon DEF Table!Reread
  <1>3. \A d, e \in Table!Contents(t) : d.key = e.key => d = e
    BY SameHeld
  <1> QED
    BY <1>3, <1>5, SameHeld, TableAssumptions, TableAssumption, Table!Rereads

-----------------------------------------------------------------------------
(* A simulation that is right by itself.                                   *)

Sim(c, t, u, s, d) == [critter |-> c, spells |-> t, uid |-> u, seed |-> s, dealt |-> d]

IsSim(g) == g = Sim(g.critter, g.spells, g.uid, g.seed, g.dealt)

\* Where a critter goes if it is not told otherwise.
Going(c) ==
    /\ c \in [Critters -> Critter]
    /\ \A k \in Critters : c[k].at + c[k].face * c[k].velocity \in -1 .. LastCell + 1

\* Of n orders given, each is one spell at most.
Stocked(t, n) ==
    /\ Table!Good(t)
    /\ \A e \in Held(t) : e.elem.id <= n
    /\ \A d, e \in Held(t) : d.elem.id = e.elem.id => d = e

Dealing(d, n) ==
    /\ d \in [Ids \X Critters -> {0, 1}]
    /\ \A id \in Ids, k \in Critters : id > n => d[<<id, k>>] = 0

\* Whom a spell can still hurt it has not hurt yet.
Spares(s, d) ==
    /\ s.kind = "nova" => s.caster \notin s.hit /\ \A k \in Critters \ s.hit : d[<<s.id, k>>] = 0
    /\ s.kind # "nova" /\ ~s.exploded => \A k \in Critters : d[<<s.id, k>>] = 0

Replica(g, n) ==
    /\ IsSim(g)
    /\ Going(g.critter)
    /\ Stocked(g.spells, n)
    /\ Dealing(g.dealt, n)
    /\ \A e \in Held(g.spells) : Spares(e.elem, g.dealt)
    /\ g.uid \in 1 .. n + 1
    /\ g.seed \in Seeds

\* Nothing is written over when the snapshot is read.
Keyed(g) ==
    /\ \A e \in Held(g.spells) : e.key < g.uid
    /\ \A d, e \in Held(g.spells) : d.key = e.key => d = e

OrderType ==
    [id : Ids, kind : {"move", "flare", "teleport", "nova"}, sender : Critters,
     from : Cells, to : Cells]

Constants ==
    /\ LastCell \in Nat /\ NumCritters \in Nat /\ NumSeeds \in Nat /\ NumSeeds > 1
    /\ FadeFrames \in Nat /\ FadeFrames > 0 /\ NovaFrames \in Nat /\ NovaFrames > 1
    /\ MaxOrders \in Nat

LEMMA ConstantTypes == Constants
  BY WorldAssumption DEF Constants

LEMMA SimFields ==
    ASSUME NEW c, NEW t, NEW u, NEW s, NEW d, NEW g, g = Sim(c, t, u, s, d)
    PROVE  /\ g.critter = c /\ g.spells = t /\ g.uid = u /\ g.seed = s /\ g.dealt = d
           /\ IsSim(g)
  BY DEF Sim, IsSim

\* What an assignment to fields of the game does.
SetAt(f, k, x)              == [f EXCEPT ![k] = x]
SetCritter(g, k, x)         == [g EXCEPT !.critter[k] = x]
SetCritters(g, x)           == [g EXCEPT !.critter = x]
SetSpells(g, x)             == [g EXCEPT !.spells = x]
SetSpellsAndUid(g, x, y)    == [g EXCEPT !.spells = x, !.uid = y]
SetCrittersAndDealt(g, x, y) == [g EXCEPT !.critter = x, !.dealt = y]
SetCritterAndSeed(g, k, x, y) == [g EXCEPT !.critter[k] = x, !.seed = y]

LEMMA FieldsSet ==
    ASSUME NEW g, IsSim(g), NEW k, NEW x, NEW y
    PROVE  /\ SetCritter(g, k, x) = Sim(SetAt(g.critter, k, x), g.spells, g.uid, g.seed, g.dealt)
           /\ SetCritters(g, x) = Sim(x, g.spells, g.uid, g.seed, g.dealt)
           /\ SetSpells(g, x) = Sim(g.critter, x, g.uid, g.seed, g.dealt)
           /\ SetSpellsAndUid(g, x, y) = Sim(g.critter, x, y, g.seed, g.dealt)
           /\ SetCrittersAndDealt(g, x, y) = Sim(x, g.spells, g.uid, g.seed, y)
           /\ SetCritterAndSeed(g, k, x, y)
                = Sim(SetAt(g.critter, k, x), g.spells, g.uid, y, g.dealt)
  <1>1. PICK c, t, u, s, d : c = g.critter /\ t = g.spells /\ u = g.uid /\ s = g.seed /\ d = g.dealt
    OBVIOUS
  <1>2. g = [critter |-> c, spells |-> t, uid |-> u, seed |-> s, dealt |-> d]
    BY <1>1 DEF IsSim, Sim
  <1>3. [g EXCEPT !.critter[k] = x] = Sim([c EXCEPT ![k] = x], t, u, s, d)
    BY <1>2 DEF Sim
  <1>4. [g EXCEPT !.spells = x] = Sim(c, x, u, s, d) /\ [g EXCEPT !.critter = x] = Sim(x, t, u, s, d)
    BY <1>2 DEF Sim
  <1>5. [g EXCEPT !.spells = x, !.uid = y] = Sim(c, x, y, s, d)
    <2>1. PICK h : h = [g EXCEPT !.spells = x, !.uid = y]
      OBVIOUS
    <2>2. h = [critter |-> h.critter, spells |-> h.spells, uid |-> h.uid, seed |-> h.seed,
               dealt |-> h.dealt]
      BY <1>2, <2>1
    <2>3. h.critter = c
      BY <1>2, <2>1
    <2>4. h.spells = x /\ h.uid = y
      BY <1>2, <2>1
    <2>5. h.seed = s /\ h.dealt = d
      BY <1>2, <2>1
    <2> QED
      BY <2>1, <2>2, <2>3, <2>4, <2>5, Zenon DEF Sim
  <1>6. [g EXCEPT !.critter = x, !.dealt = y] = Sim(x, t, u, s, y)
    <2>1. PICK h : h = [g EXCEPT !.critter = x, !.dealt = y]
      OBVIOUS
    <2>2. h = [critter |-> h.critter, spells |-> h.spells, uid |-> h.uid, seed |-> h.seed,
               dealt |-> h.dealt]
      BY <1>2, <2>1
    <2>3. h.critter = x
      BY <1>2, <2>1
    <2>4. h.spells = t /\ h.uid = u
      BY <1>2, <2>1
    <2>5. h.seed = s /\ h.dealt = y
      BY <1>2, <2>1
    <2> QED
      BY <2>1, <2>2, <2>3, <2>4, <2>5, Zenon DEF Sim
  <1>7. [g EXCEPT !.critter[k] = x, !.seed = y] = Sim([c EXCEPT ![k] = x], t, u, y, d)
    <2>1. PICK h : h = [g EXCEPT !.critter[k] = x, !.seed = y]
      OBVIOUS
    <2>2. h = [critter |-> h.critter, spells |-> h.spells, uid |-> h.uid, seed |-> h.seed,
               dealt |-> h.dealt]
      BY <1>2, <2>1
    <2>3. h.critter = [c EXCEPT ![k] = x]
      BY <1>2, <2>1
    <2>4. h.spells = t /\ h.uid = u
      BY <1>2, <2>1
    <2>5. h.seed = y /\ h.dealt = d
      BY <1>2, <2>1
    <2> QED
      BY <2>1, <2>2, <2>3, <2>4, <2>5, Zenon DEF Sim
  <1> QED
    BY <1>1, <1>3, <1>4, <1>5, <1>6, <1>7
       DEF SetAt, SetCritter, SetCritters, SetSpells, SetSpellsAndUid, SetCrittersAndDealt,
           SetCritterAndSeed

LEMMA CritterSet ==
    ASSUME NEW g, IsSim(g), NEW k, NEW x
    PROVE  SetCritter(g, k, x) = Sim(SetAt(g.critter, k, x), g.spells, g.uid, g.seed, g.dealt)
  BY FieldsSet

LEMMA CrittersSet ==
    ASSUME NEW g, IsSim(g), NEW x
    PROVE  SetCritters(g, x) = Sim(x, g.spells, g.uid, g.seed, g.dealt)
  BY FieldsSet

LEMMA SpellsSet ==
    ASSUME NEW g, IsSim(g), NEW x
    PROVE  SetSpells(g, x) = Sim(g.critter, x, g.uid, g.seed, g.dealt)
  BY FieldsSet

LEMMA SpellsAndUidSet ==
    ASSUME NEW g, IsSim(g), NEW x, NEW y
    PROVE  SetSpellsAndUid(g, x, y) = Sim(g.critter, x, y, g.seed, g.dealt)
  BY FieldsSet

LEMMA CrittersAndDealtSet ==
    ASSUME NEW g, IsSim(g), NEW x, NEW y
    PROVE  SetCrittersAndDealt(g, x, y) = Sim(x, g.spells, g.uid, g.seed, y)
  BY FieldsSet

LEMMA CritterAndSeedSet ==
    ASSUME NEW g, IsSim(g), NEW k, NEW x, NEW y
    PROVE  SetCritterAndSeed(g, k, x, y)
             = Sim(SetAt(g.critter, k, x), g.spells, g.uid, y, g.dealt)
  BY FieldsSet

-----------------------------------------------------------------------------
(* An order.                                                               *)

CreatedBy(o) == NewSpell(o, IF o.kind = "nova" THEN NovaFrames ELSE FadeFrames)

Obeyed(h, g, o) ==
    IF o.kind = "move"
    THEN h = Sim(SetAt(g.critter, o.sender, Walk(g.critter[o.sender], o.to)),
                 g.spells, g.uid, g.seed, g.dealt)
    ELSE h = Sim(g.critter, Insert(g.spells, [key |-> g.uid, elem |-> CreatedBy(o)]),
                 g.uid + 1, g.seed, g.dealt)

LEMMA ObeyEffect ==
    ASSUME NEW g, IsSim(g), NEW o \in OrderType
    PROVE  Obeyed(Obey(g, o), g, o)
  <1>1. CASE o.kind = "move"
    <2>1. Obey(g, o) = SetCritter(g, o.sender, Walk(g.critter[o.sender], o.to))
      BY <1>1, Zenon DEF Obey, SetCritter
    <2>2. PICK w : w = Walk(g.critter[o.sender], o.to)
      OBVIOUS
    <2>3. SetCritter(g, o.sender, w)
            = Sim(SetAt(g.critter, o.sender, w), g.spells, g.uid, g.seed, g.dealt)
      BY CritterSet
    <2> QED
      BY <1>1, <2>1, <2>2, <2>3, Zenon DEF Obeyed
  <1>2. CASE o.kind # "move"
    <2>1. Obey(g, o) = Spawned(g, CreatedBy(o))
      BY <1>2 DEF Obey, CreatedBy, CreateFlare, CreateTeleport, CreateNova, OrderType
    <2>2. PICK v, e, u : /\ v = Insert(g.spells, e) /\ e = [key |-> g.uid, elem |-> CreatedBy(o)]
                         /\ u = g.uid + 1
      OBVIOUS
    <2>3. Spawned(g, CreatedBy(o)) = SetSpellsAndUid(g, v, u)
      BY <2>2, Zenon DEF Spawned, SetSpellsAndUid
    <2>4. SetSpellsAndUid(g, v, u) = Sim(g.critter, v, u, g.seed, g.dealt)
      BY SpellsAndUidSet
    <2> QED
      BY <1>2, <2>1, <2>2, <2>3, <2>4, Zenon DEF Obeyed
  <1> QED
    BY <1>1, <1>2

LEMMA WalkFields ==
    ASSUME NEW c \in Critter, NEW goal \in Cells, NEW w, w = Walk(c, goal)
    PROVE  /\ w \in Critter /\ w.at = c.at /\ w.face = c.face /\ w.velocity = c.velocity
           /\ w.hp = c.hp /\ w.running /\ w.goal = goal
  BY DEF Walk, Critter

LEMMA CreatedType ==
    ASSUME NEW o \in OrderType
    PROVE  LET s == CreatedBy(o)
           IN  /\ o.kind # "move" => s \in Spell
               /\ s.id = o.id /\ s.kind = o.kind /\ ~s.exploded /\ s.hit = {}
  BY ConstantTypes DEF CreatedBy, NewSpell, OrderType, Spell, Kind, Constants

LEMMA ObeyKeeps ==
    ASSUME NEW g, NEW n \in Nat, Replica(g, n), NEW o \in OrderType, o.id = n + 1
    PROVE  /\ Replica(Obey(g, o), n + 1)
           /\ Keyed(g) => Keyed(Obey(g, o))
           /\ o.kind = "move" => Held(Obey(g, o).spells) = Held(g.spells)
           /\ o.kind # "move" => Held(Obey(g, o).spells)
                                   = Held(g.spells) \union {[key |-> g.uid, elem |-> CreatedBy(o)]}
  <1>1. PICK f : f = Obey(g, o)
    OBVIOUS
  <1>2. Obeyed(f, g, o)
    BY <1>1, ObeyEffect DEF Replica
  <1>3. CASE o.kind = "move"
    <2>1. PICK c : c = SetAt(g.critter, o.sender, Walk(g.critter[o.sender], o.to))
      OBVIOUS
    <2>2. /\ IsSim(f) /\ f.critter = c /\ f.spells = g.spells /\ f.uid = g.uid /\ f.seed = g.seed
          /\ f.dealt = g.dealt
      BY <1>2, <1>3, <2>1, SimFields DEF Obeyed
    <2>3. Going(c)
      <3>1. PICK k \in Critters : k = o.sender
        BY DEF OrderType
      <3>2. g.critter \in [Critters -> Critter] /\ o.to \in Cells
        BY DEF Replica, Going, OrderType
      <3>3. PICK w : w = Walk(g.critter[k], o.to)
        OBVIOUS
      <3>4. w \in Critter /\ w.at = g.critter[k].at /\ w.face = g.critter[k].face
            /\ w.velocity = g.critter[k].velocity
        BY <3>2, <3>3, WalkFields
      <3>5. c = [g.critter EXCEPT ![k] = w]
        BY <2>1, <3>1, <3>3 DEF SetAt
      <3>6. \A j \in Critters : c[j].at = g.critter[j].at /\ c[j].face = g.critter[j].face
                                /\ c[j].velocity = g.critter[j].velocity
        BY <3>2, <3>4, <3>5
      <3> QED
        BY <3>2, <3>4, <3>5, <3>6 DEF Replica, Going
    <2>4. Stocked(g.spells, n + 1)
      <3>1. \A e \in Held(g.spells) : e.elem.id \in Nat
        BY TableShape DEF Replica, Stocked, Item, Spell, Ids
      <3> QED
        BY <3>1 DEF Replica, Stocked
    <2>5. Dealing(g.dealt, n + 1)
      BY DEF Replica, Dealing, Ids
    <2>6. g.uid \in 1 .. (n + 1) + 1
      BY DEF Replica
    <2>7. Replica(f, n + 1)
      BY <2>2, <2>3, <2>4, <2>5, <2>6 DEF Replica
    <2>8. Keyed(g) => Keyed(f)
      BY <2>2 DEF Keyed
    <2> QED
      BY <1>1, <1>3, <2>2, <2>7, <2>8
  <1>4. CASE o.kind # "move"
    <2>1. PICK s : s = CreatedBy(o)
      OBVIOUS
    <2>2. s \in Spell /\ s.id = n + 1 /\ ~s.exploded /\ s.hit = {}
      BY <1>4, <2>1, CreatedType
    <2>3. PICK e : e = [key |-> g.uid, elem |-> s]
      OBVIOUS
    <2>4. PICK t : t = Insert(g.spells, e)
      OBVIOUS
    <2>5. /\ IsSim(f) /\ f.critter = g.critter /\ f.spells = t /\ f.uid = g.uid + 1
          /\ f.seed = g.seed /\ f.dealt = g.dealt
      BY <1>2, <1>4, <2>1, <2>3, <2>4, SimFields DEF Obeyed
    <2>6. /\ Table!Good(g.spells) /\ \A d \in Held(g.spells) : d.elem.id <= n /\ d \in Item
          /\ \A d1, d2 \in Held(g.spells) : d1.elem.id = d2.elem.id => d1 = d2
      BY TableShape DEF Replica, Stocked
    <2>7. e \in Item /\ e.elem = s /\ e.key = g.uid
      <3>1. g.uid \in Ids
        BY <2>2, ConstantTypes DEF Replica, Ids, Spell, Constants
      <3> QED
        BY <2>2, <2>3, <3>1 DEF Item
    <2>8. e \notin Held(g.spells)
      BY <2>2, <2>6, <2>7
    <2>9. Table!Good(t) /\ Held(t) = Held(g.spells) \union {e}
      BY <2>4, <2>6, <2>7, <2>8, TableInsert
    <2>10. Stocked(t, n + 1)
      <3>1. \A d \in Held(g.spells) : d.elem.id <= n + 1 /\ d.elem.id # n + 1
        BY <2>6 DEF Item, Spell, Ids
      <3> QED
        BY <2>2, <2>6, <2>7, <2>9, <3>1 DEF Stocked
    <2>11. Dealing(g.dealt, n + 1)
      BY DEF Replica, Dealing, Ids
    <2>12. Spares(s, g.dealt)
      BY <2>2 DEF Replica, Dealing, Spares, Spell
    <2>13. g.uid + 1 \in 1 .. (n + 1) + 1
      BY DEF Replica
    <2>14. Replica(f, n + 1)
      BY <2>5, <2>7, <2>9, <2>10, <2>11, <2>12, <2>13 DEF Replica
    <2>15. Keyed(g) => Keyed(f)
      <3>1. g.uid \in Int /\ \A d \in Held(g.spells) : d.key \in Int
        BY <2>6 DEF Replica, Item, Ids
      <3> QED
        BY <2>5, <2>7, <2>9, <3>1 DEF Keyed
    <2> QED
      BY <1>1, <1>4, <2>1, <2>3, <2>5, <2>9, <2>14, <2>15
  <1> QED
    BY <1>3, <1>4

-----------------------------------------------------------------------------
(* The three loops of a frame.                                             *)

\* The loop of game_logic_tick over the orders, step by step.
CommandedRuns(g, f) ==
    /\ f[0] = g
    /\ \A k \in 1 .. Len(orders) : f[k] = Obey(f[k - 1], orders[k])
    /\ Commanded(g) = f[Len(orders)]

CommandedRun(g) == \E f : CommandedRuns(g, f)

LEMMA CommandedLoop ==
    ASSUME NEW g, Len(orders) \in Nat
    PROVE  CommandedRun(g)
  <1>1. PICK N \in Nat : N = Len(orders)
    OBVIOUS
  <1> DEFINE Upto(n, f) == /\ f[0] = g
                          /\ \A k \in 1 .. n : f[k] = Obey(f[k - 1], orders[k])
             D == {n \in 0 .. N : \E f : Upto(n, f)}
             body(f) == [i \in 0 .. N |-> IF i = 0 THEN g ELSE Obey(f[i - 1], orders[i])]
             after == CHOOSE f : f = body(f)
  <1>2. 0 \in D
    <2>1. PICK f : f = [i \in 0 .. 0 |-> g]
      OBVIOUS
    <2>2. f[0] = g /\ 1 .. 0 = {} /\ 0 \in 0 .. N
      BY <2>1
    <2> QED
      BY <2>2, Zenon
  <1>3. ASSUME NEW n \in 0 .. N - 1, n \in D PROVE n + 1 \in D
    <2>1. PICK f : Upto(n, f)
      BY <1>3
    <2>2. PICK x : x = Obey(f[n], orders[n + 1])
      OBVIOUS
    <2>3. PICK h : h = [i \in 0 .. n + 1 |-> IF i = n + 1 THEN x ELSE f[i]]
      OBVIOUS
    <2>4. h[0] = f[0] /\ h[n + 1] = x /\ h[n] = f[n]
          /\ \A k \in 1 .. n : h[k] = f[k] /\ h[k - 1] = f[k - 1]
      BY <2>3
    <2>5. \A k \in 1 .. n + 1 : h[k] = Obey(h[k - 1], orders[k])
      <3> TAKE k \in 1 .. n + 1
      <3>1. CASE k = n + 1
        <4>1. k - 1 = n
          BY <3>1
        <4> QED
          BY <2>2, <2>4, <3>1, <4>1, Zenon
      <3>2. CASE k # n + 1
        <4>1. k \in 1 .. n
          BY <3>2
        <4> QED
          BY <2>1, <2>4, <4>1, Zenon
      <3> QED
        BY <3>1, <3>2
    <2>6. Upto(n + 1, h) /\ n + 1 \in 0 .. N
      BY <2>1, <2>4, <2>5
    <2> QED
      BY <2>6
  <1>4. N \in D
    <2> HIDE DEF D
    <2>1. \A n \in 0 .. N - 1 : n \in D => n + 1 \in D
      BY <1>3
    <2>2. 0 .. N \subseteq D
      BY <1>2, <2>1, BoundedInduction
    <2> QED
      BY <2>2
  <1>5. PICK f : Upto(N, f)
    BY <1>4
  <1>6. PICK h : h = [i \in 0 .. N |-> f[i]]
    OBVIOUS
  <1>7. h = body(h)
    <2>1. \A i \in 0 .. N : h[i] = body(h)[i]
      <3> TAKE i \in 0 .. N
      <3>1. CASE i = 0
        BY <1>5, <1>6, <3>1, Zenon
      <3>2. CASE i # 0
        <4>1. i \in 1 .. N /\ i - 1 \in 0 .. N
          BY <3>2
        <4>2. h[i] = f[i] /\ h[i - 1] = f[i - 1]
          BY <1>6, <4>1, Zenon
        <4>3. f[i] = Obey(f[i - 1], orders[i])
          BY <1>5, <4>1, Zenon
        <4>4. h[i] = Obey(h[i - 1], orders[i])
          BY <4>2, <4>3, Zenon
        <4> QED
          BY <3>2, <4>4, Zenon
      <3> QED
        BY <3>1, <3>2
    <2>2. body(h) = [i \in 0 .. N |-> body(h)[i]]
      BY Zenon
    <2>3. h = [i \in 0 .. N |-> h[i]]
      BY <1>6
    <2> HIDE DEF body
    <2> QED
      BY <2>1, <2>2, <2>3, Zenon
  <1>8. after = body(after)
    BY <1>7, Zenon
  <1>9. Commanded(g) = after[N]
    BY <1>1, Zenon DEF Commanded
  <1>10. PICK r : r = after
    OBVIOUS
  <1>11. r = body(r)
    <2> HIDE DEF body, after
    <2> QED
      BY <1>8, <1>10, Zenon
  <1>12. 0 \in 0 .. N /\ \A k \in 1 .. N : k \in 0 .. N /\ k # 0
    OBVIOUS
  <1>13. r[0] = g /\ \A k \in 1 .. N : r[k] = Obey(r[k - 1], orders[k])
    BY <1>11, <1>12, Zenon
  <1> HIDE DEF after, body
  <1> QED
    BY <1>1, <1>9, <1>10, <1>13, Zenon DEF CommandedRun, CommandedRuns

\* The loop over the slots of the table of spells.
TickedRuns(g, junk, f) ==
    /\ f[0] = g
    /\ \A k \in 1 .. g.spells.size : f[k] = TickSpell(f[k - 1], k - 1, junk)
    /\ SpellsTicked(g, junk) = f[g.spells.size]

TickedRun(g, junk) == \E f : TickedRuns(g, junk, f)

LEMMA TickedLoop ==
    ASSUME NEW g, NEW junk, g.spells.size \in Nat
    PROVE  TickedRun(g, junk)
  <1>1. PICK N \in Nat : N = g.spells.size
    OBVIOUS
  <1> DEFINE Upto(n, f) == /\ f[0] = g
                          /\ \A k \in 1 .. n : f[k] = TickSpell(f[k - 1], k - 1, junk)
             D == {n \in 0 .. N : \E f : Upto(n, f)}
             body(f) == [i \in 0 .. N |-> IF i = 0 THEN g ELSE TickSpell(f[i - 1], i - 1, junk)]
             after == CHOOSE f : f = body(f)
  <1>2. 0 \in D
    <2>1. PICK f : f = [i \in 0 .. 0 |-> g]
      OBVIOUS
    <2>2. f[0] = g /\ 1 .. 0 = {} /\ 0 \in 0 .. N
      BY <2>1
    <2> QED
      BY <2>2, Zenon
  <1>3. ASSUME NEW n \in 0 .. N - 1, n \in D PROVE n + 1 \in D
    <2>1. PICK f : Upto(n, f)
      BY <1>3
    <2>2. PICK x : x = TickSpell(f[n], n, junk)
      OBVIOUS
    <2>3. PICK h : h = [i \in 0 .. n + 1 |-> IF i = n + 1 THEN x ELSE f[i]]
      OBVIOUS
    <2>4. h[0] = f[0] /\ h[n + 1] = x /\ h[n] = f[n]
          /\ \A k \in 1 .. n : h[k] = f[k] /\ h[k - 1] = f[k - 1]
      BY <2>3
    <2>5. \A k \in 1 .. n + 1 : h[k] = TickSpell(h[k - 1], k - 1, junk)
      <3> TAKE k \in 1 .. n + 1
      <3>1. CASE k = n + 1
        <4>1. k - 1 = n
          BY <3>1
        <4> QED
          BY <2>2, <2>4, <3>1, <4>1, Zenon
      <3>2. CASE k # n + 1
        <4>1. k \in 1 .. n
          BY <3>2
        <4> QED
          BY <2>1, <2>4, <4>1, Zenon
      <3> QED
        BY <3>1, <3>2
    <2>6. Upto(n + 1, h) /\ n + 1 \in 0 .. N
      BY <2>1, <2>4, <2>5
    <2> QED
      BY <2>6
  <1>4. N \in D
    <2> HIDE DEF D
    <2>1. \A n \in 0 .. N - 1 : n \in D => n + 1 \in D
      BY <1>3
    <2>2. 0 .. N \subseteq D
      BY <1>2, <2>1, BoundedInduction
    <2> QED
      BY <2>2
  <1>5. PICK f : Upto(N, f)
    BY <1>4
  <1>6. PICK h : h = [i \in 0 .. N |-> f[i]]
    OBVIOUS
  <1>7. h = body(h)
    <2>1. \A i \in 0 .. N : h[i] = body(h)[i]
      <3> TAKE i \in 0 .. N
      <3>1. CASE i = 0
        BY <1>5, <1>6, <3>1, Zenon
      <3>2. CASE i # 0
        <4>1. i \in 1 .. N /\ i - 1 \in 0 .. N
          BY <3>2
        <4>2. h[i] = f[i] /\ h[i - 1] = f[i - 1]
          BY <1>6, <4>1, Zenon
        <4>3. f[i] = TickSpell(f[i - 1], i - 1, junk)
          BY <1>5, <4>1, Zenon
        <4>4. h[i] = TickSpell(h[i - 1], i - 1, junk)
          BY <4>2, <4>3, Zenon
        <4> QED
          BY <3>2, <4>4, Zenon
      <3> QED
        BY <3>1, <3>2
    <2>2. body(h) = [i \in 0 .. N |-> body(h)[i]]
      BY Zenon
    <2>3. h = [i \in 0 .. N |-> h[i]]
      BY <1>6
    <2> HIDE DEF body
    <2> QED
      BY <2>1, <2>2, <2>3, Zenon
  <1>8. after = body(after)
    BY <1>7, Zenon
  <1>9. SpellsTicked(g, junk) = after[N]
    BY <1>1, Zenon DEF SpellsTicked
  <1>10. PICK r : r = after
    OBVIOUS
  <1>11. r = body(r)
    <2> HIDE DEF body, after
    <2> QED
      BY <1>8, <1>10, Zenon
  <1>12. 0 \in 0 .. N /\ \A k \in 1 .. N : k \in 0 .. N /\ k # 0
    OBVIOUS
  <1>13. r[0] = g /\ \A k \in 1 .. N : r[k] = TickSpell(r[k - 1], k - 1, junk)
    BY <1>11, <1>12, Zenon
  <1> HIDE DEF after, body
  <1> QED
    BY <1>1, <1>9, <1>10, <1>13, Zenon DEF TickedRun, TickedRuns

\* The loop over the critters.
WalkedRuns(g, f) ==
    /\ f[0] = g
    /\ \A k \in 1 .. NumCritters : f[k] = TickCritter(f[k - 1], k)
    /\ CrittersTicked(g) = f[NumCritters]

WalkedRun(g) == \E f : WalkedRuns(g, f)

LEMMA WalkedLoop ==
    ASSUME NEW g
    PROVE  WalkedRun(g)
  <1>1. PICK N \in Nat : N = NumCritters
    BY ConstantTypes DEF Constants
  <1> DEFINE Upto(n, f) == /\ f[0] = g
                          /\ \A k \in 1 .. n : f[k] = TickCritter(f[k - 1], k)
             D == {n \in 0 .. N : \E f : Upto(n, f)}
             body(f) == [i \in 0 .. N |-> IF i = 0 THEN g ELSE TickCritter(f[i - 1], i)]
             after == CHOOSE f : f = body(f)
  <1>2. 0 \in D
    <2>1. PICK f : f = [i \in 0 .. 0 |-> g]
      OBVIOUS
    <2>2. f[0] = g /\ 1 .. 0 = {} /\ 0 \in 0 .. N
      BY <2>1
    <2> QED
      BY <2>2, Zenon
  <1>3. ASSUME NEW n \in 0 .. N - 1, n \in D PROVE n + 1 \in D
    <2>1. PICK f : Upto(n, f)
      BY <1>3
    <2>2. PICK x : x = TickCritter(f[n], n + 1)
      OBVIOUS
    <2>3. PICK h : h = [i \in 0 .. n + 1 |-> IF i = n + 1 THEN x ELSE f[i]]
      OBVIOUS
    <2>4. h[0] = f[0] /\ h[n + 1] = x /\ h[n] = f[n]
          /\ \A k \in 1 .. n : h[k] = f[k] /\ h[k - 1] = f[k - 1]
      BY <2>3
    <2>5. \A k \in 1 .. n + 1 : h[k] = TickCritter(h[k - 1], k)
      <3> TAKE k \in 1 .. n + 1
      <3>1. CASE k = n + 1
        <4>1. k - 1 = n
          BY <3>1
        <4> QED
          BY <2>2, <2>4, <3>1, <4>1, Zenon
      <3>2. CASE k # n + 1
        <4>1. k \in 1 .. n
          BY <3>2
        <4> QED
          BY <2>1, <2>4, <4>1, Zenon
      <3> QED
        BY <3>1, <3>2
    <2>6. Upto(n + 1, h) /\ n + 1 \in 0 .. N
      BY <2>1, <2>4, <2>5
    <2> QED
      BY <2>6
  <1>4. N \in D
    <2> HIDE DEF D
    <2>1. \A n \in 0 .. N - 1 : n \in D => n + 1 \in D
      BY <1>3
    <2>2. 0 .. N \subseteq D
      BY <1>2, <2>1, BoundedInduction
    <2> QED
      BY <2>2
  <1>5. PICK f : Upto(N, f)
    BY <1>4
  <1>6. PICK h : h = [i \in 0 .. N |-> f[i]]
    OBVIOUS
  <1>7. h = body(h)
    <2>1. \A i \in 0 .. N : h[i] = body(h)[i]
      <3> TAKE i \in 0 .. N
      <3>1. CASE i = 0
        BY <1>5, <1>6, <3>1, Zenon
      <3>2. CASE i # 0
        <4>1. i \in 1 .. N /\ i - 1 \in 0 .. N
          BY <3>2
        <4>2. h[i] = f[i] /\ h[i - 1] = f[i - 1]
          BY <1>6, <4>1, Zenon
        <4>3. f[i] = TickCritter(f[i - 1], i)
          BY <1>5, <4>1, Zenon
        <4>4. h[i] = TickCritter(h[i - 1], i)
          BY <4>2, <4>3, Zenon
        <4> QED
          BY <3>2, <4>4, Zenon
      <3> QED
        BY <3>1, <3>2
    <2>2. body(h) = [i \in 0 .. N |-> body(h)[i]]
      BY Zenon
    <2>3. h = [i \in 0 .. N |-> h[i]]
      BY <1>6
    <2> HIDE DEF body
    <2> QED
      BY <2>1, <2>2, <2>3, Zenon
  <1>8. after = body(after)
    BY <1>7, Zenon
  <1>9. CrittersTicked(g) = after[N]
    BY <1>1, Zenon DEF CrittersTicked
  <1>10. PICK r : r = after
    OBVIOUS
  <1>11. r = body(r)
    <2> HIDE DEF body, after
    <2> QED
      BY <1>8, <1>10, Zenon
  <1>12. 0 \in 0 .. N /\ \A k \in 1 .. N : k \in 0 .. N /\ k # 0
    OBVIOUS
  <1>13. r[0] = g /\ \A k \in 1 .. N : r[k] = TickCritter(r[k - 1], k)
    BY <1>11, <1>12, Zenon
  <1> HIDE DEF after, body
  <1> QED
    BY <1>1, <1>9, <1>10, <1>13, Zenon DEF WalkedRun, WalkedRuns

-----------------------------------------------------------------------------
(* The orders of a frame.                                                  *)

\* After n orders have been carried out, the ones of the next frame wait.
Pending(n) ==
    /\ n \in Nat
    /\ orders \in Seq(OrderType)
    /\ \A i \in 1 .. Len(orders) : orders[i].id = n + i

SpellsIn(t) == {e.elem : e \in Held(t)}

Created(k) == {CreatedBy(orders[i]) : i \in {j \in 1 .. k : orders[j].kind # "move"}}

LEMMA CommandedKeeps ==
    ASSUME NEW g, NEW n, Pending(n), Replica(g, n), NEW h, h = Commanded(g)
    PROVE  /\ Replica(h, n + Len(orders))
           /\ Keyed(g) => Keyed(h)
           /\ SpellsIn(h.spells) = SpellsIn(g.spells) \union Created(Len(orders))
  <1>1. PICK N \in Nat : N = Len(orders)
    BY DEF Pending
  <1>2. PICK f : CommandedRuns(g, f)
    <2>1. CommandedRun(g)
      BY <1>1, CommandedLoop
    <2> QED
      BY <2>1, Zenon DEF CommandedRun
  <1>3. f[0] = g /\ h = f[N] /\ \A k \in 1 .. N : f[k] = Obey(f[k - 1], orders[k])
    BY <1>1, <1>2, Zenon DEF CommandedRuns
  <1>4. n \in Nat /\ \A k \in 1 .. N : orders[k] \in OrderType /\ orders[k].id = n + k
    BY <1>1 DEF Pending
  <1> DEFINE Right(k) == /\ Replica(f[k], n + k)
                         /\ Keyed(g) => Keyed(f[k])
                         /\ SpellsIn(f[k].spells) = SpellsIn(g.spells) \union Created(k)
             D == {k \in 0 .. N : Right(k)}
  <1>5. 0 \in D
    <2>1. 0 \in 0 .. N /\ n + 0 = n /\ Created(0) = {}
      BY <1>4 DEF Created
    <2> QED
      BY <1>3, <2>1
  <1>6. ASSUME NEW k \in 0 .. N - 1, k \in D PROVE k + 1 \in D
    <2>1. PICK u, v, o : u = f[k] /\ v = f[k + 1] /\ o = orders[k + 1]
      OBVIOUS
    <2>2. Replica(u, n + k) /\ (Keyed(g) => Keyed(u))
          /\ SpellsIn(u.spells) = SpellsIn(g.spells) \union Created(k)
      BY <1>6, <2>1
    <2>3. k + 1 \in 1 .. N /\ (k + 1) - 1 = k /\ n + k \in Nat /\ n + (k + 1) = (n + k) + 1
          /\ k + 1 \in 0 .. N
      BY <1>4
    <2>4. v = Obey(u, o) /\ o \in OrderType /\ o.id = (n + k) + 1
      BY <1>3, <1>4, <2>1, <2>3
    <2>5. /\ Replica(v, (n + k) + 1) /\ (Keyed(u) => Keyed(v))
          /\ o.kind = "move" => Held(v.spells) = Held(u.spells)
          /\ o.kind # "move" => Held(v.spells)
                                  = Held(u.spells) \union {[key |-> u.uid, elem |-> CreatedBy(o)]}
      BY <2>2, <2>3, <2>4, ObeyKeeps
    <2>6. SpellsIn(v.spells) = SpellsIn(g.spells) \union Created(k + 1)
      <3>1. CASE o.kind = "move"
        <4>1. Created(k + 1) = Created(k)
          <5>1. {j \in 1 .. k + 1 : orders[j].kind # "move"} = {j \in 1 .. k : orders[j].kind # "move"}
            BY <2>1, <3>1
          <5> QED
            BY <5>1, Zenon DEF Created
        <4> QED
          BY <2>2, <2>5, <3>1, <4>1, Zenon DEF SpellsIn
      <3>2. CASE o.kind # "move"
        <4>1. Created(k + 1) = Created(k) \union {CreatedBy(o)}
          <5>1. {j \in 1 .. k + 1 : orders[j].kind # "move"}
                  = {j \in 1 .. k : orders[j].kind # "move"} \union {k + 1}
            BY <2>1, <3>2
          <5>2. PICK J : J = {j \in 1 .. k : orders[j].kind # "move"}
            OBVIOUS
          <5>3. Created(k) = {CreatedBy(orders[i]) : i \in J}
                /\ Created(k + 1) = {CreatedBy(orders[i]) : i \in J \union {k + 1}}
            BY <5>1, <5>2, Zenon DEF Created
          <5> QED
            BY <2>1, <5>3
        <4>2. PICK e, H : e = [key |-> u.uid, elem |-> CreatedBy(o)] /\ H = Held(u.spells)
          OBVIOUS
        <4>3. SpellsIn(v.spells) = {x.elem : x \in H \union {e}} /\ SpellsIn(u.spells) = {x.elem : x \in H}
          BY <2>5, <3>2, <4>2, Zenon DEF SpellsIn
        <4>4. e.elem = CreatedBy(o)
          BY <4>2
        <4>5. SpellsIn(v.spells) = SpellsIn(u.spells) \union {CreatedBy(o)}
          BY <4>3, <4>4
        <4> QED
          BY <2>2, <4>1, <4>5
      <3> QED
        BY <3>1, <3>2
    <2>7. Right(k + 1)
      BY <2>1, <2>2, <2>3, <2>5, <2>6, Zenon
    <2> QED
      BY <2>3, <2>7
  <1>7. Right(N)
    <2>1. \A k \in 0 .. N - 1 : k \in D => k + 1 \in D
      BY <1>6
    <2> HIDE DEF D
    <2>2. 0 .. N \subseteq D
      BY <1>5, <2>1, BoundedInduction
    <2>3. N \in D
      BY <2>2
    <2> USE DEF D
    <2> QED
      BY <2>3
  <1> QED
    BY <1>1, <1>3, <1>7, Zenon

-----------------------------------------------------------------------------
(* What a spell does in a frame.                                           *)

Explodes(s) == s.kind # "nova" /\ s.at = s.goal /\ ~s.exploded

Ends(s) == (s.kind = "nova" \/ s.at = s.goal) /\ s.fade = 1

Victims(s, c, junk) ==
    IF s.kind = "nova" /\ Ends(s) THEN Critters \cap junk[s.id]
    ELSE IF s.kind = "nova" THEN Ring(s, c, NovaFrames - (s.fade - 1))
    ELSE IF Explodes(s) /\ s.kind = "flare" THEN {k \in Critters : c[k].at = s.at} ELSE {}

\* The victims that are recorded: not those of a nova that has been freed.
Counted(s, V) == IF s.kind = "nova" /\ Ends(s) THEN {} ELSE V

Power(s) == IF s.kind = "nova" THEN 3 ELSE 1

Carried(c, s) ==
    IF Explodes(s) /\ s.kind = "teleport"
    THEN SetAt(c, s.caster, [c[s.caster] EXCEPT !.at = s.at]) ELSE c

Older(s, V) ==
    IF s.kind = "nova" THEN [s EXCEPT !.fade = s.fade - 1, !.hit = @ \union V]
    ELSE IF s.at # s.goal THEN [s EXCEPT !.at = @ + Toward(s.at, s.goal)]
         ELSE [s EXCEPT !.exploded = TRUE, !.fade = @ - 1]

Aged(x, V) ==
    IF Ends(x.elem) THEN Empty ELSE [key |-> x.key, elem |-> Older(x.elem, V)]

LEMMA CritterIds == Critters = 1 .. NumCritters /\ NumCritters \in Nat
  BY ConstantTypes DEF Critters, Constants

LEMMA VictimsAreCritters ==
    ASSUME NEW s, NEW c, NEW junk
    PROVE  Victims(s, c, junk) \in SUBSET Critters
  BY DEF Victims, Ring

LEMMA OlderNova ==
    ASSUME NEW s \in Spell, NEW V \in SUBSET Critters, s.kind = "nova", NEW o, o = Older(s, V)
    PROVE  /\ o = [id |-> s.id, kind |-> s.kind, at |-> s.at, goal |-> s.goal, caster |-> s.caster,
                   fade |-> s.fade - 1, exploded |-> s.exploded, hit |-> s.hit \union V]
           /\ ~Ends(s) => o \in Spell
  <1>1. s = [id |-> s.id, kind |-> s.kind, at |-> s.at, goal |-> s.goal, caster |-> s.caster,
             fade |-> s.fade, exploded |-> s.exploded, hit |-> s.hit]
    BY DEF Spell
  <1>2. o = [s EXCEPT !.fade = s.fade - 1, !.hit = @ \union V]
    BY DEF Older
  <1>3. o = [id |-> o.id, kind |-> o.kind, at |-> o.at, goal |-> o.goal, caster |-> o.caster,
             fade |-> o.fade, exploded |-> o.exploded, hit |-> o.hit]
    BY <1>1, <1>2
  <1>4. o.id = s.id /\ o.kind = s.kind /\ o.at = s.at /\ o.goal = s.goal
    BY <1>1, <1>2
  <1>5. o.caster = s.caster /\ o.exploded = s.exploded
    BY <1>1, <1>2
  <1>6. o.fade = s.fade - 1
    BY <1>1, <1>2
  <1>7. o.hit = s.hit \union V
    BY <1>1, <1>2
  <1>8. /\ s.id \in Ids /\ s.kind \in Kind /\ s.at \in Cells /\ s.goal \in Cells /\ s.caster \in Critters
        /\ s.fade \in 1 .. FadeFrames + NovaFrames /\ s.exploded \in BOOLEAN /\ s.hit \in SUBSET Critters
    BY DEF Spell
  <1>9. ~Ends(s) => o.fade \in 1 .. FadeFrames + NovaFrames
    BY <1>6, <1>8, ConstantTypes DEF Ends, Constants
  <1>10. o = [id |-> s.id, kind |-> s.kind, at |-> s.at, goal |-> s.goal, caster |-> s.caster,
              fade |-> s.fade - 1, exploded |-> s.exploded, hit |-> s.hit \union V]
    BY <1>3, <1>4, <1>5, <1>6, <1>7, Zenon
  <1>11. ~Ends(s) => o \in Spell
    <2>1. o.hit \in SUBSET Critters
      BY <1>7, <1>8
    <2> QED
      BY <1>3, <1>4, <1>5, <1>8, <1>9, <2>1 DEF Spell
  <1> QED
    BY <1>10, <1>11, Zenon

\* A missile a frame later.
Flown(s) ==
    [id |-> s.id, kind |-> s.kind,
     at |-> IF s.at = s.goal THEN s.at ELSE s.at + Toward(s.at, s.goal),
     goal |-> s.goal, caster |-> s.caster,
     fade |-> IF s.at = s.goal THEN s.fade - 1 ELSE s.fade,
     exploded |-> IF s.at = s.goal THEN TRUE ELSE s.exploded, hit |-> s.hit]

LEMMA OlderMissile ==
    ASSUME NEW s \in Spell, NEW V, s.kind # "nova", NEW o, o = Older(s, V)
    PROVE  o = Flown(s) /\ (~Ends(s) => o \in Spell)
  <1>1. s = [id |-> s.id, kind |-> s.kind, at |-> s.at, goal |-> s.goal, caster |-> s.caster,
             fade |-> s.fade, exploded |-> s.exploded, hit |-> s.hit]
    BY DEF Spell
  <1>2. /\ s.id \in Ids /\ s.kind \in Kind /\ s.at \in Cells /\ s.goal \in Cells /\ s.caster \in Critters
        /\ s.fade \in 1 .. FadeFrames + NovaFrames /\ s.exploded \in BOOLEAN /\ s.hit \in SUBSET Critters
    BY DEF Spell
  <1>3. CASE s.at # s.goal
    <2>1. PICK a : a = s.at + Toward(s.at, s.goal)
      OBVIOUS
    <2>2. o = [s EXCEPT !.at = a]
      BY <1>3, <2>1 DEF Older
    <2>3. o = [id |-> s.id, kind |-> s.kind, at |-> a, goal |-> s.goal, caster |-> s.caster,
               fade |-> s.fade, exploded |-> s.exploded, hit |-> s.hit]
      BY <1>1, <2>2
    <2>4. a \in Cells
      BY <1>2, <1>3, <2>1, ConstantTypes DEF Toward, Cells, Constants
    <2>5. o \in Spell
      BY <1>2, <2>3, <2>4 DEF Spell
    <2> QED
      BY <1>3, <2>1, <2>3, <2>5, Zenon DEF Flown
  <1>4. CASE s.at = s.goal
    <2>1. o = [s EXCEPT !.exploded = TRUE, !.fade = @ - 1]
      BY <1>4 DEF Older
    <2>2. o = [id |-> o.id, kind |-> o.kind, at |-> o.at, goal |-> o.goal, caster |-> o.caster,
               fade |-> o.fade, exploded |-> o.exploded, hit |-> o.hit]
      BY <1>1, <2>1
    <2>3. o.id = s.id /\ o.kind = s.kind /\ o.at = s.at /\ o.goal = s.goal
      BY <1>1, <2>1
    <2>4. o.caster = s.caster /\ o.hit = s.hit
      BY <1>1, <2>1
    <2>5. o.fade = s.fade - 1
      BY <1>1, <2>1
    <2>6. o.exploded = TRUE
      BY <1>1, <2>1
    <2>7. o = [id |-> s.id, kind |-> s.kind, at |-> s.at, goal |-> s.goal, caster |-> s.caster,
               fade |-> s.fade - 1, exploded |-> TRUE, hit |-> s.hit]
      BY <2>2, <2>3, <2>4, <2>5, <2>6, Zenon
    <2>8. ~Ends(s) => o \in Spell
      <3>1. ~Ends(s) => o.fade \in 1 .. FadeFrames + NovaFrames
        BY <1>2, <1>4, <2>5, ConstantTypes DEF Ends, Constants
      <3> QED
        BY <1>2, <2>2, <2>3, <2>4, <2>6, <3>1 DEF Spell
    <2> QED
      BY <1>4, <2>7, <2>8, Zenon DEF Flown
  <1> QED
    BY <1>3, <1>4

\* The ids are those of different spells.
Distinct(t) == \A d, e \in Held(t) : d.elem.id = e.elem.id => d = e

\* The slot h of the spells holds x, and nothing else of them has changed.
SlotHolds(u, t, h, x) == Table!Good(u) /\ u.size = t.size /\ u.at = SetAt(t.at, h, x)

LEMMA StrikeEffect ==
    ASSUME NEW g, IsSim(g), NEW s, NEW V, NEW hp
    PROVE  Strike(g, s, V, hp)
             = Sim(Hurt(g.critter, V, hp), g.spells, g.uid, g.seed, Recorded(g.dealt, s.id, V))
  <1>1. PICK c, d : c = Hurt(g.critter, V, hp) /\ d = Recorded(g.dealt, s.id, V)
    OBVIOUS
  <1>2. Strike(g, s, V, hp) = SetCrittersAndDealt(g, c, d)
    BY <1>1, Zenon DEF Strike, SetCrittersAndDealt
  <1>3. SetCrittersAndDealt(g, c, d) = Sim(c, g.spells, g.uid, g.seed, d)
    BY CrittersAndDealtSet
  <1> QED
    BY <1>1, <1>2, <1>3, Zenon

LEMMA StrayEffect ==
    ASSUME NEW g, IsSim(g), NEW J
    PROVE  Stray(g, J) = Sim(Hurt(g.critter, Critters \cap J, 3), g.spells, g.uid, g.seed, g.dealt)
  <1>1. PICK c : c = Hurt(g.critter, J, 3)
    OBVIOUS
  <1>2. c = Hurt(g.critter, Critters \cap J, 3)
    BY <1>1 DEF Hurt
  <1>3. Stray(g, J) = SetCritters(g, c)
    BY <1>1, Zenon DEF Stray, SetCritters
  <1>4. SetCritters(g, c) = Sim(c, g.spells, g.uid, g.seed, g.dealt)
    BY CrittersSet
  <1> QED
    BY <1>2, <1>3, <1>4, Zenon

LEMMA ArrivalEffect ==
    ASSUME NEW g, IsSim(g), NEW s
    PROVE  Arrival(g, s)
             = Sim(SetAt(g.critter, s.caster, [g.critter[s.caster] EXCEPT !.at = s.at]),
                   g.spells, g.uid, g.seed, g.dealt)
  <1>1. PICK x : x = [g.critter[s.caster] EXCEPT !.at = s.at]
    OBVIOUS
  <1>2. Arrival(g, s) = SetCritter(g, s.caster, x)
    BY <1>1, Zenon DEF Arrival, SetCritter
  <1>3. SetCritter(g, s.caster, x) = Sim(SetAt(g.critter, s.caster, x), g.spells, g.uid, g.seed, g.dealt)
    BY CritterSet
  <1> QED
    BY <1>1, <1>2, <1>3, Zenon

LEMMA ChangeEffect ==
    ASSUME NEW g, IsSim(g), Table!Good(g.spells), Distinct(g.spells),
           NEW h \in 0 .. g.spells.size - 1, NEW x, x = g.spells.at[h], x # Empty,
           NEW s \in Spell, s.id = x.elem.id, NEW u, u = Change(g, h, s).spells
    PROVE  /\ Change(g, h, s) = Sim(g.critter, u, g.uid, g.seed, g.dealt)
           /\ SlotHolds(u, g.spells, h, [key |-> x.key, elem |-> s])
  <1>1. PICK t, a : t = g.spells /\ a = t.at
    OBVIOUS
  <1>2. PICK e : e = [key |-> x.key, elem |-> s]
    OBVIOUS
  <1>3. /\ t = [size |-> t.size, free |-> t.free, at |-> a]
        /\ t.size \in Nat \ {0} /\ t.free \in Nat
        /\ a \in [0 .. t.size - 1 -> Item \union {Empty}]
        /\ \A i, j \in 0 .. t.size - 1 : a[i] = a[j] /\ a[i] # Empty => i = j
    BY <1>1, TableShape
  <1>4. x \in Item /\ x = a[h]
    BY <1>1, <1>3
  <1>5. e \in Item /\ e.elem = s
    BY <1>2, <1>4 DEF Item
  <1>6. [x EXCEPT !.elem = s] = e
    BY <1>2, <1>4 DEF Item
  <1>7. PICK v : v = [size |-> t.size, free |-> t.free, at |-> [a EXCEPT ![h] = e]]
    OBVIOUS
  <1>8. [t EXCEPT !.at[h].elem = s] = v
    <2>1. [t EXCEPT !.at[h].elem = s] = [t EXCEPT !.at = [t.at EXCEPT ![h] = [t.at[h] EXCEPT !.elem = s]]]
      OBVIOUS
    <2>3. t.at = a /\ t.at[h] = x
      BY <1>1, <1>4
    <2>2. [t EXCEPT !.at = [a EXCEPT ![h] = e]] = v
      <3>1. PICK n, f : n = t.size /\ f = t.free
        OBVIOUS
      <3>2. t = [size |-> n, free |-> f, at |-> a] /\ v = [size |-> n, free |-> f, at |-> [a EXCEPT ![h] = e]]
        BY <1>3, <1>7, <3>1, Zenon
      <3> QED
        BY <3>2
    <2> QED
      BY <1>6, <2>1, <2>2, <2>3, Zenon
  <1>9. Change(g, h, s) = SetSpells(g, v)
    BY <1>1, <1>8, Zenon DEF Change, SetSpells
  <1>10. SetSpells(g, v) = Sim(g.critter, v, g.uid, g.seed, g.dealt)
    BY SpellsSet
  <1>11. u = v
    BY <1>9, <1>10, SimFields
  <1>12. Table!Good(v)
    <2>1. \A j \in 0 .. t.size - 1 : t.at[j] = e => j = h
      <3> TAKE j \in 0 .. t.size - 1
      <3> HAVE t.at[j] = e
      <3>1. e # Empty
        BY <1>5, FreeAssumption DEF Item
      <3>2. e \in Held(t) /\ x \in Held(t)
        BY <1>1, <1>4, <3>1, Zenon DEF Held
      <3>3. e = x
        BY <1>1, <1>5, <3>2, Zenon DEF Distinct
      <3> QED
        BY <1>1, <1>3, <1>4, <3>3, Zenon
    <2> QED
      BY <1>1, <1>4, <1>5, <1>7, <2>1, TableChange
  <1> QED
    BY <1>1, <1>2, <1>7, <1>9, <1>10, <1>11, <1>12 DEF SlotHolds, SetAt

LEMMA EndedEffect ==
    ASSUME NEW g, IsSim(g), Table!Good(g.spells),
           NEW h \in 0 .. g.spells.size - 1, g.spells.at[h] # Empty, NEW u, u = Ended(g, h).spells
    PROVE  /\ Ended(g, h) = Sim(g.critter, u, g.uid, g.seed, g.dealt)
           /\ SlotHolds(u, g.spells, h, Empty)
  <1>1. PICK v : v = FreeSlot(g.spells, h)
    OBVIOUS
  <1>2. Ended(g, h) = SetSpells(g, v)
    BY <1>1, Zenon DEF Ended, SetSpells
  <1>3. SetSpells(g, v) = Sim(g.critter, v, g.uid, g.seed, g.dealt)
    BY SpellsSet
  <1>4. u = v
    BY <1>2, <1>3, SimFields
  <1>5. Table!Good(v) /\ SlotSet(v, g.spells, h, Empty)
    BY <1>1, TableFree
  <1>6. v.size = g.spells.size /\ v.at = SetAt(g.spells.at, h, Empty)
    BY <1>5 DEF SlotSet, SetAt
  <1> QED
    BY <1>2, <1>3, <1>4, <1>5, <1>6, Zenon DEF SlotHolds

LEMMA NobodyHurt ==
    ASSUME NEW c \in [Critters -> Critter], NEW d \in [Ids \X Critters -> Nat], NEW id, NEW hp
    PROVE  Hurt(c, {}, hp) = c /\ Recorded(d, id, {}) = d
  <1>1. Hurt(c, {}, hp) = c
    BY DEF Hurt
  <1>2. Recorded(d, id, {}) = d
    <2>1. PICK D : D = Ids \X Critters
      OBVIOUS
    <2>2. d \in [D -> Nat] /\ DOMAIN d = D
      BY <2>1
    <2>3. \A p \in D : d[p] + 0 = d[p]
      BY <2>2
    <2>4. Recorded(d, id, {}) = [p \in D |-> d[p] + 0]
      BY <2>2 DEF Recorded
    <2> QED
      BY <2>2, <2>3, <2>4
  <1> QED
    BY <1>1, <1>2

\* A table of spells as TickSpell finds it.
Ticking(g, h) ==
    /\ IsSim(g) /\ Table!Good(g.spells) /\ Distinct(g.spells)
    /\ h \in 0 .. g.spells.size - 1
    /\ g.critter \in [Critters -> Critter] /\ g.dealt \in [Ids \X Critters -> Nat]

\* The game f is b with x in the slot h.
Leaves(f, b, h, x) ==
    /\ f = Sim(b.critter, f.spells, b.uid, b.seed, b.dealt)
    /\ SlotHolds(f.spells, b.spells, h, x)

LEMMA SpellInSlot ==
    ASSUME NEW g, NEW h, Ticking(g, h), g.spells.at[h] # Empty
    PROVE  g.spells.at[h] \in Item /\ g.spells.at[h].elem \in Spell
  BY TableShape DEF Ticking, Item

LEMMA ChangeLeaves ==
    ASSUME NEW g, NEW h, Ticking(g, h), NEW x, x = g.spells.at[h], x # Empty,
           NEW s \in Spell, s.id = x.elem.id,
           NEW b, IsSim(b), b.spells = g.spells
    PROVE  Leaves(Change(b, h, s), b, h, [key |-> x.key, elem |-> s])
  <1>1. PICK f, u : f = Change(b, h, s) /\ u = f.spells
    OBVIOUS
  <1>2. /\ f = Sim(b.critter, u, b.uid, b.seed, b.dealt)
        /\ SlotHolds(u, b.spells, h, [key |-> x.key, elem |-> s])
    BY <1>1, ChangeEffect DEF Ticking
  <1> QED
    BY <1>1, <1>2, Zenon DEF Leaves

LEMMA EndedLeaves ==
    ASSUME NEW g, NEW h, Ticking(g, h), g.spells.at[h] # Empty,
           NEW b, IsSim(b), b.spells = g.spells
    PROVE  Leaves(Ended(b, h), b, h, Empty)
  <1>1. PICK f, u : f = Ended(b, h) /\ u = f.spells
    OBVIOUS
  <1>2. /\ f = Sim(b.critter, u, b.uid, b.seed, b.dealt)
        /\ SlotHolds(u, b.spells, h, Empty)
    BY <1>1, EndedEffect DEF Ticking
  <1> QED
    BY <1>1, <1>2, Zenon DEF Leaves

LEMMA MissileEffect ==
    ASSUME NEW g, NEW h, Ticking(g, h), NEW x, x = g.spells.at[h], x # Empty,
           x.elem.kind # "nova", NEW V,
           NEW after, IsSim(after), after.spells = g.spells,
           NEW b, b = IF Explodes(x.elem) THEN after ELSE g
    PROVE  Leaves(TickMissile(g, h, after), b, h, Aged(x, V))
  <1>1. PICK s, o : s = x.elem /\ o = Older(s, V)
    OBVIOUS
  <1>2. s \in Spell /\ s.fade \in Nat
    <2>1. s \in Spell
      BY <1>1, SpellInSlot
    <2> QED
      BY <2>1, ConstantTypes DEF Spell, Constants
  <1>3. o.id = s.id /\ (~Ends(s) => o \in Spell)
    <2>1. o = Flown(s) /\ (~Ends(s) => o \in Spell)
      BY <1>1, <1>2, OlderMissile, Zenon
    <2> QED
      BY <2>1 DEF Flown
  <1>4. IsSim(b) /\ b.spells = g.spells
    BY DEF Ticking
  <1>5. CASE s.at # s.goal
    <2>1. b = g /\ ~Ends(s)
      BY <1>1, <1>5 DEF Explodes, Ends
    <2>2. o = [s EXCEPT !.at = s.at + Toward(s.at, s.goal)]
      BY <1>1, <1>5 DEF Older
    <2>3. TickMissile(g, h, after) = Change(b, h, o)
      BY <1>1, <1>5, <2>1, <2>2, Zenon DEF TickMissile
    <2>4. Aged(x, V) = [key |-> x.key, elem |-> o]
      BY <1>1, <2>1, Zenon DEF Aged
    <2> QED
      BY <1>1, <1>3, <1>4, <2>1, <2>3, <2>4, ChangeLeaves
  <1>6. CASE s.at = s.goal
    <2>1. b = IF s.exploded THEN g ELSE after
      BY <1>1, <1>6 DEF Explodes
    <2>2. o = [s EXCEPT !.exploded = TRUE, !.fade = s.fade - 1] /\ o.fade = s.fade - 1
      <3>1. o = [s EXCEPT !.exploded = TRUE, !.fade = s.fade - 1]
        BY <1>1, <1>6 DEF Older
      <3>2. o = Flown(s)
        BY <1>1, <1>2, OlderMissile, Zenon
      <3>3. o.fade = s.fade - 1
        BY <1>6, <3>2 DEF Flown
      <3> QED
        BY <3>1, <3>3
    <2>3. TickMissile(g, h, after) = IF o.fade = 0 THEN Ended(b, h) ELSE Change(b, h, o)
      BY <1>1, <1>6, <2>1, <2>2, Zenon DEF TickMissile
    <2>4. Ends(s) <=> o.fade = 0
      BY <1>2, <1>6, <2>2 DEF Ends
    <2>5. CASE Ends(s)
      <3>1. Aged(x, V) = Empty /\ TickMissile(g, h, after) = Ended(b, h)
        BY <1>1, <2>3, <2>4, <2>5, Zenon DEF Aged
      <3> QED
        BY <1>4, <3>1, EndedLeaves
    <2>6. CASE ~Ends(s)
      <3>1. Aged(x, V) = [key |-> x.key, elem |-> o] /\ TickMissile(g, h, after) = Change(b, h, o)
        BY <1>1, <2>3, <2>4, <2>6, Zenon DEF Aged
      <3> QED
        BY <1>1, <1>3, <1>4, <2>6, <3>1, ChangeLeaves
    <2> QED
      BY <2>5, <2>6
  <1> QED
    BY <1>5, <1>6

\* The game in which the spell s has worked.
Worked(g, s, V) ==
    Sim(Carried(Hurt(g.critter, V, Power(s)), s), g.spells, g.uid, g.seed,
        Recorded(g.dealt, s.id, Counted(s, V)))

LEMMA WorkedFields ==
    ASSUME NEW g, NEW s, NEW V, NEW b, b = Worked(g, s, V)
    PROVE  IsSim(b) /\ b.spells = g.spells
  <1>1. PICK c, d : /\ c = Carried(Hurt(g.critter, V, Power(s)), s)
                    /\ d = Recorded(g.dealt, s.id, Counted(s, V))
    OBVIOUS
  <1>2. b = Sim(c, g.spells, g.uid, g.seed, d)
    BY <1>1, Zenon DEF Worked
  <1> QED
    BY <1>2, SimFields

LEMMA WorkedOnNobody ==
    ASSUME NEW g, NEW h, Ticking(g, h), NEW s, ~Explodes(s) \/ s.kind # "teleport"
    PROVE  Worked(g, s, {}) = g
  <1>1. PICK c, d : c = g.critter /\ d = g.dealt
    OBVIOUS
  <1>2. Hurt(c, {}, Power(s)) = c /\ Recorded(d, s.id, {}) = d
    BY <1>1, NobodyHurt DEF Ticking
  <1>3. Carried(c, s) = c
    BY Zenon DEF Carried
  <1>4. Worked(g, s, {}) = Sim(g.critter, g.spells, g.uid, g.seed, g.dealt)
    <2>1. Counted(s, {}) = {}
      BY DEF Counted
    <2> QED
      BY <1>1, <1>2, <1>3, <2>1, Zenon DEF Worked
  <1> QED
    BY <1>4, Zenon DEF Ticking, IsSim

LEMMA NovaEffect ==
    ASSUME NEW g, NEW h, Ticking(g, h), NEW x, x = g.spells.at[h], x # Empty,
           x.elem.kind = "nova", NEW junk, NEW V, V = Victims(x.elem, g.critter, junk)
    PROVE  Leaves(TickNova(g, h, junk), Worked(g, x.elem, V), h, Aged(x, V))
  <1>1. PICK s, o, b : s = x.elem /\ o = Older(s, V) /\ b = Worked(g, s, V)
    OBVIOUS
  <1>2. s \in Spell /\ V \in SUBSET Critters
    BY <1>1, SpellInSlot, VictimsAreCritters
  <1>3. s.fade \in Int /\ (s.fade - 1 = 0 <=> s.fade = 1)
    BY <1>2, ConstantTypes DEF Spell, Constants
  <1>4. o = [s EXCEPT !.fade = s.fade - 1, !.hit = @ \union V] /\ (~Ends(s) => o \in Spell)
        /\ o.id = s.id
    <2>1. o = [s EXCEPT !.fade = s.fade - 1, !.hit = @ \union V]
      BY <1>1, Zenon DEF Older
    <2>2. ~Ends(s) => o \in Spell
      BY <1>1, <1>2, OlderNova, Zenon
    <2>3. o.id = s.id
      BY <1>2, <2>1 DEF Spell
    <2> QED
      BY <2>1, <2>2, <2>3
  <1>5. Ends(s) <=> s.fade - 1 = 0
    BY <1>1, <1>3 DEF Ends
  <1>6. PICK c, d, e : c = g.critter /\ d = Hurt(c, V, 3) /\ e = Recorded(g.dealt, s.id, Counted(s, V))
    OBVIOUS
  <1>7. b = Sim(d, g.spells, g.uid, g.seed, e)
    <2>1. Carried(d, s) = d /\ Power(s) = 3
      BY <1>1 DEF Carried, Explodes, Power
    <2> QED
      BY <1>1, <1>6, <2>1, Zenon DEF Worked
  <1>8. IsSim(b) /\ b.spells = g.spells
    BY <1>1, WorkedFields
  <1>9. CASE Ends(s)
    <2>1. V = Critters \cap junk[s.id] /\ Counted(s, V) = {}
      BY <1>1, <1>9 DEF Victims, Counted
    <2>2. e = g.dealt
      BY <1>6, <2>1, NobodyHurt DEF Ticking
    <2>3. Stray(g, junk[s.id]) = Sim(d, g.spells, g.uid, g.seed, g.dealt)
      BY <1>6, <2>1, StrayEffect, Zenon DEF Ticking
    <2>4. b = Stray(g, junk[s.id])
      BY <1>7, <2>2, <2>3, Zenon
    <2>5. TickNova(g, h, junk) = Ended(b, h) /\ Aged(x, V) = Empty
      BY <1>1, <1>5, <1>9, <2>4, Zenon DEF TickNova, Aged
    <2> QED
      BY <1>1, <1>8, <2>5, EndedLeaves
  <1>10. CASE ~Ends(s)
    <2>1. V = Ring(s, c, NovaFrames - (s.fade - 1)) /\ Counted(s, V) = V
      BY <1>1, <1>6, <1>10 DEF Victims, Counted
    <2>2. b = Strike(g, s, V, 3)
      <3>1. Strike(g, s, V, 3)
              = Sim(Hurt(g.critter, V, 3), g.spells, g.uid, g.seed, Recorded(g.dealt, s.id, V))
        BY StrikeEffect, Zenon DEF Ticking
      <3>2. d = Hurt(g.critter, V, 3) /\ e = Recorded(g.dealt, s.id, V)
        BY <1>6, <2>1
      <3> QED
        BY <1>7, <3>1, <3>2, Zenon
    <2>3. TickNova(g, h, junk) = Change(b, h, o)
      BY <1>1, <1>4, <1>5, <1>6, <1>10, <2>1, <2>2, Zenon DEF TickNova
    <2>4. Aged(x, V) = [key |-> x.key, elem |-> o]
      BY <1>1, <1>10, Zenon DEF Aged
    <2>5. o \in Spell /\ o.id = x.elem.id /\ b = Worked(g, x.elem, V)
      BY <1>1, <1>4, <1>10, Zenon
    <2>6. Leaves(Change(b, h, o), b, h, [key |-> x.key, elem |-> o])
      BY <1>8, <2>5, ChangeLeaves
    <2> QED
      BY <2>3, <2>4, <2>5, <2>6, Zenon
  <1> QED
    BY <1>9, <1>10

LEMMA FlareEffect ==
    ASSUME NEW g, NEW h, Ticking(g, h), NEW x, x = g.spells.at[h], x # Empty,
           x.elem.kind = "flare", NEW junk, NEW V, V = Victims(x.elem, g.critter, junk)
    PROVE  Leaves(TickFlare(g, h), Worked(g, x.elem, V), h, Aged(x, V))
  <1>1. PICK s, after, b : /\ s = x.elem /\ after = Explosion(g, s)
                           /\ b = IF Explodes(s) THEN after ELSE g
    OBVIOUS
  <1>2. PICK W : W = {k \in Critters : g.critter[k].at = s.at}
    OBVIOUS
  <1>3. PICK c : c = Hurt(g.critter, W, 1)
    OBVIOUS
  <1>4. after = Sim(c, g.spells, g.uid, g.seed, Recorded(g.dealt, s.id, W))
    BY <1>1, <1>2, <1>3, StrikeEffect, Zenon DEF Explosion, Ticking
  <1>5. IsSim(after) /\ after.spells = g.spells
    BY <1>4, SimFields
  <1>6. Leaves(TickMissile(g, h, after), b, h, Aged(x, V))
    BY <1>1, <1>5, MissileEffect
  <1>7. TickFlare(g, h) = TickMissile(g, h, after)
    BY <1>1, Zenon DEF TickFlare
  <1>8. b = Worked(g, s, V)
    <2>1. CASE Explodes(s)
      <3>1. V = W /\ Power(s) = 1 /\ Carried(c, s) = c /\ Counted(s, V) = V
        BY <1>1, <1>2, <2>1 DEF Victims, Power, Carried, Counted
      <3> QED
        BY <1>1, <1>3, <1>4, <2>1, <3>1, Zenon DEF Worked
    <2>2. CASE ~Explodes(s)
      <3>1. V = {}
        BY <1>1, <2>2 DEF Victims
      <3> QED
        BY <1>1, <2>2, <3>1, WorkedOnNobody
    <2> QED
      BY <2>1, <2>2
  <1> QED
    BY <1>1, <1>6, <1>7, <1>8

LEMMA TeleportEffect ==
    ASSUME NEW g, NEW h, Ticking(g, h), NEW x, x = g.spells.at[h], x # Empty,
           x.elem.kind = "teleport", NEW junk, NEW V, V = Victims(x.elem, g.critter, junk)
    PROVE  Leaves(TickTeleport(g, h), Worked(g, x.elem, V), h, Aged(x, V))
  <1>1. PICK s, after, b : /\ s = x.elem /\ after = Arrival(g, s)
                           /\ b = IF Explodes(s) THEN after ELSE g
    OBVIOUS
  <1>2. PICK c : c = SetAt(g.critter, s.caster, [g.critter[s.caster] EXCEPT !.at = s.at])
    OBVIOUS
  <1>3. after = Sim(c, g.spells, g.uid, g.seed, g.dealt)
    BY <1>1, <1>2, ArrivalEffect, Zenon DEF Ticking
  <1>4. IsSim(after) /\ after.spells = g.spells
    BY <1>3, SimFields
  <1>5. Leaves(TickMissile(g, h, after), b, h, Aged(x, V))
    BY <1>1, <1>4, MissileEffect
  <1>6. TickTeleport(g, h) = TickMissile(g, h, after)
    BY <1>1, Zenon DEF TickTeleport
  <1>7. V = {}
    BY <1>1 DEF Victims
  <1>8. b = Worked(g, s, V)
    <2>1. CASE Explodes(s)
      <3>1. PICK c0, d0 : c0 = g.critter /\ d0 = g.dealt
        OBVIOUS
      <3>2. Hurt(c0, {}, Power(s)) = c0 /\ Recorded(d0, s.id, {}) = d0
        BY <3>1, NobodyHurt DEF Ticking
      <3>3. Carried(c0, s) = c /\ Counted(s, {}) = {}
        BY <1>1, <1>2, <2>1, <3>1, Zenon DEF Carried, Counted
      <3> QED
        BY <1>1, <1>3, <1>7, <2>1, <3>1, <3>2, <3>3, Zenon DEF Worked
    <2>2. CASE ~Explodes(s)
      BY <1>1, <1>7, <2>2, WorkedOnNobody
    <2> QED
      BY <2>1, <2>2
  <1> QED
    BY <1>1, <1>5, <1>6, <1>8

\* One turn of the loop over the slots.
LEMMA TickSpellEffect ==
    ASSUME NEW g, NEW h, Ticking(g, h), NEW x, x = g.spells.at[h], x # Empty,
           NEW junk, NEW V, V = Victims(x.elem, g.critter, junk)
    PROVE  Leaves(TickSpell(g, h, junk), Worked(g, x.elem, V), h, Aged(x, V))
  <1>1. PICK s : s = x.elem
    OBVIOUS
  <1>2. s.kind \in {"flare", "teleport", "nova"}
    BY <1>1, SpellInSlot DEF Spell, Kind
  <1>3. CASE s.kind = "nova"
    <2>1. TickSpell(g, h, junk) = TickNova(g, h, junk)
      BY <1>1, <1>3 DEF TickSpell
    <2> QED
      BY <1>1, <1>3, <2>1, NovaEffect
  <1>4. CASE s.kind = "flare"
    <2>1. TickSpell(g, h, junk) = TickFlare(g, h)
      BY <1>1, <1>4 DEF TickSpell
    <2> QED
      BY <1>1, <1>4, <2>1, FlareEffect
  <1>5. CASE s.kind = "teleport"
    <2>1. TickSpell(g, h, junk) = TickTeleport(g, h)
      BY <1>1, <1>5 DEF TickSpell
    <2> QED
      BY <1>1, <1>5, <2>1, TeleportEffect
  <1> QED
    BY <1>2, <1>3, <1>4, <1>5

-----------------------------------------------------------------------------
(* The spells of a frame.                                                  *)

\* In the table u is y where x is in t.
HeldAfter(u, t, x, y) == Held(u) = (Held(t) \ {x}) \union ({y} \ {Empty})

LEMMA SlotHeld ==
    ASSUME NEW t, Table!Good(t), NEW h \in 0 .. t.size - 1, NEW x, x = t.at[h], x # Empty,
           NEW u, NEW y, SlotHolds(u, t, h, y)
    PROVE  HeldAfter(u, t, x, y)
  <1>1. PICK n, a : n = t.size /\ a = t.at
    OBVIOUS
  <1>2. /\ n \in Nat \ {0} /\ a \in [0 .. n - 1 -> Item \union {Empty}]
        /\ \A i, j \in 0 .. n - 1 : a[i] = a[j] /\ a[i] # Empty => i = j
    BY <1>1, TableShape
  <1>3. u.size = n /\ u.at = [a EXCEPT ![h] = y] /\ x = a[h] /\ h \in 0 .. n - 1
    BY <1>1 DEF SlotHolds, SetAt
  <1>4. PICK b : b = [a EXCEPT ![h] = y]
    OBVIOUS
  <1>5. b[h] = y /\ \A j \in 0 .. n - 1 : j # h => b[j] = a[j]
    BY <1>2, <1>3, <1>4
  <1>6. Held(u) = {b[j] : j \in 0 .. n - 1} \ {Empty} /\ Held(t) = {a[j] : j \in 0 .. n - 1} \ {Empty}
    <2>1. u.at = b /\ u.size = n /\ t.at = a /\ t.size = n
      BY <1>1, <1>3, <1>4
    <2> QED
      BY <2>1 DEF Held
  <1>7. \A z : z \in Held(u) <=> z \in (Held(t) \ {x}) \union ({y} \ {Empty})
    <2> TAKE z
    <2>1. ASSUME z \in Held(u) PROVE z \in (Held(t) \ {x}) \union ({y} \ {Empty})
      <3>1. PICK j \in 0 .. n - 1 : z = b[j] /\ z # Empty
        BY <1>6, <2>1
      <3> QED
        BY <1>2, <1>3, <1>5, <1>6, <3>1
    <2>2. ASSUME z \in (Held(t) \ {x}) \union ({y} \ {Empty}) PROVE z \in Held(u)
      <3>1. CASE z = y /\ z # Empty
        BY <1>3, <1>5, <1>6, <3>1
      <3>2. CASE z \in Held(t) /\ z # x
        <4>1. PICK j \in 0 .. n - 1 : z = a[j] /\ z # Empty
          BY <1>6, <3>2
        <4> QED
          BY <1>3, <1>5, <1>6, <3>2, <4>1
      <3> QED
        BY <2>2, <3>1, <3>2
    <2> QED
      BY <2>1, <2>2
  <1> QED
    BY <1>7 DEF HeldAfter

LEMMA CarriedGoing ==
    ASSUME NEW c, Going(c), NEW V, NEW p \in Int, NEW s \in Spell, NEW e, e = Carried(Hurt(c, V, p), s)
    PROVE  Going(e)
  <1>1. PICK m : m = Hurt(c, V, p)
    OBVIOUS
  <1>2. c \in [Critters -> Critter]
    BY DEF Going
  <1>3. \A k \in Critters : /\ m[k] \in Critter /\ m[k].at = c[k].at /\ m[k].face = c[k].face
                            /\ m[k].velocity = c[k].velocity
    <2> TAKE k \in Critters
    <2>1. m[k] = IF k \in V THEN [c[k] EXCEPT !.hp = c[k].hp - p] ELSE c[k]
      BY <1>1 DEF Hurt
    <2>2. c[k] \in Critter
      BY <1>2
    <2>3. PICK y : y = c[k]
      OBVIOUS
    <2>4. y \in Critter /\ m[k] = IF k \in V THEN [y EXCEPT !.hp = y.hp - p] ELSE y
      BY <2>1, <2>2, <2>3, Zenon
    <2>5. m[k] \in Critter /\ m[k].at = y.at /\ m[k].face = y.face /\ m[k].velocity = y.velocity
      BY <2>4 DEF Critter
    <2> QED
      BY <2>3, <2>5
  <1>4. m \in [Critters -> Critter]
    <2>1. m = [k \in Critters |-> m[k]]
      BY <1>1 DEF Hurt
    <2> QED
      BY <1>3, <2>1
  <1>5. Going(m)
    BY <1>3, <1>4 DEF Going
  <1>6. CASE Explodes(s) /\ s.kind = "teleport"
    <2>1. PICK k \in Critters : k = s.caster
      BY DEF Spell
    <2>2. PICK y : y = [m[k] EXCEPT !.at = s.at]
      OBVIOUS
    <2>3. e = [m EXCEPT ![k] = y]
      BY <1>1, <1>6, <2>1, <2>2, Zenon DEF Carried, SetAt
    <2>4. s.at \in 0 .. LastCell /\ LastCell \in Nat
      BY ConstantTypes DEF Spell, Cells, Constants
    <2>5. y \in Critter /\ y.at + y.face * y.velocity \in -1 .. LastCell + 1
      <3>1. PICK z : z = m[k]
        OBVIOUS
      <3>2. z \in Critter /\ y = [z EXCEPT !.at = s.at]
        BY <1>3, <2>2, <3>1
      <3>3. y \in Critter /\ y.at \in 0 .. LastCell
        BY <2>4, <3>2 DEF Critter
      <3>4. y.face \in {-1, 0, 1} /\ y.velocity \in {0, 1}
        BY <3>3 DEF Critter
      <3>5. y.face * y.velocity \in {-1, 0, 1}
        BY <3>4
      <3> QED
        BY <2>4, <3>3, <3>5
    <2>6. e[k] = y /\ \A j \in Critters : j # k => e[j] = m[j]
      BY <1>4, <2>3
    <2>7. e \in [Critters -> Critter]
      BY <1>4, <2>3, <2>5
    <2>8. \A j \in Critters : e[j].at + e[j].face * e[j].velocity \in -1 .. LastCell + 1
      <3> TAKE j \in Critters
      <3>1. CASE j = k
        BY <2>5, <2>6, <3>1
      <3>2. CASE j # k
        BY <1>5, <2>6, <3>2, Zenon DEF Going
      <3> QED
        BY <3>1, <3>2
    <2> QED
      BY <2>7, <2>8, Zenon DEF Going
  <1>7. CASE ~(Explodes(s) /\ s.kind = "teleport")
    BY <1>1, <1>5, <1>7, Zenon DEF Carried
  <1> QED
    BY <1>6, <1>7

\* The critters of V have not been hurt by the spell id.
Unhurt(d, id, V) == V \in SUBSET Critters /\ \A k \in V : d[<<id, k>>] = 0

RecordedOnce(r, d, id, V) ==
    \A i \in Ids, k \in Critters : r[<<i, k>>] = IF i = id /\ k \in V THEN 1 ELSE d[<<i, k>>]

LEMMA RecordedDealing ==
    ASSUME NEW d, NEW n \in Nat, Dealing(d, n), NEW id \in Ids, id <= n, NEW V, Unhurt(d, id, V),
           NEW r, r = Recorded(d, id, V)
    PROVE  Dealing(r, n) /\ RecordedOnce(r, d, id, V)
  <1>1. PICK D : D = Ids \X Critters
    OBVIOUS
  <1>2. d \in [D -> {0, 1}]
    BY <1>1 DEF Dealing
  <1>3. r = [p \in D |-> d[p] + IF p[1] = id /\ p[2] \in V THEN 1 ELSE 0]
    BY <1>2 DEF Recorded
  <1>4. ASSUME NEW i \in Ids, NEW k \in Critters
        PROVE  r[<<i, k>>] = IF i = id /\ k \in V THEN 1 ELSE d[<<i, k>>]
    <2>1. PICK p : p = <<i, k>>
      OBVIOUS
    <2>2. p \in D /\ p[1] = i /\ p[2] = k
      BY <1>1, <2>1
    <2>3. r[p] = d[p] + IF i = id /\ k \in V THEN 1 ELSE 0
      BY <1>3, <2>2
    <2>4. d[p] \in {0, 1}
      BY <1>2, <2>2
    <2>5. i = id /\ k \in V => d[p] = 0
      BY <2>1 DEF Unhurt
    <2> QED
      BY <2>1, <2>3, <2>4, <2>5
  <1>5. \A p \in D : r[p] \in {0, 1}
    <2> TAKE p \in D
    <2>1. PICK i \in Ids, k \in Critters : p = <<i, k>>
      BY <1>1
    <2>2. d[p] \in {0, 1}
      BY <1>2
    <2>3. r[p] = IF i = id /\ k \in V THEN 1 ELSE d[p]
      BY <1>4, <2>1
    <2> QED
      BY <2>2, <2>3
  <1>6. r \in [D -> {0, 1}]
    BY <1>3, <1>5
  <1>7. \A i \in Ids, k \in Critters : i > n => r[<<i, k>>] = 0
    <2> TAKE i \in Ids, k \in Critters
    <2>1. r[<<i, k>>] = IF i = id /\ k \in V THEN 1 ELSE d[<<i, k>>]
      BY <1>4
    <2>2. i > n => i # id /\ d[<<i, k>>] = 0
      BY DEF Dealing, Ids
    <2> QED
      BY <2>1, <2>2
  <1> QED
    BY <1>1, <1>4, <1>6, <1>7 DEF Dealing, RecordedOnce

LEMMA VictimsSpared ==
    ASSUME NEW s \in Spell, NEW d, Spares(s, d), NEW c, NEW junk, NEW V, V = Victims(s, c, junk)
    PROVE  /\ Unhurt(d, s.id, Counted(s, V))
           /\ s.kind = "nova" /\ ~Ends(s) => s.caster \notin V
           /\ s.kind # "nova" /\ ~Explodes(s) => V = {}
           /\ ~Ends(s) => Counted(s, V) = V
  <1>1. CASE s.kind = "nova" /\ Ends(s)
    BY <1>1 DEF Counted, Unhurt
  <1>2. CASE ~(s.kind = "nova" /\ Ends(s))
    <2>1. Counted(s, V) = V
      BY <1>2, Zenon DEF Counted
    <2> QED
      BY <1>2, <2>1, VictimsAreCritters DEF Victims, Ring, Explodes, Spares, Unhurt
  <1> QED
    BY <1>1, <1>2

LEMMA OlderSpares ==
    ASSUME NEW s \in Spell, NEW d, Spares(s, d), NEW V \in SUBSET Critters,
           s.kind = "nova" => s.caster \notin V, s.kind # "nova" /\ ~Explodes(s) => V = {},
           NEW o, o = Older(s, V), NEW r,
           \A k \in Critters : r[<<s.id, k>>] = IF k \in V THEN 1 ELSE d[<<s.id, k>>]
    PROVE  Spares(o, r) /\ o.id = s.id
  <1>1. CASE s.kind = "nova"
    <2>1. o = [id |-> s.id, kind |-> s.kind, at |-> s.at, goal |-> s.goal, caster |-> s.caster,
               fade |-> s.fade - 1, exploded |-> s.exploded, hit |-> s.hit \union V]
      BY <1>1, OlderNova, Zenon
    <2>2. o.id = s.id /\ o.kind = "nova" /\ o.caster = s.caster /\ o.hit = s.hit \union V
      BY <1>1, <2>1
    <2>3. s.caster \notin s.hit /\ \A k \in Critters \ s.hit : d[<<s.id, k>>] = 0
      BY <1>1 DEF Spares
    <2>4. \A k \in Critters \ (s.hit \union V) : r[<<s.id, k>>] = 0
      BY <2>3
    <2> QED
      BY <1>1, <2>2, <2>3, <2>4 DEF Spares
  <1>2. CASE s.kind # "nova"
    <2>1. o = Flown(s)
      BY <1>2, OlderMissile, Zenon
    <2>2. /\ o.id = s.id /\ o.kind = s.kind
          /\ o.exploded = IF s.at = s.goal THEN TRUE ELSE s.exploded
      BY <2>1 DEF Flown
    <2>3. ~o.exploded => \A k \in Critters : r[<<o.id, k>>] = 0
      <3> HAVE ~o.exploded
      <3>1. s.at # s.goal /\ ~s.exploded
        BY <2>2
      <3>2. V = {} /\ \A k \in Critters : d[<<s.id, k>>] = 0
        BY <1>2, <3>1 DEF Explodes, Spares
      <3> QED
        BY <2>2, <3>2
    <2> QED
      BY <1>2, <2>2, <2>3, Zenon DEF Spares
  <1> QED
    BY <1>1, <1>2

Grown(y, x, V) ==
    /\ ~Ends(x.elem) /\ y \in Item
    /\ y.key = x.key /\ y.elem = Older(x.elem, V) /\ y.elem.id = x.elem.id

Group(V) == V \in SUBSET Critters

LEMMA AgedItem ==
    ASSUME NEW x \in Item, NEW V, Group(V), NEW y, y = Aged(x, V), ~Ends(x.elem) \/ y # Empty
    PROVE  Grown(y, x, V) /\ y # Empty
  <1>1. PICK s, o : s = x.elem /\ o = Older(s, V)
    OBVIOUS
  <1>2. s \in Spell /\ x.key \in Ids
    BY <1>1 DEF Item
  <1>3. ~Ends(s) /\ y = [key |-> x.key, elem |-> o]
    BY <1>1, Zenon DEF Aged
  <1>4. o \in Spell /\ o.id = s.id
    <2>1. CASE s.kind = "nova"
      <3>1. /\ o = [id |-> s.id, kind |-> s.kind, at |-> s.at, goal |-> s.goal, caster |-> s.caster,
                    fade |-> s.fade - 1, exploded |-> s.exploded, hit |-> s.hit \union V]
            /\ ~Ends(s) => o \in Spell
        BY <1>1, <1>2, <2>1, OlderNova, Zenon DEF Group
      <3>2. o.id = s.id
        BY <3>1
      <3> QED
        BY <1>3, <3>1, <3>2, Zenon
    <2>2. CASE s.kind # "nova"
      <3>1. o = Flown(s) /\ (~Ends(s) => o \in Spell)
        BY <1>1, <1>2, <2>2, OlderMissile, Zenon
      <3>2. o.id = s.id
        BY <3>1 DEF Flown
      <3> QED
        BY <1>3, <3>1, <3>2, Zenon
    <2> QED
      BY <2>1, <2>2
  <1>5. y.key = x.key /\ y.elem = o
    BY <1>3
  <1>6. y \in Item
    BY <1>2, <1>3, <1>4 DEF Item
  <1> QED
    BY <1>1, <1>3, <1>4, <1>5, <1>6, FreeAssumption DEF Grown, Item

\* The game f is g after the turn of the entry x of the slot h, with its victims V.
SpellTicked(f, g, n, h, x, V) ==
    /\ Replica(f, n)
    /\ Keyed(g) => Keyed(f)
    /\ Group(V)
    /\ SlotHolds(f.spells, g.spells, h, Aged(x, V))
    /\ f = Sim(Carried(Hurt(g.critter, V, Power(x.elem)), x.elem), f.spells, g.uid, g.seed,
               Recorded(g.dealt, x.elem.id, Counted(x.elem, V)))

LEMMA TickSpellKeeps ==
    ASSUME NEW g, NEW n \in Nat, Replica(g, n), NEW h \in 0 .. g.spells.size - 1, NEW junk,
           NEW f, f = TickSpell(g, h, junk), NEW x, x = g.spells.at[h], x # Empty,
           NEW V, V = Victims(x.elem, g.critter, junk)
    PROVE  SpellTicked(f, g, n, h, x, V)
  <1>1. PICK s, t, d, u, e, r, y : /\ s = x.elem /\ t = g.spells /\ d = g.dealt /\ u = f.spells
                                   /\ e = Carried(Hurt(g.critter, V, Power(s)), s)
                                   /\ r = Recorded(d, s.id, Counted(s, V)) /\ y = Aged(x, V)
    OBVIOUS
  <1>2. /\ Table!Good(t) /\ Distinct(t) /\ x \in Item /\ s \in Spell /\ x \in Held(t)
        /\ \A z \in Held(t) : z.elem.id <= n /\ z \in Item /\ Spares(z.elem, d)
    <2>1. Table!Good(t) /\ Distinct(t)
      BY <1>1, Zenon DEF Replica, Stocked, Distinct
    <2>2. t.at \in [0 .. t.size - 1 -> Item \union {Empty}] /\ Held(t) \subseteq Item
      BY <2>1, TableShape
    <2>3. x \in Item /\ x \in Held(t)
      BY <1>1, <2>2 DEF Held
    <2> QED
      BY <1>1, <2>1, <2>2, <2>3 DEF Replica, Stocked, Item
  <1>3. Dealing(d, n) /\ d \in [Ids \X Critters -> Nat]
    <2>1. d \in [Ids \X Critters -> {0, 1}]
      BY <1>1 DEF Replica, Dealing
    <2> QED
      BY <1>1, <2>1 DEF Replica
  <1>4. Ticking(g, h)
    BY <1>1, <1>2, <1>3 DEF Replica, Going, Ticking
  <1>5. Leaves(f, Worked(g, s, V), h, y)
    BY <1>1, <1>4, TickSpellEffect
  <1>6. /\ f.critter = e /\ f.uid = g.uid /\ f.seed = g.seed /\ f.dealt = r
        /\ IsSim(f) /\ f = Sim(e, u, g.uid, g.seed, r) /\ SlotHolds(u, t, h, y)
    <2>1. Worked(g, s, V) = Sim(e, t, g.uid, g.seed, r)
      BY <1>1, Zenon DEF Worked
    <2>2. PICK b : b = Worked(g, s, V)
      OBVIOUS
    <2>3. b.critter = e /\ b.spells = t /\ b.uid = g.uid /\ b.seed = g.seed /\ b.dealt = r
      BY <2>1, <2>2, SimFields
    <2>4. f = Sim(e, u, g.uid, g.seed, r) /\ SlotHolds(u, t, h, y)
      BY <1>1, <1>5, <2>2, <2>3, Zenon DEF Leaves
    <2>5. f.critter = e /\ f.uid = g.uid /\ f.seed = g.seed /\ f.dealt = r /\ IsSim(f)
      BY <2>4, SimFields
    <2> QED
      BY <2>4, <2>5
  <1>7. /\ V \in SUBSET Critters /\ Unhurt(d, s.id, Counted(s, V))
        /\ s.kind = "nova" /\ ~Ends(s) => s.caster \notin V
        /\ s.kind # "nova" /\ ~Explodes(s) => V = {}
        /\ ~Ends(s) => Counted(s, V) = V
    <2>1. V \in SUBSET Critters
      BY VictimsAreCritters
    <2>2. Spares(s, d)
      BY <1>1, <1>2
    <2> QED
      BY <1>1, <1>2, <2>1, <2>2, VictimsSpared
  <1>8. Going(e)
    <2>1. Power(s) \in Int
      BY DEF Power
    <2> QED
      BY <1>1, <1>2, <2>1, CarriedGoing DEF Replica
  <1>9. Dealing(r, n) /\ RecordedOnce(r, d, s.id, Counted(s, V))
    <2>1. s.id \in Ids /\ s.id <= n
      BY <1>1, <1>2 DEF Spell
    <2> QED
      BY <1>1, <1>3, <1>7, <2>1, RecordedDealing, Zenon
  <1>10. Held(u) = (Held(t) \ {x}) \union ({y} \ {Empty})
    <2>1. /\ Table!Good(t) /\ h \in 0 .. t.size - 1 /\ x = t.at[h] /\ x # Empty
          /\ SlotHolds(u, t, h, y)
      BY <1>1, <1>2, <1>6, Zenon
    <2>2. HeldAfter(u, t, x, y)
      BY <2>1, SlotHeld, Zenon
    <2> QED
      BY <2>2 DEF HeldAfter
  <1>11. y # Empty => /\ ~Ends(s) /\ y \in Item /\ y.key = x.key /\ y.elem = Older(s, V)
                      /\ y.elem.id = s.id
    <2>1. y # Empty => Grown(y, x, V)
      <3>1. Group(V)
        BY <1>7 DEF Group
      <3> QED
        BY <1>1, <1>2, <3>1, AgedItem, Zenon
    <2> QED
      BY <1>1, <2>1, Zenon DEF Grown
  <1>12. Stocked(u, n)
    <2>1. Table!Good(u)
      BY <1>6 DEF SlotHolds
    <2>2. \A z \in Held(u) : z.elem.id <= n
      BY <1>1, <1>2, <1>10, <1>11
    <2>3. \A z \in Held(t) \ {x} : z.elem.id # s.id
      BY <1>1, <1>2 DEF Distinct
    <2>4. \A z, w \in Held(t) : z.elem.id = w.elem.id => z = w
      BY <1>2 DEF Distinct
    <2>5. \A z \in Held(u) : z \in Held(t) \ {x} \/ (z = y /\ z.elem.id = s.id)
      BY <1>10, <1>11
    <2>6. \A z, w \in Held(u) : z.elem.id = w.elem.id => z = w
      BY <2>3, <2>4, <2>5
    <2> QED
      BY <2>1, <2>2, <2>6 DEF Stocked
  <1>13. \A z \in Held(u) : Spares(z.elem, r)
    <2> TAKE z \in Held(u)
    <2>1. CASE z \in Held(t) \ {x}
      <3>1. z.elem.id # s.id /\ Spares(z.elem, d) /\ z.elem.id \in Ids
        BY <1>1, <1>2, <2>1 DEF Distinct, Item, Spell
      <3>2. \A k \in Critters : r[<<z.elem.id, k>>] = d[<<z.elem.id, k>>]
        BY <1>9, <3>1 DEF RecordedOnce
      <3>3. PICK w : w = z.elem
        OBVIOUS
      <3> QED
        BY <3>1, <3>2, <3>3, Zenon DEF Spares
    <2>2. CASE z = y /\ y # Empty
      <3>1. Spares(s, d)
        BY <1>1, <1>2
      <3>2. s.id \in Ids
        BY <1>2 DEF Spell
      <3>3. \A k \in Critters : r[<<s.id, k>>] = IF k \in V THEN 1 ELSE d[<<s.id, k>>]
        <4>1. Counted(s, V) = V
          BY <1>7, <1>11, <2>2
        <4> QED
          BY <1>9, <3>2, <4>1 DEF RecordedOnce
      <3>4. Spares(Older(s, V), r)
        BY <1>2, <1>7, <1>11, <2>2, <3>1, <3>3, OlderSpares
      <3> QED
        BY <1>11, <2>2, <3>4
    <2> QED
      BY <1>10, <2>1, <2>2
  <1>14. Replica(f, n)
    BY <1>1, <1>6, <1>8, <1>9, <1>12, <1>13 DEF Replica
  <1>15. Keyed(g) => Keyed(f)
    <2>1. Keyed(g) => /\ \A z \in Held(t) : z.key < g.uid
                      /\ \A z, w \in Held(t) : z.key = w.key => z = w
      BY <1>1 DEF Keyed
    <2>2. Keyed(g) => \A z \in Held(u) : z.key < f.uid
      BY <1>2, <1>6, <1>10, <1>11, <2>1
    <2>3. Keyed(g) => \A z, w \in Held(u) : z.key = w.key => z = w
      BY <1>2, <1>10, <1>11, <2>1
    <2> QED
      BY <1>1, <2>2, <2>3 DEF Keyed
  <1> QED
    BY <1>1, <1>6, <1>7, <1>14, <1>15, Zenon DEF SpellTicked, Group

\* What an entry x has become, or may have, in one frame.
Became(y, x) == IF x = Empty THEN y = Empty ELSE \E V : Group(V) /\ y = Aged(x, V)

\* The loop over the slots has passed k slots of the game g, and got to f.
Passed(f, g, n, k) ==
    /\ Replica(f, n)
    /\ Keyed(g) => Keyed(f)
    /\ f.uid = g.uid /\ f.seed = g.seed
    /\ f.spells.size = g.spells.size
    /\ \A j \in 0 .. g.spells.size - 1 :
           IF j < k THEN Became(f.spells.at[j], g.spells.at[j]) ELSE f.spells.at[j] = g.spells.at[j]

PassedAll(g, n, f) == \A k \in 0 .. g.spells.size : Passed(f[k], g, n, k)

LEMMA TickSpellPasses ==
    ASSUME NEW g, NEW n \in Nat, NEW u, NEW k \in 0 .. g.spells.size - 1, g.spells.size \in Nat,
           Passed(u, g, n, k), NEW junk, NEW v, v = TickSpell(u, k, junk)
    PROVE  Passed(v, g, n, k + 1)
  <1>1. PICK N, a, b, x : N = g.spells.size /\ a = g.spells.at /\ b = u.spells.at /\ x = b[k]
    OBVIOUS
  <1>2. /\ Replica(u, n) /\ u.spells.size = N /\ k \in 0 .. u.spells.size - 1 /\ N \in Nat
        /\ x = u.spells.at[k] /\ x = a[k]
        /\ \A j \in 0 .. N - 1 : IF j < k THEN Became(b[j], a[j]) ELSE b[j] = a[j]
    <2>1. \A j \in 0 .. N - 1 : IF j < k THEN Became(b[j], a[j]) ELSE b[j] = a[j]
      BY <1>1 DEF Passed
    <2>2. b[k] = a[k]
      BY <1>1, <2>1
    <2> QED
      BY <1>1, <2>1, <2>2 DEF Passed
  <1>3. CASE x = Empty
    <2>1. v = u
      BY <1>1, <1>3 DEF TickSpell
    <2>2. \A j \in 0 .. N - 1 : IF j < k + 1 THEN Became(b[j], a[j]) ELSE b[j] = a[j]
      <3> TAKE j \in 0 .. N - 1
      <3>1. CASE j = k
        BY <1>1, <1>2, <1>3, <3>1 DEF Became
      <3>2. CASE j # k
        <4>1. j < k <=> j < k + 1
          BY <3>2
        <4> QED
          BY <1>2, <4>1
      <3> QED
        BY <3>1, <3>2
    <2>3. v.spells.at = b
      BY <1>1, <2>1
    <2> QED
      BY <1>1, <2>1, <2>2 DEF Passed
  <1>4. CASE x # Empty
    <2>1. PICK V : V = Victims(x.elem, u.critter, junk)
      OBVIOUS
    <2>2. SpellTicked(v, u, n, k, x, V)
      BY <1>2, <1>4, <2>1, TickSpellKeeps, Zenon
    <2>3. v.uid = u.uid /\ v.seed = u.seed
      <3>1. PICK c, t, i, s, r : /\ c = Carried(Hurt(u.critter, V, Power(x.elem)), x.elem)
                                 /\ t = v.spells /\ i = u.uid /\ s = u.seed
                                 /\ r = Recorded(u.dealt, x.elem.id, Counted(x.elem, V))
        OBVIOUS
      <3>2. v = Sim(c, t, i, s, r)
        BY <2>2, <3>1, Zenon DEF SpellTicked
      <3> QED
        BY <3>1, <3>2, SimFields
    <2>4. PICK y : y = Aged(x, V)
      OBVIOUS
    <2>5. v.spells.size = N /\ v.spells.at = [b EXCEPT ![k] = y]
      <3>1. SlotHolds(v.spells, u.spells, k, y)
        BY <2>2, <2>4, Zenon DEF SpellTicked
      <3> QED
        BY <1>1, <1>2, <3>1 DEF SlotHolds, SetAt
    <2>6. b \in [0 .. N - 1 -> Item \union {Empty}]
      <3>1. Table!Good(u.spells)
        BY <1>2 DEF Replica, Stocked
      <3> QED
        BY <1>1, <1>2, <3>1, TableShape
    <2>7. PICK c : c = [b EXCEPT ![k] = y]
      OBVIOUS
    <2>8. c[k] = y /\ \A j \in 0 .. N - 1 : j # k => c[j] = b[j]
      <3>1. k \in 0 .. N - 1
        BY <1>1
      <3> QED
        BY <2>6, <2>7, <3>1
    <2>9. \A j \in 0 .. N - 1 : IF j < k + 1 THEN Became(c[j], a[j]) ELSE c[j] = a[j]
      <3> TAKE j \in 0 .. N - 1
      <3>1. CASE j = k
        <4>1. Group(V)
          BY <2>2 DEF SpellTicked
        <4>2. Became(c[k], a[k])
          BY <1>2, <1>4, <2>8, <2>4, <4>1, Zenon DEF Became
        <4> QED
          BY <1>1, <3>1, <4>2
      <3>2. CASE j # k
        <4>1. j < k <=> j < k + 1
          BY <3>2
        <4>2. c[j] = b[j]
          BY <2>8, <3>2
        <4> QED
          BY <1>2, <4>1, <4>2
      <3> QED
        BY <3>1, <3>2
    <2>10. v.spells.at = c
      BY <2>5, <2>7
    <2>11. u.uid = g.uid /\ u.seed = g.seed /\ (Keyed(g) => Keyed(u))
      BY DEF Passed
    <2> QED
      BY <1>1, <2>2, <2>3, <2>5, <2>9, <2>10, <2>11 DEF Passed, SpellTicked
  <1> QED
    BY <1>3, <1>4

LEMMA TickedPasses ==
    ASSUME NEW g, NEW n \in Nat, Replica(g, n), NEW junk, NEW f, TickedRuns(g, junk, f)
    PROVE  PassedAll(g, n, f)
  <1>1. PICK N : N = g.spells.size
    OBVIOUS
  <1>2. N \in Nat
    <2>1. Table!Good(g.spells)
      BY DEF Replica, Stocked
    <2> QED
      BY <1>1, <2>1, TableShape
  <1>3. f[0] = g /\ \A k \in 1 .. N : f[k] = TickSpell(f[k - 1], k - 1, junk)
    BY <1>1, Zenon DEF TickedRuns
  <1> DEFINE D == {k \in 0 .. N : Passed(f[k], g, n, k)}
  <1>4. 0 \in D
    <2>1. 0 \in 0 .. N /\ \A j \in 0 .. N - 1 : ~(j < 0)
      BY <1>2
    <2>2. Passed(g, g, n, 0)
      BY <1>1, <2>1 DEF Passed
    <2> QED
      BY <1>3, <2>1, <2>2
  <1>5. ASSUME NEW k \in 0 .. N - 1, k \in D PROVE k + 1 \in D
    <2>1. PICK u, v : u = f[k] /\ v = f[k + 1]
      OBVIOUS
    <2>2. k + 1 \in 1 .. N /\ (k + 1) - 1 = k /\ k + 1 \in 0 .. N
      BY <1>2
    <2>3. v = TickSpell(u, k, junk)
      BY <1>3, <2>1, <2>2
    <2>4. Passed(v, g, n, k + 1)
      BY <1>1, <1>2, <1>5, <2>1, <2>3, TickSpellPasses
    <2> QED
      BY <2>1, <2>2, <2>4
  <1>6. \A k \in 0 .. N - 1 : k \in D => k + 1 \in D
    BY <1>5
  <1> HIDE DEF D
  <1>7. 0 .. N \subseteq D
    BY <1>2, <1>4, <1>6, BoundedInduction
  <1> USE DEF D
  <1> QED
    BY <1>1, <1>7 DEF PassedAll

-----------------------------------------------------------------------------
(* What of a spell does not depend on the critters.                        *)

Courses(t) == {Course(s) : s \in SpellsIn(t)}

Onward(c) ==
    LET stays == c.kind = "nova" \/ c.at = c.goal
    IN  [id |-> c.id, kind |-> c.kind,
         at |-> IF stays THEN c.at ELSE c.at + Toward(c.at, c.goal), goal |-> c.goal,
         fade |-> IF stays THEN c.fade - 1 ELSE c.fade,
         exploded |-> c.exploded \/ (c.kind # "nova" /\ stays)]

Advanced(C) == {Onward(c) : c \in {d \in C : ~Ends(d)}}

LEMMA OlderCourse ==
    ASSUME NEW s \in Spell, NEW V, Group(V)
    PROVE  Course(Older(s, V)) = Onward(Course(s)) /\ (Ends(Course(s)) <=> Ends(s))
  <1>1. PICK o, c : o = Older(s, V) /\ c = Course(s)
    OBVIOUS
  <1>2. /\ c.id = s.id /\ c.kind = s.kind /\ c.at = s.at /\ c.goal = s.goal /\ c.fade = s.fade
        /\ c.exploded = s.exploded
    BY <1>1 DEF Course
  <1>3. Ends(c) <=> Ends(s)
    BY <1>2 DEF Ends
  <1>4. s.exploded \in BOOLEAN
    BY DEF Spell
  <1>5. CASE s.kind = "nova"
    <2>1. o = [id |-> s.id, kind |-> s.kind, at |-> s.at, goal |-> s.goal, caster |-> s.caster,
               fade |-> s.fade - 1, exploded |-> s.exploded, hit |-> s.hit \union V]
      BY <1>1, <1>5, OlderNova, Zenon DEF Group
    <2>2. o.id = s.id /\ o.kind = s.kind /\ o.at = s.at /\ o.goal = s.goal /\ o.fade = s.fade - 1
          /\ o.exploded = s.exploded
      BY <2>1
    <2>3. Course(o) = [id |-> s.id, kind |-> s.kind, at |-> s.at, goal |-> s.goal,
                       fade |-> s.fade - 1, exploded |-> s.exploded]
      BY <2>2, Zenon DEF Course
    <2>4. Onward(c) = [id |-> s.id, kind |-> s.kind, at |-> s.at, goal |-> s.goal,
                       fade |-> s.fade - 1, exploded |-> s.exploded]
      BY <1>2, <1>4, <1>5 DEF Onward
    <2> QED
      BY <1>1, <1>3, <2>3, <2>4
  <1>6. CASE s.kind # "nova"
    <2>1. o = Flown(s)
      BY <1>1, <1>6, OlderMissile, Zenon
    <2>2. /\ o.id = s.id /\ o.kind = s.kind /\ o.goal = s.goal
          /\ o.at = IF s.at = s.goal THEN s.at ELSE s.at + Toward(s.at, s.goal)
          /\ o.fade = IF s.at = s.goal THEN s.fade - 1 ELSE s.fade
          /\ o.exploded = IF s.at = s.goal THEN TRUE ELSE s.exploded
      BY <2>1 DEF Flown
    <2>3. CASE s.at = s.goal
      <3>1. Course(o) = [id |-> s.id, kind |-> s.kind, at |-> s.at, goal |-> s.goal,
                         fade |-> s.fade - 1, exploded |-> TRUE]
        BY <2>2, <2>3, Zenon DEF Course
      <3>2. Onward(c) = [id |-> s.id, kind |-> s.kind, at |-> s.at, goal |-> s.goal,
                         fade |-> s.fade - 1, exploded |-> TRUE]
        BY <1>2, <1>4, <1>6, <2>3 DEF Onward
      <3> QED
        BY <1>1, <1>3, <3>1, <3>2
    <2>4. CASE s.at # s.goal
      <3>1. PICK a : a = s.at + Toward(s.at, s.goal)
        OBVIOUS
      <3>2. Course(o) = [id |-> s.id, kind |-> s.kind, at |-> a, goal |-> s.goal,
                         fade |-> s.fade, exploded |-> s.exploded]
        BY <2>2, <2>4, <3>1, Zenon DEF Course
      <3>3. Onward(c) = [id |-> s.id, kind |-> s.kind, at |-> a, goal |-> s.goal,
                         fade |-> s.fade, exploded |-> s.exploded]
        BY <1>2, <1>4, <1>6, <2>4, <3>1 DEF Onward
      <3> QED
        BY <1>1, <1>3, <3>2, <3>3
    <2> QED
      BY <2>3, <2>4
  <1> QED
    BY <1>5, <1>6

LEMMA PassedCourses ==
    ASSUME NEW g, NEW n, Replica(g, n), NEW f, Passed(f, g, n, g.spells.size)
    PROVE  Courses(f.spells) = Advanced(Courses(g.spells))
  <1>1. PICK N, a, b : N = g.spells.size /\ a = g.spells.at /\ b = f.spells.at
    OBVIOUS
  <1>2. N \in Nat /\ a \in [0 .. N - 1 -> Item \union {Empty}]
    <2>1. Table!Good(g.spells)
      BY DEF Replica, Stocked
    <2> QED
      BY <1>1, <2>1, TableShape
  <1>3. \A j \in 0 .. N - 1 : Became(b[j], a[j])
    BY <1>1, <1>2 DEF Passed
  <1>4. Held(g.spells) = {a[j] : j \in 0 .. N - 1} \ {Empty}
    BY <1>1 DEF Held
  <1>5. Held(f.spells) = {b[j] : j \in 0 .. N - 1} \ {Empty}
    BY <1>1 DEF Held, Passed
  <1>6. ASSUME NEW j \in 0 .. N - 1, a[j] # Empty
        PROVE  /\ a[j].elem \in Spell /\ (b[j] # Empty <=> ~Ends(Course(a[j].elem)))
               /\ b[j] # Empty => Course(b[j].elem) = Onward(Course(a[j].elem))
    <2>1. PICK V : Group(V) /\ b[j] = Aged(a[j], V)
      BY <1>3, <1>6 DEF Became
    <2>2. PICK x, y : x = a[j] /\ y = b[j]
      OBVIOUS
    <2>3. x \in Item /\ y = Aged(x, V) /\ Group(V)
      BY <1>2, <1>6, <2>1, <2>2
    <2>4. x.elem \in Spell
      BY <2>3 DEF Item
    <2>5. PICK s : s = x.elem
      OBVIOUS
    <2>6. Course(Older(s, V)) = Onward(Course(s)) /\ (Ends(Course(s)) <=> Ends(s))
      BY <2>3, <2>4, <2>5, OlderCourse, Zenon
    <2>7. Ends(s) => y = Empty
      BY <2>3, <2>5, Zenon DEF Aged
    <2>8. ~Ends(s) => y # Empty /\ y.elem = Older(s, V)
      BY <2>3, <2>5, AgedItem, Zenon DEF Grown
    <2> QED
      BY <2>2, <2>4, <2>5, <2>6, <2>7, <2>8, Zenon
  <1>7. ASSUME NEW c \in Courses(f.spells) PROVE c \in Advanced(Courses(g.spells))
    <2>1. PICK e \in Held(f.spells) : c = Course(e.elem)
      BY Zenon DEF Courses, SpellsIn
    <2>2. PICK j \in 0 .. N - 1 : e = b[j] /\ e # Empty
      BY <1>5, <2>1
    <2>3. a[j] # Empty
      BY <1>3, <2>2 DEF Became
    <2>4. PICK x, d : x = a[j] /\ d = Course(x.elem)
      OBVIOUS
    <2>5. x \in Held(g.spells)
      BY <1>4, <2>3, <2>4
    <2>6. d \in Courses(g.spells)
      BY <2>4, <2>5, Zenon DEF Courses, SpellsIn
    <2>7. ~Ends(d) /\ c = Onward(d)
      BY <1>6, <2>1, <2>2, <2>3, <2>4, Zenon
    <2> QED
      BY <2>6, <2>7, Zenon DEF Advanced
  <1>8. ASSUME NEW c \in Advanced(Courses(g.spells)) PROVE c \in Courses(f.spells)
    <2>1. PICK d \in Courses(g.spells) : ~Ends(d) /\ c = Onward(d)
      BY DEF Advanced
    <2>2. PICK x \in Held(g.spells) : d = Course(x.elem)
      BY <2>1, Zenon DEF Courses, SpellsIn
    <2>3. PICK j \in 0 .. N - 1 : x = a[j] /\ x # Empty
      BY <1>4, <2>2
    <2>4. PICK y : y = b[j]
      OBVIOUS
    <2>5. y # Empty /\ c = Course(y.elem)
      BY <1>6, <2>1, <2>2, <2>3, <2>4, Zenon
    <2>6. y \in Held(f.spells)
      BY <1>5, <2>4, <2>5
    <2> QED
      BY <2>5, <2>6, Zenon DEF Courses, SpellsIn
  <1> QED
    BY <1>7, <1>8

LEMMA SpellsTickedKeeps ==
    ASSUME NEW g, NEW n \in Nat, Replica(g, n), NEW junk, NEW h, h = SpellsTicked(g, junk)
    PROVE  /\ Replica(h, n) /\ (Keyed(g) => Keyed(h))
           /\ Courses(h.spells) = Advanced(Courses(g.spells))
  <1>1. g.spells.size \in Nat
    <2>1. Table!Good(g.spells)
      BY DEF Replica, Stocked
    <2> QED
      BY <2>1, TableShape
  <1>2. PICK f : TickedRuns(g, junk, f)
    <2>1. TickedRun(g, junk)
      BY <1>1, TickedLoop
    <2> QED
      BY <2>1, Zenon DEF TickedRun
  <1>3. PassedAll(g, n, f)
    BY <1>2, TickedPasses
  <1>4. h = f[g.spells.size]
    BY <1>2, Zenon DEF TickedRuns
  <1>5. Passed(h, g, n, g.spells.size)
    BY <1>1, <1>3, <1>4 DEF PassedAll
  <1>6. Courses(h.spells) = Advanced(Courses(g.spells))
    BY <1>5, PassedCourses
  <1> QED
    BY <1>5, <1>6 DEF Passed

-----------------------------------------------------------------------------
(* The critters of a frame.                                                *)

Starts(c, k) == k \in Walkers /\ c.velocity = 0

\* What ai_run_around makes of a critter and of the state of the generator.
Led(c, k, seed) == IF Starts(c, k) THEN Walk(c, seed % (LastCell + 1)) ELSE c

Drawn(c, k, seed) == IF Starts(c, k) THEN (seed + 1) % NumSeeds ELSE seed

\* The game f is g after the turn of the critter k.
CritterTicked(f, g, k) ==
    f = Sim(SetAt(g.critter, k, Step(Led(g.critter[k], k, g.seed))), g.spells, g.uid,
            Drawn(g.critter[k], k, g.seed), g.dealt)

LEMMA TickCritterEffect ==
    ASSUME NEW g, IsSim(g), NEW k \in Critters, g.critter \in [Critters -> Critter]
    PROVE  CritterTicked(TickCritter(g, k), g, k)
  <1>1. PICK c, x, w, r, h : /\ c = g.critter /\ x = c[k] /\ w = Led(x, k, g.seed)
                             /\ r = Drawn(x, k, g.seed) /\ h = RunAround(g, k)
    OBVIOUS
  <1>2. PICK d : d = SetAt(c, k, w)
    OBVIOUS
  <1>3. h = Sim(d, g.spells, g.uid, r, g.dealt)
    <2>1. CASE Starts(x, k)
      <3>1. h = SetCritterAndSeed(g, k, w, r)
        BY <1>1, <2>1, Zenon DEF RunAround, SetCritterAndSeed, Led, Drawn, Starts
      <3>2. SetCritterAndSeed(g, k, w, r) = Sim(SetAt(g.critter, k, w), g.spells, g.uid, r, g.dealt)
        BY CritterAndSeedSet
      <3> QED
        BY <1>1, <1>2, <3>1, <3>2, Zenon
    <2>2. CASE ~Starts(x, k)
      <3>1. h = g /\ w = x /\ r = g.seed
        BY <1>1, <2>2, Zenon DEF RunAround, Led, Drawn, Starts
      <3>2. d = c
        BY <1>1, <1>2, <3>1 DEF SetAt
      <3> QED
        BY <1>1, <3>1, <3>2, Zenon DEF IsSim
    <2> QED
      BY <2>1, <2>2
  <1>4. /\ IsSim(h) /\ h.critter = d /\ h.spells = g.spells /\ h.uid = g.uid /\ h.seed = r
        /\ h.dealt = g.dealt
    BY <1>3, SimFields
  <1>5. PICK y : y = Step(w)
    OBVIOUS
  <1>6. h.critter[k] = w
    BY <1>1, <1>2, <1>4 DEF SetAt
  <1>7. TickCritter(g, k) = SetCritter(h, k, y)
    BY <1>1, <1>5, <1>6, Zenon DEF TickCritter, SetCritter
  <1>8. SetCritter(h, k, y) = Sim(SetAt(h.critter, k, y), h.spells, h.uid, h.seed, h.dealt)
    <2>1. IsSim(h)
      BY <1>4
    <2> QED
      BY <2>1, CritterSet
  <1>9. SetAt(h.critter, k, y) = SetAt(c, k, y)
    BY <1>1, <1>2, <1>4 DEF SetAt
  <1> QED
    BY <1>1, <1>4, <1>5, <1>7, <1>8, <1>9, Zenon DEF CritterTicked

\* A critter that stays on the map, or leaves it by one step.
Near(c) == c \in Critter /\ c.at + c.face * c.velocity \in -1 .. LastCell + 1

LEMMA LedNear ==
    ASSUME NEW c, Near(c), NEW k, NEW s \in Seeds, NEW w, w = Led(c, k, s)
    PROVE  Near(w) /\ w.at = c.at /\ w.face = c.face /\ w.velocity = c.velocity /\ w.hp = c.hp
  <1>1. CASE Starts(c, k)
    <2>1. s % (LastCell + 1) \in Cells
      <3>1. LastCell \in Nat /\ s \in Nat
        BY ConstantTypes DEF Constants, Seeds
      <3>2. s % (LastCell + 1) \in 0 .. (LastCell + 1) - 1
        BY <3>1
      <3> QED
        BY <3>1, <3>2 DEF Cells
    <2>2. PICK goal \in Cells : goal = s % (LastCell + 1)
      BY <2>1
    <2>3. w = Walk(c, goal) /\ c \in Critter
      BY <1>1, <2>2 DEF Led, Near
    <2>4. w \in Critter /\ w.at = c.at /\ w.face = c.face /\ w.velocity = c.velocity /\ w.hp = c.hp
      BY <2>3, WalkFields
    <2> QED
      BY <2>4 DEF Near
  <1>2. CASE ~Starts(c, k)
    BY <1>2 DEF Led
  <1> QED
    BY <1>1, <1>2

LEMMA StepNear ==
    ASSUME NEW c, Near(c), NEW d, d = Step(c)
    PROVE  Near(d)
  <1>1. CASE c.hp <= 0
    BY <1>1 DEF Step
  <1>2. CASE ~(c.hp <= 0)
    <2>1. PICK x : x = c.at + c.face * c.velocity
      OBVIOUS
    <2>2. /\ c.hp \in Int /\ c.at \in Int /\ c.goal \in Cells /\ c.running \in BOOLEAN
          /\ c.velocity \in {0, 1} /\ c.face \in {-1, 0, 1} /\ x \in -1 .. LastCell + 1
          /\ c = [hp |-> c.hp, at |-> c.at, goal |-> c.goal, running |-> c.running,
                  velocity |-> c.velocity, face |-> c.face]
      BY <2>1 DEF Near, Critter
    <2>3. c.goal \in 0 .. LastCell /\ LastCell \in Nat
      BY <2>2, ConstantTypes DEF Constants, Cells
    <2>4. CASE c.running
      <3>1. PICK v, e : v = (IF x = c.goal THEN 0 ELSE 1) /\ e = Toward(x, c.goal)
        OBVIOUS
      <3>2. d = [c EXCEPT !.at = x, !.face = e, !.running = ~(x = c.goal), !.velocity = v]
        BY <1>2, <2>1, <2>4, <3>1, Zenon DEF Step
      <3>3. /\ d.at = x /\ d.face = e
        BY <2>2, <3>2
      <3>4. d.running = ~(x = c.goal) /\ d.velocity = v
        BY <2>2, <3>2
      <3>5. d.hp = c.hp /\ d.goal = c.goal
        BY <2>2, <3>2
      <3>6. d = [hp |-> d.hp, at |-> d.at, goal |-> d.goal, running |-> d.running,
                 velocity |-> d.velocity, face |-> d.face]
        BY <2>2, <3>2
      <3>7. e \in {-1, 0, 1} /\ v \in {0, 1} /\ x + e * v \in -1 .. LastCell + 1
        BY <2>2, <2>3, <3>1 DEF Toward
      <3>8. d.running \in BOOLEAN
        BY <3>4
      <3>9. d \in Critter
        BY <2>2, <3>3, <3>4, <3>5, <3>6, <3>7, <3>8 DEF Critter
      <3> QED
        BY <3>3, <3>4, <3>7, <3>9 DEF Near
    <2>5. CASE ~c.running
      <3>1. d = [c EXCEPT !.at = x, !.velocity = 0]
        BY <1>2, <2>1, <2>5, Zenon DEF Step
      <3>2. d \in Critter /\ d.at = x /\ d.velocity = 0 /\ d.face = c.face
        BY <2>2, <3>1 DEF Critter
      <3> QED
        BY <2>2, <3>2 DEF Near
    <2> QED
      BY <2>4, <2>5
  <1> QED
    BY <1>1, <1>2

LEMMA DrawnSeed ==
    ASSUME NEW c, NEW k, NEW s \in Seeds
    PROVE  Drawn(c, k, s) \in Seeds
  <1>1. NumSeeds \in Nat /\ NumSeeds > 1 /\ s \in Nat
    BY ConstantTypes DEF Constants, Seeds
  <1>2. (s + 1) % NumSeeds \in 0 .. NumSeeds - 1
    BY <1>1
  <1> QED
    BY <1>2 DEF Drawn, Seeds

\* The loop over the critters has passed k of the game g, and got to f.
Strolled(f, g, n, k) ==
    /\ Replica(f, n)
    /\ f.spells = g.spells /\ f.uid = g.uid
    /\ \A j \in Critters : j > k => f.critter[j] = g.critter[j]

LEMMA TickCritterKeeps ==
    ASSUME NEW g, NEW n \in Nat, NEW u, NEW k \in 0 .. NumCritters - 1, Strolled(u, g, n, k),
           NEW v, v = TickCritter(u, k + 1)
    PROVE  Strolled(v, g, n, k + 1)
  <1>1. PICK c, j, y, r : /\ c = u.critter /\ j = k + 1 /\ y = Step(Led(c[j], j, u.seed))
                          /\ r = Drawn(c[j], j, u.seed)
    OBVIOUS
  <1>2. j \in Critters
    BY <1>1, CritterIds
  <1>3. /\ Replica(u, n) /\ IsSim(u) /\ c \in [Critters -> Critter] /\ u.seed \in Seeds
        /\ \A i \in Critters : Near(c[i])
    BY <1>1 DEF Strolled, Replica, Going, Near
  <1>4. CritterTicked(v, u, j)
    <2>1. u.critter \in [Critters -> Critter]
      BY <1>1, <1>3
    <2>2. v = TickCritter(u, j)
      BY <1>1
    <2> QED
      BY <1>2, <1>3, <2>1, <2>2, TickCritterEffect
  <1>5. v = Sim(SetAt(c, j, y), u.spells, u.uid, r, u.dealt)
    BY <1>1, <1>4, Zenon DEF CritterTicked
  <1>6. PICK d : d = SetAt(c, j, y)
    OBVIOUS
  <1>7. /\ IsSim(v) /\ v.critter = d /\ v.spells = u.spells /\ v.uid = u.uid /\ v.seed = r
        /\ v.dealt = u.dealt
    BY <1>5, <1>6, SimFields
  <1>8. Near(y)
    <2>1. PICK w : w = Led(c[j], j, u.seed)
      OBVIOUS
    <2>2. Near(w)
      BY <1>2, <1>3, <2>1, LedNear
    <2> QED
      BY <1>1, <2>1, <2>2, StepNear
  <1>9. r \in Seeds
    BY <1>1, <1>3, DrawnSeed
  <1>10. d \in [Critters -> Critter] /\ d[j] = y /\ \A i \in Critters : i # j => d[i] = c[i]
    BY <1>2, <1>3, <1>6, <1>8 DEF SetAt, Near
  <1>11. Going(d)
    <2>1. \A i \in Critters : Near(d[i])
      BY <1>3, <1>8, <1>10
    <2> QED
      BY <1>10, <2>1 DEF Going, Near
  <1>12. Replica(v, n)
    BY <1>3, <1>7, <1>9, <1>11 DEF Replica
  <1>13. \A i \in Critters : i > k + 1 => d[i] = g.critter[i]
    <2> TAKE i \in Critters
    <2> HAVE i > k + 1
    <2>1. i # j /\ i > k
      BY <1>1, CritterIds
    <2>2. c[i] = g.critter[i]
      BY <1>1, <2>1 DEF Strolled
    <2> QED
      BY <1>10, <2>1, <2>2
  <1> QED
    BY <1>7, <1>12, <1>13 DEF Strolled

StrolledAll(g, n, f) == \A k \in 0 .. NumCritters : Strolled(f[k], g, n, k)

LEMMA WalkedStrolls ==
    ASSUME NEW g, NEW n \in Nat, Replica(g, n), NEW f, WalkedRuns(g, f)
    PROVE  StrolledAll(g, n, f)
  <1>1. PICK N \in Nat : N = NumCritters
    BY CritterIds
  <1>2. f[0] = g /\ \A k \in 1 .. N : f[k] = TickCritter(f[k - 1], k)
    BY <1>1, Zenon DEF WalkedRuns
  <1> DEFINE D == {k \in 0 .. N : Strolled(f[k], g, n, k)}
  <1>3. 0 \in D
    <2>1. Strolled(g, g, n, 0)
      BY DEF Strolled
    <2> QED
      BY <1>2, <2>1
  <1>4. ASSUME NEW k \in 0 .. N - 1, k \in D PROVE k + 1 \in D
    <2>1. PICK u, v : u = f[k] /\ v = f[k + 1]
      OBVIOUS
    <2>2. k + 1 \in 1 .. N /\ (k + 1) - 1 = k /\ k + 1 \in 0 .. N /\ k \in 0 .. NumCritters - 1
      BY <1>1
    <2>3. v = TickCritter(u, k + 1) /\ Strolled(u, g, n, k)
      BY <1>2, <1>4, <2>1, <2>2
    <2>4. Strolled(v, g, n, k + 1)
      BY <2>2, <2>3, TickCritterKeeps
    <2> QED
      BY <2>1, <2>2, <2>4
  <1>5. \A k \in 0 .. N - 1 : k \in D => k + 1 \in D
    BY <1>4
  <1> HIDE DEF D
  <1>6. 0 .. N \subseteq D
    BY <1>3, <1>5, BoundedInduction
  <1> USE DEF D
  <1> QED
    BY <1>1, <1>6 DEF StrolledAll

LEMMA CrittersTickedKeeps ==
    ASSUME NEW g, NEW n \in Nat, Replica(g, n), NEW h, h = CrittersTicked(g)
    PROVE  Replica(h, n) /\ h.spells = g.spells /\ h.uid = g.uid
  <1>1. PICK f : WalkedRuns(g, f)
    BY WalkedLoop, Zenon DEF WalkedRun
  <1>2. StrolledAll(g, n, f)
    BY <1>1, WalkedStrolls
  <1>3. h = f[NumCritters]
    BY <1>1, Zenon DEF WalkedRuns
  <1>4. Strolled(h, g, n, NumCritters)
    BY <1>2, <1>3, CritterIds DEF StrolledAll
  <1> QED
    BY <1>4 DEF Strolled

-----------------------------------------------------------------------------
(* A frame.                                                                *)

LEMMA FrameKeeps ==
    ASSUME NEW g, NEW n, Pending(n), Replica(g, n), NEW junk, NEW h, h = GameLogicTick(g, junk)
    PROVE  /\ Replica(h, n + Len(orders)) /\ (Keyed(g) => Keyed(h))
           /\ Courses(h.spells) = Advanced({Course(s) : s \in SpellsIn(g.spells) \union Created(Len(orders))})
  <1>1. PICK a, b, m : a = Commanded(g) /\ b = SpellsTicked(a, junk) /\ m = n + Len(orders)
    OBVIOUS
  <1>2. h = CrittersTicked(b) /\ m \in Nat
    BY <1>1 DEF GameLogicTick, Pending
  <1>3. /\ Replica(a, m) /\ (Keyed(g) => Keyed(a))
        /\ SpellsIn(a.spells) = SpellsIn(g.spells) \union Created(Len(orders))
    BY <1>1, CommandedKeeps
  <1>4. Replica(b, m) /\ (Keyed(a) => Keyed(b)) /\ Courses(b.spells) = Advanced(Courses(a.spells))
    BY <1>1, <1>2, <1>3, SpellsTickedKeeps
  <1>5. Replica(h, m) /\ h.spells = b.spells /\ h.uid = b.uid
    BY <1>2, <1>4, CrittersTickedKeeps
  <1>6. Keyed(b) => Keyed(h)
    BY <1>5 DEF Keyed
  <1>7. Courses(a.spells) = {Course(s) : s \in SpellsIn(g.spells) \union Created(Len(orders))}
    BY <1>3, Zenon DEF Courses
  <1> QED
    BY <1>1, <1>3, <1>4, <1>5, <1>6, <1>7, Zenon

LEMMA LaterReplica ==
    ASSUME NEW g, NEW n \in Nat, NEW m \in Nat, n <= m, Replica(g, n)
    PROVE  Replica(g, m)
  <1>1. \A e \in Held(g.spells) : e.elem.id \in Nat
    BY TableShape DEF Replica, Stocked, Item, Spell, Ids
  <1>2. Stocked(g.spells, m)
    BY <1>1 DEF Replica, Stocked
  <1>3. Dealing(g.dealt, m)
    BY DEF Replica, Dealing, Ids
  <1>4. g.uid \in 1 .. m + 1
    BY DEF Replica
  <1> QED
    BY <1>2, <1>3, <1>4 DEF Replica

-----------------------------------------------------------------------------
(* The invariant.                                                          *)

Replicas == {"server", "client"}

OrdersDone == issued - Len(orders)

\* Both replicas are right by themselves; what the snapshot holds can be read;
\* the spells of the client are those of the server.
WorldInv ==
    /\ game = [r \in Replicas |-> game[r]]
    /\ joined \in BOOLEAN /\ settled \in BOOLEAN /\ parity \in {0, 1}
    /\ issued \in 0 .. MaxOrders
    /\ OrdersDone \in Nat /\ Pending(OrdersDone)
    /\ \A r \in Replicas : Replica(game[r], OrdersDone)
    /\ Keyed(game["server"])
    /\ joined => Courses(game["server"].spells) = Courses(game["client"].spells)

LEMMA EmptySequence ==
    ASSUME NEW S
    PROVE  <<>> \in Seq(S) /\ Len(<<>>) = 0 /\ 1 .. 0 = {}
  <1>1. <<>> \in Seq(S)
    OBVIOUS
  <1>2. Len(<<>>) = 0
    OBVIOUS
  <1>3. 1 .. 0 = {}
    OBVIOUS
  <1> QED
    BY <1>1, <1>2, <1>3

LEMMA NewGameRight ==
    ASSUME NEW g, g = NewGame
    PROVE  Replica(g, 0) /\ Keyed(g) /\ Held(g.spells) = {}
  <1>1. PICK c, t, d : /\ c = [k \in Critters |-> NewCritter] /\ t = NewTable(MinSize)
                       /\ d = [p \in Ids \X Critters |-> 0]
    OBVIOUS
  <1>2. g = Sim(c, t, 1, 1, d)
    BY <1>1, Zenon DEF NewGame, Sim
  <1>3. IsSim(g) /\ g.critter = c /\ g.spells = t /\ g.uid = 1 /\ g.seed = 1 /\ g.dealt = d
    BY <1>2, SimFields
  <1>4. Table!Good(t) /\ Held(t) = {}
    BY <1>1, TableNew
  <1>5. Going(c)
    <2>1. NewCritter \in Critter
      BY ConstantTypes DEF NewCritter, Critter, Cells, Constants
    <2>2. NewCritter.at = 0 /\ NewCritter.face = 0 /\ NewCritter.velocity = 0
      BY DEF NewCritter
    <2>3. PICK x : x = NewCritter
      OBVIOUS
    <2>4. c \in [Critters -> Critter] /\ \A k \in Critters : c[k] = x
      BY <1>1, <2>1, <2>3
    <2>5. x.at + x.face * x.velocity \in -1 .. LastCell + 1
      BY <2>2, <2>3, ConstantTypes DEF Constants
    <2> QED
      BY <2>4, <2>5 DEF Going
  <1>6. Stocked(t, 0)
    BY <1>4 DEF Stocked
  <1>7. Dealing(d, 0)
    BY <1>1 DEF Dealing
  <1>8. 1 \in Seeds
    BY ConstantTypes DEF Seeds, Constants
  <1>9. Replica(g, 0)
    BY <1>3, <1>4, <1>5, <1>6, <1>7, <1>8 DEF Replica
  <1>10. Keyed(g)
    BY <1>3, <1>4 DEF Keyed
  <1> QED
    BY <1>3, <1>4, <1>9, <1>10

LEMMA WorldInit == Init => WorldInv
  <1> SUFFICES ASSUME Init PROVE WorldInv
    OBVIOUS
  <1>1. PICK g : g = NewGame
    OBVIOUS
  <1>2. game = [r \in Replicas |-> g]
    BY <1>1, Zenon DEF Init, Replicas
  <1>3. game = [r \in Replicas |-> game[r]] /\ \A r \in Replicas : game[r] = g
    BY <1>2
  <1>4. orders = <<>> /\ issued = 0 /\ joined = FALSE /\ settled = TRUE /\ parity = 0
    BY DEF Init
  <1>5. OrdersDone = 0 /\ Pending(0)
    <2>1. PICK S : S = OrderType
      OBVIOUS
    <2>2. <<>> \in Seq(S) /\ Len(<<>>) = 0 /\ 1 .. 0 = {}
      BY EmptySequence
    <2>3. Len(orders) = 0 /\ orders \in Seq(OrderType) /\ 1 .. Len(orders) = {}
      BY <1>4, <2>1, <2>2, Zenon
    <2>4. issued = 0
      BY <1>4
    <2>5. OrdersDone = 0
      BY <2>3, <2>4 DEF OrdersDone
    <2>6. Pending(0)
      BY <2>3, Zenon DEF Pending
    <2> QED
      BY <2>5, <2>6
  <1>6. issued \in 0 .. MaxOrders
    BY <1>4, ConstantTypes DEF Constants
  <1>7. Replica(g, 0) /\ Keyed(g)
    BY <1>1, NewGameRight
  <1>8. "server" \in Replicas
    BY DEF Replicas
  <1> QED
    BY <1>3, <1>4, <1>5, <1>6, <1>7, <1>8 DEF WorldInv

LEMMA OrderStep ==
    ASSUME WorldInv, NEW o \in OrderType \union [id : {0}, kind : {"move", "flare", "teleport", "nova"},
                                                 sender : Critters, from : Cells, to : Cells],
           Order(o)
    PROVE  WorldInv'
  <1>1. PICK n, N, p : n = OrdersDone /\ N = Len(orders) /\ p = [o EXCEPT !.id = issued + 1]
    OBVIOUS
  <1>2. /\ issued < MaxOrders /\ issued' = issued + 1 /\ orders' = Append(orders, p)
        /\ game' = game /\ joined' = joined /\ settled' = settled /\ parity' = parity
    BY <1>1 DEF Order
  <1>3. /\ issued \in 0 .. MaxOrders /\ n \in Nat /\ orders \in Seq(OrderType) /\ N \in Nat
        /\ n = issued - N /\ \A i \in 1 .. N : orders[i].id = n + i
    BY <1>1 DEF WorldInv, Pending, OrdersDone
  <1>4. issued + 1 \in Ids /\ issued' \in 0 .. MaxOrders
    BY <1>2, <1>3, ConstantTypes DEF Ids, Constants
  <1>5. p \in OrderType /\ p.id = issued + 1
    BY <1>1, <1>4 DEF OrderType
  <1>6. orders' \in Seq(OrderType) /\ Len(orders') = N + 1
    BY <1>1, <1>2, <1>3, <1>5
  <1>7. \A i \in 1 .. N + 1 : orders'[i].id = n + i
    <2> TAKE i \in 1 .. N + 1
    <2>1. CASE i = N + 1
      <3>1. orders'[i] = p
        BY <1>1, <1>2, <1>3, <2>1
      <3> QED
        BY <1>3, <1>5, <2>1, <3>1
    <2>2. CASE i # N + 1
      <3>1. i \in 1 .. N
        BY <1>3, <2>2
      <3>2. orders'[i] = orders[i]
        BY <1>1, <1>2, <1>3, <3>1
      <3> QED
        BY <1>3, <3>1, <3>2
    <2> QED
      BY <2>1, <2>2
  <1>8. OrdersDone' = n /\ Pending(n)'
    <2>1. OrdersDone' = n
      BY <1>2, <1>3, <1>6 DEF OrdersDone
    <2>2. Pending(n)'
      BY <1>3, <1>6, <1>7 DEF Pending
    <2> QED
      BY <2>1, <2>2
  <1>9. /\ game' = [r \in Replicas |-> game'[r]]
        /\ \A r \in Replicas : Replica(game'[r], n)
        /\ Keyed(game'["server"])
        /\ joined' => Courses(game'["server"].spells) = Courses(game'["client"].spells)
    BY <1>1, <1>2 DEF WorldInv
  <1>10. joined' \in BOOLEAN /\ settled' \in BOOLEAN /\ parity' \in {0, 1}
    BY <1>2 DEF WorldInv
  <1> QED
    BY <1>3, <1>4, <1>8, <1>9, <1>10 DEF WorldInv

\* What the client makes of the snapshot of the game g, the damage it has dealt
\* noted too.
Reborn(g) == [FromSnapshot(Snapshot(g)) EXCEPT !.dealt = g.dealt]

RebornCritters(g) == CrittersDeserialize(CrittersSerialize(g))

LEMMA RebornEffect ==
    ASSUME NEW g, NEW b, b = Reborn(g)
    PROVE  b = Sim(RebornCritters(g), Deserialize(NewTable(MinSize), Serialize(g.spells)), 1, g.seed,
                   g.dealt)
  <1>1. PICK c, t, u, s, d, z : /\ c = RebornCritters(g) /\ t = NewTable(MinSize)
                                /\ u = Deserialize(t, Serialize(g.spells)) /\ s = g.seed
                                /\ d = g.dealt /\ z = NewGame
    OBVIOUS
  <1>2. PICK c0, d0 : /\ c0 = [k \in Critters |-> NewCritter]
                      /\ d0 = [p \in Ids \X Critters |-> 0]
    OBVIOUS
  <1>3. z = [critter |-> c0, spells |-> t, uid |-> 1, seed |-> 1, dealt |-> d0]
    BY <1>1, <1>2, Zenon DEF NewGame
  <1>4. PICK buf : buf = Snapshot(g)
    OBVIOUS
  <1>5. /\ buf.seed = s /\ buf.critters = CrittersSerialize(g)
        /\ buf.spells = Serialize(g.spells)
    BY <1>1, <1>4 DEF Snapshot, SpellsSerialize
  <1>6. z.spells = t
    BY <1>3
  <1>7. FromSnapshot(buf) = [z EXCEPT !.seed = s, !.critter = c, !.spells = u]
    BY <1>1, <1>5, <1>6, Zenon DEF FromSnapshot, SpellsDeserialize, RebornCritters
  <1>8. PICK h : h = [z EXCEPT !.seed = s, !.critter = c, !.spells = u]
    OBVIOUS
  <1>9. h = Sim(c, u, 1, s, d0)
    <2>1. PICK h1 : h1 = [z EXCEPT !.seed = s]
      OBVIOUS
    <2>2. h1 = [critter |-> c0, spells |-> t, uid |-> 1, seed |-> s, dealt |-> d0]
      BY <1>3, <2>1
    <2>3. PICK h2 : h2 = [h1 EXCEPT !.critter = c]
      OBVIOUS
    <2>4. h2 = [critter |-> c, spells |-> t, uid |-> 1, seed |-> s, dealt |-> d0]
      BY <2>2, <2>3
    <2>5. h = [h2 EXCEPT !.spells = u]
      BY <1>8, <2>1, <2>3
    <2> QED
      BY <2>4, <2>5 DEF Sim
  <1>10. b = [h EXCEPT !.dealt = d]
    BY <1>1, <1>4, <1>7, <1>8, Zenon DEF Reborn
  <1>11. b = Sim(c, u, 1, s, d)
    BY <1>9, <1>10 DEF Sim
  <1> QED
    BY <1>1, <1>11

\* The direction of a critter is set from where it stands and where it goes.
LEMMA RebornCritter ==
    ASSUME NEW g, NEW k \in Critters, g.critter[k] \in Critter, NEW d, d = RebornCritters(g)[k]
    PROVE  d = [g.critter[k] EXCEPT !.face = Toward(g.critter[k].at, g.critter[k].goal)] /\ Near(d)
  <1>1. PICK c, z : c = g.critter[k] /\ z = [c EXCEPT !.face = 0]
    OBVIOUS
  <1>2. CrittersSerialize(g)[k] = z
    BY <1>1 DEF CrittersSerialize
  <1>3. d = [z EXCEPT !.face = Toward(z.at, z.goal)]
    BY <1>2 DEF RebornCritters, CrittersDeserialize, Rebuilt
  <1>4. PICK e : e = Toward(c.at, c.goal)
    OBVIOUS
  <1>5. c \in Critter /\ z.at = c.at /\ z.goal = c.goal
    BY <1>1 DEF Critter
  <1>6. d = [c EXCEPT !.face = e]
    BY <1>1, <1>3, <1>4, <1>5 DEF Critter
  <1>7. e \in {-1, 0, 1} /\ d.at = c.at /\ d.velocity = c.velocity /\ d.face = e /\ d \in Critter
    BY <1>4, <1>5, <1>6 DEF Critter, Toward
  <1>8. Near(d)
    <2>1. c.at \in -1 .. LastCell + 1 /\ c.goal \in 0 .. LastCell /\ c.velocity \in {0, 1}
          /\ LastCell \in Nat
      BY <1>5, ConstantTypes DEF Critter, Cells, Constants
    <2>2. c.at + e * c.velocity \in -1 .. LastCell + 1
      BY <1>4, <2>1 DEF Toward
    <2> QED
      BY <1>7, <2>2 DEF Near
  <1> QED
    BY <1>1, <1>4, <1>6, <1>8

LEMMA RebornRight ==
    ASSUME NEW g, NEW n \in Nat, Replica(g, n), Keyed(g), NEW b, b = Reborn(g)
    PROVE  Replica(b, n) /\ Held(b.spells) = Held(g.spells)
  <1>1. PICK c, u : /\ c = RebornCritters(g)
                    /\ u = Deserialize(NewTable(MinSize), Serialize(g.spells))
    OBVIOUS
  <1>2. b = Sim(c, u, 1, g.seed, g.dealt)
    BY <1>1, RebornEffect
  <1>3. /\ IsSim(b) /\ b.critter = c /\ b.spells = u /\ b.uid = 1 /\ b.seed = g.seed
        /\ b.dealt = g.dealt
    BY <1>2, SimFields
  <1>4. Table!Good(u) /\ Held(u) = Held(g.spells)
    <2>1. Table!Good(g.spells) /\ \A d, e \in Held(g.spells) : d.key = e.key => d = e
      BY DEF Replica, Stocked, Keyed
    <2> QED
      BY <1>1, <2>1, TableReread
  <1>5. Going(c)
    <2>1. \A k \in Critters : Near(c[k])
      <3> TAKE k \in Critters
      <3>1. g.critter[k] \in Critter
        BY DEF Replica, Going
      <3> QED
        BY <1>1, <3>1, RebornCritter
    <2>2. c = [k \in Critters |-> c[k]]
      BY <1>1 DEF RebornCritters, CrittersDeserialize
    <2>3. c \in [Critters -> Critter]
      BY <2>1, <2>2 DEF Near
    <2> QED
      BY <2>1, <2>3 DEF Going, Near
  <1>6. Stocked(u, n)
    BY <1>4 DEF Replica, Stocked
  <1> QED
    BY <1>3, <1>4, <1>5, <1>6 DEF Replica

LEMMA JoinStep ==
    ASSUME WorldInv, Join
    PROVE  WorldInv'
  <1>1. PICK n, g, b : n = OrdersDone /\ g = game["server"] /\ b = Reborn(g)
    OBVIOUS
  <1>2. game' = [game EXCEPT !["client"] = b] /\ joined' = TRUE /\ settled' = TRUE
        /\ orders' = orders /\ issued' = issued /\ parity' = parity
    BY <1>1, Zenon DEF Join, Reborn
  <1>3. "server" \in Replicas /\ "client" \in Replicas /\ DOMAIN game = Replicas
    BY DEF WorldInv, Replicas
  <1>4. game'["client"] = b /\ game'["server"] = g /\ game' = [r \in Replicas |-> game'[r]]
    BY <1>1, <1>2, <1>3
  <1>5. Replica(g, n) /\ Keyed(g) /\ n \in Nat
    BY <1>1, <1>3 DEF WorldInv
  <1>6. Replica(b, n) /\ Held(b.spells) = Held(g.spells)
    BY <1>1, <1>5, RebornRight
  <1>7. Courses(b.spells) = Courses(g.spells)
    BY <1>6, Zenon DEF Courses, SpellsIn
  <1>8. OrdersDone' = n /\ Pending(n)'
    BY <1>1, <1>2 DEF WorldInv, OrdersDone, Pending
  <1>9. \A r \in Replicas : Replica(game'[r], n)
    BY <1>4, <1>5, <1>6 DEF Replicas
  <1> QED
    BY <1>2, <1>4, <1>5, <1>7, <1>8, <1>9 DEF WorldInv

LEMMA FrameStep ==
    ASSUME WorldInv, Frame
    PROVE  WorldInv'
  <1>1. PICK n, m : n = OrdersDone /\ m = n + Len(orders)
    OBVIOUS
  <1>2. PICK junk : game' = [r \in Replicas |-> IF r = "client" /\ ~joined THEN game[r]
                                                ELSE GameLogicTick(game[r], junk[r])]
    BY Zenon DEF Frame, Replicas
  <1>3. /\ parity' = 1 - parity /\ settled' \in BOOLEAN /\ orders' = <<>>
        /\ joined' = joined /\ issued' = issued
    BY DEF Frame, NextFrame, WorldInv
  <1>4. n \in Nat /\ Len(orders) \in Nat /\ m = issued /\ m \in Nat /\ Pending(n) /\ n <= m
    BY <1>1 DEF WorldInv, Pending, OrdersDone
  <1>5. \A r \in Replicas : Replica(game[r], n)
    BY <1>1 DEF WorldInv
  <1>6. PICK C : C = Created(Len(orders))
    OBVIOUS
  <1>7. \A r \in Replicas : /\ Replica(game'[r], m)
                            /\ Keyed(game[r]) => Keyed(game'[r])
                            /\ r = "server" \/ joined
                                 => Courses(game'[r].spells)
                                      = Advanced({Course(s) : s \in SpellsIn(game[r].spells) \union C})
    <2> TAKE r \in Replicas
    <2>1. PICK g, h : g = game[r] /\ h = game'[r]
      OBVIOUS
    <2>2. Replica(g, n)
      BY <1>5, <2>1
    <2>3. CASE r = "client" /\ ~joined
      <3>1. h = g
        BY <1>2, <2>1, <2>3
      <3>2. Replica(h, m)
        BY <1>4, <2>2, <3>1, LaterReplica
      <3> QED
        BY <2>1, <2>3, <3>1, <3>2
    <2>4. CASE ~(r = "client" /\ ~joined)
      <3>1. PICK j : j = junk[r]
        OBVIOUS
      <3>2. h = GameLogicTick(g, j)
        BY <1>2, <2>1, <2>4, <3>1
      <3>3. /\ Replica(h, n + Len(orders)) /\ (Keyed(g) => Keyed(h))
            /\ Courses(h.spells)
                 = Advanced({Course(s) : s \in SpellsIn(g.spells) \union Created(Len(orders))})
        BY <1>4, <2>2, <3>2, FrameKeeps
      <3> QED
        BY <1>1, <1>6, <2>1, <3>3, Zenon
    <2> QED
      BY <2>3, <2>4
  <1>8. joined' => Courses(game'["server"].spells) = Courses(game'["client"].spells)
    <2> HAVE joined'
    <2>1. PICK a, b : a = SpellsIn(game["server"].spells) /\ b = SpellsIn(game["client"].spells)
      OBVIOUS
    <2>2. {Course(s) : s \in a} = {Course(s) : s \in b}
      BY <1>3, <2>1, Zenon DEF WorldInv, Courses
    <2>3. {Course(s) : s \in a \union C} = {Course(s) : s \in b \union C}
      BY <2>2
    <2>4. "server" \in Replicas /\ "client" \in Replicas
      BY DEF Replicas
    <2>5. /\ Courses(game'["server"].spells) = Advanced({Course(s) : s \in a \union C})
          /\ Courses(game'["client"].spells) = Advanced({Course(s) : s \in b \union C})
      BY <1>3, <1>7, <2>1, <2>4, Zenon
    <2> QED
      BY <2>3, <2>5, Zenon
  <1>9. OrdersDone' = m /\ Pending(m)'
    <2>1. PICK S : S = OrderType
      OBVIOUS
    <2>2. <<>> \in Seq(S) /\ Len(<<>>) = 0 /\ 1 .. 0 = {}
      BY EmptySequence
    <2>3. Len(orders') = 0 /\ orders' \in Seq(OrderType) /\ 1 .. Len(orders') = {}
      BY <1>3, <2>1, <2>2, Zenon
    <2> QED
      BY <1>3, <1>4, <2>3 DEF OrdersDone, Pending
  <1>10. Keyed(game'["server"])
    BY <1>7 DEF WorldInv, Replicas
  <1>11. game' = [r \in Replicas |-> game'[r]]
    BY <1>2
  <1>12. joined' \in BOOLEAN /\ parity' \in {0, 1} /\ issued' \in 0 .. MaxOrders
    BY <1>3 DEF WorldInv
  <1> QED
    BY <1>3, <1>4, <1>7, <1>8, <1>9, <1>10, <1>11, <1>12 DEF WorldInv

LEMMA WorldStep == WorldInv /\ [Next]_vars => WorldInv'
  <1> SUFFICES ASSUME WorldInv, [Next]_vars PROVE WorldInv'
    OBVIOUS
  <1>1. ASSUME NEW k \in Players, NEW to \in Cells,
               Order([id |-> 0, kind |-> "move", sender |-> k, from |-> to, to |-> to])
        PROVE  WorldInv'
    <2>1. PICK o : o = [id |-> 0, kind |-> "move", sender |-> k, from |-> to, to |-> to]
      OBVIOUS
    <2>2. k \in Critters
      BY DEF Players
    <2>3. o \in [id : {0}, kind : {"move", "flare", "teleport", "nova"}, sender : Critters,
                 from : Cells, to : Cells]
      BY <2>1, <2>2
    <2> QED
      BY <1>1, <2>1, <2>3, OrderStep
  <1>2. ASSUME NEW k \in Players, NEW kind \in Kinds, NEW from \in Cells, NEW to \in Cells,
               Order([id |-> 0, kind |-> kind, sender |-> k, from |-> from, to |-> to])
        PROVE  WorldInv'
    <2>1. PICK o : o = [id |-> 0, kind |-> kind, sender |-> k, from |-> from, to |-> to]
      OBVIOUS
    <2>2. k \in Critters /\ kind \in {"move", "flare", "teleport", "nova"}
      BY WorldAssumption DEF Players
    <2>3. o \in [id : {0}, kind : {"move", "flare", "teleport", "nova"}, sender : Critters,
                 from : Cells, to : Cells]
      BY <2>1, <2>2
    <2> QED
      BY <1>2, <2>1, <2>3, OrderStep
  <1>3. CASE Join
    BY <1>3, JoinStep
  <1>4. CASE Frame
    BY <1>4, FrameStep
  <1>5. CASE UNCHANGED vars
    BY <1>5 DEF vars, WorldInv, OrdersDone, Pending
  <1> QED
    BY <1>1, <1>2, <1>3, <1>4, <1>5 DEF Next

\* In every state of the game: orders run only after those of the previous turn
\* have been taken by both replicas, each replica is sound by itself, no two spells of the server
\* share a key, and the spells of a client that has joined take the course of the server's.
THEOREM Sound == Spec => []WorldInv
  <1> QED
    BY WorldInit, WorldStep, PTL DEF Spec

LEMMA SpellSetIn ==
    ASSUME NEW g, NEW n, Replica(g, n)
    PROVE  SpellSet(g) = SpellsIn(g.spells)
  <1>1. Range(Entries(g.spells)) = Held(g.spells)
    BY TableCounts DEF Replica, Stocked
  <1> QED
    BY <1>1, Zenon DEF SpellSet, SpellsIn

LEMMA ReplicaTyped ==
    ASSUME NEW g, NEW n \in 0 .. MaxOrders, Replica(g, n)
    PROVE  Game(g)
  <1>1. Table!Good(g.spells) /\ n \in Nat /\ n <= MaxOrders /\ MaxOrders \in Nat
    BY ConstantTypes DEF Replica, Stocked, Constants
  <1>2. /\ Range(Entries(g.spells)) = Held(g.spells)
        /\ g.spells.free = Cardinality(EmptySlots(g.spells))
    BY <1>1, TableCounts
  <1>3. Held(g.spells) \subseteq [key : 1 .. MaxOrders, elem : Spell]
    BY <1>1, TableShape DEF Item, Ids
  <1>4. g.dealt \in [Ids \X Critters -> Nat]
    <2>1. PICK d : d = g.dealt
      OBVIOUS
    <2>2. d \in [Ids \X Critters -> {0, 1}]
      BY <2>1 DEF Replica, Dealing
    <2>3. d \in [Ids \X Critters -> Nat]
      BY <2>2
    <2> QED
      BY <2>1, <2>3
  <1>5. g.uid \in 1 .. MaxOrders + 1
    BY <1>1 DEF Replica
  <1>6. g.critter \in [Critters -> Critter] /\ g.seed \in Seeds
    BY DEF Replica, Going
  <1> QED
    BY <1>2, <1>3, <1>4, <1>5, <1>6 DEF Game

\* On any map, with any number of critters, walkers, orders and kinds of
\* spells, and any hash function: critters, spells and the table of the spells
\* of both replicas keep their types, and the free slots are counted, although
\* slots are freed inside the loop over them.
THEOREM TypeCorrect == Spec => []TypeOK
  <1>1. WorldInv => TypeOK
    <2> SUFFICES ASSUME WorldInv PROVE TypeOK
      OBVIOUS
    <2>1. PICK n : n = OrdersDone
      OBVIOUS
    <2>2. n \in 0 .. MaxOrders
      <3>1. Len(orders) \in Nat /\ issued \in 0 .. MaxOrders /\ issued - Len(orders) \in Nat
        <4>1. orders \in Seq(OrderType) /\ OrdersDone \in Nat /\ issued \in 0 .. MaxOrders
          BY DEF WorldInv, Pending
        <4>2. Len(orders) \in Nat
          BY <4>1
        <4> QED
          BY <4>1, <4>2 DEF OrdersDone
      <3> QED
        BY <2>1, <3>1, ConstantTypes DEF OrdersDone, Constants
    <2>3. \A r \in Replicas : Game(game[r])
      <3> TAKE r \in Replicas
      <3>1. Replica(game[r], n)
        BY <2>1 DEF WorldInv
      <3> QED
        BY <2>2, <3>1, ReplicaTyped
    <2>4. DOMAIN game = Replicas
      BY DEF WorldInv
    <2> QED
      BY <2>3, <2>4 DEF TypeOK, WorldInv
  <1> QED
    BY <1>1, Sound, PTL

\* No flare hurts a critter twice, and no nova does, or hurts its caster, in the
\* frames before its last one; the same on a client, in whatever frame it joins:
\* whom a spell may still hurt it has not hurt yet.  It says nothing of the last
\* frame of a nova, which has been freed by then and may hit anybody (Stray).
THEOREM NoSpellStrikesTwice == Spec => []StrikesOnce
  <1>1. WorldInv => StrikesOnce
    <2> SUFFICES ASSUME WorldInv PROVE StrikesOnce
      OBVIOUS
    <2>1. PICK n : n = OrdersDone
      OBVIOUS
    <2>2. DOMAIN game = Replicas
      BY DEF WorldInv
    <2>3. ASSUME NEW r \in Replicas
          PROVE  /\ \A p \in Ids \X Critters : game[r].dealt[p] <= 1
                 /\ \A s \in SpellSet(game[r]) :
                        s.kind = "nova" => game[r].dealt[<<s.id, s.caster>>] = 0
      <3>1. PICK g, d : g = game[r] /\ d = g.dealt
        OBVIOUS
      <3>2. Replica(g, n)
        BY <2>1, <3>1 DEF WorldInv
      <3>3. d \in [Ids \X Critters -> {0, 1}]
        BY <3>1, <3>2 DEF Replica, Dealing
      <3>4. \A p \in Ids \X Critters : d[p] <= 1
        <4> TAKE p \in Ids \X Critters
        <4>1. d[p] \in {0, 1}
          BY <3>3
        <4> QED
          BY <4>1
      <3>5. \A s \in SpellSet(g) : s.kind = "nova" => d[<<s.id, s.caster>>] = 0
        <4> TAKE s \in SpellSet(g)
        <4> HAVE s.kind = "nova"
        <4>1. PICK e \in Held(g.spells) : s = e.elem
          BY <3>2, SpellSetIn DEF SpellsIn
        <4>2. e \in Item
          BY <3>2, TableShape DEF Replica, Stocked
        <4>3. s \in Spell /\ Spares(s, d)
          BY <3>1, <3>2, <4>1, <4>2 DEF Replica, Item
        <4> QED
          BY <4>3 DEF Spares, Spell
      <3> QED
        BY <3>1, <3>4, <3>5
    <2> QED
      BY <2>2, <2>3 DEF StrikesOnce
  <1> QED
    BY <1>1, Sound, PTL

\* The spells of a client that has joined are those of the server, each in the
\* same place and with as long to go: the slots they have, the keys the client
\* gives and the damage that is left to chance do not change where they go.
THEOREM ClientSeesTheSpells == Spec => []SameSpells
  <1>1. WorldInv => SameSpells
    <2> SUFFICES ASSUME WorldInv, joined
                 PROVE  {Course(s) : s \in SpellSet(game["server"])}
                          = {Course(s) : s \in SpellSet(game["client"])}
      BY DEF SameSpells
    <2>1. PICK n : n = OrdersDone
      OBVIOUS
    <2>2. Replica(game["server"], n) /\ Replica(game["client"], n)
      BY <2>1 DEF WorldInv, Replicas
    <2>3. /\ SpellSet(game["server"]) = SpellsIn(game["server"].spells)
          /\ SpellSet(game["client"]) = SpellsIn(game["client"].spells)
      BY <2>2, SpellSetIn
    <2>4. Courses(game["server"].spells) = Courses(game["client"].spells)
      BY DEF WorldInv
    <2> QED
      BY <2>3, <2>4, Zenon DEF Courses
  <1> QED
    BY <1>1, Sound, PTL

-----------------------------------------------------------------------------
(* Two replicas side by side.                                              *)

\* Two critters that do the same from now on: where the one looks matters while it walks.
Twins(c, d) ==
    /\ c.hp = d.hp /\ c.at = d.at /\ c.goal = d.goal
    /\ c.running = d.running /\ c.velocity = d.velocity
    /\ c.hp > 0 /\ c.velocity = 1 => c.face = d.face

Alike(c, d) == \A k \in Critters : Twins(c[k], d[k])

LEMMA WalkTwins ==
    ASSUME NEW c \in Critter, NEW d \in Critter, Twins(c, d), NEW goal \in Cells
    PROVE  Twins(Walk(c, goal), Walk(d, goal))
  <1>1. PICK v, w : v = Walk(c, goal) /\ w = Walk(d, goal)
    OBVIOUS
  <1>2. v.at = c.at /\ v.face = c.face /\ v.velocity = c.velocity /\ v.hp = c.hp /\ v.goal = goal
        /\ v.running = TRUE
    BY <1>1 DEF Walk, Critter
  <1>3. w.at = d.at /\ w.face = d.face /\ w.velocity = d.velocity /\ w.hp = d.hp /\ w.goal = goal
        /\ w.running = TRUE
    BY <1>1 DEF Walk, Critter
  <1> QED
    BY <1>1, <1>2, <1>3 DEF Twins

LEMMA SetAlike ==
    ASSUME NEW c \in [Critters -> Critter], NEW d \in [Critters -> Critter], Alike(c, d),
           NEW k \in Critters, NEW x, NEW y, Twins(x, y)
    PROVE  Alike(SetAt(c, k, x), SetAt(d, k, y))
  <1> SUFFICES ASSUME NEW j \in Critters
               PROVE  Twins(SetAt(c, k, x)[j], SetAt(d, k, y)[j])
    BY DEF Alike
  <1>1. CASE j = k
    BY <1>1 DEF SetAt
  <1>2. CASE j # k
    <2>1. SetAt(c, k, x)[j] = c[j] /\ SetAt(d, k, y)[j] = d[j]
      BY <1>2 DEF SetAt
    <2> QED
      BY <2>1 DEF Alike
  <1> QED
    BY <1>1, <1>2

\* The critters of both games are alike, and the random numbers to come are the same.
Even(g, h) == Alike(g.critter, h.critter) /\ g.seed = h.seed

Walking(g) == IsSim(g) /\ g.critter \in [Critters -> Critter]

LEMMA ReplicaWalking ==
    ASSUME NEW g, NEW n, Replica(g, n)
    PROVE  Walking(g)
  BY DEF Replica, Going, Walking

LEMMA ObeyEven ==
    ASSUME NEW g, NEW h, Walking(g), Walking(h), Even(g, h), NEW o \in OrderType
    PROVE  Even(Obey(g, o), Obey(h, o))
  <1>1. PICK c, d, v, w : c = g.critter /\ d = h.critter /\ v = Obey(g, o) /\ w = Obey(h, o)
    OBVIOUS
  <1>2. /\ IsSim(g) /\ IsSim(h) /\ c \in [Critters -> Critter] /\ d \in [Critters -> Critter]
        /\ Alike(c, d) /\ g.seed = h.seed
    BY <1>1 DEF Walking, Even
  <1>3. Obeyed(v, g, o) /\ Obeyed(w, h, o)
    BY <1>1, <1>2, ObeyEffect
  <1>4. CASE o.kind = "move"
    <2>1. PICK k, e : k = o.sender /\ e = o.to
      OBVIOUS
    <2>2. k \in Critters /\ e \in Cells
      BY <2>1 DEF OrderType
    <2>3. PICK x, y : x = Walk(c[k], e) /\ y = Walk(d[k], e)
      OBVIOUS
    <2>4. /\ v = Sim(SetAt(c, k, x), g.spells, g.uid, g.seed, g.dealt)
          /\ w = Sim(SetAt(d, k, y), h.spells, h.uid, h.seed, h.dealt)
      BY <1>1, <1>3, <1>4, <2>1, <2>3, Zenon DEF Obeyed
    <2>5. Twins(x, y)
      <3>1. Twins(c[k], d[k]) /\ c[k] \in Critter /\ d[k] \in Critter
        BY <1>2, <2>2 DEF Alike
      <3> QED
        BY <2>2, <2>3, <3>1, WalkTwins
    <2>6. PICK a, b : a = SetAt(c, k, x) /\ b = SetAt(d, k, y)
      OBVIOUS
    <2>7. Alike(a, b)
      BY <1>2, <2>2, <2>5, <2>6, SetAlike
    <2>8. v.critter = a /\ w.critter = b /\ v.seed = g.seed /\ w.seed = h.seed
      BY <2>4, <2>6, SimFields
    <2> QED
      BY <1>1, <1>2, <2>7, <2>8 DEF Even
  <1>5. CASE o.kind # "move"
    <2>1. PICK a, b, i, j : /\ a = Insert(g.spells, [key |-> g.uid, elem |-> CreatedBy(o)])
                            /\ b = Insert(h.spells, [key |-> h.uid, elem |-> CreatedBy(o)])
                            /\ i = g.uid + 1 /\ j = h.uid + 1
      OBVIOUS
    <2>2. v = Sim(c, a, i, g.seed, g.dealt) /\ w = Sim(d, b, j, h.seed, h.dealt)
      BY <1>1, <1>3, <1>5, <2>1, Zenon DEF Obeyed
    <2>3. v.critter = c /\ w.critter = d /\ v.seed = g.seed /\ w.seed = h.seed
      BY <2>2, SimFields
    <2> QED
      BY <1>1, <1>2, <2>3 DEF Even
  <1> QED
    BY <1>4, <1>5

LEMMA CommandedEven ==
    ASSUME NEW g, NEW h, NEW n, Pending(n), Replica(g, n), Replica(h, n), Even(g, h)
    PROVE  Even(Commanded(g), Commanded(h))
  <1>1. PICK N \in Nat : N = Len(orders)
    BY DEF Pending
  <1>2. PICK e : CommandedRuns(g, e)
    <2>1. CommandedRun(g)
      BY <1>1, CommandedLoop
    <2> QED
      BY <2>1, Zenon DEF CommandedRun
  <1>3. PICK f : CommandedRuns(h, f)
    <2>1. CommandedRun(h)
      BY <1>1, CommandedLoop
    <2> QED
      BY <2>1, Zenon DEF CommandedRun
  <1>4. e[0] = g /\ Commanded(g) = e[N] /\ \A k \in 1 .. N : e[k] = Obey(e[k - 1], orders[k])
    BY <1>1, <1>2, Zenon DEF CommandedRuns
  <1>5. f[0] = h /\ Commanded(h) = f[N] /\ \A k \in 1 .. N : f[k] = Obey(f[k - 1], orders[k])
    BY <1>1, <1>3, Zenon DEF CommandedRuns
  <1>6. n \in Nat /\ \A k \in 1 .. N : orders[k] \in OrderType /\ orders[k].id = n + k
    BY <1>1 DEF Pending
  <1> DEFINE D == {k \in 0 .. N : Replica(e[k], n + k) /\ Replica(f[k], n + k) /\ Even(e[k], f[k])}
  <1>7. 0 \in D
    <2>1. 0 \in 0 .. N /\ n + 0 = n
      BY <1>6
    <2> QED
      BY <1>4, <1>5, <2>1
  <1>8. ASSUME NEW k \in 0 .. N - 1, k \in D PROVE k + 1 \in D
    <2>1. PICK u, v, x, y, o : /\ u = e[k] /\ v = e[k + 1] /\ x = f[k] /\ y = f[k + 1]
                               /\ o = orders[k + 1]
      OBVIOUS
    <2>2. Replica(u, n + k) /\ Replica(x, n + k) /\ Even(u, x)
      BY <1>8, <2>1
    <2>3. k + 1 \in 1 .. N /\ (k + 1) - 1 = k /\ n + k \in Nat /\ n + (k + 1) = (n + k) + 1
          /\ k + 1 \in 0 .. N
      BY <1>6
    <2>4. v = Obey(u, o) /\ y = Obey(x, o) /\ o \in OrderType /\ o.id = (n + k) + 1
      BY <1>4, <1>5, <1>6, <2>1, <2>3
    <2>5. Replica(v, (n + k) + 1) /\ Replica(y, (n + k) + 1)
      BY <2>2, <2>3, <2>4, ObeyKeeps
    <2>6. Even(v, y)
      BY <2>2, <2>4, ReplicaWalking, ObeyEven
    <2> QED
      BY <2>1, <2>3, <2>5, <2>6
  <1>9. \A k \in 0 .. N - 1 : k \in D => k + 1 \in D
    BY <1>8
  <1> HIDE DEF D
  <1>10. 0 .. N \subseteq D
    BY <1>7, <1>9, BoundedInduction
  <1>11. N \in D
    BY <1>10
  <1> USE DEF D
  <1> QED
    BY <1>4, <1>5, <1>11

-----------------------------------------------------------------------------
(* A frame in which nothing is left to chance.                             *)

\* Whom a spell reaches if it does not end as a nova: it depends on where the critters are only.
Reached(s, c) ==
    IF s.kind = "nova" THEN Ring(s, c, NovaFrames - (s.fade - 1))
    ELSE IF Explodes(s) /\ s.kind = "flare" THEN {k \in Critters : c[k].at = s.at} ELSE {}

SamePlaces(c, d) == \A k \in Critters : c[k].at = d[k].at

LEMMA SameReached ==
    ASSUME NEW s, NEW c, NEW d, SamePlaces(c, d)
    PROVE  Reached(s, c) = Reached(s, d)
  <1>1. ASSUME NEW r PROVE Ring(s, c, r) = Ring(s, d, r)
    <2>1. \A k \in Critters : c[k].at = d[k].at
      BY DEF SamePlaces
    <2>2. PICK X : X = Critters \ (s.hit \union {s.caster})
      OBVIOUS
    <2>3. X \subseteq Critters
      BY <2>2
    <2>4. {k \in X : Distance(Distance(c[k].at, s.at), r) <= 1}
            = {k \in X : Distance(Distance(d[k].at, s.at), r) <= 1}
      BY <2>1, <2>3
    <2> QED
      BY <2>2, <2>4, Zenon DEF Ring
  <1>2. {k \in Critters : c[k].at = s.at} = {k \in Critters : d[k].at = s.at}
    BY DEF SamePlaces
  <1> QED
    BY <1>1, <1>2, Zenon DEF Reached

LEMMA VictimsReached ==
    ASSUME NEW s, s.kind = "nova" => s.fade # 1, NEW c, NEW d, SamePlaces(c, d), NEW junk
    PROVE  Victims(s, c, junk) = Reached(s, d)
  <1>1. Victims(s, c, junk) = Reached(s, c)
    BY Zenon DEF Victims, Reached, Ends
  <1> QED
    BY <1>1, SameReached

\* What the spells of S do to a critter, in whatever order.
Hits(kind, S, c, k) == {s \in S : s.kind = kind /\ k \in Reached(s, c)}

Harm(S, c, k) == Cardinality(Hits("flare", S, c, k)) + 3 * Cardinality(Hits("nova", S, c, k))

Lands(s) == Explodes(s) /\ s.kind = "teleport"

Landing(S, k) == {s \in S : Lands(s) /\ s.caster = k}

Landed(S, k, at) == IF Landing(S, k) = {} THEN at ELSE (CHOOSE s \in Landing(S, k) : TRUE).at

After(c, S, k) ==
    [hp |-> c[k].hp - Harm(S, c, k), at |-> Landed(S, k, c[k].at), goal |-> c[k].goal,
     running |-> c[k].running, velocity |-> c[k].velocity, face |-> c[k].face]

Still(S) == \A r \in S : ~Lands(r)

\* The critters b are what the spells of S have made of c.
LeftBy(b, c, S) == \A m \in Critters : b[m] = After(c, S, m)

\* No nova ends, and a spell that moves a critter is the only one.
Calm(S) == \A s \in S : (s.kind = "nova" => s.fade # 1) /\ (Lands(s) => S = {s})

LEMMA HitsFinite ==
    ASSUME NEW S, IsFiniteSet(S), NEW kind, NEW c, NEW k, NEW H, H = Hits(kind, S, c, k)
    PROVE  IsFiniteSet(H) /\ Cardinality(H) \in Nat
  <1>1. H \subseteq S
    BY DEF Hits
  <1> QED
    BY <1>1, FS_Subset, FS_CardinalityType

LEMMA HarmIsNat ==
    ASSUME NEW S, IsFiniteSet(S), NEW c, NEW k
    PROVE  Harm(S, c, k) \in Nat
  <1>1. PICK F, N : F = Cardinality(Hits("flare", S, c, k)) /\ N = Cardinality(Hits("nova", S, c, k))
    OBVIOUS
  <1>2. F \in Nat /\ N \in Nat
    BY <1>1, HitsFinite
  <1>3. Harm(S, c, k) = F + 3 * N
    BY <1>1, Zenon DEF Harm
  <1> QED
    BY <1>2, <1>3

LEMMA HitsAdded ==
    ASSUME NEW S, IsFiniteSet(S), NEW s, s \notin S, NEW kind, NEW c, NEW k,
           NEW x, x = Cardinality(Hits(kind, S, c, k)),
           NEW y, y = Cardinality(Hits(kind, S \union {s}, c, k))
    PROVE  y = IF s.kind = kind /\ k \in Reached(s, c) THEN x + 1 ELSE x
  <1>1. PICK H : H = Hits(kind, S, c, k)
    OBVIOUS
  <1>2. IsFiniteSet(H) /\ s \notin H
    <2>1. IsFiniteSet(H)
      BY <1>1, HitsFinite
    <2>2. s \notin H
      BY <1>1 DEF Hits
    <2> QED
      BY <2>1, <2>2
  <1>3. CASE s.kind = kind /\ k \in Reached(s, c)
    <2>1. Hits(kind, S \union {s}, c, k) = H \union {s}
      BY <1>1, <1>3 DEF Hits
    <2>2. Cardinality(H \union {s}) = Cardinality(H) + 1
      BY <1>2, FS_AddElement
    <2> QED
      BY <1>1, <1>3, <2>1, <2>2, Zenon
  <1>4. CASE ~(s.kind = kind /\ k \in Reached(s, c))
    <2>1. Hits(kind, S \union {s}, c, k) = H
      BY <1>1, <1>4 DEF Hits
    <2> QED
      BY <1>1, <1>4, <2>1, Zenon
  <1> QED
    BY <1>3, <1>4

LEMMA HarmAdded ==
    ASSUME NEW S, IsFiniteSet(S), NEW s \in Spell, s \notin S, NEW c, NEW k
    PROVE  Harm(S \union {s}, c, k)
             = Harm(S, c, k) + IF k \in Reached(s, c) THEN Power(s) ELSE 0
  <1>1. PICK F, N, G, M : /\ F = Cardinality(Hits("flare", S, c, k))
                          /\ N = Cardinality(Hits("nova", S, c, k))
                          /\ G = Cardinality(Hits("flare", S \union {s}, c, k))
                          /\ M = Cardinality(Hits("nova", S \union {s}, c, k))
    OBVIOUS
  <1>2. F \in Nat /\ N \in Nat
    BY <1>1, HitsFinite
  <1>3. Harm(S, c, k) = F + 3 * N /\ Harm(S \union {s}, c, k) = G + 3 * M
    BY <1>1, Zenon DEF Harm
  <1>4. /\ G = IF s.kind = "flare" /\ k \in Reached(s, c) THEN F + 1 ELSE F
        /\ M = IF s.kind = "nova" /\ k \in Reached(s, c) THEN N + 1 ELSE N
    BY <1>1, HitsAdded
  <1>5. s.kind \in {"flare", "nova"} \/ Reached(s, c) = {}
    BY DEF Spell, Kind, Reached
  <1>6. Power(s) = IF s.kind = "nova" THEN 3 ELSE 1
    BY DEF Power
  <1>7. CASE k \notin Reached(s, c)
    BY <1>2, <1>3, <1>4, <1>7
  <1>8. CASE k \in Reached(s, c) /\ s.kind = "flare"
    BY <1>2, <1>3, <1>4, <1>6, <1>8
  <1>9. CASE k \in Reached(s, c) /\ s.kind = "nova"
    BY <1>2, <1>3, <1>4, <1>6, <1>9
  <1> QED
    BY <1>5, <1>7, <1>8, <1>9

LEMMA NobodyLands ==
    ASSUME NEW S, Still(S), NEW k, NEW at
    PROVE  Landed(S, k, at) = at
  <1>1. Landing(S, k) = {}
    BY DEF Landing, Still
  <1> QED
    BY <1>1 DEF Landed

\* The spell s works after those of S have.
LEMMA WorksAfter ==
    ASSUME NEW c \in [Critters -> Critter], NEW S, IsFiniteSet(S), NEW s \in Spell, s \notin S,
           Still(S), ~Lands(s) \/ S = {},
           NEW b \in [Critters -> Critter], LeftBy(b, c, S),
           NEW V, V = Reached(s, c),
           NEW d, d = Carried(Hurt(b, V, Power(s)), s), NEW k \in Critters
    PROVE  d[k] = After(c, S \union {s}, k)
  <1>1. PICK a, f : a = Hurt(b, V, Power(s)) /\ f = Power(s)
    OBVIOUS
  <1>2. f \in Int
    BY <1>1 DEF Power
  <1>3. a = [j \in Critters |-> IF j \in V THEN [b[j] EXCEPT !.hp = @ - f] ELSE b[j]]
    BY <1>1, Zenon DEF Hurt
  <1>4. PICK H, T, x : H = Harm(S, c, k) /\ T = S \union {s} /\ x = Landed(T, k, c[k].at)
    OBVIOUS
  <1>5. H \in Nat /\ Harm(T, c, k) = H + (IF k \in V THEN f ELSE 0)
    <2>1. H \in Nat
      BY <1>4, HarmIsNat
    <2>2. Harm(S \union {s}, c, k) = Harm(S, c, k) + IF k \in Reached(s, c) THEN Power(s) ELSE 0
      BY HarmAdded
    <2> QED
      BY <1>1, <1>4, <2>1, <2>2
  <1>6. b[k] = [hp |-> c[k].hp - H, at |-> c[k].at, goal |-> c[k].goal,
                running |-> c[k].running, velocity |-> c[k].velocity, face |-> c[k].face]
    <2>1. b[k] = After(c, S, k)
      BY DEF LeftBy
    <2>2. Landed(S, k, c[k].at) = c[k].at
      BY NobodyLands
    <2> QED
      BY <1>4, <2>1, <2>2, Zenon DEF After
  <1>7. c[k].hp \in Int
    BY DEF Critter
  <1>8. a[k] = [hp |-> c[k].hp - Harm(T, c, k), at |-> c[k].at, goal |-> c[k].goal,
                running |-> c[k].running, velocity |-> c[k].velocity, face |-> c[k].face]
    <2>1. CASE k \in V
      <3>1. a[k] = [b[k] EXCEPT !.hp = @ - f]
        BY <1>3, <2>1
      <3>2. c[k].hp - Harm(T, c, k) = (c[k].hp - H) - f
        BY <1>2, <1>5, <1>7, <2>1
      <3> QED
        BY <1>6, <3>1, <3>2
    <2>2. CASE k \notin V
      <3>1. a[k] = b[k]
        BY <1>3, <2>2
      <3>2. c[k].hp - Harm(T, c, k) = c[k].hp - H
        BY <1>5, <1>7, <2>2
      <3> QED
        BY <1>6, <3>1, <3>2
    <2> QED
      BY <2>1, <2>2
  <1>9. After(c, T, k) = [hp |-> c[k].hp - Harm(T, c, k), at |-> x, goal |-> c[k].goal,
                          running |-> c[k].running, velocity |-> c[k].velocity, face |-> c[k].face]
    BY <1>4, Zenon DEF After
  <1>10. CASE ~Lands(s)
    <2>1. d = a
      BY <1>1, <1>10, Zenon DEF Carried, Lands
    <2>2. Still(T)
      BY <1>4, <1>10 DEF Still
    <2>3. x = c[k].at
      BY <1>4, <2>2, NobodyLands, Zenon
    <2> QED
      BY <1>4, <1>8, <1>9, <2>1, <2>3
  <1>11. CASE Lands(s)
    <2>1. T = {s}
      BY <1>4, <1>11
    <2>2. PICK j : j = s.caster
      OBVIOUS
    <2>3. j \in Critters
      BY <2>2 DEF Spell
    <2>4. d = SetAt(a, j, [a[j] EXCEPT !.at = s.at])
      BY <1>1, <1>11, <2>2, Zenon DEF Carried, Lands
    <2>5. CASE k = j
      <3>1. Landing(T, k) = {s}
        BY <1>11, <2>1, <2>2, <2>5 DEF Landing
      <3>2. x = s.at
        BY <1>4, <3>1 DEF Landed
      <3>3. d[k] = [a[k] EXCEPT !.at = s.at]
        BY <1>3, <2>3, <2>4, <2>5 DEF SetAt
      <3> QED
        BY <1>4, <1>8, <1>9, <3>2, <3>3
    <2>6. CASE k # j
      <3>1. Landing(T, k) = {}
        BY <2>1, <2>2, <2>6 DEF Landing
      <3>2. x = c[k].at
        BY <1>4, <3>1, Zenon DEF Landed
      <3>3. d[k] = a[k]
        BY <1>3, <2>3, <2>4, <2>6 DEF SetAt
      <3> QED
        BY <1>4, <1>8, <1>9, <3>2, <3>3
    <2> QED
      BY <2>5, <2>6
  <1> QED
    BY <1>10, <1>11

\* The spells in the first k slots.
Behind(t, k) == {t.at[j].elem : j \in {i \in 0 .. k - 1 : t.at[i] # Empty}}

LEMMA BehindAll ==
    ASSUME NEW t
    PROVE  Behind(t, t.size) = SpellsIn(t)
  <1>1. PICK N, a : N = t.size /\ a = t.at
    OBVIOUS
  <1>2. SpellsIn(t) = {e.elem : e \in {a[h] : h \in 0 .. N - 1} \ {Empty}}
    BY <1>1, Zenon DEF SpellsIn, Held
  <1>3. Behind(t, t.size) = {a[j].elem : j \in {i \in 0 .. N - 1 : a[i] # Empty}}
    BY <1>1, Zenon DEF Behind
  <1> QED
    BY <1>2, <1>3

LEMMA BehindNext ==
    ASSUME NEW t, NEW k \in Nat, NEW x, x = t.at[k]
    PROVE  Behind(t, k + 1) = IF x = Empty THEN Behind(t, k) ELSE Behind(t, k) \union {x.elem}
  <1>1. PICK a, I : a = t.at /\ I = {i \in 0 .. k - 1 : t.at[i] # Empty}
    OBVIOUS
  <1>2. Behind(t, k) = {a[j].elem : j \in I}
    BY <1>1, Zenon DEF Behind
  <1>3. CASE x = Empty
    <2>1. {i \in 0 .. (k + 1) - 1 : t.at[i] # Empty} = I
      <3>1. \A i : i \in 0 .. (k + 1) - 1 <=> i \in 0 .. k - 1 \/ i = k
        OBVIOUS
      <3> QED
        BY <1>1, <1>3, <3>1
    <2> QED
      BY <1>1, <1>2, <1>3, <2>1, Zenon DEF Behind
  <1>4. CASE x # Empty
    <2>1. {i \in 0 .. (k + 1) - 1 : t.at[i] # Empty} = I \union {k}
      BY <1>1, <1>4
    <2>2. Behind(t, k + 1) = {a[j].elem : j \in I \union {k}}
      BY <1>1, <2>1, Zenon DEF Behind
    <2>3. x = a[k]
      BY <1>1
    <2> QED
      BY <1>2, <1>4, <2>2, <2>3
  <1> QED
    BY <1>3, <1>4

LEMMA BehindFinite ==
    ASSUME NEW t, NEW k \in Nat
    PROVE  IsFiniteSet(Behind(t, k))
  <1> DEFINE D == {i \in 0 .. k : IsFiniteSet(Behind(t, i))}
  <1>1. 0 \in D
    <2>1. Behind(t, 0) = {}
      BY DEF Behind
    <2> QED
      BY <2>1, FS_EmptySet
  <1>2. ASSUME NEW i \in 0 .. k - 1, i \in D PROVE i + 1 \in D
    <2>1. PICK x, S, T : x = t.at[i] /\ S = Behind(t, i) /\ T = Behind(t, i + 1)
      OBVIOUS
    <2>2. i \in Nat /\ i + 1 \in 0 .. k /\ IsFiniteSet(S)
      BY <1>2, <2>1
    <2>3. T = IF x = Empty THEN S ELSE S \union {x.elem}
      BY <2>1, <2>2, BehindNext
    <2>4. IsFiniteSet(S \union {x.elem})
      BY <2>2, FS_AddElement
    <2>5. IsFiniteSet(T)
      BY <2>2, <2>3, <2>4
    <2> QED
      BY <2>1, <2>2, <2>5
  <1>3. \A i \in 0 .. k - 1 : i \in D => i + 1 \in D
    BY <1>2
  <1> HIDE DEF D
  <1>4. 0 .. k \subseteq D
    BY <1>1, <1>3, BoundedInduction
  <1>5. k \in D
    BY <1>4
  <1> USE DEF D
  <1> QED
    BY <1>5

\* A spell is in one slot only.
LEMMA BehindNew ==
    ASSUME NEW t, Table!Good(t), Distinct(t), NEW k \in 0 .. t.size - 1, NEW x, x = t.at[k], x # Empty
    PROVE  /\ x.elem \in Spell /\ x.elem \in SpellsIn(t)
           /\ x.elem \notin Behind(t, k)
           /\ Behind(t, k) \subseteq SpellsIn(t) /\ IsFiniteSet(Behind(t, k))
  <1>1. PICK N, a : N = t.size /\ a = t.at
    OBVIOUS
  <1>2. /\ N \in Nat /\ a \in [0 .. N - 1 -> Item \union {Empty}] /\ k \in 0 .. N - 1
        /\ \A g, h \in 0 .. N - 1 : a[g] = a[h] /\ a[g] # Empty => g = h
    BY <1>1, TableShape
  <1>3. \A j \in 0 .. N - 1 : a[j] # Empty => a[j] \in Held(t)
    BY <1>1 DEF Held
  <1>4. x \in Item /\ x \in Held(t)
    BY <1>1, <1>2, <1>3
  <1>5. x.elem \in Spell /\ x.elem \in SpellsIn(t)
    BY <1>4, Zenon DEF SpellsIn, Item
  <1>6. PICK I : I = {i \in 0 .. k - 1 : a[i] # Empty}
    OBVIOUS
  <1>7. Behind(t, k) = {a[j].elem : j \in I}
    BY <1>1, <1>6, Zenon DEF Behind
  <1>8. \A j \in I : j \in 0 .. N - 1 /\ j # k /\ a[j] # Empty
    BY <1>2, <1>6
  <1>9. x.elem \notin Behind(t, k)
    <2>1. SUFFICES ASSUME NEW j \in I, x.elem = a[j].elem PROVE FALSE
      BY <1>7
    <2>2. a[j] \in Held(t) /\ j # k /\ j \in 0 .. N - 1
      BY <1>3, <1>8
    <2>3. a[j].elem.id = x.elem.id
      BY <2>1
    <2>4. x = a[j]
      BY <1>4, <2>2, <2>3 DEF Distinct
    <2> QED
      BY <1>1, <1>2, <2>2, <2>4
  <1>10. Behind(t, k) \subseteq SpellsIn(t)
    <2>1. SUFFICES ASSUME NEW j \in I PROVE a[j].elem \in SpellsIn(t)
      BY <1>7
    <2>2. a[j] \in Held(t)
      BY <1>3, <1>8
    <2> QED
      BY <2>2, Zenon DEF SpellsIn
  <1>11. IsFiniteSet(Behind(t, k))
    BY <1>2, BehindFinite
  <1> QED
    BY <1>5, <1>9, <1>10, <1>11

\* The loop over the slots has passed k slots of the game g, and got to f: the critters are as the spells
\* behind have left them, and what these reached was decided when the frame began.
Worn(f, g, k) ==
    /\ LeftBy(f.critter, g.critter, Behind(g.spells, k))
    /\ \A j \in 0 .. g.spells.size - 1 :
           j < k /\ g.spells.at[j] # Empty
               => f.spells.at[j] = Aged(g.spells.at[j], Reached(g.spells.at[j].elem, g.critter))

LEMMA WornBegins ==
    ASSUME NEW g, g.spells.size \in Nat, g.critter \in [Critters -> Critter]
    PROVE  Worn(g, g, 0)
  <1>1. PICK c : c = g.critter
    OBVIOUS
  <1>2. Behind(g.spells, 0) = {}
    BY DEF Behind
  <1>3. ASSUME NEW m \in Critters PROVE c[m] = After(c, {}, m)
    <2>1. Harm({}, c, m) = 0
      <3>1. Hits("flare", {}, c, m) = {} /\ Hits("nova", {}, c, m) = {}
        BY DEF Hits
      <3>2. Cardinality(Hits("flare", {}, c, m)) = 0 /\ Cardinality(Hits("nova", {}, c, m)) = 0
        BY <3>1, FS_EmptySet, Zenon
      <3> QED
        BY <3>2 DEF Harm
    <2>2. Landed({}, m, c[m].at) = c[m].at
      BY NobodyLands DEF Still
    <2>3. c[m] \in Critter
      BY <1>1
    <2> QED
      BY <2>1, <2>2, <2>3 DEF After, Critter
  <1>4. \A j \in 0 .. g.spells.size - 1 : ~(j < 0)
    OBVIOUS
  <1> QED
    BY <1>1, <1>2, <1>3, <1>4 DEF Worn, LeftBy

\* In a calm frame positions are those of its beginning until all spells have worked.
LEMMA PlacesKept ==
    ASSUME NEW c, NEW S, Still(S), NEW b, LeftBy(b, c, S)
    PROVE  SamePlaces(b, c)
  <1> SUFFICES ASSUME NEW m \in Critters PROVE b[m].at = c[m].at
    BY DEF SamePlaces
  <1>1. PICK x : x = Landed(S, m, c[m].at)
    OBVIOUS
  <1>2. b[m] = [hp |-> c[m].hp - Harm(S, c, m), at |-> x, goal |-> c[m].goal,
                running |-> c[m].running, velocity |-> c[m].velocity, face |-> c[m].face]
    BY <1>1, Zenon DEF After, LeftBy
  <1>3. x = c[m].at
    BY <1>1, NobodyLands
  <1> QED
    BY <1>2, <1>3

LEMMA TickSpellWorn ==
    ASSUME NEW g, NEW n \in Nat, Replica(g, n), Calm(SpellsIn(g.spells)),
           NEW u, NEW k \in 0 .. g.spells.size - 1, Passed(u, g, n, k), Worn(u, g, k),
           NEW junk, NEW v, v = TickSpell(u, k, junk)
    PROVE  Worn(v, g, k + 1)
  <1>1. PICK N, a, b, c, x, S : /\ N = g.spells.size /\ a = g.spells.at /\ b = u.spells.at
                                /\ c = g.critter /\ x = a[k] /\ S = Behind(g.spells, k)
    OBVIOUS
  <1>2. Table!Good(g.spells) /\ Distinct(g.spells) /\ c \in [Critters -> Critter]
    BY <1>1 DEF Replica, Stocked, Distinct, Going
  <1>3. N \in Nat /\ k \in Nat /\ k \in 0 .. N - 1 /\ k \in 0 .. u.spells.size - 1
    <2>1. N \in Nat
      BY <1>1, <1>2, TableShape
    <2> QED
      BY <1>1, <2>1 DEF Passed
  <1>4. /\ Replica(u, n) /\ u.spells.at[k] = x
        /\ u.critter \in [Critters -> Critter]
    <2>1. u.spells.at[k] = x
      BY <1>1, <1>3 DEF Passed
    <2> QED
      BY <2>1 DEF Passed, Replica, Going
  <1>5. /\ LeftBy(u.critter, c, S)
        /\ \A j \in 0 .. N - 1 : j < k /\ a[j] # Empty => b[j] = Aged(a[j], Reached(a[j].elem, c))
    BY <1>1, Zenon DEF Worn
  <1>6. \A j \in 0 .. N - 1 : j < k + 1 <=> j < k \/ j = k
    BY <1>3
  <1>7. CASE x = Empty
    <2>1. v = u
      BY <1>4, <1>7 DEF TickSpell
    <2>2. Behind(g.spells, k + 1) = S
      BY <1>1, <1>3, <1>7, BehindNext
    <2> QED
      BY <1>1, <1>5, <1>6, <1>7, <2>1, <2>2, Zenon DEF Worn
  <1>8. CASE x # Empty
    <2>1. PICK s, V : s = x.elem /\ V = Victims(s, u.critter, junk)
      OBVIOUS
    <2>2. SpellTicked(v, u, n, k, x, V)
      BY <1>3, <1>4, <1>8, <2>1, TickSpellKeeps, Zenon
    <2>3. s \in Spell /\ s \in SpellsIn(g.spells) /\ s \notin S /\ S \subseteq SpellsIn(g.spells)
          /\ IsFiniteSet(S)
      BY <1>1, <1>2, <1>3, <1>8, <2>1, BehindNew
    <2>4. s.kind = "nova" => s.fade # 1
      BY <2>3 DEF Calm
    <2>5. Still(S)
      BY <2>3 DEF Calm, Still
    <2>6. ~Lands(s) \/ S = {}
      BY <2>3 DEF Calm
    <2>7. V = Reached(s, c)
      <3>1. SamePlaces(u.critter, c)
        BY <1>5, <2>5, PlacesKept
      <3> QED
        BY <2>1, <2>4, <3>1, VictimsReached
    <2>8. v.critter = Carried(Hurt(u.critter, V, Power(s)), s)
      <3>1. PICK d, t, i, z, r : /\ d = Carried(Hurt(u.critter, V, Power(s)), s)
                                 /\ t = v.spells /\ i = u.uid /\ z = u.seed
                                 /\ r = Recorded(u.dealt, s.id, Counted(s, V))
        OBVIOUS
      <3>2. v = Sim(d, t, i, z, r)
        BY <2>1, <2>2, <3>1, Zenon DEF SpellTicked
      <3> QED
        BY <3>1, <3>2, SimFields
    <2>9. PICK T : T = S \union {s}
      OBVIOUS
    <2>10. ASSUME NEW m \in Critters PROVE v.critter[m] = After(c, T, m)
      <3>1. PICK d, p : d = v.critter /\ p = u.critter
        OBVIOUS
      <3>2. d = Carried(Hurt(p, V, Power(s)), s)
        BY <2>8, <3>1, Zenon
      <3>3. p \in [Critters -> Critter] /\ LeftBy(p, c, S)
        BY <1>4, <1>5, <3>1, Zenon
      <3>4. d[m] = After(c, S \union {s}, m)
        <4>1. c \in [Critters -> Critter] /\ s \in Spell /\ s \notin S /\ IsFiniteSet(S)
          BY <1>2, <2>3
        <4> QED
          BY <2>5, <2>6, <2>7, <3>2, <3>3, <4>1, WorksAfter
      <3> QED
        BY <2>9, <3>1, <3>4
    <2>11. Behind(g.spells, k + 1) = T
      BY <1>1, <1>3, <1>8, <2>1, <2>9, BehindNext
    <2>12. PICK y, e : y = Aged(x, V) /\ e = v.spells.at
      OBVIOUS
    <2>13. e[k] = y /\ \A j \in 0 .. N - 1 : j # k => e[j] = b[j]
      <3>1. SlotHolds(v.spells, u.spells, k, y)
        BY <2>2, <2>12, Zenon DEF SpellTicked
      <3>2. e = [b EXCEPT ![k] = y]
        BY <1>1, <2>12, <3>1 DEF SlotHolds, SetAt
      <3>3. b \in [0 .. N - 1 -> Item \union {Empty}]
        <4>1. Table!Good(u.spells) /\ u.spells.size = N
          BY <1>1, <1>4 DEF Replica, Stocked, Passed
        <4> QED
          BY <1>1, <4>1, TableShape
      <3> QED
        BY <1>3, <3>2, <3>3
    <2>14. ASSUME NEW j \in 0 .. N - 1, j < k + 1, a[j] # Empty
           PROVE  e[j] = Aged(a[j], Reached(a[j].elem, c))
      <3>1. CASE j = k
        BY <1>1, <2>1, <2>7, <2>12, <2>13, <3>1, Zenon
      <3>2. CASE j # k
        BY <1>5, <1>6, <2>13, <2>14, <3>2, Zenon
      <3> QED
        BY <3>1, <3>2
    <2> QED
      BY <1>1, <2>10, <2>11, <2>12, <2>14, Zenon DEF Worn, LeftBy
  <1> QED
    BY <1>7, <1>8

WornAll(g, f) == \A k \in 0 .. g.spells.size : Worn(f[k], g, k)

LEMMA TickedWorn ==
    ASSUME NEW g, NEW n \in Nat, Replica(g, n), Calm(SpellsIn(g.spells)), NEW junk,
           NEW f, TickedRuns(g, junk, f)
    PROVE  WornAll(g, f)
  <1>1. PICK N : N = g.spells.size
    OBVIOUS
  <1>2. N \in Nat /\ g.critter \in [Critters -> Critter]
    <2>1. Table!Good(g.spells) /\ g.critter \in [Critters -> Critter]
      BY DEF Replica, Stocked, Going
    <2> QED
      BY <1>1, <2>1, TableShape
  <1>3. f[0] = g /\ \A k \in 1 .. N : f[k] = TickSpell(f[k - 1], k - 1, junk)
    BY <1>1, Zenon DEF TickedRuns
  <1>4. \A k \in 0 .. N : Passed(f[k], g, n, k)
    BY <1>1, TickedPasses, Zenon DEF PassedAll
  <1> DEFINE D == {k \in 0 .. N : Worn(f[k], g, k)}
  <1>5. 0 \in D
    <2>1. Worn(g, g, 0)
      BY <1>1, <1>2, WornBegins
    <2> QED
      BY <1>2, <1>3, <2>1
  <1>6. ASSUME NEW k \in 0 .. N - 1, k \in D PROVE k + 1 \in D
    <2>1. PICK u, v : u = f[k] /\ v = f[k + 1]
      OBVIOUS
    <2>2. k + 1 \in 1 .. N /\ (k + 1) - 1 = k /\ k + 1 \in 0 .. N /\ k \in 0 .. N
      BY <1>2
    <2>3. v = TickSpell(u, k, junk) /\ Passed(u, g, n, k) /\ Worn(u, g, k)
      BY <1>3, <1>4, <1>6, <2>1, <2>2
    <2>4. Worn(v, g, k + 1)
      BY <1>1, <2>3, TickSpellWorn
    <2> QED
      BY <2>1, <2>2, <2>4
  <1>7. \A k \in 0 .. N - 1 : k \in D => k + 1 \in D
    BY <1>6
  <1> HIDE DEF D
  <1>8. 0 .. N \subseteq D
    BY <1>2, <1>5, <1>7, BoundedInduction
  <1> USE DEF D
  <1> QED
    BY <1>1, <1>8 DEF WornAll

\* The spells of S a frame later, when the critters were c.
Aging(S, c) == {Older(s, Reached(s, c)) : s \in {r \in S : ~Ends(r)}}

LEMMA WornSpells ==
    ASSUME NEW g, NEW n, Replica(g, n), NEW f, Passed(f, g, n, g.spells.size),
           Worn(f, g, g.spells.size)
    PROVE  SpellsIn(f.spells) = Aging(SpellsIn(g.spells), g.critter)
  <1>1. PICK N, a, b, c : /\ N = g.spells.size /\ a = g.spells.at /\ b = f.spells.at
                          /\ c = g.critter
    OBVIOUS
  <1>2. N \in Nat /\ a \in [0 .. N - 1 -> Item \union {Empty}]
    <2>1. Table!Good(g.spells)
      BY DEF Replica, Stocked
    <2> QED
      BY <1>1, <2>1, TableShape
  <1>3. \A j \in 0 .. N - 1 : IF a[j] = Empty THEN b[j] = Empty
                              ELSE b[j] = Aged(a[j], Reached(a[j].elem, c))
    <2> TAKE j \in 0 .. N - 1
    <2>1. j < N
      BY <1>2
    <2>2. CASE a[j] = Empty
      <3>1. Became(b[j], a[j])
        BY <1>1, <2>1 DEF Passed
      <3> QED
        BY <2>2, <3>1, Zenon DEF Became
    <2>3. CASE a[j] # Empty
      BY <1>1, <2>1, <2>3, Zenon DEF Worn
    <2> QED
      BY <2>2, <2>3
  <1>4. Held(g.spells) = {a[j] : j \in 0 .. N - 1} \ {Empty}
    BY <1>1 DEF Held
  <1>5. Held(f.spells) = {b[j] : j \in 0 .. N - 1} \ {Empty}
    BY <1>1 DEF Held, Passed
  <1>6. ASSUME NEW j \in 0 .. N - 1, a[j] # Empty
        PROVE  /\ b[j] # Empty <=> ~Ends(a[j].elem)
               /\ b[j] # Empty => b[j].elem = Older(a[j].elem, Reached(a[j].elem, c))
    <2>1. PICK x, y, V : x = a[j] /\ y = b[j] /\ V = Reached(x.elem, c)
      OBVIOUS
    <2>2. x \in Item /\ y = Aged(x, V)
      BY <1>2, <1>3, <1>6, <2>1
    <2>3. Group(V)
      BY <2>1 DEF Reached, Ring, Group
    <2>4. Ends(x.elem) => y = Empty
      BY <2>2, Zenon DEF Aged
    <2>5. ~Ends(x.elem) => y # Empty /\ y.elem = Older(x.elem, V)
      BY <2>2, <2>3, AgedItem, Zenon DEF Grown
    <2> QED
      BY <2>1, <2>4, <2>5, Zenon
  <1>7. ASSUME NEW o \in SpellsIn(f.spells) PROVE o \in Aging(SpellsIn(g.spells), c)
    <2>1. PICK e \in Held(f.spells) : o = e.elem
      BY Zenon DEF SpellsIn
    <2>2. PICK j \in 0 .. N - 1 : e = b[j] /\ e # Empty
      BY <1>5, <2>1
    <2>3. a[j] # Empty
      BY <1>3, <2>2
    <2>4. PICK x, s : x = a[j] /\ s = x.elem
      OBVIOUS
    <2>5. x \in Held(g.spells)
      BY <1>4, <2>3, <2>4
    <2>6. s \in SpellsIn(g.spells)
      BY <2>4, <2>5, Zenon DEF SpellsIn
    <2>7. ~Ends(s) /\ o = Older(s, Reached(s, c))
      BY <1>6, <2>1, <2>2, <2>3, <2>4, Zenon
    <2> QED
      BY <2>6, <2>7, Zenon DEF Aging
  <1>8. ASSUME NEW o \in Aging(SpellsIn(g.spells), c) PROVE o \in SpellsIn(f.spells)
    <2>1. PICK s \in SpellsIn(g.spells) : ~Ends(s) /\ o = Older(s, Reached(s, c))
      BY DEF Aging
    <2>2. PICK x \in Held(g.spells) : s = x.elem
      BY <2>1, Zenon DEF SpellsIn
    <2>3. PICK j \in 0 .. N - 1 : x = a[j] /\ x # Empty
      BY <1>4, <2>2
    <2>4. PICK y : y = b[j]
      OBVIOUS
    <2>5. y # Empty /\ o = y.elem
      BY <1>6, <2>1, <2>2, <2>3, <2>4, Zenon
    <2>6. y \in Held(f.spells)
      BY <1>5, <2>4, <2>5
    <2> QED
      BY <2>5, <2>6, Zenon DEF SpellsIn
  <1>9. SpellsIn(f.spells) = Aging(SpellsIn(g.spells), c)
    BY <1>7, <1>8
  <1> QED
    BY <1>1, <1>9

\* What a calm frame makes of the spells and the critters, in whatever slots the spells are.
CalmlyTicked(h, g) ==
    /\ SpellsIn(h.spells) = Aging(SpellsIn(g.spells), g.critter)
    /\ \A k \in Critters : h.critter[k] = After(g.critter, SpellsIn(g.spells), k)
    /\ h.seed = g.seed

LEMMA CalmTick ==
    ASSUME NEW g, NEW n \in Nat, Replica(g, n), Calm(SpellsIn(g.spells)), NEW junk,
           NEW h, h = SpellsTicked(g, junk)
    PROVE  CalmlyTicked(h, g) /\ Replica(h, n) /\ IsFiniteSet(SpellsIn(g.spells))
  <1>1. PICK N : N = g.spells.size
    OBVIOUS
  <1>2. N \in Nat /\ Table!Good(g.spells)
    <2>1. Table!Good(g.spells)
      BY DEF Replica, Stocked
    <2> QED
      BY <1>1, <2>1, TableShape
  <1>3. PICK f : TickedRuns(g, junk, f)
    <2>1. TickedRun(g, junk)
      BY <1>1, <1>2, TickedLoop
    <2> QED
      BY <2>1, Zenon DEF TickedRun
  <1>4. h = f[N]
    BY <1>1, <1>3, Zenon DEF TickedRuns
  <1>5. Passed(h, g, n, N) /\ Worn(h, g, N)
    <2>1. PassedAll(g, n, f) /\ WornAll(g, f)
      BY <1>3, TickedPasses, TickedWorn
    <2>2. N \in 0 .. N
      BY <1>2
    <2> QED
      BY <1>1, <1>4, <2>1, <2>2, Zenon DEF PassedAll, WornAll
  <1>6. SpellsIn(h.spells) = Aging(SpellsIn(g.spells), g.critter)
    BY <1>1, <1>5, WornSpells
  <1>7. Behind(g.spells, N) = SpellsIn(g.spells)
    BY <1>1, BehindAll
  <1>8. \A k \in Critters : h.critter[k] = After(g.critter, SpellsIn(g.spells), k)
    BY <1>5, <1>7, Zenon DEF Worn, LeftBy
  <1>9. h.seed = g.seed /\ Replica(h, n)
    BY <1>5 DEF Passed
  <1>10. IsFiniteSet(SpellsIn(g.spells))
    BY <1>2, <1>7, BehindFinite
  <1> QED
    BY <1>6, <1>8, <1>9, <1>10 DEF CalmlyTicked

LEMMA SameHarm ==
    ASSUME NEW S, NEW c, NEW d, SamePlaces(c, d), NEW k
    PROVE  Harm(S, c, k) = Harm(S, d, k)
  <1>1. ASSUME NEW kind PROVE Hits(kind, S, c, k) = Hits(kind, S, d, k)
    <2>1. \A s \in S : Reached(s, c) = Reached(s, d)
      BY SameReached
    <2> QED
      BY <2>1 DEF Hits
  <1>2. Hits("flare", S, c, k) = Hits("flare", S, d, k) /\ Hits("nova", S, c, k) = Hits("nova", S, d, k)
    BY <1>1
  <1> QED
    BY <1>2, Zenon DEF Harm

LEMMA AfterTwins ==
    ASSUME NEW c \in [Critters -> Critter], NEW d \in [Critters -> Critter], Alike(c, d),
           NEW S, IsFiniteSet(S), NEW k \in Critters
    PROVE  Twins(After(c, S, k), After(d, S, k))
  <1>1. Twins(c[k], d[k]) /\ SamePlaces(c, d)
    BY DEF Alike, Twins, SamePlaces
  <1>2. PICK H, x, v, w : /\ H = Harm(S, c, k) /\ x = Landed(S, k, c[k].at)
                          /\ v = After(c, S, k) /\ w = After(d, S, k)
    OBVIOUS
  <1>3. H \in Nat /\ H = Harm(S, d, k)
    BY <1>1, <1>2, HarmIsNat, SameHarm
  <1>4. x = Landed(S, k, d[k].at)
    BY <1>1, <1>2 DEF Twins
  <1>5. v = [hp |-> c[k].hp - H, at |-> x, goal |-> c[k].goal,
             running |-> c[k].running, velocity |-> c[k].velocity, face |-> c[k].face]
    BY <1>2, Zenon DEF After
  <1>6. w = [hp |-> d[k].hp - H, at |-> x, goal |-> d[k].goal,
             running |-> d[k].running, velocity |-> d[k].velocity, face |-> d[k].face]
    BY <1>2, <1>3, <1>4, Zenon DEF After
  <1>7. c[k].hp \in Int
    BY DEF Critter
  <1>8. v.hp > 0 => c[k].hp > 0
    BY <1>3, <1>5, <1>7
  <1>9. /\ v.hp = w.hp /\ v.at = w.at /\ v.goal = w.goal /\ v.running = w.running
        /\ v.velocity = w.velocity
    BY <1>1, <1>5, <1>6 DEF Twins
  <1>10. v.hp > 0 /\ v.velocity = 1 => v.face = w.face
    BY <1>1, <1>5, <1>6, <1>8 DEF Twins
  <1> QED
    BY <1>2, <1>9, <1>10 DEF Twins

\* The same spells in other slots do the same to the same critters.
LEMMA SpellsTickedEven ==
    ASSUME NEW g, NEW h, NEW n \in Nat, Replica(g, n), Replica(h, n), Even(g, h),
           SpellsIn(g.spells) = SpellsIn(h.spells), Calm(SpellsIn(g.spells)), NEW i, NEW j,
           NEW v, v = SpellsTicked(g, i), NEW w, w = SpellsTicked(h, j)
    PROVE  Even(v, w) /\ SpellsIn(v.spells) = SpellsIn(w.spells)
  <1>1. PICK S, c, d : S = SpellsIn(g.spells) /\ c = g.critter /\ d = h.critter
    OBVIOUS
  <1>2. Calm(SpellsIn(h.spells))
    BY Zenon
  <1>3. CalmlyTicked(v, g) /\ CalmlyTicked(w, h) /\ IsFiniteSet(S)
    BY <1>1, <1>2, CalmTick
  <1>4. c \in [Critters -> Critter] /\ d \in [Critters -> Critter] /\ Alike(c, d) /\ g.seed = h.seed
    BY <1>1 DEF Replica, Going, Even
  <1>5. Alike(v.critter, w.critter)
    <2> SUFFICES ASSUME NEW k \in Critters PROVE Twins(v.critter[k], w.critter[k])
      BY DEF Alike
    <2>1. v.critter[k] = After(c, S, k) /\ w.critter[k] = After(d, S, k)
      BY <1>1, <1>3, Zenon DEF CalmlyTicked
    <2>2. Twins(After(c, S, k), After(d, S, k))
      BY <1>3, <1>4, AfterTwins
    <2> QED
      BY <2>1, <2>2
  <1>6. Aging(S, c) = Aging(S, d)
    <2>1. SamePlaces(c, d)
      BY <1>4 DEF Alike, Twins, SamePlaces
    <2>2. \A s \in S : Reached(s, c) = Reached(s, d)
      BY <2>1, SameReached
    <2>3. PICK R : R = {r \in S : ~Ends(r)}
      OBVIOUS
    <2>4. \A s \in R : Older(s, Reached(s, c)) = Older(s, Reached(s, d))
      BY <2>2, <2>3
    <2> QED
      BY <2>3, <2>4 DEF Aging
  <1>7. SpellsIn(v.spells) = Aging(S, c) /\ SpellsIn(w.spells) = Aging(S, d)
    BY <1>1, <1>3, Zenon DEF CalmlyTicked
  <1>8. v.seed = w.seed
    BY <1>3, <1>4 DEF CalmlyTicked
  <1> QED
    BY <1>5, <1>6, <1>7, <1>8 DEF Even

\* A critter that walks looks where it goes.
Heading(c) == c.hp > 0 /\ c.velocity = 1 => c.face = Toward(c.at, c.goal)

LEMMA StepHeading ==
    ASSUME NEW c \in Critter, NEW d, d = Step(c)
    PROVE  Heading(d)
  <1>1. PICK x : x = c.at + c.face * c.velocity
    OBVIOUS
  <1>2. CASE c.hp <= 0
    BY <1>2 DEF Step, Heading, Critter
  <1>3. CASE ~(c.hp <= 0) /\ c.running
    <2>1. d = [c EXCEPT !.at = x, !.face = Toward(x, c.goal), !.running = ~(x = c.goal),
                        !.velocity = IF x = c.goal THEN 0 ELSE 1]
      BY <1>1, <1>3 DEF Step
    <2>2. d.at = x /\ d.face = Toward(x, c.goal) /\ d.goal = c.goal
      BY <2>1 DEF Critter
    <2> QED
      BY <2>2 DEF Heading
  <1>4. CASE ~(c.hp <= 0) /\ ~c.running
    <2>1. d = [c EXCEPT !.at = x, !.velocity = 0]
      BY <1>1, <1>4 DEF Step
    <2>2. d.velocity = 0
      BY <2>1 DEF Critter
    <2> QED
      BY <2>2 DEF Heading
  <1> QED
    BY <1>2, <1>3, <1>4

LEMMA StepTwins ==
    ASSUME NEW c \in Critter, NEW d \in Critter, Twins(c, d)
    PROVE  Twins(Step(c), Step(d))
  <1>1. PICK v, w, x, y : /\ v = Step(c) /\ w = Step(d)
                          /\ x = c.at + c.face * c.velocity /\ y = d.at + d.face * d.velocity
    OBVIOUS
  <1>2. /\ c.hp = d.hp /\ c.at = d.at /\ c.goal = d.goal /\ c.running = d.running
        /\ c.velocity = d.velocity
        /\ c.hp > 0 /\ c.velocity = 1 => c.face = d.face
    BY DEF Twins
  <1>3. c.hp \in Int /\ c.at \in Int /\ c.face \in Int /\ d.face \in Int /\ c.velocity \in {0, 1}
    BY ConstantTypes DEF Critter, Constants
  <1>4. CASE c.hp <= 0
    <2>1. v = c /\ w = d
      BY <1>1, <1>2, <1>4 DEF Step
    <2> QED
      BY <1>1, <2>1
  <1>5. ASSUME ~(c.hp <= 0) PROVE x = y
    <2>1. CASE c.velocity = 1
      <3>1. c.face = d.face
        BY <1>2, <1>3, <1>5, <2>1
      <3> QED
        BY <1>1, <1>2, <3>1
    <2>2. CASE c.velocity = 0
      <3>1. c.face * c.velocity = 0 /\ d.face * d.velocity = 0
        BY <1>2, <1>3, <2>2
      <3> QED
        BY <1>1, <1>2, <3>1
    <2> QED
      BY <1>3, <2>1, <2>2
  <1>6. CASE ~(c.hp <= 0) /\ c.running
    <2>1. PICK f, r, z : f = Toward(x, c.goal) /\ r = ~(x = c.goal) /\ z = IF x = c.goal THEN 0 ELSE 1
      OBVIOUS
    <2>2. /\ v = [c EXCEPT !.at = x, !.face = f, !.running = r, !.velocity = z]
          /\ w = [d EXCEPT !.at = x, !.face = f, !.running = r, !.velocity = z]
      BY <1>1, <1>2, <1>5, <1>6, <2>1 DEF Step
    <2>3. v.hp = c.hp /\ v.at = x /\ v.goal = c.goal /\ v.running = r /\ v.velocity = z /\ v.face = f
      BY <2>2 DEF Critter
    <2>4. w.hp = d.hp /\ w.at = x /\ w.goal = d.goal /\ w.running = r /\ w.velocity = z /\ w.face = f
      BY <2>2 DEF Critter
    <2> QED
      BY <1>1, <1>2, <2>3, <2>4 DEF Twins
  <1>7. CASE ~(c.hp <= 0) /\ ~c.running
    <2>1. v = [c EXCEPT !.at = x, !.velocity = 0] /\ w = [d EXCEPT !.at = x, !.velocity = 0]
      BY <1>1, <1>2, <1>5, <1>7 DEF Step
    <2>2. v.hp = c.hp /\ v.at = x /\ v.goal = c.goal /\ v.running = c.running /\ v.velocity = 0
      BY <2>1 DEF Critter
    <2>3. w.hp = d.hp /\ w.at = x /\ w.goal = d.goal /\ w.running = d.running /\ w.velocity = 0
      BY <2>1 DEF Critter
    <2> QED
      BY <1>1, <1>2, <2>2, <2>3 DEF Twins
  <1> QED
    BY <1>4, <1>6, <1>7

LEMMA LedTwins ==
    ASSUME NEW c \in Critter, NEW d \in Critter, Twins(c, d), NEW k, NEW s \in Seeds,
           NEW v, v = Led(c, k, s), NEW w, w = Led(d, k, s)
    PROVE  v \in Critter /\ w \in Critter /\ Twins(v, w) /\ Drawn(c, k, s) = Drawn(d, k, s)
  <1>1. PICK goal : goal = s % (LastCell + 1)
    OBVIOUS
  <1>2. goal \in Cells
    BY <1>1, ConstantTypes DEF Constants, Cells, Seeds
  <1>3. Starts(c, k) <=> Starts(d, k)
    BY DEF Twins, Starts
  <1>4. Drawn(c, k, s) = Drawn(d, k, s)
    BY <1>3 DEF Drawn
  <1>5. CASE Starts(c, k)
    <2>1. v = Walk(c, goal) /\ w = Walk(d, goal)
      BY <1>1, <1>3, <1>5 DEF Led
    <2>2. v \in Critter /\ w \in Critter
      BY <1>2, <2>1, WalkFields
    <2>3. Twins(v, w)
      BY <1>2, <2>1, WalkTwins
    <2> QED
      BY <1>4, <2>2, <2>3
  <1>6. CASE ~Starts(c, k)
    <2>1. v = c /\ w = d
      BY <1>3, <1>6 DEF Led
    <2> QED
      BY <1>4, <2>1
  <1> QED
    BY <1>5, <1>6

\* The critters up to k look where they go.
HeadingTo(g, k) == \A j \in Critters : j <= k => Heading(g.critter[j])

LEMMA TickCritterEven ==
    ASSUME NEW g, NEW h, NEW n, Replica(g, n), Replica(h, n), Even(g, h),
           NEW k \in Critters, NEW v, v = TickCritter(g, k), NEW w, w = TickCritter(h, k)
    PROVE  Even(v, w)
  <1>1. PICK c, d, s, x, y, q, r : /\ c = g.critter /\ d = h.critter /\ s = g.seed
                                   /\ x = Step(Led(c[k], k, s)) /\ y = Step(Led(d[k], k, s))
                                   /\ q = Drawn(c[k], k, s) /\ r = Drawn(d[k], k, s)
    OBVIOUS
  <1>2. /\ c \in [Critters -> Critter] /\ d \in [Critters -> Critter] /\ Alike(c, d)
        /\ IsSim(g) /\ IsSim(h) /\ s \in Seeds /\ h.seed = s
    BY <1>1 DEF Replica, Going, Even
  <1>3. CritterTicked(v, g, k) /\ CritterTicked(w, h, k)
    BY <1>1, <1>2, TickCritterEffect
  <1>4. PICK a, b : a = SetAt(c, k, x) /\ b = SetAt(d, k, y)
    OBVIOUS
  <1>5. v = Sim(a, g.spells, g.uid, q, g.dealt) /\ w = Sim(b, h.spells, h.uid, r, h.dealt)
    BY <1>1, <1>2, <1>3, <1>4, Zenon DEF CritterTicked
  <1>6. Twins(x, y) /\ q = r
    <2>1. PICK e, f : e = Led(c[k], k, s) /\ f = Led(d[k], k, s)
      OBVIOUS
    <2>2. c[k] \in Critter /\ d[k] \in Critter /\ Twins(c[k], d[k])
      BY <1>2 DEF Alike
    <2>3. e \in Critter /\ f \in Critter /\ Twins(e, f) /\ q = r
      BY <1>1, <1>2, <2>1, <2>2, LedTwins
    <2> QED
      BY <1>1, <2>1, <2>3, StepTwins
  <1>7. Alike(a, b)
    BY <1>2, <1>4, <1>6, SetAlike
  <1>8. v.critter = a /\ w.critter = b /\ v.seed = q /\ w.seed = r
    BY <1>5, SimFields
  <1> QED
    BY <1>6, <1>7, <1>8 DEF Even

LEMMA CrittersTickedEven ==
    ASSUME NEW g, NEW h, NEW n \in Nat, Replica(g, n), Replica(h, n), Even(g, h)
    PROVE  Even(CrittersTicked(g), CrittersTicked(h))
  <1>1. PICK N \in Nat : N = NumCritters
    BY CritterIds
  <1>2. PICK e : WalkedRuns(g, e)
    BY WalkedLoop, Zenon DEF WalkedRun
  <1>3. PICK f : WalkedRuns(h, f)
    BY WalkedLoop, Zenon DEF WalkedRun
  <1>4. e[0] = g /\ CrittersTicked(g) = e[N] /\ \A k \in 1 .. N : e[k] = TickCritter(e[k - 1], k)
    BY <1>1, <1>2, Zenon DEF WalkedRuns
  <1>5. f[0] = h /\ CrittersTicked(h) = f[N] /\ \A k \in 1 .. N : f[k] = TickCritter(f[k - 1], k)
    BY <1>1, <1>3, Zenon DEF WalkedRuns
  <1>6. \A k \in 0 .. N : Replica(e[k], n) /\ Replica(f[k], n)
    <2>1. StrolledAll(g, n, e) /\ StrolledAll(h, n, f)
      BY <1>2, <1>3, WalkedStrolls
    <2> QED
      BY <1>1, <2>1 DEF StrolledAll, Strolled
  <1> DEFINE D == {k \in 0 .. N : Even(e[k], f[k])}
  <1>7. 0 \in D
    BY <1>4, <1>5
  <1>8. ASSUME NEW k \in 0 .. N - 1, k \in D PROVE k + 1 \in D
    <2>1. PICK u, v, x, y : u = e[k] /\ v = e[k + 1] /\ x = f[k] /\ y = f[k + 1]
      OBVIOUS
    <2>2. k + 1 \in 1 .. N /\ (k + 1) - 1 = k /\ k + 1 \in 0 .. N /\ k \in 0 .. N
      OBVIOUS
    <2>3. /\ v = TickCritter(u, k + 1) /\ y = TickCritter(x, k + 1)
          /\ Replica(u, n) /\ Replica(x, n) /\ Even(u, x)
      BY <1>4, <1>5, <1>6, <1>8, <2>1, <2>2
    <2>4. k + 1 \in Critters
      BY <1>1, <2>2, CritterIds
    <2>5. Even(v, y)
      BY <2>3, <2>4, TickCritterEven
    <2> QED
      BY <2>1, <2>2, <2>5
  <1>9. \A k \in 0 .. N - 1 : k \in D => k + 1 \in D
    BY <1>8
  <1> HIDE DEF D
  <1>10. 0 .. N \subseteq D
    BY <1>7, <1>9, BoundedInduction
  <1>11. N \in D
    BY <1>10
  <1> USE DEF D
  <1> QED
    BY <1>4, <1>5, <1>11

LEMMA TickCritterHeading ==
    ASSUME NEW g, NEW n, Replica(g, n), NEW k \in 0 .. NumCritters - 1, HeadingTo(g, k),
           NEW v, v = TickCritter(g, k + 1)
    PROVE  HeadingTo(v, k + 1)
  <1>1. PICK c, i, s, e, x, q, a : /\ c = g.critter /\ i = k + 1 /\ s = g.seed
                                   /\ e = Led(c[i], i, s) /\ x = Step(e) /\ q = Drawn(c[i], i, s)
                                   /\ a = SetAt(c, i, x)
    OBVIOUS
  <1>2. i \in Critters
    BY <1>1, CritterIds
  <1>3. c \in [Critters -> Critter] /\ IsSim(g) /\ s \in Seeds
    BY <1>1 DEF Replica, Going
  <1>4. CritterTicked(v, g, i)
    BY <1>1, <1>2, <1>3, TickCritterEffect
  <1>5. v = Sim(a, g.spells, g.uid, q, g.dealt)
    BY <1>1, <1>4, Zenon DEF CritterTicked
  <1>6. v.critter = a
    BY <1>5, SimFields
  <1>7. Heading(x)
    <2>1. Near(c[i])
      BY <1>1, <1>2 DEF Replica, Going, Near
    <2>2. Near(e)
      BY <1>1, <1>3, <2>1, LedNear
    <2> QED
      BY <1>1, <2>2, StepHeading DEF Near
  <1>8. ASSUME NEW j \in Critters, j <= k + 1 PROVE Heading(a[j])
    <2>1. CASE j = i
      BY <1>1, <1>2, <1>3, <1>7, <2>1 DEF SetAt
    <2>2. CASE j # i
      <3>1. j <= k
        BY <1>1, <1>8, <2>2, CritterIds
      <3>2. a[j] = c[j]
        BY <1>1, <1>3, <2>2 DEF SetAt
      <3> QED
        BY <1>1, <3>1, <3>2 DEF HeadingTo
    <2> QED
      BY <2>1, <2>2
  <1> QED
    BY <1>6, <1>8 DEF HeadingTo

LEMMA CrittersTickedHeading ==
    ASSUME NEW g, NEW n \in Nat, Replica(g, n), NEW h, h = CrittersTicked(g)
    PROVE  HeadingTo(h, NumCritters)
  <1>1. PICK N \in Nat : N = NumCritters
    BY CritterIds
  <1>2. PICK f : WalkedRuns(g, f)
    BY WalkedLoop, Zenon DEF WalkedRun
  <1>3. f[0] = g /\ h = f[N] /\ \A k \in 1 .. N : f[k] = TickCritter(f[k - 1], k)
    BY <1>1, <1>2, Zenon DEF WalkedRuns
  <1>4. \A k \in 0 .. N : Replica(f[k], n)
    <2>1. StrolledAll(g, n, f)
      BY <1>2, WalkedStrolls
    <2> QED
      BY <1>1, <2>1 DEF StrolledAll, Strolled
  <1> DEFINE D == {k \in 0 .. N : HeadingTo(f[k], k)}
  <1>5. 0 \in D
    <2>1. HeadingTo(g, 0)
      BY CritterIds DEF HeadingTo
    <2> QED
      BY <1>3, <2>1
  <1>6. ASSUME NEW k \in 0 .. N - 1, k \in D PROVE k + 1 \in D
    <2>1. PICK u, v : u = f[k] /\ v = f[k + 1]
      OBVIOUS
    <2>2. k + 1 \in 1 .. N /\ (k + 1) - 1 = k /\ k + 1 \in 0 .. N /\ k \in 0 .. N
      OBVIOUS
    <2>3. v = TickCritter(u, k + 1) /\ Replica(u, n) /\ HeadingTo(u, k)
      BY <1>3, <1>4, <1>6, <2>1, <2>2
    <2>4. HeadingTo(v, k + 1)
      BY <1>1, <2>3, TickCritterHeading
    <2> QED
      BY <2>1, <2>2, <2>4
  <1>7. \A k \in 0 .. N - 1 : k \in D => k + 1 \in D
    BY <1>6
  <1> HIDE DEF D
  <1>8. 0 .. N \subseteq D
    BY <1>5, <1>7, BoundedInduction
  <1>9. N \in D
    BY <1>8
  <1> USE DEF D
  <1> QED
    BY <1>1, <1>3, <1>9

-----------------------------------------------------------------------------
(* The critters of the client.                                             *)

LEMMA CalmFrame ==
    ASSUME NEW g, NEW n, Pending(n), Replica(g, n), ~LeftToChance(g), NEW a, a = Commanded(g)
    PROVE  Calm(SpellsIn(a.spells))
  <1>1. Replica(a, n + Len(orders)) /\ SpellsIn(a.spells) = SpellsIn(g.spells) \union Created(Len(orders))
    BY CommandedKeeps
  <1>2. SpellSet(g) = SpellsIn(g.spells) /\ SpellSet(a) = SpellsIn(a.spells)
    BY <1>1, SpellSetIn
  <1>3. Dying(g) = {}
    BY DEF LeftToChance
  <1>4. ASSUME NEW s \in SpellsIn(g.spells), s.kind = "nova" PROVE s.fade # 1
    <2>1. s.fade = 1 => s.id \in Dying(g)
      BY <1>2, <1>4 DEF Dying
    <2> QED
      BY <1>3, <2>1
  <1>5. ASSUME NEW s \in Created(Len(orders)), s.kind = "nova" PROVE s.fade # 1
    <2>1. PICK i : s = CreatedBy(orders[i])
      BY DEF Created
    <2>2. PICK o : o = orders[i]
      OBVIOUS
    <2>3. s.kind = o.kind /\ s.fade = IF o.kind = "nova" THEN NovaFrames ELSE FadeFrames
      BY <2>1, <2>2 DEF CreatedBy, NewSpell
    <2> QED
      BY <1>5, <2>3, ConstantTypes DEF Constants
  <1>6. PICK S : S = SpellsIn(a.spells)
    OBVIOUS
  <1>7. \A s \in S : s.kind = "teleport" /\ s.at = s.goal /\ ~s.exploded => S = {s}
    BY <1>2, <1>6, Zenon DEF LeftToChance
  <1>8. \A s \in S : Lands(s) => S = {s}
    BY <1>7 DEF Lands, Explodes
  <1> QED
    BY <1>1, <1>4, <1>5, <1>6, <1>8 DEF Calm

\* The critters of both games are alike, and so are their spells, in whatever slots.
Paired(g, h) == Even(g, h) /\ SpellsIn(g.spells) = SpellsIn(h.spells)

LEMMA FramePaired ==
    ASSUME NEW n, Pending(n), NEW g, NEW h, Replica(g, n), Replica(h, n), Paired(g, h),
           ~LeftToChance(g), NEW i, NEW j,
           NEW v, v = GameLogicTick(g, i), NEW w, w = GameLogicTick(h, j)
    PROVE  Paired(v, w)
  <1>1. PICK a, b, m : a = Commanded(g) /\ b = Commanded(h) /\ m = n + Len(orders)
    OBVIOUS
  <1>2. PICK c, d : c = SpellsTicked(a, i) /\ d = SpellsTicked(b, j)
    OBVIOUS
  <1>3. v = CrittersTicked(c) /\ w = CrittersTicked(d) /\ m \in Nat
    BY <1>1, <1>2 DEF GameLogicTick, Pending
  <1>4. /\ Replica(a, m) /\ SpellsIn(a.spells) = SpellsIn(g.spells) \union Created(Len(orders))
        /\ Replica(b, m) /\ SpellsIn(b.spells) = SpellsIn(h.spells) \union Created(Len(orders))
    BY <1>1, CommandedKeeps
  <1>5. Even(a, b) /\ SpellsIn(a.spells) = SpellsIn(b.spells)
    BY <1>1, <1>4, CommandedEven, Zenon DEF Paired
  <1>6. Calm(SpellsIn(a.spells))
    BY <1>1, CalmFrame
  <1>7. Even(c, d) /\ SpellsIn(c.spells) = SpellsIn(d.spells)
    <2>1. Replica(a, m) /\ Replica(b, m) /\ Even(a, b) /\ SpellsIn(a.spells) = SpellsIn(b.spells)
      BY <1>4, <1>5
    <2> HIDE <1>4, <1>5
    <2> QED
      BY <1>2, <1>3, <1>6, <2>1, SpellsTickedEven
  <1>8. Replica(c, m) /\ Replica(d, m)
    BY <1>2, <1>3, <1>4, SpellsTickedKeeps
  <1>9. v.spells = c.spells /\ w.spells = d.spells
    BY <1>3, <1>8, CrittersTickedKeeps
  <1>10. Even(v, w)
    BY <1>3, <1>7, <1>8, CrittersTickedEven
  <1> QED
    BY <1>7, <1>9, <1>10 DEF Paired

LEMMA FrameHeading ==
    ASSUME NEW n, Pending(n), NEW g, Replica(g, n), NEW junk, NEW h, h = GameLogicTick(g, junk)
    PROVE  HeadingTo(h, NumCritters)
  <1>1. PICK a, b, m : a = Commanded(g) /\ b = SpellsTicked(a, junk) /\ m = n + Len(orders)
    OBVIOUS
  <1>2. h = CrittersTicked(b) /\ m \in Nat
    BY <1>1 DEF GameLogicTick, Pending
  <1>3. Replica(a, m)
    BY <1>1, CommandedKeeps
  <1>4. Replica(b, m)
    BY <1>1, <1>2, <1>3, SpellsTickedKeeps
  <1> QED
    BY <1>2, <1>4, CrittersTickedHeading

\* A client that reads the snapshot of a game between two frames has critters that will do the same.
LEMMA RebornPaired ==
    ASSUME NEW g, NEW n \in Nat, Replica(g, n), Keyed(g), HeadingTo(g, NumCritters),
           NEW b, b = Reborn(g)
    PROVE  Paired(g, b)
  <1>1. PICK c, d, t : /\ c = g.critter /\ d = RebornCritters(g)
                       /\ t = Deserialize(NewTable(MinSize), Serialize(g.spells))
    OBVIOUS
  <1>2. b = Sim(d, t, 1, g.seed, g.dealt)
    BY <1>1, RebornEffect, Zenon
  <1>3. b.critter = d /\ b.seed = g.seed
    BY <1>2, SimFields
  <1>4. ASSUME NEW k \in Critters PROVE Twins(c[k], d[k])
    <2>1. c[k] \in Critter /\ k <= NumCritters
      BY <1>1, CritterIds DEF Replica, Going
    <2>2. PICK x, y, f : x = c[k] /\ y = d[k] /\ f = Toward(x.at, x.goal)
      OBVIOUS
    <2>3. y = [x EXCEPT !.face = f]
      BY <1>1, <2>1, <2>2, RebornCritter
    <2>4. Heading(x)
      BY <1>1, <2>1, <2>2 DEF HeadingTo
    <2>5. y.hp = x.hp /\ y.at = x.at /\ y.goal = x.goal /\ y.running = x.running
          /\ y.velocity = x.velocity /\ y.face = f
      BY <2>1, <2>2, <2>3 DEF Critter
    <2> QED
      BY <2>2, <2>4, <2>5 DEF Twins, Heading
  <1>5. Held(b.spells) = Held(g.spells)
    BY RebornRight
  <1>6. SpellsIn(b.spells) = SpellsIn(g.spells)
    BY <1>5, Zenon DEF SpellsIn
  <1> QED
    BY <1>1, <1>3, <1>4, <1>6 DEF Paired, Even, Alike

\* The critters of the server look where they go, as those of a client will that joins next; a client
\* that has joined is the same game as long as nothing was left to chance.
Together ==
    /\ HeadingTo(game["server"], NumCritters)
    /\ joined /\ settled => Paired(game["server"], game["client"])

LEMMA TogetherInit == Init => Together
  <1> SUFFICES ASSUME Init PROVE Together
    OBVIOUS
  <1>1. game["server"] = NewGame /\ joined = FALSE
    BY DEF Init
  <1>2. NewGame.critter = [k \in Critters |-> NewCritter]
    BY DEF NewGame
  <1>3. NewCritter.velocity = 0
    BY DEF NewCritter
  <1> QED
    BY <1>1, <1>2, <1>3 DEF Together, HeadingTo, Heading

LEMMA JoinTogether ==
    ASSUME WorldInv, Together, Join
    PROVE  Together'
  <1>1. PICK n, g, b : n = OrdersDone /\ g = game["server"] /\ b = Reborn(g)
    OBVIOUS
  <1>2. game' = [game EXCEPT !["client"] = b]
    BY <1>1, Zenon DEF Join, Reborn
  <1>3. "server" \in Replicas /\ "client" \in Replicas /\ DOMAIN game = Replicas
    BY DEF WorldInv, Replicas
  <1>4. game'["client"] = b /\ game'["server"] = g
    BY <1>1, <1>2, <1>3
  <1>5. Replica(g, n) /\ Keyed(g) /\ n \in Nat
    BY <1>1, <1>3 DEF WorldInv
  <1>6. HeadingTo(g, NumCritters)
    BY <1>1 DEF Together
  <1>7. Paired(g, b)
    BY <1>1, <1>5, <1>6, RebornPaired
  <1> QED
    BY <1>4, <1>6, <1>7 DEF Together, HeadingTo

LEMMA FrameTogether ==
    ASSUME WorldInv, Together, Frame
    PROVE  Together'
  <1>1. PICK n : n = OrdersDone
    OBVIOUS
  <1>2. PICK junk : game' = [r \in Replicas |-> IF r = "client" /\ ~joined THEN game[r]
                                                ELSE GameLogicTick(game[r], junk[r])]
    BY Zenon DEF Frame, Replicas
  <1>3. joined' = joined /\ (settled' => settled /\ ~LeftToChance(game["server"]))
    BY DEF Frame
  <1>4. "server" \in Replicas /\ "client" \in Replicas
    BY DEF Replicas
  <1>5. Pending(n) /\ Replica(game["server"], n) /\ Replica(game["client"], n)
    BY <1>1, <1>4 DEF WorldInv
  <1>6. PICK g, h, i, j : g = game["server"] /\ h = game["client"] /\ i = junk["server"] /\ j = junk["client"]
    OBVIOUS
  <1>7. game'["server"] = GameLogicTick(g, i) /\ (joined => game'["client"] = GameLogicTick(h, j))
    BY <1>2, <1>4, <1>6
  <1>8. HeadingTo(game'["server"], NumCritters)
    BY <1>5, <1>6, <1>7, FrameHeading
  <1>9. ASSUME joined', settled' PROVE Paired(game'["server"], game'["client"])
    <2>1. Paired(g, h) /\ ~LeftToChance(g)
      BY <1>3, <1>6, <1>9 DEF Together
    <2>2. game'["client"] = GameLogicTick(h, j)
      BY <1>3, <1>7, <1>9
    <2> QED
      BY <1>5, <1>6, <1>7, <2>1, <2>2, FramePaired
  <1> QED
    BY <1>8, <1>9 DEF Together, HeadingTo

LEMMA TogetherStep == WorldInv /\ Together /\ [Next]_vars => Together'
  <1> SUFFICES ASSUME WorldInv, Together, [Next]_vars PROVE Together'
    OBVIOUS
  <1>1. CASE UNCHANGED <<game, joined, settled>>
    BY <1>1 DEF Together, HeadingTo
  <1>2. CASE Join
    BY <1>2, JoinTogether
  <1>3. CASE Frame
    BY <1>3, FrameTogether
  <1> QED
    BY <1>1, <1>2, <1>3 DEF Next, Order, vars

\* A client in whose game nothing was left to chance has the spells of the server, with those they
\* have hit, its random numbers to come, and critters that do the same from now on.
THEOREM StayTogether == Spec => []Together
  <1>1. Init => Together
    BY TogetherInit
  <1>2. WorldInv /\ Together /\ [Next]_vars => Together'
    BY TogetherStep
  <1> QED
    BY <1>1, <1>2, Sound, PTL DEF Spec

\* Server and client agree on every critter and on the random numbers to come until something is left to
\* chance: the slots the spells have on both machines, the order in which they therefore work, and the
\* direction that is not in the snapshot make no difference.
THEOREM ClientSeesTheCritters == Spec => []SameCritters
  <1>1. Together => SameCritters
    <2> SUFFICES ASSUME Together, joined, settled PROVE SameCritters
      BY DEF SameCritters
    <2>1. PICK g, h : g = game["server"] /\ h = game["client"]
      OBVIOUS
    <2>2. Alike(g.critter, h.critter) /\ g.seed = h.seed
      BY <2>1 DEF Together, Paired, Even
    <2>3. \A k \in Critters : LET c == g.critter[k]
                                  d == h.critter[k]
                              IN  /\ c.hp = d.hp /\ c.at = d.at /\ c.goal = d.goal
                                  /\ c.running = d.running /\ c.velocity = d.velocity
      BY <2>2 DEF Alike, Twins
    <2> QED
      BY <2>1, <2>2, <2>3 DEF SameCritters
  <1> QED
    BY <1>1, StayTogether, PTL
=============================================================================
