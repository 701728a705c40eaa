------------------------------- MODULE World -------------------------------
(***************************************************************************)
(* The simulation that server and clients share, run side by side: by the  *)
(* server, which has played all along, and by a client that joined from a  *)
(* snapshot.  Lockstep shows that both execute the same inputs; here it is *)
(* shown what they make of them.                                           *)
(*                                                                         *)
(*   main.c             game_logic_tick, the snapshot callbacks            *)
(*   spells/*.c         flares, novas and teleports                        *)
(*   critters/human.c   the critters; ai.c, which of them walks by itself  *)
(*                                                                         *)
(* The map is a line of cells.  A critter and a missile move one cell in a *)
(* frame; a flare hurts the critters of its cell, a nova is a ring whose   *)
(* radius grows.  Critters are never removed, so that their table is the   *)
(* same everywhere; the table of the spells is not (see IntMapTable).      *)
(***************************************************************************)
EXTENDS IntMapTable, Integers, FiniteSets

CONSTANTS
    LastCell,    \* the cells of the map are 0 .. LastCell
    NumCritters, \* number of critters, at most MAXIMAL_HITS
    Walkers,     \* critters with AI_RUN_AROUND
    Kinds,       \* kinds of spells that are cast
    FadeFrames,  \* frames a missile glows after it has arrived
    NovaFrames,  \* frames of a nova
    NumSeeds,    \* number of states of the random number generator
    MaxOrders    \* bound: orders given by the players

Cells    == 0 .. LastCell
Critters == 1 .. NumCritters
Players  == Critters \ Walkers
Seeds    == 0 .. NumSeeds - 1
Ids      == 1 .. MaxOrders    \* an order is known by its number

ASSUME WorldAssumption ==
    /\ LastCell \in Nat /\ NumCritters \in 1 .. 64 /\ NumSeeds \in Nat \ {0, 1}
    /\ Walkers \subseteq Critters
    /\ Kinds \subseteq {"flare", "teleport", "nova"}
    /\ FadeFrames \in Nat \ {0} /\ NovaFrames \in Nat \ {0, 1}
    /\ MaxOrders \in Nat /\ 1 .. MaxOrders + 1 \subseteq DOMAIN Home

VARIABLES
    game,     \* game[r]: the simulation that the replica r runs
    joined,   \* the client has its snapshot
    orders,   \* commands of the next frame
    issued,   \* number of orders given
    settled,  \* history: nothing has happened that is left to chance
    parity    \* history: of the number of frames, so that every frame is a change

vars == <<game, joined, orders, issued, settled, parity>>

Distance(x, y) == IF x < y THEN y - x ELSE x - y
Toward(x, y)   == IF x < y THEN 1 ELSE IF x > y THEN -1 ELSE 0

-----------------------------------------------------------------------------
(* Critters and the walk of a critter.                                     *)

NewCritter ==
    [hp |-> 3, at |-> 0, goal |-> 0, running |-> FALSE, velocity |-> 0, face |-> 0]

Walk(c, goal) == [c EXCEPT !.running = TRUE, !.goal = goal]

\* ai_run_around draws a goal whenever the critter stands, dead or alive.
RunAround(g, k) ==
    IF k \in Walkers /\ g.critter[k].velocity = 0
    THEN [g EXCEPT !.critter[k] = Walk(@, g.seed % (LastCell + 1)),
                   !.seed = (@ + 1) % NumSeeds]
    ELSE g

Step(c) ==
    IF c.hp <= 0 THEN c
    ELSE LET x == c.at + c.face * c.velocity
             arrived == x = c.goal
         IN  IF c.running
             THEN [c EXCEPT !.at = x, !.face = Toward(x, c.goal), !.running = ~arrived,
                            !.velocity = IF arrived THEN 0 ELSE 1]
             ELSE [c EXCEPT !.at = x, !.velocity = 0]

TickCritter(g, k) ==
    LET h == RunAround(g, k) IN [h EXCEPT !.critter[k] = Step(@)]

-----------------------------------------------------------------------------
(* Spells.  A spell is known by the number of the order that cast it; its  *)
(* key is the spell_uid of the replica.                                    *)

NewSpell(o, fade) ==
    [id |-> o.id, kind |-> o.kind, at |-> o.from, goal |-> o.to, caster |-> o.sender,
     fade |-> fade, exploded |-> FALSE, hit |-> {}]

CreateFlare(o)    == NewSpell(o, FadeFrames)
CreateTeleport(o) == NewSpell(o, FadeFrames)
CreateNova(o)     == NewSpell(o, NovaFrames)

SpellSet(g)      == {e.elem : e \in Range(Entries(g.spells))}
Change(g, h, s) == [g EXCEPT !.spells.at[h].elem = s]
Ended(g, h)     == [g EXCEPT !.spells = FreeSlot(@, h)]

Hurt(critter, victims, hp) ==
    [k \in Critters |-> IF k \in victims THEN [critter[k] EXCEPT !.hp = @ - hp] ELSE critter[k]]

Recorded(dealt, id, victims) ==
    [p \in DOMAIN dealt |-> dealt[p] + IF p[1] = id /\ p[2] \in victims THEN 1 ELSE 0]

Strike(g, s, victims, hp) ==
    [g EXCEPT !.critter = Hurt(@, victims, hp), !.dealt = Recorded(@, s.id, victims)]

\* A flare hurts everybody around it, a teleport brings its caster there.
Explosion(g, s) == Strike(g, s, {k \in Critters : g.critter[k].at = s.at}, 1)
Arrival(g, s)   == [g EXCEPT !.critter[s.caster].at = s.at]

\* (a missile fades only in the frame in which it explodes)
TickMissileForever(g, h, after) ==
    LET s == g.spells.at[h].elem
    IN  IF s.at # s.goal THEN Change(g, h, [s EXCEPT !.at = @ + Toward(s.at, s.goal)])
        ELSE IF s.exploded THEN g
             ELSE Change(after, h, [s EXCEPT !.exploded = TRUE])

\* A missile flies to its goal and glows there until it has faded; after is the
\* game after its explosion.
TickMissile(g, h, after) ==
    LET s == g.spells.at[h].elem
        glowing == [s EXCEPT !.exploded = TRUE, !.fade = @ - 1]
        reached == IF s.exploded THEN g ELSE after
    IN  IF s.at # s.goal THEN Change(g, h, [s EXCEPT !.at = @ + Toward(s.at, s.goal)])
        ELSE IF glowing.fade = 0 THEN Ended(reached, h)
             ELSE Change(reached, h, glowing)

TickFlare(g, h)    == TickMissile(g, h, Explosion(g, g.spells.at[h].elem))
TickTeleport(g, h) == TickMissile(g, h, Arrival(g, g.spells.at[h].elem))

\* Whom a nova reaches: not its caster, and nobody twice.
Ring(s, critter, radius) ==
    {k \in Critters \ (s.hit \union {s.caster}) :
        Distance(Distance(critter[k].at, s.at), radius) <= 1}

\* In its last frame a nova is freed before it looks for victims.  Its place, its
\* radius, its caster and whom it has hit are then what the allocator left
\* there: it hits anybody, its caster and those it has hit before among them.
Stray(g, victims) == [g EXCEPT !.critter = Hurt(@, victims, 3)]

\* (whom the nova has hit is not noted)
TickNovaForgetting(g, h, junk) ==
    LET s == g.spells.at[h].elem
        fade == s.fade - 1
        victims == Ring(s, g.critter, NovaFrames - fade)
    IN  IF fade = 0 THEN Ended(Stray(g, junk[s.id]), h)
        ELSE Change(Strike(g, s, victims, 3), h, [s EXCEPT !.fade = fade])

TickNova(g, h, junk) ==
    LET s == g.spells.at[h].elem
        fade == s.fade - 1
        victims == Ring(s, g.critter, NovaFrames - fade)
    IN  IF fade = 0 THEN Ended(Stray(g, junk[s.id]), h)
        ELSE Change(Strike(g, s, victims, 3), h,
                    [s EXCEPT !.fade = fade, !.hit = @ \union victims])

TickSpell(g, h, junk) ==
    IF g.spells.at[h] = Empty THEN g
    ELSE CASE g.spells.at[h].elem.kind = "nova"     -> TickNova(g, h, junk)
           [] g.spells.at[h].elem.kind = "flare"    -> TickFlare(g, h)
           [] g.spells.at[h].elem.kind = "teleport" -> TickTeleport(g, h)

-----------------------------------------------------------------------------
(* The replicas.                                                           *)

Spawned(g, s) ==
    [g EXCEPT !.spells = Insert(@, [key |-> g.uid, elem |-> s]), !.uid = @ + 1]

Obey(g, o) ==
    CASE o.kind = "move"     -> [g EXCEPT !.critter[o.sender] = Walk(@, o.to)]
      [] o.kind = "flare"    -> Spawned(g, CreateFlare(o))
      [] o.kind = "teleport" -> Spawned(g, CreateTeleport(o))
      [] o.kind = "nova"     -> Spawned(g, CreateNova(o))

Commanded(g) ==
    LET after[i \in 0 .. Len(orders)] == IF i = 0 THEN g ELSE Obey(after[i - 1], orders[i])
    IN  after[Len(orders)]

\* Freeing a slot does not resize the table, so the loop sees every spell.
SpellsTicked(g, junk) ==
    LET after[i \in 0 .. g.spells.size] ==
            IF i = 0 THEN g ELSE TickSpell(after[i - 1], i - 1, junk)
    IN  after[g.spells.size]

CrittersTicked(g) ==
    LET after[k \in 0 .. NumCritters] == IF k = 0 THEN g ELSE TickCritter(after[k - 1], k)
    IN  after[NumCritters]

GameLogicTick(g, junk) == CrittersTicked(SpellsTicked(Commanded(g), junk))

NewGame ==
    [critter |-> [k \in Critters |-> NewCritter], spells |-> NewTable(MinSize),
     uid |-> 1, seed |-> 1, dealt |-> [p \in Ids \X Critters |-> 0]]

\* human_rebuild: the direction is not in the snapshot.
Rebuilt(c) == [c EXCEPT !.face = Toward(c.at, c.goal)]

SpellsSerialize(g)        == Serialize(g.spells)
SpellsDeserialize(t, buf) == Deserialize(t, buf)

\* The table of the critters is the same everywhere, so that only what is in
\* each of them matters.
CrittersSerialize(g)     == [k \in Critters |-> [g.critter[k] EXCEPT !.face = 0]]
CrittersDeserialize(buf) == [k \in Critters |-> Rebuilt(buf[k])]

\* server_snapshot_callback.  spell_uid is not in the snapshot.
Snapshot(g) ==
    [seed |-> g.seed, critters |-> CrittersSerialize(g), spells |-> SpellsSerialize(g)]

\* (the state of the generator is not read)
FromSnapshotUnseeded(buf) ==
    [NewGame EXCEPT !.critter = CrittersDeserialize(buf.critters),
                    !.spells = SpellsDeserialize(@, buf.spells)]

FromSnapshot(buf) ==
    [NewGame EXCEPT !.seed = buf.seed,
                    !.critter = CrittersDeserialize(buf.critters),
                    !.spells = SpellsDeserialize(@, buf.spells)]

Init ==
    /\ game = [r \in {"server", "client"} |-> NewGame]
    /\ joined = FALSE /\ orders = <<>> /\ issued = 0 /\ settled = TRUE /\ parity = 0

\* A player gives an order.  The position in it is the one the player saw.
Order(o) ==
    /\ issued < MaxOrders /\ issued' = issued + 1
    /\ orders' = Append(orders, [o EXCEPT !.id = issued + 1])
    /\ UNCHANGED <<game, joined, settled, parity>>

Join ==
    /\ ~joined /\ joined' = TRUE /\ settled' = TRUE
    /\ game' = [game EXCEPT !["client"] =
                   [FromSnapshot(Snapshot(game["server"])) EXCEPT !.dealt = game["server"].dealt]]
    /\ UNCHANGED <<orders, issued, parity>>

\* What a frame does depends on chance when a nova ends in it, and on the order
\* of the spells in the table when one arrives that moves a critter while
\* another is there.
Dying(g) == {s.id : s \in {x \in SpellSet(g) : x.kind = "nova" /\ x.fade = 1}}

LeftToChance(g) ==
    \/ Dying(g) # {}
    \/ LET there == SpellSet(Commanded(g))
       IN  \E s \in there : s.kind = "teleport" /\ s.at = s.goal /\ ~s.exploded
                            /\ there # {s}

NextFrame == parity' = 1 - parity

Frame ==
    /\ NextFrame
    /\ \E junk \in [{"server", "client"} -> [Dying(game["server"]) -> SUBSET Critters]] :
           game' = [r \in {"server", "client"} |->
                       IF r = "client" /\ ~joined THEN game[r]
                       ELSE GameLogicTick(game[r], junk[r])]
    /\ settled' = (settled /\ ~LeftToChance(game["server"]))
    /\ orders' = <<>>
    /\ UNCHANGED <<joined, issued>>

Next ==
    \/ \E k \in Players, to \in Cells :
           Order([id |-> 0, kind |-> "move", sender |-> k, from |-> to, to |-> to])
    \/ \E k \in Players, kind \in Kinds, from, to \in Cells :
           /\ kind = "nova" => to = from
           /\ Order([id |-> 0, kind |-> kind, sender |-> k, from |-> from, to |-> to])
    \/ Join
    \/ Frame

Spec == Init /\ [][Next]_vars

\* The server runs frames as long as it runs.  Only Frame changes the parity.
FairSpec == Spec /\ WF_parity(NextFrame)

-----------------------------------------------------------------------------
(* Properties.                                                             *)

Kind == {"flare", "teleport", "nova"}

Spell ==
    [id : Ids, kind : Kind, at : Cells, goal : Cells, caster : Critters,
     fade : 1 .. FadeFrames + NovaFrames, exploded : BOOLEAN, hit : SUBSET Critters]

\* The mark of a free slot is no entry.
ASSUME FreeAssumption == Empty \notin [key : Ids, elem : Spell]

Critter ==
    [hp : Int, at : -1 .. LastCell + 1, goal : Cells, running : BOOLEAN, velocity : {0, 1},
     face : {-1, 0, 1}]

Game(g) ==
    /\ g.critter \in [Critters -> Critter]
    /\ Range(Entries(g.spells)) \subseteq [key : 1 .. MaxOrders, elem : Spell]
    /\ g.spells.free = Cardinality(EmptySlots(g.spells))
    /\ g.uid \in 1 .. MaxOrders + 1
    /\ g.seed \in Seeds
    /\ g.dealt \in [Ids \X Critters -> Nat]

\* Both replicas keep the types of the structs: a critter leaves the map by one
\* step at most (when a teleport drops it while it walks), spells have a frame
\* left, and the free slots of the table of the spells are counted, although
\* game_logic_tick frees slots while it walks over them.
TypeOK ==
    /\ \A r \in DOMAIN game : Game(game[r])
    /\ joined \in BOOLEAN /\ settled \in BOOLEAN
    /\ issued \in 0 .. MaxOrders /\ parity \in {0, 1}

\* What does not depend on where the critters are.
Course(s) == [id |-> s.id, kind |-> s.kind, at |-> s.at, goal |-> s.goal,
              fade |-> s.fade, exploded |-> s.exploded]

\* Server and client see the same spells, although the client counts spell_uid
\* from 1 again, gives keys that the snapshot holds already, and has the spells
\* in other slots of a table of another size.
SameSpells ==
    joined => {Course(s) : s \in SpellSet(game["server"])}
                = {Course(s) : s \in SpellSet(game["client"])}

\* Server and client agree on every critter and on the random numbers to come,
\* as long as nothing is left to chance.
SameCritters ==
    joined /\ settled =>
        /\ game["server"].seed = game["client"].seed
        /\ \A k \in Critters :
               LET Core(c) == [hp |-> c.hp, at |-> c.at, goal |-> c.goal,
                               running |-> c.running, velocity |-> c.velocity]
               IN  Core(game["server"].critter[k]) = Core(game["client"].critter[k])

\* No spell hurts a critter twice, however long it lasts and however near the
\* critter stays, on a replica that got it in the snapshot too; and a nova does
\* not hurt its caster.  The last frame of a nova is excepted, in which the nova
\* has been freed (nova.c:39) and nothing keeps it from either: what it does then
\* is not in dealt.
StrikesOnce ==
    \A r \in DOMAIN game :
        /\ \A p \in Ids \X Critters : game[r].dealt[p] <= 1
        /\ \A s \in SpellSet(game[r]) :
               s.kind = "nova" => game[r].dealt[<<s.id, s.caster>>] = 0

\* Every spell ends: neither the server nor the client keeps it for ever, also when
\* the one has the spell in another slot than the other.
Lasts(id) == \E r \in DOMAIN game : \E s \in SpellSet(game[r]) : s.id = id

EverySpellEnds == \A id \in Ids : Lasts(id) ~> ~Lasts(id)
=============================================================================
