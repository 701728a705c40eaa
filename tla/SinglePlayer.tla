---------------------------- MODULE SinglePlayer ----------------------------
(***************************************************************************)
(* client_loop of main.c with the network of core/single_player.c: the     *)
(* commands of the player go through a Queue; every flare and teleport     *)
(* holds an IsoLight of the table that core/iso.c keeps in a PtrArray; and *)
(* the sprites of a frame are collected in an Array, sorted, drawn and     *)
(* thrown away.  What the commands do to the world is in World.            *)
(***************************************************************************)
EXTENDS Arrays, Queues, FiniteSets

CONSTANTS
    FullTicks,      \* what noop() sets the counter of ticks to (100)
    OwnLights,      \* lights of client_loop: one for each player and one more
    SpellLights,    \* other addresses of lights
    Kinds,          \* kinds of spells the player casts
    Volley,         \* flares of one click (3)
    NovaSprites,    \* sprites a nova is drawn with (64)
    MaxSpells       \* bound: spells alive

Addresses == OwnLights \union SpellLights

ASSUME LoopAssumption ==
    /\ FullTicks \in Nat \ {0} /\ Volley \in Nat \ {0}
    /\ NovaSprites \in Nat \ {0} /\ MaxSpells \in 0 .. Cardinality(SpellLights)
    /\ Kinds \subseteq {"flare", "nova", "teleport"}
    /\ OwnLights \intersect SpellLights = {} /\ Junk \notin Addresses
    /\ Null \notin Addresses

VARIABLES
    pc,       \* where the loop is
    ticks,    \* frames the logic may run
    todo,     \* commands of this click still to be added
    queue,    \* state of the network: the queue of commands
    lights,   \* is.lights
    spells,   \* the spells that are alive
    at,       \* position of the loop over the spells or the sprites
    command,  \* the command that game_logic_tick executes
    zbatch    \* is.zbatch

vars == <<pc, ticks, todo, queue, lights, spells, at, command, zbatch>>

Command(kind, n) == [kind |-> kind, n |-> n]

Commands == {Command(k, n) : k \in Kinds \union {"move"}, n \in 1 .. Volley}

ASSUME NullAssumption == Null \notin Commands

Cast(kind) ==
    IF kind = "flare" THEN [n \in 1 .. Volley |-> Command(kind, n)] ELSE <<Command(kind, 1)>>

\* The left button moves, the right one casts, and a dead player casts nothing.
Moves == {<<>>, <<Command("move", 1)>>}
Casts == {<<>>} \union {Cast(k) : k \in Kinds}
Clicks == {move \o casts : move \in Moves, casts \in Casts}

Spell(kind, light) == [kind |-> kind, light |-> light]

SpellSprites(s) == [i \in 1 .. (IF s.kind = "nova" THEN NovaSprites ELSE 1) |-> s]

AllSprites ==
    LET upto[n \in 0 .. Len(spells)] ==
            IF n = 0 THEN <<>> ELSE upto[n - 1] \o SpellSprites(spells[n])
    IN  upto[Len(spells)]

\* The critters are drawn once (one sprite stands for those that live) and every spell twice.
Sprites == <<Spell("player", Null)>> \o AllSprites \o AllSprites

LightsHeld == {lights.data[i] : i \in 0 .. lights.count - 1}

\* noop, whatever the number of ticks was.  (noop does nothing)
NoopIdle(left) == left

Noop(left) == FullTicks

-----------------------------------------------------------------------------
Init ==
    /\ pc = "start" /\ ticks = 0 /\ todo = <<>> /\ at = 1
    /\ queue = NewQueue /\ spells = <<>>
    /\ lights = NewArray /\ command = Null /\ zbatch = NewArray

NewOwnLight ==
    /\ pc = "start"
    /\ \E l \in OwnLights \ LightsHeld :
        /\ lights' = Add(lights, l)
        /\ pc' = IF OwnLights \subseteq LightsHeld \union {l} THEN "frame" ELSE "start"
    /\ UNCHANGED <<ticks, todo, queue, spells, at, command, zbatch>>

\* network->tick.
StartFrame ==
    /\ pc = "frame"
    /\ pc' = "step" /\ ticks' = Noop(ticks)
    /\ UNCHANGED <<todo, queue, lights, spells, at, command, zbatch>>

\* A step of the logic is due: the buttons are read.  (The first two conditions
\* are the bounds on the spells and on the heap.)
Input ==
    /\ pc = "step"
    /\ \E move \in Moves, casts \in Casts :
        /\ Len(spells) + Len(casts) <= MaxSpells
        /\ Len(move) + Len(casts) <= Cardinality(FreeCells(queue))
        /\ todo' = move \o casts
    /\ pc' = "add"
    /\ UNCHANGED <<ticks, queue, lights, spells, at, command, zbatch>>

AddCommand ==
    /\ pc = "add" /\ todo # <<>>
    /\ \E cell \in FreeCells(queue) : queue' = Push(queue, cell, Head(todo))
    /\ todo' = Tail(todo)
    /\ UNCHANGED <<pc, ticks, lights, spells, at, command, zbatch>>

\* The logic runs if there are ticks left, and stands still otherwise; then
\* network->logic_tick is noop again.
RunLogic ==
    /\ pc = "add" /\ todo = <<>>
    /\ pc' = IF ticks > 0 THEN "commands" ELSE "step"
    /\ ticks' = IF ticks > 0 THEN ticks ELSE Noop(ticks)
    /\ UNCHANGED <<todo, queue, lights, spells, at, command, zbatch>>

\* game_logic_tick: the commands, until queue_pop returns none.
NewSpell(kind) ==
    IF kind = "nova"
    THEN spells' = Append(spells, Spell(kind, Null)) /\ UNCHANGED lights
    ELSE \E l \in Addresses \ LightsHeld :
            spells' = Append(spells, Spell(kind, l)) /\ lights' = Add(lights, l)

Execute ==
    /\ pc = "commands" /\ First(queue) # Null
    /\ queue' = Pop(queue) /\ command' = First(queue)
    /\ \/ First(queue).kind = "move" /\ UNCHANGED <<lights, spells>>
       \/ First(queue).kind # "move" /\ NewSpell(First(queue).kind)
    /\ UNCHANGED <<pc, ticks, todo, at, zbatch>>

TickSpells ==
    /\ pc = "commands" /\ First(queue) = Null
    /\ pc' = "spells" /\ at' = 1
    /\ command' = Null
    /\ UNCHANGED <<ticks, todo, queue, lights, spells, zbatch>>

SpellGoesOn ==
    /\ pc = "spells" /\ at <= Len(spells)
    /\ at' = at + 1
    /\ UNCHANGED <<pc, ticks, todo, queue, lights, spells, command, zbatch>>

\* vtable->free of the spell and intmap_free_slot; a nova has no light.
SpellEnds ==
    /\ pc = "spells" /\ at <= Len(spells)
    /\ lights' = Free(lights, spells[at].light)
    /\ spells' = SubSeq(spells, 1, at - 1) \o SubSeq(spells, at + 1, Len(spells))
    /\ UNCHANGED <<pc, ticks, todo, queue, at, command, zbatch>>

\* The critters tick, ticks-- and network->logic_tick.
EndStep ==
    /\ pc = "spells" /\ at > Len(spells)
    /\ pc' = "step" /\ at' = 1 /\ ticks' = Noop(ticks - 1)
    /\ UNCHANGED <<todo, queue, lights, spells, command, zbatch>>

\* No further step is due: the frame is drawn.
StartDrawing ==
    /\ pc = "step"
    /\ pc' = "draw"
    /\ UNCHANGED <<ticks, todo, queue, lights, spells, at, command, zbatch>>

DrawSprite ==
    /\ pc = "draw" /\ at <= Len(Sprites)
    /\ zbatch' = Add(zbatch, Sprites[at]) /\ at' = at + 1
    /\ UNCHANGED <<pc, ticks, todo, queue, lights, spells, command>>

\* isozbatch_draw.  (the sprites stay)
BlitAgain ==
    /\ pc = "draw" /\ at > Len(Sprites)
    /\ pc' = "frame" /\ at' = 1
    /\ UNCHANGED <<ticks, todo, queue, lights, spells, command, zbatch>>

Blit ==
    /\ pc = "draw" /\ at > Len(Sprites)
    /\ zbatch' = Clear(zbatch)
    /\ pc' = "frame" /\ at' = 1
    /\ UNCHANGED <<ticks, todo, queue, lights, spells, command>>

Loop ==
    \/ NewOwnLight \/ StartFrame \/ Input \/ AddCommand \/ RunLogic
    \/ Execute \/ TickSpells \/ SpellGoesOn \/ SpellEnds \/ EndStep
    \/ StartDrawing \/ DrawSprite \/ Blit

Spec == Init /\ [][Loop]_vars

\* The loop goes on; nothing is assumed of the player or the clock.
FairSpec == Spec /\ WF_vars(Loop)

-----------------------------------------------------------------------------
IsArray(a, Elements) ==
    /\ a.size \in Nat /\ a.count \in Nat
    /\ a.data \in [0 .. a.size - 1 -> Elements \union {Junk}]

Sprite == [kind : Kinds \union {"player"}, light : Addresses \union {Null}]

\* Types: a block of memory is as large as its Array says, no item of the queue
\* is lost on the heap, and the counter of ticks, unsigned, never wraps below 0.
TypeOK ==
    /\ pc \in {"start", "frame", "step", "add", "commands", "spells", "draw"}
    /\ ticks \in 0 .. FullTicks /\ at \in Nat \ {0}
    /\ todo \in Seq(Commands) /\ spells \in Seq(Sprite)
    /\ {queue.first, queue.last} \subseteq Cells \union {Null}
    /\ DOMAIN queue.heap \subseteq Cells /\ queue.size = Cardinality(DOMAIN queue.heap)
    /\ command \in Commands \union {Null}
    /\ IsArray(lights, Addresses) /\ IsArray(zbatch, Sprite)

\* array_add writes behind the last element without a further check: there is
\* always room for it.  And a block is given back when it is mostly empty.
HasRoom(a) ==
    /\ a.count < a.size
    /\ a.size \div 2 > MinArraySize => a.count >= a.size \div 4

BlocksFit == HasRoom(lights) /\ HasRoom(zbatch)

\* The lights that iso_illuminate adds up are the lights of the loop and those of
\* the spells that are alive: none of a spell that has ended (its memory is
\* free), none twice, and none has been lost when the block was closed or moved.
LightsOfTheLiving ==
    pc # "start" =>
        /\ LightsHeld = OwnLights \union ({spells[i].light : i \in 1 .. Len(spells)} \ {Null})
        /\ lights.count = Cardinality(LightsHeld)

\* What isozbatch_draw sorts and draws is what was added in this frame, all of it
\* and nothing else, however often the block has been moved.
FrameIsDrawn ==
    [i \in 1 .. zbatch.count |-> zbatch.data[i - 1]]
        = IF pc = "draw" THEN SubSeq(Sprites, 1, at - 1) ELSE <<>>

\* Orders are executed once, in the order they were given, and before the next
\* click is read, although they go through a queue and a counter of ticks that
\* are there for the game over the network.
Player == INSTANCE Fifo WITH waiting <- Items(queue) \o todo, executed <- command, None <- Null

ImplementsFifo == Player!Spec

\* Every order is executed: single_player.c refills the counter of ticks before
\* the logic can stand still.
OrdersRun == (todo # <<>>) ~> (pc = "spells")
=============================================================================
