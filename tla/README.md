# Commander Luke: models and proofs

TLA+ models of the game Commander Luke and of the programs beside it, runs of
the model checker TLC over small instances, and proofs that TLAPS checks for all
instances. Paths such as `main.c:377` are below the root of the repository.

Contents: 1 the system, 2 the modules, 3 the runs, 4 bounds and fairness,
5 the proofs, 6 what the code does differently, 7 what is not modelled, 8 plan.

## 1 The system

A server and up to twenty clients run the same simulation. Only the inputs of
the simulation travel over the network: in every *turn* the server broadcasts
the orders of all players and a number of frames, every client runs these
frames, and answers with the orders of its own player. A client that joins gets
a snapshot.

| component | state | operations | what makes it correct |
|---|---|---|---|
| turn protocol, `core/tcp_server_state.c`, `core/tcp_client_state.c` | per connection `active`, `waiting`, `needs_greeting`; `bulk_buf`; queues `in` and `out`; `ticks` | accept, greet, snapshot, confirm, turn, post, leave | all simulations run the same inputs; nobody waits for ever |
| simulation, `main.c` (`game_logic_tick`), `spells/`, `critters/`, `ai.c`, `spell.c`, `critter.c` | tables of spells and critters, `spell_uid`, `ai_seed` | commands, ticks of spells and critters, write and read a snapshot | two machines make the same of the same inputs; a spell strikes once and ends |
| IntMap, `core/hashmap.c` | `keys`, `data`, `size`, `free` | insert, find, remove, free a slot, serialize | nothing is lost or found wrongly when the table is resized or has holes |
| random numbers, `core/rand.c` | one word of state | draw | no overflow, never stuck at 0, the same sequence everywhere |
| sockets, `core/socket.c` with the loops of `server_read` and `client_read` | clients, write buffers in chunks, handles | accept, write, select, close | messages arrive whole, in order and at the right client |
| single player, `core/single_player.c` with `client_loop` | a queue of commands, `ticks` | add and get a command, `noop` | orders run once, in order, at once |
| Queue, Array, `core/queue.c`, `core/array.c` | items on the heap; a block of memory with `count` and `size` | push, pop; add, remove, clear | no access outside the block or to a freed item |
| lights and sprites, `core/iso.c` | `is.lights`, `is.zbatch` | new and free light, add a sprite, draw | only lights of living spells are read; each frame draws its own sprites |
| map generator, `map_gen.c` | `tiles`, `wall_tiles`, the calls of `dig` | grass, holes, walls | `dig` ends; holes stay inside the map; walls at the edges of the holes |
| assets, `load_assets`, `core/blit.c`, `core/font.c`, `core/anim.c`, `core/hashmap.c` (strings) | tables of sprites, fonts, glyphs and animations | load, look up by name | every name leads to its Sprite, however the tables grow |
| drawing, `main.c` (`draw_tilemap`, a frame of `client_loop`), `core/iso.c`, `core/texture.c` | what GL has bound, what the program believes, the shared Sprites, the batch | tiles, critters, spells, batch, texts | everything looks as it should, whatever was drawn before; no tile of the window is left out |
| benchmark, `benchmark.c` | `clients[64]`, number and time of the last packet | echo over TCP and UDP, with repetition | round trips are counted, and no loss stops the measurement |
| strings, window and input, tests, tools | | | see section 7 |

How they interact: the three loops of `main.c` drive everything through the
function pointers of `network.h` (`tick`, `add_command`, `get_command`,
`logic_tick`). The states of the network call `tcpserver_select` and
`tcpclient_select`, which call back `server_accept`, `server_read` and
`server_disconnect`; those call back into `main.c` to write and read snapshots
(`server_snapshot_callback`, `client_snapshot_callback`) and to run what is left
of a turn (`newturn_callback`). There are no threads: what is concurrent is the
programs, the network between them, and the order in which `select` reports.

What is hard in it:

* the handlers of one round of `select` come in any order, a turn is sent
  between any two rounds, and players join and leave at any time;
* a turn can arrive while a client still has frames of the last one;
* the simulation is replicated, so that everything that depends on the layout
  of a table, on memory that was freed or on the state of a generator can make
  two machines differ;
* `recv` and `send` divide the stream anywhere, and slots are used again;
* containers that move, shrink and leave dangling pointers behind;
* what drawing leaves behind in OpenGL and in Sprites that are shared by name,
  and a loop over a map that is turned by 45 degrees.

The `hazards` of PROJECT.json list these places, each with the properties that
cover it or the reason why none does.

## 2 The modules

Definitions have the names of the functions, variables and messages they stand
for; the `map` of PROJECT.json names the lines. In every module an action is a
handler, with everything it calls, up to the point where another party can come
in between. A definition in front of another one with a similar name and a
remark in parentheses, such as `AddLate` before `Add`, is a plausible mistake; it is not
used, and replacing the right definition by it must break a property.

### Lockstep, LockstepInv, SharedGame

`Lockstep` is the turn protocol of one server and `MaxConnections` slots. A
simulation is the sequence of inputs it has run, commands and `Frame`. The
connection of a slot is one FIFO channel of messages in each direction
(write buffer, TCP stream and receive buffer in one; `Sockets` shows that
messages do arrive whole and in order).

| action | code |
|---|---|
| `Accept`, `Greet` | `server_accept`, the greeting loop of the server's `tick` |
| `Turn` | the rest of `tick`: only when no slot waits; broadcast, run the frames, wait for all |
| `ReadLogin`, `ReadConfirm`, `ReadCmds`, `ReadEof` | `process_message` and `server_disconnect` |
| `RecvCid`, `RecvSnapshot`, `RecvTurn`, `RecvGarbledTurn` | `process_message` of the client; a turn first runs what is left of the turn before (`CatchUp`) |
| `ClientFrame`, `OrderFrame`, `QuietFrame` | a step of `client_loop`: perhaps an order, a frame if there are ticks, `logic_tick` |
| `Leave` | the end of `client_loop` |

`SharedGame` is what the players are promised: one history, and every player in
the game sees a prefix of it that only grows. `ImplementsSharedGame` is the
refinement, with the simulation of the server as the history.

`LockstepInv` defines the stages of a connection (accepted, login unread,
snapshot sent, confirming, in game) and what a client has still to run (`OnTrack`),
the inductive invariants of section 5.

A snapshot can be inexact: after a turn of 0 frames the server has broadcast
orders that it has not run (`tcp_server_state.c:84`), and a snapshot taken then
does not contain them. The history variable `exact` marks clients that joined
so; `Agreement` and `ImplementsSharedGame` speak of the others.

### IntMapTable, IntMap, Store

`IntMapTable` is `core/hashmap.c` as operators on a record (`Insert`, `Delete`,
`FreeSlot`, `Found`, `Resize`, `Serialize`, `Deserialize`), for any hash function
`Home`. `IntMap` uses it with arbitrary elements under arbitrary keys; `Store`
is the abstract specification, a set of entries, which `IntMap` implements.
`World` and `Assets` use the same table for spells and for names.

### World

The simulation itself, twice: a server that has played all along and a client
that joins from a snapshot and from then on runs the same frames. The map is a
line of cells; flares, teleports and novas, walking critters (`ai_run_around`)
and the snapshot are those of the code, with the real hash table for the
spells. Where the code leaves the outcome to chance the model does too: a nova
in its last frame is freed before it looks for victims (`nova.c:39`), and takes
its position, its radius, its caster and whom it has hit from the freed memory,
so whom it hits then is any set of critters, on each machine for itself (`Stray`;
that the count of hits it finds there may lead it out of its array is left out). The
variable `settled` says that nothing of that kind has happened since the client
joined. The history `dealt` counts which spell has hurt whom; what a freed nova
does is not in it.

A flare and a teleport fly alike (`TickMissile`); what they do on arrival is
`Explosion` and `Arrival`. A snapshot is a value, made by `Snapshot` from the seed,
the critters and the spells and read by `FromSnapshot`; what it does not hold (the
direction of a critter, `spell_uid`, the layout of the table) is made up by the client.
`Join` takes and reads it in one step: `Lockstep` shows that no turn comes in between.

### Sockets, Channel

`core/socket.c`: a server with its slots and write buffers, clients that
connect, write, read and leave, the stream of bytes of each connection, and the
two loops that cut it into messages. `ServerRead` and `ClientRead` take any
number of the bytes that have arrived; `ServerSend` and `ClientSend` may send a
part of a chunk, after which the rest is lost (`socket.c:512`), which `torn`
records. `ServerSendInVain` is a send to a client that has left.

`Channel` is what a connection promises, and what `Lockstep` takes for granted: a queue
of whole messages each way, each delivered once and in the order it was
written, of which only a client that leaves takes away the end.
`ImplementsChannel` is the refinement: the bytes that are begun, on the way
and in the write buffer, cut into messages, are the queue; the stream cut by `recv`,
the chunks, the slots and the accepting are hidden. A way whose
send was cut short is `Broken` and promises nothing.

### Rand, Overworld

`Rand` is `do_rand` with Schrage's decomposition, for all factors of that form.
`Overworld` is the map generator that draws all its numbers from it: `Fill`
(grass), `Aim` and `Strike` (the two coordinates of a hole, which the compiler may draw in
either order), `DigAround` and `Return` (the recursion of `dig`, with its calls
on a stack), `Wall`. A number that is drawn is a step.

### SinglePlayer, Arrays, Queues, Fifo

`Arrays` and `Queues` are `core/array.c` and `core/queue.c` as operators on
records: a block of memory with what is left behind the last element, and items
on a heap, where `last` keeps pointing to an item that was freed.
`SinglePlayer` is `client_loop` alone with itself: clicks (`Input`), `add_command`, the
commands, the ticks of the spells with the lights that `new_isolight` and
`free_isolight` give and take, and the drawing of a frame. `malloc` returns any
free address, also one that was freed a moment ago. `Fifo` is what the player is
promised, and `ImplementsFifo` the refinement.

### Tilemap, Assets, Drawing

What a player sees. `Tilemap` is the geometry: `World2Screen`, and the cells
that the two loops of `draw_tilemap` visit (`Visits`, `CellAt`). A camera is
counted in parts of a cell, `Unit` to a cell, and a tile has a whole number of pixels
for each, so that no position is rounded on the screen.

`Assets` is `load_assets`, call by call: Sprites in the table of `blit.c`, glyphs in
the tables of the fonts, animations whose frames are looked up by name, all of
them string-keyed HashMaps with pointers to Sprites, Fonts and IsoAnims; a pointer is
the place of what it leads to among those that were allocated. A name is a prefix with a
number; a texture is known by the image, or the part of one, that it was made from.
`NamesAssumption` and `UniqueAssumption` are what the code relies on in the files of
`data/`: there is a Sprite for every frame of an animation, and no name is given twice.

`Drawing` is one frame of `client_loop` after the other, as it reaches OpenGL:

| action | code |
|---|---|
| `LoadAsset` | a call of `load_assets` |
| `Logic` | the logic steps between two frames: any scene of `Scenes`, any camera of `Cameras` |
| `DrawTilemap` | `draw_tilemap` with the four quads of each tile |
| `DrawCritters` | `draw` of `human.c`: the dead at once, the others into the batch |
| `DrawSpells` | `draw` of the spells, twice, as in `main.c:411` and `main.c:419` |
| `DrawBatched` | a turn of the loop of `isozbatch_draw`; `qsort` may have left any order, since the comparison never says that an element comes first |
| `DrawTexts` | the calls of `font_print` |

`gl` holds what GL has bound and how it blends, beside what `texture_bind` and
`blit_set_blend_mode` remember of it, and the quads that were drawn, each
with what it was drawn for. Loading binds textures without telling `texture_bind`,
and tiles never ask for a way of blending.

### UdpEcho, Rounds

The UDP part of the benchmark. The network is a set of datagrams in each
direction, which can be read again and again, in any order, and be lost. The
clock is what the timers see of it: `late` (the server is up for longer than the
retry time) and a time of last sending that is 0 or not. `Rounds` is what is
counted, and `ImplementsRounds` the refinement.

## 3 The runs

| run | what it shows | states |
|---|---|---|
| `lockstep` | `TypeOK`; `SnapshotFresh`: no turn between a snapshot and its confirmation; `TurnCredit`: the right to speak is neither lost nor doubled; `Agreement`: clients run a prefix of what the server runs, and all of it when they are idle; `OwnOrders`: what a client gives or posts are orders of its own critter; `JoinStages`: the inductive invariant; `ImplementsSharedGame` | 509,374 |
| `lockstep_live` | every turn is answered, every login ends in the game, every frame is run by every client | 21,499 |
| `lockstep_broadcast` | counterexample: a login overwrites orders in the broadcast buffer (section 6) | |
| `intmap` | `TypeOK` (with the count of free slots, and an empty slot to insert at any time); `FindsStored`; `RoundTrip` through a snapshot; `ImplementsStore` | 14,127 |
| `world` | `TypeOK`; `SameSpells`, `SameCritters`: server and client stay the same game, the critters until something is left to chance; `StrikesOnce`: no spell hurts a critter twice, no nova its caster, but for the frame in which a nova has been freed; `EverySpellEnds` on both machines | 75,965 |
| `sockets` | `TypeOK`; `ImplementsChannel`: messages whole, once, in order, at the right client; `EveryMessageArrives` | 62,788 |
| `sockets_refuse` | counterexample: a client without a slot is never told (section 6) | |
| `overworld` | `TypeOK` of the generator; `FitsLong`: no product or difference overflows; `Lehmer`: each step is a multiplication modulo the prime and never reaches 0; `CallsDug`: the calls of `dig` stand on different holes, so that they are never deeper than the map; `CratersWalled`: holes are what can be reached from the strikes without leaping over an edge of the map, and walls stand where holes meet grass | 49,487 |
| `drawing` | `TypeOK` (with the counts of the tables); `DrawnAsMeant`: every quad has the texture, colour, angle and blending of what it was drawn for; `WindowCovered`: every tile of the window is drawn, none twice | 30,220 |
| `single_player` | `TypeOK`; `BlocksFit`: room for the next element, no block mostly empty; `LightsOfTheLiving`: no light of a spell that has ended is read, none is lost; `FrameIsDrawn`: exactly the sprites of this frame; `ImplementsFifo`; `OrdersRun`: the logic never stands still | 838,472 |
| `udp_echo` | `TypeOK` (with the ownership of the slots); `NothingAhead`; `ImplementsRounds`: only round trips are counted; `EveryPacketEchoed` | 5,728 |
| `udp_newest` | counterexample: an older packet replaces a newer one (section 6) | |

Each property of a passing run has a mutant of a modelled definition in PROJECT.json
that violates it.

## 4 Bounds and fairness

The bounds are CONSTANTS whose comment begins with "bound"; the configurations
give them their values.

* **Lockstep.** Two slots, two joins, two turns of 0, 1 or 2 frames, one order,
  in every interleaving: enough for a second client that joins during the first
  one's game, for a slot that is left and used again, for a turn that
  arrives while a frame of the last one is left, and for a turn of 0 frames
  before a snapshot. The live run has two turns of two frames and no orders; the
  liveness of frames does not depend on what is in them.
* **IntMap.** Three keys, two of which collide at the end of the table so that
  probing wraps around, four elements and a least size of 4: the table grows to
  16 and shrinks to 8.
* **World.** Three cells, two critters, one of which walks by itself, and two orders, so that two spells
  are there at once. Novas last four frames, so that their rings pass the same critter in up to three frames before the
  last one, and a client can join between any two of them. `Home` puts the first spell
  behind the second, so the order of the slots is not that of casting, and a client that goes on with
  key 1 has its second spell in another slot than the server. That a table grows and shrinks under its
  entries is left to `intmap`, which has the same operators; the theorems have any number of spells.
* **Sockets.** Two connections over one slot (the second comes after the first
  has left, or is refused), headers of two bytes, chunks of three, messages with
  no body and with two bytes: a message of two chunks, and every division of it.
* **Rand, Overworld.** The prime 127 = 5 * 25 + 2 in place of 2147483647 = 16807 * 127773 + 2836,
  from every seed. The theorems cover the code's own numbers. A map of 5 by 4
  tiles with three holes: two rows and three columns off the border, holes that
  meet, holes at the border, and, since the generator is deterministic, as many maps as
  seeds and orders of drawing two coordinates.
* **Drawing.** A view of 3 with a window of two tiles, which fills what
  `WindowAssumption` allows, and a map of 7 by 6 cells; 16 positions of the camera within a cell and
  three at or beyond the edges of the map. Sprites, glyphs and animations under names most of which
  collide, so that the table of sprites grows from 4 to 64 slots; a font with a nameless glyph as in
  `ubuntu.fnt`. Four scenes in any succession, which have between them two critters of the same
  frame, remains, and spells of all kinds at once with the same Sprite.
* **SinglePlayer.** A least size of 2 for blocks: that of the lights grows to 8
  and shrinks again, that of the sprites grows to 16. Three spells, volleys of three flares,
  four items on the heap, of which the last freed one can be given out again.
* **UdpEcho.** A client with three packets, so that the first two can overtake
  the last, and one with one packet; two slots.

Fairness, and why the code gives it:

* `Lockstep` and `Sockets`: weak fairness of each handler of each slot, and in
  `Lockstep` of the turn and of a client's frame in which it posts its orders. Both programs call
  `select` in an endless loop and handle all that is ready in each round, so a
  handler that stays enabled is called; `post_delay` is a fixed time. No
  fairness for players: they need not give orders, join or leave.
* `World`: weak fairness of frames, since the server's loop runs them. A history bit
  changes with every frame, so that a frame that changes nothing else counts as one.
* `SinglePlayer`: weak fairness of the loop as a whole, nothing of the player or
  the clock. A drawing of a frame may never be due.
* `UdpEcho`: weak fairness of the two timers, as both programs loop without
  blocking; strong fairness of the delivery of the current packet and its echo:
  what is sent again and again arrives at last. It is an assumption about the
  network, without which nothing could be promised.

Deadlock is checked but for `Lockstep` and `Sockets`, which stop
at their bounds when all players have left.

## 5 The proofs

TLAPS proves these for every value of the constants that satisfies the ASSUMEs
of the modules.

Data of any length is walked along by many definitions: a table that is moved to another one, a
queue on the heap, the flood of `dig`, a stream of bytes. What such a definition computes is proved by an
induction that speaks of sets instead of predicates (`BoundedInduction`), and the lemmas that follow from it
about functions defined recursively: such a function exists (`Recursion`, `RecursionThrough`), and what its
steps lead from one set of values into the next stays in them (`RecursionStays`, `StaysThrough`). Each module
of proofs begins with those of them that it needs.

**LockstepProofs.** `TurnCredit` and `SnapshotFresh` are not inductive by
themselves: that a snapshot is still fresh depends on the server waiting for
the slot, and that depends on the messages under way. The inductive invariant
is `IInv`, `TypeOK` with `JoinStages`: for each slot, which messages may be
under way in its stage and what both ends then are. `StagesHold` proves it with
one lemma per action; from it follow `TypeCorrect`, `StagesAreKept`,
`SnapshotsStayFresh` (no turn between snapshot and confirmation),
`CreditIsKept` (1 or 2 for every client in the game) and `OrdersAreOwn`.

`Agreement` needs to know what a client will run: `OnTrack` (`LockstepInv`) says that what it has
run, what its turn has left, and what the turns in its channel hold are, one after the other, what the
server has run since. `ClientsStayOnTrack` proves it on top of `IInv`; `ClientsAgree` and the refinement
`GameIsShared` follow, the latter step by step: each action adds to the history what the server runs, lets
one player see more of it, or changes nothing the players see. Assumed are `ConstantsAssumption` (at least
one slot, constants that can be told apart) and `AbsentAssumption` (the mark of an absent player is no
sequence of inputs).

**IntMapProofs.** For every hash function, set of keys and number of elements: `TableCorrect`,
`FindsWhatIsStored`, `SnapshotsAreRead` and the refinement `KeepsWhatIsStored`. The inductive invariant
`IInv` says that an entry is in one slot only, that free slots and entries make up the table, that more
than a quarter is free and that the size is a doubling of the least one. An entry in one slot only
is what makes counting possible (`EmptyCount`); that the probing ends at a free slot (`FreeSlotFound`)
follows from counting on modulo the size coming past every slot (`EveryRemainder`). The lemmas `RelocAllKeeps`,
`EntriesEnumerate` and `Rereads` follow the loops over the old table, over the slots of a snapshot and over
its entries. Assumed is, beside what hashes and sizes are, that the mark of a free slot is no entry.

**OverworldProofs.** Of the generator of random numbers: `TypeCorrect`, `NeverOverflows` (every term fits into a signed
long of half the width) and `MultipliesModulo` (each step is
`Multiplier * seed % Modulus`, never 0), for all factors with
`2 * Rest < Quotient` and an invertible multiplier; `FactorsOfTheCode` shows
that the numbers of `rand.c` are such factors. The argument is the identity
`a * s = a * (s % q) + a * q * (s div q)` with `a * q = m - r`, stated as lemmas
on `Low`, `High` and `Advance`. The same three hold of the map generator, which draws its numbers so
(`MapTypeCorrect`, `MapNeverOverflows`, `MapMultiplies`), for maps of every size.

`CallsAreDug` and `CratersAreWalled` rest on the invariant `MapInv`: each call of
`dig` stands on a hole, no two on the same one (`Dugout`); every strike is a hole, and every set of tiles that holds the strikes and is closed under
neighbourhood among the holes holds all holes (`Spread`). The last part is what makes "reached" provable: `Craters`
counts steps, and that as many steps as tiles are enough is `GrowsOrCloses`.

**WorldProofs.** On a map of any size, with any number of critters, walkers, orders and seeds and any hash
function: `TypeCorrect`, `NoSpellStrikesTwice` and `ClientSeesTheSpells`. The inductive invariant is `WorldInv`
(`Sound`). It says of each replica that a critter's next step stays on the map or just off it (`Going`), that the
table is good and each order made one spell at most (`Stocked`), that no damage is recorded of orders yet to come
(`Dealing`), and that whom a spell may still hurt it has not hurt (`Spares`: `hit` of a nova, `exploded` of a missile;
it is an invariant of spells that are there, so that `NoSpellStrikesTwice` says nothing of the frame in which a nova has been freed); of
the server, that no key is used twice, without which the client would lose spells when it reads the snapshot (`Keyed`);
of both, that the courses of their spells are the same. The lemmas about tables are those of `IntMapProofs`, for the
table of the spells (`Table`). The loops over orders, slots and critters are functions from the number of steps taken;
what each step does (`SpellTicked`, `CritterTicked`) is carried along the loop by `BoundedInduction`, for
the loop over slots with the slots behind it aged and those before it as they were (`Passed`). Assumed is, beside
`WorldAssumption`, that the mark of a free slot is no entry.

`ClientSeesTheCritters` needs more (`Together`, proved by `StayTogether`): that a walking critter looks where it goes
whenever a snapshot may be taken (the direction is not in it), and that the two games are `Paired`: the same spells
with the same `hit`, the same seed, and critters that are `Twins`, which may look elsewhere only while they do not
walk. The heart of it is that the order of the slots makes no difference. In a frame that leaves nothing to chance
(`Calm`) positions stay what they were until all spells have worked (`PlacesKept`), so whom a spell reaches was decided
when the frame began (`VictimsReached`), and a critter loses as much as the number of those that reach it says
(`After`, `WorksAfter`): a function of the set of spells.

**SocketsProofs.** For any number of slots, clients and messages, any sizes of the header, the messages and the buffer
of `select`, and however `send` and `recv` divide the bytes: `TypeCorrect` and the refinement
`SocketsImplementChannel`. The inductive invariant `IInv` (`InvariantHolds`) has five parts: `Typed`; `Readable`, of what
is begun there is at least a header; `Linked`, a connection is in the backlog once or in one slot, or nowhere; `Empty`, a
client has nothing before it connects, and after it has left nothing is on its way to it; and `Streams`, on
which all rests: on a way on which no send was cut short, the bytes that are begun, those on the wire and those in the
write buffer are, one after the other, in order (`Orderly`: each byte follows the one before it, in its message or as the
first one of the next), and while the client is there they end with a message.

The proof has three layers. The first is about streams and knows no variables: `Grouped` divides a stream into whole
messages and an open rest, and does so also piece by piece (`GroupedConcat`); `ParsedGroups` shows that the loop of
`server_read` and `client_read`, which looks at nothing but the header, finds the same messages in any part of an orderly stream
as `Grouped` does; `LoadDataIs` that the chunks of `array_load_data` are what was written, and `MessageIs` that a
message is one. The second is about one way: what sending, reading, writing and cutting off make of it
(`SentOn`, `ReadSound`, `WrittenOn`, `CutOff`) and what that is in `Channel` (`Delivers`, `Writes`, `Leaves`, `Breaks`, or
nothing). The third has a lemma for each action, which says what it does to its own way and that it leaves the others alone; for
that `Linked` is needed, since what the server has begun belongs to a slot and not to a connection, and a slot is used
again (`AcceptKeeps` is where it matters that the accept handler empties it).

**SinglePlayerProofs.** `BlocksAlwaysFit`: lemmas that `array_add`,
`array_remove`, `ptrarray_free` and `array_clear` each keep the relation of
`count` and `size`, and that no step of the loop does anything else to the two
arrays. The part of `HasRoom` about blocks that are mostly empty is needed: from
`count < size` alone one could not show that what is left fits in half a block.
`LightsAreOfTheLiving` needs `Lit`: the lights in the array are those of the spells that live, each
once; `FrameIsDrawnAlways` needs `Batched`: what is left in the batch and what is drawn are the sprites of this
frame; `OrdersInOrder`, the refinement to `Fifo`, needs `Supplied`: the items of the queue are a chain of
different cells of the heap that ends at `last` when it is not empty, so that an item that `malloc`
gives out is on no chain. Assumed is that the null pointer is no order.

**UdpEchoProofs.** `TypeCorrect`, `NoPacketAhead` and `CountsRoundTrips` (the
refinement to `Rounds`) for any number of clients, slots and packets and whatever the
network does. The inductive invariant is `TypeOK` with `NothingAhead`: to show
that a packet that reaches the server is the next one, one has to know what is
on the way and what the slots hold.

**DrawingProofs.** First the geometry, for every window, view and size of tiles and every camera:
`VisitsTheView` (the loops visit exactly the cells within `View` lines and columns of
the rounded camera, the lines and columns being sums and differences of
coordinates), `VisitsOnce` (no cell twice), and `WindowIsVisited` (every
cell whose tile is at least partly in the window is visited). The last one rests on
`RoundIsNear` (the camera is at most half a cell off the middle of its own) and on
`WindowAssumption`: window and tiles leave one line and one column of the view spare, as 800
by 600 pixels do for a view of 9 and tiles of 160 by 80.

Then, for all assets, scenes and cameras, `TypeCorrect`, `DrawnRightly` and `WindowAlwaysCovered`. None of
their properties is inductive: what a quad looks like depends on what was loaded long before the first frame
and on what the Sprite was drawn for last. The inductive invariant `DrawInv` (`DrawInvHolds`) says

* `InOrder`: which calls of `load_assets` were made, and that there are no frames before the last of them;
* `SpritesRight`: each call that was made gave its names to Sprites with its image and its way of blending, no
  two names lead to the same Sprite, and only the flare and the frames of animations are ever turned or
  coloured, so that remains and letters, which are drawn as they are, stay white and upright;
* `TilesRight`, `FontsRight`, `AnimsRight`: the tiles are the first Sprites, every font has the glyphs of its
  file, which are nobody else's, and every animation the frames of its directions;
* `BatchRight`: each element of the batch will look right once its Sprite is prepared for it, whatever order
  `qsort` leaves;
* `DrawnRight`: what `texture_bind` and `blit_set_blend_mode` remember is what GL has, from the first frame
  on; blending is by transparency when a frame begins; what was drawn is as meant.

That tiles, which never ask for a way of blending, get the right one needs a fact about the whole frame: the text
that ends it has at least one letter that the font has (`ScenesAssumption`; the code prints the hit points of the player in each
frame), and drawing that letter sets blending back from what the last flare left. The lemmas about tables
are those of `IntMapProofs`, for `Map`, with one more for glyphs without a name, which are counted and take no slot.
`TilesCover` carries the geometry over to the sequence of quads. Assumed are the named assumptions of
`Tilemap`, `Assets` and `Drawing`, which the run `drawing` evaluates for its files and scenes.

Of what the runs check, all invariants and all refinements are proved. Only model-checked are the liveness
properties, which are out of the prover's reach (fairness needs ENABLED).

## 6 What the code does differently from what it says

* `lockstep_broadcast`: `send_snapshot` composes its message in the buffer that
  holds the orders of the next turn (`tcp_server_state.c:166`). A login that is
  read after orders in the same round overwrites them: the server runs orders of
  which the clients get garbage, although lines 181 and 184 say that both get
  the same commands. In the model such a turn leaves the clients `hung`.
* `sockets_refuse`: without a free slot the connection has been accepted and is
  then forgotten; the comment `else refuse connection` at `socket.c:471` stands
  over nothing. The client waits for its snapshot for ever.
* `udp_newest`: `benchmark.c:165` "check if data is newer advanced" compares with
  the number of the first packet, which is never updated: a delayed packet
  replaces a newer one. `udp_echo` shows that the measurement goes on even so.

Two further observations that `World` models as they are: one machine can give a
spell a key that it has already (`spell_uid` is not in the snapshot), which does
no harm because no spell is ever looked up by key; and a nova hits whomever it likes in its
last frame, its caster and critters it has hit before among them, and not the same on
each machine.

Some hazards in PROJECT.json have no property. The models show most of these steps, but the
code promises nothing about what follows, so that a property either excepts them or would only
restate that it goes wrong: a client that joins after a turn of 0 frames (`exact`), orders of a client that
has left, which move the critter of the next one in its slot, spells that arrive in the same frame and novas that end
(`settled`), short sends and cut headers (`Broken`), and machines with different `RAND_MAX`.

## 7 What is not modelled

* Exceptions of sockets (urgent data, which neither program sends), failed `accept`
  (`socket.c:454` goes on with the handle -1), descriptors that `tcpserver_free_connection`
  never closes (`socket.c:432`), and slots from 20 to 63, where the game indexes beyond its table: the
  outcome of the code is undefined or outside the model.
* The text of logins (one of 15 bytes or more has no end in the snapshot,
  `main.c:472`), the layout of structs, sizes of buffers in bytes.
* Floating point: positions are cells, times are what timers see of them.
* What `create_human` leaves unset (`aitype`, `move_x`, `move_y`, `human.c:210`): the heap of a program that
  has just begun is 0, and so is `NewCritter`.
* `queue_clear` and `queue_free`, which run when a program ends; `array_sort`
  as an algorithm (its result is any order, see `DrawBatched`); `array_get`, which reads.
* Of the benchmark, the 65th client of the UDP server (`sockaddrs_add` returns -1, which
  `benchmark.c:151` uses as an index), packets of more than 1024 bytes (`recvfrom` cuts them, so that no
  echo is ever equal), and the echo over TCP.
* Of rendering: PNG files and memory of pictures, places and scales of Sprites and
  letters (`isoanim_set_center`, the layout of `font_print`), the strength of a
  light, the direction of a face as an angle (`iso_get_dir`), `draw_walls` (its call is
  commented out), `blit_line`, `critters/blurred.c` (nobody creates one), the
  picture of the map that `map_gen.c` writes.
* Keys, mouse and the clock (`window.c`), and the camera that follows them
  (`camera.c`): a camera is anywhere. `str.c`: strings are names. `tests/` and `tools/`: read as
  documentation.
* `hashmap_set` and `hashmap_rem`, which nobody calls.
* The opening of sockets. (`tcpserver_init` asks for `SO_REUSEADDR` after it has
  called `bind`, so that a server that is started again at once may fail to bind.)

## 8 Plan

Done, in this order: Lockstep, IntMap, World, Sockets, Rand,
UdpEcho, SinglePlayer, Channel, Overworld, Tilemap, Assets and Drawing; the proofs about Lockstep, Rand,
UdpEcho, SinglePlayer, Tilemap, Overworld, IntMap, World, Sockets and Drawing. Next:

1. The echo over TCP of the benchmark on top of the channel.
2. The camera that follows the keys (`camera.c`), as the source of the positions in `Cameras`.
