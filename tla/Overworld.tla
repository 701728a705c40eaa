----------------------------- MODULE Overworld -----------------------------
(***************************************************************************)
(* The map generator of map_gen.c, which draws all its numbers from the    *)
(* generator of core/rand.c: grass of NumGrass kinds, holes that dig eats   *)
(* into it by calling itself, and walls on the sides of the holes.  A tile *)
(* is an index into the tile set, 0 for a hole.                            *)
(***************************************************************************)
EXTENDS Rand, Sequences, FiniteSets

CONSTANTS
    MapWidth, MapHeight,  \* 100, 100
    NumGrass,             \* 4
    Holes,                \* 300
    Odds                  \* 5: dig goes on in one of so many cases

ASSUME OverworldAssumption ==
    /\ MapWidth \in Nat \ {0} /\ MapHeight \in Nat \ {0}
    /\ NumGrass \in Nat \ {0} /\ Holes \in Nat /\ Odds \in Nat \ {0}

Tiles == 0 .. MapWidth * MapHeight - 1

VARIABLES
    at,          \* tiles that have grass
    tiles,       \* map->tiles
    aim,         \* the numbers drawn for the next hole
    struck,      \* where dig was called from outside
    stack,       \* the calls of dig, the innermost first
    wall_tiles,  \* map->wall_tiles, the bits as a set
    walled       \* the walls are made

mapVars == <<at, tiles, aim, struck, stack, wall_tiles, walled>>

Index(x, y) == y * MapWidth + x
X(t) == t % MapWidth
Y(t) == t \div MapWidth

Inside(x, y) == x \in 0 .. MapWidth - 1 /\ y \in 0 .. MapHeight - 1

Holed == {t \in Tiles : tiles[t] = 0}

MapInit ==
    /\ Init
    /\ at = 0 /\ tiles = [t \in Tiles |-> 1] /\ aim = <<>>
    /\ struck = <<>> /\ stack = <<>> /\ wall_tiles = [t \in Tiles |-> {}] /\ walled = FALSE

Fill ==
    /\ at < MapWidth * MapHeight
    /\ DoRand
    /\ tiles' = [tiles EXCEPT ![at] = 1 + (drawn' % NumGrass)] /\ at' = at + 1
    /\ UNCHANGED <<aim, struck, stack, wall_tiles, walled>>

Idle == at = MapWidth * MapHeight /\ stack = <<>> /\ ~walled

\* (a hole is dug again)
DigAgain(x, y, calls) ==
    IF Inside(x, y)
    THEN /\ tiles' = [tiles EXCEPT ![Index(x, y)] = 0]
         /\ stack' = <<[x |-> x, y |-> y, next |-> 0]>> \o calls
    ELSE tiles' = tiles /\ stack' = calls

\* (only the index is compared with the size of the map)
DigAcross(x, y, calls) ==
    IF Index(x, y) \in Tiles /\ tiles[Index(x, y)] # 0
    THEN /\ tiles' = [tiles EXCEPT ![Index(x, y)] = 0]
         /\ stack' = <<[x |-> x, y |-> y, next |-> 0]>> \o calls
    ELSE tiles' = tiles /\ stack' = calls

\* A call of dig, on top of the others.
Dig(x, y, calls) ==
    IF Inside(x, y) /\ tiles[Index(x, y)] # 0
    THEN /\ tiles' = [tiles EXCEPT ![Index(x, y)] = 0]
         /\ stack' = <<[x |-> x, y |-> y, next |-> 0]>> \o calls
    ELSE tiles' = tiles /\ stack' = calls

\* The arguments of the call are two numbers, and C does not say which is drawn
\* first.
Aim ==
    /\ Idle /\ Len(struck) < Holes /\ aim = <<>>
    /\ DoRand
    /\ aim' = <<drawn'>>
    /\ UNCHANGED <<at, tiles, struck, stack, wall_tiles, walled>>

Strike ==
    /\ Idle /\ aim # <<>>
    /\ DoRand
    /\ \E a \in {<<aim[1], drawn'>>, <<drawn', aim[1]>>} :
           LET x == a[1] % MapWidth
               y == a[2] % MapHeight
           IN  Dig(x, y, <<>>) /\ struck' = Append(struck, Index(x, y))
    /\ aim' = <<>>
    /\ UNCHANGED <<at, wall_tiles, walled>>

\* The double loop over dx and dy: a number is drawn for each of the nine.
DigAround ==
    /\ stack # <<>> /\ stack[1].next < 9
    /\ DoRand
    /\ LET top  == stack[1]
           back == <<[top EXCEPT !.next = @ + 1]>> \o Tail(stack)
       IN  IF drawn' % Odds = 0
           THEN Dig(top.x + (top.next \div 3) - 1, top.y + (top.next % 3) - 1, back)
           ELSE tiles' = tiles /\ stack' = back
    /\ UNCHANGED <<at, aim, struck, wall_tiles, walled>>

Return ==
    /\ stack # <<>> /\ stack[1].next = 9
    /\ stack' = Tail(stack)
    /\ UNCHANGED <<vars, at, tiles, aim, struck, wall_tiles, walled>>

\* (bits 2 and 8 are swapped)
WallsTurned(t) ==
    IF X(t) \in 1 .. MapWidth - 2 /\ Y(t) \in 1 .. MapHeight - 2 /\ tiles[t] = 0
    THEN {b \in {2, 4, 8, 16} :
              tiles[CASE b = 2 -> t - MapWidth [] b = 4 -> t + 1
                      [] b = 8 -> t + MapWidth [] b = 16 -> t - 1] # 0}
    ELSE {}

\* A tile at the border has no walls.
Walls(t) ==
    IF X(t) \in 1 .. MapWidth - 2 /\ Y(t) \in 1 .. MapHeight - 2 /\ tiles[t] = 0
    THEN {b \in {2, 4, 8, 16} :
              tiles[CASE b = 2 -> t + MapWidth [] b = 4 -> t + 1
                      [] b = 8 -> t - MapWidth [] b = 16 -> t - 1] # 0}
    ELSE {}

Wall ==
    /\ Idle /\ Len(struck) = Holes
    /\ wall_tiles' = [t \in Tiles |-> Walls(t)] /\ walled' = TRUE
    /\ UNCHANGED <<vars, at, tiles, aim, struck, stack>>

OverworldGen == Fill \/ Aim \/ Strike \/ DigAround \/ Return \/ Wall

Done == walled /\ UNCHANGED <<vars, mapVars>>

MapSpec == MapInit /\ [][OverworldGen \/ Done]_<<vars, mapVars>>

-----------------------------------------------------------------------------
\* A call of dig goes deeper only where it has made a hole, and no two calls are
\* about the same one: the recursion is never deeper than the map has tiles.
CallsDug ==
    /\ \A i \in 1 .. Len(stack) :
           Inside(stack[i].x, stack[i].y) /\ Index(stack[i].x, stack[i].y) \in Holed
    /\ \A i, j \in 1 .. Len(stack) :
           Index(stack[i].x, stack[i].y) = Index(stack[j].x, stack[j].y) => i = j

Near(s, t) == X(s) - X(t) \in -1 .. 1 /\ Y(s) - Y(t) \in -1 .. 1

\* The holes that can be reached from a strike over holes.
Craters ==
    LET reached[n \in 0 .. Cardinality(Tiles)] ==
            IF n = 0 THEN {struck[i] : i \in 1 .. Len(struck)}
            ELSE LET sofar == reached[n - 1]
                 IN  sofar \union {t \in Holed : \E s \in sofar : Near(s, t)}
    IN  reached[Cardinality(Tiles)]

\* Between two tiles off the border that lie side by side there is exactly one
\* wall if one of them is a hole and the other is not, and none otherwise.
WalledAtEdge(s, t) ==
    LET Off(u) == X(u) \in 1 .. MapWidth - 2 /\ Y(u) \in 1 .. MapHeight - 2
        Side(low, high) == {b \in {low} : b \in wall_tiles[s]} \union
                           {b \in {high} : b \in wall_tiles[t]}
        Between == IF Y(s) = Y(t) /\ X(t) = X(s) + 1 THEN Side(4, 16)
                   ELSE IF X(s) = X(t) /\ Y(t) = Y(s) + 1 THEN Side(2, 8)
                   ELSE {}
        Beside == X(t) + Y(t) = X(s) + Y(s) + 1 /\ Near(s, t)
    IN  Off(s) /\ Off(t) /\ Beside =>
            Cardinality(Between) = IF s \in Holed <=> t \in Holed THEN 0 ELSE 1

\* Holes are the craters of the strikes: dig never leaps over the edge of the map
\* into the next row, and makes no hole elsewhere; and in the end the walls stand
\* where the holes meet the grass.
CratersWalled ==
    /\ Holed = Craters
    /\ walled => \A s, t \in Tiles : WalledAtEdge(s, t)
=============================================================================
