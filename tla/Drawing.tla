------------------------------ MODULE Drawing ------------------------------
(***************************************************************************)
(* One frame of client_loop (main.c) as it reaches OpenGL.  What GL has    *)
(* bound and how it blends is state, and the program remembers what it set *)
(* last to save calls (core/texture.c, core/blit.c); a Sprite carries its  *)
(* colour and angle with it and is shared by everything that looks it up   *)
(* by its name.  Critters and spells put Sprites into the batch of         *)
(* core/iso.c, which sets their colour and angle as it draws them.         *)
(*                                                                         *)
(* The scene, what game_logic_tick leaves behind, changes freely between   *)
(* two frames.  A quad is recorded with what it was drawn for, "of".       *)
(***************************************************************************)
EXTENDS Assets, Tilemap, FiniteSets

CONSTANTS
    Terrain,      \* the tile of each cell of the map, its place in TileImages
    Cameras,      \* positions of the camera
    Scenes,       \* critters, spells and the texts that are printed
    NovaSprites   \* the sprites of a nova, 64

ASSUME CellsAssumption ==
    \A cell \in Land : cell \in DOMAIN Terrain /\ Terrain[cell] \in DOMAIN TileImages

ASSUME CamerasAssumption == Cameras \subseteq Int \X Int

\* The sprite of a critter that died.
Remains == <<"Blurred_", 1>>

ASSUME RemainsAssumption == \E sheet \in Range(WholeSheets) : Remains \in Range(sheet.names)

IsCritter(c) ==
    \/ /\ c.alive
       /\ c = [alive |-> TRUE, anim |-> c.anim, dir |-> c.dir, time |-> c.time, at |-> c.at]
       /\ c.anim \in {a.prefix : a \in Range(Animations)}
       /\ c.dir \in 0 .. Directions - 1 /\ c.time \in Nat
    \/ ~c.alive /\ c = [alive |-> FALSE, at |-> c.at]

IsSpell(s) ==
    \/ s.kind = "nova" /\ s = [kind |-> "nova", at |-> s.at]
    \/ /\ s.kind \in {"flare", "teleport"}
       /\ s = [kind |-> s.kind, at |-> s.at, fade |-> s.fade, angle |-> s.angle]

\* The hit points of the player are printed in each frame, and the font has
\* a character of that text.
ASSUME ScenesAssumption ==
    /\ NovaSprites \in Nat
    /\ Fonts # <<>>
    /\ \A s \in Scenes :
          /\ IsList(s.critters) /\ IsList(s.spells) /\ IsList(s.texts)
          /\ \A text \in Range(s.texts) : text \in Seq(DOMAIN Home)
          /\ \A c \in Range(s.critters) : IsCritter(c)
          /\ \A x \in Range(s.spells) : IsSpell(x)
          /\ \E text \in Range(s.texts) :
                (Range(text) \intersect Range(Head(Fonts).glyphs)) \ {NoName} # {}

VARIABLES
    phase,    \* where the frame stands
    cam, scene,
    zbatch    \* is.zbatch of iso.c

vars == <<assets, gl, phase, cam, scene, zbatch>>

-----------------------------------------------------------------------------
TextureBind(g, tex) ==
    IF g.curr_tex = tex THEN g ELSE [g EXCEPT !.bound = tex, !.curr_tex = tex]

\* (the mode is not remembered)
SetBlendModeForgetting(g, mode) ==
    IF g.blend_mode = mode THEN g ELSE [g EXCEPT !.blend = mode]

SetBlendMode(g, mode) ==
    IF g.blend_mode = mode THEN g ELSE [g EXCEPT !.blend = mode, !.blend_mode = mode]

Cleared(g) == [g EXCEPT !.drawn = <<>>]

BlitSprite(g, s, of) ==
    LET b == SetBlendMode(TextureBind(g, s.texture), s.blend_mode)
    IN  [b EXCEPT !.drawn = Append(@,
            [of |-> of, texture |-> b.bound, blend |-> b.blend,
             tint |-> s.tint, angle |-> s.angle])]

\* The four quads of a tile, corner by corner: where the light is taken, in
\* halves of a cell, the point of the texture, in quarters, and the point on
\* the screen, in quarters of a tile.
Corners ==
    << <<1, -1, 0, 2, -2, 0>>,  <<0, -1, 1, 1, -1, -1>>, <<0, 0, 2, 2, 0, 0>>,   <<1, 0, 1, 3, -1, 1>>,
       <<0, -1, 1, 1, -1, -1>>, <<-1, -1, 2, 0, 0, -2>>, <<-1, 0, 3, 1, 1, -1>>, <<0, 0, 2, 2, 0, 0>>,
       <<0, 0, 2, 2, 0, 0>>,    <<-1, 0, 3, 1, 1, -1>>,  <<-1, 1, 4, 2, 2, 0>>,  <<0, 1, 3, 3, 1, 1>>,
       <<1, 0, 1, 3, -1, 1>>,   <<0, 0, 2, 2, 0, 0>>,    <<0, 1, 3, 3, 1, 1>>,   <<1, 1, 2, 4, 0, 2>> >>

\* A tile is drawn in whatever mode is set.
IsoBlitTile(g, tex, cell) ==
    LET b  == TextureBind(g, tex)
        s  == World2Screen(cam, Middle(cell))
    IN  [b EXCEPT !.drawn = Append(@,
            [of |-> [tile |-> cell], texture |-> b.bound, blend |-> b.blend,
             corners |-> [k \in DOMAIN Corners |->
                LET c == Corners[k]
                IN  [lit |-> <<2 * cell[1] + c[1], 2 * cell[2] + c[2]>>,
                     tex |-> <<c[3], c[4]>>,
                     at  |-> << s[1] + c[5] * (TileWidth \div 4),
                                s[2] + c[6] * (TileHeight \div 4) >>]]])]

\* The k-th turn of the two loops, and what is drawn when it is done.
Turns == (2 * View + 1) * (View + 1)

Turn(k) == << (k - 1) \div (View + 1), (k - 1) % (View + 1) >>

Swept(g) ==
    LET upto[k \in 0 .. Turns] ==
            IF k = 0 THEN g
            ELSE LET cell == CellAt(cam, Turn(k))
                 IN  IF Turn(k) \in Visits /\ cell \in Land
                     THEN IsoBlitTile(upto[k - 1], spr[Terrain[cell]].texture, cell)
                     ELSE upto[k - 1]
    IN  upto[Turns]

DrawTilemap ==
    /\ phase = "tiles"
    /\ gl' = Swept(Cleared(gl))
    /\ phase' = "critters"
    /\ UNCHANGED <<assets, cam, scene, zbatch>>

-----------------------------------------------------------------------------
\* A place around another one, as those of the sprites of a nova; 0 for itself.
Around(at, k) == <<at, k>>

Element(ptr, at, light, angle, fade, of) ==
    [sprite |-> ptr, at |-> at, light |-> light, angle |-> angle, fade |-> fade, of |-> of]

GetFrame(anim, time) == anim[(time % Len(anim)) + 1]

\* A critter that died is drawn at once, any other goes into the batch.
CritterElement(c) ==
    Element(GetFrame(frames[HashmapFind(anims, <<c.anim, 0>>)][c.dir], c.time),
            Around(c.at, 0), TRUE, 0, 1, c)

DrawnDead(g) ==
    LET upto[k \in 0 .. Len(scene.critters)] ==
            IF k = 0 THEN g
            ELSE IF scene.critters[k].alive THEN upto[k - 1]
            ELSE BlitSprite(upto[k - 1], spr[BlitGetSprite(Remains)], scene.critters[k])
    IN  upto[Len(scene.critters)]

WithLiving(batch) ==
    LET upto[k \in 0 .. Len(scene.critters)] ==
            IF k = 0 THEN batch
            ELSE IF scene.critters[k].alive
            THEN Append(upto[k - 1], CritterElement(scene.critters[k]))
            ELSE upto[k - 1]
    IN  upto[Len(scene.critters)]

DrawCritters ==
    /\ phase = "critters"
    /\ gl' = DrawnDead(Cleared(gl))
    /\ zbatch' = WithLiving(zbatch)
    /\ phase' = "spells"
    /\ UNCHANGED <<assets, cam, scene>>

\* A flare or a teleport is one sprite, a nova a ring of them.
SpellElements(s) ==
    IF s.kind = "nova"
    THEN [k \in 1 .. NovaSprites |->
             Element(BlitGetSprite(Flare), Around(s.at, k), FALSE, 0, 1, s)]
    ELSE << Element(BlitGetSprite(Flare), Around(s.at, 0), FALSE, s.angle, s.fade, s) >>

\* A nova colours the Sprite it shares with the other spells.
WithNovasWhite ==
    IF \E k \in DOMAIN scene.spells : scene.spells[k].kind = "nova"
    THEN [spr EXCEPT ![BlitGetSprite(Flare)].tint = White]
    ELSE spr

WithSpells(batch) ==
    LET upto[k \in 0 .. Len(scene.spells)] ==
            IF k = 0 THEN batch ELSE upto[k - 1] \o SpellElements(scene.spells[k])
    IN  upto[Len(scene.spells)]

\* The spells are put into the batch twice, before and after the walls, which
\* are not drawn any more.
DrawSpells ==
    /\ phase \in {"spells", "spells again"}
    /\ zbatch' = WithSpells(zbatch)
    /\ spr' = WithNovasWhite
    /\ gl' = Cleared(gl)
    /\ phase' = IF phase = "spells" THEN "spells again" ELSE "batch"
    /\ UNCHANGED <<sprites, fonts, glyphs, anims, frames, script, cam, scene>>

-----------------------------------------------------------------------------
Light(e) == IF e.light THEN e.at ELSE White.light

\* (the Sprite keeps the angle it was drawn with last)
PreparedUnturned(s, e) == [s EXCEPT !.tint = [light |-> Light(e), fade |-> e.fade]]

Prepared(s, e) ==
    [s EXCEPT !.angle = e.angle, !.tint = [light |-> Light(e), fade |-> e.fade]]

\* One turn of the loop.  The comparison that array_sort is given never says
\* that an element comes first, so qsort may leave any order.
DrawBatched ==
    /\ phase = "batch"
    /\ \E k \in DOMAIN zbatch :
          LET e == zbatch[k]
          IN  /\ \A j \in 1 .. k - 1 : zbatch[j] # e
              /\ spr' = [spr EXCEPT ![e.sprite] = Prepared(@, e)]
              /\ gl' = BlitSprite(Cleared(gl), spr'[e.sprite], e.of)
              /\ zbatch' = RemoveAt(zbatch, k)
    /\ UNCHANGED <<sprites, fonts, glyphs, anims, frames, script, phase, cam, scene>>

\* The characters of a text that the font has.
FontPrint(g, font, text) ==
    LET Glyph(ch) == HashmapFind(glyphs[HashmapFind(fonts, font)], ch)
        upto[k \in 0 .. Len(text)] ==
            IF k = 0 THEN g
            ELSE IF Glyph(text[k]) = Missing THEN upto[k - 1]
            ELSE BlitSprite(upto[k - 1], spr[Glyph(text[k])], [char |-> text[k]])
    IN  upto[Len(text)]

Printed(g) ==
    LET upto[k \in 0 .. Len(scene.texts)] ==
            IF k = 0 THEN g ELSE FontPrint(upto[k - 1], Head(Fonts).name, scene.texts[k])
    IN  upto[Len(scene.texts)]

\* The hit points and the names of the players, when the batch is drawn.
DrawTexts ==
    /\ phase = "batch"
    /\ zbatch = <<>>
    /\ gl' = Printed(Cleared(gl))
    /\ phase' = "logic"
    /\ UNCHANGED <<assets, cam, scene, zbatch>>

\* The logic steps between two frames.
Logic ==
    /\ phase = "logic"
    /\ script = <<>>
    /\ scene' \in Scenes
    /\ cam' \in Cameras
    /\ phase' = "tiles"
    /\ UNCHANGED <<assets, gl, zbatch>>

LoadAsset ==
    /\ Load
    /\ UNCHANGED <<phase, cam, scene, zbatch>>

DrawInit ==
    /\ AssetsInit
    /\ phase = "logic"
    /\ cam = <<0, 0>>
    /\ scene = [critters |-> <<>>, spells |-> <<>>, texts |-> <<>>]
    /\ zbatch = <<>>

DrawNext ==
    \/ LoadAsset
    \/ Logic
    \/ DrawTilemap
    \/ DrawCritters
    \/ DrawSpells
    \/ DrawBatched
    \/ DrawTexts

DrawSpec == DrawInit /\ [][DrawNext]_vars

-----------------------------------------------------------------------------
Phases == {"logic", "tiles", "critters", "spells", "spells again", "batch"}

\* The tables count their free slots, but for the glyphs without a name, which
\* are counted and take no slot; every pointer in a table leads to a Sprite;
\* the batch is empty whenever it is not in use.
TypeOK ==
    LET Nameless(font) == {k \in DOMAIN font.glyphs : font.glyphs[k] = NoName}
        Pointers(t)    == {t.at[h].elem : h \in DOMAIN t.at \ EmptySlots(t)}
        Counted(t, n)  == t.free + n = Cardinality(EmptySlots(t)) /\ 4 * t.free > t.size
    IN  /\ phase \in Phases
        /\ script # <<>> => phase = "logic"
        /\ \A t \in {sprites, fonts, anims} : Counted(t, 0)
        /\ Pointers(sprites) \subseteq DOMAIN spr
        /\ \A k \in DOMAIN Fonts :
              LET p == HashmapFind(fonts, Fonts[k].name)
              IN  p # Missing => /\ Counted(glyphs[p], Cardinality(Nameless(Fonts[k])))
                                 /\ Pointers(glyphs[p]) \subseteq DOMAIN spr
        /\ \A p \in DOMAIN spr : spr[p].blend_mode \in {"alpha", "add"}
        /\ {gl.blend, gl.blend_mode} \subseteq {"alpha", "add"}
        /\ zbatch # <<>> => phase \in {"spells", "spells again", "batch"}

\* What a thing should look like: a critter upright, in the light of its place
\* and in the frame of its direction and time; a spell in its own fade and at
\* its own angle, added to what is there; a character in the font of its name.
Look(t) ==
    IF "char" \in DOMAIN t
    THEN [texture |-> Head(Fonts).image, blend |-> "alpha", tint |-> White, angle |-> 0]
    ELSE IF "kind" \in DOMAIN t
    THEN [texture |-> Flare, blend |-> "add",
          tint |-> [White EXCEPT !.fade = IF t.kind = "nova" THEN 1 ELSE t.fade],
          angle |-> IF t.kind = "nova" THEN 0 ELSE t.angle]
    ELSE IF t.alive
    THEN LET a == CHOOSE a \in {Animations[k] : k \in DOMAIN Animations} : a.prefix = t.anim
         IN  [texture |-> <<t.anim, t.dir * a.len + (t.time % a.len) + 1>>, blend |-> "alpha",
              tint |-> [light |-> Around(t.at, 0), fade |-> 1], angle |-> 0]
    ELSE [texture |-> (CHOOSE s \in {WholeSheets[k] : k \in DOMAIN WholeSheets} :
                            Remains \in {s.names[k] : k \in DOMAIN s.names}).image,
          blend |-> "alpha", tint |-> White, angle |-> 0]

\* A corner of a tile is lit where it is drawn, and shows its part of the image.
CornerInPlace(cell, c) ==
    LET x == c.lit[1] - 2 * cell[1]
        y == c.lit[2] - 2 * cell[2]
        s == World2Screen(cam, Middle(cell))
    IN  /\ c.at = << s[1] + (y - x) * (TileWidth \div 4), s[2] + (x + y) * (TileHeight \div 4) >>
        /\ c.tex = << 2 + y - x, 2 + x + y >>

\* The four quads are the four quarters of the cell.
QuartersOf(cell, corners) ==
    {{corners[4 * q + k].lit : k \in 1 .. 4} : q \in 0 .. 3}
        = {{2 * cell[1] + a, 2 * cell[1] + a + 1} \X {2 * cell[2] + b, 2 * cell[2] + b + 1}
              : a, b \in {-1, 0}}

\* Everything is drawn the way it should look, whatever was drawn before it,
\* in this frame or an earlier one, with the same texture, the same Sprite or
\* another way of blending; a tile is drawn whole, in its place, and blended
\* by its transparency, although it never asks for that.
DrawnAsMeant ==
    \A k \in DOMAIN gl.drawn :
        LET q == gl.drawn[k]
        IN  IF "tile" \in DOMAIN q.of
            THEN /\ q.texture = spr[Terrain[q.of.tile]].texture
                 /\ q.texture = TileImages[Terrain[q.of.tile]]
                 /\ q.blend = "alpha"
                 /\ \A j \in DOMAIN q.corners : CornerInPlace(q.of.tile, q.corners[j])
                 /\ QuartersOf(q.of.tile, q.corners)
            ELSE [texture |-> q.texture, blend |-> q.blend, tint |-> q.tint, angle |-> q.angle]
                    = Look(q.of)

\* The two loops over a grid that is turned by 45 degrees draw every cell of
\* the map that is in the window, wherever in its cell the camera stands, and
\* no cell twice.
WindowCovered ==
    phase = "critters" =>
        \A cell \in Land :
            LET times == Cardinality({k \in DOMAIN gl.drawn : gl.drawn[k].of.tile = cell})
            IN  times <= 1 /\ (InWindow(cam, cell) => times = 1)
=============================================================================
