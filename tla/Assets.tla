------------------------------- MODULE Assets -------------------------------
(***************************************************************************)
(* What load_assets (main.c) loads before the first frame, and where it is *)
(* kept: sprites in the table of core/blit.c by their name, a table of     *)
(* glyphs for each font (core/font.c), and animations (core/iso.c), whose  *)
(* frames are looked up by name in the table of sprites.  The tables are   *)
(* HashMaps of core/hashmap.c, which work like the IntMap but for the key, *)
(* a string.                                                               *)
(*                                                                         *)
(* A name is a prefix with a number, 0 for none.  A texture has the name   *)
(* of the image, or of the part of an image, that it was made from: each   *)
(* is loaded once and gets a handle of its own.  A pointer to a Sprite, a  *)
(* Font or an IsoAnim is its place among those that were allocated.        *)
(***************************************************************************)
EXTENDS IntMapTable, Integers

CONSTANTS
    Directions,    \* ISODIRECTIONS
    TileImages,    \* the images of the tiles and walls
    SplitSheets,   \* sheets that get a texture for each sprite
    WholeSheets,   \* sheets with one texture
    Flare,         \* "./data/flare.png"
    Fonts,         \* name, image and glyphs of each font file
    Animations     \* prefix and length of each animation

VARIABLES
    sprites,   \* is.sprites of blit.c: a HashMap from names to pointers
    spr,       \* the Sprites themselves
    fonts,     \* is.font_map: a HashMap from names to pointers
    glyphs,    \* the glyph_map of each Font: a HashMap from characters to Sprites
    anims,     \* is.isoanim_map: a HashMap from names to pointers
    frames,    \* the frames of each IsoAnim, by direction
    gl,        \* what GL has bound, what the program believes, and the quads
    script     \* the calls of load_assets that are still to be made

assets == <<sprites, spr, fonts, glyphs, anims, frames, script>>

NoName == <<"", 0>>      \* a string of length 0, which also marks a free slot
Names  == DOMAIN Home \ {NoName}

\* A light or a colour, not yet dimmed by a spell's fade.
White == [light |-> <<"full", 0>>, fade |-> 1]

-----------------------------------------------------------------------------
\* An element under the empty name is counted and leaves its slot free.
HashmapIns(t, key, elem) ==
    LET e == IF key = NoName THEN Empty ELSE [key |-> key, elem |-> elem]
    IN  IF EmptySlots(t) = {} THEN t
        ELSE WriteElem(t, FirstProbed(t, key, EmptySlots(t)), e)

HashmapFind(t, key) == Find(t, key)

\* Each element is inserted under its key, one after the other.
InsertAll(t, keys, elems) ==
    LET upto[i \in 0 .. Len(keys)] ==
            IF i = 0 THEN t ELSE HashmapIns(upto[i - 1], keys[i], elems[i])
    IN  upto[Len(keys)]

\* The pointers of the n sprites that are allocated next.
Fresh(n) == [i \in 1 .. n |-> Len(spr) + i]

NewSprite(texture) ==
    [texture |-> texture, blend_mode |-> "alpha", tint |-> White, angle |-> 0]

\* GL has the new texture bound; what texture_bind remembers stays as it is.
MakeTexture(image) == [gl EXCEPT !.bound = image]

BlitGetSprite(name) == HashmapFind(sprites, name)

-----------------------------------------------------------------------------
LoadSprite(name, blend) ==
    /\ gl' = MakeTexture(name)
    /\ spr' = Append(spr, [NewSprite(name) EXCEPT !.blend_mode = blend])
    /\ sprites' = HashmapIns(sprites, name, Len(spr) + 1)
    /\ UNCHANGED <<fonts, glyphs, anims, frames>>

LoadSheet(sheet) ==
    /\ gl' = MakeTexture(sheet.image)
    /\ spr' = spr \o [i \in DOMAIN sheet.names |-> NewSprite(sheet.image)]
    /\ sprites' = InsertAll(sprites, sheet.names, Fresh(Len(sheet.names)))
    /\ UNCHANGED <<fonts, glyphs, anims, frames>>

LoadSheetSplit(sheet) ==
    /\ gl' = MakeTexture(Last(sheet.names))
    /\ spr' = spr \o [i \in DOMAIN sheet.names |-> NewSprite(sheet.names[i])]
    /\ sprites' = InsertAll(sprites, sheet.names, Fresh(Len(sheet.names)))
    /\ UNCHANGED <<fonts, glyphs, anims, frames>>

FontLoad(font) ==
    /\ gl' = MakeTexture(font.image)
    /\ spr' = spr \o [i \in DOMAIN font.glyphs |-> NewSprite(font.image)]
    /\ glyphs' = Append(glyphs,
                    InsertAll(NewTable(MinSize), font.glyphs, Fresh(Len(font.glyphs))))
    /\ fonts' = HashmapIns(fonts, font.name, Len(glyphs) + 1)
    /\ UNCHANGED <<sprites, anims, frames>>

\* (the numbers of the frames begin with 0)
FrameRangeFromZero(prefix, start, end) ==
    [k \in 1 .. end - start + 1 |-> BlitGetSprite(<<prefix, start + k - 2>>)]

FrameRange(prefix, start, end) ==
    [k \in 1 .. end - start + 1 |-> BlitGetSprite(<<prefix, start + k - 1>>)]

IsoanimBuild(a) ==
    /\ frames' = Append(frames,
                    [d \in 0 .. Directions - 1 |->
                        FrameRange(a.prefix, d * a.len + 1, d * a.len + a.len)])
    /\ anims' = HashmapIns(anims, <<a.prefix, 0>>, Len(frames) + 1)
    /\ UNCHANGED <<gl, spr, sprites, fonts, glyphs>>

\* The calls of load_assets, in their order.
LoadAssets ==
    LET Calls(kind, args) == [i \in DOMAIN args |-> [call |-> kind, arg |-> args[i]]]
    IN  Calls("sprite", TileImages) \o Calls("split", SplitSheets)
            \o Calls("sheet", WholeSheets) \o Calls("flare", <<Flare>>)
            \o Calls("font", Fonts) \o Calls("anim", Animations)

\* The names that a call puts into the table of sprites.
NamesOf(c) ==
    IF c.call \in {"sprite", "flare"} THEN <<c.arg>>
    ELSE IF c.call \in {"split", "sheet"} THEN c.arg.names
    ELSE <<>>

IsList(s) == s \in Seq(Range(s))

-----------------------------------------------------------------------------
ASSUME NullAssumption ==
    /\ Empty \notin [key : Names, elem : Nat]
    /\ Missing \notin DOMAIN Home \union Nat

\* What the files in data/ hold: every Sprite and every Font has a name, only
\* a glyph may have none, and there is a Sprite for each frame.
ASSUME NamesAssumption ==
    /\ NoName \in DOMAIN Home
    /\ Directions \in Nat
    /\ IsList(TileImages) /\ IsList(SplitSheets) /\ IsList(WholeSheets)
    /\ IsList(Fonts) /\ IsList(Animations)
    /\ Range(TileImages) \union {Flare} \subseteq Names
    /\ \A sheet \in Range(SplitSheets) : sheet.names \in Seq(Names)
    /\ \A sheet \in Range(WholeSheets) : sheet.names \in Seq(Names) /\ sheet.image # Missing
    /\ \A font \in Range(Fonts) :
          font.name \in Names /\ font.glyphs \in Seq(DOMAIN Home) /\ font.image # Missing
    /\ \A a \in Range(Animations) :
          /\ <<a.prefix, 0>> \in Names /\ a.len \in Nat \ {0}
          /\ \A d \in 0 .. Directions - 1, k \in 1 .. a.len :
                \E sheet \in Range(SplitSheets) : <<a.prefix, d * a.len + k>> \in Range(sheet.names)

\* No name is given twice.
ASSUME UniqueAssumption ==
    /\ \A i, j \in DOMAIN LoadAssets :
          \A k \in DOMAIN NamesOf(LoadAssets[i]), l \in DOMAIN NamesOf(LoadAssets[j]) :
              NamesOf(LoadAssets[i])[k] = NamesOf(LoadAssets[j])[l] => i = j /\ k = l
    /\ \A i, j \in DOMAIN Fonts : Fonts[i].name = Fonts[j].name => i = j
    /\ \A i, j \in DOMAIN Animations : Animations[i].prefix = Animations[j].prefix => i = j

-----------------------------------------------------------------------------
AssetsInit ==
    /\ sprites = NewTable(MinSize)
    /\ fonts = NewTable(MinSize)
    /\ anims = NewTable(MinSize)
    /\ spr = <<>>
    /\ glyphs = <<>>
    /\ frames = <<>>
    /\ gl = [bound |-> Missing, blend |-> "alpha",
             curr_tex |-> Missing, blend_mode |-> "alpha", drawn |-> <<>>]
    /\ script = LoadAssets

Load ==
    /\ script # <<>>
    /\ LET c == Head(script)
       IN  \/ c.call = "sprite" /\ LoadSprite(c.arg, "alpha")
           \/ c.call = "flare" /\ LoadSprite(c.arg, "add")
           \/ c.call = "split" /\ LoadSheetSplit(c.arg)
           \/ c.call = "sheet" /\ LoadSheet(c.arg)
           \/ c.call = "font" /\ FontLoad(c.arg)
           \/ c.call = "anim" /\ IsoanimBuild(c.arg)
    /\ script' = Tail(script)
=============================================================================
