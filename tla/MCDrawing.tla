----------------------------- MODULE MCDrawing -----------------------------
(* An instance of Drawing for TLC. *)
EXTENDS Drawing

TwoTiles    == << <<"grass", 0>>, <<"grass", 1>> >>
Numbered(p, n) == [k \in 1 .. n |-> <<p, k>>]
NoltySheet  == << [names |-> Numbered("Idle", 4) \o Numbered("Running", 6)] >>
BlurSheet   == << [image |-> <<"blurred.png", 0>>, names |-> Numbered("Blurred_", 2)] >>
FlareImage  == <<"flare.png", 0>>
Chars       == << NoName, <<"H", 0>>, <<"1", 0>> >>
TwoFonts    == << [name |-> <<"Jura", 0>>, image |-> <<"jura.png", 0>>, glyphs |-> Tail(Chars)],
                  [name |-> <<"Ubuntu", 0>>, image |-> <<"ubuntu.png", 0>>, glyphs |-> Chars] >>
TwoAnims    == << [prefix |-> "Idle", len |-> 2], [prefix |-> "Running", len |-> 3] >>

\* Most names collide.
AllNames ==
    {TwoTiles[k] : k \in 1 .. 2} \union {NoltySheet[1].names[k] : k \in 1 .. 10}
        \union {BlurSheet[1].names[k] : k \in 1 .. 2} \union {FlareImage, NoName}
        \union {TwoFonts[k].name : k \in 1 .. 2} \union {Chars[k] : k \in 2 .. 3}
        \union {<<"Idle", 0>>, <<"Running", 0>>, <<"?", 0>>}
HashByNumber == [name \in AllNames |-> 3 + (name[2] % 3)]

Checkered == [c \in (0 .. 6) \X (0 .. 6) |-> 1 + ((c[1] + c[2]) % 2)]
InAndOut  == ((11 .. 14) \X (13 .. 16)) \union {<<2, 25>>, <<-3, -2>>, <<-2, 30>>}

Idle(at)   == [alive |-> TRUE, anim |-> "Idle", dir |-> 1, time |-> 3, at |-> at]
Running    == [alive |-> TRUE, anim |-> "Running", dir |-> 0, time |-> 2, at |-> "p"]
Dead       == [alive |-> FALSE, at |-> "q"]
Bolt(f, a) == [kind |-> "flare", at |-> "p", fade |-> f, angle |-> a]
Jump       == [kind |-> "teleport", at |-> "q", fade |-> 3, angle |-> 8]
Ring       == [kind |-> "nova", at |-> "p"]
Texts      == << << <<"H", 0>>, <<"?", 0>>, <<"1", 0>> >>, << <<"?", 0>> >> >>
Scene(c, s) == [critters |-> c, spells |-> s, texts |-> Texts]
SomeScenes ==
    { Scene(<<Idle("p"), Idle("q")>>, <<Bolt(2, 7), Ring>>),
      Scene(<<Dead, Running>>, <<Jump, Bolt(3, 7)>>),
      Scene(<<Idle("q"), Dead>>, <<>>),
      Scene(<<Running, Idle("p")>>, <<Ring>>) }
=============================================================================
