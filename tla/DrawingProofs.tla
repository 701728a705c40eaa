--------------------------- MODULE DrawingProofs ---------------------------
(***************************************************************************)
(* What a frame of client_loop draws, for every size of the window, of the *)
(* tiles and of the view, for all assets, scenes and cameras: every tile   *)
(* of the window is drawn, none twice, and everything looks as it should,  *)
(* whatever was drawn before it.                                           *)
(***************************************************************************)
EXTENDS Drawing, TLAPS, SequenceTheorems, FunctionTheorems, FiniteSetTheorems

\* What is proved of the IntMap holds for the HashMaps of names and pointers.
Map == INSTANCE IntMapProofs
       WITH Keys <- Names, Elems <- Nat, MaxLive <- 0, map <- sprites

LEMMA MapAssumptions ==
    /\ Names \subseteq DOMAIN Home /\ 0 \in Nat
    /\ Empty \notin Map!Entry
BY NullAssumption DEF Names, Map!Entry

-----------------------------------------------------------------------------
(* The tiles: draw_tilemap visits each cell of a square that stands on its *)
(* corner exactly once, and that square covers the window.                 *)

Places == Int \X Int

\* Lines and columns of the screen between a cell and the one of the camera.
Line(eye, cell)   == (cell[1] - Round(eye[1])) + (cell[2] - Round(eye[2]))
Column(eye, cell) == (cell[2] - Round(eye[2])) - (cell[1] - Round(eye[1]))

InView(n) == -View <= n /\ n <= View

-----------------------------------------------------------------------------
\* A product with a positive factor keeps the order of the other factors.
LEMMA Cancel ==
    ASSUME NEW a \in Int, NEW b \in Int, NEW p \in Nat \ {0}, a * p < b * p
    PROVE  a < b
<1> SUFFICES ASSUME a >= b PROVE FALSE
    OBVIOUS
<1>1. PICK d \in Nat : a = b + d
    BY SMT
<1>2. a * p = b * p + d * p
    BY <1>1, SMT
<1>3. d * p >= 0
    BY SMT
<1> QED BY <1>2, <1>3, SMT

\* Division by a positive number, as SMT needs it to be told.
LEMMA Quotient ==
    ASSUME NEW n \in Int, NEW d \in Nat \ {0}
    PROVE  /\ n \div d \in Int
           /\ d * (n \div d) <= n
           /\ n < d * (n \div d) + d
    BY SMT

\* The rounded coordinate is at most half a cell away.
LEMMA RoundIsNear ==
    ASSUME NEW n \in Int
    PROVE  /\ Round(n) \in Int
           /\ 2 * (Unit * Round(n)) <= 2 * n + Unit
           /\ 2 * n - Unit <= 2 * (Unit * Round(n))
<1> Unit \in Nat \ {0} /\ 2 * Unit \in Nat \ {0}
    BY UnitAssumption
<1>1. CASE n >= 0
    <2> DEFINE q == (2 * n + Unit) \div (2 * Unit)
    <2>1. Round(n) = q
        BY <1>1 DEF Round
    <2>2. q \in Int /\ (2 * Unit) * q <= 2 * n + Unit /\ 2 * n + Unit < (2 * Unit) * q + 2 * Unit
        <3>1. 2 * n + Unit \in Int
            OBVIOUS
        <3> QED BY <3>1, Quotient
    <2> HIDE DEF q
    <2>3. (2 * Unit) * q = 2 * (Unit * q)
        BY <2>2, SMT
    <2> QED BY <2>1, <2>2, <2>3, SMT
<1>2. CASE ~(n >= 0)
    <2> DEFINE q == (Unit - 2 * n) \div (2 * Unit)
    <2>1. Round(n) = -q
        BY <1>2 DEF Round
    <2>2. q \in Int /\ (2 * Unit) * q <= Unit - 2 * n /\ Unit - 2 * n < (2 * Unit) * q + 2 * Unit
        <3>1. Unit - 2 * n \in Int
            OBVIOUS
        <3> QED BY <3>1, Quotient
    <2> HIDE DEF q
    <2>3. (2 * Unit) * q = 2 * (Unit * q) /\ Unit * (-q) = -(Unit * q)
        BY <2>2, SMT
    <2> QED BY <2>1, <2>2, <2>3, SMT
<1> QED BY <1>1, <1>2

-----------------------------------------------------------------------------
\* A visit goes to the line i - View and to the column 2j + i % 2 - View.
LEMMA VisitedLine ==
    ASSUME NEW eye \in Places, NEW v \in Visits
    PROVE  /\ CellAt(eye, v) \in Places
           /\ Line(eye, CellAt(eye, v)) = v[1] - View
           /\ Column(eye, CellAt(eye, v)) = 2 * v[2] + (v[1] % 2) - View
<1>1. v[1] \in Nat /\ v[2] \in Nat
    BY ViewAssumption DEF Visits
<1>2. v[1] \div 2 \in Nat /\ v[1] % 2 \in {0, 1} /\ v[1] = 2 * (v[1] \div 2) + (v[1] % 2)
    BY <1>1, SMT
<1>3. Round(eye[1]) \in Int /\ Round(eye[2]) \in Int
    BY RoundIsNear DEF Places
<1>4. /\ CellAt(eye, v)[1] = Round(eye[1]) + v[1] \div 2 - v[2]
      /\ CellAt(eye, v)[2] = Round(eye[2]) + v[2] + v[1] \div 2 + (v[1] % 2) - View
    BY DEF CellAt
<1>5. CellAt(eye, v) \in Places
    BY <1>1, <1>2, <1>3, ViewAssumption DEF CellAt, Places
<1> QED BY <1>1, <1>2, <1>3, <1>4, <1>5, ViewAssumption, SMT DEF Line, Column

\* draw_tilemap (main.c) visits exactly the cells of View lines above and below
\* the camera and View columns on either side.
THEOREM VisitsTheView ==
    ASSUME NEW eye \in Places, NEW cell \in Places
    PROVE  (\E v \in Visits : CellAt(eye, v) = cell)
               <=> InView(Line(eye, cell)) /\ InView(Column(eye, cell))
<1>1. ASSUME NEW v \in Visits, CellAt(eye, v) = cell
      PROVE  InView(Line(eye, cell)) /\ InView(Column(eye, cell))
    <2>1. /\ v[1] \in 0 .. 2 * View /\ v[2] \in 0 .. View
          /\ v[2] <= View - (v[1] % 2)
        BY DEF Visits
    <2>2. v[1] % 2 \in {0, 1}
        BY <2>1, ViewAssumption, SMT
    <2> QED BY <1>1, <2>1, <2>2, VisitedLine, ViewAssumption, SMT DEF InView
<1>2. ASSUME InView(Line(eye, cell)), InView(Column(eye, cell))
      PROVE  \E v \in Visits : CellAt(eye, v) = cell
    <2> DEFINE x == cell[1] - Round(eye[1])
               y == cell[2] - Round(eye[2])
               i == x + y + View
               j == (y - x + View) \div 2
               v == <<i, j>>
    <2>1. /\ cell[1] \in Int /\ cell[2] \in Int /\ cell = <<cell[1], cell[2]>>
          /\ Round(eye[1]) \in Int /\ Round(eye[2]) \in Int
        BY RoundIsNear DEF Places
    <2>2. x \in Int /\ y \in Int /\ cell[1] = Round(eye[1]) + x /\ cell[2] = Round(eye[2]) + y
        BY <2>1
    <2>3. Line(eye, cell) = x + y /\ Column(eye, cell) = y - x
        BY DEF Line, Column
    <2> HIDE DEF x, y
    <2>4. i \in 0 .. 2 * View /\ y - x + View \in 0 .. 2 * View
        BY <1>2, <2>2, <2>3, ViewAssumption, SMT DEF InView
    <2>5. (y - x + View) % 2 = i % 2
        BY <2>2, ViewAssumption, SMT
    <2>6. y - x + View = 2 * j + (i % 2) /\ i = 2 * (i \div 2) + (i % 2) /\ i % 2 \in {0, 1}
        BY <2>2, <2>4, <2>5, ViewAssumption, SMT
    <2>7. j \in Int /\ i \div 2 \in Int
        BY <2>2, ViewAssumption, SMT
    <2>8. j \in 0 .. View /\ j <= View - (i % 2)
        BY <2>4, <2>6, <2>7, ViewAssumption, SMT
    <2>9. v \in Visits
        BY <2>4, <2>8 DEF Visits
    <2>10. i \div 2 - j = x /\ j + i \div 2 + (i % 2) - View = y
        BY <2>2, <2>6, <2>7, ViewAssumption, SMT
    <2>11. /\ Round(eye[1]) + i \div 2 - j = cell[1]
           /\ Round(eye[2]) + j + i \div 2 + (i % 2) - View = cell[2]
        BY <2>1, <2>2, <2>6, <2>7, <2>10, ViewAssumption, SMT
    <2>12. CellAt(eye, v) = cell
        BY <2>1, <2>11 DEF CellAt
    <2> QED BY <2>9, <2>12
<1> QED BY <1>1, <1>2

\* No cell is drawn twice in a frame.
THEOREM VisitsOnce ==
    ASSUME NEW eye \in Places, NEW v \in Visits, NEW w \in Visits,
           CellAt(eye, v) = CellAt(eye, w)
    PROVE  v = w
<1>1. /\ v[1] \in 0 .. 2 * View /\ v[2] \in 0 .. View /\ v = <<v[1], v[2]>>
      /\ w[1] \in 0 .. 2 * View /\ w[2] \in 0 .. View /\ w = <<w[1], w[2]>>
    BY DEF Visits
<1>2. v[1] - View = w[1] - View
    BY VisitedLine
<1>3. v[1] = w[1]
    BY <1>1, <1>2, ViewAssumption, SMT
<1>4. 2 * v[2] + (v[1] % 2) - View = 2 * w[2] + (v[1] % 2) - View
    BY <1>3, VisitedLine
<1>5. v[2] = w[2]
    BY <1>1, <1>4, ViewAssumption, SMT
<1> QED BY <1>1, <1>3, <1>5

-----------------------------------------------------------------------------
\* A distance on the screen, in one direction, and the lines between two cells:
\* a distance of a parts of a cell is a * p pixels, and the camera is off the
\* middle of its cell by e parts.
LEMMA Distance ==
    ASSUME NEW w \in Nat, NEW p \in Nat \ {0}, NEW a \in Int, NEW e \in Int, NEW n \in Int,
           NEW t \in Nat, t = 2 * (Unit * p),
           w <= (View - 1) * t,
           -(w + t) < 2 * (a * p), 2 * (a * p) < w + t,
           a = Unit * n - e, -Unit <= e, e <= Unit
    PROVE  InView(n)
<1> Unit \in Nat \ {0} /\ View \in Nat
    BY UnitAssumption, ViewAssumption
<1>1. (View - 1) * t + t = 2 * ((View * Unit) * p)
    <2>1. (View - 1) * t + t = View * t
        BY SMT
    <2>2. View * (2 * (Unit * p)) = 2 * ((View * Unit) * p)
        BY SMT
    <2> QED BY <2>1, <2>2
<1> DEFINE vu == View * Unit
<1>2. vu \in Int
    BY SMT
<1>3. a * p < vu * p /\ (-vu) * p < a * p
    <2>1. a * p \in Int /\ vu * p \in Int /\ (-vu) * p = -(vu * p) /\ (View - 1) * t \in Int
        BY <1>2, SMT
    <2>2. w + t <= 2 * (vu * p)
        BY <1>1, <2>1, SMT
    <2> HIDE DEF vu
    <2> QED BY <2>1, <2>2, SMT
<1>4. a < vu /\ -vu < a
    <2>1. -vu \in Int
        BY <1>2
    <2> HIDE DEF vu
    <2> QED BY <1>2, <1>3, <2>1, Cancel
<1>5. n * Unit < (View + 1) * Unit /\ (-(View + 1)) * Unit < n * Unit
    <2>1. n * Unit = Unit * n /\ Unit * n \in Int
        BY SMT
    <2>2. (View + 1) * Unit = vu + Unit /\ (-(View + 1)) * Unit = -(vu + Unit)
        BY SMT
    <2> HIDE DEF vu
    <2> QED BY <1>2, <1>4, <2>1, <2>2, SMT
<1>6. n < View + 1 /\ -(View + 1) < n
    <2>1. View + 1 \in Int /\ -(View + 1) \in Int
        OBVIOUS
    <2> QED BY <1>5, <2>1, Cancel
<1> QED BY <1>6, SMT DEF InView

\* Every tile that is at least partly in the window is visited: together with
\* VisitsOnce, what WindowCovered says of a frame.
THEOREM WindowIsVisited ==
    ASSUME NEW eye \in Places, NEW cell \in Places, InWindow(eye, cell)
    PROVE  \E v \in Visits : CellAt(eye, v) = cell
<1> DEFINE px == TileWidth \div (2 * Unit)
           py == TileHeight \div (2 * Unit)
           dx == Unit * cell[1] - eye[1]
           dy == Unit * cell[2] - eye[2]
           ex == eye[1] - Unit * Round(eye[1])
           ey == eye[2] - Unit * Round(eye[2])
<1>1. Unit \in Nat \ {0} /\ View \in Nat
    BY UnitAssumption, ViewAssumption
<1>2. /\ px \in Nat \ {0} /\ TileWidth \in Nat /\ TileWidth = 2 * (Unit * px)
      /\ py \in Nat \ {0} /\ TileHeight \in Nat /\ TileHeight = 2 * (Unit * py)
    <2>1. ASSUME NEW t \in {4 * Unit * n : n \in 1 .. 40}
          PROVE  /\ t \div (2 * Unit) \in Nat \ {0} /\ t \in Nat
                 /\ t = 2 * (Unit * (t \div (2 * Unit)))
        <3>1. PICK n \in 1 .. 40 : t = 4 * Unit * n
            OBVIOUS
        <3>2. t = (2 * Unit) * (2 * n) /\ t \in Nat
            BY <1>1, <3>1, SMT
        <3>3. t \div (2 * Unit) = 2 * n
            BY <1>1, <3>2, Z3
        <3>4. (2 * Unit) * (2 * n) = 2 * (Unit * (2 * n))
            BY <1>1, SMT
        <3> QED BY <3>2, <3>3, <3>4, SMT
    <2> QED BY <2>1, PixelAssumption
<1>3. /\ cell[1] \in Int /\ cell[2] \in Int /\ eye[1] \in Int /\ eye[2] \in Int
      /\ Round(eye[1]) \in Int /\ Round(eye[2]) \in Int
    BY RoundIsNear DEF Places
<1>4. dx \in Int /\ dy \in Int /\ ex \in Int /\ ey \in Int
    BY <1>1, <1>3, SMT
<1>5. /\ -Unit <= 2 * ex /\ 2 * ex <= Unit
      /\ -Unit <= 2 * ey /\ 2 * ey <= Unit
    <2>1. Unit * Round(eye[1]) \in Int /\ Unit * Round(eye[2]) \in Int
        BY <1>1, <1>3, SMT
    <2>2. /\ 2 * (Unit * Round(eye[1])) <= 2 * eye[1] + Unit
          /\ 2 * eye[1] - Unit <= 2 * (Unit * Round(eye[1]))
        BY <1>3, RoundIsNear
    <2>3. /\ 2 * (Unit * Round(eye[2])) <= 2 * eye[2] + Unit
          /\ 2 * eye[2] - Unit <= 2 * (Unit * Round(eye[2]))
        BY <1>3, RoundIsNear
    <2> QED BY <1>1, <1>3, <2>1, <2>2, <2>3, SMT
<1>6. /\ dy - dx = Unit * Column(eye, cell) - (ey - ex)
      /\ dx + dy = Unit * Line(eye, cell) - (ex + ey)
    BY <1>1, <1>3, Z3 DEF Column, Line
<1>7. Column(eye, cell) \in Int /\ Line(eye, cell) \in Int
    BY <1>3 DEF Column, Line
<1>8. /\ WindowWidth \in Nat /\ 2 * (WindowWidth \div 2) = WindowWidth
      /\ WindowHeight \in Nat /\ 2 * (WindowHeight \div 2) = WindowHeight
      /\ WindowWidth <= (View - 1) * TileWidth
      /\ WindowHeight <= (View - 1) * TileHeight
    <2>1. ASSUME NEW w \in {2 * n : n \in 1 .. 2000}
          PROVE  w \in Nat /\ 2 * (w \div 2) = w
        <3>1. PICK n \in 1 .. 2000 : w = 2 * n
            OBVIOUS
        <3> QED BY <3>1, SMT
    <2>2. WindowWidth \in {2 * n : n \in 1 .. 2000} /\ WindowHeight \in {2 * n : n \in 1 .. 2000}
        BY PixelAssumption
    <2>3. WindowWidth \in Nat /\ 2 * (WindowWidth \div 2) = WindowWidth
        BY <2>1, <2>2
    <2>4. WindowHeight \in Nat /\ 2 * (WindowHeight \div 2) = WindowHeight
        BY <2>1, <2>2
    <2> QED BY <2>3, <2>4, WindowAssumption
<1>9. /\ -(WindowWidth + TileWidth) < 2 * ((dy - dx) * px)
      /\ 2 * ((dy - dx) * px) < WindowWidth + TileWidth
      /\ -(WindowHeight + TileHeight) < 2 * ((dx + dy) * py)
      /\ 2 * ((dx + dy) * py) < WindowHeight + TileHeight
    <2>1. /\ World2Screen(eye, Middle(cell))[1] = (dy - dx) * px + WindowWidth \div 2
          /\ World2Screen(eye, Middle(cell))[2] = (dx + dy) * py + WindowHeight \div 2
        BY DEF World2Screen, Middle
    <2>2. (dy - dx) * px \in Int /\ (dx + dy) * py \in Int
        BY <1>2, <1>4, SMT
    <2> HIDE DEF dx, dy, px, py
    <2>3. /\ 2 * ((dy - dx) * px + WindowWidth \div 2) - WindowWidth = 2 * ((dy - dx) * px)
          /\ 2 * ((dx + dy) * py + WindowHeight \div 2) - WindowHeight = 2 * ((dx + dy) * py)
        BY <1>8, <2>2, SMT
    <2> QED BY <2>1, <2>3 DEF InWindow
<1> HIDE DEF dx, dy, px, py, ex, ey
<1>10. InView(Column(eye, cell))
    <2>1. dy - dx \in Int /\ ey - ex \in Int /\ -Unit <= ey - ex /\ ey - ex <= Unit
        BY <1>1, <1>4, <1>5, SMT
    <2> QED BY <1>2, <1>6, <1>7, <1>8, <1>9, <2>1, Distance
<1>11. InView(Line(eye, cell))
    <2>1. dx + dy \in Int /\ ex + ey \in Int /\ -Unit <= ex + ey /\ ex + ey <= Unit
        BY <1>1, <1>4, <1>5, SMT
    <2> QED BY <1>2, <1>6, <1>7, <1>8, <1>9, <2>1, Distance
<1> QED BY <1>10, <1>11, VisitsTheView

-----------------------------------------------------------------------------
(* What GL has bound and how it blends, and what the program remembers.    *)

Modes == {"alpha", "add"}

IsGl(g) ==
    /\ g = [bound |-> g.bound, blend |-> g.blend, curr_tex |-> g.curr_tex,
            blend_mode |-> g.blend_mode, drawn |-> g.drawn]
    /\ IsList(g.drawn)

\* What is remembered is so, except for a texture that was never bound by
\* texture_bind.
Caches(g) ==
    /\ IsGl(g)
    /\ g.blend \in Modes /\ g.blend_mode = g.blend
    /\ g.curr_tex # Missing => g.bound = g.curr_tex

LEMMA ListIsFunction ==
    ASSUME NEW s, IsList(s)
    PROVE  /\ Len(s) \in Nat /\ DOMAIN s = 1 .. Len(s) /\ s = [k \in 1 .. Len(s) |-> s[k]]
           /\ \A k \in 1 .. Len(s) : s[k] \in Range(s)
           /\ \A x \in Range(s) : \E k \in 1 .. Len(s) : x = s[k]
<1>1. s \in Seq(Range(s))
    BY DEF IsList
<1>2. Len(s) \in Nat /\ DOMAIN s = 1 .. Len(s) /\ s = [k \in 1 .. Len(s) |-> s[k]]
    BY <1>1
<1> QED BY <1>2 DEF Range

LEMMA SequenceIsList ==
    ASSUME NEW S, NEW s \in Seq(S)
    PROVE  IsList(s) /\ Range(s) \subseteq S
<1>1. Len(s) \in Nat /\ DOMAIN s = 1 .. Len(s) /\ s = [k \in 1 .. Len(s) |-> s[k]]
    OBVIOUS
<1>2. \A k \in 1 .. Len(s) : s[k] \in Range(s) /\ s[k] \in S
    BY <1>1 DEF Range
<1>3. [k \in 1 .. Len(s) |-> s[k]] \in Seq(Range(s))
    BY <1>1, <1>2
<1> QED BY <1>1, <1>2, <1>3 DEF IsList, Range

LEMMA AppendIsList ==
    ASSUME NEW s, IsList(s), NEW x
    PROVE  /\ IsList(Append(s, x)) /\ Len(Append(s, x)) = Len(s) + 1
           /\ \A k \in 1 .. Len(s) : Append(s, x)[k] = s[k]
           /\ Append(s, x)[Len(s) + 1] = x
<1>1. s \in Seq(Range(s) \union {x}) /\ x \in Range(s) \union {x} /\ Len(s) \in Nat
    <2>1. s \in Seq(Range(s))
        BY DEF IsList
    <2> QED BY <2>1
<1>2. Append(s, x) \in Seq(Range(s) \union {x})
    BY <1>1, AppendProperties
<1>3. IsList(Append(s, x))
    BY <1>2, SequenceIsList
<1> QED BY <1>1, <1>3, AppendProperties

-----------------------------------------------------------------------------
\* The texture is bound when texture_bind returns, whatever was bound before.
LEMMA TextureBound ==
    ASSUME NEW g, Caches(g), NEW tex, tex # Missing
    PROVE  LET b == TextureBind(g, tex)
           IN  /\ Caches(b) /\ b.bound = tex /\ b.curr_tex = tex
               /\ b.blend = g.blend /\ b.drawn = g.drawn
<1> DEFINE b == TextureBind(g, tex)
<1>1. CASE g.curr_tex = tex
    <2>1. b = g
        BY <1>1 DEF TextureBind
    <2> QED BY <1>1, <2>1 DEF Caches
<1>2. CASE g.curr_tex # tex
    <2>1. PICK m, r, d : m = g.blend /\ r = g.blend_mode /\ d = g.drawn
        OBVIOUS
    <2>2. PICK o, c : g = [bound |-> o, blend |-> m, curr_tex |-> c, blend_mode |-> r, drawn |-> d]
        BY <2>1 DEF Caches, IsGl
    <2>3. b = [g EXCEPT !.bound = tex, !.curr_tex = tex]
        BY <1>2 DEF TextureBind
    <2>4. b = [bound |-> tex, blend |-> m, curr_tex |-> tex, blend_mode |-> r, drawn |-> d]
        BY <2>2, <2>3
    <2> QED BY <2>1, <2>4 DEF Caches, IsGl
<1> QED BY <1>1, <1>2

\* GL blends the way blit_set_blend_mode was asked for.
LEMMA BlendSet ==
    ASSUME NEW g, Caches(g), NEW mode \in Modes
    PROVE  LET b == SetBlendMode(g, mode)
           IN  /\ Caches(b) /\ b.bound = g.bound /\ b.curr_tex = g.curr_tex
               /\ b.blend = mode /\ b.drawn = g.drawn
<1> DEFINE b == SetBlendMode(g, mode)
<1>1. CASE g.blend_mode = mode
    <2>1. b = g
        BY <1>1 DEF SetBlendMode
    <2> QED BY <1>1, <2>1 DEF Caches
<1>2. CASE g.blend_mode # mode
    <2>1. PICK o, c, d : o = g.bound /\ c = g.curr_tex /\ d = g.drawn
        OBVIOUS
    <2>2. PICK m, r : g = [bound |-> o, blend |-> m, curr_tex |-> c, blend_mode |-> r, drawn |-> d]
        BY <2>1 DEF Caches, IsGl
    <2>3. b = [g EXCEPT !.blend = mode, !.blend_mode = mode]
        BY <1>2 DEF SetBlendMode
    <2>4. b = [bound |-> o, blend |-> mode, curr_tex |-> c, blend_mode |-> mode, drawn |-> d]
        BY <2>2, <2>3
    <2> QED BY <2>1, <2>4 DEF Caches, IsGl
<1> QED BY <1>1, <1>2

LEMMA QuadsDrawn ==
    ASSUME NEW g, Caches(g), NEW d, IsList(d)
    PROVE  LET b == [g EXCEPT !.drawn = d]
           IN  /\ Caches(b) /\ b.bound = g.bound /\ b.curr_tex = g.curr_tex
               /\ b.blend = g.blend /\ b.drawn = d
<1>1. PICK o, m, c, r : o = g.bound /\ m = g.blend /\ c = g.curr_tex /\ r = g.blend_mode
    OBVIOUS
<1>2. PICK e : g = [bound |-> o, blend |-> m, curr_tex |-> c, blend_mode |-> r, drawn |-> e]
    BY <1>1 DEF Caches, IsGl
<1>3. [g EXCEPT !.drawn = d]
        = [bound |-> o, blend |-> m, curr_tex |-> c, blend_mode |-> r, drawn |-> d]
    BY <1>2
<1> QED BY <1>1, <1>3 DEF Caches, IsGl

LEMMA ClearedEmpty ==
    ASSUME NEW g, Caches(g)
    PROVE  Caches(Cleared(g)) /\ Cleared(g).blend = g.blend /\ Cleared(g).drawn = <<>>
<1>1. IsList(<<>>)
    <2>1. <<>> \in Seq({})
        OBVIOUS
    <2> QED BY <2>1, SequenceIsList
<1> QED BY <1>1, QuadsDrawn DEF Cleared

Quad(s, of) ==
    [of |-> of, texture |-> s.texture, blend |-> s.blend_mode, tint |-> s.tint, angle |-> s.angle]

\* A Sprite is drawn with its own texture and blended its own way.
LEMMA SpriteBlitted ==
    ASSUME NEW g, Caches(g), NEW s, s.texture # Missing, s.blend_mode \in Modes, NEW of
    PROVE  LET b == BlitSprite(g, s, of)
           IN  /\ Caches(b) /\ b.blend = s.blend_mode
               /\ b.bound = s.texture /\ b.curr_tex = s.texture
               /\ b.drawn = Append(g.drawn, Quad(s, of))
<1>1. PICK t : t = TextureBind(g, s.texture)
    OBVIOUS
<1>2. Caches(t) /\ t.bound = s.texture /\ t.curr_tex = s.texture /\ t.drawn = g.drawn
    BY <1>1, TextureBound
<1>3. PICK b : b = SetBlendMode(t, s.blend_mode)
    OBVIOUS
<1>4. /\ Caches(b) /\ b.bound = s.texture /\ b.curr_tex = s.texture
      /\ b.blend = s.blend_mode /\ b.drawn = g.drawn
    BY <1>2, <1>3, BlendSet
<1>5. BlitSprite(g, s, of)
        = [b EXCEPT !.drawn = Append(@, [of |-> of, texture |-> b.bound, blend |-> b.blend,
                                         tint |-> s.tint, angle |-> s.angle])]
    BY <1>1, <1>3 DEF BlitSprite
<1>6. BlitSprite(g, s, of) = [b EXCEPT !.drawn = Append(g.drawn, Quad(s, of))]
    BY <1>4, <1>5 DEF Quad
<1>7. IsList(Append(g.drawn, Quad(s, of)))
    BY AppendIsList DEF Caches, IsGl
<1>8. PICK d : d = Append(g.drawn, Quad(s, of))
    OBVIOUS
<1>9. LET u == [b EXCEPT !.drawn = d]
      IN  /\ Caches(u) /\ u.bound = b.bound /\ u.curr_tex = b.curr_tex
          /\ u.blend = b.blend /\ u.drawn = d
    <2>1. IsList(d) /\ Caches(b)
        BY <1>4, <1>7, <1>8
    <2> QED BY <2>1, QuadsDrawn
<1> QED BY <1>4, <1>6, <1>8, <1>9

-----------------------------------------------------------------------------
(* The tiles, as they are drawn.                                           *)

CornersOf(eye, cell) ==
    LET s == World2Screen(eye, Middle(cell))
    IN  [k \in DOMAIN Corners |->
            LET c == Corners[k]
            IN  [lit |-> <<2 * cell[1] + c[1], 2 * cell[2] + c[2]>>,
                 tex |-> <<c[3], c[4]>>,
                 at  |-> << s[1] + c[5] * (TileWidth \div 4),
                            s[2] + c[6] * (TileHeight \div 4) >>]]

TileQuad(eye, cell) ==
    [of |-> [tile |-> cell], texture |-> TileImages[Terrain[cell]], blend |-> "alpha",
     corners |-> CornersOf(eye, cell)]

LEMMA TileBlitted ==
    ASSUME NEW g, Caches(g), g.blend = "alpha", NEW cell,
           TileImages[Terrain[cell]] # Missing
    PROVE  LET b == IsoBlitTile(g, TileImages[Terrain[cell]], cell)
           IN  /\ Caches(b) /\ b.blend = "alpha"
               /\ b.bound = TileImages[Terrain[cell]] /\ b.curr_tex = TileImages[Terrain[cell]]
               /\ b.drawn = Append(g.drawn, TileQuad(cam, cell))
<1>1. PICK tex, quad : tex = TileImages[Terrain[cell]] /\ quad = TileQuad(cam, cell)
    OBVIOUS
<1>2. PICK b : b = TextureBind(g, tex)
    OBVIOUS
<1>3. /\ Caches(b) /\ b.bound = tex /\ b.curr_tex = tex
      /\ b.blend = "alpha" /\ b.drawn = g.drawn
    BY <1>1, <1>2, TextureBound
<1>4. IsoBlitTile(g, tex, cell)
        = [b EXCEPT !.drawn = Append(@, [of |-> [tile |-> cell], texture |-> b.bound,
                                         blend |-> b.blend, corners |-> CornersOf(cam, cell)])]
    BY <1>2 DEF IsoBlitTile, CornersOf
<1>5. [of |-> [tile |-> cell], texture |-> b.bound, blend |-> b.blend, corners |-> CornersOf(cam, cell)]
        = quad
    BY <1>1, <1>3 DEF TileQuad
<1>6. IsoBlitTile(g, tex, cell) = [b EXCEPT !.drawn = Append(g.drawn, quad)]
    BY <1>3, <1>4, <1>5
<1>7. IsList(Append(g.drawn, quad))
    BY AppendIsList DEF Caches, IsGl
<1>8. PICK d : d = Append(g.drawn, quad)
    OBVIOUS
<1>9. LET u == [b EXCEPT !.drawn = d]
      IN  /\ Caches(u) /\ u.bound = b.bound /\ u.curr_tex = b.curr_tex
          /\ u.blend = b.blend /\ u.drawn = d
    <2>1. IsList(d) /\ Caches(b)
        BY <1>3, <1>7, <1>8
    <2> QED BY <2>1, QuadsDrawn
<1> QED BY <1>1, <1>3, <1>6, <1>8, <1>9

-----------------------------------------------------------------------------
(* The states of GL, as sets, that a loop over quads goes through.         *)

GlOf(Tex, Quads) ==
    {g \in [bound : Tex, blend : Modes, curr_tex : Tex, blend_mode : Modes, drawn : Seq(Quads)] :
        Caches(g)}

LEMMA InGlOf ==
    ASSUME NEW Tex, NEW Quads, NEW g
    PROVE  g \in GlOf(Tex, Quads)
               <=> /\ Caches(g)
                   /\ g.bound \in Tex /\ g.curr_tex \in Tex /\ g.drawn \in Seq(Quads)
BY DEF GlOf, Caches, IsGl

LEMMA DivModOf ==
    ASSUME NEW w \in Nat \ {0}, NEW x \in Nat, NEW y \in 0 .. w - 1, NEW m \in Nat, x <= m
    PROVE  LET n == w * x + y
           IN  n \in Nat /\ n \div w = x /\ n % w = y /\ n < (m + 1) * w
<1>1. PICK p : p = w * x
    OBVIOUS
<1>2. p \in Nat /\ p = x * w
    BY <1>1
<1>3. PICK n : n = p + y
    OBVIOUS
<1>4. n \in Nat /\ n % w = y
    <2>1. (w * x + y) % w = y
        BY Z3
    <2> QED BY <1>1, <1>2, <1>3, <2>1
<1>5. PICK q : q = n \div w
    OBVIOUS
<1>6. q \in Nat /\ n = w * q + y
    BY <1>4, <1>5, MapAssumptions, TableAssumption, Map!DivMod
<1>7. q * w = p
    BY <1>2, <1>3, <1>6
<1>8. q = x
    <2>1. ASSUME q < x PROVE FALSE
        <3>1. PICK d \in Nat : x = q + 1 + d
            BY <1>6, <2>1
        <3>2. x * w = q * w + w + d * w /\ d * w >= 0
            BY <1>6, <3>1, SMT
        <3> QED BY <1>2, <1>6, <1>7, <3>2, SMT
    <2>2. ASSUME x < q PROVE FALSE
        <3>1. PICK d \in Nat : q = x + 1 + d
            BY <1>6, <2>2
        <3>2. q * w = x * w + w + d * w /\ d * w >= 0
            BY <1>6, <3>1, SMT
        <3> QED BY <1>2, <1>6, <1>7, <3>2, SMT
    <2> QED BY <1>6, <2>1, <2>2
<1>9. n < (m + 1) * w
    <2>1. PICK d \in Nat : m = x + d
        OBVIOUS
    <2>2. (m + 1) * w = x * w + w + d * w /\ d * w >= 0
        BY <2>1, SMT
    <2> QED BY <1>2, <1>3, <2>2, SMT
<1> QED BY <1>1, <1>3, <1>4, <1>5, <1>8, <1>9

\* Each of the turns of the two loops is another visit, and no visit is left out.
LEMMA TurnsVisit ==
    /\ Turns \in Nat
    /\ \A j, k \in 1 .. Turns : Turn(j) = Turn(k) => j = k
    /\ \A v \in Visits : \E k \in 1 .. Turns : Turn(k) = v
<1> DEFINE w == View + 1
<1>1. w \in Nat \ {0} /\ View \in Nat
    BY ViewAssumption
<1>2. Turns = (2 * View + 1) * w /\ Turns \in Nat
    BY <1>1 DEF Turns
<1>3. ASSUME NEW j \in 1 .. Turns, NEW k \in 1 .. Turns, Turn(j) = Turn(k)
      PROVE  j = k
    <2>1. j - 1 \in Nat /\ k - 1 \in Nat
        BY <1>2
    <2>2. (j - 1) \div w = (k - 1) \div w /\ (j - 1) % w = (k - 1) % w
        BY <1>3 DEF Turn
    <2> HIDE DEF w
    <2>3. j - 1 = w * ((j - 1) \div w) + ((j - 1) % w) /\ k - 1 = w * ((k - 1) \div w) + ((k - 1) % w)
        BY <1>1, <2>1, MapAssumptions, TableAssumption, Map!DivMod
    <2>4. j - 1 = k - 1
        BY <2>2, <2>3
    <2> QED BY <1>2, <2>4
<1>4. ASSUME NEW v \in Visits
      PROVE  \E k \in 1 .. Turns : Turn(k) = v
    <2>1. v = <<v[1], v[2]>> /\ v[1] \in 0 .. 2 * View /\ v[2] \in 0 .. w - 1
        BY <1>1 DEF Visits
    <2>2. PICK x, y, n : x = v[1] /\ y = v[2] /\ n = w * x + y
        OBVIOUS
    <2>3. x \in Nat /\ x <= 2 * View /\ y \in 0 .. w - 1 /\ v = <<x, y>>
        BY <1>1, <2>1, <2>2
    <2> HIDE DEF w
    <2>4. n \in Nat /\ n \div w = x /\ n % w = y /\ n < (2 * View + 1) * w
        <3>1. PICK m : m = 2 * View
            OBVIOUS
        <3>2. m \in Nat /\ x <= m
            BY <1>1, <2>3, <3>1
        <3>3. LET i == w * x + y
              IN  i \in Nat /\ i \div w = x /\ i % w = y /\ i < (m + 1) * w
            BY <1>1, <2>3, <3>2, DivModOf
        <3> QED BY <2>2, <3>1, <3>3
    <2>5. n + 1 \in 1 .. Turns /\ (n + 1) - 1 = n
        BY <1>2, <2>4
    <2>6. Turn(n + 1) = v
        BY <2>3, <2>4, <2>5 DEF Turn, w
    <2> QED BY <2>5, <2>6
<1> QED BY <1>2, <1>3, <1>4

-----------------------------------------------------------------------------
(* Loops: a loop that each turn takes from one of the sets P into the next *)
(* comes out in the last of them.                                          *)

LoopThrough(P, N, first, F) ==
    \E f :
        /\ f = [k \in 0 .. N |-> f[k]]
        /\ f[0] = first
        /\ \A k \in 1 .. N : f[k] = F[<<f[k - 1], k>>]
        /\ \A k \in 0 .. N : f[k] \in P[k]

LEMMA Looping ==
    ASSUME NEW N \in Nat, NEW P, NEW first \in P[0], NEW F,
           \A k \in 1 .. N : \A t \in P[k - 1] : F[<<t, k>>] \in P[k]
    PROVE  LoopThrough(P, N, first, F)
<1>1. Map!RecursiveThrough(P, N, first, F)
    BY MapAssumptions, TableAssumption, Map!RecursionThrough
<1> QED BY <1>1, Zenon DEF LoopThrough, Map!RecursiveThrough, Map!Recurses

LEMMA LoopStays ==
    ASSUME NEW N \in Nat, NEW P, NEW F, NEW f, f[0] \in P[0],
           \A k \in 1 .. N : f[k - 1] \in P[k - 1] => f[k] = F[<<f[k - 1], k>>],
           \A k \in 1 .. N : \A t \in P[k - 1] : F[<<t, k>>] \in P[k]
    PROVE  \A k \in 0 .. N : f[k] \in P[k]
BY MapAssumptions, TableAssumption, Map!StaysThrough

-----------------------------------------------------------------------------
(* draw_tilemap.                                                           *)

TilesLoaded == \A i \in DOMAIN TileImages : i \in DOMAIN spr /\ spr[i].texture = TileImages[i]

VisitedBy(k, cell) == \E j \in 1 .. k : Turn(j) \in Visits /\ CellAt(cam, Turn(j)) = cell

Tiles == {TileQuad(cam, cell) : cell \in Land}

\* The cells of d are those visited in the first k turns, each of them once.
DrawnBy(d, k) ==
    /\ \A i, j \in 1 .. Len(d) : d[i].of.tile = d[j].of.tile => i = j
    /\ \A cell \in Land : (\E i \in 1 .. Len(d) : d[i].of.tile = cell) <=> VisitedBy(k, cell)

LEMMA NextVisited ==
    ASSUME NEW k \in 1 .. Turns, NEW cell
    PROVE  VisitedBy(k, cell) <=> \/ VisitedBy(k - 1, cell)
                                  \/ Turn(k) \in Visits /\ CellAt(cam, Turn(k)) = cell
<1>1. Turns \in Nat
    BY TurnsVisit
<1>2. 1 .. k = (1 .. k - 1) \union {k}
    BY <1>1
<1> QED BY <1>2, Zenon DEF VisitedBy

\* No cell comes twice.
LEMMA NewCell ==
    ASSUME NEW k \in 1 .. Turns, cam \in Places, Turn(k) \in Visits
    PROVE  ~VisitedBy(k - 1, CellAt(cam, Turn(k)))
<1> SUFFICES ASSUME NEW j \in 1 .. k - 1, Turn(j) \in Visits, CellAt(cam, Turn(j)) = CellAt(cam, Turn(k))
             PROVE  FALSE
    BY DEF VisitedBy
<1>1. Turn(j) = Turn(k)
    BY VisitsOnce
<1>2. j \in 1 .. Turns /\ j # k
    BY TurnsVisit
<1> QED BY <1>1, <1>2, TurnsVisit

LEMMA CellDrawn ==
    ASSUME NEW k \in 1 .. Turns, cam \in Places, NEW d \in Seq(Tiles), DrawnBy(d, k - 1),
           NEW cell \in Land, Turn(k) \in Visits, CellAt(cam, Turn(k)) = cell,
           NEW e, e = Append(d, TileQuad(cam, cell))
    PROVE  e \in Seq(Tiles) /\ DrawnBy(e, k)
<1>1. PICK q, n : q = TileQuad(cam, cell) /\ n = Len(d)
    OBVIOUS
<1>2. q \in Tiles /\ q.of.tile = cell /\ n \in Nat
    BY <1>1 DEF Tiles, TileQuad
<1>3. /\ e \in Seq(Tiles) /\ Len(e) = n + 1 /\ e[n + 1] = q
      /\ \A i \in 1 .. n : e[i] = d[i]
    BY <1>1, <1>2, AppendProperties
<1>4. ~VisitedBy(k - 1, cell)
    BY NewCell
<1>5. \A i \in 1 .. n : d[i].of.tile # cell
    BY <1>1, <1>4 DEF DrawnBy
<1>6. \A i \in 1 .. n + 1 : i \in 1 .. n \/ i = n + 1
    BY <1>2
<1>7. \A i, j \in 1 .. n + 1 : e[i].of.tile = e[j].of.tile => i = j
    <2> TAKE i, j \in 1 .. n + 1
    <2> HAVE e[i].of.tile = e[j].of.tile
    <2>1. CASE i \in 1 .. n /\ j \in 1 .. n
        BY <1>1, <1>3, <2>1 DEF DrawnBy
    <2>2. CASE i \in 1 .. n /\ j = n + 1
        BY <1>2, <1>3, <1>5, <2>2
    <2>3. CASE i = n + 1 /\ j \in 1 .. n
        BY <1>2, <1>3, <1>5, <2>3
    <2> QED BY <1>6, <2>1, <2>2, <2>3
<1>8. ASSUME NEW c \in Land
      PROVE  (\E i \in 1 .. n + 1 : e[i].of.tile = c) <=> VisitedBy(k, c)
    <2>1. (\E i \in 1 .. n : d[i].of.tile = c) <=> VisitedBy(k - 1, c)
        BY <1>1 DEF DrawnBy
    <2>2. VisitedBy(k, c) <=> VisitedBy(k - 1, c) \/ cell = c
        BY NextVisited
    <2>3. (\E i \in 1 .. n + 1 : e[i].of.tile = c) <=> (\E i \in 1 .. n : d[i].of.tile = c) \/ cell = c
        <3>1. n + 1 \in 1 .. n + 1 /\ \A i \in 1 .. n : i \in 1 .. n + 1
            BY <1>2
        <3> QED BY <1>2, <1>3, <1>6, <3>1, Zenon
    <2> QED BY <2>1, <2>2, <2>3, Zenon
<1> QED BY <1>3, <1>7, <1>8 DEF DrawnBy

\* Every turn of the loops keeps the caches, and the tiles are blended by their
\* transparency as everything before them was.
LEMMA SweptTiles ==
    ASSUME NEW g, Caches(g), g.blend = "alpha", g.drawn = <<>>, cam \in Places, TilesLoaded
    PROVE  LET h == Swept(g)
           IN  /\ Caches(h) /\ h.blend = "alpha"
               /\ h.drawn \in Seq(Tiles) /\ DrawnBy(h.drawn, Turns)
<1>1. PICK N : N = Turns
    OBVIOUS
<1>2. N \in Nat
    BY <1>1, TurnsVisit
<1> DEFINE Tex == {g.bound, g.curr_tex} \union Range(TileImages)
           Cell(k) == CellAt(cam, Turn(k))
           Taken(k) == Turn(k) \in Visits /\ Cell(k) \in Land
           Step(u, k) == IF Taken(k)
                         THEN IsoBlitTile(u, spr[Terrain[Cell(k)]].texture, Cell(k)) ELSE u
           P == [k \in 0 .. N |-> {u \in GlOf(Tex, Tiles) : u.blend = "alpha" /\ DrawnBy(u.drawn, k)}]
           S == UNION {P[k] : k \in 0 .. N}
           F == [p \in S \X (1 .. N) |-> Step(p[1], p[2])]
           body(f) == [k \in 0 .. N |->
                        IF k = 0 THEN g
                        ELSE LET cell == CellAt(cam, Turn(k))
                             IN  IF Turn(k) \in Visits /\ cell \in Land
                                 THEN IsoBlitTile(f[k - 1], spr[Terrain[cell]].texture, cell)
                                 ELSE f[k - 1]]
           upto == CHOOSE f : f = body(f)
<1>3. Swept(g) = upto[N]
    BY <1>1, Zenon DEF Swept
<1>4. \A k \in 0 .. N : \A u : u \in P[k] <=> /\ Caches(u) /\ u.bound \in Tex /\ u.curr_tex \in Tex
                                              /\ u.drawn \in Seq(Tiles)
                                              /\ u.blend = "alpha" /\ DrawnBy(u.drawn, k)
    <2> HIDE DEF Tex
    <2> QED BY InGlOf, Zenon
<1> HIDE DEF P
<1>5. 0 \in 0 .. N /\ \A k \in 1 .. N : k \in 0 .. N /\ k - 1 \in 0 .. N /\ k # 0
    BY <1>2
<1>6. g \in P[0]
    <2>1. g.bound \in Tex /\ g.curr_tex \in Tex /\ g.drawn \in Seq(Tiles)
        OBVIOUS
    <2>2. DrawnBy(g.drawn, 0)
        <3>1. Len(g.drawn) = 0 /\ 1 .. 0 = {}
            OBVIOUS
        <3> QED BY <3>1 DEF DrawnBy, VisitedBy
    <2> HIDE DEF Tex
    <2> QED BY <1>4, <1>5, <2>1, <2>2, Zenon
<1>7. ASSUME NEW k \in 1 .. N, NEW u \in P[k - 1] PROVE Step(u, k) \in P[k]
    <2>1. /\ Caches(u) /\ u.bound \in Tex /\ u.curr_tex \in Tex
          /\ u.drawn \in Seq(Tiles) /\ u.blend = "alpha" /\ DrawnBy(u.drawn, k - 1)
        BY <1>4, <1>5, Zenon
    <2>2. CASE Taken(k)
        <3>1. PICK cell : cell = Cell(k)
            OBVIOUS
        <3>2. cell \in Land /\ Turn(k) \in Visits
            BY <2>2, <3>1
        <3>3. PICK tex : tex = TileImages[Terrain[cell]]
            OBVIOUS
        <3>4. spr[Terrain[cell]].texture = tex /\ tex \in Range(TileImages) /\ tex # Missing
            <4>1. Terrain[cell] \in DOMAIN TileImages
                BY <3>2, CellsAssumption
            <4>2. tex \in Range(TileImages) /\ spr[Terrain[cell]].texture = tex
                BY <3>3, <4>1 DEF TilesLoaded, Range
            <4> QED BY <4>2, NamesAssumption, NullAssumption DEF Names
        <3>5. PICK b : b = IsoBlitTile(u, tex, cell)
            OBVIOUS
        <3>6. /\ Caches(b) /\ b.blend = "alpha" /\ b.bound = tex /\ b.curr_tex = tex
              /\ b.drawn = Append(u.drawn, TileQuad(cam, cell))
            BY <2>1, <3>3, <3>4, <3>5, TileBlitted
        <3>7. b.drawn \in Seq(Tiles) /\ DrawnBy(b.drawn, k)
            BY <1>1, <2>1, <3>1, <3>2, <3>6, CellDrawn
        <3>8. b \in P[k]
            BY <1>4, <1>5, <3>4, <3>6, <3>7
        <3> QED BY <2>2, <3>1, <3>4, <3>5, <3>8, Zenon
    <2>3. CASE ~Taken(k)
        <3>1. Step(u, k) = u
            BY <2>3
        <3>2. DrawnBy(u.drawn, k)
            <4>1. \A cell \in Land : VisitedBy(k, cell) <=> VisitedBy(k - 1, cell)
                BY <1>1, <2>3, NextVisited
            <4> QED BY <2>1, <4>1, Zenon DEF DrawnBy
        <3> HIDE DEF Step
        <3> QED BY <1>4, <1>5, <2>1, <3>1, <3>2, Zenon
    <2> QED BY <2>2, <2>3
<1>8. \A k \in 1 .. N : \A u \in P[k - 1] : F[<<u, k>>] = Step(u, k)
    <2> TAKE k \in 1 .. N
    <2> TAKE u \in P[k - 1]
    <2>1. u \in S
        BY <1>5
    <2> HIDE DEF S
    <2>2. <<u, k>> \in S \X (1 .. N) /\ <<u, k>>[1] = u /\ <<u, k>>[2] = k
        BY <2>1
    <2> HIDE DEF Step
    <2> QED BY <2>2, Zenon
<1> HIDE DEF F
<1>9. \A k \in 1 .. N : \A u \in P[k - 1] : F[<<u, k>>] \in P[k]
    <2> HIDE DEF Step
    <2> QED BY <1>7, <1>8, Zenon
<1>10. PICK f :
               /\ f = [k \in 0 .. N |-> f[k]]
               /\ f[0] = g
               /\ \A k \in 1 .. N : f[k] = F[<<f[k - 1], k>>]
               /\ \A k \in 0 .. N : f[k] \in P[k]
    <2>1. LoopThrough(P, N, g, F)
        BY <1>2, <1>6, <1>9, Looping
    <2> QED BY <2>1, Zenon DEF LoopThrough
<1>11. f = body(f)
    <2>1. \A k \in 0 .. N : f[k] = body(f)[k]
        <3> TAKE k \in 0 .. N
        <3>1. CASE k = 0
            BY <1>10, <3>1, Zenon
        <3>2. CASE k # 0
            <4>1. k \in 1 .. N /\ k - 1 \in 0 .. N
                BY <1>2, <3>2
            <4>2. f[k] = Step(f[k - 1], k)
                BY <1>8, <1>10, <4>1, Zenon
            <4> QED BY <3>2, <4>2, Zenon
        <3> QED BY <3>1, <3>2
    <2>2. body(f) = [k \in 0 .. N |-> body(f)[k]]
        BY Zenon
    <2> HIDE DEF body
    <2> QED BY <1>10, <2>1, <2>2, Zenon
<1>12. upto = body(upto)
    BY <1>11, Zenon
<1>13. PICK r : r = upto
    OBVIOUS
<1>14. r = body(r)
    <2> HIDE DEF body, upto
    <2> QED BY <1>12, <1>13, Zenon
<1>15. r[0] = g /\ \A k \in 1 .. N : r[k] = Step(r[k - 1], k)
    BY <1>5, <1>14, Zenon
<1> HIDE DEF upto, body, Step
<1>16. \A k \in 0 .. N : r[k] \in P[k]
    <2>1. r[0] \in P[0] /\ \A k \in 1 .. N : r[k - 1] \in P[k - 1] => r[k] = F[<<r[k - 1], k>>]
        BY <1>6, <1>8, <1>15, Zenon
    <2> QED BY <1>2, <1>9, <2>1, LoopStays
<1>17. r[N] \in P[N] /\ N \in 0 .. N
    BY <1>2, <1>16
<1> QED BY <1>1, <1>3, <1>4, <1>13, <1>17, Zenon

\* The k-th cell is drawn once, when it is in the window.
LEMMA TilesCover ==
    ASSUME cam \in Places, NEW d \in Seq(Tiles), DrawnBy(d, Turns), NEW cell \in Land
    PROVE  LET times == Cardinality({k \in DOMAIN d : d[k].of.tile = cell})
           IN  times <= 1 /\ (InWindow(cam, cell) => times = 1)
<1>1. PICK K : K = {k \in DOMAIN d : d[k].of.tile = cell}
    OBVIOUS
<1>2. DOMAIN d = 1 .. Len(d)
    OBVIOUS
<1>3. \A i, j \in K : i = j
    BY <1>1, <1>2 DEF DrawnBy
<1>4. Cardinality(K) <= 1 /\ (K # {} => Cardinality(K) = 1)
    <2>1. CASE K = {}
        BY <2>1, FS_EmptySet
    <2>2. CASE K # {}
        <3>1. PICK i : i \in K
            BY <2>2
        <3>2. K = {i}
            BY <1>3, <3>1
        <3>3. Cardinality(K) = 1
            BY <3>2, FS_Singleton, Zenon
        <3> QED BY <3>3
    <2> QED BY <2>1, <2>2
<1>5. ASSUME InWindow(cam, cell) PROVE K # {}
    <2>1. cell \in Places
        BY MapAssumption DEF Land, Places
    <2>2. PICK v \in Visits : CellAt(cam, v) = cell
        BY <1>5, <2>1, WindowIsVisited
    <2>3. PICK k \in 1 .. Turns : Turn(k) = v
        BY TurnsVisit
    <2>4. VisitedBy(Turns, cell)
        BY <2>2, <2>3 DEF VisitedBy
    <2>5. \E i \in 1 .. Len(d) : d[i].of.tile = cell
        BY <2>4 DEF DrawnBy
    <2> QED BY <1>1, <1>2, <2>5
<1> QED BY <1>1, <1>4, <1>5

-----------------------------------------------------------------------------
\* The table of the corners says of each the same place three times.
CornerRow(c) ==
    /\ c[1] \in {-1, 0, 1} /\ c[2] \in {-1, 0, 1}
    /\ c[3] = 2 + c[2] - c[1] /\ c[4] = 2 + c[1] + c[2]
    /\ c[5] = c[2] - c[1] /\ c[6] = c[1] + c[2]

LEMMA CornerTable ==
    /\ Corners[1] = <<1, -1, 0, 2, -2, 0>>
    /\ Corners[2] = <<0, -1, 1, 1, -1, -1>>
    /\ Corners[3] = <<0, 0, 2, 2, 0, 0>>
    /\ Corners[4] = <<1, 0, 1, 3, -1, 1>>
    /\ Corners[5] = <<0, -1, 1, 1, -1, -1>>
    /\ Corners[6] = <<-1, -1, 2, 0, 0, -2>>
    /\ Corners[7] = <<-1, 0, 3, 1, 1, -1>>
    /\ Corners[8] = <<0, 0, 2, 2, 0, 0>>
    /\ Corners[9] = <<0, 0, 2, 2, 0, 0>>
    /\ Corners[10] = <<-1, 0, 3, 1, 1, -1>>
    /\ Corners[11] = <<-1, 1, 4, 2, 2, 0>>
    /\ Corners[12] = <<0, 1, 3, 3, 1, 1>>
    /\ Corners[13] = <<1, 0, 1, 3, -1, 1>>
    /\ Corners[14] = <<0, 0, 2, 2, 0, 0>>
    /\ Corners[15] = <<0, 1, 3, 3, 1, 1>>
    /\ Corners[16] = <<1, 1, 2, 4, 0, 2>>
BY DEF Corners

LEMMA CornersRight == DOMAIN Corners = 1 .. 16 /\ \A k \in 1 .. 16 : CornerRow(Corners[k])
<1>2. /\ CornerRow(<<-1, -1, 2, 0, 0, -2>>)
      /\ CornerRow(<<-1, 0, 3, 1, 1, -1>>)
      /\ CornerRow(<<-1, 1, 4, 2, 2, 0>>)
      /\ CornerRow(<<0, -1, 1, 1, -1, -1>>)
      /\ CornerRow(<<0, 0, 2, 2, 0, 0>>)
      /\ CornerRow(<<0, 1, 3, 3, 1, 1>>)
      /\ CornerRow(<<1, -1, 0, 2, -2, 0>>)
      /\ CornerRow(<<1, 0, 1, 3, -1, 1>>)
      /\ CornerRow(<<1, 1, 2, 4, 0, 2>>)
    BY DEF CornerRow
<1>3. DOMAIN Corners = 1 .. 16
    BY DEF Corners
<1>4. 1 .. 16 = {1, 2, 3, 4, 5, 6, 7, 8, 9, 10, 11, 12, 13, 14, 15, 16}
    OBVIOUS
<1>5. \A k \in {1, 2, 3, 4, 5, 6, 7, 8, 9, 10, 11, 12, 13, 14, 15, 16} : CornerRow(Corners[k])
    BY <1>2, CornerTable, Zenon
<1> QED BY <1>3, <1>4, <1>5, Zenon

LEMMA TileAsMeant ==
    ASSUME NEW cell \in Land, TilesLoaded, NEW q, q = TileQuad(cam, cell)
    PROVE  /\ q.of = [tile |-> cell] /\ "tile" \in DOMAIN q.of /\ q.of.tile = cell
           /\ q.texture = spr[Terrain[cell]].texture /\ q.texture = TileImages[Terrain[cell]]
           /\ q.blend = "alpha"
           /\ \A j \in DOMAIN q.corners : CornerInPlace(cell, q.corners[j])
           /\ QuartersOf(cell, q.corners)
<1>1. cell[1] \in Int /\ cell[2] \in Int
    BY MapAssumption DEF Land
<1>2. PICK x, y : x = 2 * cell[1] /\ y = 2 * cell[2] /\ x \in Int /\ y \in Int
    BY <1>1
<1>3. PICK corners : corners = CornersOf(cam, cell)
    OBVIOUS
<1>4. /\ q.of = [tile |-> cell] /\ "tile" \in DOMAIN q.of /\ q.of.tile = cell
      /\ q.texture = TileImages[Terrain[cell]] /\ q.blend = "alpha" /\ q.corners = corners
    BY <1>3 DEF TileQuad
<1>5. q.texture = spr[Terrain[cell]].texture
    BY <1>4, CellsAssumption DEF TilesLoaded
<1>6. DOMAIN corners = 1 .. 16
    BY <1>3, CornersRight DEF CornersOf
<1>7. ASSUME NEW k \in 1 .. 16
      PROVE  LET c == Corners[k]
                 s == World2Screen(cam, Middle(cell))
             IN  corners[k] = [lit |-> <<x + c[1], y + c[2]>>, tex |-> <<c[3], c[4]>>,
                               at |-> << s[1] + c[5] * (TileWidth \div 4),
                                         s[2] + c[6] * (TileHeight \div 4) >>]
    BY <1>2, <1>3, CornersRight DEF CornersOf
<1>8. ASSUME NEW k \in 1 .. 16
      PROVE  CornerInPlace(cell, corners[k])
    <2>1. PICK c, s, w, h : c = Corners[k] /\ s = World2Screen(cam, Middle(cell))
                            /\ w = TileWidth \div 4 /\ h = TileHeight \div 4
        OBVIOUS
    <2>2. PICK a, b : a = c[1] /\ b = c[2]
        OBVIOUS
    <2>3. a \in Int /\ b \in Int /\ c[3] = 2 + b - a /\ c[4] = 2 + a + b /\ c[5] = b - a /\ c[6] = a + b
        BY <2>1, <2>2, CornersRight DEF CornerRow
    <2>4. corners[k] = [lit |-> <<x + a, y + b>>, tex |-> <<2 + b - a, 2 + a + b>>,
                        at |-> << s[1] + (b - a) * w, s[2] + (a + b) * h >>]
        BY <1>7, <2>1, <2>2, <2>3, Zenon
    <2>5. (x + a) - x = a /\ (y + b) - y = b
        BY <1>2, <2>3
    <2>6. /\ corners[k].lit[1] = x + a /\ corners[k].lit[2] = y + b
          /\ corners[k].tex = <<2 + b - a, 2 + a + b>>
          /\ corners[k].at = << s[1] + (b - a) * w, s[2] + (a + b) * h >>
        <3>1. PICK l, m, p : /\ l = <<x + a, y + b>> /\ m = <<2 + b - a, 2 + a + b>>
                             /\ p = << s[1] + (b - a) * w, s[2] + (a + b) * h >>
            OBVIOUS
        <3>2. corners[k] = [lit |-> l, tex |-> m, at |-> p]
            BY <2>4, <3>1, Zenon
        <3>3. l[1] = x + a /\ l[2] = y + b
            BY <3>1
        <3>4. corners[k].lit = l /\ corners[k].tex = m /\ corners[k].at = p
            BY <3>2
        <3> QED BY <3>1, <3>3, <3>4, Zenon
    <2>7. CornerInPlace(cell, corners[k])
            <=> /\ corners[k].at = << s[1] + (((y + b) - y) - ((x + a) - x)) * w,
                                      s[2] + (((x + a) - x) + ((y + b) - y)) * h >>
                /\ corners[k].tex = << 2 + ((y + b) - y) - ((x + a) - x),
                                       2 + ((x + a) - x) + ((y + b) - y) >>
        BY <1>2, <2>1, <2>6, Zenon DEF CornerInPlace
    <2> QED BY <2>5, <2>6, <2>7, Zenon
<1>9. QuartersOf(cell, corners)
    <2>1. \A k \in 1 .. 16 : corners[k].lit = <<x + Corners[k][1], y + Corners[k][2]>>
        BY <1>7
    <2> DEFINE Lit(a, b) == <<x + a, y + b>>
               Square(a, b) == {x + a, x + a + 1} \X {y + b, y + b + 1}
               Quarters == {{corners[4 * n + k].lit : k \in 1 .. 4} : n \in 0 .. 3}
    <2>2. /\ corners[1].lit = Lit(1, -1) /\ corners[2].lit = Lit(0, -1)
          /\ corners[3].lit = Lit(0, 0) /\ corners[4].lit = Lit(1, 0)
          /\ corners[5].lit = Lit(0, -1) /\ corners[6].lit = Lit(-1, -1)
          /\ corners[7].lit = Lit(-1, 0) /\ corners[8].lit = Lit(0, 0)
          /\ corners[9].lit = Lit(0, 0) /\ corners[10].lit = Lit(-1, 0)
          /\ corners[11].lit = Lit(-1, 1) /\ corners[12].lit = Lit(0, 1)
          /\ corners[13].lit = Lit(1, 0) /\ corners[14].lit = Lit(0, 0)
          /\ corners[15].lit = Lit(0, 1) /\ corners[16].lit = Lit(1, 1)
        <3>1. /\ corners[1].lit = Lit(1, -1) /\ corners[2].lit = Lit(0, -1)
              /\ corners[3].lit = Lit(0, 0) /\ corners[4].lit = Lit(1, 0)
            BY <2>1, CornerTable
        <3>2. /\ corners[5].lit = Lit(0, -1) /\ corners[6].lit = Lit(-1, -1)
              /\ corners[7].lit = Lit(-1, 0) /\ corners[8].lit = Lit(0, 0)
            BY <2>1, CornerTable
        <3>3. /\ corners[9].lit = Lit(0, 0) /\ corners[10].lit = Lit(-1, 0)
              /\ corners[11].lit = Lit(-1, 1) /\ corners[12].lit = Lit(0, 1)
            BY <2>1, CornerTable
        <3>4. /\ corners[13].lit = Lit(1, 0) /\ corners[14].lit = Lit(0, 0)
              /\ corners[15].lit = Lit(0, 1) /\ corners[16].lit = Lit(1, 1)
            BY <2>1, CornerTable
        <3> QED BY <3>1, <3>2, <3>3, <3>4
    <2>3. Quarters = { {Lit(1, -1), Lit(0, -1), Lit(0, 0), Lit(1, 0)},
                       {Lit(0, -1), Lit(-1, -1), Lit(-1, 0), Lit(0, 0)},
                       {Lit(0, 0), Lit(-1, 0), Lit(-1, 1), Lit(0, 1)},
                       {Lit(1, 0), Lit(0, 0), Lit(0, 1), Lit(1, 1)} }
        <3> DEFINE Four(n) == {corners[4 * n + k].lit : k \in 1 .. 4}
        <3>1. 1 .. 4 = {1, 2, 3, 4} /\ 0 .. 3 = {0, 1, 2, 3}
            OBVIOUS
        <3>2. \A n : Four(n) = {corners[4 * n + 1].lit, corners[4 * n + 2].lit,
                                corners[4 * n + 3].lit, corners[4 * n + 4].lit}
            BY <3>1, Zenon
        <3>3. /\ 4 * 0 + 1 = 1 /\ 4 * 0 + 2 = 2 /\ 4 * 0 + 3 = 3 /\ 4 * 0 + 4 = 4
              /\ 4 * 1 + 1 = 5 /\ 4 * 1 + 2 = 6 /\ 4 * 1 + 3 = 7 /\ 4 * 1 + 4 = 8
              /\ 4 * 2 + 1 = 9 /\ 4 * 2 + 2 = 10 /\ 4 * 2 + 3 = 11 /\ 4 * 2 + 4 = 12
              /\ 4 * 3 + 1 = 13 /\ 4 * 3 + 2 = 14 /\ 4 * 3 + 3 = 15 /\ 4 * 3 + 4 = 16
            OBVIOUS
        <3>4. /\ Four(0) = {Lit(1, -1), Lit(0, -1), Lit(0, 0), Lit(1, 0)}
              /\ Four(1) = {Lit(0, -1), Lit(-1, -1), Lit(-1, 0), Lit(0, 0)}
              /\ Four(2) = {Lit(0, 0), Lit(-1, 0), Lit(-1, 1), Lit(0, 1)}
              /\ Four(3) = {Lit(1, 0), Lit(0, 0), Lit(0, 1), Lit(1, 1)}
            <4> HIDE DEF Four, Lit
            <4> QED BY <2>2, <3>2, <3>3
        <3>5. Quarters = {Four(n) : n \in {0, 1, 2, 3}}
            BY <3>1, Zenon
        <3>6. {Four(n) : n \in {0, 1, 2, 3}} = {Four(0), Four(1), Four(2), Four(3)}
            <4> HIDE DEF Four
            <4> QED BY Zenon
        <3> HIDE DEF Four, Lit, Quarters
        <3> QED BY <3>4, <3>5, <3>6, Zenon
    <2>4. /\ Square(-1, -1) = {Lit(-1, -1), Lit(-1, 0), Lit(0, -1), Lit(0, 0)}
          /\ Square(-1, 0) = {Lit(-1, 0), Lit(-1, 1), Lit(0, 0), Lit(0, 1)}
          /\ Square(0, -1) = {Lit(0, -1), Lit(0, 0), Lit(1, -1), Lit(1, 0)}
          /\ Square(0, 0) = {Lit(0, 0), Lit(0, 1), Lit(1, 0), Lit(1, 1)}
        <3>1. \A a, b, c, e : {a, b} \X {c, e} = {<<a, c>>, <<a, e>>, <<b, c>>, <<b, e>>}
            OBVIOUS
        <3>2. /\ x + (-1) + 1 = x + 0 /\ x + 0 + 1 = x + 1
              /\ y + (-1) + 1 = y + 0 /\ y + 0 + 1 = y + 1
            BY <1>2
        <3>3. ASSUME NEW a, NEW b, NEW c, NEW e, x + a + 1 = x + c, y + b + 1 = y + e
              PROVE  Square(a, b) = {Lit(a, b), Lit(a, e), Lit(c, b), Lit(c, e)}
            <4>1. PICK u, v, w, z : u = x + a /\ v = x + c /\ w = y + b /\ z = y + e
                OBVIOUS
            <4>2. Square(a, b) = {u, v} \X {w, z}
                BY <3>3, <4>1
            <4>3. /\ Lit(a, b) = <<u, w>> /\ Lit(a, e) = <<u, z>>
                  /\ Lit(c, b) = <<v, w>> /\ Lit(c, e) = <<v, z>>
                BY <4>1
            <4> HIDE DEF Square, Lit
            <4>4. {u, v} \X {w, z} = {<<u, w>>, <<u, z>>, <<v, w>>, <<v, z>>}
                BY <3>1
            <4> QED BY <4>2, <4>3, <4>4
        <3> HIDE DEF Square, Lit
        <3>4. Square(-1, -1) = {Lit(-1, -1), Lit(-1, 0), Lit(0, -1), Lit(0, 0)}
            BY <3>2, <3>3
        <3>5. Square(-1, 0) = {Lit(-1, 0), Lit(-1, 1), Lit(0, 0), Lit(0, 1)}
            BY <3>2, <3>3
        <3>6. Square(0, -1) = {Lit(0, -1), Lit(0, 0), Lit(1, -1), Lit(1, 0)}
            BY <3>2, <3>3
        <3>7. Square(0, 0) = {Lit(0, 0), Lit(0, 1), Lit(1, 0), Lit(1, 1)}
            BY <3>2, <3>3
        <3> QED BY <3>4, <3>5, <3>6, <3>7
    <2>5. {Square(a, b) : a, b \in {-1, 0}} = {Square(-1, -1), Square(-1, 0), Square(0, -1), Square(0, 0)}
        <3> HIDE DEF Square
        <3> QED OBVIOUS
    <2>6. QuartersOf(cell, corners) <=> Quarters = {Square(a, b) : a, b \in {-1, 0}}
        <3> DEFINE SquareAt(a, b) == {2 * cell[1] + a, 2 * cell[1] + a + 1}
                                         \X {2 * cell[2] + b, 2 * cell[2] + b + 1}
        <3>1. \A a, b \in {-1, 0} : SquareAt(a, b) = Square(a, b)
            BY <1>2, Zenon
        <3>2. QuartersOf(cell, corners) <=> Quarters = {SquareAt(a, b) : a, b \in {-1, 0}}
            BY SMT DEF QuartersOf
        <3> HIDE DEF SquareAt, Square, Quarters
        <3>3. {SquareAt(a, b) : a, b \in {-1, 0}} = {Square(a, b) : a, b \in {-1, 0}}
            BY <3>1
        <3> QED BY <3>2, <3>3
    <2> HIDE DEF Lit, Square, Quarters
    <2>7. Quarters = {Square(-1, -1), Square(-1, 0), Square(0, -1), Square(0, 0)}
        <3>1. /\ {Lit(1, -1), Lit(0, -1), Lit(0, 0), Lit(1, 0)} = Square(0, -1)
              /\ {Lit(0, -1), Lit(-1, -1), Lit(-1, 0), Lit(0, 0)} = Square(-1, -1)
              /\ {Lit(0, 0), Lit(-1, 0), Lit(-1, 1), Lit(0, 1)} = Square(-1, 0)
              /\ {Lit(1, 0), Lit(0, 0), Lit(0, 1), Lit(1, 1)} = Square(0, 0)
            BY <2>4
        <3> QED BY <2>3, <3>1
    <2> QED BY <2>5, <2>6, <2>7
<1> QED BY <1>4, <1>5, <1>6, <1>8, <1>9

-----------------------------------------------------------------------------
(* The inductive invariant: what the calls of load_assets that were made   *)
(* left behind, and what of it a frame relies on.                          *)

done == Len(LoadAssets) - Len(script)

Held(t) == {t.at[h] : h \in 0 .. t.size - 1} \ {Empty}

\* A table that counted n elements without a key.
Filled(t, n) ==
    /\ Map!Table(t) /\ Map!Roomy(t)
    /\ t.size = t.free + n + Cardinality(Held(t))

\* A call gives the name to a Sprite with this texture, which is blended in
\* this mode; one of the first n calls does.
GivenBy(c, name, tex, mode) ==
    \E k \in DOMAIN NamesOf(c) :
        /\ name = NamesOf(c)[k]
        /\ tex = IF c.call = "sheet" THEN c.arg.image ELSE name
        /\ mode = IF c.call = "flare" THEN "add" ELSE "alpha"

Given(n, name, tex, mode) == \E j \in 1 .. n : GivenBy(LoadAssets[j], name, tex, mode)

\* The Sprites that are turned and coloured when they are drawn.
Moving == {Flare} \union UNION {Range(sheet.names) : sheet \in Range(SplitSheets)}

Still(p) == \A e \in Held(sprites) : e.elem = p => e.key \notin Moving

IsSprite(s) ==
    /\ s = [texture |-> s.texture, blend_mode |-> s.blend_mode, tint |-> s.tint, angle |-> s.angle]
    /\ s.texture # Missing /\ s.blend_mode \in Modes

Upright(s) == s.tint = White /\ s.angle = 0

SpritesRight ==
    /\ IsList(spr) /\ \A p \in DOMAIN spr : IsSprite(spr[p]) /\ (Still(p) => Upright(spr[p]))
    /\ Filled(sprites, 0)
    /\ \A e \in Held(sprites) :
          e.elem \in DOMAIN spr /\ Given(done, e.key, spr[e.elem].texture, spr[e.elem].blend_mode)
    /\ \A d, e \in Held(sprites) : d.elem = e.elem => d = e
    /\ \A name, tex, mode : Given(done, name, tex, mode) => \E e \in Held(sprites) : e.key = name

TilesRight ==
    /\ \A i \in DOMAIN TileImages : i <= done => i \in DOMAIN spr /\ spr[i].texture = TileImages[i]
    /\ done <= Len(TileImages) => Len(spr) = done

Nameless(font) == {k \in DOMAIN font.glyphs : font.glyphs[k] = NoName}

GlyphsOf(t, font) ==
    /\ Filled(t, Cardinality(Nameless(font)))
    /\ \A x \in Held(t) :
          /\ x.elem \in DOMAIN spr
          /\ spr[x.elem].texture = font.image /\ spr[x.elem].blend_mode = "alpha"
          /\ \A e \in Held(sprites) : e.elem # x.elem
    /\ \A k \in DOMAIN font.glyphs :
          font.glyphs[k] # NoName => \E x \in Held(t) : x.key = font.glyphs[k]

FontsRight ==
    /\ IsList(glyphs)
    /\ Filled(fonts, 0)
    /\ \A e \in Held(fonts) :
          /\ e.elem \in DOMAIN glyphs
          /\ \E font \in Range(Fonts) : e.key = font.name /\ GlyphsOf(glyphs[e.elem], font)
    /\ \A j \in 1 .. done :
          LoadAssets[j].call = "font" => \E e \in Held(fonts) : e.key = LoadAssets[j].arg.name

FrameOf(p, name) == \E e \in Held(sprites) : e.key = name /\ e.elem = p

DirectionOf(f, a, d) ==
    /\ f = [k \in 1 .. a.len |-> f[k]]
    /\ \A k \in 1 .. a.len : FrameOf(f[k], <<a.prefix, d * a.len + k>>)

FramesOf(f, a) == \A d \in 0 .. Directions - 1 : DirectionOf(f[d], a, d)

AnimsRight ==
    /\ IsList(frames)
    /\ Filled(anims, 0)
    /\ \A e \in Held(anims) :
          /\ e.elem \in DOMAIN frames
          /\ \E a \in Range(Animations) : e.key = <<a.prefix, 0>> /\ FramesOf(frames[e.elem], a)
    /\ \A j \in 1 .. done :
          LoadAssets[j].call = "anim" =>
              \E e \in Held(anims) : e.key = <<LoadAssets[j].arg.prefix, 0>>

\* An element of the batch will look right when its Sprite is prepared for it.
InBatch(e) ==
    /\ \E x \in Held(sprites) : x.elem = e.sprite /\ x.key \in Moving
    /\ "tile" \notin DOMAIN e.of
    /\ Look(e.of) = [texture |-> spr[e.sprite].texture, blend |-> spr[e.sprite].blend_mode,
                     tint |-> [light |-> Light(e), fade |-> e.fade], angle |-> e.angle]

BatchRight == IsList(zbatch) /\ \A k \in DOMAIN zbatch : InBatch(zbatch[k])

Meant(q) ==
    /\ "tile" \notin DOMAIN q.of
    /\ [texture |-> q.texture, blend |-> q.blend, tint |-> q.tint, angle |-> q.angle] = Look(q.of)

DrawnRight ==
    /\ Caches(gl)
    /\ script # <<>> => gl.curr_tex = Missing
    /\ phase \in {"logic", "tiles"} => gl.blend = "alpha"
    /\ phase = "critters" => gl.drawn \in Seq(Tiles) /\ DrawnBy(gl.drawn, Turns)
    /\ phase # "critters" => \A k \in DOMAIN gl.drawn : Meant(gl.drawn[k])

InOrder ==
    /\ done \in 0 .. Len(LoadAssets)
    /\ script = [i \in 1 .. Len(LoadAssets) - done |-> LoadAssets[done + i]]
    /\ phase \in Phases
    /\ script # <<>> => phase = "logic"
    /\ phase # "logic" => scene \in Scenes
    /\ cam \in Places
    /\ zbatch # <<>> => phase \in {"spells", "spells again", "batch"}

DrawInv ==
    /\ InOrder /\ SpritesRight /\ TilesRight /\ FontsRight /\ AnimsRight
    /\ BatchRight /\ DrawnRight

-----------------------------------------------------------------------------
(* The tables.                                                             *)

LEMMA SameHeld ==
    ASSUME NEW t
    PROVE  Map!Contents(t) = Held(t)
BY Zenon DEF Map!Contents, Map!Part, Held

LEMMA SameCounts ==
    ASSUME NEW S
    PROVE  Map!Cardinality(S) = Cardinality(S) /\ Map!IsFiniteSet(S) = IsFiniteSet(S)
BY Zenon DEF Cardinality, Map!Cardinality, IsFiniteSet, Map!IsFiniteSet

LEMMA TableShape ==
    ASSUME NEW t, Map!Table(t)
    PROVE  /\ t = [size |-> t.size, free |-> t.free, at |-> t.at]
           /\ t.size \in Nat \ {0} /\ t.free \in Nat
           /\ t.at \in [0 .. t.size - 1 -> Map!Entry \union {Empty}]
           /\ Held(t) \subseteq Map!Entry
           /\ IsFiniteSet(Held(t)) /\ Cardinality(Held(t)) \in Nat
           /\ EmptySlots(t) = {h \in 0 .. t.size - 1 : t.at[h] = Empty}
           /\ Cardinality(EmptySlots(t)) = t.size - Cardinality(Held(t))
<1>1. /\ t = [size |-> t.size, free |-> t.free, at |-> t.at]
      /\ t.size \in Nat \ {0} /\ t.free \in Nat
      /\ t.at \in [0 .. t.size - 1 -> Map!Entry \union {Empty}]
    BY DEF Map!Table, Map!Slotted
<1>2. Held(t) \subseteq Map!Entry
    <2>1. \A h \in 0 .. t.size - 1 : t.at[h] \in Map!Entry \union {Empty}
        BY <1>1
    <2> QED BY <2>1 DEF Held
<1>3. Map!IsFiniteSet(Held(t))
    <2>1. Map!IsFiniteSet(Map!Part(t, t.size))
        BY <1>1, MapAssumptions, TableAssumption, Map!PartFinite
    <2> QED BY <2>1, SameHeld, Zenon DEF Map!Contents
<1>4. IsFiniteSet(Held(t)) /\ Cardinality(Held(t)) \in Nat
    BY <1>3, SameCounts, FS_CardinalityType
<1>5. EmptySlots(t) = {h \in 0 .. t.size - 1 : t.at[h] = Empty}
    BY <1>1 DEF EmptySlots
<1>6. Cardinality(EmptySlots(t)) = t.size - Cardinality(Held(t))
    <2>1. EmptySlots(t) = Map!EmptySlots(t)
        BY Zenon DEF EmptySlots, Map!EmptySlots
    <2>2. Map!Cardinality(Map!EmptySlots(t)) = t.size - Map!Cardinality(Map!Contents(t))
        BY MapAssumptions, TableAssumption, Map!EmptyCount
    <2> QED BY <2>1, <2>2, SameHeld, SameCounts
<1> QED BY <1>1, <1>2, <1>4, <1>5, <1>6

\* A table has free slots however many elements have no key.
LEMMA FilledHasRoom ==
    ASSUME NEW t, NEW n \in Nat, Filled(t, n)
    PROVE  /\ 4 * t.free > t.size
           /\ t.free + n = Cardinality(EmptySlots(t))
           /\ Cardinality(Held(t)) < t.size
<1>1. Map!Table(t) /\ t.size = t.free + n + Cardinality(Held(t))
    BY DEF Filled
<1>2. 4 * t.free > t.size
    BY DEF Filled, Map!Roomy
<1> QED BY <1>1, <1>2, TableShape

LEMMA NewTableFilled ==
    ASSUME NEW t, t = NewTable(MinSize)
    PROVE  Filled(t, 0) /\ Held(t) = {}
<1>1. t = Map!NewTable(MinSize)
    BY Zenon DEF NewTable, Map!NewTable
<1>2. Map!Good(t) /\ Map!Contents(t) = {}
    BY <1>1, MapAssumptions, TableAssumption, Map!NewTableGood
<1>3. Map!Table(t) /\ Map!Counted(t) /\ Map!Roomy(t)
    BY <1>2, Zenon DEF Map!Good
<1>4. t.size = t.free + Cardinality(Held(t))
    BY <1>3, SameHeld, SameCounts DEF Map!Counted
<1>5. t.size = t.free + 0 + Cardinality(Held(t))
    BY <1>3, <1>4, TableShape
<1> QED BY <1>2, <1>3, <1>5, SameHeld DEF Filled

-----------------------------------------------------------------------------
(* Searching.                                                              *)

\* A search finds one of the elements under the key, when there is any.
LEMMA FindFinds ==
    ASSUME NEW t, Map!Table(t), NEW key \in DOMAIN Home
    PROVE  /\ HashmapFind(t, key) # Missing
                  => \E e \in Held(t) : e.key = key /\ e.elem = HashmapFind(t, key)
           /\ (\E e \in Held(t) : e.key = key) => HashmapFind(t, key) # Missing
<1>1. Home[key] \in Nat /\ Map!Slotted(t)
    BY TableAssumption DEF Map!Table
<1>2. Found(t, key) = Map!Found(t, key)
    BY Zenon DEF Found, Map!Found, SlotsOf, Map!SlotsOf, EmptySlots, Map!EmptySlots,
                 FirstProbed, Map!FirstProbed
<1>3. PICK F : F = Found(t, key)
    OBVIOUS
<1>4. /\ \A h \in F : h \in 0 .. t.size - 1 /\ t.at[h] # Empty /\ t.at[h].key = key
      /\ F = {} <=> \A e \in Held(t) : e.key # key
    BY <1>1, <1>2, <1>3, SameHeld, MapAssumptions, TableAssumption, Map!FoundIsThere
<1>5. CASE F = {}
    <2>1. HashmapFind(t, key) = Missing
        BY <1>3, <1>5 DEF HashmapFind, Find
    <2> QED BY <1>4, <1>5, <2>1
<1>6. CASE F # {}
    <2>1. PICK h : h = CHOOSE i \in F : TRUE
        OBVIOUS
    <2>2. h \in F
        BY <1>6, <2>1
    <2>3. HashmapFind(t, key) = t.at[h].elem
        BY <1>3, <1>6, <2>1, Zenon DEF HashmapFind, Find
    <2>4. t.at[h] \in Held(t) /\ t.at[h].key = key
        BY <1>4, <2>2 DEF Held
    <2>5. t.at[h].elem # Missing
        BY <2>4, TableShape, NullAssumption DEF Map!Entry
    <2> QED BY <2>3, <2>4, <2>5
<1> QED BY <1>5, <1>6

-----------------------------------------------------------------------------
(* Inserting.                                                              *)

\* A table may grow when a slot was written, and has room again.
LEMMA GrowsIfFull ==
    ASSUME NEW w, Map!Table(w), NEW n \in Nat, w.size = w.free + n + Cardinality(Held(w)),
           NEW m \in Nat, w.size = 4 * m,
           NEW u, u = IF w.free <= w.size \div 4 THEN Resize(w, 4 * w.size) ELSE w
    PROVE  Filled(u, n) /\ Held(u) = Held(w)
<1>1. w.size \in Nat \ {0} /\ w.free \in Nat /\ Cardinality(Held(w)) \in Nat
    BY TableShape
<1>2. w.size \div 4 = m /\ m > 0
    BY <1>1
<1>3. CASE w.free <= m
    <2>1. PICK s : s = 4 * w.size
        OBVIOUS
    <2>2. PICK f : f = w.free + s - w.size
        OBVIOUS
    <2>3. s \in Nat \ {0} /\ f \in Nat /\ 4 * f > s /\ Cardinality(Held(w)) < s
          /\ s = f + n + Cardinality(Held(w))
        <3>1. PICK x, y, c : x = w.size /\ y = w.free /\ c = Cardinality(Held(w))
            OBVIOUS
        <3>2. x \in Nat \ {0} /\ y \in Nat /\ c \in Nat /\ x = y + n + c
              /\ s = 4 * x /\ f = y + s - x
            BY <1>1, <2>1, <2>2, <3>1, Zenon
        <3>3. s \in Nat \ {0} /\ f \in Nat /\ 4 * f > s /\ c < s /\ s = f + n + c
            BY <3>2
        <3> QED BY <3>1, <3>3
    <2>4. PICK new : new = [size |-> s, free |-> f, at |-> [h \in 0 .. s - 1 |-> Empty]]
        OBVIOUS
    <2>5. /\ new = [size |-> new.size, free |-> new.free, at |-> new.at]
          /\ new.size = s /\ new.free = f /\ new.at = [h \in 0 .. s - 1 |-> Empty]
        BY <2>4
    <2>6. Map!Slotted(new)
        BY <2>3, <2>5 DEF Map!Slotted
    <2>7. Held(new) = {}
        BY <2>5 DEF Held
    <2>8. u = Map!RelocAll(w, new)
        <3>1. u = Resize(w, s)
            BY <1>2, <1>3, <2>1
        <3>2. [NewTable(s) EXCEPT !.free = f] = new
            <4>1. PICK a : a = [h \in 0 .. s - 1 |-> Empty]
                OBVIOUS
            <4>2. NewTable(s) = [size |-> s, free |-> s, at |-> a]
                BY <4>1, Zenon DEF NewTable
            <4>3. [[size |-> s, free |-> s, at |-> a] EXCEPT !.free = f]
                      = [size |-> s, free |-> f, at |-> a]
                OBVIOUS
            <4> QED BY <2>4, <4>1, <4>2, <4>3, Zenon
        <3>3. u = RelocAll(w, new)
            BY <2>2, <3>1, <3>2, Zenon DEF Resize
        <3>4. RelocAll(w, new) = Map!RelocAll(w, new)
            BY Zenon DEF RelocAll, Map!RelocAll, Reloc, Map!Reloc, EmptySlots, Map!EmptySlots,
                         FirstProbed, Map!FirstProbed
        <3> QED BY <3>3, <3>4
    <2>9. Map!Relocated(u, w, new)
        <3>1. Map!Contents(new) = {} /\ Map!Cardinality(Map!Contents(w)) < new.size
            BY <2>3, <2>5, <2>7, SameHeld, SameCounts
        <3>2. Map!Relocated(Map!RelocAll(w, new), w, new)
            BY <2>6, <3>1, MapAssumptions, TableAssumption, Map!RelocAllKeeps
        <3> QED BY <2>8, <3>2
    <2>10. Map!Table(u) /\ u.size = s /\ u.free = f /\ Held(u) = Held(w)
        BY <2>5, <2>9, SameHeld DEF Map!Relocated
    <2>11. Map!Roomy(u)
        BY <1>1, <2>1, <2>3, <2>10 DEF Map!Roomy
    <2> QED BY <2>3, <2>10, <2>11 DEF Filled
<1>4. CASE ~(w.free <= m)
    <2>1. u = w
        BY <1>2, <1>4
    <2>2. Map!Roomy(w)
        BY <1>1, <1>4 DEF Map!Roomy
    <2> QED BY <2>1, <2>2 DEF Filled
<1> QED BY <1>3, <1>4

\* An element is added under its key; without one, it is only counted.
LEMMA HashmapInsFills ==
    ASSUME NEW t, NEW n \in Nat, Filled(t, n), NEW key \in DOMAIN Home, NEW elem \in Nat,
           \A e \in Held(t) : e.elem # elem,
           NEW u, u = HashmapIns(t, key, elem)
    PROVE  IF key = NoName THEN Filled(u, n + 1) /\ Held(u) = Held(t)
           ELSE Filled(u, n) /\ Held(u) = Held(t) \union {[key |-> key, elem |-> elem]}
<1>1. /\ t.size \in Nat \ {0} /\ t.free \in Nat /\ 4 * t.free > t.size /\ Map!Table(t)
      /\ t = [size |-> t.size, free |-> t.free, at |-> t.at]
      /\ IsFiniteSet(Held(t)) /\ Cardinality(Held(t)) \in Nat
      /\ Cardinality(Held(t)) < t.size
      /\ t.size = t.free + n + Cardinality(Held(t))
    BY FilledHasRoom, TableShape DEF Filled
<1>2. PICK m \in Nat : t.size = 4 * m
    BY DEF Filled, Map!Roomy
<1>3. PICK h : h = FirstProbed(t, key, EmptySlots(t))
    OBVIOUS
<1>4. EmptySlots(t) # {} /\ h \in 0 .. t.size - 1 /\ t.at[h] = Empty
    <2>1. Home[key] \in Nat /\ Map!Cardinality(Map!Contents(t)) < t.size
        BY <1>1, TableAssumption, SameHeld, SameCounts
    <2>2. FirstProbed(t, key, EmptySlots(t)) = Map!FirstProbed(t, key, Map!EmptySlots(t))
          /\ EmptySlots(t) = Map!EmptySlots(t)
        BY Zenon DEF EmptySlots, Map!EmptySlots, FirstProbed, Map!FirstProbed
    <2> QED BY <1>1, <1>3, <2>1, <2>2, MapAssumptions, TableAssumption, Map!FreeSlotFound
<1>5. PICK x : x = IF key = NoName THEN Empty ELSE [key |-> key, elem |-> elem]
    OBVIOUS
<1>6. u = WriteElem(t, h, x)
    BY <1>3, <1>4, <1>5, Zenon DEF HashmapIns
<1>7. PICK s, f, a : s = t.size /\ f = t.free - 1 /\ a = t.at
    OBVIOUS
<1>8. PICK w : w = [size |-> s, free |-> f, at |-> [a EXCEPT ![h] = x]]
    OBVIOUS
<1>9. [t EXCEPT !.at[h] = x, !.free = @ - 1] = w
    <2>1. PICK r : r = t.free
        OBVIOUS
    <2>2. t = [size |-> s, free |-> r, at |-> a] /\ f = r - 1
        BY <1>1, <1>7, <2>1, Zenon
    <2>3. Map!Taking(t, h, x) = [size |-> s, free |-> r - 1, at |-> [a EXCEPT ![h] = x]]
        BY <2>2, MapAssumptions, TableAssumption, Map!SlotAndCount
    <2> QED BY <1>8, <2>2, <2>3, Zenon DEF Map!Taking
<1>10. u = IF w.free <= w.size \div 4 THEN Resize(w, 4 * w.size) ELSE w
    <2> DEFINE W == [t EXCEPT !.at[h] = x, !.free = @ - 1]
    <2>1. u = IF W.free <= W.size \div 4 THEN Resize(W, 4 * W.size) ELSE W
        BY <1>6, Zenon DEF WriteElem
    <2>2. W = w
        BY <1>9, Zenon
    <2> HIDE DEF W
    <2> QED BY <2>1, <2>2, Zenon
<1>11. f \in Nat /\ s \in Nat \ {0} /\ s = 4 * m /\ s = f + (n + 1) + Cardinality(Held(t))
    BY <1>1, <1>2, <1>7
<1>12. w.size = s /\ w.free = f
    BY <1>8
<1>13. CASE key = NoName
    <2>1. x = Empty
        BY <1>5, <1>13
    <2>2. [a EXCEPT ![h] = x] = a
        <3>1. a \in [0 .. t.size - 1 -> Map!Entry \union {Empty}] /\ a[h] = x
            BY <1>1, <1>4, <1>7, <2>1, TableShape
        <3> QED BY <3>1
    <2>3. w = [size |-> t.size, free |-> f, at |-> t.at]
        BY <1>7, <1>8, <2>2, Zenon
    <2>4. w.size = t.size /\ w.free = f /\ w.at = t.at
        BY <2>3
    <2>5. Map!Table(w)
        <3>1. Map!Slotted(w)
            BY <1>1, <1>11, <2>3, <2>4 DEF Map!Table, Map!Slotted
        <3>2. Map!Once(w)
            BY <1>1, <2>4, Zenon DEF Map!Table, Map!Once
        <3> QED BY <3>1, <3>2 DEF Map!Table
    <2>6. Held(w) = Held(t)
        BY <2>4, Zenon DEF Held
    <2>7. n + 1 \in Nat
        OBVIOUS
    <2>8. w.size = 4 * m /\ w.size = w.free + (n + 1) + Cardinality(Held(w))
        BY <1>11, <1>12, <2>6
    <2>9. Filled(u, n + 1) /\ Held(u) = Held(w)
        BY <1>10, <2>5, <2>7, <2>8, GrowsIfFull
    <2> QED BY <1>13, <2>6, <2>9
<1>14. CASE key # NoName
    <2>1. x = [key |-> key, elem |-> elem]
        BY <1>5, <1>14
    <2>2. x \in Map!Entry /\ x \notin Held(t)
        BY <1>14, <2>1 DEF Map!Entry, Names
    <2>3. Map!Table(w) /\ Held(w) = Held(t) \union {x}
        BY <1>1, <1>4, <1>7, <1>8, <1>11, <2>2, SameHeld, MapAssumptions, TableAssumption,
           Map!EntryInSlot
    <2>4. Cardinality(Held(w)) = Cardinality(Held(t)) + 1
        BY <1>1, <2>2, <2>3, FS_AddElement
    <2>5. w.size = 4 * m /\ w.size = w.free + n + Cardinality(Held(w))
        BY <1>1, <1>11, <1>12, <2>4
    <2>6. Filled(u, n) /\ Held(u) = Held(w)
        BY <1>10, <2>3, <2>5, GrowsIfFull
    <2> QED BY <1>14, <2>1, <2>3, <2>6
<1> QED BY <1>13, <1>14

\* The first k keys and what is stored under them, but for the empty ones.
Unnamed(keys, k) == {i \in 1 .. k : keys[i] = NoName}

IsPut(e, keys, base, k) ==
    \E i \in 1 .. k : keys[i] # NoName /\ e = [key |-> keys[i], elem |-> base + i]

PutInto(u, t, keys, base, k) ==
    /\ Filled(u, Cardinality(Unnamed(keys, k)))
    /\ \A e : e \in Held(u) <=> e \in Held(t) \/ IsPut(e, keys, base, k)

LEMMA UnnamedGrows ==
    ASSUME NEW keys, NEW k \in Nat \ {0}
    PROVE  /\ Unnamed(keys, 0) = {}
           /\ Cardinality(Unnamed(keys, k - 1)) \in Nat
           /\ Cardinality(Unnamed(keys, k))
                  = Cardinality(Unnamed(keys, k - 1)) + (IF keys[k] = NoName THEN 1 ELSE 0)
<1>1. Unnamed(keys, 0) = {}
    BY DEF Unnamed
<1>2. IsFiniteSet(1 .. k - 1)
    BY FS_Interval
<1>3. PICK U : U = Unnamed(keys, k - 1)
    OBVIOUS
<1>4. IsFiniteSet(U) /\ Cardinality(U) \in Nat
    <2>1. U \subseteq 1 .. k - 1
        BY <1>3 DEF Unnamed
    <2> QED BY <1>2, <2>1, FS_Subset, FS_CardinalityType
<1>5. CASE keys[k] = NoName
    <2>1. Unnamed(keys, k) = U \union {k} /\ k \notin U
        BY <1>3, <1>5 DEF Unnamed
    <2>2. Cardinality(Unnamed(keys, k)) = Cardinality(U) + 1
        BY <1>4, <2>1, FS_AddElement
    <2> QED BY <1>1, <1>3, <1>4, <1>5, <2>2
<1>6. CASE keys[k] # NoName
    <2>1. Unnamed(keys, k) = U
        BY <1>3, <1>6 DEF Unnamed
    <2> QED BY <1>1, <1>3, <1>4, <1>6, <2>1
<1> QED BY <1>5, <1>6

LEMMA NextPut ==
    ASSUME NEW keys, NEW base \in Nat, NEW k \in Nat \ {0}, NEW e
    PROVE  IsPut(e, keys, base, k)
               <=> \/ IsPut(e, keys, base, k - 1)
                   \/ keys[k] # NoName /\ e = [key |-> keys[k], elem |-> base + k]
<1>1. \A i : i \in 1 .. k <=> i \in 1 .. k - 1 \/ i = k
    OBVIOUS
<1> QED BY <1>1, Zenon DEF IsPut

\* The pointers of allocated Sprites are new to the table.
LEMMA AllInserted ==
    ASSUME NEW t, Filled(t, 0), NEW keys \in Seq(DOMAIN Home), NEW base \in Nat,
           \A e \in Held(t) : e.elem <= base,
           NEW elems, elems = [i \in 1 .. Len(keys) |-> base + i]
    PROVE  PutInto(InsertAll(t, keys, elems), t, keys, base, Len(keys))
<1>1. PICK N : N = Len(keys)
    OBVIOUS
<1>2. N \in Nat
    BY <1>1
<1> DEFINE Step(u, k) == HashmapIns(u, keys[k], elems[k])
           P == [k \in 0 .. N |-> {u \in Map!Struct : PutInto(u, t, keys, base, k)}]
           S == UNION {P[k] : k \in 0 .. N}
           F == [p \in S \X (1 .. N) |-> Step(p[1], p[2])]
           body(f) == [i \in 0 .. N |-> IF i = 0 THEN t ELSE HashmapIns(f[i - 1], keys[i], elems[i])]
           upto == CHOOSE f : f = body(f)
<1>3. InsertAll(t, keys, elems) = upto[N]
    BY <1>1, Zenon DEF InsertAll
<1>4. \A k \in 0 .. N : \A u : u \in P[k] <=> PutInto(u, t, keys, base, k)
    <2>1. ASSUME NEW u, NEW k, PutInto(u, t, keys, base, k) PROVE u \in Map!Struct
        <3>1. /\ u = [size |-> u.size, free |-> u.free, at |-> u.at]
              /\ u.size \in Nat /\ u.free \in Nat
              /\ u.at \in [0 .. u.size - 1 -> Map!Entry \union {Empty}]
            BY <2>1, TableShape DEF PutInto, Filled
        <3>2. u.at \in UNION {[0 .. n - 1 -> Map!Entry \union {Empty}] : n \in Nat}
            BY <3>1
        <3> QED BY <3>1, <3>2, Zenon DEF Map!Struct
    <2> QED BY <2>1, Zenon
<1> HIDE DEF P
<1>5. 0 \in 0 .. N /\ \A k \in 1 .. N : k \in 0 .. N /\ k - 1 \in 0 .. N /\ k # 0
    BY <1>2
<1>6. t \in P[0]
    <2>1. Cardinality(Unnamed(keys, 0)) = 0
        <3>1. 1 \in Nat \ {0}
            OBVIOUS
        <3> QED BY <3>1, UnnamedGrows, FS_EmptySet
    <2>2. \A e : ~IsPut(e, keys, base, 0)
        BY DEF IsPut
    <2>3. PutInto(t, t, keys, base, 0)
        BY <2>1, <2>2, Zenon DEF PutInto
    <2> QED BY <1>4, <1>5, <2>3, Zenon
<1>7. ASSUME NEW k \in 1 .. N, NEW u \in P[k - 1] PROVE Step(u, k) \in P[k]
    <2>1. PutInto(u, t, keys, base, k - 1)
        BY <1>4, <1>5, Zenon
    <2>2. k \in Nat \ {0} /\ k - 1 \in Nat /\ keys[k] \in DOMAIN Home /\ elems[k] = base + k
        BY <1>1
    <2>3. PICK n : n = Cardinality(Unnamed(keys, k - 1))
        OBVIOUS
    <2>4. n \in Nat /\ Cardinality(Unnamed(keys, k)) = n + (IF keys[k] = NoName THEN 1 ELSE 0)
        BY <2>2, <2>3, UnnamedGrows
    <2>5. Filled(u, n)
        BY <2>1, <2>3, Zenon DEF PutInto
    <2>6. \A e \in Held(u) : e.elem # elems[k]
        <3> SUFFICES ASSUME NEW e \in Held(u) PROVE e.elem # elems[k]
            OBVIOUS
        <3>1. CASE e \in Held(t)
            <4>1. e.elem \in Nat
                <5>1. Held(t) \subseteq Map!Entry
                    BY TableShape DEF Filled
                <5> QED BY <3>1, <5>1 DEF Map!Entry
            <4>2. e.elem <= base
                BY <3>1
            <4> QED BY <2>2, <4>1, <4>2
        <3>2. CASE IsPut(e, keys, base, k - 1)
            <4>1. PICK i \in 1 .. k - 1 : e = [key |-> keys[i], elem |-> base + i]
                BY <3>2 DEF IsPut
            <4>2. e.elem = base + i
                BY <4>1
            <4> QED BY <2>2, <4>2
        <3> QED BY <2>1, <3>1, <3>2, Zenon DEF PutInto
    <2>7. PICK v : v = HashmapIns(u, keys[k], elems[k])
        OBVIOUS
    <2>8. elems[k] \in Nat
        BY <2>2
    <2>9. IF keys[k] = NoName THEN Filled(v, n + 1) /\ Held(v) = Held(u)
          ELSE Filled(v, n) /\ Held(v) = Held(u) \union {[key |-> keys[k], elem |-> elems[k]]}
        <3>1. PICK key, elem : key = keys[k] /\ elem = elems[k]
            OBVIOUS
        <3>2. key \in DOMAIN Home /\ elem \in Nat /\ v = HashmapIns(u, key, elem)
              /\ \A e \in Held(u) : e.elem # elem
            BY <2>2, <2>6, <2>7, <2>8, <3>1
        <3>3. IF key = NoName THEN Filled(v, n + 1) /\ Held(v) = Held(u)
              ELSE Filled(v, n) /\ Held(v) = Held(u) \union {[key |-> key, elem |-> elem]}
            BY <2>4, <2>5, <3>2, HashmapInsFills
        <3> QED BY <3>1, <3>3, Zenon
    <2>10. Filled(v, Cardinality(Unnamed(keys, k)))
        BY <2>4, <2>9
    <2>11. \A e : e \in Held(v) <=> \/ e \in Held(u)
                                    \/ keys[k] # NoName /\ e = [key |-> keys[k], elem |-> base + k]
        BY <2>2, <2>9, Zenon
    <2>12. \A e : e \in Held(v) <=> e \in Held(t) \/ IsPut(e, keys, base, k)
        BY <2>1, <2>2, <2>11, NextPut, Zenon DEF PutInto
    <2>13. PutInto(v, t, keys, base, k)
        BY <2>10, <2>12, Zenon DEF PutInto
    <2> QED BY <1>4, <1>5, <2>7, <2>13, Zenon
<1>8. \A k \in 1 .. N : \A u \in P[k - 1] : F[<<u, k>>] = Step(u, k)
    <2> TAKE k \in 1 .. N
    <2> TAKE u \in P[k - 1]
    <2>1. u \in S
        BY <1>5
    <2> HIDE DEF S
    <2>2. <<u, k>> \in S \X (1 .. N) /\ <<u, k>>[1] = u /\ <<u, k>>[2] = k
        BY <2>1
    <2> HIDE DEF Step
    <2> QED BY <2>2, Zenon
<1> HIDE DEF F
<1>9. \A k \in 1 .. N : \A u \in P[k - 1] : F[<<u, k>>] \in P[k]
    <2> HIDE DEF Step
    <2> QED BY <1>7, <1>8, Zenon
<1>10. PICK f :
               /\ f = [k \in 0 .. N |-> f[k]]
               /\ f[0] = t
               /\ \A k \in 1 .. N : f[k] = F[<<f[k - 1], k>>]
               /\ \A k \in 0 .. N : f[k] \in P[k]
    <2>1. LoopThrough(P, N, t, F)
        BY <1>2, <1>6, <1>9, Looping
    <2> QED BY <2>1, Zenon DEF LoopThrough
<1>11. f = body(f)
    <2>1. \A k \in 0 .. N : f[k] = body(f)[k]
        <3> TAKE k \in 0 .. N
        <3>1. CASE k = 0
            BY <1>10, <3>1, Zenon
        <3>2. CASE k # 0
            <4>1. k \in 1 .. N /\ k - 1 \in 0 .. N
                BY <1>2, <3>2
            <4>2. f[k] = Step(f[k - 1], k)
                BY <1>8, <1>10, <4>1, Zenon
            <4> QED BY <3>2, <4>2, Zenon
        <3> QED BY <3>1, <3>2
    <2>2. body(f) = [i \in 0 .. N |-> body(f)[i]]
        BY SMT
    <2> HIDE DEF body
    <2> QED BY <1>10, <2>1, <2>2, Zenon
<1>12. upto = body(upto)
    BY <1>11, Zenon
<1>13. PICK r : r = upto
    OBVIOUS
<1>14. r = body(r)
    <2> HIDE DEF body, upto
    <2> QED BY <1>12, <1>13, Zenon
<1>15. r[0] = t /\ \A k \in 1 .. N : r[k] = Step(r[k - 1], k)
    BY <1>5, <1>14, Zenon
<1> HIDE DEF upto, body, Step
<1>16. \A k \in 0 .. N : r[k] \in P[k]
    <2>1. r[0] \in P[0] /\ \A k \in 1 .. N : r[k - 1] \in P[k - 1] => r[k] = F[<<r[k - 1], k>>]
        BY <1>6, <1>8, <1>15, Zenon
    <2> QED BY <1>2, <1>9, <2>1, LoopStays
<1>17. r[N] \in P[N] /\ N \in 0 .. N
    BY <1>2, <1>16
<1> QED BY <1>1, <1>3, <1>4, <1>13, <1>17, Zenon

-----------------------------------------------------------------------------
(* The calls of load_assets.                                               *)

Joined(u, s, t) ==
    /\ IsList(u) /\ Len(s) \in Nat /\ Len(t) \in Nat /\ Len(u) = Len(s) + Len(t)
    /\ \A i \in 1 .. Len(s) : u[i] = s[i]
    /\ \A i \in 1 .. Len(t) : u[Len(s) + i] = t[i]

LEMMA Concatenated ==
    ASSUME NEW s, IsList(s), NEW t, IsList(t), NEW u, u = s \o t
    PROVE  Joined(u, s, t)
<1>1. PICK R : R = Range(s) \union Range(t)
    OBVIOUS
<1>2. s \in Seq(R) /\ t \in Seq(R)
    <2>1. s \in Seq(Range(s)) /\ t \in Seq(Range(t)) /\ Range(s) \subseteq R /\ Range(t) \subseteq R
        BY <1>1 DEF IsList
    <2> QED BY <2>1
<1>3. u \in Seq(R)
    BY <1>2
<1>4. IsList(u)
    BY <1>3, SequenceIsList
<1>5. /\ Len(s) \in Nat /\ Len(t) \in Nat /\ Len(u) = Len(s) + Len(t)
      /\ \A i \in 1 .. Len(s) : u[i] = s[i]
      /\ \A i \in 1 .. Len(t) : u[Len(s) + i] = t[i]
    BY <1>2
<1> QED BY <1>4, <1>5 DEF Joined

CallsOf(kind, args) == [i \in DOMAIN args |-> [call |-> kind, arg |-> args[i]]]

LEMMA CallsListed ==
    ASSUME NEW kind, NEW args, IsList(args)
    PROVE  /\ IsList(CallsOf(kind, args)) /\ Len(CallsOf(kind, args)) = Len(args)
           /\ \A i \in 1 .. Len(args) : CallsOf(kind, args)[i] = [call |-> kind, arg |-> args[i]]
<1>1. DOMAIN args = 1 .. Len(args) /\ Len(args) \in Nat
    BY ListIsFunction
<1>2. PICK R : R = {[call |-> kind, arg |-> args[i]] : i \in 1 .. Len(args)}
    OBVIOUS
<1>3. CallsOf(kind, args) = [i \in 1 .. Len(args) |-> [call |-> kind, arg |-> args[i]]]
    BY <1>1 DEF CallsOf
<1>4. CallsOf(kind, args) \in Seq(R)
    BY <1>1, <1>2, <1>3
<1>5. IsList(CallsOf(kind, args))
    BY <1>4, SequenceIsList
<1>6. Len(CallsOf(kind, args)) = Len(args)
    BY <1>1, <1>3
<1> QED BY <1>1, <1>3, <1>5, <1>6

\* The part of load_assets that begins after its first n calls.
PartAt(n, kind, args) ==
    \A i \in 1 .. Len(args) : LoadAssets[n + i] = [call |-> kind, arg |-> args[i]]

LEMMA PartsOfLoadAssets ==
    \E b, c, d, e, f \in Nat :
        /\ IsList(LoadAssets) /\ Len(LoadAssets) = f + Len(Animations)
        /\ b = Len(TileImages) /\ c = b + Len(SplitSheets) /\ d = c + Len(WholeSheets)
        /\ e = d + 1 /\ f = e + Len(Fonts)
        /\ PartAt(0, "sprite", TileImages) /\ PartAt(b, "split", SplitSheets)
        /\ PartAt(c, "sheet", WholeSheets) /\ PartAt(d, "flare", <<Flare>>)
        /\ PartAt(e, "font", Fonts) /\ PartAt(f, "anim", Animations)
<1>1. PICK A, B, C, D, E, F :
          /\ A = CallsOf("sprite", TileImages) /\ B = CallsOf("split", SplitSheets)
          /\ C = CallsOf("sheet", WholeSheets) /\ D = CallsOf("flare", <<Flare>>)
          /\ E = CallsOf("font", Fonts) /\ F = CallsOf("anim", Animations)
    OBVIOUS
<1>2. LoadAssets = A \o B \o C \o D \o E \o F
    BY <1>1, Zenon DEF LoadAssets, CallsOf
<1>3. /\ IsList(A) /\ Len(A) = Len(TileImages) /\ IsList(B) /\ Len(B) = Len(SplitSheets)
      /\ IsList(C) /\ Len(C) = Len(WholeSheets) /\ IsList(D) /\ Len(D) = 1
      /\ IsList(E) /\ Len(E) = Len(Fonts) /\ IsList(F) /\ Len(F) = Len(Animations)
    <2>1. <<Flare>> \in Seq({Flare}) /\ Len(<<Flare>>) = 1
        OBVIOUS
    <2>2. IsList(<<Flare>>)
        BY <2>1, SequenceIsList
    <2> QED BY <1>1, <2>1, <2>2, CallsListed, NamesAssumption
<1>4. PICK X2, X3, X4, X5, X6 : X2 = A \o B /\ X3 = X2 \o C /\ X4 = X3 \o D /\ X5 = X4 \o E
                                /\ X6 = X5 \o F
    OBVIOUS
<1>5. Joined(X2, A, B)
    BY <1>3, <1>4, Concatenated
<1>6. Joined(X3, X2, C)
    <2>1. IsList(X2)
        BY <1>5 DEF Joined
    <2> QED BY <1>3, <1>4, <2>1, Concatenated
<1>7. Joined(X4, X3, D)
    <2>1. IsList(X3)
        BY <1>6 DEF Joined
    <2> QED BY <1>3, <1>4, <2>1, Concatenated
<1>8. Joined(X5, X4, E)
    <2>1. IsList(X4)
        BY <1>7 DEF Joined
    <2> QED BY <1>3, <1>4, <2>1, Concatenated
<1>9. Joined(X6, X5, F)
    <2>1. IsList(X5)
        BY <1>8 DEF Joined
    <2> QED BY <1>3, <1>4, <2>1, Concatenated
<1>10. X6 = LoadAssets
    BY <1>2, <1>4, Zenon
<1>11. PICK a, b, c, d, e, f : /\ a = Len(A) /\ b = Len(X2) /\ c = Len(X3)
                               /\ d = Len(X4) /\ e = Len(X5) /\ f = Len(X6)
    OBVIOUS
<1>12. /\ a \in Nat /\ b = a + Len(SplitSheets) /\ c = b + Len(WholeSheets) /\ d = c + 1
       /\ e = d + Len(Fonts) /\ f = e + Len(Animations)
       /\ a = Len(TileImages) /\ b \in Nat /\ c \in Nat /\ d \in Nat /\ e \in Nat /\ f \in Nat
       /\ Len(SplitSheets) \in Nat /\ Len(WholeSheets) \in Nat /\ Len(Fonts) \in Nat
       /\ Len(Animations) \in Nat
    BY <1>3, <1>5, <1>6, <1>7, <1>8, <1>9, <1>11 DEF Joined
<1>13. PartAt(0, "sprite", TileImages)
    <2> SUFFICES ASSUME NEW i \in 1 .. Len(TileImages)
                 PROVE  LoadAssets[0 + i] = [call |-> "sprite", arg |-> TileImages[i]]
        BY DEF PartAt
    <2>1. PICK j : j = 0 + i
        OBVIOUS
    <2>2. j \in 1 .. a /\ j \in 1 .. b /\ j \in 1 .. c /\ j \in 1 .. d /\ j \in 1 .. e /\ j = i
        BY <1>12, <2>1
    <2>4. A[i] = [call |-> "sprite", arg |-> TileImages[i]]
        BY <1>1, CallsListed, NamesAssumption
    <2>5. X2[j] = A[i]
        BY <1>5, <1>11, <2>2, Zenon DEF Joined
    <2>6. X3[j] = X2[j]
        BY <1>6, <1>11, <2>2, Zenon DEF Joined
    <2>7. X4[j] = X3[j]
        BY <1>7, <1>11, <2>2, Zenon DEF Joined
    <2>8. X5[j] = X4[j]
        BY <1>8, <1>11, <2>2, Zenon DEF Joined
    <2>9. X6[j] = X5[j]
        BY <1>9, <1>11, <2>2, Zenon DEF Joined
    <2> QED BY <1>10, <2>1, <2>4, <2>5, <2>6, <2>7, <2>8, <2>9, Zenon
<1>14. PartAt(a, "split", SplitSheets)
    <2> SUFFICES ASSUME NEW i \in 1 .. Len(SplitSheets)
                 PROVE  LoadAssets[a + i] = [call |-> "split", arg |-> SplitSheets[i]]
        BY DEF PartAt
    <2>1. PICK j : j = a + i
        OBVIOUS
    <2>2. j \in 1 .. b /\ j \in 1 .. c /\ j \in 1 .. d /\ j \in 1 .. e
        <3>1. j \in Nat /\ 1 <= j /\ j <= b
            BY <1>12, <2>1
        <3>2. b <= c /\ c <= d /\ d <= e
            BY <1>12
        <3> QED BY <1>12, <3>1, <3>2
    <2>4. B[i] = [call |-> "split", arg |-> SplitSheets[i]]
        BY <1>1, CallsListed, NamesAssumption
    <2>5. X2[j] = B[i]
        BY <1>3, <1>5, <1>11, <2>1, <2>2, Zenon DEF Joined
    <2>6. X3[j] = X2[j]
        BY <1>6, <1>11, <2>2, Zenon DEF Joined
    <2>7. X4[j] = X3[j]
        BY <1>7, <1>11, <2>2, Zenon DEF Joined
    <2>8. X5[j] = X4[j]
        BY <1>8, <1>11, <2>2, Zenon DEF Joined
    <2>9. X6[j] = X5[j]
        BY <1>9, <1>11, <2>2, Zenon DEF Joined
    <2> QED BY <1>10, <2>1, <2>4, <2>5, <2>6, <2>7, <2>8, <2>9, Zenon
<1>15. PartAt(b, "sheet", WholeSheets)
    <2> SUFFICES ASSUME NEW i \in 1 .. Len(WholeSheets)
                 PROVE  LoadAssets[b + i] = [call |-> "sheet", arg |-> WholeSheets[i]]
        BY DEF PartAt
    <2>1. PICK j : j = b + i
        OBVIOUS
    <2>2. j \in 1 .. c /\ j \in 1 .. d /\ j \in 1 .. e
        BY <1>12, <2>1
    <2>4. C[i] = [call |-> "sheet", arg |-> WholeSheets[i]]
        BY <1>1, CallsListed, NamesAssumption
    <2>5. X3[j] = C[i]
        BY <1>3, <1>6, <1>11, <2>1, <2>2, Zenon DEF Joined
    <2>6. X4[j] = X3[j]
        BY <1>7, <1>11, <2>2, Zenon DEF Joined
    <2>7. X5[j] = X4[j]
        BY <1>8, <1>11, <2>2, Zenon DEF Joined
    <2>8. X6[j] = X5[j]
        BY <1>9, <1>11, <2>2, Zenon DEF Joined
    <2> QED BY <1>10, <2>1, <2>4, <2>5, <2>6, <2>7, <2>8, Zenon
<1>16. PartAt(c, "flare", <<Flare>>)
    <2> SUFFICES ASSUME NEW i \in 1 .. Len(<<Flare>>)
                 PROVE  LoadAssets[c + i] = [call |-> "flare", arg |-> <<Flare>>[i]]
        BY DEF PartAt
    <2>1. PICK j : j = c + i
        OBVIOUS
    <2>3. Len(<<Flare>>) = 1 /\ <<Flare>> \in Seq({Flare})
        OBVIOUS
    <2>2. j \in 1 .. d /\ j \in 1 .. e /\ i \in 1 .. Len(D)
        BY <1>3, <1>12, <2>1, <2>3
    <2>4. D[i] = [call |-> "flare", arg |-> <<Flare>>[i]]
        BY <1>1, CallsListed, <2>3, SequenceIsList
    <2>5. X4[j] = D[i]
        BY <1>3, <1>7, <1>11, <2>1, <2>2, Zenon DEF Joined
    <2>6. X5[j] = X4[j]
        BY <1>8, <1>11, <2>2, Zenon DEF Joined
    <2>7. X6[j] = X5[j]
        BY <1>9, <1>11, <2>2, Zenon DEF Joined
    <2> QED BY <1>10, <2>1, <2>4, <2>5, <2>6, <2>7, Zenon
<1>17. PartAt(d, "font", Fonts)
    <2> SUFFICES ASSUME NEW i \in 1 .. Len(Fonts)
                 PROVE  LoadAssets[d + i] = [call |-> "font", arg |-> Fonts[i]]
        BY DEF PartAt
    <2>1. PICK j : j = d + i
        OBVIOUS
    <2>2. j \in 1 .. e
        BY <1>12, <2>1
    <2>4. E[i] = [call |-> "font", arg |-> Fonts[i]]
        BY <1>1, CallsListed, NamesAssumption
    <2>5. X5[j] = E[i]
        BY <1>3, <1>8, <1>11, <2>1, <2>2, Zenon DEF Joined
    <2>6. X6[j] = X5[j]
        BY <1>9, <1>11, <2>2, Zenon DEF Joined
    <2> QED BY <1>10, <2>1, <2>4, <2>5, <2>6, Zenon
<1>18. PartAt(e, "anim", Animations)
    <2> SUFFICES ASSUME NEW i \in 1 .. Len(Animations)
                 PROVE  LoadAssets[e + i] = [call |-> "anim", arg |-> Animations[i]]
        BY DEF PartAt
    <2>1. PICK j : j = e + i
        OBVIOUS
    <2>4. F[i] = [call |-> "anim", arg |-> Animations[i]]
        BY <1>1, CallsListed, NamesAssumption
    <2>5. X6[j] = F[i]
        BY <1>3, <1>9, <1>11, <2>1, Zenon DEF Joined
    <2> QED BY <1>10, <2>1, <2>4, <2>5, Zenon
<1>19. IsList(LoadAssets) /\ Len(LoadAssets) = e + Len(Animations)
    BY <1>9, <1>10, <1>11, <1>12 DEF Joined
<1> QED BY <1>12, <1>13, <1>14, <1>15, <1>16, <1>17, <1>18, <1>19

\* What is called, with what, and when.
CallAt(i) ==
    LET x == LoadAssets[i]
    IN  \/ /\ i <= Len(TileImages)
           /\ x = [call |-> "sprite", arg |-> TileImages[i]] /\ i \in DOMAIN TileImages
        \/ /\ i > Len(TileImages)
           /\ x = [call |-> x.call, arg |-> x.arg]
           /\ \/ x.call = "split" /\ x.arg \in Range(SplitSheets)
              \/ x.call = "sheet" /\ x.arg \in Range(WholeSheets)
              \/ x.call = "flare" /\ x.arg = Flare
              \/ x.call = "font" /\ x.arg \in Range(Fonts)
              \/ x.call = "anim" /\ x.arg \in Range(Animations)
                  /\ \A j \in 1 .. Len(LoadAssets) : LoadAssets[j].call = "split" => j < i

Calls(kind, arg) == \E i \in 1 .. Len(LoadAssets) : LoadAssets[i] = [call |-> kind, arg |-> arg]

LEMMA LoadAssetsCalls ==
    /\ IsList(LoadAssets) /\ Len(LoadAssets) \in Nat
    /\ \A i \in 1 .. Len(LoadAssets) : CallAt(i)
    /\ \A i \in DOMAIN TileImages : i \in 1 .. Len(LoadAssets)
    /\ \A x \in Range(SplitSheets) : Calls("split", x)
    /\ \A x \in Range(WholeSheets) : Calls("sheet", x)
    /\ Calls("flare", Flare)
    /\ \A x \in Range(Fonts) : Calls("font", x)
    /\ \A x \in Range(Animations) : Calls("anim", x)
<1>1. PICK b, c, d, e, f \in Nat :
        /\ IsList(LoadAssets) /\ Len(LoadAssets) = f + Len(Animations)
        /\ b = Len(TileImages) /\ c = b + Len(SplitSheets) /\ d = c + Len(WholeSheets)
        /\ e = d + 1 /\ f = e + Len(Fonts)
        /\ PartAt(0, "sprite", TileImages) /\ PartAt(b, "split", SplitSheets)
        /\ PartAt(c, "sheet", WholeSheets) /\ PartAt(d, "flare", <<Flare>>)
        /\ PartAt(e, "font", Fonts) /\ PartAt(f, "anim", Animations)
    BY PartsOfLoadAssets
<1>2. /\ Len(SplitSheets) \in Nat /\ Len(WholeSheets) \in Nat /\ Len(Fonts) \in Nat
      /\ Len(Animations) \in Nat /\ DOMAIN TileImages = 1 .. b
    BY <1>1, ListIsFunction, NamesAssumption
<1>3. PICK N : N = Len(LoadAssets)
    OBVIOUS
<1>4. N \in Nat /\ N = f + Len(Animations)
    BY <1>1, <1>2, <1>3
<1>5. \A i \in 1 .. N :
        \/ i \in 1 .. b
        \/ \E k \in 1 .. Len(SplitSheets) : i = b + k
        \/ \E k \in 1 .. Len(WholeSheets) : i = c + k
        \/ i = d + 1
        \/ \E k \in 1 .. Len(Fonts) : i = e + k
        \/ \E k \in 1 .. Len(Animations) : i = f + k
    <2> SUFFICES ASSUME NEW i \in 1 .. N
                 PROVE  \/ i \in 1 .. b
                        \/ i - b \in 1 .. Len(SplitSheets) /\ i = b + (i - b)
                        \/ i - c \in 1 .. Len(WholeSheets) /\ i = c + (i - c)
                        \/ i = d + 1
                        \/ i - e \in 1 .. Len(Fonts) /\ i = e + (i - e)
                        \/ i - f \in 1 .. Len(Animations) /\ i = f + (i - f)
        BY Zenon
    <2>1. PICK s, w, n, m : /\ s = Len(SplitSheets) /\ w = Len(WholeSheets)
                            /\ n = Len(Fonts) /\ m = Len(Animations)
        OBVIOUS
    <2>2. /\ s \in Nat /\ w \in Nat /\ n \in Nat /\ m \in Nat
          /\ c = b + s /\ d = c + w /\ e = d + 1 /\ f = e + n /\ N = f + m
        BY <1>1, <1>2, <1>4, <2>1
    <2>3. i \in Nat /\ 1 <= i /\ i <= N
        BY <1>4
    <2>4. CASE i <= b
        BY <2>3, <2>4
    <2>5. CASE i > b /\ i <= c
        BY <2>1, <2>2, <2>3, <2>5
    <2>6. CASE i > c /\ i <= d
        BY <2>1, <2>2, <2>3, <2>6
    <2>7. CASE i > d /\ i <= e
        BY <2>2, <2>3, <2>7
    <2>8. CASE i > e /\ i <= f
        BY <2>1, <2>2, <2>3, <2>8
    <2>9. CASE i > f
        BY <2>1, <2>2, <2>3, <2>9
    <2> QED BY <2>2, <2>3, <2>4, <2>5, <2>6, <2>7, <2>8, <2>9
<1>6. /\ \A i \in 1 .. b : LoadAssets[i] = [call |-> "sprite", arg |-> TileImages[i]]
      /\ \A k \in 1 .. Len(SplitSheets) : LoadAssets[b + k] = [call |-> "split", arg |-> SplitSheets[k]]
      /\ \A k \in 1 .. Len(WholeSheets) : LoadAssets[c + k] = [call |-> "sheet", arg |-> WholeSheets[k]]
      /\ LoadAssets[d + 1] = [call |-> "flare", arg |-> Flare]
      /\ \A k \in 1 .. Len(Fonts) : LoadAssets[e + k] = [call |-> "font", arg |-> Fonts[k]]
      /\ \A k \in 1 .. Len(Animations) : LoadAssets[f + k] = [call |-> "anim", arg |-> Animations[k]]
    <2>1. \A i \in 1 .. b : 0 + i = i
        BY <1>1
    <2>2. 1 \in 1 .. Len(<<Flare>>) /\ <<Flare>>[1] = Flare
        OBVIOUS
    <2>3. LoadAssets[d + 1] = [call |-> "flare", arg |-> Flare]
        BY <1>1, <2>2, Zenon DEF PartAt
    <2>4. \A i \in 1 .. b : LoadAssets[i] = [call |-> "sprite", arg |-> TileImages[i]]
        BY <1>1, <2>1, Zenon DEF PartAt
    <2> QED BY <1>1, <2>3, <2>4, Zenon DEF PartAt
<1>7. \A j \in 1 .. N : LoadAssets[j].call = "split" => j \in 1 .. c
    <2> SUFFICES ASSUME NEW j \in 1 .. N, LoadAssets[j].call = "split" PROVE j \in 1 .. c
        OBVIOUS
    <2>1. CASE j \in 1 .. b
        BY <1>1, <1>2, <2>1
    <2>2. CASE \E k \in 1 .. Len(SplitSheets) : j = b + k
        BY <1>1, <1>2, <2>2
    <2>3. ASSUME NEW k \in 1 .. Len(WholeSheets), j = c + k PROVE FALSE
        <3>1. LoadAssets[j] = [call |-> "sheet", arg |-> WholeSheets[k]]
            BY <1>6, <2>3, Zenon
        <3> QED BY <3>1
    <2>4. CASE j = d + 1
        BY <1>6, <2>4
    <2>5. ASSUME NEW k \in 1 .. Len(Fonts), j = e + k PROVE FALSE
        <3>1. LoadAssets[j] = [call |-> "font", arg |-> Fonts[k]]
            BY <1>6, <2>5, Zenon
        <3> QED BY <3>1
    <2>6. ASSUME NEW k \in 1 .. Len(Animations), j = f + k PROVE FALSE
        <3>1. LoadAssets[j] = [call |-> "anim", arg |-> Animations[k]]
            BY <1>6, <2>6, Zenon
        <3> QED BY <3>1
    <2> QED BY <1>5, <2>1, <2>2, <2>3, <2>4, <2>5, <2>6
<1>8. \A i \in 1 .. N : CallAt(i)
    <2> SUFFICES ASSUME NEW i \in 1 .. N PROVE CallAt(i)
        OBVIOUS
    <2>1. CASE i \in 1 .. b
        BY <1>1, <1>2, <1>6, <2>1 DEF CallAt
    <2>2. ASSUME NEW k \in 1 .. Len(SplitSheets), i = b + k PROVE CallAt(i)
        <3>1. SplitSheets[k] \in Range(SplitSheets) /\ i > Len(TileImages)
            BY <1>1, <1>2, <2>2, ListIsFunction, NamesAssumption
        <3>2. LoadAssets[i] = [call |-> "split", arg |-> SplitSheets[k]]
            BY <1>6, <2>2, Zenon
        <3> QED BY <3>1, <3>2 DEF CallAt
    <2>3. ASSUME NEW k \in 1 .. Len(WholeSheets), i = c + k PROVE CallAt(i)
        <3>1. WholeSheets[k] \in Range(WholeSheets) /\ i > Len(TileImages)
            BY <1>1, <1>2, <2>3, ListIsFunction, NamesAssumption
        <3>2. LoadAssets[i] = [call |-> "sheet", arg |-> WholeSheets[k]]
            BY <1>6, <2>3, Zenon
        <3> QED BY <3>1, <3>2 DEF CallAt
    <2>4. CASE i = d + 1
        <3>1. i > Len(TileImages)
            BY <1>1, <1>2, <2>4
        <3> QED BY <1>6, <2>4, <3>1 DEF CallAt
    <2>5. ASSUME NEW k \in 1 .. Len(Fonts), i = e + k PROVE CallAt(i)
        <3>1. Fonts[k] \in Range(Fonts) /\ i > Len(TileImages)
            BY <1>1, <1>2, <2>5, ListIsFunction, NamesAssumption
        <3>2. LoadAssets[i] = [call |-> "font", arg |-> Fonts[k]]
            BY <1>6, <2>5, Zenon
        <3> QED BY <3>1, <3>2 DEF CallAt
    <2>6. ASSUME NEW k \in 1 .. Len(Animations), i = f + k PROVE CallAt(i)
        <3>1. Animations[k] \in Range(Animations) /\ i > Len(TileImages) /\ \A j \in 1 .. c : j < i
            BY <1>1, <1>2, <2>6, ListIsFunction, NamesAssumption
        <3>2. \A j \in 1 .. Len(LoadAssets) : LoadAssets[j].call = "split" => j < i
            BY <1>3, <1>7, <3>1
        <3>3. LoadAssets[i] = [call |-> "anim", arg |-> Animations[k]]
            BY <1>6, <2>6, Zenon
        <3> QED BY <3>1, <3>2, <3>3 DEF CallAt
    <2> QED BY <1>5, <2>1, <2>2, <2>3, <2>4, <2>5, <2>6, Zenon
<1>9. \A i \in DOMAIN TileImages : i \in 1 .. N
    BY <1>1, <1>2, <1>4
<1>10. \A x \in Range(SplitSheets) : Calls("split", x)
    <2> SUFFICES ASSUME NEW x \in Range(SplitSheets) PROVE Calls("split", x)
        OBVIOUS
    <2>1. PICK k \in 1 .. Len(SplitSheets) : x = SplitSheets[k]
        BY ListIsFunction, NamesAssumption
    <2>2. b + k \in 1 .. N
        BY <1>1, <1>2, <1>4
    <2> QED BY <1>3, <1>6, <2>1, <2>2, Zenon DEF Calls
<1>11. \A x \in Range(WholeSheets) : Calls("sheet", x)
    <2> SUFFICES ASSUME NEW x \in Range(WholeSheets) PROVE Calls("sheet", x)
        OBVIOUS
    <2>1. PICK k \in 1 .. Len(WholeSheets) : x = WholeSheets[k]
        BY ListIsFunction, NamesAssumption
    <2>2. c + k \in 1 .. N
        BY <1>1, <1>2, <1>4
    <2> QED BY <1>3, <1>6, <2>1, <2>2, Zenon DEF Calls
<1>12. Calls("flare", Flare)
    <2>1. d + 1 \in 1 .. N
        BY <1>1, <1>2, <1>4
    <2> QED BY <1>3, <1>6, <2>1, Zenon DEF Calls
<1>13. \A x \in Range(Fonts) : Calls("font", x)
    <2> SUFFICES ASSUME NEW x \in Range(Fonts) PROVE Calls("font", x)
        OBVIOUS
    <2>1. PICK k \in 1 .. Len(Fonts) : x = Fonts[k]
        BY ListIsFunction, NamesAssumption
    <2>2. e + k \in 1 .. N
        BY <1>1, <1>2, <1>4
    <2> QED BY <1>3, <1>6, <2>1, <2>2, Zenon DEF Calls
<1>14. \A x \in Range(Animations) : Calls("anim", x)
    <2> SUFFICES ASSUME NEW x \in Range(Animations) PROVE Calls("anim", x)
        OBVIOUS
    <2>1. PICK k \in 1 .. Len(Animations) : x = Animations[k]
        BY ListIsFunction, NamesAssumption
    <2>2. f + k \in 1 .. N
        BY <1>1, <1>2, <1>4
    <2> QED BY <1>3, <1>6, <2>1, <2>2, Zenon DEF Calls
<1> QED BY <1>1, <1>3, <1>4, <1>8, <1>9, <1>10, <1>11, <1>12, <1>13, <1>14

-----------------------------------------------------------------------------
(* The names that the calls give.                                          *)

\* Every Sprite and every image has a name.
LEMMA CallNames ==
    ASSUME NEW i \in 1 .. Len(LoadAssets)
    PROVE  /\ NamesOf(LoadAssets[i]) \in Seq(Names)
           /\ LoadAssets[i].call = "sheet" => LoadAssets[i].arg.image # Missing
<1>1. PICK c : c = LoadAssets[i]
    OBVIOUS
<1>2. CallAt(i)
    BY LoadAssetsCalls
<1>3. CASE c = [call |-> "sprite", arg |-> TileImages[i]] /\ i \in DOMAIN TileImages
    <2>1. c.call = "sprite" /\ c.arg \in Names
        BY <1>3, NamesAssumption DEF Range
    <2>2. NamesOf(c) = <<c.arg>>
        BY <2>1 DEF NamesOf
    <2> QED BY <1>1, <2>1, <2>2
<1>4. CASE c.call = "flare" /\ c.arg = Flare
    <2>1. NamesOf(c) = <<Flare>> /\ Flare \in Names
        BY <1>4, NamesAssumption DEF NamesOf
    <2> QED BY <1>1, <1>4, <2>1
<1>5. CASE c.call = "split" /\ c.arg \in Range(SplitSheets)
    <2>1. NamesOf(c) = c.arg.names
        BY <1>5 DEF NamesOf
    <2> QED BY <1>1, <1>5, <2>1, NamesAssumption
<1>6. CASE c.call = "sheet" /\ c.arg \in Range(WholeSheets)
    <2>1. NamesOf(c) = c.arg.names
        BY <1>6 DEF NamesOf
    <2> QED BY <1>1, <1>6, <2>1, NamesAssumption
<1>7. CASE c.call \in {"font", "anim"}
    <2>1. NamesOf(c) = <<>>
        BY <1>7 DEF NamesOf
    <2> QED BY <1>1, <1>7, <2>1
<1> QED BY <1>1, <1>2, <1>3, <1>4, <1>5, <1>6, <1>7 DEF CallAt

LEMMA GivenGrows ==
    ASSUME NEW n \in Nat, NEW name, NEW tex, NEW mode
    PROVE  /\ Given(n + 1, name, tex, mode)
                  <=> Given(n, name, tex, mode) \/ GivenBy(LoadAssets[n + 1], name, tex, mode)
           /\ ~Given(0, name, tex, mode)
<1>1. \A j : j \in 1 .. n + 1 <=> j \in 1 .. n \/ j = n + 1
    OBVIOUS
<1>2. 1 .. 0 = {}
    OBVIOUS
<1> QED BY <1>1, <1>2, Zenon DEF Given

LEMMA GivenName ==
    ASSUME NEW n \in 0 .. Len(LoadAssets), NEW name, NEW tex, NEW mode, Given(n, name, tex, mode)
    PROVE  name \in Names /\ tex # Missing /\ mode \in Modes
<1>1. PICK j \in 1 .. n : GivenBy(LoadAssets[j], name, tex, mode)
    BY DEF Given
<1>2. j \in 1 .. Len(LoadAssets)
    BY LoadAssetsCalls
<1>3. PICK c : c = LoadAssets[j]
    OBVIOUS
<1>4. NamesOf(c) \in Seq(Names) /\ (c.call = "sheet" => c.arg.image # Missing)
    BY <1>2, <1>3, CallNames
<1>5. \A x \in Names : x # Missing
    BY NullAssumption DEF Names
<1> QED BY <1>1, <1>3, <1>4, <1>5 DEF GivenBy, Modes

\* Each name is given once.
LEMMA GivenOnce ==
    ASSUME NEW n \in 0 .. Len(LoadAssets), NEW name,
           NEW t1, NEW m1, Given(n, name, t1, m1), NEW t2, NEW m2, Given(n, name, t2, m2)
    PROVE  t1 = t2 /\ m1 = m2
<1>1. PICK i \in 1 .. n, j \in 1 .. n :
          GivenBy(LoadAssets[i], name, t1, m1) /\ GivenBy(LoadAssets[j], name, t2, m2)
    BY Zenon DEF Given
<1>2. i \in DOMAIN LoadAssets /\ j \in DOMAIN LoadAssets
    BY LoadAssetsCalls, ListIsFunction
<1>3. i = j
    <2>1. PICK c, d : c = LoadAssets[i] /\ d = LoadAssets[j]
        OBVIOUS
    <2>2. PICK k \in DOMAIN NamesOf(c), l \in DOMAIN NamesOf(d) : NamesOf(c)[k] = NamesOf(d)[l]
        BY <1>1, <2>1 DEF GivenBy
    <2> QED BY <1>2, <2>1, <2>2, UniqueAssumption, Zenon
<1> QED BY <1>1, <1>3 DEF GivenBy

\* What the calls of each kind give.
LEMMA GivenByKind ==
    ASSUME NEW c, NEW x, NEW name
    PROVE  /\ c = [call |-> "flare", arg |-> Flare] => GivenBy(c, Flare, Flare, "add")
           /\ c = [call |-> "split", arg |-> x] /\ name \in Range(x.names)
                  => GivenBy(c, name, name, "alpha")
           /\ c = [call |-> "sheet", arg |-> x] /\ name \in Range(x.names)
                  => GivenBy(c, name, x.image, "alpha")
<1>1. CASE c = [call |-> "flare", arg |-> Flare]
    <2>1. c.call = "flare" /\ NamesOf(c) = <<Flare>> /\ c.call # "split" /\ c.call # "sheet"
        BY <1>1 DEF NamesOf
    <2>2. 1 \in DOMAIN NamesOf(c) /\ NamesOf(c)[1] = Flare
        BY <2>1
    <2> QED BY <1>1, <2>1, <2>2 DEF GivenBy
<1>2. CASE c = [call |-> "split", arg |-> x] /\ name \in Range(x.names)
    <2>1. c.call = "split" /\ NamesOf(c) = x.names
        BY <1>2 DEF NamesOf
    <2>2. PICK k \in DOMAIN NamesOf(c) : name = NamesOf(c)[k]
        BY <1>2, <2>1 DEF Range
    <2>3. GivenBy(c, name, name, "alpha")
        BY <2>1, <2>2 DEF GivenBy
    <2>4. c # [call |-> "flare", arg |-> Flare] /\ c # [call |-> "sheet", arg |-> x]
        BY <2>1
    <2> QED BY <2>3, <2>4
<1>3. CASE c = [call |-> "sheet", arg |-> x] /\ name \in Range(x.names)
    <2>1. c.call = "sheet" /\ NamesOf(c) = x.names /\ c.arg = x
        BY <1>3 DEF NamesOf
    <2>2. PICK k \in DOMAIN NamesOf(c) : name = NamesOf(c)[k]
        BY <1>3, <2>1 DEF Range
    <2>3. GivenBy(c, name, x.image, "alpha")
        BY <2>1, <2>2 DEF GivenBy
    <2>4. c # [call |-> "flare", arg |-> Flare] /\ c # [call |-> "split", arg |-> x]
        BY <2>1
    <2> QED BY <2>3, <2>4
<1> QED BY <1>1, <1>2, <1>3

\* The names are given when all is loaded; those of the frames of an animation,
\* before it is built.
LEMMA AllGiven ==
    LET n == Len(LoadAssets)
    IN  /\ Given(n, Flare, Flare, "add")
        /\ \A sheet \in Range(SplitSheets) : \A name \in Range(sheet.names) :
              Given(n, name, name, "alpha")
        /\ \A sheet \in Range(WholeSheets) : \A name \in Range(sheet.names) :
              Given(n, name, sheet.image, "alpha")
<1>1. Given(Len(LoadAssets), Flare, Flare, "add")
    <2>1. PICK j \in 1 .. Len(LoadAssets) : LoadAssets[j] = [call |-> "flare", arg |-> Flare]
        BY LoadAssetsCalls, Zenon DEF Calls
    <2>2. GivenBy(LoadAssets[j], Flare, Flare, "add")
        BY <2>1, GivenByKind
    <2> QED BY <2>2, Zenon DEF Given
<1>2. ASSUME NEW sheet \in Range(SplitSheets), NEW name \in Range(sheet.names)
      PROVE  Given(Len(LoadAssets), name, name, "alpha")
    <2>1. PICK j \in 1 .. Len(LoadAssets) : LoadAssets[j] = [call |-> "split", arg |-> sheet]
        BY LoadAssetsCalls, Zenon DEF Calls
    <2>2. GivenBy(LoadAssets[j], name, name, "alpha")
        BY <2>1, GivenByKind
    <2> QED BY <2>2, Zenon DEF Given
<1>3. ASSUME NEW sheet \in Range(WholeSheets), NEW name \in Range(sheet.names)
      PROVE  Given(Len(LoadAssets), name, sheet.image, "alpha")
    <2>1. PICK j \in 1 .. Len(LoadAssets) : LoadAssets[j] = [call |-> "sheet", arg |-> sheet]
        BY LoadAssetsCalls, Zenon DEF Calls
    <2>2. GivenBy(LoadAssets[j], name, sheet.image, "alpha")
        BY <2>1, GivenByKind
    <2> QED BY <2>2, Zenon DEF Given
<1> QED BY <1>1, <1>2, <1>3

LEMMA FramesGiven ==
    ASSUME NEW i \in 1 .. Len(LoadAssets), LoadAssets[i].call = "anim",
           NEW sheet \in Range(SplitSheets), NEW name \in Range(sheet.names)
    PROVE  Given(i - 1, name, name, "alpha")
<1>1. PICK j \in 1 .. Len(LoadAssets) : LoadAssets[j] = [call |-> "split", arg |-> sheet]
    BY LoadAssetsCalls, Zenon DEF Calls
<1>2. LoadAssets[j].call = "split"
    BY <1>1
<1>3. j < i
    <2>1. CallAt(i)
        BY LoadAssetsCalls
    <2>2. \A k \in 1 .. Len(LoadAssets) : LoadAssets[k].call = "split" => k < i
        BY <2>1 DEF CallAt
    <2> QED BY <1>2, <2>2
<1>4. j \in 1 .. i - 1
    BY <1>3, LoadAssetsCalls
<1>5. GivenBy(LoadAssets[j], name, name, "alpha")
    BY <1>1, GivenByKind
<1> QED BY <1>4, <1>5 DEF Given

\* What lies still has one name, and that is not the name of what moves.
LEMMA WholeIsStill ==
    ASSUME NEW sheet \in Range(WholeSheets), NEW name \in Range(sheet.names)
    PROVE  name \notin Moving
<1> SUFFICES ASSUME name \in Moving PROVE FALSE
    OBVIOUS
<1>1. PICK i \in 1 .. Len(LoadAssets) : LoadAssets[i] = [call |-> "sheet", arg |-> sheet]
    BY LoadAssetsCalls, Zenon DEF Calls
<1>2. PICK j \in 1 .. Len(LoadAssets) :
          /\ LoadAssets[j].call # "sheet" /\ \E l \in DOMAIN NamesOf(LoadAssets[j]) :
                NamesOf(LoadAssets[j])[l] = name
    <2>1. CASE name = Flare
        <3>1. PICK j \in 1 .. Len(LoadAssets) : LoadAssets[j] = [call |-> "flare", arg |-> Flare]
            BY LoadAssetsCalls, Zenon DEF Calls
        <3>2. LoadAssets[j].call # "sheet"
            BY <3>1
        <3>3. GivenBy(LoadAssets[j], Flare, Flare, "add")
            BY <3>1, GivenByKind
        <3> QED BY <2>1, <3>2, <3>3, Zenon DEF GivenBy
    <2>2. ASSUME NEW split \in Range(SplitSheets), name \in Range(split.names)
          PROVE  \E j \in 1 .. Len(LoadAssets) :
                    /\ LoadAssets[j].call # "sheet" /\ \E l \in DOMAIN NamesOf(LoadAssets[j]) :
                          NamesOf(LoadAssets[j])[l] = name
        <3>1. PICK j \in 1 .. Len(LoadAssets) : LoadAssets[j] = [call |-> "split", arg |-> split]
            BY LoadAssetsCalls, Zenon DEF Calls
        <3>2. LoadAssets[j].call # "sheet"
            BY <3>1
        <3>3. GivenBy(LoadAssets[j], name, name, "alpha")
            BY <2>2, <3>1, GivenByKind
        <3> QED BY <3>2, <3>3, Zenon DEF GivenBy
    <2> QED BY <2>1, <2>2 DEF Moving
<1>3. LoadAssets[i].call = "sheet"
    BY <1>1
<1>4. \E k \in DOMAIN NamesOf(LoadAssets[i]) : NamesOf(LoadAssets[i])[k] = name
    <2>1. GivenBy(LoadAssets[i], name, sheet.image, "alpha")
        BY <1>1, GivenByKind
    <2> QED BY <2>1, Zenon DEF GivenBy
<1>5. i \in DOMAIN LoadAssets /\ j \in DOMAIN LoadAssets
    BY LoadAssetsCalls, ListIsFunction
<1>6. i = j
    BY <1>2, <1>4, <1>5, UniqueAssumption, Zenon
<1> QED BY <1>2, <1>3, <1>6

-----------------------------------------------------------------------------
(* A call of load_assets.                                                  *)

LEMMA ScriptStep ==
    ASSUME InOrder, script # <<>>
    PROVE  /\ done \in Nat /\ done + 1 \in 1 .. Len(LoadAssets)
           /\ Head(script) = LoadAssets[done + 1]
           /\ script' = Tail(script)
                  => /\ done' = done + 1
                     /\ script' = [i \in 1 .. Len(LoadAssets) - done' |-> LoadAssets[done' + i]]
<1>1. PICK n, m, L : n = done /\ L = LoadAssets /\ m = Len(L) - n
    OBVIOUS
<1>2. n \in Nat /\ Len(L) \in Nat /\ m \in Nat /\ m = Len(L) - n
    BY <1>1, LoadAssetsCalls DEF InOrder
<1>3. script = [i \in 1 .. m |-> L[n + i]]
    BY <1>1 DEF InOrder
<1>4. PICK R : \A i \in 1 .. m : script[i] \in R
    <2>1. \A i \in 1 .. m : script[i] \in {script[k] : k \in 1 .. m}
        OBVIOUS
    <2> QED BY <2>1, Zenon
<1>5. script \in Seq(R) /\ Len(script) = m
    <2>1. script = [i \in 1 .. m |-> script[i]]
        BY <1>3
    <2>2. script \in [1 .. m -> R]
        BY <1>4, <2>1
    <2> QED BY <1>2, <2>2
<1>6. m # 0
    BY <1>5
<1>7. Head(script) = L[n + 1]
    BY <1>2, <1>3, <1>5, <1>6
<1>8. ASSUME script' = Tail(script)
      PROVE  done' = n + 1 /\ script' = [i \in 1 .. Len(L) - (n + 1) |-> L[(n + 1) + i]]
    <2>1. Tail(script) = [i \in 1 .. m - 1 |-> script[i + 1]] /\ Len(Tail(script)) = m - 1
        <3>1. /\ Tail(script) \in Seq(R) /\ Len(Tail(script)) = m - 1
              /\ \A i \in 1 .. Len(Tail(script)) : Tail(script)[i] = script[i + 1]
            BY <1>2, <1>5, <1>6, HeadTailProperties
        <3>2. PICK t : t = Tail(script)
            OBVIOUS
        <3>3. t = [i \in 1 .. Len(t) |-> t[i]]
            <4>1. IsList(t)
                BY <3>1, <3>2, SequenceIsList
            <4> QED BY <4>1, ListIsFunction
        <3> QED BY <3>1, <3>2, <3>3
    <2>2. Len(script') = m - 1
        BY <1>8, <2>1
    <2>3. done' = Len(L) - Len(script')
        BY <1>1 DEF done
    <2>4. done' = n + 1
        BY <1>2, <1>6, <2>2, <2>3
    <2>5. Len(L) - (n + 1) = m - 1 /\ \A i \in 1 .. m - 1 : script[i + 1] = L[(n + 1) + i]
        BY <1>2, <1>3, <1>6
    <2>6. script' = [i \in 1 .. m - 1 |-> L[(n + 1) + i]]
        BY <1>8, <2>1, <2>5
    <2> QED BY <2>4, <2>5, <2>6
<1>9. n + 1 \in 1 .. Len(L)
    BY <1>2, <1>6
<1> QED BY <1>1, <1>2, <1>7, <1>8, <1>9

\* Sprites that are allocated, and their names, leave everything else alone.
Adds ==
    /\ \A p \in DOMAIN spr :
          /\ p \in DOMAIN spr'
          /\ spr'[p].texture = spr[p].texture /\ spr'[p].blend_mode = spr[p].blend_mode
    /\ Held(sprites) \subseteq Held(sprites')
    /\ \A e \in Held(sprites') : e \in Held(sprites) \/ e.elem \notin DOMAIN spr

LEMMA GlyphsKept ==
    ASSUME Adds, NEW t, NEW font, GlyphsOf(t, font)
    PROVE  GlyphsOf(t, font)'
<1>1. ASSUME NEW x \in Held(t)
      PROVE  /\ x.elem \in DOMAIN spr'
             /\ spr'[x.elem].texture = font.image /\ spr'[x.elem].blend_mode = "alpha"
             /\ \A e \in Held(sprites') : e.elem # x.elem
    BY <1>1 DEF GlyphsOf, Adds
<1> QED BY <1>1 DEF GlyphsOf

LEMMA FramesKept ==
    ASSUME Adds, NEW f, NEW a, FramesOf(f, a)
    PROVE  FramesOf(f, a)'
<1>1. \A p, name : FrameOf(p, name) => FrameOf(p, name)'
    BY DEF FrameOf, Adds
<1> QED BY <1>1 DEF FramesOf, DirectionOf

LEMMA FontsKept ==
    ASSUME FontsRight, Adds, UNCHANGED <<fonts, glyphs>>,
           \A j \in 1 .. done' : LoadAssets[j].call = "font" => j \in 1 .. done
    PROVE  FontsRight'
<1>1. \A e \in Held(fonts) :
          /\ e.elem \in DOMAIN glyphs
          /\ \E font \in Range(Fonts) : e.key = font.name /\ GlyphsOf(glyphs[e.elem], font)'
    <2> SUFFICES ASSUME NEW e \in Held(fonts)
                 PROVE  /\ e.elem \in DOMAIN glyphs
                        /\ \E font \in Range(Fonts) :
                              e.key = font.name /\ GlyphsOf(glyphs[e.elem], font)'
        OBVIOUS
    <2>1. PICK t : t = glyphs[e.elem]
        OBVIOUS
    <2>2. PICK font \in Range(Fonts) : e.key = font.name /\ GlyphsOf(t, font)
        BY <2>1 DEF FontsRight
    <2>3. GlyphsOf(t, font)'
        BY <2>2, GlyphsKept
    <2>4. GlyphsOf(glyphs[e.elem], font)'
        <3>1. glyphs'[e.elem] = t
            BY <2>1
        <3> QED BY <2>3, <3>1, Zenon DEF GlyphsOf
    <2> QED BY <2>2, <2>4 DEF FontsRight
<1> QED BY <1>1, Zenon DEF FontsRight

LEMMA AnimsKept ==
    ASSUME AnimsRight, Adds, UNCHANGED <<anims, frames>>,
           \A j \in 1 .. done' : LoadAssets[j].call = "anim" => j \in 1 .. done
    PROVE  AnimsRight'
<1>1. \A e \in Held(anims) :
          /\ e.elem \in DOMAIN frames
          /\ \E a \in Range(Animations) : e.key = <<a.prefix, 0>> /\ FramesOf(frames[e.elem], a)'
    <2> SUFFICES ASSUME NEW e \in Held(anims)
                 PROVE  /\ e.elem \in DOMAIN frames
                        /\ \E a \in Range(Animations) :
                              e.key = <<a.prefix, 0>> /\ FramesOf(frames[e.elem], a)'
        OBVIOUS
    <2>1. PICK f : f = frames[e.elem]
        OBVIOUS
    <2>2. PICK a \in Range(Animations) : e.key = <<a.prefix, 0>> /\ FramesOf(f, a)
        BY <2>1 DEF AnimsRight
    <2>3. FramesOf(f, a)'
        BY <2>2, FramesKept
    <2>4. FramesOf(frames[e.elem], a)'
        <3>1. frames'[e.elem] = f
            BY <2>1
        <3> QED BY <2>3, <3>1, Zenon DEF FramesOf
    <2> QED BY <2>2, <2>4 DEF AnimsRight
<1> QED BY <1>1, Zenon DEF AnimsRight

\* What a call allocates, and which of it gets a name.
Loads(c, news) ==
    /\ Joined(spr', spr, news)
    /\ \A k \in 1 .. Len(news) : IsSprite(news[k]) /\ Upright(news[k])
    /\ Len(NamesOf(c)) <= Len(news)
    /\ \A k \in 1 .. Len(NamesOf(c)) :
          /\ news[k].texture = IF c.call = "sheet" THEN c.arg.image ELSE NamesOf(c)[k]
          /\ news[k].blend_mode = IF c.call = "flare" THEN "add" ELSE "alpha"
    /\ c.call = "sprite" => Len(news) = 1
    /\ PutInto(sprites', sprites, NamesOf(c), Len(spr), Len(NamesOf(c)))

LEMMA SpritesLoaded ==
    ASSUME InOrder, SpritesRight, TilesRight, script # <<>>, done' = done + 1,
           NEW c, c = Head(script), NEW news, Loads(c, news)
    PROVE  SpritesRight' /\ TilesRight' /\ Adds
<1>1. PICK n, l, names : n = done /\ l = Len(spr) /\ names = NamesOf(c)
    OBVIOUS
<1>2. n \in Nat /\ done' = n + 1 /\ n + 1 \in 1 .. Len(LoadAssets) /\ c = LoadAssets[n + 1]
    BY <1>1, ScriptStep
<1>3. names \in Seq(Names) /\ Len(names) \in Nat
    BY <1>1, <1>2, CallNames
<1>4. /\ IsList(spr') /\ l \in Nat /\ Len(news) \in Nat
      /\ DOMAIN spr = 1 .. l /\ DOMAIN spr' = 1 .. l + Len(news) /\ Len(spr') = l + Len(news)
      /\ \A p \in 1 .. l : spr'[p] = spr[p]
      /\ \A k \in 1 .. Len(news) : spr'[l + k] = news[k]
    <2>1. IsList(spr) /\ Joined(spr', spr, news)
        BY DEF SpritesRight, Loads
    <2> QED BY <1>1, <2>1, ListIsFunction DEF Joined
<1>5. \A p \in DOMAIN spr' : p \in 1 .. l \/ \E k \in 1 .. Len(news) : p = l + k
    <2>1. \A p \in 1 .. l + Len(news) : p \in 1 .. l \/ (p - l \in 1 .. Len(news) /\ p = l + (p - l))
        BY <1>4
    <2> QED BY <1>4, <2>1
<1>6. /\ Filled(sprites', Cardinality(Unnamed(names, Len(names))))
      /\ \A e : e \in Held(sprites') <=> e \in Held(sprites) \/ IsPut(e, names, l, Len(names))
    BY <1>1 DEF Loads, PutInto
<1>7. \A e : IsPut(e, names, l, Len(names))
               <=> \E i \in 1 .. Len(names) : e = [key |-> names[i], elem |-> l + i]
    <2>1. \A i \in 1 .. Len(names) : names[i] # NoName
        BY <1>3 DEF Names
    <2> QED BY <2>1, Zenon DEF IsPut
<1>8. /\ Len(names) <= Len(news)
      /\ \A k \in 1 .. Len(names) :
            GivenBy(c, names[k], spr'[l + k].texture, spr'[l + k].blend_mode)
    <2> SUFFICES ASSUME NEW k \in 1 .. Len(names)
                 PROVE  GivenBy(c, names[k], spr'[l + k].texture, spr'[l + k].blend_mode)
        BY <1>1 DEF Loads
    <2>1. k \in 1 .. Len(news) /\ k \in DOMAIN names
        BY <1>1, <1>3, <1>4 DEF Loads
    <2>2. /\ spr'[l + k].texture = IF c.call = "sheet" THEN c.arg.image ELSE names[k]
          /\ spr'[l + k].blend_mode = IF c.call = "flare" THEN "add" ELSE "alpha"
        BY <1>1, <1>4, <2>1, Zenon DEF Loads
    <2> QED BY <1>1, <2>1, <2>2, Zenon DEF GivenBy
<1>9. ASSUME NEW e, IsPut(e, names, l, Len(names))
      PROVE  e.elem \in DOMAIN spr' /\ e.elem \notin DOMAIN spr
             /\ GivenBy(c, e.key, spr'[e.elem].texture, spr'[e.elem].blend_mode)
    <2>1. PICK i \in 1 .. Len(names) : e = [key |-> names[i], elem |-> l + i]
        BY <1>7, <1>9
    <2>2. e.key = names[i] /\ e.elem = l + i
        BY <2>1
    <2> QED BY <1>3, <1>4, <1>8, <2>2
<1>10. Adds
    <2>1. Held(sprites) \subseteq Held(sprites')
        BY <1>6
    <2>2. \A e \in Held(sprites') : e \in Held(sprites) \/ e.elem \notin DOMAIN spr
        BY <1>6, <1>9
    <2>3. \A p \in DOMAIN spr : p \in DOMAIN spr' /\ spr'[p] = spr[p]
        BY <1>4
    <2> QED BY <2>1, <2>2, <2>3, Zenon DEF Adds
<1>11. SpritesRight'
    <2>1. ASSUME NEW p \in DOMAIN spr'
          PROVE  IsSprite(spr'[p]) /\ (Still(p)' => Upright(spr'[p]))
        <3>1. CASE p \in 1 .. l
            <4>1. Still(p)' => Still(p)
                BY <1>10 DEF Still, Adds
            <4> QED BY <1>4, <3>1, <4>1 DEF SpritesRight
        <3>2. ASSUME NEW k \in 1 .. Len(news), p = l + k
              PROVE  IsSprite(spr'[p]) /\ Upright(spr'[p])
            BY <1>4, <3>2, Zenon DEF Loads
        <3> QED BY <1>5, <3>1, <3>2
    <2>2. Filled(sprites', 0)
        <3>1. Unnamed(names, Len(names)) = {}
            BY <1>3 DEF Unnamed, Names
        <3> QED BY <1>6, <3>1, FS_EmptySet
    <2>3. ASSUME NEW e \in Held(sprites')
          PROVE  e.elem \in DOMAIN spr'
                 /\ Given(n + 1, e.key, spr'[e.elem].texture, spr'[e.elem].blend_mode)
        <3>1. CASE e \in Held(sprites)
            <4>1. e.elem \in DOMAIN spr /\ Given(n, e.key, spr[e.elem].texture, spr[e.elem].blend_mode)
                BY <1>1, <3>1 DEF SpritesRight
            <4>2. e.elem \in DOMAIN spr' /\ spr'[e.elem] = spr[e.elem]
                BY <1>4, <4>1
            <4> QED BY <1>2, <4>1, <4>2, GivenGrows
        <3>2. CASE IsPut(e, names, l, Len(names))
            BY <1>2, <1>9, <3>2, GivenGrows
        <3> QED BY <1>6, <3>1, <3>2
    <2>4. ASSUME NEW d \in Held(sprites'), NEW e \in Held(sprites'), d.elem = e.elem
          PROVE  d = e
        <3>1. CASE d \in Held(sprites) /\ e \in Held(sprites)
            BY <2>4, <3>1 DEF SpritesRight
        <3>2. CASE d \in Held(sprites) /\ IsPut(e, names, l, Len(names))
            BY <1>9, <2>4, <3>2 DEF SpritesRight
        <3>3. CASE IsPut(d, names, l, Len(names)) /\ e \in Held(sprites)
            BY <1>9, <2>4, <3>3 DEF SpritesRight
        <3>4. CASE IsPut(d, names, l, Len(names)) /\ IsPut(e, names, l, Len(names))
            <4>1. PICK i \in 1 .. Len(names), j \in 1 .. Len(names) :
                      d = [key |-> names[i], elem |-> l + i] /\ e = [key |-> names[j], elem |-> l + j]
                BY <1>7, <3>4
            <4>2. i = j
                <5>1. d.elem = l + i /\ e.elem = l + j
                    BY <4>1
                <5>2. l + i = l + j
                    BY <2>4, <5>1
                <5>3. i \in Nat /\ j \in Nat
                    BY <1>3
                <5> QED BY <1>4, <5>2, <5>3
            <4> QED BY <4>1, <4>2
        <3> QED BY <1>6, <3>1, <3>2, <3>3, <3>4
    <2>5. ASSUME NEW name, NEW tex, NEW mode, Given(n + 1, name, tex, mode)
          PROVE  \E e \in Held(sprites') : e.key = name
        <3>1. CASE Given(n, name, tex, mode)
            BY <1>1, <1>6, <3>1 DEF SpritesRight
        <3>2. CASE GivenBy(c, name, tex, mode)
            <4>1. PICK k \in 1 .. Len(names) : name = names[k]
                BY <1>1, <1>3, <3>2 DEF GivenBy
            <4>2. PICK e : e = [key |-> names[k], elem |-> l + k]
                OBVIOUS
            <4>3. e \in Held(sprites') /\ e.key = name
                BY <1>6, <1>7, <4>1, <4>2
            <4> QED BY <4>3
        <3> QED BY <1>2, <2>5, <3>1, <3>2, GivenGrows
    <2>6. \A e \in Held(sprites') :
              e.elem \in DOMAIN spr'
                  /\ Given(done', e.key, spr'[e.elem].texture, spr'[e.elem].blend_mode)
        BY <1>2, <2>3
    <2>7. \A name, tex, mode :
              Given(done', name, tex, mode) => \E e \in Held(sprites') : e.key = name
        BY <1>2, <2>5
    <2> QED BY <1>4, <2>1, <2>2, <2>4, <2>6, <2>7, Zenon DEF SpritesRight
<1>12. TilesRight'
    <2>1. CallAt(n + 1)
        BY <1>2, LoadAssetsCalls
    <2>2. DOMAIN TileImages = 1 .. Len(TileImages) /\ Len(TileImages) \in Nat
        BY NamesAssumption, ListIsFunction
    <2>3. CASE n + 1 <= Len(TileImages)
        <3>1. c = [call |-> "sprite", arg |-> TileImages[n + 1]]
            BY <1>2, <2>1, <2>3 DEF CallAt
        <3>2. c.call = "sprite" /\ names = <<TileImages[n + 1]>>
            BY <1>1, <3>1 DEF NamesOf
        <3>3. Len(news) = 1 /\ news[1].texture = TileImages[n + 1]
            <4>1. 1 \in 1 .. Len(names) /\ names[1] = TileImages[n + 1] /\ c.call # "sheet"
                BY <3>2
            <4> QED BY <1>1, <3>2, <4>1 DEF Loads
        <3>4. l = n
            BY <1>1, <1>2, <2>3 DEF TilesRight
        <3>5. spr'[n + 1].texture = TileImages[n + 1] /\ Len(spr') = n + 1 /\ n + 1 \in DOMAIN spr'
            BY <1>4, <3>3, <3>4
        <3>6. ASSUME NEW i \in DOMAIN TileImages, i <= n + 1
              PROVE  i \in DOMAIN spr' /\ spr'[i].texture = TileImages[i]
            <4>1. CASE i = n + 1
                BY <3>5, <4>1
            <4>2. CASE i <= n
                <5>1. i \in DOMAIN spr /\ spr[i].texture = TileImages[i]
                    BY <1>1, <3>6, <4>2 DEF TilesRight
                <5> QED BY <1>4, <5>1
            <4> QED BY <1>2, <2>2, <3>6, <4>1, <4>2
        <3> QED BY <1>2, <3>5, <3>6 DEF TilesRight
    <2>4. CASE ~(n + 1 <= Len(TileImages))
        <3>1. \A i \in DOMAIN TileImages : i \in DOMAIN spr /\ spr[i].texture = TileImages[i]
            BY <1>1, <1>2, <2>2, <2>4 DEF TilesRight
        <3>2. \A i \in DOMAIN TileImages : i \in DOMAIN spr' /\ spr'[i].texture = TileImages[i]
            BY <1>4, <3>1
        <3> QED BY <1>2, <2>4, <3>2 DEF TilesRight
    <2> QED BY <2>3, <2>4
<1> QED BY <1>10, <1>11, <1>12

-----------------------------------------------------------------------------
(* What each of the calls allocates.                                       *)

LEMMA FreshSprite ==
    ASSUME NEW tex, tex # Missing
    PROVE  /\ NewSprite(tex).texture = tex /\ NewSprite(tex).blend_mode = "alpha"
           /\ IsSprite(NewSprite(tex)) /\ Upright(NewSprite(tex))
BY DEF NewSprite, IsSprite, Upright, Modes

\* The table has no entries but for the Sprites there are.
LEMMA NamedSprites ==
    ASSUME SpritesRight
    PROVE  /\ Filled(sprites, 0) /\ Len(spr) \in Nat /\ DOMAIN spr = 1 .. Len(spr)
           /\ \A e \in Held(sprites) : e.elem \in 1 .. Len(spr) /\ e.elem <= Len(spr)
           /\ \A base : PutInto(sprites, sprites, <<>>, base, 0)
<1>1. Filled(sprites, 0) /\ Len(spr) \in Nat /\ DOMAIN spr = 1 .. Len(spr)
    BY ListIsFunction DEF SpritesRight
<1>2. \A e \in Held(sprites) : e.elem \in 1 .. Len(spr) /\ e.elem <= Len(spr)
    BY <1>1 DEF SpritesRight
<1>3. ASSUME NEW base PROVE PutInto(sprites, sprites, <<>>, base, 0)
    <2>1. Unnamed(<<>>, 0) = {} /\ \A e : ~IsPut(e, <<>>, base, 0)
        BY DEF Unnamed, IsPut
    <2> QED BY <1>1, <2>1, FS_EmptySet, Zenon DEF PutInto
<1> QED BY <1>1, <1>2, <1>3

LEMMA SpriteCall ==
    ASSUME SpritesRight, NEW c, NEW mode,
           (c.call = "sprite" /\ mode = "alpha") \/ (c.call = "flare" /\ mode = "add"),
           NamesOf(c) \in Seq(Names), LoadSprite(c.arg, mode)
    PROVE  \E news : Loads(c, news)
<1>1. PICK name, l, x, news :
          /\ name = c.arg /\ l = Len(spr) /\ x = [NewSprite(name) EXCEPT !.blend_mode = mode]
          /\ news = <<x>>
    OBVIOUS
<1>2. NamesOf(c) = <<name>> /\ name \in Names
    <2>1. NamesOf(c) = <<name>>
        BY <1>1 DEF NamesOf
    <2> QED BY <2>1
<1>3. x.texture = name /\ x.blend_mode = mode /\ IsSprite(x) /\ Upright(x)
    <2>1. name # Missing /\ mode \in Modes
        BY <1>2, NullAssumption DEF Names, Modes
    <2>2. x = [texture |-> name, blend_mode |-> mode, tint |-> White, angle |-> 0]
        BY <1>1 DEF NewSprite
    <2>3. x.texture = name /\ x.blend_mode = mode /\ x.tint = White /\ x.angle = 0
        BY <2>2
    <2> QED BY <2>1, <2>2, <2>3, Zenon DEF IsSprite, Upright
<1>4. Len(news) = 1 /\ news[1] = x
    BY <1>1
<1>5. Joined(spr', spr, news)
    <2>1. spr' = Append(spr, x)
        BY <1>1, Zenon DEF LoadSprite
    <2>2. IsList(spr) /\ Len(spr) \in Nat
        BY NamedSprites DEF SpritesRight
    <2>3. /\ IsList(spr') /\ Len(spr') = Len(spr) + 1
          /\ \A k \in 1 .. Len(spr) : spr'[k] = spr[k]
          /\ spr'[Len(spr) + 1] = x
        BY <2>1, <2>2, AppendIsList
    <2>4. \A i \in 1 .. 1 : i = 1
        OBVIOUS
    <2> QED BY <1>4, <2>2, <2>3, <2>4 DEF Joined
<1>6. PutInto(sprites', sprites, <<name>>, l, 1)
    <2>1. sprites' = HashmapIns(sprites, name, l + 1)
        BY <1>1 DEF LoadSprite
    <2>2. Filled(sprites, 0) /\ l \in Nat /\ \A e \in Held(sprites) : e.elem \in 1 .. l
        BY <1>1, NamedSprites
    <2>3. l + 1 \in Nat /\ \A e \in Held(sprites) : e.elem # l + 1
        BY <2>2
    <2>4. name \in DOMAIN Home /\ name # NoName
        BY <1>2 DEF Names
    <2>5. Filled(sprites', 0) /\ Held(sprites') = Held(sprites) \union {[key |-> name, elem |-> l + 1]}
        BY <2>1, <2>2, <2>3, <2>4, HashmapInsFills
    <2>6. <<name>>[1] = name /\ \A i \in 1 .. 1 : i = 1
        OBVIOUS
    <2>7. Unnamed(<<name>>, 1) = {}
        BY <2>4 DEF Unnamed
    <2>8. \A e : IsPut(e, <<name>>, l, 1) <=> e = [key |-> name, elem |-> l + 1]
        <3>1. 1 \in 1 .. 1
            OBVIOUS
        <3> QED BY <2>4, <2>6, <3>1, Zenon DEF IsPut
    <2> QED BY <2>5, <2>7, <2>8, FS_EmptySet DEF PutInto
<1>7. /\ \A k \in 1 .. Len(news) : IsSprite(news[k]) /\ Upright(news[k])
      /\ c.call # "sheet" /\ mode = IF c.call = "flare" THEN "add" ELSE "alpha"
    BY <1>3, <1>4
<1>8. \A k \in 1 .. 1 : news[k].texture = <<name>>[k] /\ news[k].blend_mode = mode
    BY <1>3, <1>4
<1>9. Len(<<name>>) = 1 /\ Len(<<name>>) <= Len(news)
    BY <1>4
<1>10. /\ \A k \in 1 .. Len(NamesOf(c)) :
             /\ news[k].texture = IF c.call = "sheet" THEN c.arg.image ELSE NamesOf(c)[k]
             /\ news[k].blend_mode = IF c.call = "flare" THEN "add" ELSE "alpha"
       /\ PutInto(sprites', sprites, NamesOf(c), Len(spr), Len(NamesOf(c)))
       /\ Len(NamesOf(c)) <= Len(news)
    BY <1>1, <1>2, <1>6, <1>7, <1>8, <1>9, Zenon
<1> QED BY <1>4, <1>5, <1>7, <1>10, Zenon DEF Loads

\* The Sprites of a sheet, whatever texture each of them has.
LEMMA SheetCall ==
    ASSUME SpritesRight, NEW c, c.call \in {"sheet", "split"}, NamesOf(c) = c.arg.names,
           c.arg.names \in Seq(Names), c.call = "sheet" => c.arg.image # Missing,
           (c.call = "sheet" /\ LoadSheet(c.arg)) \/ (c.call = "split" /\ LoadSheetSplit(c.arg))
    PROVE  \E news : Loads(c, news)
<1>1. PICK names, l, N : names = c.arg.names /\ l = Len(spr) /\ N = Len(names)
    OBVIOUS
<1>2. names \in Seq(Names) /\ N \in Nat /\ DOMAIN names = 1 .. N
      /\ \A i \in 1 .. N : names[i] \in Names /\ names[i] # Missing
    <2>1. \A x \in Names : x # Missing
        BY NullAssumption DEF Names
    <2> QED BY <1>1, <2>1
<1>3. PICK tex : tex = [i \in 1 .. N |-> IF c.call = "sheet" THEN c.arg.image ELSE names[i]]
    OBVIOUS
<1>4. PICK news : news = [i \in 1 .. N |-> NewSprite(tex[i])]
    OBVIOUS
<1>5. \A i \in 1 .. N :
          /\ news[i].texture = tex[i] /\ news[i].blend_mode = "alpha"
          /\ IsSprite(news[i]) /\ Upright(news[i])
    BY <1>2, <1>3, <1>4, FreshSprite
<1>6. IsList(news) /\ Len(news) = N
    <2>1. news \in Seq({news[i] : i \in 1 .. N}) /\ Len(news) = N
        BY <1>2, <1>4
    <2> QED BY <2>1, SequenceIsList
<1>7. spr' = spr \o news
    <2>1. CASE c.call = "sheet" /\ LoadSheet(c.arg)
        <3>1. spr' = spr \o [i \in DOMAIN names |-> NewSprite(c.arg.image)]
            BY <1>1, <2>1 DEF LoadSheet
        <3>2. news = [i \in 1 .. N |-> NewSprite(c.arg.image)]
            BY <1>3, <1>4, <2>1
        <3> QED BY <1>2, <3>1, <3>2
    <2>2. CASE c.call = "split" /\ LoadSheetSplit(c.arg)
        <3>1. spr' = spr \o [i \in DOMAIN names |-> NewSprite(names[i])]
            BY <1>1, <2>2 DEF LoadSheetSplit
        <3>2. news = [i \in 1 .. N |-> NewSprite(names[i])]
            BY <1>3, <1>4, <2>2
        <3> QED BY <1>2, <3>1, <3>2
    <2> QED BY <2>1, <2>2
<1>8. Joined(spr', spr, news)
    BY <1>6, <1>7, Concatenated DEF SpritesRight
<1>9. PutInto(sprites', sprites, names, l, N)
    <2>1. sprites' = InsertAll(sprites, names, Fresh(N))
        BY <1>1, Zenon DEF LoadSheet, LoadSheetSplit
    <2>2. Filled(sprites, 0) /\ l \in Nat /\ \A e \in Held(sprites) : e.elem <= l
        BY <1>1, NamedSprites
    <2>3. Fresh(N) = [i \in 1 .. Len(names) |-> l + i]
        BY <1>1 DEF Fresh
    <2>4. names \in Seq(DOMAIN Home)
        BY <1>2 DEF Names
    <2>5. PutInto(InsertAll(sprites, names, Fresh(N)), sprites, names, l, Len(names))
        BY <2>2, <2>3, <2>4, AllInserted
    <2> QED BY <1>1, <2>1, <2>5, Zenon
<1>10. \A k \in 1 .. N :
          /\ news[k].texture = IF c.call = "sheet" THEN c.arg.image ELSE names[k]
          /\ news[k].blend_mode = IF c.call = "flare" THEN "add" ELSE "alpha"
    BY <1>3, <1>5
<1>11. N <= N /\ c.call # "sprite"
    BY <1>2
<1> QED BY <1>1, <1>5, <1>6, <1>8, <1>9, <1>10, <1>11, Zenon DEF Loads

-----------------------------------------------------------------------------
(* A font.                                                                 *)

IsFontSprite(s, font) ==
    s.texture = font.image /\ s.blend_mode = "alpha" /\ IsSprite(s) /\ Upright(s)

LEMMA FontSprites ==
    ASSUME SpritesRight, NEW font \in Range(Fonts), FontLoad(font)
    PROVE  \E news : /\ Joined(spr', spr, news) /\ Len(news) = Len(font.glyphs)
                     /\ \A k \in 1 .. Len(news) : IsFontSprite(news[k], font)
<1>1. PICK N : N = Len(font.glyphs)
    OBVIOUS
<1>2. N \in Nat /\ DOMAIN font.glyphs = 1 .. N /\ font.image # Missing
    BY <1>1, NamesAssumption
<1>3. PICK news : news = [i \in 1 .. N |-> NewSprite(font.image)]
    OBVIOUS
<1>4. IsList(news) /\ Len(news) = N
    <2>1. news \in Seq({NewSprite(font.image)}) /\ Len(news) = N
        BY <1>2, <1>3
    <2> QED BY <2>1, SequenceIsList
<1>5. spr' = spr \o news
    BY <1>2, <1>3, Zenon DEF FontLoad
<1>6. Joined(spr', spr, news)
    BY <1>4, <1>5, Concatenated DEF SpritesRight
<1>7. \A k \in 1 .. N : IsFontSprite(news[k], font)
    BY <1>2, <1>3, FreshSprite DEF IsFontSprite
<1> QED BY <1>1, <1>4, <1>6, <1>7, Zenon

LEMMA FontCall ==
    ASSUME SpritesRight, NEW c, c.call = "font", c.arg \in Range(Fonts), FontLoad(c.arg)
    PROVE  \E news : Loads(c, news)
<1>1. PICK font : font = c.arg
    OBVIOUS
<1>2. PICK news : /\ Joined(spr', spr, news) /\ Len(news) = Len(font.glyphs)
                  /\ \A k \in 1 .. Len(news) : IsFontSprite(news[k], font)
    BY <1>1, FontSprites
<1>3. NamesOf(c) = <<>> /\ Len(NamesOf(c)) = 0 /\ c.call # "sprite"
    BY DEF NamesOf
<1>4. 0 <= Len(news) /\ \A k : k \notin 1 .. 0
    BY <1>2 DEF Joined
<1>5. PutInto(sprites', sprites, <<>>, Len(spr), 0)
    BY NamedSprites DEF FontLoad
<1> QED BY <1>2, <1>3, <1>4, <1>5, Zenon DEF Loads, IsFontSprite

\* The glyphs of the new font are looked up in a table of their own.
LEMMA GlyphsLoaded ==
    ASSUME SpritesRight, NEW font \in Range(Fonts), FontLoad(font),
           NEW t, t = InsertAll(NewTable(MinSize), font.glyphs, Fresh(Len(font.glyphs)))
    PROVE  GlyphsOf(t, font)'
<1>1. PICK N, l, new, g : N = Len(font.glyphs) /\ l = Len(spr) /\ new = NewTable(MinSize)
                          /\ g = font.glyphs
    OBVIOUS
<1>2. N \in Nat /\ DOMAIN g = 1 .. N /\ g \in Seq(DOMAIN Home)
    BY <1>1, NamesAssumption
<1>3. l \in Nat /\ DOMAIN spr = 1 .. l /\ \A e \in Held(sprites) : e.elem \in 1 .. l
    BY <1>1, NamedSprites
<1>4. PutInto(t, new, g, l, N) /\ Held(new) = {}
    <2>1. Filled(new, 0) /\ Held(new) = {}
        BY <1>1, NewTableFilled
    <2>2. PICK elems : elems = Fresh(Len(g))
        OBVIOUS
    <2>3. elems = [i \in 1 .. Len(g) |-> l + i]
        BY <1>1, <2>2, Zenon DEF Fresh
    <2>4. PutInto(InsertAll(new, g, elems), new, g, l, Len(g))
        BY <1>2, <1>3, <2>1, <2>3, AllInserted
    <2> QED BY <1>1, <2>1, <2>2, <2>4, Zenon
<1>5. Filled(t, Cardinality(Nameless(font)))
    <2>1. Nameless(font) = Unnamed(g, N)
        BY <1>1, <1>2 DEF Nameless, Unnamed
    <2> QED BY <1>4, <2>1, Zenon DEF PutInto
<1>6. \A x : x \in Held(t) <=> IsPut(x, g, l, N)
    BY <1>4, Zenon DEF PutInto
<1>7. PICK news : /\ Joined(spr', spr, news) /\ Len(news) = N
                  /\ \A k \in 1 .. Len(news) : IsFontSprite(news[k], font)
    BY <1>1, FontSprites
<1>8. /\ DOMAIN spr' = 1 .. l + N
      /\ \A k \in 1 .. N : IsFontSprite(spr'[l + k], font)
    BY <1>1, <1>2, <1>7, ListIsFunction DEF Joined
<1>9. ASSUME NEW x \in Held(t)
      PROVE  /\ x.elem \in DOMAIN spr'
             /\ spr'[x.elem].texture = font.image /\ spr'[x.elem].blend_mode = "alpha"
             /\ \A e \in Held(sprites') : e.elem # x.elem
    <2>1. PICK i \in 1 .. N : x = [key |-> g[i], elem |-> l + i]
        BY <1>6 DEF IsPut
    <2>2. x.elem = l + i /\ l + i \in 1 .. l + N /\ l + i \notin 1 .. l
        BY <1>2, <1>3, <2>1
    <2>3. sprites' = sprites
        BY DEF FontLoad
    <2> QED BY <1>3, <1>8, <2>2, <2>3 DEF IsFontSprite
<1>10. ASSUME NEW k \in DOMAIN g, g[k] # NoName
       PROVE  \E x \in Held(t) : x.key = g[k]
    <2>1. PICK x : x = [key |-> g[k], elem |-> l + k]
        OBVIOUS
    <2>2. x.key = g[k] /\ IsPut(x, g, l, N)
        BY <1>2, <1>10, <2>1 DEF IsPut
    <2> QED BY <1>6, <2>2
<1> QED BY <1>1, <1>5, <1>9, <1>10, Zenon DEF GlyphsOf

LEMMA FontsLoaded ==
    ASSUME SpritesRight, FontsRight, Adds, NEW n \in Nat, n = done, done' = n + 1,
           NEW c, c = LoadAssets[n + 1], c.call = "font", c.arg \in Range(Fonts), FontLoad(c.arg)
    PROVE  FontsRight'
<1>1. PICK font, m, t :
          /\ font = c.arg /\ m = Len(glyphs)
          /\ t = InsertAll(NewTable(MinSize), font.glyphs, Fresh(Len(font.glyphs)))
    OBVIOUS
<1>2. font.name \in DOMAIN Home /\ font.name # NoName
    BY <1>1, NamesAssumption DEF Names
<1>3. IsList(glyphs) /\ m \in Nat /\ DOMAIN glyphs = 1 .. m
    BY <1>1, ListIsFunction DEF FontsRight
<1>4. glyphs' = Append(glyphs, t)
    BY <1>1, Zenon DEF FontLoad
<1>5. /\ IsList(glyphs') /\ DOMAIN glyphs' = 1 .. m + 1
      /\ \A k \in 1 .. m : glyphs'[k] = glyphs[k]
      /\ glyphs'[m + 1] = t
    BY <1>1, <1>3, <1>4, AppendIsList, ListIsFunction
<1>6. PICK x : x = [key |-> font.name, elem |-> m + 1]
    OBVIOUS
<1>7. x.key = font.name /\ x.elem = m + 1
    BY <1>6
<1>8. Filled(fonts', 0) /\ Held(fonts') = Held(fonts) \union {x}
    <2>1. fonts' = HashmapIns(fonts, font.name, m + 1)
        BY <1>1 DEF FontLoad
    <2>2. \A e \in Held(fonts) : e.elem \in 1 .. m
        BY <1>3 DEF FontsRight
    <2>3. m + 1 \in Nat /\ \A e \in Held(fonts) : e.elem # m + 1
        BY <1>3, <2>2
    <2>4. Filled(fonts, 0) /\ 0 \in Nat
        BY DEF FontsRight
    <2> QED BY <1>2, <1>6, <2>1, <2>3, <2>4, HashmapInsFills
<1>9. GlyphsOf(t, font)'
    BY <1>1, GlyphsLoaded
<1>10. ASSUME NEW e \in Held(fonts')
       PROVE  /\ e.elem \in DOMAIN glyphs'
              /\ \E f \in Range(Fonts) : e.key = f.name /\ GlyphsOf(glyphs[e.elem], f)'
    <2>1. CASE e \in Held(fonts)
        <3>1. PICK u : u = glyphs[e.elem]
            OBVIOUS
        <3>2. e.elem \in 1 .. m
            BY <1>3, <2>1 DEF FontsRight
        <3>3. PICK f \in Range(Fonts) : e.key = f.name /\ GlyphsOf(u, f)
            BY <2>1, <3>1, Zenon DEF FontsRight
        <3>4. GlyphsOf(u, f)'
            BY <3>3, GlyphsKept
        <3>5. glyphs'[e.elem] = u /\ e.elem \in DOMAIN glyphs'
            BY <1>3, <1>5, <3>1, <3>2
        <3>6. GlyphsOf(glyphs[e.elem], f)'
            BY <3>4, <3>5, Zenon DEF GlyphsOf
        <3> QED BY <3>3, <3>5, <3>6, Zenon
    <2>2. CASE e = x
        <3>1. glyphs'[e.elem] = t /\ e.elem \in DOMAIN glyphs'
            BY <1>3, <1>5, <1>7, <2>2
        <3>2. GlyphsOf(glyphs[e.elem], font)'
            BY <1>9, <3>1, Zenon DEF GlyphsOf
        <3> QED BY <1>1, <1>7, <2>2, <3>1, <3>2, Zenon
    <2>3. e \in Held(fonts) \/ e = x
        BY <1>8
    <2> QED BY <2>1, <2>2, <2>3
<1>11. \A j \in 1 .. done' :
           LoadAssets[j].call = "font" => \E e \in Held(fonts') : e.key = LoadAssets[j].arg.name
    <2>1. \A j \in 1 .. done' : j \in 1 .. n \/ j = n + 1
        OBVIOUS
    <2>2. \A j \in 1 .. n :
              LoadAssets[j].call = "font" => \E e \in Held(fonts') : e.key = LoadAssets[j].arg.name
        BY <1>8 DEF FontsRight
    <2>3. x \in Held(fonts') /\ x.key = LoadAssets[n + 1].arg.name
        BY <1>1, <1>7, <1>8
    <2> QED BY <2>1, <2>2, <2>3, Zenon
<1> QED BY <1>5, <1>8, <1>10, <1>11, Zenon DEF FontsRight

-----------------------------------------------------------------------------
(* An animation.                                                           *)

LEMMA AnimCall ==
    ASSUME SpritesRight, NEW c, c.call = "anim", UNCHANGED <<spr, sprites>>
    PROVE  \E news : Loads(c, news)
<1>1. PICK news : news = <<>>
    OBVIOUS
<1>2. NamesOf(c) = <<>> /\ Len(NamesOf(c)) = 0 /\ c.call # "sprite"
    BY DEF NamesOf
<1>3. Joined(spr', spr, news)
    <2>1. IsList(spr) /\ Len(spr) \in Nat
        BY NamedSprites DEF SpritesRight
    <2>2. Len(news) = 0 /\ \A i : i \notin 1 .. 0
        BY <1>1
    <2>3. Len(spr) = Len(spr) + 0
        BY <2>1
    <2> QED BY <2>1, <2>2, <2>3 DEF Joined
<1>4. Len(news) = 0 /\ 0 <= 0 /\ \A k : k \notin 1 .. 0
    BY <1>1
<1>5. PutInto(sprites', sprites, <<>>, Len(spr), 0)
    BY NamedSprites
<1> QED BY <1>2, <1>3, <1>4, <1>5, Zenon DEF Loads

\* A name that was given is found in the table.
LEMMA NameFound ==
    ASSUME InOrder, SpritesRight, NEW name, NEW tex, NEW mode, Given(done, name, tex, mode)
    PROVE  FrameOf(BlitGetSprite(name), name)
<1>1. name \in Names /\ name \in DOMAIN Home
    BY GivenName DEF InOrder, Names
<1>2. PICK e \in Held(sprites) : e.key = name
    BY DEF SpritesRight
<1>3. Map!Table(sprites)
    BY DEF SpritesRight, Filled
<1>4. PICK x \in Held(sprites) : x.key = name /\ x.elem = HashmapFind(sprites, name)
    BY <1>1, <1>2, <1>3, FindFinds
<1> QED BY <1>4, Zenon DEF FrameOf, BlitGetSprite

\* The frames of a direction are found when the animation is built.
FramesFor(a, d) == FrameRange(a.prefix, d * a.len + 1, d * a.len + a.len)

LEMMA FrameCount == \A s, len \in Nat : (s + len) - (s + 1) + 1 = len /\ \A k \in Nat : (s + 1) + k - 1 = s + k
OBVIOUS

LEMMA FramesFound ==
    ASSUME InOrder, SpritesRight, script # <<>>, LoadAssets[done + 1].call = "anim",
           NEW a \in Range(Animations), NEW d \in 0 .. Directions - 1,
           NEW f, f = FramesFor(a, d)
    PROVE  DirectionOf(f, a, d)
<1>1. d \in Nat /\ a.len \in Nat
    <2>1. Directions \in Nat /\ a.len \in Nat \ {0}
        BY NamesAssumption, Zenon
    <2> QED BY <2>1
<1>2. PICK s : s = d * a.len /\ s \in Nat
    BY <1>1
<1>3. (s + a.len) - (s + 1) + 1 = a.len /\ \A k \in 1 .. a.len : (s + 1) + k - 1 = s + k
    <2>1. PICK len : len = a.len /\ len \in Nat
        BY <1>1
    <2>2. (s + len) - (s + 1) + 1 = len /\ \A k \in Nat : (s + 1) + k - 1 = s + k
        BY <1>2, <2>1, FrameCount
    <2>3. \A k \in 1 .. len : k \in Nat
        OBVIOUS
    <2> QED BY <2>1, <2>2, <2>3, Zenon
<1>4. f = [k \in 1 .. a.len |-> BlitGetSprite(<<a.prefix, (s + 1) + k - 1>>)]
    BY <1>2, <1>3, Zenon DEF FramesFor, FrameRange
<1>5. f = [k \in 1 .. a.len |-> f[k]]
    BY <1>4, Zenon
<1>6. ASSUME NEW k \in 1 .. a.len
      PROVE  FrameOf(f[k], <<a.prefix, d * a.len + k>>)
    <2>1. PICK name : name = <<a.prefix, d * a.len + k>>
        OBVIOUS
    <2>2. PICK sheet \in Range(SplitSheets) : name \in Range(sheet.names)
        BY <2>1, NamesAssumption
    <2>3. done + 1 \in 1 .. Len(LoadAssets) /\ (done + 1) - 1 = done
        BY ScriptStep
    <2>4. Given((done + 1) - 1, name, name, "alpha")
        BY <2>2, <2>3, FramesGiven
    <2>5. Given(done, name, name, "alpha")
        BY <2>3, <2>4, Zenon
    <2>6. FrameOf(BlitGetSprite(name), name)
        BY <2>5, NameFound
    <2>7. f[k] = BlitGetSprite(name)
        BY <1>2, <1>3, <1>4, <2>1, Zenon
    <2> QED BY <2>1, <2>6, <2>7, Zenon
<1> QED BY <1>5, <1>6, Zenon DEF DirectionOf

LEMMA AnimsLoaded ==
    ASSUME InOrder, SpritesRight, AnimsRight, script # <<>>, Adds, done' = done + 1,
           NEW c, c = LoadAssets[done + 1], c.call = "anim", c.arg \in Range(Animations),
           IsoanimBuild(c.arg)
    PROVE  AnimsRight'
<1>1. PICK a, m, g, n :
          /\ a = c.arg /\ m = Len(frames) /\ n = done
          /\ g = [d \in 0 .. Directions - 1 |->
                     FrameRange(a.prefix, d * a.len + 1, d * a.len + a.len)]
    OBVIOUS
<1>2. PICK key : key = <<a.prefix, 0>>
    OBVIOUS
<1>3. key \in DOMAIN Home /\ key # NoName
    BY <1>1, <1>2, NamesAssumption DEF Names
<1>4. IsList(frames) /\ m \in Nat /\ DOMAIN frames = 1 .. m /\ n \in Nat
    BY <1>1, ListIsFunction, ScriptStep DEF AnimsRight
<1>5. frames' = Append(frames, g)
    BY <1>1, Zenon DEF IsoanimBuild
<1>6. /\ IsList(frames') /\ DOMAIN frames' = 1 .. m + 1
      /\ \A k \in 1 .. m : frames'[k] = frames[k]
      /\ frames'[m + 1] = g
    BY <1>1, <1>4, <1>5, AppendIsList, ListIsFunction
<1>7. PICK x : x = [key |-> key, elem |-> m + 1]
    OBVIOUS
<1>8. x.key = key /\ x.elem = m + 1
    BY <1>7
<1>9. Filled(anims', 0) /\ Held(anims') = Held(anims) \union {x}
    <2>1. anims' = HashmapIns(anims, key, m + 1)
        BY <1>1, <1>2 DEF IsoanimBuild
    <2>2. \A e \in Held(anims) : e.elem \in 1 .. m
        BY <1>4 DEF AnimsRight
    <2>3. m + 1 \in Nat /\ \A e \in Held(anims) : e.elem # m + 1
        BY <1>4, <2>2
    <2>4. Filled(anims, 0) /\ 0 \in Nat
        BY DEF AnimsRight
    <2> QED BY <1>3, <1>7, <2>1, <2>3, <2>4, HashmapInsFills
<1>10. FramesOf(g, a)'
    <2>1. ASSUME NEW d \in 0 .. Directions - 1
          PROVE  DirectionOf(g[d], a, d)
        <3>1. PICK f : f = FramesFor(a, d)
            OBVIOUS
        <3>2. DirectionOf(f, a, d)
            BY <1>1, <3>1, FramesFound
        <3>3. g[d] = f
            BY <1>1, <3>1, Zenon DEF FramesFor
        <3> QED BY <3>2, <3>3, Zenon
    <2>2. FramesOf(g, a)
        BY <2>1, Zenon DEF FramesOf
    <2> QED BY <2>2, FramesKept
<1>11. ASSUME NEW e \in Held(anims')
       PROVE  /\ e.elem \in DOMAIN frames'
              /\ \E b \in Range(Animations) :
                    e.key = <<b.prefix, 0>> /\ FramesOf(frames[e.elem], b)'
    <2>1. CASE e \in Held(anims)
        <3>1. PICK f : f = frames[e.elem]
            OBVIOUS
        <3>2. e.elem \in 1 .. m
            BY <1>4, <2>1 DEF AnimsRight
        <3>3. PICK b \in Range(Animations) : e.key = <<b.prefix, 0>> /\ FramesOf(f, b)
            BY <2>1, <3>1, Zenon DEF AnimsRight
        <3>4. FramesOf(f, b)'
            BY <3>3, FramesKept
        <3>5. frames'[e.elem] = f /\ e.elem \in DOMAIN frames'
            BY <1>4, <1>6, <3>1, <3>2
        <3>6. FramesOf(frames[e.elem], b)'
            BY <3>4, <3>5, Zenon DEF FramesOf
        <3> QED BY <3>3, <3>5, <3>6, Zenon
    <2>2. CASE e = x
        <3>1. frames'[e.elem] = g /\ e.elem \in DOMAIN frames'
            BY <1>4, <1>6, <1>8, <2>2
        <3>2. FramesOf(frames[e.elem], a)'
            BY <1>10, <3>1, Zenon DEF FramesOf
        <3> QED BY <1>1, <1>2, <1>8, <2>2, <3>1, <3>2, Zenon
    <2>3. e \in Held(anims) \/ e = x
        BY <1>9
    <2> QED BY <2>1, <2>2, <2>3
<1>12. \A j \in 1 .. done' :
           LoadAssets[j].call = "anim" =>
               \E e \in Held(anims') : e.key = <<LoadAssets[j].arg.prefix, 0>>
    <2>1. \A j \in 1 .. done' : j \in 1 .. n \/ j = n + 1
        BY <1>1, <1>4
    <2>2. \A j \in 1 .. n :
              LoadAssets[j].call = "anim" =>
                  \E e \in Held(anims') : e.key = <<LoadAssets[j].arg.prefix, 0>>
        BY <1>1, <1>9 DEF AnimsRight
    <2>3. x \in Held(anims') /\ x.key = <<LoadAssets[n + 1].arg.prefix, 0>>
        BY <1>1, <1>2, <1>8, <1>9
    <2> QED BY <2>1, <2>2, <2>3, Zenon
<1> QED BY <1>6, <1>9, <1>11, <1>12, Zenon DEF AnimsRight

-----------------------------------------------------------------------------
(* load_assets keeps the invariant.                                        *)

LEMMA CallsMade ==
    ASSUME InOrder, Load, NEW c, c = Head(script)
    PROVE  /\ script # <<>> /\ script' = Tail(script) /\ c = LoadAssets[done + 1]
           /\ \/ c.call = "sprite" /\ LoadSprite(c.arg, "alpha")
              \/ c.call = "flare" /\ LoadSprite(c.arg, "add")
              \/ c.call = "split" /\ LoadSheetSplit(c.arg) /\ c.arg \in Range(SplitSheets)
              \/ c.call = "sheet" /\ LoadSheet(c.arg) /\ c.arg \in Range(WholeSheets)
              \/ c.call = "font" /\ FontLoad(c.arg) /\ c.arg \in Range(Fonts)
              \/ c.call = "anim" /\ IsoanimBuild(c.arg) /\ c.arg \in Range(Animations)
<1>1. /\ script # <<>> /\ script' = Tail(script)
      /\ \/ c.call = "sprite" /\ LoadSprite(c.arg, "alpha")
         \/ c.call = "flare" /\ LoadSprite(c.arg, "add")
         \/ c.call = "split" /\ LoadSheetSplit(c.arg)
         \/ c.call = "sheet" /\ LoadSheet(c.arg)
         \/ c.call = "font" /\ FontLoad(c.arg)
         \/ c.call = "anim" /\ IsoanimBuild(c.arg)
    BY Zenon DEF Load
<1>2. c = LoadAssets[done + 1] /\ CallAt(done + 1)
    BY <1>1, ScriptStep, LoadAssetsCalls
<1>3. /\ c.call = "split" => c.arg \in Range(SplitSheets)
      /\ c.call = "sheet" => c.arg \in Range(WholeSheets)
      /\ c.call = "font" => c.arg \in Range(Fonts)
      /\ c.call = "anim" => c.arg \in Range(Animations)
    BY <1>2 DEF CallAt
<1> QED BY <1>1, <1>2, <1>3, Zenon

\* Whatever is called, it allocates Sprites and names them.
LEMMA CallLoads ==
    ASSUME InOrder, SpritesRight, Load, NEW c, c = Head(script)
    PROVE  \E news : Loads(c, news)
<1>1. /\ script # <<>> /\ script' = Tail(script) /\ c = LoadAssets[done + 1]
      /\ \/ c.call = "sprite" /\ LoadSprite(c.arg, "alpha")
         \/ c.call = "flare" /\ LoadSprite(c.arg, "add")
         \/ c.call = "split" /\ LoadSheetSplit(c.arg) /\ c.arg \in Range(SplitSheets)
         \/ c.call = "sheet" /\ LoadSheet(c.arg) /\ c.arg \in Range(WholeSheets)
         \/ c.call = "font" /\ FontLoad(c.arg) /\ c.arg \in Range(Fonts)
         \/ c.call = "anim" /\ IsoanimBuild(c.arg) /\ c.arg \in Range(Animations)
    BY CallsMade
<1>2. done + 1 \in 1 .. Len(LoadAssets)
    BY <1>1, ScriptStep
<1>3. /\ NamesOf(LoadAssets[done + 1]) \in Seq(Names)
      /\ LoadAssets[done + 1].call = "sheet" => LoadAssets[done + 1].arg.image # Missing
    BY <1>2, CallNames
<1>4. NamesOf(c) \in Seq(Names) /\ (c.call = "sheet" => c.arg.image # Missing)
    BY <1>1, <1>3, Zenon
<1>5. CASE c.call = "sprite" /\ LoadSprite(c.arg, "alpha")
    BY <1>4, <1>5, SpriteCall
<1>6. CASE c.call = "flare" /\ LoadSprite(c.arg, "add")
    BY <1>4, <1>6, SpriteCall
<1>7. CASE (c.call = "split" /\ LoadSheetSplit(c.arg)) \/ (c.call = "sheet" /\ LoadSheet(c.arg))
    <2>1. NamesOf(c) = c.arg.names /\ c.call \in {"sheet", "split"}
        BY <1>7 DEF NamesOf
    <2>2. c.arg.names \in Seq(Names)
        BY <1>4, <2>1, Zenon
    <2> QED BY <1>4, <1>7, <2>1, <2>2, SheetCall
<1>8. CASE c.call = "font" /\ FontLoad(c.arg) /\ c.arg \in Range(Fonts)
    BY <1>8, FontCall
<1>9. CASE c.call = "anim" /\ IsoanimBuild(c.arg)
    <2>1. UNCHANGED <<spr, sprites>>
        BY <1>9 DEF IsoanimBuild
    <2> QED BY <1>9, <2>1, AnimCall
<1> QED BY <1>1, <1>5, <1>6, <1>7, <1>8, <1>9, Zenon

\* A new texture is bound, which texture_bind does not notice, but it has not
\* bound any before.
LEMMA GlLoaded ==
    ASSUME DrawnRight, script # <<>>, phase = "logic", NEW image,
           gl' = gl \/ gl' = MakeTexture(image), UNCHANGED phase
    PROVE  DrawnRight'
<1>1. Caches(gl) /\ gl.curr_tex = Missing /\ gl.blend = "alpha"
    BY DEF DrawnRight
<1>2. \A k \in DOMAIN gl.drawn : Meant(gl.drawn[k])
    BY DEF DrawnRight
<1>3. CASE gl' = gl
    <2>1. Caches(gl)'
        BY <1>1, <1>3, Zenon DEF Caches, IsGl
    <2>2. \A k \in DOMAIN gl'.drawn : Meant(gl'.drawn[k])
        BY <1>2, <1>3, Zenon
    <2>3. gl'.curr_tex = Missing /\ gl'.blend = "alpha" /\ phase' = "logic"
        BY <1>1, <1>3
    <2> QED BY <2>1, <2>2, <2>3 DEF DrawnRight
<1>4. CASE gl' = MakeTexture(image)
    <2>1. gl = [bound |-> gl.bound, blend |-> gl.blend, curr_tex |-> gl.curr_tex,
                blend_mode |-> gl.blend_mode, drawn |-> gl.drawn] /\ IsList(gl.drawn)
        BY <1>1, Zenon DEF Caches, IsGl
    <2>2. gl' = [bound |-> image, blend |-> gl.blend, curr_tex |-> gl.curr_tex,
                 blend_mode |-> gl.blend_mode, drawn |-> gl.drawn]
        BY <1>4, <2>1 DEF MakeTexture
    <2>3. PICK g : g = gl'
        OBVIOUS
    <2>4. /\ g.bound = image /\ g.blend = gl.blend /\ g.curr_tex = gl.curr_tex
          /\ g.blend_mode = gl.blend_mode /\ g.drawn = gl.drawn
        BY <2>2, <2>3
    <2>5. IsGl(g)
        BY <2>1, <2>2, <2>3, <2>4, Zenon DEF IsGl
    <2>6. Caches(g)
        BY <1>1, <2>4, <2>5 DEF Caches
    <2>7. \A k \in DOMAIN g.drawn : Meant(g.drawn[k])
        BY <1>2, <2>4, Zenon
    <2>8. g.curr_tex = Missing /\ g.blend = "alpha" /\ phase' = "logic"
        BY <1>1, <2>4
    <2> QED BY <2>3, <2>6, <2>7, <2>8, Zenon DEF DrawnRight
<1> QED BY <1>3, <1>4

LEMMA LoadAssetKeeps ==
    ASSUME DrawInv, LoadAsset
    PROVE  DrawInv'
<1> USE DEF DrawInv
<1>1. PICK c : c = Head(script)
    OBVIOUS
<1>2. Load /\ UNCHANGED <<phase, cam, scene, zbatch>>
    BY DEF LoadAsset
<1>3. /\ script # <<>> /\ script' = Tail(script) /\ c = LoadAssets[done + 1]
      /\ \/ c.call = "sprite" /\ LoadSprite(c.arg, "alpha")
         \/ c.call = "flare" /\ LoadSprite(c.arg, "add")
         \/ c.call = "split" /\ LoadSheetSplit(c.arg) /\ c.arg \in Range(SplitSheets)
         \/ c.call = "sheet" /\ LoadSheet(c.arg) /\ c.arg \in Range(WholeSheets)
         \/ c.call = "font" /\ FontLoad(c.arg) /\ c.arg \in Range(Fonts)
         \/ c.call = "anim" /\ IsoanimBuild(c.arg) /\ c.arg \in Range(Animations)
    BY <1>1, <1>2, CallsMade
<1>4. /\ done \in Nat /\ done + 1 \in 1 .. Len(LoadAssets) /\ done' = done + 1
      /\ script' = [i \in 1 .. Len(LoadAssets) - done' |-> LoadAssets[done' + i]]
    BY <1>3, ScriptStep
<1>5. PICK news : Loads(c, news)
    BY <1>1, <1>2, CallLoads
<1>6. SpritesRight' /\ TilesRight' /\ Adds
    BY <1>1, <1>3, <1>4, <1>5, SpritesLoaded
<1>7. phase = "logic" /\ zbatch = <<>>
    BY <1>3 DEF InOrder
<1>8. InOrder'
    <2>1. done' \in 0 .. Len(LoadAssets)
        BY <1>4
    <2>2. phase' = "logic" /\ cam' \in Places /\ zbatch' = <<>>
        BY <1>2, <1>7 DEF InOrder
    <2>3. phase' \in Phases
        BY <2>2 DEF Phases
    <2> QED BY <1>4, <2>1, <2>2, <2>3, Zenon DEF InOrder
<1>9. FontsRight'
    <2>1. CASE c.call = "font"
        <3>1. FontLoad(c.arg) /\ c.arg \in Range(Fonts)
            BY <1>3, <2>1
        <3> QED BY <1>3, <1>4, <1>6, <2>1, <3>1, FontsLoaded
    <2>2. CASE c.call # "font"
        <3>1. UNCHANGED <<fonts, glyphs>>
            BY <1>3, <2>2 DEF LoadSprite, LoadSheetSplit, LoadSheet, IsoanimBuild
        <3>2. \A j \in 1 .. done' : j \in 1 .. done \/ j = done + 1
            BY <1>4
        <3>3. \A j \in 1 .. done' : LoadAssets[j].call = "font" => j \in 1 .. done
            BY <1>3, <2>2, <3>2, Zenon
        <3> QED BY <1>6, <3>1, <3>3, FontsKept
    <2> QED BY <2>1, <2>2
<1>10. AnimsRight'
    <2>1. CASE c.call = "anim"
        <3>1. IsoanimBuild(c.arg) /\ c.arg \in Range(Animations)
            BY <1>3, <2>1
        <3> QED BY <1>3, <1>4, <1>6, <2>1, <3>1, AnimsLoaded
    <2>2. CASE c.call # "anim"
        <3>1. UNCHANGED <<anims, frames>>
            BY <1>3, <2>2 DEF LoadSprite, LoadSheetSplit, LoadSheet, FontLoad
        <3>2. \A j \in 1 .. done' : j \in 1 .. done \/ j = done + 1
            BY <1>4
        <3>3. \A j \in 1 .. done' : LoadAssets[j].call = "anim" => j \in 1 .. done
            BY <1>3, <2>2, <3>2, Zenon
        <3> QED BY <1>6, <3>1, <3>3, AnimsKept
    <2> QED BY <2>1, <2>2
<1>11. BatchRight'
    <2>1. zbatch' = <<>>
        BY <1>2, <1>7
    <2>2. IsList(zbatch') /\ DOMAIN zbatch' = {}
        BY <2>1 DEF IsList
    <2> QED BY <2>2, Zenon DEF BatchRight
<1>12. DrawnRight'
    <2>1. PICK image : gl' = gl \/ gl' = MakeTexture(image)
        BY <1>3 DEF LoadSprite, LoadSheetSplit, LoadSheet, FontLoad, IsoanimBuild
    <2> QED BY <1>2, <1>3, <1>7, <2>1, GlLoaded
<1> QED BY <1>6, <1>8, <1>9, <1>10, <1>11, <1>12

-----------------------------------------------------------------------------
(* The assets in a frame: only the colour and the angle of Sprites change. *)

Recoloured ==
    /\ IsList(spr') /\ Len(spr') = Len(spr) /\ DOMAIN spr' = DOMAIN spr
    /\ \A p \in DOMAIN spr :
          /\ IsSprite(spr'[p]) /\ (Still(p) => Upright(spr'[p]))
          /\ spr'[p].texture = spr[p].texture /\ spr'[p].blend_mode = spr[p].blend_mode
    /\ UNCHANGED <<sprites, fonts, glyphs, anims, frames, script>>

LEMMA NothingRecoloured ==
    ASSUME SpritesRight, UNCHANGED assets
    PROVE  Recoloured
BY DEF SpritesRight, Recoloured, assets

LEMMA OneRecoloured ==
    ASSUME SpritesRight, UNCHANGED <<sprites, fonts, glyphs, anims, frames, script>>,
           NEW p \in DOMAIN spr, ~Still(p), NEW s, IsSprite(s),
           s.texture = spr[p].texture, s.blend_mode = spr[p].blend_mode,
           spr' = [spr EXCEPT ![p] = s]
    PROVE  Recoloured
<1>1. IsList(spr) /\ \A q \in DOMAIN spr : IsSprite(spr[q]) /\ (Still(q) => Upright(spr[q]))
    BY DEF SpritesRight
<1>2. PICK R : R = Range(spr) \union {s}
    OBVIOUS
<1>3. spr \in Seq(R) /\ s \in R
    BY <1>1, <1>2 DEF IsList
<1>4. spr' \in Seq(R) /\ Len(spr') = Len(spr) /\ DOMAIN spr' = DOMAIN spr
    BY <1>3
<1>5. IsList(spr')
    BY <1>4, SequenceIsList
<1>6. spr'[p] = s /\ \A q \in DOMAIN spr : q # p => spr'[q] = spr[q]
    BY <1>3
<1>7. \A q \in DOMAIN spr :
          /\ IsSprite(spr'[q]) /\ (Still(q) => Upright(spr'[q]))
          /\ spr'[q].texture = spr[q].texture /\ spr'[q].blend_mode = spr[q].blend_mode
    BY <1>1, <1>6, Zenon
<1> QED BY <1>4, <1>5, <1>7, Zenon DEF Recoloured

LEMMA AssetsKept ==
    ASSUME InOrder, SpritesRight, TilesRight, FontsRight, AnimsRight, Recoloured
    PROVE  /\ SpritesRight' /\ TilesRight' /\ FontsRight' /\ AnimsRight'
           /\ done' = done
           /\ \A e : InBatch(e) => InBatch(e)'
<1>1. sprites' = sprites /\ script' = script /\ done' = done
    BY DEF Recoloured, done
<1>2. \A p : Still(p)' <=> Still(p)
    BY <1>1, Zenon DEF Still
<1>3. \A name, tex, mode : Given(done, name, tex, mode)' <=> Given(done, name, tex, mode)
    BY <1>1, Zenon DEF Given
<1>4. /\ IsList(spr') /\ Len(spr') = Len(spr) /\ DOMAIN spr' = DOMAIN spr
      /\ \A p \in DOMAIN spr :
            /\ IsSprite(spr'[p]) /\ (Still(p) => Upright(spr'[p]))
            /\ spr'[p].texture = spr[p].texture /\ spr'[p].blend_mode = spr[p].blend_mode
    BY DEF Recoloured
<1>5. SpritesRight'
    <2>1. \A p \in DOMAIN spr' : IsSprite(spr'[p]) /\ (Still(p)' => Upright(spr'[p]))
        BY <1>2, <1>4, Zenon
    <2>2. Filled(sprites', 0) /\ \A d, e \in Held(sprites') : d.elem = e.elem => d = e
        BY <1>1 DEF SpritesRight
    <2>3. \A e \in Held(sprites') :
              /\ e.elem \in DOMAIN spr'
              /\ Given(done', e.key, spr'[e.elem].texture, spr'[e.elem].blend_mode)
        <3> SUFFICES ASSUME NEW e \in Held(sprites)
                     PROVE  /\ e.elem \in DOMAIN spr'
                            /\ Given(done, e.key, spr'[e.elem].texture, spr'[e.elem].blend_mode)
            BY <1>1, Zenon
        <3>1. /\ e.elem \in DOMAIN spr
              /\ Given(done, e.key, spr[e.elem].texture, spr[e.elem].blend_mode)
            BY DEF SpritesRight
        <3> QED BY <1>4, <3>1, Zenon
    <2>4. \A name, tex, mode :
              Given(done', name, tex, mode) => \E e \in Held(sprites') : e.key = name
        BY <1>1 DEF SpritesRight
    <2> QED BY <1>4, <2>1, <2>2, <2>3, <2>4, Zenon DEF SpritesRight
<1>6. TilesRight'
    BY <1>1, <1>4 DEF TilesRight
<1>7. Adds
    BY <1>1, <1>4 DEF Adds
<1>8. FontsRight'
    <2>1. UNCHANGED <<fonts, glyphs>>
        BY DEF Recoloured
    <2> QED BY <1>1, <1>7, <2>1, FontsKept
<1>9. AnimsRight'
    <2>1. UNCHANGED <<anims, frames>>
        BY DEF Recoloured
    <2> QED BY <1>1, <1>7, <2>1, AnimsKept
<1>10. ASSUME NEW e, InBatch(e)
       PROVE  InBatch(e)'
    <2>1. PICK x \in Held(sprites) : x.elem = e.sprite /\ x.key \in Moving
        BY <1>10 DEF InBatch
    <2>2. x.elem \in DOMAIN spr
        BY DEF SpritesRight
    <2>3. /\ spr'[e.sprite].texture = spr[e.sprite].texture
          /\ spr'[e.sprite].blend_mode = spr[e.sprite].blend_mode
        BY <1>4, <2>1, <2>2
    <2> QED BY <1>1, <1>10, <2>3, Zenon DEF InBatch
<1> QED BY <1>1, <1>5, <1>6, <1>8, <1>9, <1>10

-----------------------------------------------------------------------------
(* What is looked up in a frame.                                           *)

\* A Sprite that is looked up by its name looks as it was loaded.
LEMMA NameDrawn ==
    ASSUME InOrder, SpritesRight, NEW name, NEW tex, NEW mode, Given(done, name, tex, mode),
           NEW p, FrameOf(p, name)
    PROVE  /\ p \in DOMAIN spr /\ IsSprite(spr[p])
           /\ spr[p].texture = tex /\ spr[p].blend_mode = mode
           /\ \E x \in Held(sprites) : x.elem = p /\ x.key = name
           /\ Still(p) <=> name \notin Moving
<1>1. PICK x \in Held(sprites) : x.elem = p /\ x.key = name
    BY DEF FrameOf
<1>2. /\ x.elem \in DOMAIN spr
      /\ Given(done, x.key, spr[x.elem].texture, spr[x.elem].blend_mode)
    BY DEF SpritesRight
<1>3. p \in DOMAIN spr /\ Given(done, name, spr[p].texture, spr[p].blend_mode)
    BY <1>1, <1>2
<1>4. done \in 0 .. Len(LoadAssets)
    BY DEF InOrder
<1>5. spr[p].texture = tex /\ spr[p].blend_mode = mode
    BY <1>3, <1>4, GivenOnce
<1>6. Still(p) <=> name \notin Moving
    <2>1. \A e \in Held(sprites) : e.elem = p => e = x
        BY <1>1 DEF SpritesRight
    <2> QED BY <1>1, <2>1 DEF Still
<1> QED BY <1>1, <1>3, <1>5, <1>6 DEF SpritesRight

\* When the script is done, all that load_assets gives is there.
LEMMA AllLoaded ==
    ASSUME InOrder, SpritesRight, TilesRight, script = <<>>
    PROVE  /\ done = Len(LoadAssets) /\ TilesLoaded
           /\ Given(done, Flare, Flare, "add")
           /\ \A sheet \in Range(SplitSheets) : \A name \in Range(sheet.names) :
                 Given(done, name, name, "alpha")
           /\ \A sheet \in Range(WholeSheets) : \A name \in Range(sheet.names) :
                 Given(done, name, sheet.image, "alpha")
<1>1. done = Len(LoadAssets)
    BY LoadAssetsCalls DEF done
<1>2. TilesLoaded
    <2>1. \A i \in DOMAIN TileImages : i <= done
        BY <1>1, LoadAssetsCalls
    <2> QED BY <2>1 DEF TilesLoaded, TilesRight
<1> QED BY <1>1, <1>2, AllGiven, Zenon

\* The Sprite of the spells.
LEMMA FlareDrawn ==
    ASSUME InOrder, SpritesRight, TilesRight, script = <<>>, NEW p, p = BlitGetSprite(Flare)
    PROVE  /\ p \in DOMAIN spr /\ IsSprite(spr[p]) /\ ~Still(p)
           /\ spr[p].texture = Flare /\ spr[p].blend_mode = "add"
           /\ \E x \in Held(sprites) : x.elem = p /\ x.key \in Moving
<1>1. Given(done, Flare, Flare, "add")
    BY AllLoaded
<1>2. Flare \in Moving
    BY DEF Moving
<1>3. /\ p \in DOMAIN spr /\ IsSprite(spr[p])
      /\ spr[p].texture = Flare /\ spr[p].blend_mode = "add"
      /\ \E x \in Held(sprites) : x.elem = p /\ x.key = Flare
      /\ Still(p) <=> Flare \notin Moving
    <2>1. FrameOf(p, Flare)
        BY <1>1, NameFound
    <2> QED BY <1>1, <2>1, NameDrawn
<1> QED BY <1>2, <1>3, Zenon

-----------------------------------------------------------------------------
(* What is drawn looks as it should.                                       *)

\* A spell, whatever its Sprite looks like now.
LEMMA SpellLooks ==
    ASSUME InOrder, SpritesRight, TilesRight, script = <<>>, NEW s, IsSpell(s),
           NEW k \in DOMAIN SpellElements(s)
    PROVE  InBatch(SpellElements(s)[k])
<1>1. PICK p : p = BlitGetSprite(Flare)
    OBVIOUS
<1>2. /\ spr[p].texture = Flare /\ spr[p].blend_mode = "add"
      /\ \E x \in Held(sprites) : x.elem = p /\ x.key \in Moving
    BY <1>1, FlareDrawn
<1>3. CASE s.kind = "nova"
    <2>1. s = [kind |-> "nova", at |-> s.at]
        BY <1>3 DEF IsSpell
    <2>2. DOMAIN s = {"kind", "at"}
        BY <2>1
    <2>3. SpellElements(s)
              = [i \in 1 .. NovaSprites |-> Element(p, Around(s.at, i), FALSE, 0, 1, s)]
        BY <1>1, <1>3 DEF SpellElements
    <2>4. PICK e : e = Element(p, Around(s.at, k), FALSE, 0, 1, s)
        OBVIOUS
    <2>5. SpellElements(s)[k] = e
        BY <2>3, <2>4, Zenon
    <2>6. e.sprite = p /\ e.light = FALSE /\ e.angle = 0 /\ e.fade = 1 /\ e.of = s
        BY <2>4 DEF Element
    <2>7. Look(s) = [texture |-> Flare, blend |-> "add",
                     tint |-> [light |-> White.light, fade |-> 1], angle |-> 0]
        BY <1>3, <2>2 DEF Look, White
    <2>8. Light(e) = White.light
        BY <2>6 DEF Light
    <2>9. "tile" \notin DOMAIN e.of
        BY <2>2, <2>6
    <2>10. InBatch(e)
        BY <1>2, <2>6, <2>7, <2>8, <2>9, Zenon DEF InBatch
    <2> QED BY <2>5, <2>10, Zenon
<1>4. CASE s.kind # "nova"
    <2>1. s = [kind |-> s.kind, at |-> s.at, fade |-> s.fade, angle |-> s.angle]
        BY <1>4 DEF IsSpell
    <2>2. DOMAIN s = {"kind", "at", "fade", "angle"}
        BY <2>1
    <2>3. SpellElements(s) = << Element(p, Around(s.at, 0), FALSE, s.angle, s.fade, s) >>
        BY <1>1, <1>4 DEF SpellElements
    <2>4. PICK e : e = Element(p, Around(s.at, 0), FALSE, s.angle, s.fade, s)
        OBVIOUS
    <2>5. SpellElements(s)[k] = e
        <3>1. SpellElements(s) = <<e>>
            BY <2>3, <2>4, Zenon
        <3>2. \A i \in DOMAIN <<e>> : <<e>>[i] = e
            OBVIOUS
        <3> QED BY <3>1, <3>2, Zenon
    <2>6. e.sprite = p /\ e.light = FALSE /\ e.angle = s.angle /\ e.fade = s.fade /\ e.of = s
        BY <2>4 DEF Element
    <2>7. Look(s) = [texture |-> Flare, blend |-> "add",
                     tint |-> [light |-> White.light, fade |-> s.fade], angle |-> s.angle]
        BY <1>4, <2>2 DEF Look, White
    <2>8. Light(e) = White.light
        BY <2>6 DEF Light
    <2>9. "tile" \notin DOMAIN e.of
        BY <2>2, <2>6
    <2>10. InBatch(e)
        BY <1>2, <2>6, <2>7, <2>8, <2>9, Zenon DEF InBatch
    <2> QED BY <2>5, <2>10, Zenon
<1> QED BY <1>3, <1>4

\* A critter that died is drawn upright, in its own colours.
LEMMA DeadLooks ==
    ASSUME InOrder, SpritesRight, TilesRight, script = <<>>, NEW c, IsCritter(c), ~c.alive,
           NEW p, p = BlitGetSprite(Remains)
    PROVE  p \in DOMAIN spr /\ IsSprite(spr[p]) /\ Meant(Quad(spr[p], c))
<1>1. DOMAIN c = {"alive", "at"}
    BY DEF IsCritter
<1>2. PICK sheet : sheet = CHOOSE s \in {WholeSheets[k] : k \in DOMAIN WholeSheets} :
                              Remains \in {s.names[k] : k \in DOMAIN s.names}
    OBVIOUS
<1>3. sheet \in Range(WholeSheets) /\ Remains \in Range(sheet.names)
    <2>1. PICK s \in {WholeSheets[k] : k \in DOMAIN WholeSheets} :
              Remains \in {s.names[k] : k \in DOMAIN s.names}
        BY RemainsAssumption, Zenon DEF Range
    <2> QED BY <1>2, <2>1, Zenon DEF Range
<1>4. Given(done, Remains, sheet.image, "alpha")
    BY <1>3, AllLoaded
<1>5. /\ p \in DOMAIN spr /\ IsSprite(spr[p])
      /\ spr[p].texture = sheet.image /\ spr[p].blend_mode = "alpha"
      /\ Still(p) <=> Remains \notin Moving
    <2>1. FrameOf(p, Remains)
        BY <1>4, NameFound
    <2> QED BY <1>4, <2>1, NameDrawn
<1>6. Remains \notin Moving
    BY <1>3, WholeIsStill
<1>7. spr[p].tint = White /\ spr[p].angle = 0
    BY <1>5, <1>6 DEF SpritesRight, Upright
<1>8. Look(c) = [texture |-> sheet.image, blend |-> "alpha", tint |-> White, angle |-> 0]
    BY <1>1, <1>2 DEF Look
<1>9. PICK q : q = Quad(spr[p], c)
    OBVIOUS
<1>10. q.of = c /\ q.texture = sheet.image /\ q.blend = "alpha" /\ q.tint = White /\ q.angle = 0
    BY <1>5, <1>7, <1>9 DEF Quad
<1>11. "tile" \notin DOMAIN q.of
    BY <1>1, <1>10
<1>12. Meant(q)
    BY <1>8, <1>10, <1>11, Zenon DEF Meant
<1> QED BY <1>5, <1>9, <1>12, Zenon

\* The animation of a critter that lives is found, and in it the frame of its
\* direction and time.
LEMMA CritterFrame ==
    ASSUME InOrder, SpritesRight, TilesRight, AnimsRight, script = <<>>,
           NEW c, IsCritter(c), c.alive,
           NEW p, p = GetFrame(frames[HashmapFind(anims, <<c.anim, 0>>)][c.dir], c.time)
    PROVE  \E a \in Range(Animations) :
               /\ a.prefix = c.anim
               /\ FrameOf(p, <<c.anim, c.dir * a.len + ((c.time % a.len) + 1)>>)
               /\ c.time % a.len \in 0 .. a.len - 1
<1>1. c.dir \in 0 .. Directions - 1 /\ c.time \in Nat /\ c.anim \in {a.prefix : a \in Range(Animations)}
    BY DEF IsCritter
<1>2. PICK b \in Range(Animations) : b.prefix = c.anim
    BY <1>1
<1>3. PICK key : key = <<c.anim, 0>>
    OBVIOUS
<1>4. key \in DOMAIN Home
    BY <1>2, <1>3, NamesAssumption DEF Names
<1>5. PICK j \in 1 .. Len(LoadAssets) : LoadAssets[j] = [call |-> "anim", arg |-> b]
    BY <1>2, LoadAssetsCalls DEF Calls
<1>6. PICK e \in Held(anims) : e.key = key
    <2>1. j \in 1 .. done
        BY <1>5, AllLoaded
    <2>2. \E e \in Held(anims) : e.key = <<LoadAssets[j].arg.prefix, 0>>
        BY <1>5, <2>1 DEF AnimsRight
    <2> QED BY <1>2, <1>3, <1>5, <2>2
<1>7. PICK x \in Held(anims) : x.key = key /\ x.elem = HashmapFind(anims, key)
    <2>1. Map!Table(anims)
        BY DEF AnimsRight, Filled
    <2> QED BY <1>4, <1>6, <2>1, FindFinds
<1>8. PICK a \in Range(Animations) : x.key = <<a.prefix, 0>> /\ FramesOf(frames[x.elem], a)
    BY <1>7 DEF AnimsRight
<1>9. a.prefix = c.anim
    BY <1>3, <1>7, <1>8
<1>10. PICK f : f = frames[x.elem][c.dir]
    OBVIOUS
<1>11. f = [k \in 1 .. a.len |-> f[k]]
       /\ \A k \in 1 .. a.len : FrameOf(f[k], <<a.prefix, c.dir * a.len + k>>)
    BY <1>1, <1>8, <1>10, Zenon DEF FramesOf, DirectionOf
<1>12. PICK n : n = a.len
    OBVIOUS
<1>13. n \in Nat /\ n > 0
    <2>1. a.len \in Nat \ {0}
        BY NamesAssumption, Zenon
    <2> QED BY <1>12, <2>1
<1>14. Len(f) = n
    <2>1. f = [k \in 1 .. n |-> f[k]]
        BY <1>11, <1>12, Zenon
    <2> QED BY <1>13, <2>1
<1>15. PICK t : t = c.time % n
    OBVIOUS
<1>16. t \in 0 .. n - 1 /\ t + 1 \in 1 .. n
    BY <1>1, <1>13, <1>15
<1>17. p = f[t + 1]
    BY <1>3, <1>7, <1>10, <1>14, <1>15, Zenon DEF GetFrame
<1>18. FrameOf(p, <<c.anim, c.dir * a.len + (t + 1)>>)
    BY <1>9, <1>11, <1>12, <1>16, <1>17, Zenon
<1> QED BY <1>9, <1>12, <1>15, <1>16, <1>18, Zenon

\* A critter that lives, with the light of its place and the frame of its
\* direction and time.
LEMMA LivingLooks ==
    ASSUME InOrder, SpritesRight, TilesRight, AnimsRight, script = <<>>,
           NEW c, IsCritter(c), c.alive
    PROVE  InBatch(CritterElement(c))
<1>1. PICK p : p = GetFrame(frames[HashmapFind(anims, <<c.anim, 0>>)][c.dir], c.time)
    OBVIOUS
<1>2. PICK a \in Range(Animations) :
          /\ a.prefix = c.anim
          /\ FrameOf(p, <<c.anim, c.dir * a.len + ((c.time % a.len) + 1)>>)
          /\ c.time % a.len \in 0 .. a.len - 1
    BY <1>1, CritterFrame
<1>3. PICK b : b = CHOOSE x \in {Animations[k] : k \in DOMAIN Animations} : x.prefix = c.anim
    OBVIOUS
<1>4. b = a
    <2>1. a \in {Animations[k] : k \in DOMAIN Animations}
        BY <1>2, Zenon DEF Range
    <2>2. b \in {Animations[k] : k \in DOMAIN Animations} /\ b.prefix = c.anim
        BY <1>2, <1>3, <2>1, Zenon
    <2>3. PICK i, j \in DOMAIN Animations : a = Animations[i] /\ b = Animations[j]
        BY <2>1, <2>2
    <2>4. i = j
        BY <1>2, <2>2, <2>3, UniqueAssumption, Zenon
    <2> QED BY <2>3, <2>4
<1>5. PICK m, t : m = c.dir * a.len /\ t = c.time % a.len
    OBVIOUS
<1>6. m \in Int /\ t \in Nat /\ t + 1 \in 1 .. a.len /\ m + (t + 1) = m + t + 1
    <2>1. c.dir \in 0 .. Directions - 1
        BY DEF IsCritter
    <2>2. a.len \in Nat \ {0} /\ Directions \in Nat
        BY NamesAssumption, Zenon
    <2>3. t \in 0 .. a.len - 1
        BY <1>2, <1>5
    <2>4. m \in Int
        BY <1>5, <2>1, <2>2
    <2>5. t \in Nat /\ t + 1 \in 1 .. a.len
        BY <2>2, <2>3
    <2> QED BY <2>4, <2>5
<1>7. PICK name : name = <<c.anim, m + (t + 1)>>
    OBVIOUS
<1>8. FrameOf(p, name)
    BY <1>2, <1>5, <1>7, Zenon
<1>9. PICK sheet \in Range(SplitSheets) : name \in Range(sheet.names)
    <2>1. c.dir \in 0 .. Directions - 1
        BY DEF IsCritter
    <2>2. \A d \in 0 .. Directions - 1, k \in 1 .. a.len :
              \E s \in Range(SplitSheets) : <<a.prefix, d * a.len + k>> \in Range(s.names)
        BY NamesAssumption, Zenon
    <2>3. \E s \in Range(SplitSheets) : <<a.prefix, c.dir * a.len + (t + 1)>> \in Range(s.names)
        BY <1>6, <2>1, <2>2, Zenon
    <2> QED BY <1>2, <1>5, <1>7, <2>3, Zenon
<1>10. Given(done, name, name, "alpha")
    BY <1>9, AllLoaded
<1>11. /\ spr[p].texture = name /\ spr[p].blend_mode = "alpha"
       /\ \E x \in Held(sprites) : x.elem = p /\ x.key = name
    BY <1>8, <1>10, NameDrawn
<1>12. name \in Moving
    BY <1>9 DEF Moving
<1>13. PICK e : e = Element(p, Around(c.at, 0), TRUE, 0, 1, c)
    OBVIOUS
<1>14. CritterElement(c) = e
    BY <1>1, <1>13, Zenon DEF CritterElement
<1>15. /\ e.sprite = p /\ e.light = TRUE /\ e.at = Around(c.at, 0)
       /\ e.angle = 0 /\ e.fade = 1 /\ e.of = c
    BY <1>13 DEF Element
<1>16. DOMAIN c = {"alive", "anim", "dir", "time", "at"}
    BY DEF IsCritter
<1>17. "tile" \notin DOMAIN e.of
    BY <1>15, <1>16
<1>18. Light(e) = Around(c.at, 0)
    BY <1>15 DEF Light
<1>19. Look(c) = [texture |-> name, blend |-> "alpha",
                  tint |-> [light |-> Around(c.at, 0), fade |-> 1], angle |-> 0]
    <2>1. "char" \notin DOMAIN c /\ "kind" \notin DOMAIN c
        BY <1>16
    <2>2. <<c.anim, c.dir * b.len + (c.time % b.len) + 1>> = name
        BY <1>4, <1>5, <1>6, <1>7, Zenon
    <2> QED BY <1>3, <2>1, <2>2, Zenon DEF Look
<1>20. InBatch(e)
    BY <1>11, <1>12, <1>15, <1>17, <1>18, <1>19, Zenon DEF InBatch
<1> QED BY <1>14, <1>20, Zenon

\* The font that texts are printed in has a table of its glyphs.
LEMMA FontTable ==
    ASSUME InOrder, SpritesRight, TilesRight, FontsRight, script = <<>>,
           Fonts # <<>>, NEW t, t = glyphs[HashmapFind(fonts, Head(Fonts).name)]
    PROVE  Head(Fonts) \in Range(Fonts) /\ GlyphsOf(t, Head(Fonts))
<1>1. PICK h : h = Head(Fonts)
    OBVIOUS
<1>2. h \in Range(Fonts) /\ h = Fonts[1]
    <2>1. IsList(Fonts)
        BY NamesAssumption
    <2>2. DOMAIN Fonts = 1 .. Len(Fonts) /\ Len(Fonts) \in Nat /\ Len(Fonts) # 0
        BY <2>1, ListIsFunction DEF IsList
    <2>3. Head(Fonts) = Fonts[1] /\ 1 \in DOMAIN Fonts
        BY <2>1, <2>2 DEF IsList
    <2> QED BY <1>1, <2>3 DEF Range
<1>3. h.name \in DOMAIN Home
    BY <1>2, NamesAssumption DEF Names
<1>4. PICK j \in 1 .. Len(LoadAssets) : LoadAssets[j] = [call |-> "font", arg |-> h]
    BY <1>2, LoadAssetsCalls DEF Calls
<1>5. PICK e \in Held(fonts) : e.key = h.name
    <2>1. j \in 1 .. done
        BY <1>4, AllLoaded
    <2> QED BY <1>4, <2>1 DEF FontsRight
<1>6. PICK x \in Held(fonts) : x.key = h.name /\ x.elem = HashmapFind(fonts, h.name)
    <2>1. Map!Table(fonts)
        BY DEF FontsRight, Filled
    <2> QED BY <1>3, <1>5, <2>1, FindFinds
<1>7. t = glyphs[x.elem]
    BY <1>1, <1>6
<1>8. PICK f \in Range(Fonts) : x.key = f.name /\ GlyphsOf(t, f)
    BY <1>6, <1>7, Zenon DEF FontsRight
<1>9. f = h
    <2>1. PICK i, k \in DOMAIN Fonts : f = Fonts[i] /\ h = Fonts[k]
        BY <1>2 DEF Range
    <2>2. i = k
        BY <1>6, <1>8, <2>1, UniqueAssumption, Zenon
    <2> QED BY <2>1, <2>2
<1> QED BY <1>1, <1>2, <1>8, <1>9

\* A character is drawn upright and in its own colours, as nothing else that is
\* drawn has its Sprite.
LEMMA CharLooks ==
    ASSUME InOrder, SpritesRight, TilesRight, FontsRight, script = <<>>, Fonts # <<>>,
           NEW t, t = glyphs[HashmapFind(fonts, Head(Fonts).name)],
           NEW ch \in DOMAIN Home, NEW p, p = HashmapFind(t, ch), p # Missing
    PROVE  /\ p \in DOMAIN spr /\ IsSprite(spr[p]) /\ spr[p].blend_mode = "alpha"
           /\ spr[p].texture = Head(Fonts).image
           /\ Meant(Quad(spr[p], [char |-> ch]))
<1>1. PICK h, o : h = Head(Fonts) /\ o = [char |-> ch]
    OBVIOUS
<1>2. GlyphsOf(t, h)
    BY <1>1, FontTable
<1>3. PICK x \in Held(t) : x.key = ch /\ x.elem = p
    <2>1. Map!Table(t)
        BY <1>2 DEF GlyphsOf, Filled
    <2> QED BY <2>1, FindFinds
<1>4. /\ p \in DOMAIN spr
      /\ spr[p].texture = h.image /\ spr[p].blend_mode = "alpha"
      /\ \A e \in Held(sprites) : e.elem # p
    BY <1>2, <1>3 DEF GlyphsOf
<1>5. IsSprite(spr[p]) /\ spr[p].tint = White /\ spr[p].angle = 0
    BY <1>4 DEF SpritesRight, Still, Upright
<1>6. "char" \in DOMAIN o /\ "tile" \notin DOMAIN o
    BY <1>1
<1>7. Look(o) = [texture |-> h.image, blend |-> "alpha", tint |-> White, angle |-> 0]
    BY <1>1, <1>6, Zenon DEF Look
<1>8. PICK q : q = Quad(spr[p], o)
    OBVIOUS
<1>9. q.of = o /\ q.texture = h.image /\ q.blend = "alpha" /\ q.tint = White /\ q.angle = 0
    BY <1>4, <1>5, <1>8 DEF Quad
<1>10. Meant(q)
    BY <1>6, <1>7, <1>9, Zenon DEF Meant
<1> QED BY <1>1, <1>4, <1>5, <1>8, <1>10, Zenon

\* A character that the font has is found.
LEMMA CharFound ==
    ASSUME InOrder, SpritesRight, TilesRight, FontsRight, script = <<>>, Fonts # <<>>,
           NEW t, t = glyphs[HashmapFind(fonts, Head(Fonts).name)],
           NEW ch \in Range(Head(Fonts).glyphs), ch # NoName
    PROVE  HashmapFind(t, ch) # Missing
<1>1. PICK h : h = Head(Fonts)
    OBVIOUS
<1>2. h \in Range(Fonts) /\ GlyphsOf(t, h)
    BY <1>1, FontTable
<1>3. h.glyphs \in Seq(DOMAIN Home)
    BY <1>2, NamesAssumption, Zenon
<1>4. PICK k \in DOMAIN h.glyphs : ch = h.glyphs[k]
    BY <1>1 DEF Range
<1>5. ch \in DOMAIN Home
    BY <1>3, <1>4
<1>6. PICK x \in Held(t) : x.key = ch
    BY <1>2, <1>4 DEF GlyphsOf
<1>7. Map!Table(t)
    BY <1>2 DEF GlyphsOf, Filled
<1> QED BY <1>5, <1>6, <1>7, FindFinds

-----------------------------------------------------------------------------
(* The loops over the critters, the spells and the texts of the scene.     *)

\* A Sprite that is one of those drawn in the loop.
LEMMA BlitInGlOf ==
    ASSUME NEW Tex, NEW Quads, NEW u \in GlOf(Tex, Quads), NEW s, IsSprite(s), s.texture \in Tex,
           NEW of, Quad(s, of) \in Quads
    PROVE  BlitSprite(u, s, of) \in GlOf(Tex, Quads) /\ BlitSprite(u, s, of).blend = s.blend_mode
<1>1. Caches(u) /\ u.drawn \in Seq(Quads)
    BY InGlOf
<1>2. s.texture # Missing /\ s.blend_mode \in Modes
    BY DEF IsSprite
<1>3. PICK b : b = BlitSprite(u, s, of)
    OBVIOUS
<1>4. /\ Caches(b) /\ b.blend = s.blend_mode
      /\ b.bound = s.texture /\ b.curr_tex = s.texture
      /\ b.drawn = Append(u.drawn, Quad(s, of))
    BY <1>1, <1>2, <1>3, SpriteBlitted
<1>5. PICK q : q = Quad(s, of)
    OBVIOUS
<1>6. b.drawn \in Seq(Quads)
    BY <1>1, <1>4, <1>5, AppendProperties
<1>7. b \in GlOf(Tex, Quads)
    BY <1>4, <1>6, InGlOf
<1> QED BY <1>3, <1>4, <1>7, Zenon

LEMMA DeadDrawn ==
    ASSUME InOrder, SpritesRight, TilesRight, script = <<>>, scene \in Scenes,
           NEW g, Caches(g), g.drawn = <<>>
    PROVE  LET h == DrawnDead(g)
           IN  Caches(h) /\ \A k \in DOMAIN h.drawn : Meant(h.drawn[k])
<1>1. PICK N, p : N = Len(scene.critters) /\ p = BlitGetSprite(Remains)
    OBVIOUS
<1>2. /\ N \in Nat /\ \A k \in 1 .. N : scene.critters[k] \in Range(scene.critters)
      /\ \A c \in Range(scene.critters) : IsCritter(c)
    <2>1. IsList(scene.critters) /\ \A c \in Range(scene.critters) : IsCritter(c)
        BY ScenesAssumption, Zenon
    <2> QED BY <1>1, <2>1, ListIsFunction
<1> DEFINE Tex == {g.bound, g.curr_tex, spr[p].texture}
           Quads == {Quad(spr[p], c) : c \in {c \in Range(scene.critters) : ~c.alive}}
           Step(u, k) == IF scene.critters[k].alive THEN u
                         ELSE BlitSprite(u, spr[BlitGetSprite(Remains)], scene.critters[k])
           P == [k \in 0 .. N |-> GlOf(Tex, Quads)]
           S == UNION {P[k] : k \in 0 .. N}
           F == [x \in S \X (1 .. N) |-> Step(x[1], x[2])]
           body(f) == [k \in 0 .. N |->
                        IF k = 0 THEN g
                        ELSE IF scene.critters[k].alive THEN f[k - 1]
                        ELSE BlitSprite(f[k - 1], spr[BlitGetSprite(Remains)], scene.critters[k])]
           upto == CHOOSE f : f = body(f)
<1>3. DrawnDead(g) = upto[N]
    BY <1>1, Zenon DEF DrawnDead
<1>4. \A k \in 0 .. N : \A u : u \in P[k] <=> u \in GlOf(Tex, Quads)
    OBVIOUS
<1> HIDE DEF P
<1>5. 0 \in 0 .. N /\ \A k \in 1 .. N : k \in 0 .. N /\ k - 1 \in 0 .. N /\ k # 0
    BY <1>2
<1>6. g \in P[0]
    <2>1. g.bound \in Tex /\ g.curr_tex \in Tex /\ g.drawn \in Seq(Quads)
        OBVIOUS
    <2> HIDE DEF Tex, Quads
    <2>2. g \in GlOf(Tex, Quads)
        BY <2>1, InGlOf
    <2> QED BY <1>4, <1>5, <2>2, Zenon
<1>7. ASSUME NEW k \in 1 .. N, NEW u \in P[k - 1] PROVE Step(u, k) \in P[k]
    <2>1. u \in GlOf(Tex, Quads) /\ \A v : v \in GlOf(Tex, Quads) => v \in P[k]
        BY <1>4, <1>5, Zenon
    <2>2. PICK c : c = scene.critters[k]
        OBVIOUS
    <2>3. c \in Range(scene.critters) /\ IsCritter(c)
        BY <1>2, <2>2
    <2>4. CASE ~c.alive
        <3>1. IsSprite(spr[p])
            BY <1>1, <2>3, <2>4, DeadLooks
        <3>2. spr[p].texture \in Tex /\ Quad(spr[p], c) \in Quads
            BY <2>3, <2>4
        <3> HIDE DEF Tex, Quads
        <3>3. BlitSprite(u, spr[p], c) \in GlOf(Tex, Quads)
            BY <2>1, <3>1, <3>2, BlitInGlOf
        <3>4. Step(u, k) = BlitSprite(u, spr[p], c)
            BY <1>1, <2>2, <2>4, Zenon
        <3> HIDE DEF Step
        <3> QED BY <2>1, <3>3, <3>4, Zenon
    <2>5. CASE c.alive
        <3>1. Step(u, k) = u
            BY <2>2, <2>5, Zenon
        <3> HIDE DEF Step, Tex, Quads
        <3> QED BY <2>1, <3>1, Zenon
    <2> QED BY <2>4, <2>5
<1>8. \A h \in GlOf(Tex, Quads) : Caches(h) /\ \A k \in DOMAIN h.drawn : Meant(h.drawn[k])
    <2> SUFFICES ASSUME NEW h \in GlOf(Tex, Quads)
                 PROVE  Caches(h) /\ \A k \in DOMAIN h.drawn : Meant(h.drawn[k])
        OBVIOUS
    <2>1. Caches(h) /\ h.drawn \in Seq(Quads)
        BY InGlOf
    <2>2. \A q \in Quads : Meant(q)
        BY <1>1, <1>2, DeadLooks
    <2> HIDE DEF Quads
    <2>3. \A k \in DOMAIN h.drawn : h.drawn[k] \in Quads
        BY <2>1
    <2> QED BY <2>1, <2>2, <2>3, Zenon
<1>9. \A k \in 1 .. N : \A u \in P[k - 1] : F[<<u, k>>] = Step(u, k)
    <2> TAKE k \in 1 .. N
    <2> TAKE u \in P[k - 1]
    <2>1. u \in S
        BY <1>5
    <2> HIDE DEF S
    <2>2. <<u, k>> \in S \X (1 .. N) /\ <<u, k>>[1] = u /\ <<u, k>>[2] = k
        BY <2>1
    <2> HIDE DEF Step
    <2> QED BY <2>2, Zenon
<1> HIDE DEF F
<1>10. \A k \in 1 .. N : \A u \in P[k - 1] : F[<<u, k>>] \in P[k]
    <2> HIDE DEF Step
    <2> QED BY <1>7, <1>9, Zenon
<1>11. PICK f :
               /\ f = [k \in 0 .. N |-> f[k]]
               /\ f[0] = g
               /\ \A k \in 1 .. N : f[k] = F[<<f[k - 1], k>>]
               /\ \A k \in 0 .. N : f[k] \in P[k]
    <2>1. LoopThrough(P, N, g, F)
        BY <1>2, <1>6, <1>10, Looping
    <2> QED BY <2>1, Zenon DEF LoopThrough
<1>12. f = body(f)
    <2>1. \A k \in 0 .. N : f[k] = body(f)[k]
        <3> TAKE k \in 0 .. N
        <3>1. CASE k = 0
            BY <1>11, <3>1, Zenon
        <3>2. CASE k # 0
            <4>1. k \in 1 .. N /\ k - 1 \in 0 .. N
                BY <1>2, <3>2
            <4>2. f[k] = Step(f[k - 1], k)
                BY <1>9, <1>11, <4>1, Zenon
            <4> QED BY <3>2, <4>2, Zenon
        <3> QED BY <3>1, <3>2
    <2>2. body(f) = [k \in 0 .. N |-> body(f)[k]]
        BY Zenon
    <2> HIDE DEF body
    <2> QED BY <1>11, <2>1, <2>2, Zenon
<1>13. upto = body(upto)
    BY <1>12, Zenon
<1>14. PICK r : r = upto
    OBVIOUS
<1>15. r = body(r)
    <2> HIDE DEF body, upto
    <2> QED BY <1>13, <1>14, Zenon
<1>16. r[0] = g /\ \A k \in 1 .. N : r[k] = Step(r[k - 1], k)
    BY <1>5, <1>15, Zenon
<1> HIDE DEF upto, body, Step
<1>17. \A k \in 0 .. N : r[k] \in P[k]
    <2>1. r[0] \in P[0] /\ \A k \in 1 .. N : r[k - 1] \in P[k - 1] => r[k] = F[<<r[k - 1], k>>]
        BY <1>6, <1>9, <1>16, Zenon
    <2> QED BY <1>2, <1>10, <2>1, LoopStays
<1>18. r[N] \in P[N] /\ N \in 0 .. N
    BY <1>2, <1>17
<1> QED BY <1>3, <1>4, <1>14, <1>18, <1>8, Zenon

LEMMA LivingBatched ==
    ASSUME InOrder, SpritesRight, TilesRight, AnimsRight, script = <<>>, scene \in Scenes,
           NEW batch, IsList(batch), \A k \in DOMAIN batch : InBatch(batch[k])
    PROVE  LET b == WithLiving(batch)
           IN  IsList(b) /\ \A k \in DOMAIN b : InBatch(b[k])
<1>1. PICK N : N = Len(scene.critters)
    OBVIOUS
<1>2. /\ N \in Nat /\ \A k \in 1 .. N : scene.critters[k] \in Range(scene.critters)
      /\ \A c \in Range(scene.critters) : IsCritter(c)
    <2>1. IsList(scene.critters) /\ \A c \in Range(scene.critters) : IsCritter(c)
        BY ScenesAssumption, Zenon
    <2> QED BY <1>1, <2>1, ListIsFunction
<1> DEFINE E == Range(batch) \union {CritterElement(c) : c \in {c \in Range(scene.critters) : c.alive}}
           Step(u, k) == IF scene.critters[k].alive
                         THEN Append(u, CritterElement(scene.critters[k])) ELSE u
           P == [k \in 0 .. N |-> Seq(E)]
           S == UNION {P[k] : k \in 0 .. N}
           F == [x \in S \X (1 .. N) |-> Step(x[1], x[2])]
           body(f) == [k \in 0 .. N |->
                        IF k = 0 THEN batch
                        ELSE IF scene.critters[k].alive
                        THEN Append(f[k - 1], CritterElement(scene.critters[k]))
                        ELSE f[k - 1]]
           upto == CHOOSE f : f = body(f)
<1>3. WithLiving(batch) = upto[N]
    BY <1>1, Zenon DEF WithLiving
<1>4. \A k \in 0 .. N : \A u : u \in P[k] <=> u \in Seq(E)
    OBVIOUS
<1> HIDE DEF P
<1>5. 0 \in 0 .. N /\ \A k \in 1 .. N : k \in 0 .. N /\ k - 1 \in 0 .. N /\ k # 0
    BY <1>2
<1>6. batch \in P[0]
    <2>1. batch \in Seq(Range(batch)) /\ Range(batch) \subseteq E
        BY DEF IsList
    <2> HIDE DEF E
    <2>2. batch \in Seq(E)
        BY <2>1
    <2> QED BY <1>4, <1>5, <2>2, Zenon
<1>7. ASSUME NEW k \in 1 .. N, NEW u \in P[k - 1] PROVE Step(u, k) \in P[k]
    <2>1. u \in Seq(E) /\ \A v : v \in Seq(E) => v \in P[k]
        BY <1>4, <1>5, Zenon
    <2>2. PICK c : c = scene.critters[k]
        OBVIOUS
    <2>3. c \in Range(scene.critters) /\ IsCritter(c)
        BY <1>2, <2>2
    <2>4. CASE c.alive
        <3>1. PICK e : e = CritterElement(c)
            OBVIOUS
        <3>2. e \in E
            BY <2>3, <2>4, <3>1
        <3>3. Step(u, k) = Append(u, e)
            BY <2>2, <2>4, <3>1, Zenon
        <3> HIDE DEF Step, E
        <3>4. Append(u, e) \in Seq(E)
            BY <2>1, <3>2
        <3> QED BY <2>1, <3>3, <3>4, Zenon
    <2>5. CASE ~c.alive
        <3>1. Step(u, k) = u
            BY <2>2, <2>5, Zenon
        <3> HIDE DEF Step, E
        <3> QED BY <2>1, <3>1, Zenon
    <2> QED BY <2>4, <2>5
<1>8. \A b \in Seq(E) : IsList(b) /\ \A k \in DOMAIN b : InBatch(b[k])
    <2>1. \A e \in E : InBatch(e)
        <3>1. \A e \in Range(batch) : InBatch(e)
            BY DEF Range
        <3>2. \A c \in Range(scene.critters) : c.alive => InBatch(CritterElement(c))
            BY <1>2, LivingLooks
        <3> QED BY <3>1, <3>2
    <2> HIDE DEF E
    <2>2. \A b \in Seq(E) : \A k \in DOMAIN b : b[k] \in E
        OBVIOUS
    <2> QED BY <2>1, <2>2, SequenceIsList
<1>9. \A k \in 1 .. N : \A u \in P[k - 1] : F[<<u, k>>] = Step(u, k)
    <2> TAKE k \in 1 .. N
    <2> TAKE u \in P[k - 1]
    <2>1. u \in S
        BY <1>5
    <2> HIDE DEF S
    <2>2. <<u, k>> \in S \X (1 .. N) /\ <<u, k>>[1] = u /\ <<u, k>>[2] = k
        BY <2>1
    <2> HIDE DEF Step
    <2> QED BY <2>2, Zenon
<1> HIDE DEF F
<1>10. \A k \in 1 .. N : \A u \in P[k - 1] : F[<<u, k>>] \in P[k]
    <2> HIDE DEF Step
    <2> QED BY <1>7, <1>9, Zenon
<1>11. PICK f :
               /\ f = [k \in 0 .. N |-> f[k]]
               /\ f[0] = batch
               /\ \A k \in 1 .. N : f[k] = F[<<f[k - 1], k>>]
               /\ \A k \in 0 .. N : f[k] \in P[k]
    <2>1. LoopThrough(P, N, batch, F)
        BY <1>2, <1>6, <1>10, Looping
    <2> QED BY <2>1, Zenon DEF LoopThrough
<1>12. f = body(f)
    <2>1. \A k \in 0 .. N : f[k] = body(f)[k]
        <3> TAKE k \in 0 .. N
        <3>1. CASE k = 0
            BY <1>11, <3>1, Zenon
        <3>2. CASE k # 0
            <4>1. k \in 1 .. N /\ k - 1 \in 0 .. N
                BY <1>2, <3>2
            <4>2. f[k] = Step(f[k - 1], k)
                BY <1>9, <1>11, <4>1, Zenon
            <4> QED BY <3>2, <4>2, Zenon
        <3> QED BY <3>1, <3>2
    <2>2. body(f) = [k \in 0 .. N |-> body(f)[k]]
        BY Zenon
    <2> HIDE DEF body
    <2> QED BY <1>11, <2>1, <2>2, Zenon
<1>13. upto = body(upto)
    BY <1>12, Zenon
<1>14. PICK r : r = upto
    OBVIOUS
<1>15. r = body(r)
    <2> HIDE DEF body, upto
    <2> QED BY <1>13, <1>14, Zenon
<1>16. r[0] = batch /\ \A k \in 1 .. N : r[k] = Step(r[k - 1], k)
    BY <1>5, <1>15, Zenon
<1> HIDE DEF upto, body, Step
<1>17. \A k \in 0 .. N : r[k] \in P[k]
    <2>1. r[0] \in P[0] /\ \A k \in 1 .. N : r[k - 1] \in P[k - 1] => r[k] = F[<<r[k - 1], k>>]
        BY <1>6, <1>9, <1>16, Zenon
    <2> QED BY <1>2, <1>10, <2>1, LoopStays
<1>18. r[N] \in P[N] /\ N \in 0 .. N
    BY <1>2, <1>17
<1> QED BY <1>3, <1>4, <1>14, <1>18, <1>8, Zenon

LEMMA SpellElementsListed ==
    ASSUME NEW s
    PROVE  IsList(SpellElements(s))
<1>1. CASE s.kind = "nova"
    <2>1. PICK N : N = NovaSprites /\ N \in Nat
        BY ScenesAssumption
    <2>2. PICK f : f = [k \in 1 .. N |-> Element(BlitGetSprite(Flare), Around(s.at, k), FALSE, 0, 1, s)]
        OBVIOUS
    <2>3. SpellElements(s) = f
        BY <1>1, <2>1, <2>2, Zenon DEF SpellElements
    <2>4. f \in Seq(Range(f))
        <3>1. f = [k \in 1 .. N |-> f[k]]
            BY <2>2, Zenon
        <3> QED BY <2>1, <3>1 DEF Range
    <2> QED BY <2>3, <2>4, Zenon DEF IsList
<1>2. CASE s.kind # "nova"
    <2>1. PICK e : e = Element(BlitGetSprite(Flare), Around(s.at, 0), FALSE, s.angle, s.fade, s)
        OBVIOUS
    <2>2. SpellElements(s) = <<e>>
        BY <1>2, <2>1, Zenon DEF SpellElements
    <2>3. <<e>> \in Seq({e})
        OBVIOUS
    <2>4. IsList(<<e>>)
        BY <2>3, SequenceIsList
    <2> QED BY <2>2, <2>4, Zenon
<1> QED BY <1>1, <1>2

LEMMA SpellsBatched ==
    ASSUME InOrder, SpritesRight, TilesRight, script = <<>>, scene \in Scenes,
           NEW batch, IsList(batch), \A k \in DOMAIN batch : InBatch(batch[k])
    PROVE  LET b == WithSpells(batch)
           IN  IsList(b) /\ \A k \in DOMAIN b : InBatch(b[k])
<1>1. PICK N : N = Len(scene.spells)
    OBVIOUS
<1>2. /\ N \in Nat /\ \A k \in 1 .. N : scene.spells[k] \in Range(scene.spells)
      /\ \A c \in Range(scene.spells) : IsSpell(c)
    <2>1. IsList(scene.spells) /\ \A c \in Range(scene.spells) : IsSpell(c)
        BY ScenesAssumption, Zenon
    <2> QED BY <1>1, <2>1, ListIsFunction
<1> DEFINE E == Range(batch) \union UNION {Range(SpellElements(s)) : s \in Range(scene.spells)}
           Step(u, k) == u \o SpellElements(scene.spells[k])
           P == [k \in 0 .. N |-> Seq(E)]
           S == UNION {P[k] : k \in 0 .. N}
           F == [x \in S \X (1 .. N) |-> Step(x[1], x[2])]
           body(f) == [k \in 0 .. N |->
                        IF k = 0 THEN batch
                        ELSE f[k - 1] \o SpellElements(scene.spells[k])]
           upto == CHOOSE f : f = body(f)
<1>3. WithSpells(batch) = upto[N]
    BY <1>1, Zenon DEF WithSpells
<1>4. \A k \in 0 .. N : \A u : u \in P[k] <=> u \in Seq(E)
    OBVIOUS
<1> HIDE DEF P
<1>5. 0 \in 0 .. N /\ \A k \in 1 .. N : k \in 0 .. N /\ k - 1 \in 0 .. N /\ k # 0
    BY <1>2
<1>6. batch \in P[0]
    <2>1. batch \in Seq(Range(batch)) /\ Range(batch) \subseteq E
        BY DEF IsList
    <2> HIDE DEF E
    <2>2. batch \in Seq(E)
        BY <2>1
    <2> QED BY <1>4, <1>5, <2>2, Zenon
<1>7. ASSUME NEW k \in 1 .. N, NEW u \in P[k - 1] PROVE Step(u, k) \in P[k]
    <2>1. u \in Seq(E) /\ \A v : v \in Seq(E) => v \in P[k]
        BY <1>4, <1>5, Zenon
    <2>2. PICK c : c = scene.spells[k]
        OBVIOUS
    <2>3. c \in Range(scene.spells) /\ IsSpell(c)
        BY <1>2, <2>2
    <2>4. PICK l : l = SpellElements(c)
        OBVIOUS
    <2>5. l \in Seq(Range(l)) /\ Range(l) \subseteq E
        BY <2>3, <2>4, SpellElementsListed DEF IsList
    <2>6. Step(u, k) = u \o l
        BY <2>2, <2>4, Zenon
    <2> HIDE DEF Step, E
    <2>7. u \o l \in Seq(E)
        BY <2>1, <2>5
    <2> QED BY <2>1, <2>6, <2>7, Zenon
<1>8. \A b \in Seq(E) : IsList(b) /\ \A k \in DOMAIN b : InBatch(b[k])
    <2>1. \A e \in E : InBatch(e)
        <3>1. \A e \in Range(batch) : InBatch(e)
            BY DEF Range
        <3>2. \A s \in Range(scene.spells) : \A k \in DOMAIN SpellElements(s) :
                  InBatch(SpellElements(s)[k])
            BY <1>2, SpellLooks
        <3>3. \A s \in Range(scene.spells) : \A e \in Range(SpellElements(s)) : InBatch(e)
            BY <3>2 DEF Range
        <3> QED BY <3>1, <3>3
    <2> HIDE DEF E
    <2>2. \A b \in Seq(E) : \A k \in DOMAIN b : b[k] \in E
        OBVIOUS
    <2> QED BY <2>1, <2>2, SequenceIsList
<1>9. \A k \in 1 .. N : \A u \in P[k - 1] : F[<<u, k>>] = Step(u, k)
    <2> TAKE k \in 1 .. N
    <2> TAKE u \in P[k - 1]
    <2>1. u \in S
        BY <1>5
    <2> HIDE DEF S
    <2>2. <<u, k>> \in S \X (1 .. N) /\ <<u, k>>[1] = u /\ <<u, k>>[2] = k
        BY <2>1
    <2> HIDE DEF Step
    <2> QED BY <2>2, Zenon
<1> HIDE DEF F
<1>10. \A k \in 1 .. N : \A u \in P[k - 1] : F[<<u, k>>] \in P[k]
    <2> HIDE DEF Step
    <2> QED BY <1>7, <1>9, Zenon
<1>11. PICK f :
               /\ f = [k \in 0 .. N |-> f[k]]
               /\ f[0] = batch
               /\ \A k \in 1 .. N : f[k] = F[<<f[k - 1], k>>]
               /\ \A k \in 0 .. N : f[k] \in P[k]
    <2>1. LoopThrough(P, N, batch, F)
        BY <1>2, <1>6, <1>10, Looping
    <2> QED BY <2>1, Zenon DEF LoopThrough
<1>12. f = body(f)
    <2>1. \A k \in 0 .. N : f[k] = body(f)[k]
        <3> TAKE k \in 0 .. N
        <3>1. CASE k = 0
            BY <1>11, <3>1, Zenon
        <3>2. CASE k # 0
            <4>1. k \in 1 .. N /\ k - 1 \in 0 .. N
                BY <1>2, <3>2
            <4>2. f[k] = Step(f[k - 1], k)
                BY <1>9, <1>11, <4>1, Zenon
            <4> QED BY <3>2, <4>2, Zenon
        <3> QED BY <3>1, <3>2
    <2>2. body(f) = [k \in 0 .. N |-> body(f)[k]]
        BY Zenon
    <2> HIDE DEF body
    <2> QED BY <1>11, <2>1, <2>2, Zenon
<1>13. upto = body(upto)
    BY <1>12, Zenon
<1>14. PICK r : r = upto
    OBVIOUS
<1>15. r = body(r)
    <2> HIDE DEF body, upto
    <2> QED BY <1>13, <1>14, Zenon
<1>16. r[0] = batch /\ \A k \in 1 .. N : r[k] = Step(r[k - 1], k)
    BY <1>5, <1>15, Zenon
<1> HIDE DEF upto, body, Step
<1>17. \A k \in 0 .. N : r[k] \in P[k]
    <2>1. r[0] \in P[0] /\ \A k \in 1 .. N : r[k - 1] \in P[k - 1] => r[k] = F[<<r[k - 1], k>>]
        BY <1>6, <1>9, <1>16, Zenon
    <2> QED BY <1>2, <1>10, <2>1, LoopStays
<1>18. r[N] \in P[N] /\ N \in 0 .. N
    BY <1>2, <1>17
<1> QED BY <1>3, <1>4, <1>14, <1>18, <1>8, Zenon

-----------------------------------------------------------------------------
(* The texts.                                                              *)

CharQuads ==
    {q \in {Quad(spr[p], [char |-> ch]) : p \in DOMAIN spr, ch \in DOMAIN Home} : Meant(q)}

GlyphOf(ch) == HashmapFind(glyphs[HashmapFind(fonts, Head(Fonts).name)], ch)

\* The font has a character among the first k of the text.
Known(text, k) == \E i \in 1 .. k : GlyphOf(text[i]) # Missing

LEMMA TextPrinted ==
    ASSUME InOrder, SpritesRight, TilesRight, FontsRight, script = <<>>, Fonts # <<>>,
           NEW text \in Seq(DOMAIN Home), NEW Tex, Head(Fonts).image \in Tex,
           NEW g \in GlOf(Tex, CharQuads), NEW font, font = Head(Fonts).name
    PROVE  LET h == FontPrint(g, font, text)
           IN  /\ h \in GlOf(Tex, CharQuads)
               /\ g.blend = "alpha" \/ Known(text, Len(text)) => h.blend = "alpha"
<1>1. PICK N : N = Len(text)
    OBVIOUS
<1>2. N \in Nat /\ \A k \in 1 .. N : text[k] \in DOMAIN Home
    BY <1>1
<1> DEFINE Glyph(ch) == HashmapFind(glyphs[HashmapFind(fonts, font)], ch)
           Right(u, k) == g.blend = "alpha" \/ Known(text, k) => u.blend = "alpha"
           Step(u, k) == IF Glyph(text[k]) = Missing THEN u
                         ELSE BlitSprite(u, spr[Glyph(text[k])], [char |-> text[k]])
           P == [k \in 0 .. N |-> {u \in GlOf(Tex, CharQuads) : Right(u, k)}]
           S == UNION {P[k] : k \in 0 .. N}
           F == [x \in S \X (1 .. N) |-> Step(x[1], x[2])]
           body(f) == [k \in 0 .. N |->
                        IF k = 0 THEN g
                        ELSE IF Glyph(text[k]) = Missing THEN f[k - 1]
                        ELSE BlitSprite(f[k - 1], spr[Glyph(text[k])], [char |-> text[k]])]
           upto == CHOOSE f : f = body(f)
<1>3. FontPrint(g, font, text) = upto[N]
    BY <1>1, Zenon DEF FontPrint
<1>4. \A k \in 0 .. N : \A u : u \in P[k] <=> u \in GlOf(Tex, CharQuads) /\ Right(u, k)
    <2> HIDE DEF Right
    <2> QED OBVIOUS
<1> HIDE DEF P
<1>5. 0 \in 0 .. N /\ \A k \in 1 .. N : k \in 0 .. N /\ k - 1 \in 0 .. N /\ k # 0
    BY <1>2
<1>6. g \in P[0]
    <2>1. ~Known(text, 0)
        BY DEF Known
    <2>2. Right(g, 0)
        BY <2>1
    <2> QED BY <1>4, <1>5, <2>2, Zenon
<1>7. ASSUME NEW k \in 1 .. N, NEW u \in P[k - 1] PROVE Step(u, k) \in P[k]
    <2>1. u \in GlOf(Tex, CharQuads) /\ Right(u, k - 1)
        BY <1>4, <1>5, Zenon
    <2>2. \A v : v \in GlOf(Tex, CharQuads) /\ Right(v, k) => v \in P[k]
        BY <1>4, <1>5, Zenon
    <2>3. PICK p : p = Glyph(text[k])
        OBVIOUS
    <2>4. p = GlyphOf(text[k])
        BY <2>3, Zenon DEF GlyphOf
    <2>5. CASE p = Missing
        <3>1. Step(u, k) = u
            BY <2>3, <2>5, Zenon
        <3>2. Known(text, k) => Known(text, k - 1)
            <4>1. \A i \in 1 .. k : i = k \/ i \in 1 .. k - 1
                BY <1>2
            <4> QED BY <2>4, <2>5, <4>1, Zenon DEF Known
        <3>3. Right(u, k)
            BY <2>1, <3>2, Zenon
        <3> HIDE DEF Step, Right
        <3> QED BY <2>1, <2>2, <3>1, <3>3, Zenon
    <2>6. CASE p # Missing
        <3>1. PICK o, ch, t : /\ ch = text[k] /\ o = [char |-> ch]
                              /\ t = glyphs[HashmapFind(fonts, Head(Fonts).name)]
            OBVIOUS
        <3>2. ch \in DOMAIN Home /\ p = HashmapFind(t, ch)
            BY <1>2, <2>4, <3>1 DEF GlyphOf
        <3>3. /\ p \in DOMAIN spr /\ IsSprite(spr[p]) /\ spr[p].blend_mode = "alpha"
              /\ spr[p].texture = Head(Fonts).image
              /\ Meant(Quad(spr[p], [char |-> ch]))
            BY <2>6, <3>1, <3>2, CharLooks
        <3>4. Quad(spr[p], o) \in CharQuads
            <4>1. PICK q : q = Quad(spr[p], [char |-> ch])
                OBVIOUS
            <4>2. q \in {Quad(spr[i], [char |-> x]) : i \in DOMAIN spr, x \in DOMAIN Home}
                BY <3>2, <3>3, <4>1
            <4>3. Meant(q)
                BY <3>3, <4>1, Zenon
            <4>4. q \in CharQuads
                BY <4>2, <4>3 DEF CharQuads
            <4> QED BY <3>1, <4>1, <4>4, Zenon
        <3>5. PICK v : v = BlitSprite(u, spr[p], o)
            OBVIOUS
        <3>6. spr[p].texture \in Tex
            BY <3>3
        <3>7. v \in GlOf(Tex, CharQuads) /\ v.blend = spr[p].blend_mode
            BY <2>1, <3>3, <3>4, <3>5, <3>6, BlitInGlOf
        <3>8. Step(u, k) = v
            BY <2>3, <2>6, <3>1, <3>5, Zenon
        <3>9. Right(v, k)
            BY <3>3, <3>7, Zenon
        <3> HIDE DEF Step, Right
        <3> QED BY <2>2, <3>7, <3>8, <3>9, Zenon
    <2> QED BY <2>5, <2>6
<1>8. \A k \in 1 .. N : \A u \in P[k - 1] : F[<<u, k>>] = Step(u, k)
    <2> TAKE k \in 1 .. N
    <2> TAKE u \in P[k - 1]
    <2>1. u \in S
        BY <1>5
    <2> HIDE DEF S
    <2>2. <<u, k>> \in S \X (1 .. N) /\ <<u, k>>[1] = u /\ <<u, k>>[2] = k
        BY <2>1
    <2> HIDE DEF Step
    <2> QED BY <2>2, Zenon
<1> HIDE DEF F
<1>9. \A k \in 1 .. N : \A u \in P[k - 1] : F[<<u, k>>] \in P[k]
    <2> HIDE DEF Step
    <2> QED BY <1>7, <1>8, Zenon
<1>10. PICK f :
               /\ f = [k \in 0 .. N |-> f[k]]
               /\ f[0] = g
               /\ \A k \in 1 .. N : f[k] = F[<<f[k - 1], k>>]
               /\ \A k \in 0 .. N : f[k] \in P[k]
    <2>1. LoopThrough(P, N, g, F)
        BY <1>2, <1>6, <1>9, Looping
    <2> QED BY <2>1, Zenon DEF LoopThrough
<1>11. f = body(f)
    <2>1. \A k \in 0 .. N : f[k] = body(f)[k]
        <3> TAKE k \in 0 .. N
        <3>1. CASE k = 0
            BY <1>10, <3>1, Zenon
        <3>2. CASE k # 0
            <4>1. k \in 1 .. N /\ k - 1 \in 0 .. N
                BY <1>2, <3>2
            <4>2. f[k] = Step(f[k - 1], k)
                BY <1>8, <1>10, <4>1, Zenon
            <4> QED BY <3>2, <4>2, Zenon
        <3> QED BY <3>1, <3>2
    <2>2. body(f) = [k \in 0 .. N |-> body(f)[k]]
        BY Zenon
    <2> HIDE DEF body
    <2> QED BY <1>10, <2>1, <2>2, Zenon
<1>12. upto = body(upto)
    BY <1>11, Zenon
<1>13. PICK r : r = upto
    OBVIOUS
<1>14. r = body(r)
    <2> HIDE DEF body, upto
    <2> QED BY <1>12, <1>13, Zenon
<1>15. r[0] = g /\ \A k \in 1 .. N : r[k] = Step(r[k - 1], k)
    BY <1>5, <1>14, Zenon
<1> HIDE DEF upto, body, Step
<1>16. \A k \in 0 .. N : r[k] \in P[k]
    <2>1. r[0] \in P[0] /\ \A k \in 1 .. N : r[k - 1] \in P[k - 1] => r[k] = F[<<r[k - 1], k>>]
        BY <1>6, <1>8, <1>15, Zenon
    <2> QED BY <1>2, <1>9, <2>1, LoopStays
<1>17. r[N] \in P[N] /\ N \in 0 .. N
    BY <1>2, <1>16
<1> QED BY <1>3, <1>4, <1>13, <1>17, <1>1, Zenon

\* The font has a character of the text.
Legible(text) == (Range(text) \intersect Range(Head(Fonts).glyphs)) \ {NoName} # {}

\* Whatever mode was set, texts are blended by their transparency.
LEMMA TextsPrinted ==
    ASSUME InOrder, SpritesRight, TilesRight, FontsRight, script = <<>>, scene \in Scenes,
           NEW g, Caches(g), g.drawn = <<>>
    PROVE  LET h == Printed(g)
           IN  /\ Caches(h) /\ h.blend = "alpha"
               /\ \A k \in DOMAIN h.drawn : Meant(h.drawn[k])
<1>1. PICK N : N = Len(scene.texts)
    OBVIOUS
<1>2. /\ N \in Nat /\ \A k \in 1 .. N : scene.texts[k] \in Seq(DOMAIN Home)
      /\ \E k \in 1 .. N : Legible(scene.texts[k])
      /\ Fonts # <<>>
    <2>1. /\ IsList(scene.texts) /\ \A text \in Range(scene.texts) : text \in Seq(DOMAIN Home)
          /\ \E text \in Range(scene.texts) : Legible(text)
          /\ Fonts # <<>>
        BY ScenesAssumption, Zenon DEF Legible
    <2>2. /\ N \in Nat /\ \A k \in 1 .. N : scene.texts[k] \in Range(scene.texts)
          /\ \A x \in Range(scene.texts) : \E k \in 1 .. N : x = scene.texts[k]
        BY <1>1, <2>1, ListIsFunction
    <2> QED BY <2>1, <2>2, Zenon
<1>3. \A text \in Seq(DOMAIN Home) : Legible(text) => Known(text, Len(text))
    <2> SUFFICES ASSUME NEW text \in Seq(DOMAIN Home), Legible(text)
                 PROVE  Known(text, Len(text))
        OBVIOUS
    <2>1. PICK ch \in Range(text) : ch \in Range(Head(Fonts).glyphs) /\ ch # NoName
        BY DEF Legible
    <2>2. PICK i \in 1 .. Len(text) : ch = text[i]
        BY DEF Range
    <2>3. PICK t : t = glyphs[HashmapFind(fonts, Head(Fonts).name)]
        OBVIOUS
    <2>4. HashmapFind(t, ch) # Missing
        BY <1>2, <2>1, <2>3, CharFound
    <2>5. GlyphOf(text[i]) # Missing
        BY <2>2, <2>3, <2>4, Zenon DEF GlyphOf
    <2> QED BY <2>5 DEF Known
<1> DEFINE Tex == {g.bound, g.curr_tex, Head(Fonts).image}
           Seen(k) == \E i \in 1 .. k : Legible(scene.texts[i])
           Right(u, k) == Seen(k) => u.blend = "alpha"
           Step(u, k) == FontPrint(u, Head(Fonts).name, scene.texts[k])
           P == [k \in 0 .. N |-> {u \in GlOf(Tex, CharQuads) : Right(u, k)}]
           S == UNION {P[k] : k \in 0 .. N}
           F == [x \in S \X (1 .. N) |-> Step(x[1], x[2])]
           body(f) == [k \in 0 .. N |->
                        IF k = 0 THEN g ELSE FontPrint(f[k - 1], Head(Fonts).name, scene.texts[k])]
           upto == CHOOSE f : f = body(f)
<1>4. \A k \in 0 .. N : \A u : u \in P[k] <=> u \in GlOf(Tex, CharQuads) /\ Right(u, k)
    <2> HIDE DEF Right, Tex
    <2> QED OBVIOUS
<1> HIDE DEF P
<1>5. 0 \in 0 .. N /\ \A k \in 1 .. N : k \in 0 .. N /\ k - 1 \in 0 .. N /\ k # 0
    BY <1>2
<1>6. g \in P[0]
    <2>1. g.bound \in Tex /\ g.curr_tex \in Tex /\ g.drawn \in Seq(CharQuads)
        OBVIOUS
    <2>2. Right(g, 0)
        OBVIOUS
    <2> HIDE DEF Tex, Right
    <2>3. g \in GlOf(Tex, CharQuads)
        BY <2>1, InGlOf
    <2> QED BY <1>4, <1>5, <2>2, <2>3, Zenon
<1>7. ASSUME NEW k \in 1 .. N, NEW u \in P[k - 1] PROVE Step(u, k) \in P[k]
    <2>1. u \in GlOf(Tex, CharQuads) /\ Right(u, k - 1)
        BY <1>4, <1>5, Zenon
    <2>2. \A v : v \in GlOf(Tex, CharQuads) /\ Right(v, k) => v \in P[k]
        BY <1>4, <1>5, Zenon
    <2>3. PICK text, font : text = scene.texts[k] /\ font = Head(Fonts).name
        OBVIOUS
    <2>4. text \in Seq(DOMAIN Home) /\ Fonts # <<>> /\ Head(Fonts).image \in Tex
        BY <1>2, <2>3
    <2>5. PICK v : v = FontPrint(u, font, text)
        OBVIOUS
    <2>6. /\ v \in GlOf(Tex, CharQuads)
          /\ u.blend = "alpha" \/ Known(text, Len(text)) => v.blend = "alpha"
        <3> HIDE DEF Tex
        <3> QED BY <2>1, <2>3, <2>4, <2>5, TextPrinted
    <2>7. Right(v, k)
        <3>1. Legible(text) => Known(text, Len(text))
            BY <1>3, <2>4
        <3>2. Seen(k) => Seen(k - 1) \/ Legible(text)
            <4>1. \A i \in 1 .. k : i = k \/ i \in 1 .. k - 1
                BY <1>2
            <4> QED BY <2>3, <4>1, Zenon
        <3> QED BY <2>1, <2>6, <3>1, <3>2, Zenon
    <2>8. Step(u, k) = v
        BY <2>3, <2>5, Zenon
    <2> HIDE DEF Step, Right, Tex
    <2> QED BY <2>2, <2>6, <2>7, <2>8, Zenon
<1>8. \A h \in GlOf(Tex, CharQuads) : Caches(h) /\ \A k \in DOMAIN h.drawn : Meant(h.drawn[k])
    <2> SUFFICES ASSUME NEW h \in GlOf(Tex, CharQuads)
                 PROVE  Caches(h) /\ \A k \in DOMAIN h.drawn : Meant(h.drawn[k])
        OBVIOUS
    <2>1. Caches(h) /\ h.drawn \in Seq(CharQuads)
        BY InGlOf
    <2>2. \A q \in CharQuads : Meant(q)
        BY DEF CharQuads
    <2>3. \A k \in DOMAIN h.drawn : h.drawn[k] \in CharQuads
        BY <2>1
    <2> QED BY <2>1, <2>2, <2>3, Zenon
<1>9. \A h : Right(h, N) => h.blend = "alpha"
    BY <1>2, Zenon
<1>10. Printed(g) = upto[N]
    BY <1>1, Zenon DEF Printed
<1>11. \A k \in 1 .. N : \A u \in P[k - 1] : F[<<u, k>>] = Step(u, k)
    <2> TAKE k \in 1 .. N
    <2> TAKE u \in P[k - 1]
    <2>1. u \in S
        BY <1>5
    <2> HIDE DEF S
    <2>2. <<u, k>> \in S \X (1 .. N) /\ <<u, k>>[1] = u /\ <<u, k>>[2] = k
        BY <2>1
    <2> HIDE DEF Step
    <2> QED BY <2>2, Zenon
<1> HIDE DEF F
<1>12. \A k \in 1 .. N : \A u \in P[k - 1] : F[<<u, k>>] \in P[k]
    <2> HIDE DEF Step
    <2> QED BY <1>7, <1>11, Zenon
<1>13. PICK f :
               /\ f = [k \in 0 .. N |-> f[k]]
               /\ f[0] = g
               /\ \A k \in 1 .. N : f[k] = F[<<f[k - 1], k>>]
               /\ \A k \in 0 .. N : f[k] \in P[k]
    <2>1. LoopThrough(P, N, g, F)
        BY <1>2, <1>6, <1>12, Looping
    <2> QED BY <2>1, Zenon DEF LoopThrough
<1>14. f = body(f)
    <2>1. \A k \in 0 .. N : f[k] = body(f)[k]
        <3> TAKE k \in 0 .. N
        <3>1. CASE k = 0
            BY <1>13, <3>1, Zenon
        <3>2. CASE k # 0
            <4>1. k \in 1 .. N /\ k - 1 \in 0 .. N
                BY <1>2, <3>2
            <4>2. f[k] = Step(f[k - 1], k)
                BY <1>11, <1>13, <4>1, Zenon
            <4> QED BY <3>2, <4>2, Zenon
        <3> QED BY <3>1, <3>2
    <2>2. body(f) = [k \in 0 .. N |-> body(f)[k]]
        BY Zenon
    <2> HIDE DEF body
    <2> QED BY <1>13, <2>1, <2>2, Zenon
<1>15. upto = body(upto)
    BY <1>14, Zenon
<1>16. PICK r : r = upto
    OBVIOUS
<1>17. r = body(r)
    <2> HIDE DEF body, upto
    <2> QED BY <1>15, <1>16, Zenon
<1>18. r[0] = g /\ \A k \in 1 .. N : r[k] = Step(r[k - 1], k)
    BY <1>5, <1>17, Zenon
<1> HIDE DEF upto, body, Step
<1>19. \A k \in 0 .. N : r[k] \in P[k]
    <2>1. r[0] \in P[0] /\ \A k \in 1 .. N : r[k - 1] \in P[k - 1] => r[k] = F[<<r[k - 1], k>>]
        BY <1>6, <1>11, <1>18, Zenon
    <2> QED BY <1>2, <1>12, <2>1, LoopStays
<1>20. r[N] \in P[N] /\ N \in 0 .. N
    BY <1>2, <1>19
<1> QED BY <1>10, <1>4, <1>16, <1>20, <1>8, <1>9, Zenon

-----------------------------------------------------------------------------
(* The frame keeps the invariant.                                          *)

LEMMA OrderKept ==
    ASSUME InOrder, script = <<>>, UNCHANGED script,
           phase' \in Phases, scene' \in Scenes, cam' \in Places,
           zbatch' # <<>> => phase' \in {"spells", "spells again", "batch"}
    PROVE  InOrder'
<1>1. done' = done
    BY DEF done
<1>2. /\ done \in 0 .. Len(LoadAssets)
      /\ script = [i \in 1 .. Len(LoadAssets) - done |-> LoadAssets[done + i]]
    BY DEF InOrder
<1> QED BY <1>1, <1>2, Zenon DEF InOrder

LEMMA QuadsRight ==
    ASSUME script' = <<>>, NEW g, gl' = g, Caches(g),
           phase' \in {"logic", "tiles"} => g.blend = "alpha",
           phase' # "critters", \A k \in DOMAIN g.drawn : Meant(g.drawn[k])
    PROVE  DrawnRight'
<1>1. Caches(gl)'
    BY Zenon DEF Caches, IsGl
<1>2. \A k \in DOMAIN gl'.drawn : Meant(gl'.drawn[k])
    BY Zenon
<1>3. phase' \in {"logic", "tiles"} => gl'.blend = "alpha"
    BY Zenon
<1> QED BY <1>1, <1>2, <1>3, Zenon DEF DrawnRight

LEMMA BatchKept ==
    ASSUME NEW b, zbatch' = b, IsList(b), \A k \in DOMAIN b : InBatch(b[k])'
    PROVE  BatchRight'
BY Zenon DEF BatchRight

\* In a frame, all is loaded.
LEMMA InFrame ==
    ASSUME InOrder, phase # "logic"
    PROVE  script = <<>> /\ scene \in Scenes /\ cam \in Places
BY DEF InOrder

LEMMA LogicKeeps ==
    ASSUME DrawInv, Logic
    PROVE  DrawInv'
<1> USE DEF DrawInv
<1>1. /\ phase = "logic" /\ script = <<>> /\ scene' \in Scenes /\ cam' \in Cameras
      /\ phase' = "tiles" /\ UNCHANGED <<assets, gl, zbatch>>
    BY DEF Logic
<1>2. Recoloured
    BY <1>1, NothingRecoloured
<1>3. SpritesRight' /\ TilesRight' /\ FontsRight' /\ AnimsRight'
    BY <1>2, AssetsKept
<1>4. zbatch' = <<>> /\ script' = script
    BY <1>1 DEF InOrder, assets
<1>5. InOrder'
    <2>1. cam' \in Places /\ phase' \in Phases
        BY <1>1, CamerasAssumption DEF Places, Phases
    <2> QED BY <1>1, <1>4, <2>1, OrderKept
<1>6. BatchRight'
    <2>1. IsList(<<>>) /\ DOMAIN <<>> = {}
        BY DEF IsList
    <2> QED BY <1>4, <2>1, Zenon DEF BatchRight
<1>7. DrawnRight'
    <2>1. /\ Caches(gl) /\ gl.blend = "alpha"
          /\ \A k \in DOMAIN gl.drawn : Meant(gl.drawn[k])
        BY <1>1 DEF DrawnRight
    <2>2. script' = <<>> /\ phase' # "critters" /\ gl' = gl
        BY <1>1, <1>4
    <2> QED BY <2>1, <2>2, QuadsRight
<1> QED BY <1>3, <1>5, <1>6, <1>7

LEMMA DrawTilemapKeeps ==
    ASSUME DrawInv, DrawTilemap
    PROVE  DrawInv'
<1> USE DEF DrawInv
<1>1. /\ phase = "tiles" /\ gl' = Swept(Cleared(gl)) /\ phase' = "critters"
      /\ UNCHANGED <<assets, cam, scene, zbatch>>
    BY DEF DrawTilemap
<1>2. script = <<>> /\ scene \in Scenes /\ cam \in Places
    BY <1>1, InFrame
<1>3. Recoloured
    BY <1>1, NothingRecoloured
<1>4. SpritesRight' /\ TilesRight' /\ FontsRight' /\ AnimsRight'
    BY <1>3, AssetsKept
<1>5. zbatch' = <<>> /\ script' = script
    BY <1>1 DEF InOrder, assets
<1>6. InOrder'
    <2>1. cam' \in Places /\ scene' \in Scenes /\ phase' \in Phases
        BY <1>1, <1>2 DEF Phases
    <2> QED BY <1>2, <1>5, <2>1, OrderKept
<1>7. BatchRight'
    <2>1. IsList(<<>>) /\ DOMAIN <<>> = {}
        BY DEF IsList
    <2> QED BY <1>5, <2>1, Zenon DEF BatchRight
<1>8. DrawnRight'
    <2>1. PICK g, h : g = Cleared(gl) /\ h = Swept(g)
        OBVIOUS
    <2>2. Caches(g) /\ g.blend = "alpha" /\ g.drawn = <<>>
        BY <1>1, <2>1, ClearedEmpty DEF DrawnRight
    <2>3. TilesLoaded
        BY <1>2, AllLoaded
    <2>4. Caches(h) /\ h.drawn \in Seq(Tiles) /\ DrawnBy(h.drawn, Turns)
        BY <1>2, <2>1, <2>2, <2>3, SweptTiles
    <2>5. gl' = h /\ cam' = cam /\ script' = <<>> /\ phase' = "critters"
        BY <1>1, <1>2, <1>5, <2>1
    <2>6. Tiles' = Tiles
        BY <2>5, Zenon DEF Tiles
    <2>7. DrawnBy(gl.drawn, Turns)'
        BY <2>4, <2>5, Zenon DEF DrawnBy, VisitedBy
    <2>8. Caches(gl)'
        BY <2>4, <2>5, Zenon DEF Caches, IsGl
    <2>9. gl'.drawn \in Seq(Tiles')
        BY <2>4, <2>5, <2>6, Zenon
    <2>10. phase' \notin {"logic", "tiles"}
        BY <2>5
    <2> QED BY <2>5, <2>7, <2>8, <2>9, <2>10, Zenon DEF DrawnRight
<1> QED BY <1>4, <1>6, <1>7, <1>8

LEMMA DrawCrittersKeeps ==
    ASSUME DrawInv, DrawCritters
    PROVE  DrawInv'
<1> USE DEF DrawInv
<1>1. /\ phase = "critters" /\ gl' = DrawnDead(Cleared(gl)) /\ zbatch' = WithLiving(zbatch)
      /\ phase' = "spells" /\ UNCHANGED <<assets, cam, scene>>
    BY DEF DrawCritters
<1>2. script = <<>> /\ scene \in Scenes /\ cam \in Places
    BY <1>1, InFrame
<1>3. Recoloured
    BY <1>1, NothingRecoloured
<1>4. SpritesRight' /\ TilesRight' /\ FontsRight' /\ AnimsRight' /\ \A e : InBatch(e) => InBatch(e)'
    BY <1>3, AssetsKept
<1>5. script' = script
    BY <1>1 DEF assets
<1>6. InOrder'
    <2>1. /\ cam' \in Places /\ scene' \in Scenes /\ phase' \in Phases
          /\ phase' \in {"spells", "spells again", "batch"}
        BY <1>1, <1>2 DEF Phases
    <2> QED BY <1>2, <1>5, <2>1, OrderKept
<1>7. BatchRight'
    <2>1. PICK b : b = WithLiving(zbatch)
        OBVIOUS
    <2>2. IsList(b) /\ \A k \in DOMAIN b : InBatch(b[k])
        BY <1>2, <2>1, LivingBatched DEF BatchRight
    <2>3. zbatch' = b
        BY <1>1, <2>1
    <2>4. \A k \in DOMAIN b : InBatch(b[k])'
        BY <1>4, <2>2
    <2> QED BY <2>2, <2>3, <2>4, BatchKept
<1>8. DrawnRight'
    <2>1. PICK g, h : g = Cleared(gl) /\ h = DrawnDead(g)
        OBVIOUS
    <2>2. Caches(g) /\ g.drawn = <<>>
        BY <2>1, ClearedEmpty DEF DrawnRight
    <2>3. Caches(h) /\ \A k \in DOMAIN h.drawn : Meant(h.drawn[k])
        BY <1>2, <2>1, <2>2, DeadDrawn
    <2>4. gl' = h /\ script' = <<>> /\ phase' # "critters" /\ phase' \notin {"logic", "tiles"}
        BY <1>1, <1>2, <1>5, <2>1
    <2> QED BY <2>3, <2>4, QuadsRight
<1> QED BY <1>4, <1>6, <1>7, <1>8

LEMMA DrawTextsKeeps ==
    ASSUME DrawInv, DrawTexts
    PROVE  DrawInv'
<1> USE DEF DrawInv
<1>1. /\ phase = "batch" /\ zbatch = <<>> /\ gl' = Printed(Cleared(gl))
      /\ phase' = "logic" /\ UNCHANGED <<assets, cam, scene, zbatch>>
    BY DEF DrawTexts
<1>2. script = <<>> /\ scene \in Scenes /\ cam \in Places
    BY <1>1, InFrame
<1>3. Recoloured
    BY <1>1, NothingRecoloured
<1>4. SpritesRight' /\ TilesRight' /\ FontsRight' /\ AnimsRight'
    BY <1>3, AssetsKept
<1>5. script' = script /\ zbatch' = <<>>
    BY <1>1 DEF assets
<1>6. InOrder'
    <2>1. cam' \in Places /\ scene' \in Scenes /\ phase' \in Phases
        BY <1>1, <1>2 DEF Phases
    <2> QED BY <1>2, <1>5, <2>1, OrderKept
<1>7. BatchRight'
    <2>1. IsList(<<>>) /\ DOMAIN <<>> = {}
        BY DEF IsList
    <2> QED BY <1>5, <2>1, Zenon DEF BatchRight
<1>8. DrawnRight'
    <2>1. PICK g, h : g = Cleared(gl) /\ h = Printed(g)
        OBVIOUS
    <2>2. Caches(g) /\ g.drawn = <<>>
        BY <2>1, ClearedEmpty DEF DrawnRight
    <2>3. Caches(h) /\ h.blend = "alpha" /\ \A k \in DOMAIN h.drawn : Meant(h.drawn[k])
        BY <1>2, <2>1, <2>2, TextsPrinted
    <2>4. gl' = h /\ script' = <<>> /\ phase' # "critters"
        BY <1>1, <1>2, <1>5, <2>1
    <2> QED BY <2>3, <2>4, QuadsRight
<1> QED BY <1>4, <1>6, <1>7, <1>8

\* A nova colours the Sprite that everything in the batch brings its own colour to.
LEMMA NovaRecolours ==
    ASSUME InOrder, SpritesRight, TilesRight, script = <<>>, spr' = WithNovasWhite,
           UNCHANGED <<sprites, fonts, glyphs, anims, frames, script>>
    PROVE  Recoloured
<1>1. PICK p : p = BlitGetSprite(Flare)
    OBVIOUS
<1>2. p \in DOMAIN spr /\ IsSprite(spr[p]) /\ ~Still(p)
    BY <1>1, FlareDrawn
<1>3. CASE \E k \in DOMAIN scene.spells : scene.spells[k].kind = "nova"
    <2>1. PICK s : s = [spr[p] EXCEPT !.tint = White]
        OBVIOUS
    <2>2. spr' = [spr EXCEPT ![p] = s]
        BY <1>1, <1>3, <2>1 DEF WithNovasWhite
    <2>3. spr[p] = [texture |-> spr[p].texture, blend_mode |-> spr[p].blend_mode,
                    tint |-> spr[p].tint, angle |-> spr[p].angle]
        BY <1>2, Zenon DEF IsSprite
    <2>4. s = [texture |-> spr[p].texture, blend_mode |-> spr[p].blend_mode,
               tint |-> White, angle |-> spr[p].angle]
        BY <2>1, <2>3
    <2>5. /\ s.texture = spr[p].texture /\ s.blend_mode = spr[p].blend_mode
          /\ s.tint = White /\ s.angle = spr[p].angle
        BY <2>4
    <2>6. IsSprite(s)
        BY <1>2, <2>4, <2>5, Zenon DEF IsSprite
    <2> QED BY <1>2, <2>2, <2>5, <2>6, OneRecoloured
<1>4. CASE ~ \E k \in DOMAIN scene.spells : scene.spells[k].kind = "nova"
    <2>1. spr' = spr
        BY <1>4, Zenon DEF WithNovasWhite
    <2>2. UNCHANGED assets
        BY <2>1 DEF assets
    <2> QED BY <2>2, NothingRecoloured
<1> QED BY <1>3, <1>4

LEMMA DrawSpellsKeeps ==
    ASSUME DrawInv, DrawSpells
    PROVE  DrawInv'
<1> USE DEF DrawInv
<1>1. /\ phase \in {"spells", "spells again"} /\ zbatch' = WithSpells(zbatch)
      /\ spr' = WithNovasWhite /\ gl' = Cleared(gl)
      /\ phase' \in {"spells again", "batch"}
      /\ UNCHANGED <<sprites, fonts, glyphs, anims, frames, script, cam, scene>>
    BY DEF DrawSpells
<1>2. script = <<>> /\ scene \in Scenes /\ cam \in Places
    BY <1>1, InFrame
<1>3. Recoloured
    <2>1. UNCHANGED <<sprites, fonts, glyphs, anims, frames, script>>
        BY <1>1
    <2> QED BY <1>1, <1>2, <2>1, NovaRecolours
<1>4. SpritesRight' /\ TilesRight' /\ FontsRight' /\ AnimsRight' /\ \A e : InBatch(e) => InBatch(e)'
    BY <1>3, AssetsKept
<1>5. script' = script
    BY <1>1
<1>6. InOrder'
    <2>1. /\ cam' \in Places /\ scene' \in Scenes /\ phase' \in Phases
          /\ phase' \in {"spells", "spells again", "batch"}
        BY <1>1, <1>2 DEF Phases
    <2> QED BY <1>2, <1>5, <2>1, OrderKept
<1>7. BatchRight'
    <2>1. PICK b : b = WithSpells(zbatch)
        OBVIOUS
    <2>2. IsList(b) /\ \A k \in DOMAIN b : InBatch(b[k])
        BY <1>2, <2>1, SpellsBatched DEF BatchRight
    <2>3. zbatch' = b
        BY <1>1, <2>1
    <2>4. \A k \in DOMAIN b : InBatch(b[k])'
        BY <1>4, <2>2
    <2> QED BY <2>2, <2>3, <2>4, BatchKept
<1>8. DrawnRight'
    <2>1. PICK g : g = Cleared(gl)
        OBVIOUS
    <2>2. Caches(g) /\ g.drawn = <<>>
        BY <2>1, ClearedEmpty DEF DrawnRight
    <2>3. \A k \in DOMAIN g.drawn : Meant(g.drawn[k])
        BY <2>2
    <2>4. gl' = g /\ script' = <<>> /\ phase' # "critters" /\ phase' \notin {"logic", "tiles"}
        BY <1>1, <1>2, <1>5, <2>1
    <2> QED BY <2>2, <2>3, <2>4, QuadsRight
<1> QED BY <1>4, <1>6, <1>7, <1>8

\* A Sprite that is prepared for an element of the batch is drawn as the element
\* should look.
LEMMA PreparedLooks ==
    ASSUME SpritesRight, NEW e, InBatch(e), NEW s, s = Prepared(spr[e.sprite], e)
    PROVE  /\ e.sprite \in DOMAIN spr /\ ~Still(e.sprite) /\ IsSprite(s)
           /\ s.texture = spr[e.sprite].texture /\ s.blend_mode = spr[e.sprite].blend_mode
           /\ Meant(Quad(s, e.of))
<1>1. PICK x \in Held(sprites) : x.elem = e.sprite /\ x.key \in Moving
    BY DEF InBatch
<1>2. PICK p : p = e.sprite
    OBVIOUS
<1>3. p \in DOMAIN spr /\ IsSprite(spr[p]) /\ ~Still(p)
    BY <1>1, <1>2 DEF SpritesRight, Still
<1>4. spr[p] = [texture |-> spr[p].texture, blend_mode |-> spr[p].blend_mode,
                tint |-> spr[p].tint, angle |-> spr[p].angle]
    BY <1>3, Zenon DEF IsSprite
<1>5. s = [texture |-> spr[p].texture, blend_mode |-> spr[p].blend_mode,
           tint |-> [light |-> Light(e), fade |-> e.fade], angle |-> e.angle]
    BY <1>2, <1>4 DEF Prepared
<1>6. /\ s.texture = spr[p].texture /\ s.blend_mode = spr[p].blend_mode
      /\ s.tint = [light |-> Light(e), fade |-> e.fade] /\ s.angle = e.angle
    BY <1>5
<1>7. IsSprite(s)
    BY <1>3, <1>5, <1>6, Zenon DEF IsSprite
<1>8. PICK q, of : q = Quad(s, of) /\ of = e.of
    OBVIOUS
<1>9. /\ q.of = of /\ q.texture = s.texture /\ q.blend = s.blend_mode
      /\ q.tint = s.tint /\ q.angle = s.angle
    BY <1>8 DEF Quad
<1>10. /\ "tile" \notin DOMAIN of
       /\ Look(of) = [texture |-> spr[p].texture, blend |-> spr[p].blend_mode,
                      tint |-> [light |-> Light(e), fade |-> e.fade], angle |-> e.angle]
    BY <1>2, <1>8, Zenon DEF InBatch
<1>11. Meant(q)
    BY <1>6, <1>9, <1>10, Zenon DEF Meant
<1> QED BY <1>2, <1>3, <1>6, <1>7, <1>8, <1>11, Zenon

LEMMA RemovedFrom ==
    ASSUME NEW s, IsList(s), NEW k \in DOMAIN s
    PROVE  IsList(RemoveAt(s, k)) /\ Range(RemoveAt(s, k)) \subseteq Range(s)
<1>1. PICK R : R = Range(s)
    OBVIOUS
<1>2. s \in Seq(R) /\ Len(s) \in Nat /\ k \in 1 .. Len(s)
    BY <1>1 DEF IsList
<1>3. SubSeq(s, 1, k - 1) \in Seq(R)
    BY <1>2
<1>4. SubSeq(s, k + 1, Len(s)) \in Seq(R)
    BY <1>2
<1>5. RemoveAt(s, k) \in Seq(R)
    BY <1>3, <1>4 DEF RemoveAt
<1> QED BY <1>1, <1>5, SequenceIsList

LEMMA DrawBatchedKeeps ==
    ASSUME DrawInv, DrawBatched
    PROVE  DrawInv'
<1> USE DEF DrawInv
<1>1. /\ phase = "batch"
      /\ UNCHANGED <<sprites, fonts, glyphs, anims, frames, script, phase, cam, scene>>
    BY DEF DrawBatched
<1>2. PICK k \in DOMAIN zbatch :
          LET e == zbatch[k]
          IN  /\ spr' = [spr EXCEPT ![e.sprite] = Prepared(spr[e.sprite], e)]
              /\ gl' = BlitSprite(Cleared(gl), spr'[e.sprite], e.of)
              /\ zbatch' = RemoveAt(zbatch, k)
    BY DEF DrawBatched
<1>3. script = <<>> /\ scene \in Scenes /\ cam \in Places
    BY <1>1, InFrame
<1>4. PICK e, s : e = zbatch[k] /\ s = Prepared(spr[e.sprite], e)
    OBVIOUS
<1>5. /\ e.sprite \in DOMAIN spr /\ ~Still(e.sprite) /\ IsSprite(s)
      /\ s.texture = spr[e.sprite].texture /\ s.blend_mode = spr[e.sprite].blend_mode
      /\ Meant(Quad(s, e.of))
    <2>1. InBatch(e)
        BY <1>4, Zenon DEF BatchRight
    <2> QED BY <1>4, <2>1, PreparedLooks
<1>6. spr' = [spr EXCEPT ![e.sprite] = s]
    BY <1>2, <1>4, Zenon
<1>7. Recoloured
    <2>1. UNCHANGED <<sprites, fonts, glyphs, anims, frames, script>>
        BY <1>1
    <2> QED BY <1>5, <1>6, <2>1, OneRecoloured
<1>8. SpritesRight' /\ TilesRight' /\ FontsRight' /\ AnimsRight' /\ \A x : InBatch(x) => InBatch(x)'
    BY <1>7, AssetsKept
<1>9. script' = script
    BY <1>1
<1>10. InOrder'
    <2>1. /\ cam' \in Places /\ scene' \in Scenes /\ phase' \in Phases
          /\ phase' \in {"spells", "spells again", "batch"}
        BY <1>1, <1>3 DEF Phases
    <2> QED BY <1>3, <1>9, <2>1, OrderKept
<1>11. BatchRight'
    <2>1. PICK b : b = RemoveAt(zbatch, k)
        OBVIOUS
    <2>2. IsList(b) /\ Range(b) \subseteq Range(zbatch)
        BY <2>1, RemovedFrom DEF BatchRight
    <2>3. zbatch' = b
        BY <1>2, <2>1
    <2>4. \A x \in Range(zbatch) : InBatch(x)
        BY DEF BatchRight, Range
    <2>5. \A i \in DOMAIN b : InBatch(b[i])'
        <3>1. \A i \in DOMAIN b : b[i] \in Range(zbatch)
            BY <2>2 DEF Range
        <3> QED BY <1>8, <2>4, <3>1
    <2> QED BY <2>2, <2>3, <2>5, BatchKept
<1>12. DrawnRight'
    <2>1. PICK g, h, q : g = Cleared(gl) /\ h = BlitSprite(g, s, e.of) /\ q = Quad(s, e.of)
        OBVIOUS
    <2>2. Caches(g) /\ g.drawn = <<>>
        BY <2>1, ClearedEmpty DEF DrawnRight
    <2>3. s.texture # Missing /\ s.blend_mode \in Modes
        BY <1>5 DEF IsSprite
    <2>4. Caches(h) /\ h.drawn = Append(g.drawn, q)
        BY <2>1, <2>2, <2>3, SpriteBlitted
    <2>5. Append(<<>>, q) = <<q>> /\ \A i \in DOMAIN <<q>> : <<q>>[i] = q
        OBVIOUS
    <2>6. \A i \in DOMAIN h.drawn : Meant(h.drawn[i])
        BY <1>5, <2>1, <2>2, <2>4, <2>5, Zenon
    <2>7. spr'[e.sprite] = s
        BY <1>5, <1>6 DEF SpritesRight
    <2>8. gl' = h
        BY <1>2, <1>4, <2>1, <2>7, Zenon
    <2>9. script' = <<>> /\ phase' # "critters" /\ phase' \notin {"logic", "tiles"}
        BY <1>1, <1>3
    <2> QED BY <2>4, <2>6, <2>8, <2>9, QuadsRight
<1> QED BY <1>8, <1>10, <1>11, <1>12

-----------------------------------------------------------------------------
(* The theorems.                                                           *)

LEMMA DrawStarts ==
    ASSUME DrawInit
    PROVE  DrawInv
<1>1. /\ sprites = NewTable(MinSize) /\ fonts = NewTable(MinSize) /\ anims = NewTable(MinSize)
      /\ spr = <<>> /\ glyphs = <<>> /\ frames = <<>> /\ script = LoadAssets
      /\ gl = [bound |-> Missing, blend |-> "alpha",
               curr_tex |-> Missing, blend_mode |-> "alpha", drawn |-> <<>>]
      /\ phase = "logic" /\ cam = <<0, 0>> /\ zbatch = <<>>
    BY DEF DrawInit, AssetsInit
<1>2. /\ IsList(LoadAssets) /\ Len(LoadAssets) \in Nat
      /\ LoadAssets = [i \in 1 .. Len(LoadAssets) |-> LoadAssets[i]]
    BY LoadAssetsCalls, ListIsFunction
<1>3. done = 0
    BY <1>1, <1>2 DEF done
<1>4. InOrder
    <2>1. done \in 0 .. Len(LoadAssets)
        BY <1>2, <1>3
    <2>2. Len(LoadAssets) - 0 = Len(LoadAssets) /\ \A i \in 1 .. Len(LoadAssets) : 0 + i = i
        BY <1>2
    <2>3. script = [i \in 1 .. Len(LoadAssets) - done |-> LoadAssets[done + i]]
        BY <1>1, <1>2, <1>3, <2>2
    <2>4. phase \in Phases /\ cam \in Places
        BY <1>1 DEF Phases, Places
    <2> QED BY <1>1, <2>1, <2>3, <2>4, Zenon DEF InOrder
<1>5. IsList(<<>>) /\ DOMAIN <<>> = {} /\ Len(<<>>) = 0
    BY DEF IsList
<1>6. \A t \in {sprites, fonts, anims} : Filled(t, 0) /\ Held(t) = {}
    BY <1>1, NewTableFilled
<1>7. \A j : j \notin 1 .. done
    BY <1>3
<1>8. SpritesRight
    <2>1. \A name, tex, mode : ~Given(done, name, tex, mode)
        BY <1>7, Zenon DEF Given
    <2> QED BY <1>1, <1>5, <1>6, <2>1 DEF SpritesRight
<1>9. TilesRight
    <2>1. \A i \in DOMAIN TileImages : i \in Nat /\ i # 0
        <3>1. IsList(TileImages)
            BY NamesAssumption
        <3>2. DOMAIN TileImages = 1 .. Len(TileImages)
            BY <3>1, ListIsFunction
        <3> QED BY <3>2
    <2> QED BY <1>1, <1>3, <1>5, <2>1 DEF TilesRight
<1>10. FontsRight
    BY <1>1, <1>5, <1>6, <1>7, Zenon DEF FontsRight
<1>11. AnimsRight
    BY <1>1, <1>5, <1>6, <1>7, Zenon DEF AnimsRight
<1>12. BatchRight
    BY <1>1, <1>5, Zenon DEF BatchRight
<1>13. DrawnRight
    <2>1. PICK g : g = gl
        OBVIOUS
    <2>2. /\ g.bound = Missing /\ g.blend = "alpha" /\ g.curr_tex = Missing
          /\ g.blend_mode = "alpha" /\ g.drawn = <<>>
        BY <1>1, <2>1
    <2>3. IsGl(g)
        BY <1>1, <1>5, <2>1, <2>2, Zenon DEF IsGl
    <2>4. Caches(g)
        BY <2>2, <2>3 DEF Caches, Modes
    <2>5. \A k \in DOMAIN g.drawn : Meant(g.drawn[k])
        BY <1>5, <2>2, Zenon
    <2> QED BY <1>1, <2>1, <2>2, <2>4, <2>5 DEF DrawnRight
<1> QED BY <1>4, <1>8, <1>9, <1>10, <1>11, <1>12, <1>13 DEF DrawInv

LEMMA NothingKeeps ==
    ASSUME DrawInv, UNCHANGED vars
    PROVE  DrawInv'
<1> USE DEF DrawInv
<1>1. UNCHANGED assets /\ gl' = gl /\ phase' = phase /\ cam' = cam /\ scene' = scene /\ zbatch' = zbatch
    BY DEF vars
<1>2. script' = script /\ done' = done
    BY <1>1 DEF assets, done
<1>3. Recoloured
    BY <1>1, NothingRecoloured
<1>4. SpritesRight' /\ TilesRight' /\ FontsRight' /\ AnimsRight' /\ \A e : InBatch(e) => InBatch(e)'
    BY <1>3, AssetsKept
<1>5. InOrder'
    BY <1>1, <1>2, Zenon DEF InOrder
<1>6. BatchRight'
    <2>1. PICK b : b = zbatch
        OBVIOUS
    <2>2. IsList(b) /\ \A k \in DOMAIN b : InBatch(b[k])
        BY <2>1 DEF BatchRight
    <2>3. zbatch' = b
        BY <1>1, <2>1
    <2>4. \A k \in DOMAIN b : InBatch(b[k])'
        BY <1>4, <2>2
    <2> QED BY <2>2, <2>3, <2>4, BatchKept
<1>7. DrawnRight'
    <2>1. Caches(gl)'
        <3>1. Caches(gl)
            BY DEF DrawnRight
        <3> QED BY <1>1, <3>1, Zenon DEF Caches, IsGl
    <2>2. DrawnBy(gl.drawn, Turns)' <=> DrawnBy(gl.drawn, Turns)
        BY <1>1, Zenon DEF DrawnBy, VisitedBy
    <2>3. Tiles' = Tiles
        BY <1>1, Zenon DEF Tiles
    <2> QED BY <1>1, <1>2, <2>1, <2>2, <2>3, Zenon DEF DrawnRight
<1> QED BY <1>4, <1>5, <1>6, <1>7

LEMMA DrawInvHolds == DrawSpec => []DrawInv
<1>1. DrawInit => DrawInv
    BY DrawStarts
<1>2. DrawInv /\ [DrawNext]_vars => DrawInv'
    BY LoadAssetKeeps, LogicKeeps, DrawTilemapKeeps, DrawCrittersKeeps, DrawSpellsKeeps,
       DrawBatchedKeeps, DrawTextsKeeps, NothingKeeps, Zenon DEF DrawNext
<1> QED BY <1>1, <1>2, PTL DEF DrawSpec

\* What is stored in the slots that are not free.
LEMMA SlotsHeld ==
    ASSUME NEW t, NEW n, Filled(t, n), NEW h \in DOMAIN t.at \ EmptySlots(t)
    PROVE  t.at[h] \in Held(t)
BY TableShape DEF Filled, Held, EmptySlots

LEMMA TypeFollows ==
    ASSUME DrawInv
    PROVE  TypeOK
<1> USE DEF DrawInv
<1>1. phase \in Phases /\ (script # <<>> => phase = "logic")
      /\ (zbatch # <<>> => phase \in {"spells", "spells again", "batch"})
    BY DEF InOrder
<1>2. \A t \in {sprites, fonts, anims} :
          t.free + 0 = Cardinality(EmptySlots(t)) /\ 4 * t.free > t.size
    <2>1. 0 \in Nat /\ \A t \in {sprites, fonts, anims} : Filled(t, 0)
        BY DEF SpritesRight, FontsRight, AnimsRight
    <2> QED BY <2>1, FilledHasRoom
<1>3. \A h \in DOMAIN sprites.at \ EmptySlots(sprites) : sprites.at[h].elem \in DOMAIN spr
    BY SlotsHeld DEF SpritesRight
<1>4. ASSUME NEW k \in DOMAIN Fonts, NEW p, p = HashmapFind(fonts, Fonts[k].name), p # Missing
      PROVE  /\ /\ glyphs[p].free + Cardinality({i \in DOMAIN Fonts[k].glyphs : Fonts[k].glyphs[i] = NoName})
                       = Cardinality(EmptySlots(glyphs[p]))
                /\ 4 * glyphs[p].free > glyphs[p].size
             /\ \A h \in DOMAIN glyphs[p].at \ EmptySlots(glyphs[p]) : glyphs[p].at[h].elem \in DOMAIN spr
    <2>1. PICK font : font = Fonts[k] /\ font \in Range(Fonts)
        BY DEF Range
    <2>2. font.name \in DOMAIN Home /\ font.glyphs \in Seq(DOMAIN Home)
        BY <2>1, NamesAssumption DEF Names
    <2>3. PICK x \in Held(fonts) : x.key = font.name /\ x.elem = p
        <3>1. Map!Table(fonts)
            BY DEF FontsRight, Filled
        <3> QED BY <1>4, <2>1, <2>2, <3>1, FindFinds
    <2>4. PICK t : t = glyphs[p]
        OBVIOUS
    <2>5. PICK f \in Range(Fonts) : x.key = f.name /\ GlyphsOf(t, f)
        BY <2>3, <2>4, Zenon DEF FontsRight
    <2>6. f = font
        <3>1. PICK i \in DOMAIN Fonts : f = Fonts[i]
            BY <2>5 DEF Range
        <3>2. i = k
            BY <2>1, <2>3, <2>5, <3>1, UniqueAssumption, Zenon
        <3> QED BY <2>1, <3>1, <3>2
    <2>7. PICK n : n = Cardinality(Nameless(font))
        OBVIOUS
    <2>8. n \in Nat
        <3>1. DOMAIN font.glyphs = 1 .. Len(font.glyphs) /\ Len(font.glyphs) \in Nat
            BY <2>2
        <3>2. IsFiniteSet(1 .. Len(font.glyphs))
            BY <3>1, FS_Interval
        <3>3. Nameless(font) \subseteq 1 .. Len(font.glyphs)
            BY <3>1 DEF Nameless
        <3> QED BY <2>7, <3>2, <3>3, FS_Subset, FS_CardinalityType
    <2>9. Filled(t, n)
        BY <2>5, <2>6, <2>7 DEF GlyphsOf
    <2>10. t.free + n = Cardinality(EmptySlots(t)) /\ 4 * t.free > t.size
        BY <2>8, <2>9, FilledHasRoom
    <2>11. \A h \in DOMAIN t.at \ EmptySlots(t) : t.at[h].elem \in DOMAIN spr
        BY <2>5, <2>9, SlotsHeld DEF GlyphsOf
    <2> QED BY <2>1, <2>4, <2>7, <2>10, <2>11, Zenon DEF Nameless
<1>5. /\ \A p \in DOMAIN spr : spr[p].blend_mode \in {"alpha", "add"}
      /\ {gl.blend, gl.blend_mode} \subseteq {"alpha", "add"}
    BY DEF SpritesRight, IsSprite, DrawnRight, Caches, Modes
<1>6. {sprites.at[h].elem : h \in DOMAIN sprites.at \ EmptySlots(sprites)} \subseteq DOMAIN spr
    BY <1>3
<1>7. ASSUME NEW k \in DOMAIN Fonts
      PROVE  LET p == HashmapFind(fonts, Fonts[k].name)
             IN  p # Missing =>
                    /\ /\ glyphs[p].free + Cardinality({i \in DOMAIN Fonts[k].glyphs : Fonts[k].glyphs[i] = NoName})
                              = Cardinality(EmptySlots(glyphs[p]))
                       /\ 4 * glyphs[p].free > glyphs[p].size
                    /\ {glyphs[p].at[h].elem : h \in DOMAIN glyphs[p].at \ EmptySlots(glyphs[p])}
                              \subseteq DOMAIN spr
    BY <1>4
<1> QED BY <1>1, <1>2, <1>5, <1>6, <1>7, Zenon DEF TypeOK

\* The tables of core/hashmap.c count their free slots and always have some, their
\* pointers lead to Sprites, and the batch of core/iso.c is empty unless a frame
\* is being put together: whatever fonts and sheets load_assets (main.c) loads.
THEOREM TypeCorrect == DrawSpec => []TypeOK
<1>1. DrawInv => TypeOK
    BY TypeFollows
<1> QED BY <1>1, DrawInvHolds, PTL

LEMMA DrawnFollows ==
    ASSUME DrawInv
    PROVE  DrawnAsMeant
<1> USE DEF DrawInv
<1>1. CASE phase = "critters"
    <2>1. gl.drawn \in Seq(Tiles) /\ TilesLoaded
        BY <1>1, InFrame, AllLoaded DEF DrawnRight
    <2>2. ASSUME NEW k \in DOMAIN gl.drawn, NEW q, q = gl.drawn[k]
          PROVE  /\ "tile" \in DOMAIN q.of
                 /\ q.texture = spr[Terrain[q.of.tile]].texture
                 /\ q.texture = TileImages[Terrain[q.of.tile]]
                 /\ q.blend = "alpha"
                 /\ \A j \in DOMAIN q.corners : CornerInPlace(q.of.tile, q.corners[j])
                 /\ QuartersOf(q.of.tile, q.corners)
        <3>1. q \in Tiles
            BY <2>1, <2>2
        <3>2. PICK cell \in Land : q = TileQuad(cam, cell)
            BY <3>1 DEF Tiles
        <3>3. /\ q.of = [tile |-> cell] /\ "tile" \in DOMAIN q.of /\ q.of.tile = cell
              /\ q.texture = spr[Terrain[cell]].texture /\ q.texture = TileImages[Terrain[cell]]
              /\ q.blend = "alpha"
              /\ \A j \in DOMAIN q.corners : CornerInPlace(cell, q.corners[j])
              /\ QuartersOf(cell, q.corners)
            BY <2>1, <3>2, TileAsMeant
        <3> QED BY <3>3, Zenon
    <2>3. \A k \in DOMAIN gl.drawn :
              LET q == gl.drawn[k]
              IN  /\ "tile" \in DOMAIN q.of
                  /\ q.texture = spr[Terrain[q.of.tile]].texture
                  /\ q.texture = TileImages[Terrain[q.of.tile]]
                  /\ q.blend = "alpha"
                  /\ \A j \in DOMAIN q.corners : CornerInPlace(q.of.tile, q.corners[j])
                  /\ QuartersOf(q.of.tile, q.corners)
        BY <2>2
    <2> QED BY <2>3, Zenon DEF DrawnAsMeant
<1>2. CASE phase # "critters"
    <2>1. \A k \in DOMAIN gl.drawn : Meant(gl.drawn[k])
        BY <1>2 DEF DrawnRight
    <2> QED BY <2>1, Zenon DEF DrawnAsMeant, Meant
<1> QED BY <1>1, <1>2

\* Whatever was drawn before it, in this frame or an earlier one, everything is
\* drawn with its own texture, colour, angle and way of blending, and every tile
\* whole and in its place: texture_bind and blit_set_blend_mode remember rightly,
\* and a shared Sprite never keeps what it was drawn with last.
THEOREM DrawnRightly == DrawSpec => []DrawnAsMeant
<1>1. DrawInv => DrawnAsMeant
    BY DrawnFollows
<1> QED BY <1>1, DrawInvHolds, PTL

LEMMA CoverFollows ==
    ASSUME DrawInv
    PROVE  WindowCovered
<1> SUFFICES ASSUME phase = "critters", NEW cell \in Land
             PROVE  LET times == Cardinality({k \in DOMAIN gl.drawn : gl.drawn[k].of.tile = cell})
                    IN  times <= 1 /\ (InWindow(cam, cell) => times = 1)
    BY Zenon DEF WindowCovered
<1>1. PICK d : d = gl.drawn
    OBVIOUS
<1>2. d \in Seq(Tiles) /\ DrawnBy(d, Turns) /\ cam \in Places
    BY <1>1 DEF DrawInv, DrawnRight, InOrder
<1> QED BY <1>1, <1>2, TilesCover, Zenon

\* The two loops of draw_tilemap (main.c) draw every cell of the map that is in
\* the window, wherever the camera stands, and none twice.
THEOREM WindowAlwaysCovered == DrawSpec => []WindowCovered
<1>1. DrawInv => WindowCovered
    BY CoverFollows
<1> QED BY <1>1, DrawInvHolds, PTL
=============================================================================
