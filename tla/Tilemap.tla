------------------------------ MODULE Tilemap ------------------------------
(***************************************************************************)
(* Where the cells of the map are on the screen (core/iso.c) and which of  *)
(* them draw_tilemap (main.c) visits.  The map is a diamond on the screen: *)
(* x grows to the lower left, y to the lower right.  A camera and a place  *)
(* are counted in parts of a cell, Unit to a cell, and a tile has so many  *)
(* pixels that a part is a whole number of them, so that no position needs *)
(* to be rounded on the screen.                                            *)
(***************************************************************************)
EXTENDS Integers

CONSTANTS
    Unit,                       \* parts of a cell
    View,                       \* camera->view
    MapWidth, MapHeight,        \* of the map, in cells
    TileWidth, TileHeight,      \* iso_startup(160, 80), in pixels
    WindowWidth, WindowHeight   \* window_open(800, 600), in pixels

ASSUME UnitAssumption == Unit \in Nat \ {0}

ASSUME ViewAssumption == View \in Nat

ASSUME MapAssumption == MapWidth \in Nat /\ MapHeight \in Nat

ASSUME PixelAssumption ==
    /\ TileWidth \in {4 * Unit * n : n \in 1 .. 40}
    /\ TileHeight \in {4 * Unit * n : n \in 1 .. 40}
    /\ {WindowWidth, WindowHeight} \subseteq {2 * n : n \in 1 .. 2000}

\* The window is so small, for the view, that no tile in it is left out, with
\* the camera as far as half a cell from the middle of its own: 600 and 800
\* pixels for a view of 9 and tiles of 160 by 80.
ASSUME WindowAssumption ==
    /\ WindowWidth <= (View - 1) * TileWidth
    /\ WindowHeight <= (View - 1) * TileHeight

Land == (0 .. MapWidth - 1) \X (0 .. MapHeight - 1)

\* round(): halves go away from zero.
Round(n) ==
    IF n >= 0 THEN (2 * n + Unit) \div (2 * Unit)
    ELSE -((Unit - 2 * n) \div (2 * Unit))

World2Screen(cam, at) ==
    << ((at[2] - cam[2]) - (at[1] - cam[1])) * (TileWidth \div (2 * Unit)) + WindowWidth \div 2,
       ((at[1] - cam[1]) + (at[2] - cam[2])) * (TileHeight \div (2 * Unit)) + WindowHeight \div 2 >>

Middle(cell) == << Unit * cell[1], Unit * cell[2] >>

-----------------------------------------------------------------------------
(* The two loops: i counts the lines of the screen, j the tiles of a line, *)
(* of which every second line has one less.                                *)

Visits == {v \in (0 .. 2 * View) \X (0 .. View) : v[2] <= View - (v[1] % 2)}

\* (the lines are not shifted against each other)
CellAtUnshifted(cam, v) ==
    << Round(cam[1]) + v[1] \div 2 - v[2],
       Round(cam[2]) + v[2] + v[1] \div 2 - View >>

CellAt(cam, v) ==
    << Round(cam[1]) + v[1] \div 2 - v[2],
       Round(cam[2]) + v[2] + v[1] \div 2 + (v[1] % 2) - View >>

\* The tile of a cell is at least partly in the window.
InWindow(cam, cell) ==
    LET at   == World2Screen(cam, Middle(cell))
        x2   == 2 * at[1] - WindowWidth
        y2   == 2 * at[2] - WindowHeight
    IN  /\ -(WindowWidth + TileWidth) < x2 /\ x2 < WindowWidth + TileWidth
        /\ -(WindowHeight + TileHeight) < y2 /\ y2 < WindowHeight + TileHeight
=============================================================================
