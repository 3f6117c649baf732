------------------------------- MODULE TmcGrid ------------------------------
(***************************************************************************)
(* The grid by which tmcimport files the events and tmcwebserver finds     *)
(* those of a view of the map (tmcimport/tmcdata.cpp, tmcwebserver/        *)
(* tmcdata.cpp, tmcwebserver.cpp).  Cells are numbered row by row.         *)
(*                                                                         *)
(* Coordinates are positive numbers in a unit of which a cell has many;    *)
(* 0 is a coordinate that has not been set.  The rounding of float is left *)
(* out, the truncation to int is not.                                      *)
(***************************************************************************)
EXTENDS Integers, Sequences, SequencesExt, FiniteSetsExt

CONSTANTS
    Locations,                  \* location codes
    Points,                     \* POINTS.DAT: the code and the place of each location
    grid_size_x, grid_size_y,
    Margin                      \* 0.1 degrees

ASSUME PointsAssumption ==
    Points \in Seq([lcd : Locations, x : Nat \ {0}, y : Nat \ {0}])
ASSUME GridAssumption == {grid_size_x, grid_size_y} \subseteq Nat \ {0} /\ Margin \in Nat

\* insertLcd(): a value that becomes the least is not taken for the greatest.
\* FLT_MIN, where the greatest begins, is next to 0.
Bounds(values) ==
    FoldLeft(LAMBDA b, v : IF v < b.min \/ b.min = 0 THEN [b EXCEPT !.min = v]
                           ELSE IF v > b.max         THEN [b EXCEPT !.max = v]
                           ELSE b,
             [min |-> 0, max |-> 0], values)

lcd_x == Bounds([n \in DOMAIN Points |-> Points[n].x])
lcd_y == Bounds([n \in DOMAIN Points |-> Points[n].y])

Range1(bounds) == bounds.max - bounds.min

ASSUME RangeAssumption ==
    /\ {lcd_x, lcd_y} \subseteq [min : Nat, max : Nat]
    /\ Range1(lcd_x) > 0 /\ Range1(lcd_y) > 0

\* The first place has neither the greatest longitude nor latitude: that would be taken
\* for the least, and not for the greatest.
ASSUME ExtentAssumption ==
    \A n \in DOMAIN Points : Points[n].x <= lcd_x.max /\ Points[n].y <= lcd_y.max

\* The conversion of n / d to int.
Truncated(n, d) == IF n >= 0 THEN n \div d ELSE -((-n) \div d)

\* getXIndex(), getYIndex(): percent * grid_size - 1.
GetIndex(v, bounds, size) ==
    Truncated((v - bounds.min) * size - Range1(bounds), Range1(bounds))

getXIndex(x) == GetIndex(x, lcd_x, grid_size_x)
getYIndex(y) == GetIndex(y, lcd_y, grid_size_y)
getGridIndex(x, y) == y * grid_size_x + x

Cells  == 0..(grid_size_x * grid_size_y - 1)
NoCell == -1

\* The place of a location is the last one that the file has for it.
PlacesOf(l) == {n \in DOMAIN Points : Points[n].lcd = l}
Place(l)    == Points[Max(PlacesOf(l))]

\* generateGrid()
grid_ids ==
    [l \in Locations |->
        IF PlacesOf(l) = {} THEN NoCell
        ELSE getGridIndex(getXIndex(Place(l).x), getYIndex(Place(l).y))]

-----------------------------------------------------------------------------
(* A view is the rectangle between two corners. *)

View == [northEast : [x : Int, y : Int], southWest : [x : Int, y : Int]]

\* Fault: the corner of the north east stays where it is.
WidenedFault(view) ==
    [view EXCEPT !.southWest = [x |-> @.x - Margin, y |-> @.y - Margin]]

\* handle_request(): "add to 0.1 so events outside the border will be displayed".
Widened(view) ==
    [northEast |-> [x |-> view.northEast.x + Margin, y |-> view.northEast.y + Margin],
     southWest |-> [x |-> view.southWest.x - Margin, y |-> view.southWest.y - Margin]]

\* getGridIndexes(): the cells of the corner in the north east are not among them.
getGridIndexes(view) ==
    {getGridIndex(j, i) :
        j \in {n \in getXIndex(view.southWest.x)..(getXIndex(view.northEast.x) - 1) :
                  0 <= n /\ n < grid_size_x},
        i \in {n \in getYIndex(view.southWest.y)..(getYIndex(view.northEast.y) - 1) :
                  0 <= n /\ n < grid_size_y}}

-----------------------------------------------------------------------------

InView(p, view) ==
    /\ view.southWest.x <= p.x /\ p.x <= view.northEast.x
    /\ view.southWest.y <= p.y /\ p.y <= view.northEast.y

\* How far a place is from the edge in the south or west, in cells.
CellsInside(v, bounds, size) == ((v - bounds.min) * size) \div Range1(bounds)

Inside(p) ==
    /\ CellsInside(p.x, lcd_x, grid_size_x) >= 1
    /\ CellsInside(p.y, lcd_y, grid_size_y) >= 1

=============================================================================
