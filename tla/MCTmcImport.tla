---------------------------- MODULE MCTmcImport ----------------------------
(***************************************************************************)
(* Two single messages and a group message with a further group for one    *)
(* place, one single message for another, and one that ends an event.      *)
(* Time is in steps of half an hour; a day has two hours.                  *)
(***************************************************************************)
EXTENDS TmcImport

CONSTANTS a, b

Alike == Permutations(Files)

Single(evt, loc) == [kind |-> "S", evt |-> evt, loc |-> loc]
First(evt, loc)  == [kind |-> "GF", evt |-> evt, loc |-> loc, ci |-> 1]
Further          == [kind |-> "GS", ci |-> 1, what |-> "more"]

\* 128 is in cancel_set; location 3 is not known, and 4 has a place without a cell.
MCLists ==
    {<<>>, <<Single(101, 1)>>, <<Single(101, 1), First(102, 1), Further>>,
     <<First(102, 1), Single(101, 2)>>, <<Further, Single(128, 1), Single(101, 3)>>,
     <<Single(101, 1), Single(101, 4)>>}

\* A cell is 10 by 10.  Location 1 is in the first cell, which has twice that
\* size, and 2 in the last; 4 is on the edge, where a place has no cell.
Point(lcd, x, y) == [lcd |-> lcd, x |-> x, y |-> y]
MCPoints == <<Point(5, 10, 30), Point(1, 22, 25), Point(4, 25, 10), Point(2, 35, 30),
              Point(6, 40, 30)>>

Corner(x, y) == [x |-> x, y |-> y]
\* Places are inside the views, in their corners, and a view is a line.
MCViews ==
    {[southWest |-> Corner(x[1], 25), northEast |-> Corner(x[2], 30)] :
        x \in {<<12, 22>>, <<22, 35>>, <<35, 35>>, <<35, 39>>}}

=============================================================================
