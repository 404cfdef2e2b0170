------------------------------ MODULE Geometry ------------------------------
(***************************************************************************)
(* Rectangles of the shared World (mio-core/src/geometry.rs).              *)
(*                                                                         *)
(* The code keeps an origin as two f64 measured in grid cells and a size   *)
(* as two u64 cells.  Here an origin is an integer number of half cells,   *)
(* so a position between two grid lines exists (the continuous World), and *)
(* a size is a number of cells; Cell is the number of units of one cell.   *)
(* Cell is 2 and not a constant: halves are what rounding and centring     *)
(* tell apart, and the centre of a rectangle stays an integer.             *)
(***************************************************************************)
EXTENDS Integers

Cell == 2

Point == [x : Int, y : Int]
Size  == [w : Nat \ {0}, h : Nat \ {0}]
Rect  == [x : Int, y : Int, w : Nat \ {0}, h : Nat \ {0}]

Direction == {"Left", "Right", "Up", "Down"}

Horizontal(d) == d \in {"Left", "Right"}

Right(r)  == r.x + Cell * r.w
Bottom(r) == r.y + Cell * r.h

MovedTo(r, p)          == [r EXCEPT !.x = p.x, !.y = p.y]
Translated(r, dx, dy)  == [r EXCEPT !.x = @ + dx, !.y = @ + dy]
Resized(r, s)          == [r EXCEPT !.w = s.w, !.h = s.h]
RectAt(p, s)           == [x |-> p.x, y |-> p.y, w |-> s.w, h |-> s.h]
Origin(r)              == [x |-> r.x, y |-> r.y]
SizeOf(r)              == [w |-> r.w, h |-> r.h]

\* Rectangles are half open: sharing an edge is not an overlap.
SpansMeetX(r, s) == r.x < Right(s) /\ s.x < Right(r)
SpansMeetY(r, s) == r.y < Bottom(s) /\ s.y < Bottom(r)
Overlaps(r, s)   == SpansMeetX(r, s) /\ SpansMeetY(r, s)

\* Twice the centre would be needed for odd sizes; in half cells it is exact.
CenterX(r) == r.x + r.w
CenterY(r) == r.y + r.h

\* f64::floor, ceil and round (half away from zero) to a grid line.
FloorCell(v) == (v \div Cell) * Cell
CeilCell(v)  == - FloorCell(- v)
RoundCell(v) == IF v % Cell = 0 THEN v ELSE IF v > 0 THEN v + 1 ELSE v - 1

OnGrid(r) == r.x % Cell = 0 /\ r.y % Cell = 0

Edge(r, d) ==
  CASE d = "Left"  -> r.x
    [] d = "Right" -> Right(r)
    [] d = "Up"    -> r.y
    [] d = "Down"  -> Bottom(r)

Opposite(d) ==
  CASE d = "Left"  -> "Right"
    [] d = "Right" -> "Left"
    [] d = "Up"    -> "Down"
    [] d = "Down"  -> "Up"

\* s lies against the d edge of r, with a stretch of that edge in common.
Touches(r, s, d) ==
  /\ IF Horizontal(d) THEN SpansMeetY(r, s) ELSE SpansMeetX(r, s)
  /\ Edge(s, Opposite(d)) = Edge(r, d)
=============================================================================
