------------------------------- MODULE Figures -------------------------------
(***************************************************************************)
(* The figures darkbox draws (execute_cmd's letters l, b and i), each as a *)
(* loop that plots one cell after the other: its state before the first    *)
(* plot, the cell it plots, whether that was the last one, and its state   *)
(* for the next plot.                                                      *)
(***************************************************************************)
EXTENDS Integers

Abs(n) == IF n < 0 THEN -n ELSE n
Sign(n) == IF n > 0 THEN 1 ELSE -1

\* C's division by 2 truncates towards zero.
Half(n) == IF n < 0 THEN -((-n) \div 2) ELSE n \div 2

-----------------------------------------------------------------------------
(* A line from A to B (Bresenham).                                         *)

Line(ax, ay, bx, by) ==
  LET dx == Abs(bx - ax)
      dy == Abs(by - ay)
  IN  [kind |-> "line", x |-> ax, y |-> ay, bx |-> bx, by |-> by,
       dx |-> dx, dy |-> dy, sx |-> Sign(bx - ax), sy |-> Sign(by - ay),
       err |-> Half(IF dx > dy THEN dx ELSE -dy)]

LineAtEnd(f) == f.x = f.bx /\ f.y = f.by

\* Mutant of LineNext: the second test sees the error the first one changed.
LineNextUpdated(f) ==
  LET stepX == f.err > -f.dx
      err   == IF stepX THEN f.err - f.dy ELSE f.err
      stepY == err < f.dy
  IN  [f EXCEPT !.x = IF stepX THEN @ + f.sx ELSE @,
                !.y = IF stepY THEN @ + f.sy ELSE @,
                !.err = IF stepY THEN err + f.dx ELSE err]

\* Both tests see the error as it was (e2).
LineNext(f) ==
  LET stepX == f.err > -f.dx
      stepY == f.err < f.dy
  IN  [f EXCEPT !.x = IF stepX THEN @ + f.sx ELSE @,
                !.y = IF stepY THEN @ + f.sy ELSE @,
                !.err = @ - (IF stepX THEN f.dy ELSE 0)
                          + (IF stepY THEN f.dx ELSE 0)]

-----------------------------------------------------------------------------
(* A box of w columns and h rows, column by column.                        *)

Box(x, y, w, h, hollow) ==
  [kind |-> "box", x |-> x, y |-> y, w |-> w, h |-> h, hollow |-> hollow # 0,
   ix |-> x, iy |-> y]

BoxEmpty(f) == f.w <= 0 \/ f.h <= 0

\* Mutant of BoxPlots: the far edge is taken one too far.
BoxPlotsTooFar(f) ==
  f.hollow => \/ f.ix \in {f.x, f.x + f.w}
              \/ f.iy \in {f.y, f.y + f.h}

BoxPlots(f) ==
  f.hollow => \/ f.ix \in {f.x, f.x + f.w - 1}
              \/ f.iy \in {f.y, f.y + f.h - 1}

BoxAtEnd(f) == f.ix = f.x + f.w - 1 /\ f.iy = f.y + f.h - 1

BoxNext(f) ==
  IF f.iy < f.y + f.h - 1
  THEN [f EXCEPT !.iy = @ + 1]
  ELSE [f EXCEPT !.ix = @ + 1, !.iy = f.y]

-----------------------------------------------------------------------------
(* A circle: eight plots, one for each octant, at each step of the arc.    *)

Circle(x, y, r) ==
  [kind |-> "circle", x |-> x, y |-> y, rx |-> r, ry |-> 0, err |-> 0,
   octant |-> 1]

CircleEmpty(f) == f.rx < f.ry

OctantCell(f) ==
  LET d == << <<f.rx, f.ry>>, <<f.ry, f.rx>>, <<-f.ry, f.rx>>, <<-f.rx, f.ry>>,
              <<-f.rx, -f.ry>>, <<-f.ry, -f.rx>>, <<f.ry, -f.rx>>,
              <<f.rx, -f.ry>> >>[f.octant]
  IN  <<f.x + d[1], f.y + d[2]>>

\* Mutant of ArcNext: the error is updated with the radius before its change.
ArcNextLate(f) ==
  IF f.err <= 0
  THEN [f EXCEPT !.octant = 1, !.ry = @ + 1, !.err = @ + 2 * f.ry + 1]
  ELSE [f EXCEPT !.octant = 1, !.rx = @ - 1, !.err = @ - (2 * f.rx + 1)]

ArcNext(f) ==
  IF f.err <= 0
  THEN [f EXCEPT !.octant = 1, !.ry = @ + 1, !.err = @ + 2 * (f.ry + 1) + 1]
  ELSE [f EXCEPT !.octant = 1, !.rx = @ - 1, !.err = @ - (2 * (f.rx - 1) + 1)]

CircleNext(f) ==
  IF f.octant < 8 THEN [f EXCEPT !.octant = @ + 1] ELSE ArcNext(f)

CircleAtEnd(f) == f.octant = 8 /\ CircleEmpty(ArcNext(f))

-----------------------------------------------------------------------------
(* Any figure.                                                             *)

Empty(f) ==
  \/ f.kind = "box" /\ BoxEmpty(f)
  \/ f.kind = "circle" /\ CircleEmpty(f)

Plots(f) == f.kind = "box" => BoxPlots(f)

Cell(f) ==
  CASE f.kind = "line"   -> <<f.x, f.y>>
    [] f.kind = "box"    -> <<f.ix, f.iy>>
    [] f.kind = "circle" -> OctantCell(f)

AtEnd(f) ==
  CASE f.kind = "line"   -> LineAtEnd(f)
    [] f.kind = "box"    -> BoxAtEnd(f)
    [] f.kind = "circle" -> CircleAtEnd(f)

Advance(f) ==
  CASE f.kind = "line"   -> LineNext(f)
    [] f.kind = "box"    -> BoxNext(f)
    [] f.kind = "circle" -> CircleNext(f)

-----------------------------------------------------------------------------
(***************************************************************************)
(* What a complete figure is: predicates on the set of cells plotted.      *)
(***************************************************************************)
Adjacent(p, q) == Abs(p[1] - q[1]) <= 1 /\ Abs(p[2] - q[2]) <= 1

\* Both ends, nothing farther than half a cell from the ideal line, and one
\* cell for each column (row, if it is steep).
IsLine(cells, ax, ay, bx, by) ==
  LET dx   == bx - ax
      dy   == by - ay
      long == IF Abs(dx) > Abs(dy) THEN 1 ELSE 2
      n    == IF long = 1 THEN Abs(dx) ELSE Abs(dy)
      from == IF long = 1 THEN ax ELSE ay
      step == IF long = 1 THEN Sign(dx) ELSE Sign(dy)
  IN  /\ {<<ax, ay>>, <<bx, by>>} \subseteq cells
      /\ \A p \in cells :
           /\ Abs((p[1] - ax) * dy - (p[2] - ay) * dx) * 2 <= n
           /\ (p[long] - from) * step \in 0..n
           /\ \A q \in cells : q[long] = p[long] => q = p
      /\ \A i \in 0..n : \E p \in cells : p[long] = from + i * step

IsBox(cells, x, y, w, h, hollow) ==
  LET inside == ((x + 1)..(x + w - 2)) \X ((y + 1)..(y + h - 2))
      all    == (x..(x + w - 1)) \X (y..(y + h - 1))
  IN  cells = IF hollow # 0 THEN all \ inside ELSE all

\* Round: the same seen from all eight sides, no cell half a cell farther from
\* the centre than the radius, or one and a half nearer; and closed: no row of
\* the circle is left out, and the arc of an octant has no gap.
IsCircle(cells, x, y, r) ==
  LET around == {<<p[1] - x, p[2] - y>> : p \in cells}
  IN  /\ \A p \in around :
           /\ {<<p[2], p[1]>>, <<-p[1], p[2]>>, <<p[1], -p[2]>>} \subseteq around
           /\ 4 * (p[1] * p[1] + p[2] * p[2]) < (2 * r + 1) * (2 * r + 1)
           /\ r > 1 => 4 * (p[1] * p[1] + p[2] * p[2]) > (2 * r - 3) * (2 * r - 3)
      /\ {<<p[1], 0>> : p \in {p \in around : p[2] = 0}} =
           IF r < 0 THEN {} ELSE {<<r, 0>>, <<-r, 0>>}
      /\ \A i \in 0..r : \E p \in around : p[2] = i
      /\ \A p \in around : p[1] > p[2] /\ p[2] >= 0 =>
           \E q \in around : q[2] = p[2] + 1 /\ Adjacent(p, q)
=============================================================================
