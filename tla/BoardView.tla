----------------------------- MODULE BoardView -----------------------------
(***************************************************************************)
(* The geometry of a guided view in tools/calibrate_camera.py: which       *)
(* targets fit_targets() keeps and at which fill, the box and the          *)
(* threshold region TargetQueue derives from a target, how threshold_box() *)
(* tiles that region and picks a tile's cutoff, and when a board held in   *)
(* front of the camera counts as a view.                                   *)
(*                                                                         *)
(* Boards are fronto-parallel: cols x rows inner corners, a and b squares  *)
(* apart, with a ring of one square outside them. Positions are in pixels; *)
(* the largest square an axis allows is a fraction <<n, d>>.               *)
(***************************************************************************)
EXTENDS Integers, FiniteSets

CONSTANTS
    Frames,        \* frame sizes
    Patterns,      \* squares between the inner corners
    FillFloor,     \* FILL_FLOOR
    Histograms,    \* tiles: two grey levels and how many pixels have each
    Adjustment     \* --threshold-bias

ASSUME ViewAssumption ==
    /\ Frames \subseteq [w : Nat \ {0}, h : Nat \ {0}]
    /\ Patterns \subseteq [a : Nat \ {0}, b : Nat \ {0}]
    /\ FillFloor \in Nat \ {0} /\ Adjustment \in Int
    /\ Histograms \subseteq [black : 0..255, white : 0..255,
                             blacks : Nat, whites : Nat]
    /\ \A h \in Histograms : h.black < h.white /\ h.blacks + h.whites > 0

VARIABLES
    phase, frame, fisheye, pattern, target, fill_pct,
    board,                       \* the board in view
    tile, prediction, passes     \* _tile_threshold()

vars == <<phase, frame, fisheye, pattern, target, fill_pct, board, tile, prediction,
          passes>>

Pad == 8             \* pixels around the threshold region
Headroom == 85       \* FILL_HEADROOM, percent
None == [none |-> TRUE]

Lesser(a, b) == IF a <= b THEN a ELSE b
Greater(a, b) == IF a >= b THEN a ELSE b
Within(v, low, high) == Lesser(Greater(v, low), high)

-----------------------------------------------------------------------------
(***************************************************************************)
(* Targets.                                                                *)
(***************************************************************************)

\* A rectangle in percent of the frame, and the fill it asks for. How many
\* samples an entry wants is the subject of TargetQueue.
Entry(x1, y1, x2, y2, fill) ==
    [x1 |-> x1, y1 |-> y1, x2 |-> x2, y2 |-> y2, fill |-> fill]

TARGETS_STANDARD == {
    Entry(0, 0, 60, 60, 45), Entry(40, 0, 100, 60, 45),
    Entry(40, 40, 100, 100, 45), Entry(0, 40, 60, 100, 45),
    Entry(15, 10, 85, 90, 45), Entry(25, 10, 75, 45, 30),
    Entry(25, 55, 75, 90, 30), Entry(0, 0, 50, 100, 45),
    Entry(25, 0, 75, 100, 45), Entry(50, 0, 100, 100, 45)}

TARGETS_FISHEYE == {
    Entry(0, 0, 70, 60, 45), Entry(30, 0, 100, 60, 45),
    Entry(30, 40, 100, 100, 45), Entry(0, 40, 70, 100, 45),
    Entry(15, 10, 85, 90, 50)}

TARGETS_FISHEYE_WIDE == {
    Entry(0, 0, 50, 60, 40), Entry(50, 0, 100, 60, 40),
    Entry(50, 40, 100, 100, 40), Entry(0, 40, 50, 100, 40),
    Entry(15, 10, 85, 90, 45)}

get_targets(f, fish) ==
    IF ~fish THEN TARGETS_STANDARD
    ELSE IF 100 * f.w < 145 * f.h THEN TARGETS_FISHEYE ELSE TARGETS_FISHEYE_WIDE

\* A target's rectangle in pixels.
Rect(t, f) == [x1 |-> (t.x1 * f.w) \div 100, y1 |-> (t.y1 * f.h) \div 100,
               x2 |-> (t.x2 * f.w) \div 100, y2 |-> (t.y2 * f.h) \div 100]

BoxArea(r) == (r.x2 - r.x1) * (r.y2 - r.y1)

Smallest(ratios) ==
    CHOOSE r \in ratios : \A q \in ratios : r[1] * q[2] <= q[1] * r[2]

\* The largest square for which m squares fit between b1 and b2 while the ring
\* around them stays in the frame. The code gives it as a span, m times that.
axis_limit(b1, b2, size, m) ==
    Smallest({<<b2 - b1, m>>, <<size - b1, m + 1>>, <<b2, m + 1>>,
              <<size, m + 2>>})

\* The board scales rigidly, so the binding axis wins.
LargestSquare(r, f, p) ==
    Smallest({axis_limit(r.x1, r.x2, f.w, p.a), axis_limit(r.y1, r.y2, f.h, p.b)})

\* The percentage of a box that the board covers at the largest square, less
\* the headroom, rounded down as int() does; none of an empty box.
Reachable(r, f, p) ==
    LET u == LargestSquare(r, f, p)
    IN  IF BoxArea(r) = 0 THEN 0
        ELSE (Headroom * p.a * p.b * u[1] * u[1]) \div (u[2] * u[2] * BoxArea(r))

\* MUTANT of Fitted: the reachable fill is only tested, never applied.
FittedAsGiven(fill, reachable) == fill

\* Only the fill bar moves, and only down.
Fitted(fill, reachable) == IF fill > reachable THEN reachable ELSE fill

\* MUTANT of Dropped: one that cannot meet the table's own fill is given up.
DroppedUnlessMet(t, reachable) == reachable < t.fill

Dropped(t, reachable) == reachable < FillFloor

-----------------------------------------------------------------------------
(***************************************************************************)
(* The threshold region and its tiles.                                     *)
(***************************************************************************)

\* MUTANT of PadOf: nothing but the fixed margin.
PadFixed(span, m) == Pad

\* One square at full fill, and a margin.
PadOf(span, m) == span \div m + Pad

ThreshBox(r, f, p) ==
    LET pad_x == PadOf(r.x2 - r.x1, p.a)
        pad_y == PadOf(r.y2 - r.y1, p.b)
    IN  [x1 |-> Greater(r.x1 - pad_x, 0), y1 |-> Greater(r.y1 - pad_y, 0),
         x2 |-> Lesser(r.x2 + pad_x, f.w), y2 |-> Lesser(r.y2 + pad_y, f.h)]

\* round(n / d), halves to the even neighbour.
Rounded(n, d) ==
    LET q == n \div d
        r == 2 * (n % d)
    IN  IF r < d \/ (r = d /\ q % 2 = 0) THEN q ELSE q + 1

\* The long edge gets 3 tiles, the short edge as many as make them square.
Tiles(along, across) ==
    IF along >= across THEN 3 ELSE Greater(1, Rounded(3 * along, across))

\* The knots of the cutoff grid along one axis, in half pixels: a tile's
\* centre for 1..n, and one tile further out for 0 and n + 1.
Knot(i, low, size, n) == 2 * low + (2 * i - 1) * (size \div n)

\* Smaller regions than 8 pixels are left as they are.
Tiled(along, across) == along >= 8 /\ across >= 8

-----------------------------------------------------------------------------
(***************************************************************************)
(* The cutoff of a tile.                                                   *)
(***************************************************************************)
Total(h) == h.blacks + h.whites
Weight(h) == h.blacks * h.black + h.whites * h.white

\* How many pixels are darker than p, and their weight.
CountBelow(h, p) == (IF h.black < p THEN h.blacks ELSE 0)
                    + (IF h.white < p THEN h.whites ELSE 0)
WeightBelow(h, p) == (IF h.black < p THEN h.blacks * h.black ELSE 0)
                     + (IF h.white < p THEN h.whites * h.white ELSE 0)

\* MUTANT of Midpoint: the mean of all pixels, not of the two classes.
MidpointOfAll(h, p) == Weight(h) \div Total(h)

\* Halfway between the means of the two classes that p separates.
Midpoint(h, p) ==
    LET n1 == CountBelow(h, p)
        w1 == WeightBelow(h, p)
    IN  (w1 \div n1 + (Weight(h) - w1) \div (Total(h) - n1)) \div 2

OneClass(h, p) == CountBelow(h, p) \in {0, Total(h)}

Cutoff == Within(prediction + Adjustment, 5, 250)

-----------------------------------------------------------------------------
(***************************************************************************)
(* A board, its corner grid's top left corner at (x, y) and its squares u  *)
(* pixels wide; turned, its columns run down the frame.                    *)
(***************************************************************************)
Across(v) == IF v.turned THEN pattern.b ELSE pattern.a
Down(v) == IF v.turned THEN pattern.a ELSE pattern.b

\* The outer ring, of one more square on each side, is in the frame.
InFrame(v) ==
    /\ v.x >= v.u /\ v.x + (Across(v) + 1) * v.u <= frame.w
    /\ v.y >= v.u /\ v.y + (Down(v) + 1) * v.u <= frame.h

contains(v, r) ==
    /\ v.x >= r.x1 /\ v.x + Across(v) * v.u <= r.x2
    /\ v.y >= r.y1 /\ v.y + Down(v) * v.u <= r.y2

\* quad_area() over box_area(), in percent, against a threshold.
Fills(v, r, pct) == 100 * pattern.a * pattern.b * v.u * v.u >= pct * BoxArea(r)

Accepted(v) ==
    LET r == Rect(target, frame)
    IN  contains(v, r) /\ Fills(v, r, fill_pct)

-----------------------------------------------------------------------------
TypeOK ==
    /\ phase \in {"picking", "dropped", "fitted", "cutting", "cut", "looking",
                  "found"}
    /\ frame \in Frames /\ fisheye \in BOOLEAN /\ pattern \in Patterns
    /\ target \in get_targets(frame, fisheye) \cup {None} /\ fill_pct \in 0..100
    /\ tile \in Histograms \cup {None}
    /\ prediction \in 0..255 /\ passes \in 0..10

Init ==
    /\ phase = "picking"
    /\ frame \in Frames /\ fisheye \in BOOLEAN /\ pattern \in Patterns
    /\ target = None /\ fill_pct = 0 /\ board = None
    /\ tile = None /\ prediction = 0 /\ passes = 0

\* One entry of fit_targets().
Fit(t) ==
    LET reachable == Reachable(Rect(t, frame), frame, pattern)
    IN  /\ phase = "picking"
        /\ target' = t
        /\ phase' = IF Dropped(t, reachable) THEN "dropped" ELSE "fitted"
        /\ fill_pct' = Fitted(t.fill, reachable)
        /\ UNCHANGED <<frame, fisheye, pattern, board, tile, prediction, passes>>

PassOver ==
    /\ phase = "dropped"
    /\ phase' = "picking"
    /\ target' = None /\ fill_pct' = 0
    /\ UNCHANGED <<frame, fisheye, pattern, board, tile, prediction, passes>>

\* A frame: one tile of the threshold region starts at its mean.
SeeTile(h) ==
    /\ phase = "fitted"
    /\ phase' = "cutting"
    /\ tile' = h
    /\ prediction' = Weight(h) \div Total(h)
    /\ passes' = 0
    /\ UNCHANGED <<frame, fisheye, pattern, target, fill_pct, board>>

\* One pass of the loop; small moves, one class only and ten passes end it.
Pass ==
    LET p == Within(prediction, 1, 255)
        next == IF OneClass(tile, p) THEN prediction ELSE Midpoint(tile, p)
    IN  /\ phase = "cutting"
        /\ prediction' = next
        /\ passes' = passes + 1
        /\ phase' = IF OneClass(tile, p) \/ next - prediction \in -2..2
                          \/ passes' = 10
                    THEN "cut" ELSE "cutting"
        /\ UNCHANGED <<frame, fisheye, pattern, target, fill_pct, board, tile>>

\* Then the board is looked for.
Look ==
    /\ phase = "cut"
    /\ phase' = "looking"
    /\ tile' = None /\ prediction' = 0 /\ passes' = 0
    /\ UNCHANGED <<frame, fisheye, pattern, target, fill_pct, board>>

\* A board wholly in the frame can be found.
Find(v) ==
    /\ phase = "looking"
    /\ InFrame(v)
    /\ board' = v
    /\ phase' = "found"
    /\ UNCHANGED <<frame, fisheye, pattern, target, fill_pct, tile, prediction,
                   passes>>

\* A view is taken, and the next target, or the next frame is looked at.
Judge ==
    /\ phase = "found"
    /\ board' = None
    /\ IF Accepted(board)
       THEN phase' = "picking" /\ target' = None /\ fill_pct' = 0
       ELSE phase' = "fitted" /\ UNCHANGED <<target, fill_pct>>
    /\ UNCHANGED <<frame, fisheye, pattern, tile, prediction, passes>>

\* Where the operator may hold it: against any side of the box, or between.
Spots(low, high, span) == {low, (low + high - span) \div 2, high - span}

Held ==
    LET r == Rect(target, frame)
        max == Greater(frame.w \div pattern.a, frame.h \div pattern.b)
    IN  \E u \in 1..max, turned \in BOOLEAN :
        LET m == IF turned THEN [x |-> pattern.b, y |-> pattern.a]
                           ELSE [x |-> pattern.a, y |-> pattern.b]
        IN  \E x \in Spots(r.x1, r.x2, m.x * u), y \in Spots(r.y1, r.y2, m.y * u) :
                Find([u |-> u, x |-> x, y |-> y, turned |-> turned])

Next ==
    \/ \E t \in get_targets(frame, fisheye) : Fit(t)
    \/ PassOver
    \/ \E h \in Histograms : SeeTile(h)
    \/ Pass
    \/ Look
    \/ phase = "looking" /\ Held
    \/ Judge

Spec == Init /\ [][Next]_vars

-----------------------------------------------------------------------------
\* m squares of u pixels lie between b1 and b2, and their ring in the frame.
Placed(p, u, b1, b2, size, m) ==
    /\ b1 <= p /\ p + m * u <= b2
    /\ 0 <= p - u /\ p + (m + 1) * u <= size

Placeable(u, b1, b2, size, m) ==
    \E p \in b1..b2 : Placed(p, u, b1, b2, size, m)

\* The same of the board, on a grid of the g-th part of a pixel.
BoardPlaceable(u, r, g) ==
    /\ Placeable(u, g * r.x1, g * r.x2, g * frame.w, pattern.a)
    /\ Placeable(u, g * r.y1, g * r.y2, g * frame.h, pattern.b)

\* The board covers pct percent of the box, of which share percent count.
Covers(u, r, g, share, pct) ==
    share * pattern.a * pattern.b * u * u >= pct * g * g * BoxArea(r)

Squares(g) == 1..Lesser((g * frame.w) \div pattern.a, (g * frame.h) \div pattern.b)

\* What is kept can be completed: some upright placement, wholly in the frame,
\* meets the fitted threshold (calibrate_camera.py:707-741). Every limit of an
\* axis is on one of these grids.
KeptTargetIsReachable ==
    phase = "fitted" =>
        LET r == Rect(target, frame)
        IN  \E g \in 1..(Greater(pattern.a, pattern.b) + 2) :
            \E u \in Squares(g) :
                Covers(u, r, g, 100, fill_pct) /\ BoardPlaceable(u, r, g)

\* What is dropped could not be met even at the floor, with the headroom kept
\* (calibrate_camera.py:652-656, 728-733): not by any square of whole quarters
\* of a pixel.
Grid == 4

NoneDroppedInVain ==
    phase = "dropped" =>
        LET r == Rect(target, frame)
        IN  \A u \in Squares(Grid) :
                Covers(u, r, Grid, Headroom, FillFloor)
                    => ~BoardPlaceable(u, r, Grid)

\* The region that is thresholded contains the whole board, ring included, of
\* every view that is accepted: past it raw pixels, and the white border
\* through the board's own squares (calibrate_camera.py:778-796).
InRegion(v, t) ==
    /\ t.x1 <= v.x - v.u /\ v.x + (Across(v) + 1) * v.u <= t.x2
    /\ t.y1 <= v.y - v.u /\ v.y + (Down(v) + 1) * v.u <= t.y2

BoardIsThresholded ==
    phase = "found" /\ Accepted(board) =>
        InRegion(board, ThreshBox(Rect(target, frame), frame, pattern))

\* The same of a board held upright, or in a box whose longer side is along
\* the longer side of the pattern: turned in a box that is not, it may have
\* squares larger than the margin.
SuitsPattern(r) ==
    \/ pattern.a >= pattern.b /\ r.y2 - r.y1 <= r.x2 - r.x1
    \/ pattern.a <= pattern.b /\ r.x2 - r.x1 <= r.y2 - r.y1

SuitedBoardIsThresholded ==
    LET r == Rect(target, frame) IN
      phase = "found" /\ Accepted(board) /\ (~board.turned \/ SuitsPattern(r))
        => InRegion(board, ThreshBox(r, frame, pattern))

\* Every pixel of the region lies between two distinct knots, so that its
\* cutoff is interpolated, never extrapolated or divided by an empty span,
\* although whole tiles leave a rest (calibrate_camera.py:509-540, 573-580).
KnotsCover(low, size, n) ==
    /\ \A i \in 0..n : Knot(i, low, size, n) < Knot(i + 1, low, size, n)
    /\ Knot(0, low, size, n) <= 2 * low
    /\ 2 * (low + size - 1) <= Knot(n + 1, low, size, n)

KnotsCoverRegion ==
    phase = "fitted" =>
        LET t == ThreshBox(Rect(target, frame), frame, pattern)
            w == t.x2 - t.x1
            h == t.y2 - t.y1
        IN  Tiled(w, h) => /\ KnotsCover(t.x1, w, Tiles(w, h))
                           /\ KnotsCover(t.y1, h, Tiles(h, w))

\* A tile of black and white squares is cut midway between the two, however
\* few of its pixels are white, unless they are too few for its mean to leave
\* black (calibrate_camera.py:450-481).
Separable(h) == h.blacks > 0 /\ h.whites * (h.white - h.black) >= Total(h)

CutsMidway ==
    phase = "cut" /\ Separable(tile) =>
        Cutoff = Within((tile.black + tile.white) \div 2 + Adjustment, 5, 250)
=============================================================================
