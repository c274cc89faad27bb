-------------------------- MODULE BoardViewProofs --------------------------
(***************************************************************************)
(* Theorems about BoardView, for any frame sizes and board patterns.       *)
(***************************************************************************)
EXTENDS BoardView, TLAPS

Percents == 0..100
EntryType ==
    {t \in [x1 : Percents, y1 : Percents, x2 : Percents, y2 : Percents,
            fill : Percents] : t.x1 <= t.x2 /\ t.y1 <= t.y2}
BoardType == [u : Nat \ {0}, x : Int, y : Int, turned : BOOLEAN]

\* A target is an entry of a table, and a board that was found is in the frame.
ViewInv ==
    /\ frame \in Frames /\ pattern \in Patterns
    /\ phase # "picking" => target \in EntryType
    /\ phase = "found" => board \in BoardType /\ InFrame(board)

-----------------------------------------------------------------------------
LEMMA Dividing ==
    ASSUME NEW d \in Int, NEW m \in Nat \ {0}
    PROVE  /\ d \div m \in Int
           /\ m * (d \div m) <= d
           /\ d < m * (d \div m) + m
  BY Z3

\* m squares within d pixels are at most d \div m wide.
LEMMA SquareBound ==
    ASSUME NEW d \in Int, NEW m \in Nat \ {0}, NEW u \in Nat, m * u <= d
    PROVE  u <= d \div m
  <1> DEFINE q == d \div m
  <1>1. q \in Int /\ d < m * q + m
    BY Dividing
  <1> HIDE DEF q
  <1>2. SUFFICES ASSUME q + 1 <= u PROVE FALSE
    BY <1>1 DEF q
  <1>3. PICK k \in Nat : u = q + 1 + k
    <2>1. u - (q + 1) \in Nat /\ u = q + 1 + (u - (q + 1))
      BY <1>1, <1>2
    <2> QED
      BY <2>1
  <1>4. m * u = m * q + m + m * k
    BY <1>1, <1>3, Z3
  <1>5. m * k >= 0
    BY Z3
  <1>6. m * q \in Int /\ m * k \in Int
    BY <1>1
  <1> QED
    BY <1>1, <1>4, <1>5, <1>6

LEMMA EntriesTyped ==
    ASSUME NEW f, NEW fish, NEW t \in get_targets(f, fish)
    PROVE  t \in EntryType
  <1>1. ASSUME NEW s \in TARGETS_STANDARD PROVE s \in EntryType
    BY <1>1 DEF TARGETS_STANDARD, Entry, EntryType, Percents
  <1>2. ASSUME NEW s \in TARGETS_FISHEYE PROVE s \in EntryType
    BY <1>2 DEF TARGETS_FISHEYE, Entry, EntryType, Percents
  <1>3. ASSUME NEW s \in TARGETS_FISHEYE_WIDE PROVE s \in EntryType
    BY <1>3 DEF TARGETS_FISHEYE_WIDE, Entry, EntryType, Percents
  <1> QED
    BY <1>1, <1>2, <1>3 DEF get_targets

\* A larger factor makes a larger product, and only then.
LEMMA Scaling ==
    ASSUME NEW a \in Int, NEW b \in Int, NEW c \in Nat
    PROVE  /\ a * c \in Int /\ b * c \in Int
           /\ a <= b => a * c <= b * c
           /\ c > 0 /\ a * c <= b * c => a <= b
  <1>1. a * c \in Int /\ b * c \in Int
    OBVIOUS
  <1>2. ASSUME a <= b PROVE a * c <= b * c
    <2>1. PICK k \in Nat : b = a + k
      <3>1. b - a \in Nat /\ b = a + (b - a)
        BY <1>2
      <3> QED
        BY <3>1
    <2>2. b * c = a * c + k * c /\ k * c >= 0 /\ k * c \in Int
      BY <2>1, Z3
    <2> QED
      BY <1>1, <2>2
  <1>3. ASSUME c > 0, a * c <= b * c PROVE a <= b
    <2>1. SUFFICES ASSUME b + 1 <= a PROVE FALSE
      OBVIOUS
    <2>2. PICK k \in Nat : a = b + 1 + k
      <3>1. a - (b + 1) \in Nat /\ a = b + 1 + (a - (b + 1))
        BY <2>1
      <3> QED
        BY <3>1
    <2>3. a * c = b * c + c + k * c /\ k * c >= 0 /\ k * c \in Int
      BY <2>2, Z3
    <2> QED
      BY <1>1, <1>3, <2>3
  <1> QED
    BY <1>1, <1>2, <1>3

LEMMA Percent ==
    ASSUME NEW p \in Percents, NEW q \in Percents, p <= q, NEW s \in Nat
    PROVE  /\ (p * s) \div 100 \in Nat /\ (q * s) \div 100 \in Nat
           /\ (p * s) \div 100 <= (q * s) \div 100
           /\ (q * s) \div 100 <= s
  <1> DEFINE x == p * s
             y == q * s
             z == 100 * s
  <1>1. 0 <= x /\ x <= y /\ y <= z /\ x \in Int /\ y \in Int /\ z \in Int
    <2>1. 0 * s <= x /\ x <= y /\ y <= z /\ 0 * s = 0
      BY Scaling DEF Percents
    <2> QED
      BY <2>1 DEF Percents
  <1>2. z = 100 * s
    OBVIOUS
  <1> HIDE DEF x, y, z
  <1>3. /\ x \div 100 \in Nat /\ y \div 100 \in Nat
        /\ x \div 100 <= y \div 100 /\ y \div 100 <= s
    BY <1>1, <1>2, Z3
  <1> QED
    BY <1>3 DEF x, y

\* A target's rectangle is in the frame, its edges in order.
LEMMA RectTyped ==
    ASSUME NEW t \in EntryType, NEW f \in [w : Nat, h : Nat]
    PROVE  LET r == Rect(t, f)
           IN  /\ r.x1 \in Nat /\ r.x2 \in Nat /\ r.x1 <= r.x2 /\ r.x2 <= f.w
               /\ r.y1 \in Nat /\ r.y2 \in Nat /\ r.y1 <= r.y2 /\ r.y2 <= f.h
  <1>1. /\ t.x1 \in Percents /\ t.x2 \in Percents /\ t.x1 <= t.x2
        /\ t.y1 \in Percents /\ t.y2 \in Percents /\ t.y1 <= t.y2
        /\ f.w \in Nat /\ f.h \in Nat
    BY DEF EntryType
  <1>2. /\ (t.x1 * f.w) \div 100 \in Nat /\ (t.x2 * f.w) \div 100 \in Nat
        /\ (t.x1 * f.w) \div 100 <= (t.x2 * f.w) \div 100
        /\ (t.x2 * f.w) \div 100 <= f.w
    BY <1>1, Percent
  <1>3. /\ (t.y1 * f.h) \div 100 \in Nat /\ (t.y2 * f.h) \div 100 \in Nat
        /\ (t.y1 * f.h) \div 100 <= (t.y2 * f.h) \div 100
        /\ (t.y2 * f.h) \div 100 <= f.h
    BY <1>1, Percent
  <1> QED
    BY <1>2, <1>3 DEF Rect

-----------------------------------------------------------------------------
(***************************************************************************)
(* The invariant.                                                          *)
(***************************************************************************)
LEMMA ViewInit == Init => ViewInv
  BY DEF Init, ViewInv

LEMMA HeldIsTyped ==
    ASSUME ViewInv, phase = "looking", Held
    PROVE  ViewInv'
  <1>1. target \in EntryType /\ frame \in [w : Nat, h : Nat]
        /\ pattern.a \in Nat \ {0} /\ pattern.b \in Nat \ {0}
    BY ViewAssumption DEF ViewInv
  <1> DEFINE r == Rect(target, frame)
  <1>2. r.x1 \in Int /\ r.x2 \in Int /\ r.y1 \in Int /\ r.y2 \in Int
    BY <1>1, RectTyped
  <1> HIDE DEF r
  <1>3. ASSUME NEW low \in Int, NEW high \in Int, NEW span \in Int,
               NEW p \in Spots(low, high, span)
        PROVE  p \in Int
    <2>1. (low + high - span) \div 2 \in Int
      BY Dividing
    <2> QED
      BY <1>3, <2>1 DEF Spots
  <1>4. PICK u \in 1..Greater(frame.w \div pattern.a, frame.h \div pattern.b),
             turned \in BOOLEAN :
          LET m == IF turned THEN [x |-> pattern.b, y |-> pattern.a]
                             ELSE [x |-> pattern.a, y |-> pattern.b]
          IN  \E x \in Spots(r.x1, r.x2, m.x * u), y \in Spots(r.y1, r.y2, m.y * u) :
                  Find([u |-> u, x |-> x, y |-> y, turned |-> turned])
    BY DEF Held, r
  <1> DEFINE m == IF turned THEN [x |-> pattern.b, y |-> pattern.a]
                            ELSE [x |-> pattern.a, y |-> pattern.b]
  <1>5. m.x \in Nat \ {0} /\ m.y \in Nat \ {0}
    BY <1>1, <1>4
  <1>6. u \in Nat \ {0}
    BY <1>4
  <1>7. PICK x \in Spots(r.x1, r.x2, m.x * u), y \in Spots(r.y1, r.y2, m.y * u) :
          Find([u |-> u, x |-> x, y |-> y, turned |-> turned])
    BY <1>4
  <1>8. m.x * u \in Int /\ m.y * u \in Int
    BY <1>5, <1>6
  <1>9. x \in Int /\ y \in Int
    BY <1>2, <1>3, <1>7, <1>8
  <1> DEFINE v == [u |-> u, x |-> x, y |-> y, turned |-> turned]
  <1>10. v \in BoardType
    BY <1>4, <1>6, <1>9 DEF BoardType
  <1>11. InFrame(v) /\ board' = v /\ UNCHANGED <<frame, pattern, target>>
    BY <1>7 DEF Find
  <1>12. phase' = "found"
    BY <1>7 DEF Find
  <1> HIDE DEF v
  <1>13. InFrame(board)'
    BY <1>11 DEF InFrame, Across, Down
  <1> QED
    BY <1>1, <1>10, <1>11, <1>12, <1>13 DEF ViewInv

LEMMA ViewNext == ViewInv /\ [Next]_vars => ViewInv'
  <1> SUFFICES ASSUME ViewInv, [Next]_vars
               PROVE  ViewInv'
    OBVIOUS
  <1>1. ASSUME NEW t \in get_targets(frame, fisheye), Fit(t) PROVE ViewInv'
    <2>1. t \in EntryType
      BY EntriesTyped
    <2>2. target' = t /\ UNCHANGED <<frame, pattern>> /\ phase' # "found"
      BY <1>1 DEF Fit
    <2> QED
      BY <2>1, <2>2 DEF ViewInv
  <1>2. CASE PassOver
    BY <1>2 DEF PassOver, ViewInv
  <1>3. ASSUME NEW h \in Histograms, SeeTile(h) PROVE ViewInv'
    BY <1>3 DEF SeeTile, ViewInv
  <1>4. CASE Pass
    BY <1>4 DEF Pass, ViewInv
  <1>5. CASE Look
    BY <1>5 DEF Look, ViewInv
  <1>6. CASE phase = "looking" /\ Held
    BY <1>6, HeldIsTyped
  <1>7. CASE Judge
    BY <1>7 DEF Judge, ViewInv
  <1>8. CASE UNCHANGED vars
    BY <1>8 DEF vars, ViewInv, InFrame, Across, Down
  <1> QED
    BY <1>1, <1>2, <1>3, <1>4, <1>5, <1>6, <1>7, <1>8 DEF Next

LEMMA ViewInvariant == Spec => []ViewInv
  BY ViewInit, ViewNext, PTL DEF Spec

-----------------------------------------------------------------------------
\* The four limits of _axis_limit are the two containments it names, and
\* nothing more: a square of u pixels has a placement along an axis exactly
\* when it passes each of them (calibrate_camera.py:659-681).
THEOREM PlacementExists ==
    ASSUME NEW b1 \in Nat, NEW b2 \in Nat, NEW size \in Nat,
           NEW m \in Nat \ {0}, NEW u \in Nat
    PROVE  Placeable(u, b1, b2, size, m)
             <=> /\ m * u <= b2 - b1
                 /\ (m + 1) * u <= size - b1
                 /\ (m + 1) * u <= b2
                 /\ (m + 2) * u <= size
  <1> DEFINE s == m * u
  <1>1. s \in Nat /\ (m + 1) * u = s + u /\ (m + 2) * u = s + u + u
    BY Z3
  <1> HIDE DEF s
  <1>2. ASSUME Placeable(u, b1, b2, size, m)
        PROVE  /\ s <= b2 - b1 /\ s + u <= size - b1
               /\ s + u <= b2 /\ s + u + u <= size
    <2>1. PICK p \in b1..b2 : Placed(p, u, b1, b2, size, m)
      BY <1>2 DEF Placeable
    <2>2. /\ b1 <= p /\ p + s <= b2
          /\ 0 <= p - u /\ p + (s + u) <= size
      BY <2>1, <1>1 DEF Placed, s
    <2> QED
      BY <2>1, <2>2, <1>1
  <1>3. ASSUME s <= b2 - b1, s + u <= size - b1, s + u <= b2, s + u + u <= size
        PROVE  Placeable(u, b1, b2, size, m)
    <2> DEFINE p == Greater(b1, u)
    <2>1. /\ p \in b1..b2 /\ p + s <= b2
          /\ 0 <= p - u /\ p + (s + u) <= size
      BY <1>1, <1>3 DEF Greater
    <2>2. Placed(p, u, b1, b2, size, m)
      BY <2>1, <1>1 DEF Placed, s
    <2> QED
      BY <2>1, <2>2 DEF Placeable
  <1> QED
    BY <1>1, <1>2, <1>3 DEF s

-----------------------------------------------------------------------------
\* One axis of a board in the box: its ring is within the pad, provided that
\* the squares the pad is computed from would fit in the box.
LEMMA AxisInRegion ==
    ASSUME NEW b1 \in Int, NEW b2 \in Int, NEW size \in Nat,
           NEW m \in Nat \ {0}, NEW n \in Nat \ {0}, NEW u \in Nat,
           NEW p \in Int,
           b1 <= p, p + n * u <= b2, p >= u, p + (n + 1) * u <= size,
           m * u <= b2 - b1
    PROVE  /\ Greater(b1 - PadOf(b2 - b1, m), 0) <= p - u
           /\ p + (n + 1) * u <= Lesser(b2 + PadOf(b2 - b1, m), size)
  <1> DEFINE s == n * u
             q == (b2 - b1) \div m
  <1>1. s \in Int /\ (n + 1) * u = s + u
    BY Z3
  <1>2. u <= q /\ q \in Int
    BY SquareBound, Dividing
  <1>3. PadOf(b2 - b1, m) = q + 8
    BY DEF PadOf, Pad
  <1> HIDE DEF s, q
  <1>4. b1 <= p /\ p + s <= b2 /\ p >= u /\ p + (s + u) <= size
    BY <1>1 DEF s
  <1>5. Greater(b1 - (q + 8), 0) <= p - u
    BY <1>2, <1>4 DEF Greater
  <1>6. p + (s + u) <= Lesser(b2 + (q + 8), size)
    BY <1>1, <1>2, <1>4 DEF Lesser
  <1> QED
    BY <1>1, <1>3, <1>5, <1>6

\* The squares of a board within w by h are no larger than those of a pattern
\* a by b that fills it, if the board is held like the pattern, or turned in a
\* box that suits the pattern.
LEMMA SquaresFitPattern ==
    ASSUME NEW a \in Nat \ {0}, NEW b \in Nat \ {0}, NEW u \in Nat,
           NEW w \in Int, NEW h \in Int,
           \/ a * u <= w /\ b * u <= h
           \/ /\ b * u <= w /\ a * u <= h
              /\ \/ a >= b /\ h <= w
                 \/ a <= b /\ w <= h
    PROVE  a * u <= w /\ b * u <= h
  <1> DEFINE au == a * u
             bu == b * u
  <1>1. au \in Int /\ bu \in Int
    OBVIOUS
  <1>2. (a >= b => au >= bu) /\ (a <= b => au <= bu)
    BY Z3
  <1> HIDE DEF au, bu
  <1>3. \/ au <= w /\ bu <= h
        \/ /\ bu <= w /\ au <= h
           /\ \/ a >= b /\ h <= w
              \/ a <= b /\ w <= h
    BY DEF au, bu
  <1>4. au <= w /\ bu <= h
    BY <1>1, <1>2, <1>3
  <1> QED
    BY <1>4 DEF au, bu

LEMMA SuitedInRegion == ViewInv => SuitedBoardIsThresholded
  <1> DEFINE r == Rect(target, frame)
             n == Across(board)
             m == Down(board)
  <1> SUFFICES ASSUME ViewInv, phase = "found", Accepted(board),
                      ~board.turned \/ SuitsPattern(r)
               PROVE  InRegion(board, ThreshBox(r, frame, pattern))
    BY DEF SuitedBoardIsThresholded
  <1>1. target \in EntryType /\ frame \in [w : Nat, h : Nat]
        /\ pattern.a \in Nat \ {0} /\ pattern.b \in Nat \ {0}
    BY ViewAssumption DEF ViewInv
  <1>2. r.x1 \in Int /\ r.x2 \in Int /\ r.y1 \in Int /\ r.y2 \in Int
    BY <1>1, RectTyped
  <1>3. board.u \in Nat /\ board.x \in Int /\ board.y \in Int
        /\ board.turned \in BOOLEAN
    BY DEF ViewInv, BoardType
  <1>4. frame.w \in Nat /\ frame.h \in Nat
    BY <1>1
  <1>5. /\ board.x >= board.u /\ board.x + (n + 1) * board.u <= frame.w
        /\ board.y >= board.u /\ board.y + (m + 1) * board.u <= frame.h
    BY DEF ViewInv, InFrame
  <1>6. contains(board, r)
    BY DEF Accepted
  <1>7. \/ n = pattern.a /\ m = pattern.b
        \/ n = pattern.b /\ m = pattern.a /\ SuitsPattern(r)
    <2>1. CASE board.turned
      <3>1. n = pattern.b /\ m = pattern.a
        BY <2>1 DEF Across, Down
      <3>2. SuitsPattern(r)
        BY <2>1
      <3> QED
        BY <3>1, <3>2
    <2>2. CASE ~board.turned
      <3>1. n = pattern.a /\ m = pattern.b
        BY <2>2 DEF Across, Down
      <3> QED
        BY <3>1
    <2> QED
      BY <2>1, <2>2
  <1> HIDE DEF r
  <1>8. /\ r.x1 <= board.x /\ board.x + n * board.u <= r.x2
        /\ r.y1 <= board.y /\ board.y + m * board.u <= r.y2
    BY <1>6 DEF contains
  <1> HIDE DEF n, m
  <1>9. n \in Nat \ {0} /\ m \in Nat \ {0}
    BY <1>1, <1>7
  <1>10. n * board.u <= r.x2 - r.x1 /\ m * board.u <= r.y2 - r.y1
    <2> DEFINE nu == n * board.u
               mu == m * board.u
    <2>1. nu \in Int /\ mu \in Int
      BY <1>3, <1>9
    <2> HIDE DEF nu, mu
    <2>2. /\ r.x1 <= board.x /\ board.x + nu <= r.x2
          /\ r.y1 <= board.y /\ board.y + mu <= r.y2
      BY <1>8 DEF nu, mu
    <2>3. nu <= r.x2 - r.x1 /\ mu <= r.y2 - r.y1
      BY <1>2, <1>3, <2>1, <2>2
    <2> QED
      BY <2>3 DEF nu, mu
  <1>11. /\ pattern.a * board.u <= r.x2 - r.x1
         /\ pattern.b * board.u <= r.y2 - r.y1
    <2>1. r.x2 - r.x1 \in Int /\ r.y2 - r.y1 \in Int
      BY <1>2
    <2>2. CASE n = pattern.a /\ m = pattern.b
      BY <1>10, <2>2
    <2>3. CASE n = pattern.b /\ m = pattern.a /\ SuitsPattern(r)
      BY <1>1, <1>3, <1>10, <2>1, <2>3, SquaresFitPattern DEF SuitsPattern
    <2> QED
      BY <1>7, <2>2, <2>3
  <1>12. /\ Greater(r.x1 - PadOf(r.x2 - r.x1, pattern.a), 0) <= board.x - board.u
         /\ board.x + (n + 1) * board.u
              <= Lesser(r.x2 + PadOf(r.x2 - r.x1, pattern.a), frame.w)
    BY <1>1, <1>2, <1>3, <1>4, <1>5, <1>8, <1>9, <1>11, AxisInRegion
  <1>13. /\ Greater(r.y1 - PadOf(r.y2 - r.y1, pattern.b), 0) <= board.y - board.u
         /\ board.y + (m + 1) * board.u
              <= Lesser(r.y2 + PadOf(r.y2 - r.y1, pattern.b), frame.h)
    BY <1>1, <1>2, <1>3, <1>4, <1>5, <1>8, <1>9, <1>11, AxisInRegion
  <1>14. InRegion(board, ThreshBox(r, frame, pattern))
    BY <1>12, <1>13 DEF InRegion, ThreshBox, n, m
  <1> QED
    BY <1>14

\* The threshold region contains the whole of a board of any view that is
\* accepted, ring included, for every frame, board and target, held upright or
\* in a box whose longer side is along the pattern's: only a board turned in a
\* box of the other shape can stick out (calibrate_camera.py:778-796).
THEOREM SuitedBoardsAreThresholded == Spec => []SuitedBoardIsThresholded
  BY ViewInvariant, SuitedInRegion, PTL

-----------------------------------------------------------------------------
LEMMA TileCounts ==
    ASSUME NEW along \in Nat, NEW across \in Nat, across > 0
    PROVE  Tiles(along, across) \in 1..3
  <1>1. CASE along >= across
    BY <1>1 DEF Tiles
  <1>2. CASE along < across
    <2> DEFINE q == (3 * along) \div across
    <2>1. q \in Int /\ across * q <= 3 * along /\ 3 * along < across * q + across
      BY Dividing
    <2> HIDE DEF q
    <2>2. q < 3
      <3>1. SUFFICES ASSUME q >= 3 PROVE FALSE
        BY <2>1
      <3>2. across * q >= across * 3
        BY <3>1, <2>1, Z3
      <3>3. across * q \in Int
        BY <2>1
      <3> QED
        BY <1>2, <2>1, <3>2, <3>3
    <2>3. Rounded(3 * along, across) \in {q, q + 1}
      BY DEF Rounded, q
    <2>4. Greater(1, Rounded(3 * along, across)) \in 1..3
      BY <2>1, <2>2, <2>3 DEF Greater
    <2> QED
      BY <1>2, <2>4 DEF Tiles
  <1> QED
    BY <1>1, <1>2

LEMMA Covering ==
    ASSUME NEW low \in Int, NEW size \in Nat, size >= 8, NEW n \in 1..3
    PROVE  KnotsCover(low, size, n)
  <1> DEFINE k == size \div n
  <1>1. k \in Int /\ n * k <= size /\ size < n * k + n
    BY Dividing
  <1> HIDE DEF k
  <1>2. ASSUME NEW j \in {1, 2, 3}, n = j PROVE KnotsCover(low, size, n)
    <2>1. \A i \in 0..(n + 1) : Knot(i, low, size, n) = 2 * low + (2 * i - 1) * k
      BY DEF Knot, k
    <2>2. k >= 2 /\ n * k = j * k
      BY <1>1, <1>2
    <2>3. ASSUME NEW i \in 0..n
          PROVE  Knot(i, low, size, n) < Knot(i + 1, low, size, n)
      <3>1. (2 * (i + 1) - 1) * k = (2 * i - 1) * k + 2 * k
        BY <1>1, Z3
      <3>2. (2 * i - 1) * k \in Int
        BY <1>1
      <3> QED
        BY <2>1, <2>2, <3>1, <3>2, <1>1
    <2>4. Knot(0, low, size, n) <= 2 * low
      BY <2>1, <2>2, <1>1
    <2>5. 2 * (low + size - 1) <= Knot(n + 1, low, size, n)
      BY <2>1, <2>2, <1>1, <1>2
    <2> QED
      BY <2>3, <2>4, <2>5 DEF KnotsCover
  <1> QED
    BY <1>2

LEMMA PadTyped ==
    ASSUME NEW span \in Int, NEW m \in Nat \ {0}
    PROVE  PadOf(span, m) \in Int
  <1>1. span \div m \in Int
    BY Dividing
  <1> QED
    BY <1>1 DEF PadOf, Pad

LEMMA RegionCovered == ViewInv => KnotsCoverRegion
  <1> SUFFICES ASSUME ViewInv, phase = "fitted"
               PROVE  KnotsCoverRegion
    BY DEF KnotsCoverRegion
  <1> DEFINE r == Rect(target, frame)
             t == ThreshBox(r, frame, pattern)
             w == t.x2 - t.x1
             h == t.y2 - t.y1
  <1>1. target \in EntryType /\ frame \in [w : Nat, h : Nat]
        /\ pattern.a \in Nat \ {0} /\ pattern.b \in Nat \ {0}
    BY ViewAssumption DEF ViewInv
  <1>2. r.x1 \in Int /\ r.x2 \in Int /\ r.y1 \in Int /\ r.y2 \in Int
    BY <1>1, RectTyped
  <1> HIDE DEF r
  <1>3. /\ PadOf(r.x2 - r.x1, pattern.a) \in Int
        /\ PadOf(r.y2 - r.y1, pattern.b) \in Int
    <2>1. r.x2 - r.x1 \in Int /\ r.y2 - r.y1 \in Int
      BY <1>2
    <2> QED
      BY <1>1, <2>1, PadTyped
  <1>4. t.x1 \in Int /\ t.x2 \in Int /\ t.y1 \in Int /\ t.y2 \in Int
    BY <1>1, <1>2, <1>3 DEF ThreshBox, Greater, Lesser
  <1> HIDE DEF t
  <1>5. ASSUME Tiled(w, h)
        PROVE  KnotsCover(t.x1, w, Tiles(w, h)) /\ KnotsCover(t.y1, h, Tiles(h, w))
    <2>1. w \in Nat /\ h \in Nat /\ w >= 8 /\ h >= 8
      BY <1>4, <1>5 DEF Tiled
    <2> HIDE DEF w, h
    <2>2. Tiles(w, h) \in 1..3 /\ Tiles(h, w) \in 1..3
      BY <2>1, TileCounts
    <2> QED
      BY <1>4, <2>1, <2>2, Covering
  <1> QED
    BY <1>5 DEF KnotsCoverRegion, t, r

\* The grid of cutoffs spans every threshold region, whatever its size.
THEOREM RegionsAreCovered == Spec => []KnotsCoverRegion
  BY ViewInvariant, RegionCovered, PTL
-----------------------------------------------------------------------------
(***************************************************************************)
(* Limits are fractions, and the smallest of four exists.                  *)
(***************************************************************************)
Ratios == Nat \X (Nat \ {0})
AtMost(r, q) == r[1] * q[2] <= q[1] * r[2]

LEMMA RatioTotal ==
    ASSUME NEW r \in Ratios, NEW q \in Ratios
    PROVE  AtMost(r, r) /\ (AtMost(r, q) \/ AtMost(q, r))
  <1>1. r[1] \in Nat /\ r[2] \in Nat /\ q[1] \in Nat /\ q[2] \in Nat
    BY DEF Ratios
  <1>2. r[1] * q[2] \in Int /\ q[1] * r[2] \in Int /\ r[1] * r[2] \in Int
    BY <1>1
  <1> QED
    BY <1>2 DEF AtMost

LEMMA RatioTransitive ==
    ASSUME NEW r \in Ratios, NEW q \in Ratios, NEW s \in Ratios,
           AtMost(r, q), AtMost(q, s)
    PROVE  AtMost(r, s)
  <1>1. PICK r1 \in Nat, r2 \in Nat \ {0} : r = <<r1, r2>>
    BY DEF Ratios
  <1>2. PICK q1 \in Nat, q2 \in Nat \ {0} : q = <<q1, q2>>
    BY DEF Ratios
  <1>3. PICK s1 \in Nat, s2 \in Nat \ {0} : s = <<s1, s2>>
    BY DEF Ratios
  <1>4. r1 * q2 <= q1 * r2 /\ q1 * s2 <= s1 * q2
    BY <1>1, <1>2, <1>3 DEF AtMost
  <1>5. /\ r1 * q2 \in Int /\ q1 * r2 \in Int /\ q1 * s2 \in Int
        /\ s1 * q2 \in Int /\ r1 * s2 \in Int /\ s1 * r2 \in Int
    OBVIOUS
  <1>6. (r1 * q2) * s2 <= (q1 * r2) * s2 /\ (q1 * s2) * r2 <= (s1 * q2) * r2
    BY <1>4, <1>5, Scaling
  <1>7. /\ (r1 * q2) * s2 = (r1 * s2) * q2
        /\ (q1 * r2) * s2 = (q1 * s2) * r2
        /\ (s1 * q2) * r2 = (s1 * r2) * q2
    BY Z3
  <1>8. /\ (q1 * s2) * r2 \in Int
        /\ (r1 * s2) * q2 \in Int
        /\ (s1 * r2) * q2 \in Int
    BY <1>5
  <1>9. (r1 * s2) * q2 <= (s1 * r2) * q2
    BY <1>6, <1>7, <1>8
  <1>10. r1 * s2 <= s1 * r2
    BY <1>5, <1>9, Scaling
  <1> QED
    BY <1>1, <1>3, <1>10 DEF AtMost

\* Smallest's choice is well defined when some member is a least one.
LEMMA SmallestIsLeast ==
    ASSUME NEW S, NEW r \in S, \A q \in S : AtMost(r, q)
    PROVE  Smallest(S) \in S /\ \A q \in S : AtMost(Smallest(S), q)
  BY DEF Smallest, AtMost

LEMMA SmallestOfTwo ==
    ASSUME NEW r \in Ratios, NEW q \in Ratios
    PROVE  /\ Smallest({r, q}) \in {r, q}
           /\ AtMost(Smallest({r, q}), r) /\ AtMost(Smallest({r, q}), q)
  <1>1. CASE AtMost(r, q)
    <2>1. \A s \in {r, q} : AtMost(r, s)
      BY <1>1, RatioTotal
    <2> QED
      BY <2>1, SmallestIsLeast
  <1>2. CASE AtMost(q, r)
    <2>1. \A s \in {r, q} : AtMost(q, s)
      BY <1>2, RatioTotal
    <2> QED
      BY <2>1, SmallestIsLeast
  <1> QED
    BY <1>1, <1>2, RatioTotal

LEMMA SmallestOfFour ==
    ASSUME NEW r1 \in Ratios, NEW r2 \in Ratios, NEW r3 \in Ratios,
           NEW r4 \in Ratios
    PROVE  LET S == {r1, r2, r3, r4}
           IN  /\ Smallest(S) \in S
               /\ \A q \in S : AtMost(Smallest(S), q)
  <1> DEFINE S == {r1, r2, r3, r4}
             x == Smallest({r1, r2})
             y == Smallest({r3, r4})
             z == Smallest({x, y})
  <1>1. /\ x \in {r1, r2} /\ AtMost(x, r1) /\ AtMost(x, r2)
        /\ y \in {r3, r4} /\ AtMost(y, r3) /\ AtMost(y, r4)
    BY SmallestOfTwo
  <1> HIDE DEF x, y
  <1>2. x \in Ratios /\ y \in Ratios
    BY <1>1
  <1>3. z \in {x, y} /\ AtMost(z, x) /\ AtMost(z, y)
    BY <1>2, SmallestOfTwo
  <1> HIDE DEF z
  <1>4. z \in Ratios /\ z \in S
    BY <1>1, <1>2, <1>3
  <1>5. \A q \in S : AtMost(z, q)
    BY <1>1, <1>2, <1>3, <1>4, RatioTransitive
  <1> HIDE DEF S
  <1>6. Smallest(S) \in S /\ \A q \in S : AtMost(Smallest(S), q)
    BY <1>4, <1>5, SmallestIsLeast
  <1> QED
    BY <1>6 DEF S

-----------------------------------------------------------------------------
(***************************************************************************)
(* The largest square.                                                     *)
(***************************************************************************)

\* A square of n / d pixels passes the four limits of an axis.
Fits(u, b1, b2, size, m) ==
    /\ AtMost(u, <<b2 - b1, m>>) /\ AtMost(u, <<size - b1, m + 1>>)
    /\ AtMost(u, <<b2, m + 1>>) /\ AtMost(u, <<size, m + 2>>)

LEMMA AxisLimit ==
    ASSUME NEW b1 \in Nat, NEW b2 \in Nat, NEW size \in Nat,
           b1 <= b2, b2 <= size, NEW m \in Nat \ {0}
    PROVE  LET u == axis_limit(b1, b2, size, m)
           IN  /\ u \in Ratios /\ u[2] \in 1..(m + 2)
               /\ Fits(u, b1, b2, size, m)
               /\ b1 < b2 => u[1] > 0
               /\ \A v \in Ratios : Fits(v, b1, b2, size, m) => AtMost(v, u)
  <1> DEFINE r1 == <<b2 - b1, m>>
             r2 == <<size - b1, m + 1>>
             r3 == <<b2, m + 1>>
             r4 == <<size, m + 2>>
             u == axis_limit(b1, b2, size, m)
  <1>1. r1 \in Ratios /\ r2 \in Ratios /\ r3 \in Ratios /\ r4 \in Ratios
    BY DEF Ratios
  <1>2. u = Smallest({r1, r2, r3, r4})
    BY DEF axis_limit
  <1>3. \A v : Fits(v, b1, b2, size, m)
                 <=> AtMost(v, r1) /\ AtMost(v, r2) /\ AtMost(v, r3) /\ AtMost(v, r4)
    BY DEF Fits
  <1>4. \A r \in {r1, r2, r3, r4} :
            r[2] \in 1..(m + 2) /\ (b1 < b2 => r[1] > 0)
    OBVIOUS
  <1> HIDE DEF r1, r2, r3, r4, u
  <1>5. u \in {r1, r2, r3, r4} /\ \A q \in {r1, r2, r3, r4} : AtMost(u, q)
    BY <1>1, <1>2, SmallestOfFour
  <1>6. /\ u \in Ratios /\ u[2] \in 1..(m + 2)
        /\ Fits(u, b1, b2, size, m) /\ (b1 < b2 => u[1] > 0)
        /\ \A v \in Ratios : Fits(v, b1, b2, size, m) => AtMost(v, u)
    BY <1>1, <1>3, <1>4, <1>5
  <1> QED
    BY <1>6 DEF u

\* u / g pixels pass an axis's limits exactly when u has a placement there on
\* the grid of the g-th part of a pixel.
LEMMA PlacedOnGrid ==
    ASSUME NEW b1 \in Nat, NEW b2 \in Nat, NEW size \in Nat,
           NEW m \in Nat \ {0}, NEW u \in Nat, NEW g \in Nat \ {0}
    PROVE  Placeable(u, g * b1, g * b2, g * size, m)
             <=> Fits(<<u, g>>, b1, b2, size, m)
  <1>1. g * b1 \in Nat /\ g * b2 \in Nat /\ g * size \in Nat
    OBVIOUS
  <1>2. Placeable(u, g * b1, g * b2, g * size, m)
          <=> /\ m * u <= g * b2 - g * b1
              /\ (m + 1) * u <= g * size - g * b1
              /\ (m + 1) * u <= g * b2
              /\ (m + 2) * u <= g * size
    BY <1>1, PlacementExists
  <1>3. /\ g * b2 - g * b1 = (b2 - b1) * g
        /\ g * size - g * b1 = (size - b1) * g
        /\ g * b2 = b2 * g /\ g * size = size * g
    BY Z3
  <1>4. /\ m * u = u * m /\ (m + 1) * u = u * (m + 1)
        /\ (m + 2) * u = u * (m + 2)
    BY Z3
  <1>5. Fits(<<u, g>>, b1, b2, size, m)
          <=> /\ u * m <= (b2 - b1) * g
              /\ u * (m + 1) <= (size - b1) * g
              /\ u * (m + 1) <= b2 * g
              /\ u * (m + 2) <= size * g
    BY DEF Fits, AtMost
  <1> QED
    BY <1>2, <1>3, <1>4, <1>5
LEMMA FitsBelow ==
    ASSUME NEW b1 \in Nat, NEW b2 \in Nat, NEW size \in Nat,
           b1 <= b2, b2 <= size, NEW m \in Nat \ {0},
           NEW u \in Ratios, NEW v \in Ratios,
           AtMost(u, v), Fits(v, b1, b2, size, m)
    PROVE  Fits(u, b1, b2, size, m)
  <1> DEFINE r1 == <<b2 - b1, m>>
             r2 == <<size - b1, m + 1>>
             r3 == <<b2, m + 1>>
             r4 == <<size, m + 2>>
  <1>1. r1 \in Ratios /\ r2 \in Ratios /\ r3 \in Ratios /\ r4 \in Ratios
    BY DEF Ratios
  <1>2. \A w : Fits(w, b1, b2, size, m)
                 <=> AtMost(w, r1) /\ AtMost(w, r2) /\ AtMost(w, r3) /\ AtMost(w, r4)
    BY DEF Fits
  <1> HIDE DEF r1, r2, r3, r4
  <1>3. AtMost(v, r1) /\ AtMost(v, r2) /\ AtMost(v, r3) /\ AtMost(v, r4)
    BY <1>2
  <1>4. AtMost(u, r1) /\ AtMost(u, r2) /\ AtMost(u, r3) /\ AtMost(u, r4)
    BY <1>1, <1>3, RatioTransitive
  <1> QED
    BY <1>2, <1>4

\* A rectangle in a frame.
Box(r, f) ==
    /\ f.w \in Nat /\ f.h \in Nat
    /\ r.x1 \in Nat /\ r.x2 \in Nat /\ r.x1 <= r.x2 /\ r.x2 <= f.w
    /\ r.y1 \in Nat /\ r.y2 \in Nat /\ r.y1 <= r.y2 /\ r.y2 <= f.h

FitsBoth(u, r, f, p) ==
    Fits(u, r.x1, r.x2, f.w, p.a) /\ Fits(u, r.y1, r.y2, f.h, p.b)

LEMMA LargestFits ==
    ASSUME NEW r, NEW f, NEW p, Box(r, f),
           p.a \in Nat \ {0}, p.b \in Nat \ {0}
    PROVE  LET u == LargestSquare(r, f, p)
           IN  /\ u \in Ratios /\ u[2] \in 1..(Greater(p.a, p.b) + 2)
               /\ FitsBoth(u, r, f, p)
               /\ r.x1 < r.x2 /\ r.y1 < r.y2 => u[1] > 0
               /\ \A v \in Ratios : FitsBoth(v, r, f, p) => AtMost(v, u)
  <1> DEFINE x == axis_limit(r.x1, r.x2, f.w, p.a)
             y == axis_limit(r.y1, r.y2, f.h, p.b)
             u == LargestSquare(r, f, p)
  <1>1. u = Smallest({x, y})
    BY DEF LargestSquare
  <1>2. /\ x \in Ratios /\ x[2] \in 1..(p.a + 2)
        /\ Fits(x, r.x1, r.x2, f.w, p.a)
        /\ r.x1 < r.x2 => x[1] > 0
        /\ \A v \in Ratios : Fits(v, r.x1, r.x2, f.w, p.a) => AtMost(v, x)
    BY AxisLimit DEF Box
  <1>3. /\ y \in Ratios /\ y[2] \in 1..(p.b + 2)
        /\ Fits(y, r.y1, r.y2, f.h, p.b)
        /\ r.y1 < r.y2 => y[1] > 0
        /\ \A v \in Ratios : Fits(v, r.y1, r.y2, f.h, p.b) => AtMost(v, y)
    BY AxisLimit DEF Box
  <1> HIDE DEF x, y, u
  <1>4. u \in {x, y} /\ AtMost(u, x) /\ AtMost(u, y)
    BY <1>1, <1>2, <1>3, SmallestOfTwo
  <1>5. u \in Ratios
    BY <1>2, <1>3, <1>4
  <1>6. u[2] \in 1..(Greater(p.a, p.b) + 2)
    BY <1>2, <1>3, <1>4 DEF Greater
  <1>7. Fits(u, r.x1, r.x2, f.w, p.a)
    BY <1>2, <1>4, <1>5, FitsBelow DEF Box
  <1>8. Fits(u, r.y1, r.y2, f.h, p.b)
    BY <1>3, <1>4, <1>5, FitsBelow DEF Box
  <1>9. r.x1 < r.x2 /\ r.y1 < r.y2 => u[1] > 0
    BY <1>2, <1>3, <1>4
  <1>10. \A v \in Ratios : FitsBoth(v, r, f, p) => AtMost(v, u)
    BY <1>2, <1>3, <1>4 DEF FitsBoth
  <1> QED
    BY <1>5, <1>6, <1>7, <1>8, <1>9, <1>10 DEF FitsBoth, u

-----------------------------------------------------------------------------
(***************************************************************************)
(* What it covers of the box.                                              *)
(***************************************************************************)
LEMMA AreaTyped ==
    ASSUME NEW r, NEW f, Box(r, f)
    PROVE  /\ BoxArea(r) \in Nat
           /\ BoxArea(r) > 0 <=> r.x1 < r.x2 /\ r.y1 < r.y2
  <1> DEFINE w == r.x2 - r.x1
             h == r.y2 - r.y1
  <1>1. w \in Nat /\ h \in Nat /\ (w > 0 <=> r.x1 < r.x2)
        /\ (h > 0 <=> r.y1 < r.y2)
    BY DEF Box
  <1>2. BoxArea(r) = w * h
    BY DEF BoxArea
  <1> HIDE DEF w, h
  <1>3. w * h \in Nat /\ (w * h > 0 <=> w > 0 /\ h > 0)
    BY <1>1, Z3
  <1> QED
    BY <1>1, <1>2, <1>3

\* The reachable fill is a number, and a bar is within it exactly when the
\* largest square covers that much with the headroom kept.
LEMMA ReachableMeaning ==
    ASSUME NEW r, NEW f, NEW p, Box(r, f),
           p.a \in Nat \ {0}, p.b \in Nat \ {0}
    PROVE  LET u == LargestSquare(r, f, p)
           IN  /\ Reachable(r, f, p) \in Nat
               /\ BoxArea(r) = 0 => Reachable(r, f, p) = 0
               /\ \A pct \in Nat :
                     BoxArea(r) > 0 =>
                         (pct <= Reachable(r, f, p)
                            <=> Headroom * p.a * p.b * u[1] * u[1]
                                  >= pct * u[2] * u[2] * BoxArea(r))
  <1> DEFINE u == LargestSquare(r, f, p)
             n == Headroom * p.a * p.b * u[1] * u[1]
             A == BoxArea(r)
             d == u[2] * u[2] * A
  <1>1. u[1] \in Nat /\ u[2] \in Nat \ {0}
    BY LargestFits DEF Ratios
  <1>2. A \in Nat
    BY AreaTyped
  <1>3. Reachable(r, f, p) = IF A = 0 THEN 0 ELSE n \div d
    BY DEF Reachable
  <1>4. n \in Nat
    BY <1>1 DEF Headroom
  <1> HIDE DEF u, n, A
  <1>5. A > 0 => d \in Nat \ {0}
    <2>1. u[2] * u[2] \in Nat /\ u[2] * u[2] > 0
      BY <1>1, Z3
    <2> DEFINE g == u[2] * u[2]
    <2> HIDE DEF g
    <2>2. A > 0 => g * A \in Nat /\ g * A > 0
      BY <1>2, <2>1, Z3 DEF g
    <2> QED
      BY <2>2 DEF g
  <1>6. ASSUME A > 0, NEW pct \in Nat
        PROVE  pct <= n \div d <=> n >= pct * u[2] * u[2] * A
    <2> HIDE DEF d
    <2> DEFINE q == n \div d
    <2>1. q \in Int /\ d * q <= n /\ n < d * q + d
      BY <1>4, <1>5, <1>6, Dividing
    <2> HIDE DEF q
    <2>2. pct * u[2] * u[2] * A = pct * d
      BY <1>1, <1>2, Z3 DEF d
    <2>3. d * q = q * d /\ q * d + d = (q + 1) * d
      BY <1>5, <1>6, <2>1, Z3
    <2>4. q * d \in Int /\ pct * d \in Int /\ (q + 1) * d \in Int
      BY <1>5, <1>6, <2>1
    <2>5. pct <= q => pct * d <= q * d
      BY <1>5, <1>6, <2>1, Scaling
    <2>6. q + 1 <= pct => (q + 1) * d <= pct * d
      BY <1>5, <1>6, <2>1, Scaling
    <2>7. pct <= q <=> n >= pct * d
      BY <1>4, <1>5, <1>6, <2>1, <2>3, <2>4, <2>5, <2>6
    <2> QED
      BY <2>2, <2>7 DEF q
  <1>7. Reachable(r, f, p) \in Nat
    <2>1. CASE A = 0
      BY <1>3, <2>1
    <2>2. CASE A > 0
      <3> HIDE DEF d
      <3>1. n \div d \in Int /\ (0 <= n \div d <=> n >= 0 * u[2] * u[2] * A)
        BY <1>4, <1>5, <1>6, <2>2, Dividing
      <3>2. 0 * u[2] * u[2] * A = 0
        BY <1>1, <1>2, Z3
      <3> QED
        BY <1>3, <1>4, <2>2, <3>1, <3>2
    <2> QED
      BY <1>2, <2>1, <2>2
  <1> QED
    BY <1>3, <1>6, <1>7 DEF A, n, u

\* A square that is no larger covers no more, whatever grid it is on.
LEMMA CoversNoMore ==
    ASSUME NEW K \in Nat, NEW F \in Nat, NEW A \in Nat,
           NEW u \in Nat, NEW g \in Nat \ {0},
           NEW v \in Nat, NEW k \in Nat \ {0},
           u * k <= v * g, K * u * u >= F * g * g * A
    PROVE  K * v * v >= F * k * k * A
  <1> DEFINE a == u * k
             b == v * g
             gg == g * g
             kk == k * k
  <1>1. a \in Nat /\ b \in Nat /\ a <= b
    BY Z3
  <1>2. gg \in Nat /\ gg > 0 /\ kk \in Nat
    BY Z3
  <1>3. /\ K * u * u \in Int /\ F * g * g * A \in Int
        /\ K * v * v \in Int /\ F * k * k * A \in Int
    OBVIOUS
  <1>4. (F * g * g * A) * kk <= (K * u * u) * kk
    BY <1>2, <1>3, Scaling
  <1>5. (K * u * u) * kk = (a * a) * K /\ (K * v * v) * gg = (b * b) * K
        /\ (F * g * g * A) * kk = (F * k * k * A) * gg
    BY Z3
  <1> HIDE DEF a, b, gg, kk
  <1>6. a * a <= b * b
    <2>1. a * a <= b * a /\ a * b <= b * b /\ a * b = b * a
      BY <1>1, Scaling
    <2> QED
      BY <1>1, <2>1
  <1>7. (a * a) * K <= (b * b) * K
    BY <1>1, <1>6, Scaling
  <1>8. (F * k * k * A) * gg <= (K * v * v) * gg
    BY <1>1, <1>2, <1>3, <1>4, <1>5, <1>7
  <1> QED
    BY <1>2, <1>3, <1>8, Scaling
-----------------------------------------------------------------------------
(***************************************************************************)
(* What fit_targets() decided stays with the target, and a tile's cutoff   *)
(* moves between its two grey levels.                                      *)
(***************************************************************************)
CanCover == Reachable(Rect(target, frame), frame, pattern)

FitInv ==
    /\ fisheye \in BOOLEAN
    /\ target \in get_targets(frame, fisheye) \cup {None}
    /\ phase = "picking" => fill_pct = 0
    /\ phase # "picking" => /\ target \in get_targets(frame, fisheye)
                            /\ fill_pct = Fitted(target.fill, CanCover)
                            /\ phase = "dropped" <=> Dropped(target, CanCover)

Phases == {"picking", "dropped", "fitted", "cutting", "cut", "looking", "found"}

Middle(h) == (h.black + h.white) \div 2

CutInv ==
    /\ phase \in Phases
    /\ tile \in Histograms \cup {None}
    /\ prediction \in 0..255 /\ passes \in 0..10
    /\ phase \in {"cutting", "cut"} => tile \in Histograms
    /\ phase = "cutting" => passes < 10
    /\ phase = "cutting" /\ Separable(tile) =>
          \/ prediction = Middle(tile)
          \/ tile.black < prediction /\ prediction <= tile.white
    /\ phase = "cut" /\ Separable(tile) => prediction = Middle(tile)

TilesInv == ViewInv /\ FitInv /\ CutInv

LEMMA TilesInit == Init => TilesInv
  <1> SUFFICES ASSUME Init PROVE TilesInv
    OBVIOUS
  <1>1. /\ phase = "picking" /\ fisheye \in BOOLEAN /\ target = None
        /\ fill_pct = 0 /\ tile = None /\ prediction = 0 /\ passes = 0
    BY DEF Init
  <1> QED
    BY <1>1, ViewInit DEF TilesInv, FitInv, CutInv, Phases

\* A step that leaves the target, or takes a new one, or gives it up.
LEMMA FitStep ==
    ASSUME FitInv, [Next]_vars
    PROVE  FitInv'
  <1> USE DEF FitInv, CanCover
  <1>1. ASSUME NEW t \in get_targets(frame, fisheye), Fit(t) PROVE FitInv'
    <2>1. /\ target' = t /\ UNCHANGED <<frame, fisheye, pattern>>
          /\ fill_pct' = Fitted(t.fill, Reachable(Rect(t, frame), frame, pattern))
          /\ phase' = IF Dropped(t, Reachable(Rect(t, frame), frame, pattern))
                      THEN "dropped" ELSE "fitted"
      BY <1>1 DEF Fit
    <2> QED
      BY <2>1 DEF Dropped
  <1>2. CASE PassOver
    BY <1>2 DEF PassOver
  <1>3. ASSUME NEW h \in Histograms, SeeTile(h) PROVE FitInv'
    BY <1>3 DEF SeeTile
  <1>4. CASE Pass
    <2>1. /\ UNCHANGED <<frame, fisheye, pattern, target, fill_pct>>
          /\ phase = "cutting" /\ phase' \in {"cutting", "cut"}
      BY <1>4 DEF Pass
    <2> QED
      BY <2>1
  <1>5. CASE Look
    BY <1>5 DEF Look
  <1>6. CASE phase = "looking" /\ Held
    <2>1. PICK v : Find(v)
      BY <1>6 DEF Held
    <2> QED
      BY <2>1 DEF Find
  <1>7. CASE Judge
    BY <1>7 DEF Judge
  <1>8. CASE UNCHANGED vars
    BY <1>8 DEF vars
  <1> QED
    BY <1>1, <1>2, <1>3, <1>4, <1>5, <1>6, <1>7, <1>8 DEF Next

LEMMA Weighted ==
    ASSUME NEW h \in Histograms
    PROVE  LET mean == Weight(h) \div Total(h)
           IN  /\ mean \in h.black..h.white
               /\ Separable(h) => h.black < mean
  <1> DEFINE b == h.black
             w == h.white
             x == h.blacks
             y == h.whites
             n == x + y
             s == x * b + y * w
             mean == s \div n
  <1>1. /\ b \in 0..255 /\ w \in 0..255 /\ b < w
        /\ x \in Nat /\ y \in Nat /\ n > 0 /\ n \in Nat
    BY ViewAssumption
  <1>2. Total(h) = n /\ Weight(h) = s
    BY DEF Total, Weight
  <1>3. Separable(h) => y * (w - b) >= n
    BY <1>2 DEF Separable
  <1> HIDE DEF b, w, x, y
  <1>4. s = b * n + y * (w - b) /\ s = w * n - x * (w - b)
    BY <1>1, Z3
  <1>5. y * (w - b) >= 0 /\ x * (w - b) >= 0
    BY <1>1, Z3
  <1>6. /\ b * n \in Int /\ w * n \in Int /\ (b + 1) * n = b * n + n
        /\ y * (w - b) \in Int /\ x * (w - b) \in Int /\ s \in Int
    BY <1>1, Z3
  <1>7. mean \in Int /\ n * mean <= s /\ s < n * mean + n
    BY <1>1, <1>6, Dividing
  <1> HIDE DEF mean, n, s
  <1>8. n * mean = mean * n /\ n * mean + n = (mean + 1) * n
        /\ mean * n \in Int /\ (mean + 1) * n \in Int
    BY <1>1, <1>7, Z3
  <1>9. b <= mean
    <2>1. SUFFICES ASSUME mean + 1 <= b PROVE FALSE
      BY <1>1, <1>7
    <2>2. (mean + 1) * n <= b * n
      BY <1>1, <1>7, <2>1, Scaling
    <2> QED
      BY <1>4, <1>5, <1>6, <1>7, <1>8, <2>2
  <1>10. mean <= w
    <2>1. mean * n <= w * n
      BY <1>4, <1>5, <1>6, <1>7, <1>8
    <2> QED
      BY <1>1, <1>7, <2>1, Scaling
  <1>11. ASSUME Separable(h) PROVE b < mean
    <2>1. SUFFICES ASSUME mean + 1 <= b + 1 PROVE FALSE
      BY <1>1, <1>7
    <2>2. (mean + 1) * n <= (b + 1) * n
      BY <1>1, <1>7, <2>1, Scaling
    <2> QED
      BY <1>1, <1>3, <1>4, <1>6, <1>7, <1>8, <1>11, <2>2
  <1>12. mean \in b..w
    BY <1>1, <1>7, <1>9, <1>10
  <1> QED
    BY <1>2, <1>11, <1>12 DEF mean, b, w, n, s

\* A cutoff between the two levels separates them, and the midpoint of the two
\* class means is then the midpoint of the levels, whatever their weights.
LEMMA MidpointIsMiddle ==
    ASSUME NEW h \in Histograms, NEW p \in Int, ~OneClass(h, p)
    PROVE  Midpoint(h, p) = Middle(h)
  <1>1. /\ h.black \in 0..255 /\ h.white \in 0..255 /\ h.black < h.white
        /\ h.blacks \in Nat /\ h.whites \in Nat
    BY ViewAssumption
  <1>2. CountBelow(h, p) # 0 /\ CountBelow(h, p) # Total(h)
    BY DEF OneClass
  <1>3. h.black < p /\ ~(h.white < p)
    <2>1. h.white < p => h.black < p
      <3>1. ASSUME NEW x \in Nat, NEW y \in Nat, x < y, y < p
            PROVE  x < p
        BY <3>1
      <3>2. h.black \in Nat /\ h.white \in Nat /\ h.black < h.white
        BY <1>1
      <3> QED
        BY <3>1, <3>2
    <2>2. h.white < p => CountBelow(h, p) = Total(h)
      BY <2>1 DEF CountBelow, Total
    <2>3. ~(h.black < p) => CountBelow(h, p) = 0
      BY <2>1 DEF CountBelow
    <2> QED
      BY <1>2, <2>2, <2>3
  <1>4. CountBelow(h, p) = h.blacks /\ WeightBelow(h, p) = h.blacks * h.black
    <2>1. h.blacks * h.black \in Int
      BY <1>1
    <2> QED
      BY <1>1, <1>3, <2>1 DEF CountBelow, WeightBelow
  <1>5. h.blacks > 0 /\ h.whites > 0
    BY <1>1, <1>2, <1>4 DEF Total
  <1>6. Total(h) - CountBelow(h, p) = h.whites
        /\ Weight(h) - WeightBelow(h, p) = h.whites * h.white
    <2>1. h.blacks * h.black \in Int /\ h.whites * h.white \in Int
      BY <1>1
    <2> QED
      BY <1>1, <1>4, <2>1 DEF Total, Weight
  <1>7. ASSUME NEW n \in Nat \ {0}, NEW v \in Nat
        PROVE  (n * v) \div n = v
    <2> DEFINE q == (n * v) \div n
    <2>1. n * v \in Int /\ q \in Int /\ n * q <= n * v /\ n * v < n * q + n
      BY Dividing
    <2> HIDE DEF q
    <2>2. n * q = q * n /\ n * v = v * n /\ n * q + n = (q + 1) * n
      BY <2>1, Z3
    <2>3. q <= v
      BY <2>1, <2>2, Scaling
    <2>4. ~(q + 1 <= v)
      <3>1. q + 1 <= v => (q + 1) * n <= v * n
        BY <2>1, Scaling
      <3>2. (q + 1) * n \in Int /\ v * n \in Int
        BY <2>1
      <3> QED
        BY <2>1, <2>2, <3>1, <3>2
    <2> QED
      BY <2>1, <2>3, <2>4 DEF q
  <1>8. (h.blacks * h.black) \div h.blacks = h.black
        /\ (h.whites * h.white) \div h.whites = h.white
    <2>1. /\ h.blacks \in Nat \ {0} /\ h.whites \in Nat \ {0}
          /\ h.black \in Nat /\ h.white \in Nat
      BY <1>1, <1>5
    <2> QED
      BY <2>1, <1>7
  <1> QED
    BY <1>4, <1>6, <1>8 DEF Midpoint, Middle

LEMMA CutStep ==
    ASSUME CutInv, [Next]_vars
    PROVE  CutInv'
  <1> USE DEF CutInv, Phases
  <1>1. ASSUME NEW t \in get_targets(frame, fisheye), Fit(t) PROVE CutInv'
    <2>1. phase' \in {"dropped", "fitted"} /\ UNCHANGED <<tile, prediction, passes>>
      BY <1>1 DEF Fit
    <2> QED
      BY <2>1
  <1>2. CASE PassOver
    BY <1>2 DEF PassOver
  <1>3. ASSUME NEW h \in Histograms, SeeTile(h) PROVE CutInv'
    <2>1. /\ phase' = "cutting" /\ tile' = h /\ passes' = 0
          /\ prediction' = Weight(h) \div Total(h)
      BY <1>3 DEF SeeTile
    <2>2. h.black \in 0..255 /\ h.white \in 0..255
      BY ViewAssumption
    <2>3. /\ prediction' \in 0..255 /\ prediction' <= h.white
          /\ Separable(h) => h.black < prediction'
      BY <2>1, <2>2, Weighted
    <2> QED
      BY <2>1, <2>3
  <1>4. CASE Pass
    <2> DEFINE p == Within(prediction, 1, 255)
               next == IF OneClass(tile, p) THEN prediction ELSE Midpoint(tile, p)
    <2>1. /\ phase = "cutting" /\ UNCHANGED tile
          /\ prediction' = next /\ passes' = passes + 1
          /\ phase' = IF OneClass(tile, p) \/ next - prediction \in -2..2
                            \/ passes' = 10
                      THEN "cut" ELSE "cutting"
      BY <1>4 DEF Pass
    <2>2. /\ tile.black \in 0..255 /\ tile.white \in 0..255
          /\ tile.black < tile.white /\ tile \in Histograms
          /\ tile.blacks \in Nat /\ tile.whites \in Nat
          /\ tile.blacks + tile.whites > 0
      BY <2>1, ViewAssumption
    <2>3. p \in Int
      BY DEF Within, Lesser, Greater
    <2>4. next \in {prediction, Middle(tile)}
      BY <2>2, <2>3, MidpointIsMiddle
    <2>5. Middle(tile) \in 0..255
      <3>1. ASSUME NEW x \in 0..255, NEW y \in 0..255
            PROVE  (x + y) \div 2 \in 0..255
        OBVIOUS
      <3> QED
        BY <2>2, <3>1 DEF Middle
    <2>6. ASSUME Separable(tile) PROVE next = Middle(tile)
      <3>1. CASE prediction = Middle(tile)
        BY <2>4, <3>1
      <3>2. CASE tile.black < prediction /\ prediction <= tile.white
        <4>1. p = prediction
          BY <2>2, <3>2 DEF Within, Lesser, Greater
        <4>2. tile.blacks > 0 /\ tile.whites > 0
          <5> DEFINE d == tile.white - tile.black
                     n == Total(tile)
                     y == tile.whites
          <5>1. tile.blacks > 0 /\ y * d >= n
            BY <2>6 DEF Separable
          <5>2. n \in Nat /\ n > 0 /\ d \in Int /\ y \in Nat
            <6>1. tile.white \in Int /\ tile.black \in Int
              BY <2>2
            <6>2. n = tile.blacks + tile.whites
              BY DEF Total
            <6>3. n \in Nat /\ n > 0
              BY <2>2, <6>2
            <6> QED
              BY <2>2, <6>1, <6>3
          <5> HIDE DEF d, n, y
          <5>3. y > 0
            BY <5>1, <5>2, Z3
          <5> QED
            BY <5>1, <5>3 DEF y
        <4>3. CountBelow(tile, p) = tile.blacks
          BY <2>2, <3>2, <4>1 DEF CountBelow
        <4>4. ~OneClass(tile, p)
          BY <2>2, <4>2, <4>3 DEF OneClass, Total
        <4> QED
          BY <2>2, <2>3, <4>4, MidpointIsMiddle
      <3> QED
        BY <2>1, <2>6, <3>1, <3>2
    <2> HIDE DEF next, p
    <2>7. prediction' \in 0..255
      BY <2>1, <2>4, <2>5
    <2>8. passes' \in 0..10 /\ (phase' = "cutting" => passes' < 10)
      BY <2>1
    <2>9. Separable(tile) => prediction' = Middle(tile')
      BY <2>1, <2>6
    <2>10. phase' \in {"cutting", "cut"}
      BY <2>1
    <2> QED
      BY <2>1, <2>2, <2>7, <2>8, <2>9, <2>10
  <1>5. CASE Look
    BY <1>5 DEF Look
  <1>6. CASE phase = "looking" /\ Held
    <2>1. PICK v : Find(v)
      BY <1>6 DEF Held
    <2> QED
      BY <2>1 DEF Find
  <1>7. CASE Judge
    <2>1. phase' \in {"picking", "fitted"} /\ UNCHANGED <<tile, prediction, passes>>
      BY <1>7 DEF Judge
    <2> QED
      BY <2>1
  <1>8. CASE UNCHANGED vars
    BY <1>8 DEF vars
  <1> QED
    BY <1>1, <1>2, <1>3, <1>4, <1>5, <1>6, <1>7, <1>8 DEF Next

LEMMA TilesInvariant == Spec => []TilesInv
  <1>1. TilesInv /\ [Next]_vars => TilesInv'
    BY ViewNext, FitStep, CutStep DEF TilesInv
  <1> QED
    BY TilesInit, <1>1, PTL DEF Spec
-----------------------------------------------------------------------------
LEMMA TargetInView ==
    ASSUME TilesInv, phase # "picking"
    PROVE  /\ Box(Rect(target, frame), frame)
           /\ pattern.a \in Nat \ {0} /\ pattern.b \in Nat \ {0}
           /\ target.fill \in 0..100
  <1>1. /\ target \in EntryType /\ frame \in [w : Nat, h : Nat]
        /\ pattern.a \in Nat \ {0} /\ pattern.b \in Nat \ {0}
    BY ViewAssumption DEF TilesInv, ViewInv
  <1>2. Box(Rect(target, frame), frame)
    BY <1>1, RectTyped DEF Box
  <1>3. target.fill \in 0..100
    BY <1>1 DEF EntryType, Percents
  <1> QED
    BY <1>1, <1>2, <1>3

LEMMA TilesTyped == TilesInv => TypeOK
  <1> SUFFICES ASSUME TilesInv PROVE TypeOK
    OBVIOUS
  <1>1. fill_pct \in 0..100
    <2>1. CASE phase = "picking"
      BY <2>1 DEF TilesInv, FitInv
    <2>2. CASE phase # "picking"
      <3>1. CanCover \in Nat /\ target.fill \in 0..100
        BY <2>2, TargetInView, ReachableMeaning DEF CanCover
      <3>2. fill_pct = Fitted(target.fill, CanCover)
        BY <2>2 DEF TilesInv, FitInv
      <3> QED
        BY <3>1, <3>2 DEF Fitted
    <2> QED
      BY <2>1, <2>2
  <1> QED
    BY <1>1 DEF TilesInv, ViewInv, FitInv, CutInv, Phases, TypeOK

\* Types: every fill is a percentage and every cutoff a grey level, and the loop
\* ends within its ten passes.
THEOREM TypeCorrect == Spec => []TypeOK
  BY TilesInvariant, TilesTyped, PTL

-----------------------------------------------------------------------------
\* A placement of the board on a grid is a square that passes both axes.
LEMMA BoardOnGrid ==
    ASSUME NEW r, Box(r, frame), pattern.a \in Nat \ {0}, pattern.b \in Nat \ {0},
           NEW u \in Nat, NEW g \in Nat \ {0}
    PROVE  BoardPlaceable(u, r, g) <=> FitsBoth(<<u, g>>, r, frame, pattern)
  BY PlacedOnGrid DEF BoardPlaceable, FitsBoth, Box

LEMMA KeptIsReachable == TilesInv => KeptTargetIsReachable
  <1> SUFFICES ASSUME TilesInv, phase = "fitted"
               PROVE  KeptTargetIsReachable
    BY DEF KeptTargetIsReachable
  <1> DEFINE r == Rect(target, frame)
             R == Reachable(r, frame, pattern)
             v == LargestSquare(r, frame, pattern)
             u == v[1]
             g == v[2]
             ab == pattern.a * pattern.b
  <1>1. /\ Box(r, frame) /\ pattern.a \in Nat \ {0} /\ pattern.b \in Nat \ {0}
        /\ target.fill \in 0..100
    BY TargetInView
  <1>2. /\ v \in Ratios /\ g \in 1..(Greater(pattern.a, pattern.b) + 2)
        /\ FitsBoth(v, r, frame, pattern)
        /\ r.x1 < r.x2 /\ r.y1 < r.y2 => u > 0
    BY <1>1, LargestFits
  <1>3. v = <<u, g>> /\ u \in Nat /\ g \in Nat \ {0}
    BY <1>2 DEF Ratios
  <1>4. R \in Nat /\ R >= FillFloor /\ fill_pct \in Nat /\ fill_pct <= R
    <2>1. R \in Nat
      BY <1>1, ReachableMeaning
    <2>2. ~Dropped(target, R) /\ fill_pct = Fitted(target.fill, R)
      BY DEF TilesInv, FitInv, CanCover
    <2> HIDE DEF R
    <2> QED
      BY <1>1, <2>1, <2>2, ViewAssumption DEF Dropped, Fitted
  <1>5. BoxArea(r) \in Nat /\ BoxArea(r) > 0
    <2>1. BoxArea(r) \in Nat
      BY <1>1, AreaTyped
    <2>2. BoxArea(r) # 0
      BY <1>1, <1>4, ReachableMeaning, ViewAssumption
    <2> QED
      BY <2>1, <2>2
  <1>6. u > 0
    BY <1>1, <1>2, <1>5, AreaTyped
  <1>7. Headroom * pattern.a * pattern.b * u * u >= fill_pct * g * g * BoxArea(r)
    BY <1>1, <1>4, <1>5, ReachableMeaning
  <1>8. BoardPlaceable(u, r, g)
    BY <1>1, <1>2, <1>3, BoardOnGrid
  <1>9. u * pattern.a <= frame.w * g /\ u * pattern.b <= frame.h * g
    <2>1. /\ u * pattern.a <= (r.x2 - r.x1) * g
          /\ u * pattern.b <= (r.y2 - r.y1) * g
      BY <1>2, <1>3 DEF FitsBoth, Fits, AtMost
    <2>2. /\ (r.x2 - r.x1) * g <= frame.w * g
          /\ (r.y2 - r.y1) * g <= frame.h * g
      <3>1. /\ r.x2 - r.x1 \in Int /\ r.x2 - r.x1 <= frame.w /\ frame.w \in Int
            /\ r.y2 - r.y1 \in Int /\ r.y2 - r.y1 <= frame.h /\ frame.h \in Int
        BY <1>1 DEF Box
      <3> QED
        BY <1>3, <3>1, Scaling
    <2>3. /\ u * pattern.a \in Int /\ u * pattern.b \in Int
          /\ (r.x2 - r.x1) * g \in Int /\ (r.y2 - r.y1) * g \in Int
          /\ frame.w * g \in Int /\ frame.h * g \in Int
      BY <1>1, <1>3 DEF Box
    <2> QED
      BY <2>1, <2>2, <2>3
  <1> HIDE DEF r, R, v, u, g
  <1>10. u \in Squares(g)
    <2> DEFINE W == g * frame.w
               H == g * frame.h
    <2>1. frame.w \in Nat /\ frame.h \in Nat
      BY <1>1 DEF Box
    <2>2. /\ W \in Int /\ H \in Int
          /\ pattern.a * u <= W /\ pattern.b * u <= H
      <3>1. /\ W = frame.w * g /\ H = frame.h * g
            /\ pattern.a * u = u * pattern.a /\ pattern.b * u = u * pattern.b
        BY <1>1, <1>3, <2>1, Z3
      <3>2. W \in Int /\ H \in Int
        BY <1>3, <2>1
      <3> QED
        BY <1>9, <3>1, <3>2
    <2>3. Squares(g) = 1..Lesser(W \div pattern.a, H \div pattern.b)
      BY DEF Squares
    <2> HIDE DEF W, H
    <2>4. u <= W \div pattern.a /\ u <= H \div pattern.b
      BY <1>1, <1>3, <2>2, SquareBound
    <2>5. W \div pattern.a \in Int /\ H \div pattern.b \in Int
      BY <1>1, <2>2, Dividing
    <2> QED
      BY <1>3, <1>6, <2>3, <2>4, <2>5 DEF Lesser
  <1>11. Covers(u, r, g, 100, fill_pct)
    <2> DEFINE k == ab * u * u
               n == fill_pct * g * g * BoxArea(r)
    <2>1. ab \in Nat
      BY <1>1
    <2>2. /\ Headroom * pattern.a * pattern.b * u * u = 85 * k
          /\ 100 * pattern.a * pattern.b * u * u = 100 * k
      BY <1>1, <1>3, Z3 DEF Headroom
    <2>3. k \in Nat /\ n \in Int
      BY <1>3, <1>4, <1>5, <2>1
    <2> HIDE DEF ab, k, n
    <2>4. 100 * k >= n
      BY <1>7, <2>2, <2>3 DEF n
    <2> QED
      BY <2>2, <2>4 DEF Covers, n
  <1>12. g \in 1..(Greater(pattern.a, pattern.b) + 2)
    BY <1>2
  <1> QED
    BY <1>8, <1>10, <1>11, <1>12 DEF KeptTargetIsReachable, r

\* A target that is kept can be completed, for every frame, board and target:
\* a placement on the grid of the binding limit meets its fitted threshold.
THEOREM KeptTargetsAreReachable == Spec => []KeptTargetIsReachable
  BY TilesInvariant, KeptIsReachable, PTL

-----------------------------------------------------------------------------
\* What is dropped could not be met, with the headroom kept, by a square of any
\* size at all, on however fine a grid.
NoneDroppedOnAnyGrid ==
    phase = "dropped" =>
        LET r == Rect(target, frame)
        IN  \A g \in Nat \ {0} : \A u \in Nat \ {0} :
                Covers(u, r, g, Headroom, FillFloor) => ~BoardPlaceable(u, r, g)

LEMMA DroppedIsHopeless == TilesInv => NoneDroppedOnAnyGrid
  <1> SUFFICES ASSUME TilesInv, phase = "dropped",
                      NEW g \in Nat \ {0}, NEW u \in Nat \ {0},
                      Covers(u, Rect(target, frame), g, Headroom, FillFloor),
                      BoardPlaceable(u, Rect(target, frame), g)
               PROVE  FALSE
    BY DEF NoneDroppedOnAnyGrid
  <1> DEFINE r == Rect(target, frame)
             R == Reachable(r, frame, pattern)
             v == LargestSquare(r, frame, pattern)
             K == Headroom * pattern.a * pattern.b
             A == BoxArea(r)
  <1>1. /\ Box(r, frame) /\ pattern.a \in Nat \ {0} /\ pattern.b \in Nat \ {0}
    BY TargetInView
  <1>2. R \in Nat /\ R < FillFloor
    <2>1. R \in Nat
      BY <1>1, ReachableMeaning
    <2>2. Dropped(target, R)
      BY DEF TilesInv, FitInv, CanCover
    <2> QED
      BY <2>1, <2>2 DEF Dropped
  <1>3. FitsBoth(<<u, g>>, r, frame, pattern)
    BY <1>1, BoardOnGrid
  <1>4. A \in Nat /\ (A > 0 <=> r.x1 < r.x2 /\ r.y1 < r.y2)
    BY <1>1, AreaTyped
  <1>5. v \in Ratios /\ AtMost(<<u, g>>, v)
    <2>1. <<u, g>> \in Ratios
      BY DEF Ratios
    <2> QED
      BY <1>1, <1>3, <2>1, LargestFits
  <1>6. v[1] \in Nat /\ v[2] \in Nat \ {0} /\ u * v[2] <= v[1] * g
    BY <1>5 DEF Ratios, AtMost
  <1>7. A > 0
    <2>1. u * pattern.a <= (r.x2 - r.x1) * g /\ u * pattern.b <= (r.y2 - r.y1) * g
      BY <1>3 DEF FitsBoth, Fits, AtMost
    <2>2. ASSUME NEW m \in Nat \ {0}, NEW d \in Nat, u * m <= d * g
          PROVE  d > 0
      <3>1. u * m > 0
        BY Z3
      <3>2. d = 0 => d * g = 0
        BY Z3
      <3>3. u * m \in Int /\ d * g \in Int
        OBVIOUS
      <3> QED
        BY <2>2, <3>1, <3>2, <3>3
    <2>3. r.x2 - r.x1 \in Nat /\ r.y2 - r.y1 \in Nat
      BY <1>1 DEF Box
    <2>4. r.x2 - r.x1 > 0 /\ r.y2 - r.y1 > 0
      BY <1>1, <2>1, <2>2, <2>3
    <2>5. r.x1 < r.x2 /\ r.y1 < r.y2
      BY <1>1, <2>4 DEF Box
    <2> QED
      BY <1>4, <2>5
  <1>8. ~(K * v[1] * v[1] >= FillFloor * v[2] * v[2] * A)
    <2>1. FillFloor \in Nat /\ ~(FillFloor <= R)
      BY <1>2, ViewAssumption
    <2> QED
      BY <1>1, <1>7, <2>1, ReachableMeaning
  <1>9. K * u * u >= FillFloor * g * g * A
    BY DEF Covers
  <1>10. K \in Nat /\ FillFloor \in Nat
    BY <1>1, ViewAssumption DEF Headroom
  <1> DEFINE x == v[1]
             k == v[2]
             F == FillFloor
  <1>11. x \in Nat /\ k \in Nat \ {0} /\ u * k <= x * g
    BY <1>6
  <1>12. K * u * u >= F * g * g * A /\ ~(K * x * x >= F * k * k * A)
    BY <1>8, <1>9
  <1>13. K \in Nat /\ F \in Nat /\ A \in Nat
    BY <1>4, <1>10
  <1> HIDE DEF K, A, v, x, k, F
  <1>14. u \in Nat /\ g \in Nat \ {0}
    OBVIOUS
  <1>15. K * x * x >= F * k * k * A
    BY <1>11, <1>12, <1>13, <1>14, CoversNoMore
  <1> QED
    BY <1>12, <1>15

\* No target is dropped that some square could still complete at the floor.
THEOREM NoTargetDroppedInVain == Spec => [](NoneDroppedOnAnyGrid /\ NoneDroppedInVain)
  <1>1. TilesInv => NoneDroppedOnAnyGrid /\ NoneDroppedInVain
    <2>1. Squares(Grid) \subseteq Nat \ {0} /\ Grid \in Nat \ {0}
      BY DEF Squares, Grid
    <2>2. NoneDroppedOnAnyGrid => NoneDroppedInVain
      BY <2>1 DEF NoneDroppedOnAnyGrid, NoneDroppedInVain
    <2> QED
      BY <2>2, DroppedIsHopeless
  <1> QED
    BY TilesInvariant, <1>1, PTL

-----------------------------------------------------------------------------
\* Every tile of two levels that has enough white to move its mean is cut
\* midway between them, whatever the weights of the two.
THEOREM TilesAreCutMidway == Spec => []CutsMidway
  <1>1. TilesInv => CutsMidway
    BY DEF TilesInv, CutInv, CutsMidway, Cutoff, Middle
  <1> QED
    BY TilesInvariant, <1>1, PTL
=============================================================================
