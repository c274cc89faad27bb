------------------------------ MODULE Detector ------------------------------
(***************************************************************************)
(* One stream's marker detector (src/src/detector.cpp): the intrinsics it  *)
(* settles when it first sees a frame size, the rectification maps, and    *)
(* the gates a decoded marker passes. What OpenCV computes is external: a  *)
(* marker is the set of gates it would fail, a rectified camera matrix is  *)
(* remembered by what it was computed from.                                *)
(*                                                                         *)
(* A frame size is one number, its width: the code treats the two axes     *)
(* alike and separately.                                                   *)
(***************************************************************************)
EXTENDS Integers, FiniteSets

CONSTANTS
    Sizes,        \* frame widths the source may negotiate, over time
    CalibWidth,   \* camera.calib_width, 0 = intrinsics fit any frame
    Undistort,    \* camera.undistort
    Fisheye,      \* camera.distortion_model = "fisheye"
    Markers,      \* what may be decoded: each a set of gates it would fail
    MaxPerFrame,  \* TLC bound: markers decoded in one frame
    MaxDecoded,   \* TLC bound: markers decoded between two stats lines
    MaxResizes    \* TLC bound: changes of the frame size

Gates == {"id", "corners", "size", "pnp", "range", "reproj"}

ASSUME DetectorAssumption ==
    /\ Sizes \subseteq Nat \ {0} /\ Sizes # {}
    /\ CalibWidth \in Nat
    /\ Undistort \in BOOLEAN /\ Fisheye \in BOOLEAN
    /\ Markers \subseteq SUBSET Gates
    /\ MaxPerFrame \in Nat /\ MaxDecoded \in Nat /\ MaxResizes \in Nat

VARIABLES
    initialized_,
    frame_w_,      \* the size lazyInit last ran for
    K_raw_,        \* the configured focal length times num / den
    K_solve_,      \* what solvePnP gets: a K_raw_, and the size it is for
    dist_solve_,   \* the coefficients solvePnP gets with it
    maps,          \* the size map1_, map2_ were built for, 0 = empty
    stats_,        \* how many markers met each fate, and how many decoded
    solved_at,     \* history: width of the frame last solved, 0 before it
    resizes        \* history: changes of the negotiated size

vars == <<initialized_, frame_w_, K_raw_, K_solve_, dist_solve_, maps,
          stats_, solved_at, resizes>>

Fates == {"id", "pnp", "range", "reproj", "accepted"}
NoStats == [f \in Fates \cup {"decoded"} |-> 0]

Scale == [num : Nat \ {0}, den : Nat \ {0}]
Unscaled == [num |-> 1, den |-> 1]

TypeOK ==
    /\ initialized_ \in BOOLEAN
    /\ frame_w_ \in Nat /\ maps \in Nat /\ solved_at \in Nat
    /\ K_raw_ \in Scale
    /\ K_solve_ \in [k : Scale, at : Nat]
    /\ dist_solve_ \in {"pinhole", "fisheye", "zero"}
    /\ stats_ \in [Fates \cup {"decoded"} -> Nat]
    /\ resizes \in Nat

Configured == IF Fisheye THEN "fisheye" ELSE "pinhole"

Init ==
    /\ initialized_ = FALSE
    /\ frame_w_ = 0 /\ maps = 0
    /\ K_raw_ = Unscaled
    /\ K_solve_ = [k |-> Unscaled, at |-> 0]
    /\ dist_solve_ = Configured
    /\ stats_ = NoStats
    /\ solved_at = 0 /\ resizes = 0

-----------------------------------------------------------------------------
\* MUTANT of NeedsInit: the size is settled once and for all.
NeedsInitOnce(w) == ~initialized_

\* MUTANT of NeedsInit: the intrinsics are settled on every frame.
NeedsInitAlways(w) == TRUE

NeedsInit(w) == ~initialized_ \/ w # frame_w_

\* K_raw_ *= frame / calib, on whatever K_raw_ holds.
Rescaled(w) ==
    IF CalibWidth > 0 /\ CalibWidth # w
    THEN [num |-> K_raw_.num * w, den |-> K_raw_.den * CalibWidth]
    ELSE K_raw_

\* With undistort the maps are rebuilt and the rectified matrix, made from
\* K_raw_ for this size, goes to solvePnP with no distortion left.
lazyInit(w) ==
    /\ initialized_' = TRUE
    /\ frame_w_' = w
    /\ K_raw_' = Rescaled(w)
    /\ K_solve_' = [k |-> Rescaled(w), at |-> w]
    /\ IF Undistort
       THEN dist_solve_' = "zero" /\ maps' = w
       ELSE dist_solve_' = Configured /\ UNCHANGED maps

-----------------------------------------------------------------------------
\* MUTANT of Meets: gates count without dropping.
MeetsWithoutContinue(m, f) == f \in m \/ f = "accepted"

\* The gates in the code's order: the first one a marker fails drops it. A
\* marker without four corners or a positive size is dropped uncounted.
Meets(m, f) ==
    \/ f = "id" /\ "id" \in m
    \/ /\ m \cap {"id", "corners", "size"} = {}
       /\ \/ f = "pnp" /\ "pnp" \in m
          \/ f = "range" /\ "range" \in m /\ "pnp" \notin m
          \/ f = "reproj" /\ m = {"reproj"}
          \/ f = "accepted" /\ m = {}

\* stats_ after a frame in which n[m] markers of kind m were decoded.
Counted(n) ==
    [f \in DOMAIN stats_ |->
        stats_[f] + Cardinality({x \in Markers \X (1..MaxPerFrame) :
                          /\ x[2] <= n[x[1]]
                          /\ f = "decoded" \/ Meets(x[1], f)})]

\* detect() on a frame of width w. The worker skips or sends the result; the
\* detector's state afterwards does not depend on which.
detect(w, n) ==
    /\ IF NeedsInit(w)
       THEN lazyInit(w)
       ELSE UNCHANGED <<initialized_, frame_w_, K_raw_, K_solve_,
                        dist_solve_, maps>>
    /\ stats_' = Counted(n)
    /\ stats_'["decoded"] <= MaxDecoded
    /\ solved_at' = w
    /\ resizes' = IF solved_at \in {0, w} THEN resizes ELSE resizes + 1
    /\ resizes' <= MaxResizes

takeStats ==
    /\ stats_' = NoStats
    /\ UNCHANGED <<initialized_, frame_w_, K_raw_, K_solve_, dist_solve_,
                   maps, solved_at, resizes>>

Next ==
    \/ \E w \in Sizes, n \in [Markers -> 0..MaxPerFrame] : detect(w, n)
    \/ takeStats

Spec == Init /\ [][Next]_vars

-----------------------------------------------------------------------------
\* Every pose is solved with the matrix, and remapped with the maps, made for
\* the size of its own frame, however often the size changes.
SolvesAtFrameSize ==
    solved_at # 0 => /\ K_solve_.at = solved_at
                     /\ maps = (IF Undistort THEN solved_at ELSE 0)

\* Every decoded marker met exactly one fate, so the stats line's accepted
\* and rejected add up, whichever gates a marker would fail. Markers with no
\* size are excluded: validate() refuses a configuration that has them.
CandidatesAccounted ==
    stats_["decoded"] = stats_["id"] + stats_["pnp"] + stats_["range"]
                        + stats_["reproj"] + stats_["accepted"]

\* detector.cpp:52: "Intrinsics scale linearly with resolution. Correct for a
\* mismatch". The matrix in use is the configured one at the frame's scale.
IntrinsicsMatchFrame ==
    solved_at # 0 /\ CalibWidth > 0
    => K_solve_.k.num * CalibWidth = solved_at * K_solve_.k.den

\* Up to the first change of the frame size they do fit, on every frame.
FirstSizeIsRight == resizes = 0 => IntrinsicsMatchFrame
=============================================================================
