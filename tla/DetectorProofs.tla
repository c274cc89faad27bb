--------------------------- MODULE DetectorProofs ---------------------------
(***************************************************************************)
(* Theorems about Detector, for any frame sizes, calibration and markers.  *)
(***************************************************************************)
EXTENDS Detector, FiniteSetTheorems, TLAPS

(***************************************************************************)
(* What a solve relies on. The size lazyInit last ran for is the size last *)
(* solved, and before any solve nothing has been rescaled or built: that   *)
(* is why the first size gets its factor once. IntrinsicsMatchFrame is     *)
(* claimed only while the size has never changed.                          *)
(***************************************************************************)
Unsettled ==
    /\ solved_at = 0 /\ maps = 0 /\ resizes = 0
    /\ K_raw_ = Unscaled

Settled ==
    /\ solved_at \in Sizes /\ frame_w_ = solved_at
    /\ K_solve_.at = solved_at
    /\ maps = (IF Undistort THEN solved_at ELSE 0)
    /\ resizes = 0 /\ CalibWidth > 0
       => K_solve_.k.num * CalibWidth = solved_at * K_solve_.k.den

IntrinsicsInv ==
    /\ resizes \in Nat
    /\ initialized_ \in BOOLEAN
    /\ initialized_ => Settled
    /\ ~initialized_ => Unsettled

LEMMA FirstFactor ==
    ASSUME NEW w \in Sizes, K_raw_ = Unscaled, CalibWidth > 0
    PROVE  Rescaled(w).num * CalibWidth = w * Rescaled(w).den
  <1>1. w \in Nat /\ CalibWidth \in Nat
    BY DetectorAssumption
  <1>2. CASE CalibWidth = w
    BY <1>1, <1>2 DEF Rescaled, Unscaled
  <1>3. CASE CalibWidth # w
    BY <1>1, <1>3 DEF Rescaled, Unscaled
  <1> QED
    BY <1>2, <1>3

LEMMA IntrinsicsInit == Init => IntrinsicsInv
  <1> SUFFICES ASSUME Init
               PROVE  IntrinsicsInv
    OBVIOUS
  <1>1. initialized_ \in BOOLEAN /\ ~initialized_
    BY Zenon DEF Init
  <1>2. resizes \in Nat /\ Unsettled
    BY DEF Init, Unsettled
  <1> QED
    BY <1>1, <1>2 DEF IntrinsicsInv

LEMMA IntrinsicsNext == IntrinsicsInv /\ [Next]_vars => IntrinsicsInv'
  <1> SUFFICES ASSUME IntrinsicsInv, [Next]_vars
               PROVE  IntrinsicsInv'
    OBVIOUS
  <1>1. ASSUME NEW w \in Sizes, NEW n, detect(w, n)
        PROVE  IntrinsicsInv'
    <2>1. w \in Nat \ {0} /\ solved_at' = w
      BY <1>1, DetectorAssumption DEF detect
    <2>2. CASE initialized_ /\ w = frame_w_
      <3>1. UNCHANGED <<initialized_, frame_w_, K_solve_, maps, resizes>>
        BY <1>1, <2>1, <2>2 DEF detect, NeedsInit, IntrinsicsInv, Settled
      <3> QED
        BY <2>1, <2>2, <3>1 DEF IntrinsicsInv, Settled
    <2>3. CASE initialized_ /\ w # frame_w_
      <3>1. /\ initialized_' /\ frame_w_' = w
            /\ K_solve_' = [k |-> Rescaled(w), at |-> w]
            /\ maps' = IF Undistort THEN w ELSE maps
        BY <1>1, <2>3 DEF detect, NeedsInit, lazyInit
      <3>2. resizes' \in Nat /\ resizes' # 0
        BY <1>1, <2>3, DetectorAssumption
        DEF detect, IntrinsicsInv, Settled
      <3>3. maps' = (IF Undistort THEN w ELSE 0)
        BY <2>3, <3>1 DEF IntrinsicsInv, Settled
      <3>4. Settled'
        BY <2>1, <3>1, <3>2, <3>3 DEF Settled
      <3> QED
        BY <3>1, <3>2, <3>4, <1>1, <2>3
        DEF IntrinsicsInv, detect, NeedsInit, lazyInit
    <2>4. CASE ~initialized_
      <3>1. /\ initialized_' /\ frame_w_' = w
            /\ K_solve_' = [k |-> Rescaled(w), at |-> w]
            /\ maps' = IF Undistort THEN w ELSE maps
        BY <1>1, <2>4 DEF detect, NeedsInit, lazyInit
      <3>2. resizes' = resizes
        BY <1>1, <2>4 DEF detect, IntrinsicsInv, Unsettled
      <3>3. CalibWidth > 0
            => Rescaled(w).num * CalibWidth = w * Rescaled(w).den
        BY <2>4, FirstFactor DEF IntrinsicsInv, Unsettled
      <3> QED
        BY <2>1, <2>4, <3>1, <3>2, <3>3
        DEF IntrinsicsInv, Settled, Unsettled
    <2> QED
      BY <2>2, <2>3, <2>4 DEF IntrinsicsInv
  <1>2. CASE takeStats
    BY <1>2 DEF takeStats, IntrinsicsInv, Settled, Unsettled
  <1>3. CASE UNCHANGED vars
    BY <1>3 DEF vars, IntrinsicsInv, Settled, Unsettled
  <1> QED
    BY <1>1, <1>2, <1>3 DEF Next

\* No frame is ever remapped or solved with what was built for another size.
THEOREM AlwaysSolvesAtFrameSize == Spec => []SolvesAtFrameSize
  <1>1. IntrinsicsInv => SolvesAtFrameSize
    BY DEF IntrinsicsInv, Settled, Unsettled, SolvesAtFrameSize
  <1> QED
    BY IntrinsicsInit, IntrinsicsNext, <1>1, PTL DEF Spec

\* Until the frame size first changes, the intrinsics are at its scale.
THEOREM FirstSizeAlwaysRight == Spec => []FirstSizeIsRight
  <1>1. IntrinsicsInv => FirstSizeIsRight
    BY DEF IntrinsicsInv, Settled, Unsettled, FirstSizeIsRight,
           IntrinsicsMatchFrame
  <1> QED
    BY IntrinsicsInit, IntrinsicsNext, <1>1, PTL DEF Spec

-----------------------------------------------------------------------------
(***************************************************************************)
(* The counters. What detect() adds to a counter is the number of markers  *)
(* with that fate; the markers are finitely many, and every one of them    *)
(* has exactly one.                                                        *)
(***************************************************************************)
Decoded(n) == {x \in Markers \X (1..MaxPerFrame) : x[2] <= n[x[1]]}

WithFate(n, f) ==
    {x \in Markers \X (1..MaxPerFrame) :
        /\ x[2] <= n[x[1]]
        /\ f = "decoded" \/ Meets(x[1], f)}

LEMMA MarkersAreFinite ==
    ASSUME NEW n, NEW T \in SUBSET Decoded(n)
    PROVE  IsFiniteSet(T) /\ Cardinality(T) \in Nat
  <1>1. IsFiniteSet(Gates)
    <2>1. /\ \A S, x : IsFiniteSet(S) => IsFiniteSet(S \cup {x})
          /\ IsFiniteSet({})
      BY FS_EmptySet, FS_AddElement
    <2>2. IsFiniteSet((((({} \cup {"id"}) \cup {"corners"}) \cup {"size"})
                        \cup {"pnp"}) \cup {"range"} \cup {"reproj"})
      BY <2>1, Zenon
    <2>3. Gates = ((((({} \cup {"id"}) \cup {"corners"}) \cup {"size"})
                        \cup {"pnp"}) \cup {"range"} \cup {"reproj"})
      BY DEF Gates
    <2> QED
      BY <2>2, <2>3
  <1>2. IsFiniteSet(Markers)
    BY <1>1, FS_SUBSET, FS_Subset, DetectorAssumption
  <1>3. IsFiniteSet(1..MaxPerFrame)
    BY FS_Interval, DetectorAssumption
  <1>4. IsFiniteSet(Markers \X (1..MaxPerFrame))
    BY <1>2, <1>3, FS_Product
  <1>5. T \in SUBSET (Markers \X (1..MaxPerFrame))
    BY DEF Decoded
  <1>6. IsFiniteSet(T)
    BY <1>4, <1>5, FS_Subset
  <1> QED
    BY <1>6, FS_CardinalityType

LEMMA CountedAdds ==
    ASSUME NEW n, TypeOK
    PROVE  /\ Counted(n) \in [Fates \cup {"decoded"} -> Nat]
           /\ \A f \in Fates \cup {"decoded"} :
                 Counted(n)[f] = stats_[f] + Cardinality(WithFate(n, f))
  <1>1. stats_ \in [Fates \cup {"decoded"} -> Nat]
    BY DEF TypeOK
  <1>2. \A f : WithFate(n, f) \in SUBSET Decoded(n)
    BY DEF WithFate, Decoded
  <1>3. \A f : Cardinality(WithFate(n, f)) \in Nat
    BY <1>2, MarkersAreFinite
  <1>4. Counted(n) = [f \in Fates \cup {"decoded"} |->
                        stats_[f] + Cardinality(WithFate(n, f))]
    BY <1>1 DEF Counted, WithFate
  <1> QED
    BY <1>1, <1>3, <1>4

LEMMA ScaleTyped ==
    ASSUME NEW w \in Sizes, TypeOK
    PROVE  Rescaled(w) \in Scale
  <1>1. /\ w \in Nat \ {0} /\ CalibWidth \in Nat
        /\ K_raw_.num \in Nat \ {0} /\ K_raw_.den \in Nat \ {0}
        /\ K_raw_ \in Scale
    BY DetectorAssumption DEF TypeOK, Scale
  <1>2. K_raw_.num * w \in Nat \ {0}
    BY <1>1
  <1>3. CalibWidth > 0 => K_raw_.den * CalibWidth \in Nat \ {0}
    BY <1>1
  <1> QED
    BY <1>1, <1>2, <1>3 DEF Rescaled, Scale

LEMMA TypeOKNext == TypeOK /\ [Next]_vars => TypeOK'
  <1> SUFFICES ASSUME TypeOK, [Next]_vars
               PROVE  TypeOK'
    OBVIOUS
  <1>1. ASSUME NEW w \in Sizes, NEW n, detect(w, n)
        PROVE  TypeOK'
    <2>1. stats_' \in [Fates \cup {"decoded"} -> Nat]
      BY <1>1, CountedAdds DEF detect
    <2>2. solved_at' \in Nat /\ resizes' \in Nat
      BY <1>1, DetectorAssumption DEF detect, TypeOK
    <2>3. CASE NeedsInit(w)
      <3>1. lazyInit(w) /\ w \in Nat /\ Rescaled(w) \in Scale
        BY <1>1, <2>3, ScaleTyped, DetectorAssumption DEF detect
      <3>2. [k |-> Rescaled(w), at |-> w] \in [k : Scale, at : Nat]
        BY <3>1
      <3>3. dist_solve_' \in {"pinhole", "fisheye", "zero"} /\ maps' \in Nat
        BY <3>1 DEF lazyInit, Configured, TypeOK
      <3> QED
        BY <2>1, <2>2, <3>1, <3>2, <3>3 DEF lazyInit, TypeOK
    <2>4. CASE ~NeedsInit(w)
      BY <1>1, <2>1, <2>2, <2>4 DEF detect, TypeOK
    <2> QED
      BY <2>3, <2>4
  <1>2. CASE takeStats
    <2>1. NoStats \in [Fates \cup {"decoded"} -> Nat]
      BY DEF NoStats
    <2> QED
      BY <1>2, <2>1 DEF takeStats, TypeOK
  <1>3. CASE UNCHANGED vars
    BY <1>3 DEF vars, TypeOK
  <1> QED
    BY <1>1, <1>2, <1>3 DEF Next

\* The matrices, maps and counters keep their types, whatever sizes and markers
\* arrive (detector.cpp:44-110).
THEOREM TypeCorrect == Spec => []TypeOK
  <1>1. Init => TypeOK
    <2>1. NoStats \in [Fates \cup {"decoded"} -> Nat] /\ Unscaled \in Scale
      BY DEF NoStats, Unscaled, Scale
    <2>2. Init => K_solve_ = [k |-> Unscaled, at |-> 0]
                  /\ dist_solve_ \in {"pinhole", "fisheye", "zero"}
      BY DEF Init, Configured
    <2>3. [k |-> Unscaled, at |-> 0] \in [k : Scale, at : Nat]
      BY <2>1
    <2>4. Init => initialized_ \in BOOLEAN
      BY Zenon DEF Init
    <2> QED
      BY <2>1, <2>2, <2>3, <2>4 DEF Init, TypeOK
  <1> QED
    BY <1>1, TypeOKNext, PTL DEF Spec

\* What validate() leaves of the gates: no marker without a size, and OpenCV
\* gives every marker four corners.
EveryMarkerSized ==
    \A m \in Markers : "id" \in m \/ m \cap {"corners", "size"} = {}

LEMMA OneFate ==
    ASSUME EveryMarkerSized, NEW m \in Markers
    PROVE  /\ \E f \in Fates : Meets(m, f)
           /\ \A f, g \in Fates : Meets(m, f) /\ Meets(m, g) => f = g
  <1>1. m \subseteq Gates /\ ("id" \in m \/ m \cap {"corners", "size"} = {})
    BY DetectorAssumption DEF EveryMarkerSized
  <1>2. \A f, g \in Fates : Meets(m, f) /\ Meets(m, g) => f = g
    BY DEF Fates, Meets
  <1>3. CASE "id" \in m
    BY <1>2, <1>3 DEF Fates, Meets
  <1>4. CASE "id" \notin m /\ "pnp" \in m
    <2>1. m \cap {"id", "corners", "size"} = {}
      BY <1>1, <1>4
    <2> QED
      BY <1>2, <1>4, <2>1 DEF Fates, Meets
  <1>5. CASE "id" \notin m /\ "pnp" \notin m /\ "range" \in m
    <2>1. m \cap {"id", "corners", "size"} = {}
      BY <1>1, <1>5
    <2> QED
      BY <1>2, <1>5, <2>1 DEF Fates, Meets
  <1>6. CASE "id" \notin m /\ "pnp" \notin m /\ "range" \notin m
    <2>1. m \cap {"id", "corners", "size"} = {}
      BY <1>1, <1>6
    <2>2. m = {} \/ m = {"reproj"}
      BY <1>1, <1>6, <2>1 DEF Gates
    <2> QED
      BY <1>2, <2>1, <2>2 DEF Fates, Meets
  <1> QED
    BY <1>3, <1>4, <1>5, <1>6

LEMMA DisjointUnion ==
    ASSUME NEW S, NEW T, IsFiniteSet(S), IsFiniteSet(T), S \cap T = {}
    PROVE  /\ IsFiniteSet(S \cup T)
           /\ Cardinality(S \cup T) = Cardinality(S) + Cardinality(T)
  BY FS_Union, FS_EmptySet, FS_CardinalityType

\* The markers of a frame, one by one, are those of the five fates together.
LEMMA FatesAddUp ==
    ASSUME EveryMarkerSized, NEW n
    PROVE  Cardinality(WithFate(n, "decoded")) =
               Cardinality(WithFate(n, "id")) + Cardinality(WithFate(n, "pnp"))
               + Cardinality(WithFate(n, "range"))
               + Cardinality(WithFate(n, "reproj"))
               + Cardinality(WithFate(n, "accepted"))
  <1> DEFINE A == WithFate(n, "id")      B == WithFate(n, "pnp")
             C == WithFate(n, "range")   D == WithFate(n, "reproj")
             E == WithFate(n, "accepted")
  <1>1. \A f : WithFate(n, f) \in SUBSET Decoded(n)
    BY DEF WithFate, Decoded
  <1>2. \A f : IsFiniteSet(WithFate(n, f))
                 /\ Cardinality(WithFate(n, f)) \in Nat
    BY <1>1, MarkersAreFinite
  <1>3. \A f, g \in Fates : f # g => WithFate(n, f) \cap WithFate(n, g) = {}
    <2> SUFFICES ASSUME NEW f \in Fates, NEW g \in Fates, NEW x,
                        x \in WithFate(n, f), x \in WithFate(n, g)
                 PROVE  f = g
      OBVIOUS
    <2>1. x[1] \in Markers /\ Meets(x[1], f) /\ Meets(x[1], g)
      BY DEF WithFate, Fates
    <2> QED
      BY <2>1, OneFate
  <1>4. WithFate(n, "decoded") = (((A \cup B) \cup C) \cup D) \cup E
    <2>1. ASSUME NEW x, x \in WithFate(n, "decoded")
          PROVE  x \in (((A \cup B) \cup C) \cup D) \cup E
      <3>1. x \in Markers \X (1..MaxPerFrame) /\ x[2] <= n[x[1]]
        BY <2>1 DEF WithFate
      <3>2. PICK f \in Fates : Meets(x[1], f)
        BY <3>1, OneFate
      <3>3. x \in WithFate(n, f)
        BY <3>1, <3>2 DEF WithFate
      <3> QED
        BY <3>3 DEF Fates
    <2>2. ASSUME NEW x, x \in (((A \cup B) \cup C) \cup D) \cup E
          PROVE  x \in WithFate(n, "decoded")
      BY <2>2 DEF WithFate
    <2> QED
      BY <2>1, <2>2
  <1>5. /\ A \cap B = {} /\ (A \cup B) \cap C = {}
        /\ ((A \cup B) \cup C) \cap D = {}
        /\ (((A \cup B) \cup C) \cup D) \cap E = {}
    <2>1. /\ A \cap B = {} /\ A \cap C = {} /\ A \cap D = {} /\ A \cap E = {}
          /\ B \cap C = {} /\ B \cap D = {} /\ B \cap E = {}
          /\ C \cap D = {} /\ C \cap E = {} /\ D \cap E = {}
      BY <1>3 DEF Fates
    <2> HIDE DEF A, B, C, D, E
    <2> QED
      BY <2>1
  <1>6. /\ IsFiniteSet(A) /\ IsFiniteSet(B) /\ IsFiniteSet(C)
        /\ IsFiniteSet(D) /\ IsFiniteSet(E)
        /\ Cardinality(A) \in Nat /\ Cardinality(B) \in Nat
        /\ Cardinality(C) \in Nat /\ Cardinality(D) \in Nat
        /\ Cardinality(E) \in Nat
    BY <1>2
  <1> HIDE DEF A, B, C, D, E
  <1>7. /\ IsFiniteSet(A \cup B)
        /\ Cardinality(A \cup B) = Cardinality(A) + Cardinality(B)
    BY <1>5, <1>6, DisjointUnion
  <1>8. /\ IsFiniteSet((A \cup B) \cup C)
        /\ Cardinality((A \cup B) \cup C)
             = Cardinality(A \cup B) + Cardinality(C)
    BY <1>5, <1>6, <1>7, DisjointUnion
  <1>9. /\ IsFiniteSet(((A \cup B) \cup C) \cup D)
        /\ Cardinality(((A \cup B) \cup C) \cup D)
             = Cardinality((A \cup B) \cup C) + Cardinality(D)
    BY <1>5, <1>6, <1>8, DisjointUnion
  <1>10. Cardinality((((A \cup B) \cup C) \cup D) \cup E)
             = Cardinality(((A \cup B) \cup C) \cup D) + Cardinality(E)
    BY <1>5, <1>6, <1>9, DisjointUnion
  <1>11. Cardinality(WithFate(n, "decoded"))
            = Cardinality(A) + Cardinality(B) + Cardinality(C)
              + Cardinality(D) + Cardinality(E)
    BY <1>4, <1>6, <1>7, <1>8, <1>9, <1>10
  <1> QED
    BY <1>11 DEF A, B, C, D, E

\* Accepted and rejected add up to decoded, whatever is decoded and whenever
\* the stats are taken, when every marker has a size (detector.cpp:142-233).
THEOREM CandidatesAlwaysAccounted ==
    ASSUME EveryMarkerSized
    PROVE  Spec => []CandidatesAccounted
  <1>1. Init => CandidatesAccounted
    BY DEF Init, NoStats, Fates, CandidatesAccounted
  <1>2. TypeOK /\ CandidatesAccounted /\ [Next]_vars => CandidatesAccounted'
    <2> SUFFICES ASSUME TypeOK, CandidatesAccounted, [Next]_vars
                 PROVE  CandidatesAccounted'
      OBVIOUS
    <2>1. ASSUME NEW w \in Sizes, NEW n, detect(w, n)
          PROVE  CandidatesAccounted'
      <3> DEFINE c(f) == Cardinality(WithFate(n, f))
      <3>1. \A f \in Fates \cup {"decoded"} : stats_'[f] = stats_[f] + c(f)
        BY <2>1, CountedAdds DEF detect
      <3>2. \A f : c(f) \in Nat
        <4>1. \A f : WithFate(n, f) \in SUBSET Decoded(n)
          BY DEF WithFate, Decoded
        <4> QED
          BY <4>1, MarkersAreFinite
      <3>3. c("decoded") = c("id") + c("pnp") + c("range") + c("reproj")
                           + c("accepted")
        BY FatesAddUp
      <3>4. \A f \in Fates \cup {"decoded"} : stats_[f] \in Nat
        BY DEF TypeOK
      <3> HIDE DEF c
      <3> QED
        BY <3>1, <3>2, <3>3, <3>4 DEF CandidatesAccounted, Fates
    <2>2. CASE takeStats
      BY <2>2 DEF takeStats, NoStats, Fates, CandidatesAccounted
    <2>3. CASE UNCHANGED vars
      BY <2>3 DEF vars, CandidatesAccounted
    <2> QED
      BY <2>1, <2>2, <2>3 DEF Next
  <1> QED
    BY <1>1, <1>2, TypeCorrect, PTL DEF Spec
=============================================================================
