---------------------------- MODULE TargetQueue ----------------------------
(***************************************************************************)
(* TargetQueue of tools/calibrate_camera.py: the guided sequence of target *)
(* boxes, as operators on one record. The capture loop applies several of  *)
(* its methods to each frame, one after the other; here they compose.      *)
(*                                                                         *)
(* Two counters saturate where the code stops telling values apart:        *)
(* in_box_hits at MinHits, and on_target, the time since t_start, at       *)
(* AdaptAfter. Where the boxes lie is the subject of BoardView.            *)
(***************************************************************************)
EXTENDS Integers, Sequences

CONSTANTS
    FillFloor,    \* FILL_FLOOR, percent: below it a target constrains nothing
    AdaptAfter,   \* --adapt-after, in ticks; 0 disables
    MinHits       \* the 15 in-box detections maybe_relax() asks for

ASSUME QueueAssumption ==
    /\ FillFloor \in Nat /\ FillFloor >= 1
    /\ AdaptAfter \in Nat
    /\ MinHits \in Nat /\ MinHits >= 1

Larger(a, b) == IF a >= b THEN a ELSE b
Capped(n, cap) == IF n >= cap THEN cap ELSE n

\* fit_targets keeps no target whose reachable fill is below the floor, and
\* every entry of the tables wants at least one sample.
Target == [fill : {f \in Nat : f >= FillFloor}, n : Nat \ {0}]

Queue == [targets : Seq(Target), index : Nat \ {0}, taken : Nat,
          remaining : Nat, fill_pct : Nat, best_fill : Nat,
          in_box_hits : 0..MinHits, on_target : 0..AdaptAfter,
          relaxed : BOOLEAN, warned : BOOLEAN]

done(q) == q.index > Len(q.targets)

\* Returns at once when the queue is done: what the last target left stays.
load(q) ==
    IF done(q) THEN q
    ELSE [q EXCEPT !.fill_pct = q.targets[q.index].fill,
                   !.remaining = q.targets[q.index].n,
                   !.best_fill = 0,
                   !.in_box_hits = 0,
                   !.on_target = 0,
                   !.relaxed = FALSE,
                   !.warned = FALSE]

NewQueue(targets) ==
    load([targets |-> targets, index |-> 1, taken |-> 0, remaining |-> 0,
          fill_pct |-> 0, best_fill |-> 0, in_box_hits |-> 0,
          on_target |-> 0, relaxed |-> FALSE, warned |-> FALSE])

note(q, inside, fill) ==
    IF inside
    THEN [q EXCEPT !.in_box_hits = Capped(@ + 1, MinHits),
                   !.best_fill = Larger(@, fill)]
    ELSE q

\* MUTANT of Plateaued: a queue that adapts never.
PlateauedNever(q) == FALSE

\* A sustained attempt that never reached the threshold.
Plateaued(q) ==
    /\ AdaptAfter > 0
    /\ ~q.relaxed
    /\ ~done(q)
    /\ q.on_target >= AdaptAfter
    /\ q.in_box_hits >= MinHits
    /\ q.best_fill < q.fill_pct

\* MUTANT of Lowered: no floor and the wrong side of what was seen.
LoweredAbove(q) == q.best_fill + 1

\* The threshold a plateau is lowered to.
Lowered(q) == Larger(FillFloor, q.best_fill - 1)

maybe_relax(q) ==
    IF ~Plateaued(q) THEN q
    ELSE IF q.best_fill < FillFloor THEN [q EXCEPT !.warned = TRUE]
    ELSE [q EXCEPT !.fill_pct = Lowered(q), !.relaxed = TRUE]

\* MUTANT of advance: a skip forgets what it forfeits.
advanceUncounted(q, count_samples) == load([q EXCEPT !.index = @ + 1])

\* Skipping forfeits the samples the target still wanted.
advance(q, count_samples) ==
    load([q EXCEPT !.taken = IF count_samples THEN @ + q.remaining ELSE @,
                   !.index = @ + 1])

accept(q) ==
    LET r == [q EXCEPT !.taken = @ + 1, !.remaining = @ - 1]
    IN  IF r.remaining <= 0 THEN advance(r, FALSE) ELSE r

-----------------------------------------------------------------------------
\* What the targets from i on want together.
Wanted(targets) ==
    LET from[i \in 1..(Len(targets) + 1)] ==
            IF i > Len(targets) THEN 0 ELSE targets[i].n + from[i + 1]
    IN  from

total_samples(q) == Wanted(q.targets)[1]

\* The progress bar: every sample of every target is taken, forfeited, wanted
\* now or wanted by a later target, so it is full exactly at the end
\* (calibrate_camera.py:819-820, 877-888).
ProgressIsExact(q) ==
    /\ q.taken + (IF done(q) THEN 0
                  ELSE q.remaining + Wanted(q.targets)[q.index + 1])
           = total_samples(q)
    /\ q.taken = total_samples(q) <=> done(q)

\* A lowered threshold is one that was met, and never below the floor
\* (calibrate_camera.py:836-875).
RelaxedIsReachable(q) ==
    q.relaxed => q.best_fill >= q.fill_pct /\ q.fill_pct >= FillFloor
=============================================================================
