--------------------------- MODULE CalibrateProofs ---------------------------
(***************************************************************************)
(* Theorems about the calibration tool, for any targets, fills, timers,    *)
(* pipelines and browsers.                                                 *)
(***************************************************************************)
EXTENDS CalibrateMain, SequenceTheorems, WellFoundedInduction, TLAPS

USE DEF serverVars, loopVars, controlVars, captureVars, mainVars

LEMMA FillsAreNumbers == Fills \subseteq Nat
  <1>1. Fills \subseteq 0..100
    BY CaptureLoopAssumption
  <1>2. 0..100 \subseteq Nat
    OBVIOUS
  <1> QED
    BY <1>1, <1>2

-----------------------------------------------------------------------------
(***************************************************************************)
(* Induction, as a statement about sets of naturals.                       *)
(***************************************************************************)
LEMMA LeastNatural ==
    ASSUME NEW T \in SUBSET Nat, T # {}
    PROVE  \E x \in T : \A y \in T : x <= y
  <1>1. IsWellFoundedOn(OpToRel(<, Nat), Nat)
    BY NatLessThanWellFounded
  <1> DEFINE R == OpToRel(<, Nat)
  <1>2. \A x, y \in Nat : x < y => <<x, y>> \in R
    BY DEF OpToRel
  <1> HIDE DEF R
  <1>3. \E x \in T : \A y \in T : ~ (<<y, x>> \in R)
    BY <1>1, WFMin DEF R
  <1>4. PICK x \in T : \A y \in T : ~ (<<y, x>> \in R)
    BY <1>3
  <1>5. ASSUME NEW y \in T PROVE x <= y
    <2>1. ~(y < x)
      BY <1>2, <1>4
    <2> QED
      BY <2>1
  <1> QED
    BY <1>5

\* A set of naturals with 0 and with the successor of each of its members is
\* all of them.
LEMMA EveryNatural ==
    ASSUME NEW P \in SUBSET Nat, 0 \in P, \A n \in P : n + 1 \in P
    PROVE  P = Nat
  <1> SUFFICES ASSUME Nat \ P # {} PROVE FALSE
    OBVIOUS
  <1>1. PICK x \in Nat \ P : \A y \in Nat \ P : x <= y
    BY LeastNatural
  <1> QED
    BY <1>1

-----------------------------------------------------------------------------
(***************************************************************************)
(* The queue. QueueOK is what every method of TargetQueue keeps: a target  *)
(* at hand still wants a sample, and a lowered threshold was met.          *)
(***************************************************************************)
QueueOK(q) ==
    /\ q \in Queue
    /\ ~done(q) => q.remaining >= 1
    /\ RelaxedIsReachable(q)

\* load() sets up the target at hand, if there is one.
LEMMA LoadOK ==
    ASSUME NEW q \in Queue, RelaxedIsReachable(q)
    PROVE  QueueOK(load(q)) /\ load(q).index = q.index
  <1>1. CASE done(q)
    BY <1>1 DEF load, QueueOK
  <1>2. CASE ~done(q)
    <2>1. q.targets[q.index] \in Target
      BY <1>2 DEF done, Queue
    <2>2. load(q) \in Queue
      <3>1. /\ q.targets[q.index].fill \in Nat
            /\ q.targets[q.index].n \in Nat
            /\ 0 \in Nat /\ 0 \in 0..MinHits /\ 0 \in 0..AdaptAfter
        BY <2>1, QueueAssumption DEF Target
      <3> QED
        BY <1>2, <3>1 DEF load, Queue
    <2>3. /\ load(q).index = q.index /\ load(q).relaxed = FALSE
          /\ load(q).remaining \in Nat \ {0}
      BY <1>2, <2>1 DEF load, Queue, Target
    <2> QED
      BY <2>2, <2>3 DEF QueueOK, RelaxedIsReachable
  <1> QED
    BY <1>1, <1>2

LEMMA NewQueueOK ==
    ASSUME NEW targets \in Seq(Target)
    PROVE  QueueOK(NewQueue(targets)) /\ NewQueue(targets).index = 1
  <1> DEFINE q == [targets |-> targets, index |-> 1, taken |-> 0, remaining |-> 0,
          fill_pct |-> 0, best_fill |-> 0, in_box_hits |-> 0,
          on_target |-> 0, relaxed |-> FALSE, warned |-> FALSE]
  <1>1. q \in Queue /\ RelaxedIsReachable(q) /\ q.index = 1
    BY QueueAssumption DEF Queue, RelaxedIsReachable
  <1> HIDE DEF q
  <1>2. QueueOK(load(q)) /\ load(q).index = 1
    BY <1>1, LoadOK
  <1> QED
    BY <1>2 DEF NewQueue, q

LEMMA AdvanceOK ==
    ASSUME NEW q \in Queue, RelaxedIsReachable(q), NEW count \in BOOLEAN
    PROVE  QueueOK(advance(q, count)) /\ advance(q, count).index = q.index + 1
  <1> DEFINE r == [q EXCEPT !.taken = IF count THEN @ + q.remaining ELSE @,
                            !.index = @ + 1]
  <1>1. r \in Queue
    <2>1. /\ q.index + 1 \in Nat \ {0}
          /\ (IF count THEN q.taken + q.remaining ELSE q.taken) \in Nat
      BY DEF Queue
    <2> QED
      BY <2>1 DEF Queue
  <1>2. r.index = q.index + 1
    BY DEF Queue
  <1>3. RelaxedIsReachable(r)
    BY DEF RelaxedIsReachable, Queue
  <1> HIDE DEF r
  <1>4. QueueOK(load(r)) /\ load(r).index = r.index
    BY <1>1, <1>3, LoadOK
  <1> QED
    BY <1>2, <1>4 DEF advance, r

\* A frame moves no target, and none is over for it.
LEMMA NoteOK ==
    ASSUME NEW q, QueueOK(q), NEW inside \in BOOLEAN, NEW fill \in Nat
    PROVE  /\ QueueOK(note(q, inside, fill))
           /\ note(q, inside, fill).index = q.index
           /\ done(note(q, inside, fill)) = done(q)
  <1> DEFINE r == note(q, inside, fill)
  <1>1. r \in Queue
    <2>1. /\ Capped(q.in_box_hits + 1, MinHits) \in 0..MinHits
          /\ Larger(q.best_fill, fill) \in Nat
      BY QueueAssumption DEF QueueOK, Queue, Capped, Larger
    <2> QED
      BY <2>1 DEF QueueOK, Queue, note
  <1>2. /\ r.index = q.index /\ r.targets = q.targets
        /\ r.remaining = q.remaining /\ r.relaxed = q.relaxed
        /\ r.fill_pct = q.fill_pct /\ r.best_fill >= q.best_fill
    BY DEF QueueOK, Queue, note, Larger
  <1>3. RelaxedIsReachable(r)
    <2>1. /\ q.best_fill \in Nat /\ q.fill_pct \in Nat /\ r.best_fill \in Nat
          /\ q.relaxed => q.best_fill >= q.fill_pct /\ q.fill_pct >= FillFloor
      BY <1>1 DEF QueueOK, RelaxedIsReachable, Queue
    <2> HIDE DEF r
    <2> QED
      BY <1>2, <2>1, QueueAssumption DEF RelaxedIsReachable
  <1> QED
    BY <1>1, <1>2, <1>3 DEF QueueOK, done

LEMMA RelaxOK ==
    ASSUME NEW q, QueueOK(q)
    PROVE  /\ QueueOK(maybe_relax(q))
           /\ maybe_relax(q).index = q.index
           /\ done(maybe_relax(q)) = done(q)
  <1> DEFINE r == maybe_relax(q)
  <1>1. r \in Queue
    <2>1. Lowered(q) \in Nat
      BY QueueAssumption DEF QueueOK, Queue, Lowered, Larger
    <2> QED
      BY <2>1 DEF QueueOK, Queue, maybe_relax
  <1>2. /\ r.index = q.index /\ r.targets = q.targets
        /\ r.remaining = q.remaining /\ r.best_fill = q.best_fill
    BY DEF QueueOK, Queue, maybe_relax
  <1>3. RelaxedIsReachable(r)
    <2>1. CASE ~Plateaued(q) \/ q.best_fill < FillFloor
      BY <2>1 DEF QueueOK, RelaxedIsReachable, Queue, maybe_relax
    <2>2. CASE Plateaued(q) /\ ~(q.best_fill < FillFloor)
      <3>1. r.fill_pct = Larger(FillFloor, q.best_fill - 1)
        BY <2>2 DEF maybe_relax, Lowered, QueueOK, Queue
      <3>2. q.best_fill \in Nat
        BY DEF QueueOK, Queue
      <3> QED
        BY <1>2, <2>2, <3>1, <3>2, QueueAssumption
        DEF RelaxedIsReachable, Larger
    <2> QED
      BY <2>1, <2>2
  <1> QED
    BY <1>1, <1>2, <1>3 DEF QueueOK, done

LEMMA JudgedOK ==
    ASSUME QueueOK(queue), NEW inside \in BOOLEAN, NEW fill \in Nat
    PROVE  /\ QueueOK(Judged(inside, fill))
           /\ Judged(inside, fill).index = queue.index
           /\ done(Judged(inside, fill)) = done(queue)
  BY NoteOK, RelaxOK DEF Judged

\* A sample completes at most the target at hand.
LEMMA AcceptOK ==
    ASSUME NEW q, QueueOK(q), ~done(q)
    PROVE  /\ QueueOK(accept(q))
           /\ accept(q).index \in {q.index, q.index + 1}
  <1> DEFINE r == [q EXCEPT !.taken = @ + 1, !.remaining = @ - 1]
  <1>1. q.index \in Nat /\ q.remaining - 1 \in Nat /\ q.taken + 1 \in Nat
    BY DEF QueueOK, Queue
  <1>2. r \in Queue
    BY <1>1 DEF QueueOK, Queue
  <1>3. r.index = q.index /\ r.remaining = q.remaining - 1
    BY DEF QueueOK, Queue
  <1>4. RelaxedIsReachable(r)
    BY DEF QueueOK, RelaxedIsReachable, Queue
  <1>5. accept(q) = IF r.remaining <= 0 THEN advance(r, FALSE) ELSE r
    BY DEF accept
  <1> HIDE DEF r
  <1>6. CASE r.remaining <= 0
    BY <1>2, <1>3, <1>4, <1>5, <1>6, AdvanceOK
  <1>7. CASE ~(r.remaining <= 0)
    <2>1. r.remaining >= 1
      BY <1>1, <1>3, <1>7
    <2> QED
      BY <1>1, <1>2, <1>3, <1>4, <1>5, <1>7, <2>1 DEF QueueOK
  <1> QED
    BY <1>6, <1>7

\* Time only ages the attempt on a target.
LEMMA AgeOK ==
    ASSUME NEW q, QueueOK(q)
    PROVE  LET r == [q EXCEPT !.on_target = Capped(@ + 1, AdaptAfter)]
           IN  QueueOK(r) /\ r.index = q.index /\ done(r) = done(q)
  <1> DEFINE r == [q EXCEPT !.on_target = Capped(@ + 1, AdaptAfter)]
  <1>1. r \in Queue
    <2>1. Capped(q.on_target + 1, AdaptAfter) \in 0..AdaptAfter
      BY QueueAssumption DEF QueueOK, Queue, Capped
    <2> QED
      BY <2>1 DEF QueueOK, Queue
  <1>2. /\ r.index = q.index /\ r.targets = q.targets
        /\ r.remaining = q.remaining /\ r.best_fill = q.best_fill
        /\ r.relaxed = q.relaxed /\ r.fill_pct = q.fill_pct
    BY DEF QueueOK, Queue
  <1> QED
    BY <1>1, <1>2 DEF QueueOK, done, RelaxedIsReachable

-----------------------------------------------------------------------------
(***************************************************************************)
(* The capture loop. It has a queue from the first frame on, and judges a  *)
(* frame only for a target that is still wanted; before it has begun,      *)
(* nobody has typed anything.                                              *)
(***************************************************************************)
Before == {"resolving", "images", "preview", "opening"}

LoopInv ==
    /\ CaptureTypeOK
    /\ queue # NoQueue => QueueOK(queue)
    /\ pc \in {"deciding", "skipping", "judging"} => queue # NoQueue
    /\ pc \in {"skipping", "judging"} => ~done(queue)
    /\ stage \in Before => pc = "idle" /\ queue = NoQueue /\ ~stop /\ ~skip

\* What a step of the whole program can do to the loop and the operator.
Sampling == stage = "sampling" /\ stage' = "sampling" /\ (Loop \/ Operator \/ Tick)

Beginning ==
    /\ stage = "opening" /\ stage' = "sampling"
    /\ BeginCapture
    /\ UNCHANGED <<video, preview>>

Preparing ==
    /\ stage \in Before
    /\ views' \in Nat /\ video' \in BOOLEAN /\ preview' \in BOOLEAN
    /\ UNCHANGED <<pc, queue, since_accept, waited, forfeited, controlVars>>

Elsewhere == UNCHANGED captureVars /\ (stage' \in Before => stage \in Before)

LEMMA CaptureSteps ==
    ASSUME LoopInv, [Next]_vars
    PROVE  Sampling \/ Beginning \/ Preparing \/ Elsewhere
  <1> USE DEF Elsewhere, Before
  <1>1. CASE Sample
    BY <1>1 DEF Sample, SampleRecords, Sampling
  <1>2. CASE Refuse
    BY <1>2 DEF Refuse, Exit, Threads
  <1>3. ASSUME NEW n \in 0..MinViews, LoadPoints(n) PROVE Preparing
    <2>1. n \in Nat
      BY MainAssumption
    <2> QED
      BY <1>3, <2>1 DEF LoadPoints, Enter, Preparing, LoopInv, CaptureTypeOK
  <1>4. ASSUME NEW n \in 0..MaxFiles, ListImages(n) PROVE Elsewhere
    BY <1>4 DEF ListImages, Enter, Threads
  <1>5. ASSUME NEW p \in Pipelines, ResolveCapture(p) PROVE Preparing
    BY <1>5 DEF ResolveCapture, Enter, Preparing, LoopInv, CaptureTypeOK
  <1>6. CASE Images
    <2>1. ASSUME NEW readable \in BOOLEAN, NEW found \in BOOLEAN,
                 ReadImage(readable, found)
          PROVE  Preparing
      <3>1. views' \in Nat
        BY <2>1 DEF ReadImage, LoopInv, CaptureTypeOK
      <3> QED
        BY <2>1, <3>1 DEF ReadImage, Preparing, LoopInv, CaptureTypeOK
    <2>2. CASE ImagesRead
      BY <2>2 DEF ImagesRead, Enter, Threads
    <2> QED
      BY <1>6, <2>1, <2>2 DEF Images
  <1>7. CASE Open
    <2>1. ASSUME NEW bound \in BOOLEAN, StartPreview(bound) PROVE Preparing
      BY <2>1 DEF StartPreview, Enter, Preparing, LoopInv, CaptureTypeOK
    <2>2. CASE OpenCapture
      BY <2>2 DEF OpenCapture, Enter, Beginning
    <2>3. CASE OpenRefused
      BY <2>3 DEF OpenRefused, Exit, Threads
    <2> QED
      BY <1>7, <2>1, <2>2, <2>3 DEF Open
  <1>8. CASE LeaveLoop \/ (\E returned \in BOOLEAN : Release(returned)) \/ Close
    BY <1>8 DEF LeaveLoop, Release, Close, ClosePreview, NoPreviewToClose,
                Exit, Enter, Threads
  <1>9. CASE Record
    BY <1>9 DEF Record, Count, SavePoints, Solve, WriteResult, AfterCount,
                Exit, Enter, Threads
  <1>10. CASE Abort \/ Watch \/ Exited \/ UNCHANGED vars
    BY <1>10 DEF Abort, Watch, Exited, Exit, Threads, vars
  <1> QED
    BY <1>1, <1>2, <1>3, <1>4, <1>5, <1>6, <1>7, <1>8, <1>9, <1>10
    DEF Next, Resolve, Finish

LEMMA LoopAtInit == Init => LoopInv
  <1>1. Settle \in 0..Settle /\ 0 \in 0..(OpenTimeout + 1) /\ 0 \in Nat
    BY CaptureLoopAssumption
  <1> QED
    BY <1>1 DEF Init, CaptureInit, LoopInv, CaptureTypeOK, LoopPlaces

\* The steps that leave the queue and every timer alone.
LEMMA QueueUntouched ==
    ASSUME LoopInv, stage = "sampling", stage' = "sampling",
           PressEnter \/ TypeStop \/ GiveUpOpening \/ EndOfFile \/ NextFrame
             \/ Decide \/ NoSkip \/ Interrupt
    PROVE  LoopInv'
  <1> USE DEF LoopInv, CaptureTypeOK, LoopPlaces, Before, Goto, LoopStays
  <1>1. CASE PressEnter
    <2>1. Current \in Nat
      BY DEF Current, QueueOK, Queue
    <2> QED
      BY <1>1, <2>1 DEF PressEnter
  <1>2. CASE TypeStop
    BY <1>2 DEF TypeStop
  <1>3. CASE GiveUpOpening
    BY <1>3 DEF GiveUpOpening
  <1>4. CASE EndOfFile
    BY <1>4 DEF EndOfFile
  <1>5. CASE NextFrame
    BY <1>5 DEF NextFrame
  <1>6. CASE Decide
    BY <1>6 DEF Decide, MustStop
  <1>7. CASE NoSkip
    BY <1>7 DEF NoSkip
  <1>8. CASE Interrupt
    BY <1>8 DEF Interrupt
  <1> QED
    BY <1>1, <1>2, <1>3, <1>4, <1>5, <1>6, <1>7, <1>8

LEMMA LoopInvSampling ==
    ASSUME LoopInv, Sampling
    PROVE  LoopInv'
  <1> USE DEF LoopInv, CaptureTypeOK, LoopPlaces, Before, Goto, LoopStays, Sampling
  <1>1. CASE PressEnter \/ TypeStop \/ GiveUpOpening \/ EndOfFile \/ NextFrame
               \/ Decide \/ NoSkip \/ Interrupt
    BY <1>1, QueueUntouched
  <1>2. ASSUME NEW targets \in TargetLists, FirstFrame(targets) PROVE LoopInv'
    <2>1. QueueOK(NewQueue(targets)) /\ NewQueue(targets) \in Queue
      BY NewQueueOK, CaptureLoopAssumption DEF QueueOK
    <2> QED
      BY <1>2, <2>1, CaptureLoopAssumption DEF FirstFrame
  <1>3. CASE TakeSkip
    <2>1. queue # NoQueue /\ QueueOK(queue)
      BY <1>3 DEF TakeSkip
    <2>2. QueueOK(advance(queue, TRUE)) /\ advance(queue, TRUE) \in Queue
      BY <2>1, AdvanceOK DEF QueueOK
    <2>3. forfeited + queue.remaining \in Nat
      BY <2>1 DEF QueueOK, Queue
    <2> QED
      BY <1>3, <2>2, <2>3, CaptureLoopAssumption DEF TakeSkip, ConsumedSkip
  <1>4. ASSUME NEW inside \in BOOLEAN, NEW fill \in Nat,
               Judge(inside, fill)
        PROVE  LoopInv'
    <2> DEFINE q == Judged(inside, fill)
    <2>1. queue # NoQueue /\ QueueOK(queue) /\ ~done(queue)
      BY <1>4 DEF Judge, Reject, Accept
    <2>2. QueueOK(q) /\ ~done(q) /\ q \in Queue
      BY <2>1, JudgedOK DEF QueueOK
    <2> HIDE DEF q
    <2>3. CASE Reject(inside, fill)
      BY <2>2, <2>3, CaptureLoopAssumption DEF Reject, q
    <2>4. CASE Accept(inside, fill)
      <3>1. QueueOK(accept(q)) /\ accept(q) \in Queue
        BY <2>2, AcceptOK DEF QueueOK
      <3> QED
        BY <2>4, <3>1, CaptureLoopAssumption DEF Accept, q
    <2> QED
      BY <1>4, <2>3, <2>4 DEF Judge
  <1>5. CASE Tick
    <2>1. /\ Capped(since_accept + 1, Settle) \in 0..Settle
          /\ Capped(waited + 1, OpenTimeout + 1) \in 0..(OpenTimeout + 1)
      BY CaptureLoopAssumption DEF Capped
    <2>2. CASE queue = NoQueue
      BY <1>5, <2>1, <2>2 DEF Tick, Running
    <2>3. CASE queue # NoQueue
      <3> DEFINE r == [queue EXCEPT !.on_target = Capped(@ + 1, AdaptAfter)]
      <3>1. QueueOK(r) /\ r \in Queue /\ done(r) = done(queue)
        BY <2>3, AgeOK DEF QueueOK
      <3>2. queue' = r
        BY <1>5, <2>3 DEF Tick
      <3> HIDE DEF r
      <3> QED
        BY <1>5, <2>1, <3>1, <3>2, CaptureLoopAssumption DEF Tick, Running
    <2> QED
      BY <2>2, <2>3
  <1>6. Fills \subseteq Nat
    BY FillsAreNumbers
  <1>7. (\E inside \in BOOLEAN, fill \in Nat : Judge(inside, fill))
          \/ ~(Reject(FALSE, 0) \/ \E fill \in Fills : Judge(TRUE, fill))
    BY <1>6 DEF Judge
  <1> QED
    BY <1>1, <1>2, <1>3, <1>4, <1>5, <1>7 DEF Loop, Frame, Step, Operator

LEMMA LoopInvNext ==
    ASSUME LoopInv, [Next]_vars
    PROVE  LoopInv'
  <1> USE DEF LoopInv, CaptureTypeOK, Before
  <1>1. CASE Sampling
    BY <1>1, LoopInvSampling
  <1>2. CASE Beginning
    BY <1>2, CaptureLoopAssumption DEF Beginning, BeginCapture, Goto, LoopPlaces
  <1>3. CASE Preparing
    BY <1>3 DEF Preparing
  <1>4. CASE Elsewhere
    BY <1>4 DEF Elsewhere
  <1> QED
    BY <1>1, <1>2, <1>3, <1>4, CaptureSteps

-----------------------------------------------------------------------------
(***************************************************************************)
(* The two flags. A flag set while a frame is being judged is read one     *)
(* frame later: the frame at hand may still add a view and complete a      *)
(* target, and until then nothing has been added.                          *)
(***************************************************************************)
StopInv ==
    stop => \/ pc = "interrupted"
            \/ views <= views_at_stop
            \/ pc \notin {"skipping", "judging"} /\ views = views_at_stop + 1

SkipInv ==
    skip => \/ Current <= pressed_at
            \/ pc # "judging" /\ Current = pressed_at + 1

FlagsInv == LoopInv /\ StopInv /\ SkipInv

\* Steps that move neither the views nor the target, nor the flags.
LEMMA FlagsUntouched ==
    ASSUME FlagsInv,
           GiveUpOpening \/ EndOfFile \/ NextFrame \/ Decide \/ NoSkip
    PROVE  StopInv' /\ SkipInv'
  <1> USE DEF FlagsInv, StopInv, SkipInv, Goto, LoopStays, Current
  <1>1. CASE GiveUpOpening \/ EndOfFile \/ NextFrame
    BY <1>1 DEF GiveUpOpening, EndOfFile, NextFrame
  <1>2. CASE Decide
    BY <1>2 DEF Decide, MustStop
  <1>3. CASE NoSkip
    BY <1>3 DEF NoSkip
  <1> QED
    BY <1>1, <1>2, <1>3

LEMMA FlagsOperator ==
    ASSUME FlagsInv, Operator
    PROVE  StopInv' /\ SkipInv'
  <1> USE DEF FlagsInv, StopInv, SkipInv, Goto, LoopStays
  <1>1. Current \in Nat /\ views \in Nat
    BY DEF Current, LoopInv, CaptureTypeOK, QueueOK, Queue
  <1>2. CASE PressEnter
    BY <1>1, <1>2 DEF PressEnter, Current
  <1>3. CASE TypeStop
    BY <1>1, <1>3 DEF TypeStop, Current
  <1>4. CASE Interrupt
    BY <1>1, <1>4 DEF Interrupt, Current
  <1> QED
    BY <1>2, <1>3, <1>4 DEF Operator

LEMMA FlagsSampling ==
    ASSUME FlagsInv, Sampling
    PROVE  StopInv' /\ SkipInv'
  <1> USE DEF FlagsInv, StopInv, SkipInv, Goto, LoopStays
  <1>1. CASE Operator
    BY <1>1, FlagsOperator
  <1>2. CASE GiveUpOpening \/ EndOfFile \/ NextFrame \/ Decide \/ NoSkip
    BY <1>2, FlagsUntouched
  <1>3. ASSUME NEW targets \in TargetLists, FirstFrame(targets)
        PROVE  StopInv' /\ SkipInv'
    <2>1. NewQueue(targets).index = 1 /\ NewQueue(targets) # NoQueue
      BY NewQueueOK, CaptureLoopAssumption DEF QueueOK
    <2> QED
      BY <1>3, <2>1 DEF FirstFrame, Current
  <1>4. CASE TakeSkip
    <2>1. ~skip' /\ UNCHANGED <<stop, views, views_at_stop>>
             /\ pc' # "skipping" /\ pc = "skipping"
      BY <1>4 DEF TakeSkip, ConsumedSkip
    <2> QED
      BY <2>1
  <1>5. ASSUME NEW inside \in BOOLEAN, NEW fill \in Nat,
               Judge(inside, fill)
        PROVE  StopInv' /\ SkipInv'
    <2> DEFINE q == Judged(inside, fill)
    <2>1. pc = "judging" /\ queue # NoQueue /\ QueueOK(queue) /\ ~done(queue)
      BY <1>5 DEF Judge, Reject, Accept, LoopInv
    <2>2. QueueOK(q) /\ ~done(q) /\ q.index = queue.index
      BY <2>1, JudgedOK
    <2> HIDE DEF q
    <2>3. /\ QueueOK(q) /\ ~done(q) /\ q.index = queue.index
          /\ q # NoQueue /\ q.index \in Nat
      BY <2>2, CaptureLoopAssumption DEF QueueOK, Queue
    <2>4. /\ stop => views <= views_at_stop
          /\ skip => q.index <= pressed_at
          /\ views \in Nat /\ views_at_stop \in Nat /\ pressed_at \in Nat
      BY <2>1, <2>3 DEF Current, LoopInv, CaptureTypeOK
    <2>5. CASE Reject(inside, fill)
      <3>1. /\ queue' = q /\ UNCHANGED <<views, stop, skip>>
            /\ UNCHANGED <<views_at_stop, pressed_at>>
        BY <2>5 DEF Reject, q
      <3> QED
        BY <2>3, <2>4, <3>1 DEF Current
    <2>6. CASE Accept(inside, fill)
      <3>1. /\ queue' = accept(q) /\ views' = views + 1
            /\ UNCHANGED <<stop, skip, views_at_stop, pressed_at>>
            /\ pc' \in {"ended", "reading"}
        BY <2>6 DEF Accept, q
      <3>2. /\ accept(q).index \in {q.index, q.index + 1}
            /\ accept(q) # NoQueue
        BY <2>3, AcceptOK, CaptureLoopAssumption DEF QueueOK
      <3>3. StopInv'
        BY <2>4, <3>1
      <3>4. SkipInv'
        BY <2>3, <2>4, <3>1, <3>2 DEF Current
      <3> QED
        BY <3>3, <3>4
    <2> QED
      BY <1>5, <2>5, <2>6 DEF Judge
  <1>6. CASE Tick
    <2>1. UNCHANGED <<pc, views, controlVars>>
      BY <1>6 DEF Tick
    <2>2. Current' = Current
      <3>1. CASE queue = NoQueue
        BY <1>6, <3>1 DEF Tick, Current
      <3>2. CASE queue # NoQueue
        <4> DEFINE r == [queue EXCEPT !.on_target = Capped(@ + 1, AdaptAfter)]
        <4>1. r # NoQueue /\ r.index = queue.index
          BY <3>2, AgeOK, CaptureLoopAssumption DEF LoopInv, QueueOK
        <4>2. queue' = r
          BY <1>6, <3>2 DEF Tick
        <4> HIDE DEF r
        <4> QED
          BY <3>2, <4>1, <4>2 DEF Current
      <3> QED
        BY <3>1, <3>2
    <2> QED
      BY <2>1, <2>2
  <1>7. Fills \subseteq Nat
    BY FillsAreNumbers
  <1>8. (\E inside \in BOOLEAN, fill \in Nat : Judge(inside, fill))
          \/ ~(Reject(FALSE, 0) \/ \E fill \in Fills : Judge(TRUE, fill))
    BY <1>7 DEF Judge
  <1> QED
    BY <1>1, <1>2, <1>3, <1>4, <1>5, <1>6, <1>8
    DEF Loop, Frame, Step, Operator, Sampling

LEMMA FlagsNext ==
    ASSUME FlagsInv, [Next]_vars
    PROVE  FlagsInv'
  <1> USE DEF StopInv, SkipInv, Current
  <1>1. LoopInv'
    BY LoopInvNext DEF FlagsInv
  <1>2. CASE Sampling
    BY <1>1, <1>2, FlagsSampling DEF FlagsInv
  <1>3. CASE Beginning
    BY <1>1, <1>3 DEF Beginning, BeginCapture, FlagsInv, LoopInv, Before
  <1>4. CASE Preparing
    BY <1>1, <1>4 DEF Preparing, FlagsInv, LoopInv
  <1>5. CASE Elsewhere
    BY <1>1, <1>5 DEF Elsewhere, FlagsInv
  <1> QED
    BY <1>2, <1>3, <1>4, <1>5, CaptureSteps DEF FlagsInv

\* What a flag may still mean when it is read, at every place of the loop
\* (calibrate_camera.py:1338-1345).
THEOREM FlagsCorrect == Spec => []FlagsInv
  <1>1. Init => FlagsInv
    <2>1. Init => ~stop /\ ~skip
      BY DEF Init, CaptureInit
    <2> QED
      BY <2>1, LoopAtInit DEF FlagsInv, StopInv, SkipInv
  <1>2. FlagsInv /\ [Next]_vars => FlagsInv'
    BY FlagsNext
  <1> QED
    BY <1>1, <1>2, PTL DEF Spec

\* However the operator's line falls into an iteration, an ENTER skips the
\* target it was pressed for or the next (calibrate_camera.py:1340-1342).
THEOREM SkipsHit == Spec => []SkipHitsThisOrNext
  <1>1. FlagsInv => SkipHitsThisOrNext
    <2>1. FlagsInv => Current \in Nat /\ pressed_at \in Nat
      BY DEF FlagsInv, LoopInv, CaptureTypeOK, Current, QueueOK, Queue
    <2> QED
      BY <2>1 DEF FlagsInv, SkipInv, SkipHitsThisOrNext
  <1> QED
    BY <1>1, FlagsCorrect, PTL

\* However the operator's line falls into an iteration, `stop` lets at most the
\* frame at hand add a view (calibrate_camera.py:1086-1089, 1338).
THEOREM StopIsObeyed == Spec => []StopTakesAtMostOneMore
  <1>1. FlagsInv => StopTakesAtMostOneMore
    <2>1. FlagsInv => views \in Nat /\ views_at_stop \in Nat
      BY DEF FlagsInv, LoopInv, CaptureTypeOK
    <2> QED
      BY <2>1 DEF FlagsInv, StopInv, StopTakesAtMostOneMore
  <1> QED
    BY <1>1, FlagsCorrect, PTL

\* On every target, for every fill the camera reaches, a threshold that was
\* lowered is one the operator met (calibrate_camera.py:836-875).
THEOREM LoweringIsSound == Spec => []LoweredIsReachable
  <1>1. FlagsInv => LoweredIsReachable
    BY DEF FlagsInv, LoopInv, LoweredIsReachable, QueueOK
  <1> QED
    BY <1>1, FlagsCorrect, PTL

-----------------------------------------------------------------------------
(***************************************************************************)
(* Effort. A frame can only add to what a target has seen, and lower what  *)
(* it asks for; when the timers have run, a frame as good as the best so   *)
(* far is enough for the threshold as it is, or as it is lowered to, if    *)
(* the board was found often enough; otherwise it is one more time.        *)
(***************************************************************************)
NoLess(r, q) ==
    /\ r.in_box_hits >= q.in_box_hits
    /\ r.on_target >= q.on_target
    /\ r.best_fill >= q.best_fill
    /\ r.fill_pct <= q.fill_pct

LEMMA QueueFields ==
    ASSUME NEW q \in Queue
    PROVE  /\ q.in_box_hits \in 0..MinHits /\ q.on_target \in 0..AdaptAfter
           /\ q.best_fill \in Nat /\ q.fill_pct \in Nat /\ q.index \in Nat
           /\ q.relaxed \in BOOLEAN
           /\ NoLess(q, q)
  BY QueueAssumption DEF Queue, NoLess

LEMMA NoteNoLess ==
    ASSUME NEW q \in Queue, NEW inside \in BOOLEAN, NEW fill \in Nat
    PROVE  /\ NoLess(note(q, inside, fill), q)
           /\ note(q, inside, fill).fill_pct = q.fill_pct
  <1> DEFINE r == note(q, inside, fill)
  <1>1. /\ r.in_box_hits = IF inside THEN Capped(q.in_box_hits + 1, MinHits)
                                     ELSE q.in_box_hits
        /\ r.best_fill = IF inside THEN Larger(q.best_fill, fill)
                                   ELSE q.best_fill
        /\ r.on_target = q.on_target /\ r.fill_pct = q.fill_pct
    BY DEF note, Queue
  <1> HIDE DEF r
  <1>2. NoLess(r, q)
    BY <1>1, QueueFields, QueueAssumption DEF NoLess, Capped, Larger
  <1> QED
    BY <1>1, <1>2 DEF r

LEMMA RelaxNoLess ==
    ASSUME NEW q \in Queue
    PROVE  NoLess(maybe_relax(q), q)
  <1> DEFINE r == maybe_relax(q)
  <1>1. /\ r.in_box_hits = q.in_box_hits /\ r.on_target = q.on_target
        /\ r.best_fill = q.best_fill
        /\ \/ r.fill_pct = q.fill_pct
           \/ /\ r.fill_pct = Lowered(q) /\ q.best_fill < q.fill_pct
              /\ q.best_fill >= FillFloor
    <2>1. CASE ~Plateaued(q)
      BY <2>1 DEF maybe_relax
    <2>2. CASE Plateaued(q) /\ q.best_fill < FillFloor
      BY <2>2 DEF maybe_relax, Queue
    <2>3. CASE Plateaued(q) /\ ~(q.best_fill < FillFloor)
      <3>1. r = [q EXCEPT !.fill_pct = Lowered(q), !.relaxed = TRUE]
        BY <2>3 DEF maybe_relax
      <3>2. q.best_fill < q.fill_pct /\ q.best_fill >= FillFloor
        BY <2>3, QueueFields, QueueAssumption DEF Plateaued
      <3> HIDE DEF r
      <3> QED
        BY <3>1, <3>2 DEF Queue
    <2> QED
      BY <2>1, <2>2, <2>3
  <1> HIDE DEF r
  <1>2. NoLess(r, q)
    BY <1>1, QueueFields, QueueAssumption DEF NoLess, Lowered, Larger
  <1> QED
    BY <1>2 DEF r

LEMMA JudgedNoLess ==
    ASSUME QueueOK(queue), NEW inside \in BOOLEAN, NEW fill \in Nat
    PROVE  NoLess(Judged(inside, fill), queue)
  <1> DEFINE n == note(queue, inside, fill)
             r == maybe_relax(n)
  <1>1. queue \in Queue /\ n \in Queue /\ r \in Queue
    BY NoteOK, RelaxOK DEF QueueOK
  <1>2. NoLess(n, queue)
    BY <1>1, NoteNoLess
  <1> HIDE DEF n
  <1>3. NoLess(r, n)
    BY <1>1, RelaxNoLess
  <1> HIDE DEF r
  <1>4. NoLess(r, queue)
    BY <1>1, <1>2, <1>3, QueueFields DEF NoLess
  <1> QED
    BY <1>4 DEF Judged, r, n

\* A sample that does not complete its target changes what is counted only.
LEMMA AcceptNoLess ==
    ASSUME NEW q, QueueOK(q), accept(q).index = q.index
    PROVE  NoLess(accept(q), q)
  <1> DEFINE r == [q EXCEPT !.taken = @ + 1, !.remaining = @ - 1]
  <1>1. accept(q) = IF r.remaining <= 0 THEN advance(r, FALSE) ELSE r
    BY DEF accept
  <1>2. /\ r.index = q.index /\ r.in_box_hits = q.in_box_hits
        /\ r.on_target = q.on_target /\ r.best_fill = q.best_fill
        /\ r.fill_pct = q.fill_pct /\ r.targets = q.targets
    BY DEF QueueOK, Queue
  <1>3. advance(r, FALSE).index = q.index + 1
    <2>1. advance(r, FALSE) = load([r EXCEPT !.taken = r.taken, !.index = @ + 1])
      BY DEF advance
    <2>2. ASSUME NEW x, x = [r EXCEPT !.taken = r.taken, !.index = @ + 1]
          PROVE  load(x).index = q.index + 1
      <3>1. x.index = q.index + 1
        BY <2>2, <1>2 DEF QueueOK, Queue
      <3>2. load(x).index = x.index
        BY <2>2 DEF load, QueueOK, Queue
      <3> QED
        BY <3>1, <3>2
    <2> QED
      BY <2>1, <2>2
  <1> HIDE DEF r
  <1>4. q.index \in Nat /\ NoLess(q, q)
    BY QueueFields DEF QueueOK
  <1>5. accept(q) = r
    <2>1. CASE r.remaining <= 0
      <3>1. accept(q).index = q.index + 1
        BY <1>1, <1>3, <2>1, Zenon
      <3> QED
        BY <1>4, <3>1
    <2>2. CASE ~(r.remaining <= 0)
      BY <1>1, <2>2, Zenon
    <2> QED
      BY <2>1, <2>2
  <1> QED
    BY <1>2, <1>4, <1>5 DEF NoLess

\* Once the timers have run, a frame as good as the best so far meets the
\* threshold, lowered if need be, or is one more of the MinHits detections.
LEMMA ReadyToAccept ==
    ASSUME QueueOK(queue), ~done(queue), AdaptAfter > 0,
           queue.on_target >= AdaptAfter,
           NEW fill \in Nat, fill >= Larger(FillFloor, queue.best_fill)
    PROVE  \/ fill >= Judged(TRUE, fill).fill_pct
           \/ Judged(TRUE, fill).in_box_hits > queue.in_box_hits
  <1> DEFINE n == note(queue, TRUE, fill)
  <1>1. queue \in Queue /\ n \in Queue /\ done(n) = done(queue)
    BY NoteOK DEF QueueOK
  <1>2. /\ n.in_box_hits = Capped(queue.in_box_hits + 1, MinHits)
        /\ n.best_fill = Larger(queue.best_fill, fill)
        /\ n.on_target = queue.on_target
        /\ n.fill_pct = queue.fill_pct /\ n.relaxed = queue.relaxed
    BY <1>1 DEF note, Queue
  <1> HIDE DEF n
  <1>3. fill >= FillFloor /\ fill >= queue.best_fill /\ n.best_fill = fill
    <2> DEFINE best == queue.best_fill
    <2>1. best \in Nat /\ fill >= Larger(FillFloor, best)
          /\ n.best_fill = Larger(best, fill)
      BY <1>1, <1>2, QueueFields
    <2> HIDE DEF best
    <2>2. fill >= FillFloor /\ fill >= best /\ Larger(best, fill) = fill
      BY <2>1, QueueAssumption DEF Larger
    <2> QED
      BY <2>1, <2>2 DEF best
  <1>4. Judged(TRUE, fill) = maybe_relax(n)
    BY DEF Judged, n
  <1>5. CASE queue.in_box_hits < MinHits
    <2>1. n.in_box_hits > queue.in_box_hits
      BY <1>1, <1>2, <1>5, QueueFields, QueueAssumption DEF Capped
    <2>2. maybe_relax(n).in_box_hits >= n.in_box_hits
      BY <1>1, RelaxNoLess DEF NoLess
    <2>3. maybe_relax(n) \in Queue
      BY <1>1, RelaxOK, NoteOK DEF QueueOK, n
    <2>4. /\ maybe_relax(n).in_box_hits \in Nat /\ n.in_box_hits \in Nat
          /\ queue.in_box_hits \in Nat
      BY <1>1, <2>3, QueueFields, QueueAssumption
    <2> DEFINE h1 == queue.in_box_hits
               h2 == n.in_box_hits
               h3 == maybe_relax(n).in_box_hits
    <2>5. h1 \in Nat /\ h2 \in Nat /\ h3 \in Nat /\ h2 > h1 /\ h3 >= h2
      BY <2>1, <2>2, <2>4
    <2> HIDE DEF h1, h2, h3
    <2>6. h3 > h1
      BY <2>5
    <2> QED
      BY <1>4, <2>6 DEF h1, h3
  <1>6. CASE ~(queue.in_box_hits < MinHits)
    <2>1. n.in_box_hits >= MinHits
      BY <1>1, <1>2, <1>6, QueueFields, QueueAssumption DEF Capped
    <2>2. CASE Plateaued(n)
      <3>1. maybe_relax(n) = [n EXCEPT !.fill_pct = Lowered(n), !.relaxed = TRUE]
        BY <1>3, <2>2, QueueAssumption DEF maybe_relax
      <3>2. maybe_relax(n).fill_pct = Lowered(n)
        BY <1>1, <3>1 DEF Queue
      <3>3. Lowered(n) <= fill
        BY <1>3, QueueAssumption DEF Lowered, Larger
      <3> QED
        BY <1>4, <3>2, <3>3
    <2>3. CASE ~Plateaued(n)
      <3>1. maybe_relax(n) = n
        BY <2>3 DEF maybe_relax
      <3>2. n.relaxed \/ n.best_fill >= n.fill_pct
        <4>1. n.best_fill \in Nat /\ n.fill_pct \in Nat
          BY <1>1, QueueFields
        <4> QED
          BY <1>1, <1>2, <2>1, <2>3, <4>1 DEF Plateaued
      <3>3. n.relaxed => queue.best_fill >= queue.fill_pct
        BY <1>2 DEF QueueOK, RelaxedIsReachable
      <3>4. /\ queue.best_fill \in Nat /\ queue.fill_pct \in Nat
        BY <1>1, QueueFields
      <3>5. fill >= n.fill_pct
        BY <1>2, <1>3, <3>2, <3>3, <3>4
      <3> QED
        BY <1>4, <3>1, <3>5
    <2> QED
      BY <2>2, <2>3
  <1> QED
    BY <1>5, <1>6

LEMMA JudgedCounts ==
    ASSUME LoopInv, queue # NoQueue, AdaptAfter > 0
    PROVE  EffortCounts
  <1> SUFFICES ASSUME NEW fill \in Fills, TimersRun, Judge(TRUE, fill),
                      fill >= Larger(FillFloor, queue.best_fill)
               PROVE  views' = views + 1
                        \/ queue'.in_box_hits > queue.in_box_hits
    BY DEF EffortCounts
  <1>1. CASE Accept(TRUE, fill)
    BY <1>1 DEF Accept
  <1>2. CASE Reject(TRUE, fill)
    <2>1. fill \in Nat
      BY FillsAreNumbers
    <2>2. QueueOK(queue) /\ ~done(queue)
      BY <1>2 DEF Reject, LoopInv
    <2>3. \/ fill >= Judged(TRUE, fill).fill_pct
          \/ Judged(TRUE, fill).in_box_hits > queue.in_box_hits
      BY <2>1, <2>2, ReadyToAccept DEF TimersRun
    <2>4. ~(fill >= Judged(TRUE, fill).fill_pct)
      BY <1>2 DEF Reject, Acceptable, TimersRun
    <2>5. queue' = Judged(TRUE, fill)
      BY <1>2 DEF Reject
    <2> QED
      BY <2>3, <2>4, <2>5
  <1> QED
    BY <1>1, <1>2 DEF Judge

LEMMA StepsKeepEffort ==
    ASSUME LoopInv, queue # NoQueue, [Next]_vars
    PROVE  EffortIsKept
  <1>1. QueueOK(queue) /\ queue \in Queue
    BY DEF LoopInv, QueueOK
  <1>2. SUFFICES ASSUME queue'.index = queue.index
                 PROVE  NoLess(queue', queue)
    BY DEF EffortIsKept, NoLess
  <1>3. CASE queue' = queue
    BY <1>1, <1>3, QueueFields
  <1>4. CASE TakeSkip
    <2>1. queue'.index = queue.index + 1
      BY <1>1, <1>4, AdvanceOK DEF TakeSkip, QueueOK
    <2> QED
      BY <1>1, <1>2, <2>1, QueueFields
  <1>5. ASSUME NEW inside \in BOOLEAN, NEW fill \in Nat, Judge(inside, fill)
        PROVE  NoLess(queue', queue)
    <2> DEFINE q == Judged(inside, fill)
    <2>1. QueueOK(q) /\ q.index = queue.index /\ NoLess(q, queue)
      BY <1>1, JudgedOK, JudgedNoLess
    <2>2. queue' = q \/ queue' = accept(q)
      BY <1>5 DEF Judge, Reject, Accept
    <2> HIDE DEF q
    <2>3. CASE queue' = q
      BY <2>1, <2>3
    <2>4. CASE queue' = accept(q)
      <3>1. accept(q).index = q.index
        BY <1>2, <2>1, <2>4
      <3>2. NoLess(accept(q), q)
        BY <2>1, <3>1, AcceptNoLess
      <3>3. ~done(q)
        BY <1>5, JudgedOK DEF Judge, Reject, Accept, LoopInv, q
      <3>4. accept(q) \in Queue /\ q \in Queue
        BY <2>1, <3>3, AcceptOK DEF QueueOK
      <3> HIDE DEF q
      <3>5. NoLess(accept(q), queue)
        BY <1>1, <2>1, <3>2, <3>4, QueueFields DEF NoLess
      <3> QED
        BY <2>4, <3>5
    <2> QED
      BY <2>2, <2>3, <2>4
  <1>6. CASE Tick
    <2>1. queue' = [queue EXCEPT !.on_target = Capped(@ + 1, AdaptAfter)]
      BY <1>6 DEF Tick
    <2>2. /\ queue'.in_box_hits = queue.in_box_hits
          /\ queue'.best_fill = queue.best_fill
          /\ queue'.fill_pct = queue.fill_pct
          /\ queue'.on_target = Capped(queue.on_target + 1, AdaptAfter)
      BY <1>1, <2>1 DEF Queue
    <2>3. Capped(queue.on_target + 1, AdaptAfter) >= queue.on_target
      BY <1>1, QueueFields, QueueAssumption DEF Capped
    <2> QED
      BY <1>1, <2>2, <2>3, QueueFields DEF NoLess
  <1>7. CASE ~Sampling
    BY <1>3, <1>7, CaptureSteps DEF Beginning, BeginCapture, Preparing, Elsewhere
  <1>8. Fills \subseteq Nat
    BY FillsAreNumbers
  <1>9. (\E inside \in BOOLEAN, fill \in Nat : Judge(inside, fill))
          \/ ~(Reject(FALSE, 0) \/ \E fill \in Fills : Judge(TRUE, fill))
    BY <1>8 DEF Judge
  <1>10. CASE Sampling /\ (PressEnter \/ TypeStop \/ GiveUpOpening \/ EndOfFile
                             \/ NextFrame \/ Decide \/ NoSkip \/ Interrupt)
    BY <1>3, <1>10 DEF PressEnter, TypeStop, GiveUpOpening, EndOfFile, NextFrame,
                       Decide, NoSkip, Interrupt
  <1>11. ASSUME NEW targets \in TargetLists
         PROVE  ~FirstFrame(targets)
    BY DEF FirstFrame
  <1> QED
    BY <1>4, <1>5, <1>6, <1>7, <1>9, <1>10, <1>11
    DEF Sampling, Loop, Frame, Step, Operator

\* The steps behind SteadyEffortCompletes, for any tables, fills and timers:
\* effort is never lost, and with the timers run a frame as good as the best so
\* far is a view or one of at most MinHits others (calibrate_camera.py:836-888,
\* 1362-1368).
THEOREM EffortAlwaysPays == Spec => EffortPays
  <1>1. ASSUME LoopInv, queue # NoQueue, [Next]_vars
        PROVE  EffortIsKept /\ (AdaptAfter > 0 => EffortCounts)
    BY <1>1, StepsKeepEffort, JudgedCounts
  <1>2. FlagsInv => LoopInv
    BY DEF FlagsInv
  <1> DEFINE Pays == EffortIsKept /\ (AdaptAfter > 0 => EffortCounts)
  <1>3. LoopInv /\ [Next]_vars => [queue # NoQueue => Pays]_vars
    BY <1>1
  <1> QED
    BY <1>2, <1>3, FlagsCorrect, PTL DEF Spec, EffortPays

-----------------------------------------------------------------------------
(***************************************************************************)
(* Progress. What is left is what the target at hand still wants and what  *)
(* the later ones want; a method moves what it takes from one to the other. *)
(***************************************************************************)
LEMMA WantsAreNumbers ==
    ASSUME NEW targets \in Seq(Target)
    PROVE  /\ Len(targets) \in Nat
           /\ \A i \in 1..Len(targets) : targets[i].n \in Nat
  <1>1. \A i \in 1..Len(targets) : targets[i] \in Target
    OBVIOUS
  <1>2. \A t \in Target : t.n \in Nat
    BY DEF Target
  <1> QED
    BY <1>1, <1>2

\* What the targets from i on want: their recursive definition has a solution.
WantedFrom(targets, g, i) ==
    IF i > Len(targets) THEN 0 ELSE targets[i].n + g[i + 1]

LEMMA WantedExists ==
    ASSUME NEW targets \in Seq(Target)
    PROVE  \E g \in [1..(Len(targets) + 1) -> Nat] :
              \A i \in 1..(Len(targets) + 1) : g[i] = WantedFrom(targets, g, i)
  <1> DEFINE L == Len(targets)
             Partial(k) == \E g \in [1..(L + 1) -> Nat] :
                              \A i \in (L + 1 - k)..(L + 1) :
                                  g[i] = WantedFrom(targets, g, i)
             P == {k \in Nat : k <= L => Partial(k)}
  <1>1. L \in Nat /\ \A i \in 1..L : targets[i].n \in Nat
    BY WantsAreNumbers
  <1>2. \A g, i : WantedFrom(targets, g, i)
                   = IF i > L THEN 0 ELSE targets[i].n + g[i + 1]
    BY DEF WantedFrom
  <1> HIDE DEF L
  <1>3. 0 \in P
    <2> DEFINE g == [i \in 1..(L + 1) |-> 0]
    <2>1. /\ g \in [1..(L + 1) -> Nat]
          /\ \A i \in (L + 1 - 0)..(L + 1) : g[i] = WantedFrom(targets, g, i)
      BY <1>1, <1>2
    <2> QED
      BY <2>1
  <1>4. ASSUME NEW k \in P PROVE k + 1 \in P
    <2> SUFFICES ASSUME k + 1 <= L PROVE Partial(k + 1)
      BY <1>4
    <2>1. k \in Nat /\ k <= L
      BY <1>1, <1>4
    <2>2. PICK g \in [1..(L + 1) -> Nat] :
              \A i \in (L + 1 - k)..(L + 1) : g[i] = WantedFrom(targets, g, i)
      BY <1>4, <2>1
    <2> DEFINE m == L - k
               h == [g EXCEPT ![m] = targets[m].n + g[m + 1]]
    <2>3. m \in 1..L /\ m + 1 \in 1..(L + 1) /\ L + 1 - (k + 1) = m
      BY <1>1, <2>1
    <2>4. targets[m].n + g[m + 1] \in Nat
      <3>1. targets[m].n \in Nat /\ g[m + 1] \in Nat
        <4>1. targets[m].n \in Nat
          BY <1>1, <2>3
        <4>2. g[m + 1] \in Nat
          BY <2>2, <2>3
        <4> QED
          BY <4>1, <4>2
      <3> DEFINE n == targets[m].n
                 rest == g[m + 1]
      <3>2. n \in Nat /\ rest \in Nat
        BY <3>1
      <3> HIDE DEF n, rest
      <3>3. n + rest \in Nat
        BY <3>2
      <3> QED
        BY <3>3 DEF n, rest
    <2>5. h \in [1..(L + 1) -> Nat]
      <3> DEFINE v == targets[m].n + g[m + 1]
      <3>1. v \in Nat /\ h = [g EXCEPT ![m] = v]
        BY <2>4
      <3> HIDE DEF h, v, m
      <3> QED
        BY <2>2, <3>1
    <2>6. ASSUME NEW i \in m..(L + 1)
          PROVE  h[i] = WantedFrom(targets, h, i)
      <3>1. CASE i = m
        <4>1. h[m] = targets[m].n + g[m + 1] /\ h[m + 1] = g[m + 1]
          <5> DEFINE v == targets[m].n + g[m + 1]
          <5>1. m \in 1..(L + 1) /\ m + 1 \in 1..(L + 1) /\ m + 1 # m
            BY <1>1, <2>3
          <5>2. h = [g EXCEPT ![m] = v]
            OBVIOUS
          <5> HIDE DEF h, v, m
          <5>3. h[m] = v /\ h[m + 1] = g[m + 1]
            BY <2>2, <5>1, <5>2
          <5> QED
            BY <5>3 DEF v
        <4>2. ~(m > L)
          BY <1>1, <2>3
        <4> HIDE DEF h, m
        <4> QED
          BY <1>2, <3>1, <4>1, <4>2
      <3>2. CASE i # m
        <4>1. i \in (L + 1 - k)..(L + 1) /\ i # m /\ i + 1 # m
          BY <1>1, <2>1, <2>3, <3>2
        <4>2. h[i] = g[i] /\ (i <= L => h[i + 1] = g[i + 1])
          BY <1>1, <2>1, <2>2, <2>3, <4>1
        <4>3. g[i] = WantedFrom(targets, g, i)
          BY <2>2, <4>1
        <4>4. i > L \/ i <= L
          BY <1>1, <2>3
        <4> HIDE DEF h, m
        <4> QED
          BY <1>1, <1>2, <4>2, <4>3, <4>4
      <3> QED
        BY <3>1, <3>2
    <2> QED
      BY <2>3, <2>5, <2>6
  <1>5. P = Nat
    <2> HIDE DEF P
    <2>1. P \in SUBSET Nat
      BY DEF P
    <2> QED
      BY <1>3, <1>4, <2>1, EveryNatural
  <1>6. Partial(L)
    <2>1. L \in P
      BY <1>1, <1>5, Zenon
    <2> QED
      BY <1>1, <2>1
  <1>7. (L + 1 - L)..(L + 1) = 1..(L + 1)
    BY <1>1
  <1> QED
    BY <1>6, <1>7 DEF L

\* Wanted is that solution.
LEMMA WantedAdds ==
    ASSUME NEW targets \in Seq(Target)
    PROVE  LET W == Wanted(targets)
               L == Len(targets)
           IN  /\ W[L + 1] = 0
               /\ \A i \in 1..L : W[i] = targets[i].n + W[i + 1]
               /\ \A i \in 1..(L + 1) : W[i] \in Nat
  <1> DEFINE L == Len(targets)
             W == Wanted(targets)
             Solves(g) == g = [i \in 1..(L + 1) |->
                                  IF i > L THEN 0 ELSE targets[i].n + g[i + 1]]
  <1>1. PICK g \in [1..(L + 1) -> Nat] :
            \A i \in 1..(L + 1) : g[i] = WantedFrom(targets, g, i)
    BY WantedExists
  <1>2. Solves(g)
    BY <1>1 DEF WantedFrom
  <1>3. W = CHOOSE h : Solves(h)
    BY DEF Wanted
  <1>4. Solves(W)
    <2> HIDE DEF Solves, W
    <2> QED
      BY <1>2, <1>3
  <1>5. L \in Nat /\ \A i \in 1..L : targets[i].n \in Nat
    BY WantsAreNumbers
  <1> HIDE DEF L, W
  <1>6. W[L + 1] = 0 /\ \A i \in 1..L : W[i] = targets[i].n + W[i + 1]
    <2>1. \A i \in 1..(L + 1) : W[i] = IF i > L THEN 0 ELSE targets[i].n + W[i + 1]
      BY <1>4
    <2> HIDE DEF Solves
    <2> QED
      BY <1>5, <2>1
  <1> HIDE DEF Solves
  <1> DEFINE P == {k \in Nat : k <= L => W[L + 1 - k] \in Nat}
  <1>7. P = Nat
    <2>1. 0 \in P
      BY <1>5, <1>6
    <2>2. ASSUME NEW k \in P PROVE k + 1 \in P
      <3> SUFFICES ASSUME k + 1 <= L PROVE W[L + 1 - (k + 1)] \in Nat
        BY <2>2
      <3> DEFINE m == L - k
      <3>1. m \in 1..L /\ L + 1 - (k + 1) = m /\ L + 1 - k = m + 1
        BY <1>5, <2>2
      <3>2. W[m + 1] \in Nat /\ targets[m].n \in Nat
        BY <1>5, <2>2, <3>1
      <3> HIDE DEF m
      <3>3. W[m] \in Nat
        BY <1>6, <3>1, <3>2
      <3> QED
        BY <3>1, <3>3
    <2> HIDE DEF P
    <2>3. P \in SUBSET Nat
      BY DEF P
    <2> QED
      BY <2>1, <2>2, <2>3, EveryNatural
  <1>8. ASSUME NEW i \in 1..(L + 1) PROVE W[i] \in Nat
    <2> DEFINE k == L + 1 - i
    <2>1. k \in Nat /\ k <= L /\ L + 1 - k = i
      BY <1>5
    <2> HIDE DEF k
    <2>2. k \in P
      BY <1>7, <2>1
    <2> QED
      BY <2>1, <2>2
  <1> QED
    BY <1>6, <1>8 DEF L, W

Left(q) == IF done(q) THEN 0 ELSE q.remaining + Wanted(q.targets)[q.index + 1]

Adds(q) ==
    /\ q.index \in 1..(Len(q.targets) + 1)
    /\ q.taken + Left(q) = total_samples(q)

LEMMA LeftTyped ==
    ASSUME NEW q \in Queue, q.index \in 1..(Len(q.targets) + 1)
    PROVE  /\ Left(q) \in Nat /\ total_samples(q) \in Nat
           /\ Wanted(q.targets)[q.index] \in Nat
           /\ done(q) <=> q.index = Len(q.targets) + 1
           /\ ~done(q) => Wanted(q.targets)[q.index + 1] \in Nat
  <1> DEFINE L == Len(q.targets)
             W == Wanted(q.targets)
  <1>1. q.targets \in Seq(Target) /\ q.remaining \in Nat /\ L \in Nat
    BY DEF Queue
  <1>2. \A i \in 1..(L + 1) : W[i] \in Nat
    BY <1>1, WantedAdds
  <1>3. done(q) <=> q.index = L + 1
    BY <1>1 DEF done
  <1> HIDE DEF W, L
  <1>4. W[1] \in Nat /\ W[q.index] \in Nat
        /\ (~done(q) => q.index + 1 \in 1..(L + 1) /\ W[q.index + 1] \in Nat)
    BY <1>1, <1>2, <1>3 DEF L
  <1>5. Left(q) \in Nat
    BY <1>1, <1>4 DEF Left, W
  <1> QED
    BY <1>3, <1>4, <1>5 DEF total_samples, W, L

\* load() asks for what the target at hand wants, or leaves a finished queue.
LEMMA LoadLeaves ==
    ASSUME NEW q \in Queue, q.index \in 1..(Len(q.targets) + 1)
    PROVE  /\ Left(load(q)) = Wanted(q.targets)[q.index]
           /\ load(q).taken = q.taken /\ load(q).targets = q.targets
           /\ load(q).index = q.index
  <1> DEFINE L == Len(q.targets)
             W == Wanted(q.targets)
             r == load(q)
  <1>1. q.targets \in Seq(Target) /\ L \in Nat
    BY DEF Queue
  <1>2. W[L + 1] = 0 /\ \A i \in 1..L : W[i] = q.targets[i].n + W[i + 1]
    BY <1>1, WantedAdds
  <1>3. done(q) <=> q.index = L + 1
    BY LeftTyped
  <1>4. r.taken = q.taken /\ r.targets = q.targets /\ r.index = q.index
    BY DEF load, Queue
  <1>5. Left(r) = IF done(q) THEN 0 ELSE r.remaining + W[q.index + 1]
    BY <1>4 DEF Left, done
  <1>6. ~done(q) => r.remaining = q.targets[q.index].n
    BY DEF load, Queue
  <1> HIDE DEF W, r
  <1>7. Left(r) = W[q.index]
    <2>1. CASE done(q)
      BY <1>2, <1>3, <1>5, <2>1
    <2>2. CASE ~done(q)
      <3>1. q.index \in 1..L
        BY <1>1, <1>3, <2>2
      <3> QED
        BY <1>2, <1>5, <1>6, <2>2, <3>1
    <2> QED
      BY <2>1, <2>2
  <1> QED
    BY <1>4, <1>7 DEF W, r

LEMMA NewQueueAdds ==
    ASSUME NEW targets \in Seq(Target)
    PROVE  Adds(NewQueue(targets)) /\ NewQueue(targets).taken = 0
  <1> DEFINE q == [targets |-> targets, index |-> 1, taken |-> 0, remaining |-> 0,
          fill_pct |-> 0, best_fill |-> 0, in_box_hits |-> 0,
          on_target |-> 0, relaxed |-> FALSE, warned |-> FALSE]
  <1>1. q \in Queue /\ q.index = 1 /\ q.taken = 0 /\ q.targets = targets
    BY QueueAssumption DEF Queue
  <1>2. q.index \in 1..(Len(q.targets) + 1)
    <2>1. Len(q.targets) \in Nat
      BY <1>1
    <2> HIDE DEF q
    <2> QED
      BY <1>1, <2>1
  <1>3. NewQueue(targets) = load(q)
    BY DEF NewQueue
  <1> HIDE DEF q
  <1> DEFINE r == load(q)
  <1>4. /\ Left(r) = Wanted(q.targets)[1] /\ r.taken = 0
        /\ r.targets = q.targets /\ r.index = 1
    BY <1>1, <1>2, LoadLeaves
  <1>5. Wanted(q.targets)[1] \in Nat
    BY <1>1, <1>2, LeftTyped
  <1> HIDE DEF r
  <1>6. Adds(r)
    BY <1>1, <1>2, <1>4, <1>5 DEF Adds, total_samples
  <1> QED
    BY <1>3, <1>4, <1>6 DEF r

\* A skip takes what the target still wanted; leaving a target that wants
\* nothing more takes nothing.
LEMMA AdvanceAdds ==
    ASSUME NEW q \in Queue, Adds(q), ~done(q), NEW count \in BOOLEAN,
           count \/ q.remaining = 0
    PROVE  LET r == advance(q, count)
           IN  /\ Adds(r)
               /\ r.taken = IF count THEN q.taken + q.remaining ELSE q.taken
  <1> DEFINE s == [q EXCEPT !.taken = IF count THEN @ + q.remaining ELSE @,
                            !.index = @ + 1]
             r == advance(q, count)
             W == Wanted(q.targets)
  <1>1. /\ q.index \in Nat /\ q.taken \in Nat /\ q.remaining \in Nat
        /\ q.index + 1 \in Nat \ {0} /\ Len(q.targets) \in Nat
        /\ (IF count THEN q.taken + q.remaining ELSE q.taken) \in Nat
    BY DEF Queue
  <1>2. /\ s \in Queue /\ s.targets = q.targets /\ s.index = q.index + 1
        /\ s.taken = IF count THEN q.taken + q.remaining ELSE q.taken
    BY <1>1 DEF Queue
  <1>3. r = load(s)
    BY DEF advance
  <1>4. q.index + 1 \in 1..(Len(q.targets) + 1)
    BY <1>1 DEF Adds, done
  <1> HIDE DEF s, r
  <1>5. /\ Left(r) = W[q.index + 1] /\ r.taken = s.taken
        /\ r.targets = q.targets /\ r.index = q.index + 1
    BY <1>2, <1>3, <1>4, LoadLeaves
  <1>6. q.taken + (q.remaining + W[q.index + 1]) = total_samples(q)
    BY DEF Adds, Left
  <1>7. W[q.index + 1] \in Nat
    BY LeftTyped DEF Adds
  <1>8. total_samples(r) = total_samples(q)
    BY <1>5 DEF total_samples
  <1> HIDE DEF W
  <1>9. r.taken + Left(r) = total_samples(r)
    BY <1>1, <1>2, <1>5, <1>6, <1>7, <1>8
  <1> QED
    BY <1>2, <1>4, <1>5, <1>9 DEF Adds, r

\* A sample is one the target at hand wanted.
LEMMA AcceptAdds ==
    ASSUME NEW q, QueueOK(q), Adds(q), ~done(q)
    PROVE  Adds(accept(q)) /\ accept(q).taken = q.taken + 1
  <1> DEFINE r == [q EXCEPT !.taken = @ + 1, !.remaining = @ - 1]
  <1>1. /\ q \in Queue /\ q.remaining - 1 \in Nat /\ q.taken + 1 \in Nat
        /\ q.remaining \in Nat /\ q.taken \in Nat
    BY DEF QueueOK, Queue
  <1>2. r \in Queue
    BY <1>1 DEF Queue
  <1>3. /\ r.index = q.index /\ r.remaining = q.remaining - 1
        /\ r.taken = q.taken + 1 /\ r.targets = q.targets
    BY <1>1 DEF Queue
  <1>4. accept(q) = IF r.remaining <= 0 THEN advance(r, FALSE) ELSE r
    BY DEF accept
  <1> HIDE DEF r
  <1>5. ~done(r) /\ Left(r) = Left(q) - 1
    <2>1. ~done(r)
      BY <1>3 DEF done
    <2>2. /\ Left(r) = (q.remaining - 1) + Wanted(q.targets)[q.index + 1]
          /\ Left(q) = q.remaining + Wanted(q.targets)[q.index + 1]
      BY <1>3, <2>1 DEF Left
    <2>3. Wanted(q.targets)[q.index + 1] \in Nat
      BY <1>1, LeftTyped DEF Adds
    <2> QED
      BY <1>1, <2>1, <2>2, <2>3
  <1>6. Adds(r)
    <2>1. Left(q) \in Nat /\ q.taken + Left(q) = total_samples(q)
      BY <1>1, LeftTyped DEF Adds
    <2>2. total_samples(r) = total_samples(q)
      BY <1>3 DEF total_samples
    <2>3. r.taken + Left(r) = total_samples(r)
      BY <1>1, <1>3, <1>5, <2>1, <2>2
    <2> QED
      BY <1>3, <2>3 DEF Adds
  <1>7. CASE r.remaining <= 0
    <2>1. r.remaining = 0
      BY <1>1, <1>3, <1>7
    <2>2. Adds(advance(r, FALSE)) /\ advance(r, FALSE).taken = r.taken
      BY <1>2, <1>5, <1>6, <2>1, AdvanceAdds
    <2> QED
      BY <1>3, <1>4, <1>7, <2>2
  <1>8. CASE ~(r.remaining <= 0)
    BY <1>3, <1>4, <1>6, <1>8
  <1> QED
    BY <1>7, <1>8

\* Nothing else that happens to a queue moves its progress.
LEMMA SameProgress ==
    ASSUME NEW q, NEW r, Adds(q), r.targets = q.targets, r.index = q.index,
           r.taken = q.taken, r.remaining = q.remaining
    PROVE  Adds(r)
  BY DEF Adds, Left, done, total_samples

LEMMA JudgedAdds ==
    ASSUME QueueOK(queue), Adds(queue), NEW inside \in BOOLEAN, NEW fill \in Nat
    PROVE  Adds(Judged(inside, fill)) /\ Judged(inside, fill).taken = queue.taken
  <1> DEFINE n == note(queue, inside, fill)
             r == maybe_relax(n)
  <1>1. /\ n.targets = queue.targets /\ n.index = queue.index
        /\ n.taken = queue.taken /\ n.remaining = queue.remaining
    BY DEF note, QueueOK, Queue
  <1>2. QueueOK(n)
    BY NoteOK
  <1> HIDE DEF n
  <1>3. /\ r.targets = n.targets /\ r.index = n.index
        /\ r.taken = n.taken /\ r.remaining = n.remaining
    BY <1>2 DEF maybe_relax, QueueOK, Queue
  <1> HIDE DEF r
  <1>4. Adds(r) /\ r.taken = queue.taken
    BY <1>1, <1>3, SameProgress
  <1> QED
    BY <1>4 DEF Judged, r, n

\* Before the first frame there is no view and nothing was forfeited.
Early == {"resolving", "preview", "opening"}

ProgressInv ==
    /\ stage \in Early \/ (stage = "sampling" /\ queue = NoQueue)
          => views = 0 /\ forfeited = 0
    /\ queue # NoQueue =>
          /\ Adds(queue)
          /\ pc # "interrupted" => queue.taken = views + forfeited

LEMMA ProgressSampling ==
    ASSUME LoopInv, ProgressInv, Sampling
    PROVE  ProgressInv'
  <1> USE DEF ProgressInv, Early, Sampling, Goto, LoopStays
  <1>1. views \in Nat /\ forfeited \in Nat
    BY DEF LoopInv, CaptureTypeOK
  <1>2. CASE PressEnter \/ TypeStop \/ GiveUpOpening \/ EndOfFile \/ NextFrame
               \/ Decide \/ NoSkip
    <2>1. UNCHANGED <<queue, views, forfeited>> /\ pc # "interrupted"
      BY <1>2 DEF PressEnter, TypeStop, GiveUpOpening, EndOfFile, NextFrame,
                  Decide, NoSkip, Running
    <2> QED
      BY <2>1
  <1>3. CASE Interrupt
    BY <1>3 DEF Interrupt
  <1>4. ASSUME NEW targets \in TargetLists, FirstFrame(targets)
        PROVE  ProgressInv'
    <2>1. queue = NoQueue /\ UNCHANGED <<views, forfeited>>
      BY <1>4 DEF FirstFrame
    <2>2. views = 0 /\ forfeited = 0
      BY <2>1
    <2>3. queue' = NoQueue \/ queue' = NewQueue(targets)
      BY <1>4, <2>1 DEF FirstFrame
    <2>4. Adds(NewQueue(targets)) /\ NewQueue(targets).taken = 0
      BY NewQueueAdds, CaptureLoopAssumption
    <2> QED
      BY <2>1, <2>2, <2>3, <2>4
  <1>5. CASE TakeSkip
    <2>1. /\ queue # NoQueue /\ QueueOK(queue) /\ ~done(queue)
          /\ pc = "skipping"
      BY <1>5 DEF TakeSkip, LoopInv
    <2>2. queue \in Queue /\ queue.remaining \in Nat /\ queue.taken \in Nat
      BY <2>1 DEF QueueOK, Queue
    <2>3. /\ Adds(advance(queue, TRUE))
          /\ advance(queue, TRUE).taken = queue.taken + queue.remaining
          /\ advance(queue, TRUE) # NoQueue
      <3>1. advance(queue, TRUE) \in Queue
        BY <2>1, <2>2, AdvanceOK DEF QueueOK
      <3> QED
        BY <2>1, <2>2, <3>1, AdvanceAdds, CaptureLoopAssumption
    <2>4. /\ queue' = advance(queue, TRUE) /\ UNCHANGED views
          /\ forfeited' = forfeited + queue.remaining
      BY <1>5 DEF TakeSkip
    <2>5. queue.taken = views + forfeited
      BY <2>1
    <2>6. queue.taken + queue.remaining = views + (forfeited + queue.remaining)
      BY <1>1, <2>2, <2>5
    <2> QED
      BY <2>3, <2>4, <2>6
  <1>6. ASSUME NEW inside \in BOOLEAN, NEW fill \in Nat, Judge(inside, fill)
        PROVE  ProgressInv'
    <2> DEFINE q == Judged(inside, fill)
    <2>1. pc = "judging" /\ queue # NoQueue /\ QueueOK(queue) /\ ~done(queue)
      BY <1>6 DEF Judge, Reject, Accept, LoopInv
    <2>2. /\ QueueOK(q) /\ ~done(q) /\ Adds(q)
          /\ q.taken = queue.taken /\ q # NoQueue
      BY <2>1, JudgedOK, JudgedAdds, CaptureLoopAssumption DEF QueueOK
    <2> HIDE DEF q
    <2>3. q.taken = views + forfeited
      BY <2>1, <2>2
    <2>4. CASE Reject(inside, fill)
      <3>1. queue' = q /\ UNCHANGED <<views, forfeited>>
        BY <2>4 DEF Reject, q
      <3> QED
        BY <2>2, <2>3, <3>1
    <2>5. CASE Accept(inside, fill)
      <3>1. queue' = accept(q) /\ views' = views + 1 /\ UNCHANGED forfeited
        BY <2>5 DEF Accept, q
      <3>2. /\ Adds(accept(q)) /\ accept(q).taken = q.taken + 1
            /\ accept(q) # NoQueue
        BY <2>2, AcceptAdds, AcceptOK, CaptureLoopAssumption DEF QueueOK
      <3>3. q.taken + 1 = (views + 1) + forfeited
        BY <1>1, <2>3
      <3> QED
        BY <3>1, <3>2, <3>3
    <2> QED
      BY <1>6, <2>4, <2>5 DEF Judge
  <1>7. CASE Tick
    <2>1. UNCHANGED <<pc, views, forfeited>>
      BY <1>7 DEF Tick
    <2>2. CASE queue = NoQueue
      BY <1>7, <2>1, <2>2 DEF Tick
    <2>3. CASE queue # NoQueue
      <3> DEFINE r == [queue EXCEPT !.on_target = Capped(@ + 1, AdaptAfter)]
      <3>1. /\ r.targets = queue.targets /\ r.index = queue.index
            /\ r.taken = queue.taken /\ r.remaining = queue.remaining
        BY <2>3 DEF LoopInv, QueueOK, Queue
      <3>2. queue' = r
        BY <1>7, <2>3 DEF Tick
      <3>3. r # NoQueue
        BY <2>3, AgeOK, CaptureLoopAssumption DEF LoopInv, QueueOK
      <3> HIDE DEF r
      <3>4. Adds(r)
        BY <2>3, <3>1, SameProgress
      <3> QED
        BY <2>1, <2>3, <3>1, <3>2, <3>3, <3>4
    <2> QED
      BY <2>2, <2>3
  <1>8. Fills \subseteq Nat
    BY FillsAreNumbers
  <1>9. (\E inside \in BOOLEAN, fill \in Nat : Judge(inside, fill))
          \/ ~(Reject(FALSE, 0) \/ \E fill \in Fills : Judge(TRUE, fill))
    BY <1>8 DEF Judge
  <1> QED
    BY <1>2, <1>3, <1>4, <1>5, <1>6, <1>7, <1>9
    DEF Loop, Frame, Step, Operator

\* Until the capture opens nobody counts views, but for the images and the saved
\* points, which lead elsewhere.
LEMMA EarlySteps ==
    ASSUME [Next]_vars, ~Sampling, stage' \in Early \cup {"sampling"}
    PROVE  /\ stage \in Early \cup {"sampling"}
           /\ stage = "sampling" => stage' = "sampling"
           /\ UNCHANGED <<views, forfeited, queue>>
  <1> USE DEF Early
  <1>1. CASE Sample
    BY <1>1 DEF Sample, SampleRecords, Sampling
  <1>2. CASE Resolve
    BY <1>2 DEF Resolve, Refuse, LoadPoints, ListImages, ResolveCapture, Enter,
                Exit, Threads
  <1>3. CASE Images
    BY <1>3 DEF Images, ReadImage, ImagesRead, Enter
  <1>4. CASE Open
    BY <1>4 DEF Open, StartPreview, OpenCapture, OpenRefused, BeginCapture,
                Enter, Exit, Threads
  <1>5. CASE Finish
    BY <1>5 DEF Finish, LeaveLoop, Release, Close, ClosePreview,
                NoPreviewToClose, Record, Count, SavePoints, Solve,
                WriteResult, AfterCount, Enter, Exit, Threads
  <1>6. CASE Abort \/ Watch \/ Exited \/ UNCHANGED vars
    BY <1>6 DEF Abort, Watch, Exited, Exit, Threads, vars
  <1> QED
    BY <1>1, <1>2, <1>3, <1>4, <1>5, <1>6 DEF Next

LEMMA ProgressNext ==
    ASSUME LoopInv, ProgressInv, [Next]_vars
    PROVE  ProgressInv'
  <1>1. CASE Sampling
    BY <1>1, ProgressSampling
  <1>2. CASE ~Sampling
    <2>1. stage' \in Early \cup {"sampling"} =>
              /\ stage \in Early \cup {"sampling"}
              /\ stage = "sampling" => stage' = "sampling"
              /\ UNCHANGED <<views, forfeited, queue>>
      BY <1>2, EarlySteps
    <2>2. CASE Beginning
      <3>1. queue = NoQueue /\ UNCHANGED queue
        BY <2>2 DEF Beginning, BeginCapture, LoopInv, Before
      <3> QED
        BY <2>1, <2>2, <3>1 DEF ProgressInv, Early, Beginning
    <2>3. CASE Preparing
      <3>1. queue = NoQueue /\ UNCHANGED queue
        BY <2>3 DEF Preparing, LoopInv
      <3> QED
        BY <2>1, <2>3, <3>1 DEF ProgressInv, Early, Preparing, Before
    <2>4. CASE Elsewhere
      BY <2>1, <2>4 DEF Elsewhere, ProgressInv, Early
    <2> QED
      BY <1>2, <2>2, <2>3, <2>4, CaptureSteps
  <1> QED
    BY <1>1, <1>2

\* The progress bar is full exactly when the run is over, for any targets and
\* however samples, skips and advances alternate: nothing is counted twice, and
\* nothing that a skip gives up is forgotten (calibrate_camera.py:819, 877-888).
THEOREM ProgressAlwaysAddsUp == Spec => []ProgressAddsUp
  <1>1. Init => ProgressInv
    BY DEF Init, CaptureInit, ProgressInv
  <1>2. LoopInv /\ ProgressInv => ProgressAddsUp
    <2> SUFFICES ASSUME LoopInv, ProgressInv, queue # NoQueue
                 PROVE  ProgressIsExact(queue)
      BY DEF ProgressInv, ProgressAddsUp
    <2>1. QueueOK(queue) /\ queue \in Queue /\ Adds(queue)
      BY DEF LoopInv, QueueOK, ProgressInv
    <2>2. /\ Left(queue) \in Nat /\ total_samples(queue) \in Nat
          /\ queue.taken \in Nat
          /\ ~done(queue) => Wanted(queue.targets)[queue.index + 1] \in Nat
          /\ queue.taken + Left(queue) = total_samples(queue)
      BY <2>1, LeftTyped DEF Adds, Queue
    <2>3. done(queue) => Left(queue) = 0
      BY DEF Left
    <2>4. ~done(queue) => Left(queue) >= 1
      <3>1. ~done(queue) => queue.remaining >= 1 /\ queue.remaining \in Nat
        BY <2>1 DEF QueueOK, Queue
      <3> QED
        BY <2>2, <3>1 DEF Left
    <2>5. queue.taken = total_samples(queue) <=> done(queue)
      BY <2>2, <2>3, <2>4
    <2> QED
      BY <2>2, <2>5 DEF ProgressIsExact, Left
  <1>3. LoopInv /\ ProgressInv /\ [Next]_vars => LoopInv' /\ ProgressInv'
    BY LoopInvNext, ProgressNext
  <1> QED
    BY LoopAtInit, <1>1, <1>2, <1>3, PTL DEF Spec

-----------------------------------------------------------------------------
(***************************************************************************)
(* The preview: whoever may have something to say to a watcher notifies.   *)
(***************************************************************************)
LEMMA ServerSteps ==
    ASSUME [Next]_vars
    PROVE  \/ publish \/ StartServer \/ close \/ Shutdown
           \/ \E w \in Watchers : Handler(w) \/ Browser(w)
           \/ UNCHANGED serverVars
  <1>1. CASE Sample
    <2>1. Loop \/ Operator \/ Tick
      BY <1>1 DEF Sample
    <2>2. CASE Operator \/ Tick
      BY <2>2 DEF Operator, PressEnter, TypeStop, Interrupt, Tick
    <2>3. CASE Frame \/ GiveUpOpening \/ EndOfFile
      BY <2>3 DEF Frame, FirstFrame, NextFrame, GiveUpOpening, EndOfFile
    <2>4. CASE Step
      BY <2>4 DEF Step, Decide, NoSkip, TakeSkip, Judge, Reject, Accept,
                  PublishPreview
    <2> QED
      BY <2>1, <2>2, <2>3, <2>4 DEF Loop
  <1>2. CASE Resolve \/ Images
    BY <1>2 DEF Resolve, Images, Refuse, LoadPoints, ListImages,
                ResolveCapture, ReadImage, ImagesRead, Threads
  <1>3. CASE Open
    BY <1>3 DEF Open, StartPreview, OpenCapture, OpenRefused, Threads
  <1>4. CASE Finish
    BY <1>4 DEF Finish, LeaveLoop, Release, Close, ClosePreview,
                NoPreviewToClose, Record, Count, SavePoints, Solve,
                WriteResult, Threads
  <1>5. CASE Abort \/ Watch \/ Exited \/ UNCHANGED vars
    BY <1>5 DEF Abort, Watch, Exited, Threads, vars
  <1> QED
    BY <1>1, <1>2, <1>3, <1>4, <1>5 DEF Next

LEMMA ServerNext ==
    ASSUME ServerTypeOK, NobodyOversleeps, [Next]_vars
    PROVE  ServerTypeOK' /\ NobodyOversleeps'
  <1> USE DEF ServerTypeOK, NobodyOversleeps, HasNews, Places
  <1>1. CASE publish \/ close
    <2>1. Woken \in [Watchers -> Places]
      BY DEF Woken
    <2>2. \A w \in Watchers : Woken[w] # "waiting"
      BY DEF Woken
    <2>3. CASE UNCHANGED serverVars
      BY <2>3 DEF serverVars
    <2> QED
      BY <1>1, <2>1, <2>2, <2>3 DEF publish, close
  <1>2. CASE StartServer \/ Shutdown
    <2>1. UNCHANGED <<jpeg, unseen, closed, watcher>> /\ serving' \in BOOLEAN
      BY <1>2 DEF StartServer, Shutdown
    <2> QED
      BY <2>1
  <1>3. ASSUME NEW w \in Watchers, Handler(w)
        PROVE  ServerTypeOK' /\ NobodyOversleeps'
    BY <1>3 DEF Handler, Dismiss, Take, FallAsleep, WaitTimesOut, Moves
  <1>4. ASSUME NEW w \in Watchers, Browser(w)
        PROVE  ServerTypeOK' /\ NobodyOversleeps'
    BY <1>4 DEF Browser, Connect, Written, BrowserLeft, Moves
  <1>5. CASE UNCHANGED serverVars
    BY <1>5
  <1> QED
    BY <1>1, <1>2, <1>3, <1>4, <1>5, ServerSteps

LEMMA ServerAtInit == Init => ServerTypeOK /\ NobodyOversleeps
  BY DEF Init, ServerInit, ServerTypeOK, NobodyOversleeps, Places

\* For any number of browsers: none sleeps through a frame it has not had, or
\* through the close (calibrate_camera.py:1019-1042).
THEOREM WatchersAreWoken == Spec => []NobodyOversleeps
  BY ServerAtInit, ServerNext, PTL DEF Spec

\* For any number of browsers: while the server is open, one leaves only from
\* a write (calibrate_camera.py:1014-1017).
THEOREM WatchersAreKept == Spec => KeptUntilClosed
  <1> DEFINE Stays(w) == watcher[w] = "testing" /\ watcher'[w] = "gone" => closed
  <1>1. ServerTypeOK /\ NobodyOversleeps /\ [Next]_vars
          => [\A w \in Watchers : Stays(w)]_serverVars
    <2> SUFFICES ASSUME ServerTypeOK, [Next]_vars, ~UNCHANGED serverVars,
                        NEW w \in Watchers
                 PROVE  Stays(w)
      OBVIOUS
    <2> USE DEF ServerTypeOK, Places
    <2>1. CASE publish \/ close
      BY <2>1 DEF publish, close, Woken
    <2>2. CASE StartServer \/ Shutdown
      BY <2>2 DEF StartServer, Shutdown
    <2>3. ASSUME NEW v \in Watchers, Handler(v) PROVE  Stays(w)
      BY <2>3 DEF Handler, Dismiss, Take, FallAsleep, WaitTimesOut, Moves, HasNews
    <2>4. ASSUME NEW v \in Watchers, Browser(v) PROVE  Stays(w)
      BY <2>4 DEF Browser, Connect, Written, BrowserLeft, Moves
    <2> QED
      BY <2>1, <2>2, <2>3, <2>4, ServerSteps
  <1>2. Spec => []ServerTypeOK /\ []NobodyOversleeps
    BY ServerAtInit, ServerNext, PTL DEF Spec
  <1> QED
    BY <1>1, <1>2, PTL DEF Spec, KeptUntilClosed

-----------------------------------------------------------------------------
(***************************************************************************)
(* main(): what it knows of its views, and the name of the sink.           *)
(***************************************************************************)
\* The first sink of a pipeline, which is the one that is renamed.
LEMMA FirstSink ==
    ASSUME NEW p \in Seq(Elements), Sinks(p) # {}
    PROVE  \E i \in Sinks(p) : \A j \in Sinks(p) : i <= j
  <1>1. Sinks(p) \in SUBSET Nat
    BY DEF Sinks
  <1> QED
    BY <1>1, LeastNatural

\* The rename keeps the sinks, and gives the first a name OpenCV looks for.
LEMMA NormalisedIsFound ==
    ASSUME NEW p \in Seq(Elements)
    PROVE  /\ normalise_appsink(p) \in Seq(Elements)
           /\ Sinks(normalise_appsink(p)) # {} => OpenCVFinds(normalise_appsink(p))
  <1> DEFINE n == normalise_appsink(p)
  <1>1. n \in [1..Len(p) -> Elements]
    BY DEF normalise_appsink, Elements
  <1>2. n \in Seq(Elements)
    <2>1. Len(p) \in Nat
      OBVIOUS
    <2> HIDE DEF n
    <2> QED
      BY <1>1, <2>1, SeqDef
  <1>3. DOMAIN n = DOMAIN p /\ Sinks(n) = Sinks(p)
    BY DEF normalise_appsink, Sinks
  <1>4. ASSUME Sinks(p) # {} PROVE OpenCVFinds(n)
    <2>1. PICK i \in Sinks(p) : \A j \in Sinks(p) : i <= j
      BY <1>4, FirstSink
    <2>2. i \in Sinks(n) /\ n[i] # "sink"
      BY <1>3, <2>1 DEF normalise_appsink, Sinks
    <2> QED
      BY <2>2 DEF OpenCVFinds
  <1> QED
    BY <1>2, <1>3, <1>4

\* FailedRunIsKept as it becomes true: the detections are on disk, or came from
\* there, from the moment a solve may fail.
Kept ==
    verdict # "none" \/ stage \in {"solving", "writing"}
        => saved # "no" \/ command.source = "points"

MainTypeOK ==
    /\ stage \in Stages /\ command \in Commands
    /\ pipeline \in Seq(Elements)
    /\ files \in 0..MaxFiles
    /\ sized \in BOOLEAN
    /\ saved \in {"no", "yes", "failed"}
    /\ verdict \in {"none", "good", "poor"}
    /\ written \in BOOLEAN
    /\ status \in {"running", "passed", "failed"}

MainInv == MainTypeOK /\ SinkIsFound /\ Kept

LEMMA MainAtInit == Init => MainInv
  <1>1. 0 \in 0..MaxFiles /\ <<>> \in Seq(Elements)
    BY MainAssumption
  <1> QED
    BY <1>1 DEF Init, MainInv, MainTypeOK, Stages, SinkIsFound, Kept

LEMMA MainNext ==
    ASSUME MainInv, [Next]_vars
    PROVE  MainInv'
  <1> USE DEF MainInv, MainTypeOK, Stages, SinkIsFound, Kept, Exit, Enter,
              Sinks, OpenCVFinds
  <1>1. CASE Sample
    BY <1>1 DEF Sample, SampleRecords
  <1>2. CASE Refuse \/ \E n \in 0..MinViews : LoadPoints(n)
    BY <1>2 DEF Refuse, LoadPoints
  <1>3. CASE \E n \in 0..MaxFiles : ListImages(n)
    BY <1>3 DEF ListImages
  <1>4. ASSUME NEW p \in Pipelines, ResolveCapture(p) PROVE MainInv'
    <2>1. /\ p \in Seq(Elements) /\ <<>> \in Seq(Elements)
          /\ build_pipeline \in Seq(Elements)
      BY PipelineAssumption DEF Elements, build_pipeline
    <2> QED
      BY <1>4, <2>1 DEF ResolveCapture
  <1>5. CASE Images
    <2>1. ASSUME NEW readable \in BOOLEAN, NEW found \in BOOLEAN,
                 ReadImage(readable, found)
          PROVE  MainInv'
      <3>1. files > 0 /\ files - 1 \in 0..MaxFiles
        BY <2>1, MainAssumption DEF ReadImage
      <3> QED
        BY <2>1, <3>1 DEF ReadImage
    <2>2. CASE ImagesRead
      BY <2>2 DEF ImagesRead
    <2> QED
      BY <1>5, <2>1, <2>2 DEF Images
  <1>6. CASE Open
    <2>1. ASSUME NEW bound \in BOOLEAN, StartPreview(bound) PROVE MainInv'
      <3>1. /\ pipeline' = normalise_appsink(pipeline)
            /\ pipeline' \in Seq(Elements)
            /\ Sinks(pipeline') # {} => OpenCVFinds(pipeline')
        BY <2>1, NormalisedIsFound DEF StartPreview
      <3> QED
        BY <2>1, <3>1 DEF StartPreview
    <2>2. CASE OpenCapture
      <3>1. <<>> \in Seq(Elements)
        OBVIOUS
      <3> QED
        BY <2>2, <3>1 DEF OpenCapture
    <2>3. CASE OpenRefused
      BY <2>3 DEF OpenRefused
    <2> QED
      BY <1>6, <2>1, <2>2, <2>3 DEF Open
  <1>7. CASE LeaveLoop \/ (\E returned \in BOOLEAN : Release(returned)) \/ Close
    <2>1. CASE LeaveLoop
      BY <2>1 DEF LeaveLoop
    <2>2. ASSUME NEW returned \in BOOLEAN, Release(returned) PROVE MainInv'
      BY <2>2 DEF Release
    <2>3. CASE Close
      BY <2>3 DEF Close, ClosePreview, NoPreviewToClose
    <2> QED
      BY <1>7, <2>1, <2>2, <2>3
  <1>8. CASE Count \/ \E ok \in BOOLEAN : SavePoints(ok)
    BY <1>8 DEF Count, SavePoints, AfterCount
  <1>9. CASE \/ \E result \in {"good", "poor", "none"} : Solve(result)
             \/ \E ok \in BOOLEAN : WriteResult(ok)
    BY <1>9 DEF Solve, WriteResult
  <1>10. CASE Abort \/ Watch \/ Exited \/ UNCHANGED vars
    BY <1>10 DEF Abort, Watch, Exited, vars
  <1> QED
    BY <1>1, <1>2, <1>3, <1>4, <1>5, <1>6, <1>7, <1>8, <1>9, <1>10
    DEF Next, Resolve, Finish, Record

\* Whatever is asked for, typed, watched or refused, every variable keeps to its
\* values: no target wants less than nothing, no timer runs past its bound.
THEOREM TypeCorrect == Spec => []TypeOK
  <1>1. MainInv /\ FlagsInv /\ ServerTypeOK => TypeOK
    BY DEF MainInv, MainTypeOK, FlagsInv, LoopInv, TypeOK
  <1> QED
    BY <1>1, MainAtInit, MainNext, FlagsCorrect, ServerAtInit, ServerNext, PTL
    DEF Spec

\* For every pipeline: one that ends in an appsink is opened under a name OpenCV
\* finds (calibrate_camera.py:222-240).
THEOREM SinksAreFound == Spec => []SinkIsFound
  <1>1. MainInv => SinkIsFound
    BY DEF MainInv
  <1> QED
    BY <1>1, MainAtInit, MainNext, PTL DEF Spec

\* A solve or a write never fails before the detections it used were offered to
\* the disk (calibrate_camera.py:1634-1649).
THEOREM FailedRunsAreKept == Spec => []FailedRunIsKept
  <1>1. MainInv => FailedRunIsKept
    BY DEF MainInv, Kept, FailedRunIsKept
  <1> QED
    BY <1>1, MainAtInit, MainNext, PTL DEF Spec
==============================================================================
