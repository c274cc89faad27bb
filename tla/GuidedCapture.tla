--------------------------- MODULE GuidedCapture ---------------------------
(***************************************************************************)
(* guided_capture() of tools/calibrate_camera.py: the sampling loop, the   *)
(* operator's StdinControl thread, and the preview it publishes into.      *)
(*                                                                         *)
(* The loop and the stdin thread share two flags, which the loop reads at  *)
(* two places of an iteration; everything between two such places is one   *)
(* step. Time passes at any point (Tick), in timers that saturate where    *)
(* the code stops telling values apart.                                    *)
(***************************************************************************)
EXTENDS TargetQueue, MjpegServer

CONSTANTS
    TargetLists,   \* what fit_targets() may leave of a target set
    Fills,         \* the fills, in percent, the operator can hold in the box
    Settle,        \* --settle, in ticks
    OpenTimeout,   \* --open-timeout, in ticks
    NoQueue        \* queue is None

ASSUME CaptureLoopAssumption ==
    /\ TargetLists \subseteq Seq(Target)
    /\ Fills \subseteq 0..100
    /\ Settle \in Nat
    /\ OpenTimeout \in Nat
    /\ NoQueue \notin Queue

VARIABLES
    pc,            \* the loop: see Places below
    video,         \* args.video: a file, not a live source
    preview,       \* a preview server was started
    queue,
    views,         \* len(obj_points)
    since_accept,  \* now - last_accept, up to Settle
    waited,        \* time.time() - t0, up to past OpenTimeout
    listening,     \* the stdin thread is reading lines
    skip, stop,    \* StdinControl's flags
    pressed_at,    \* history: the target current at the last ENTER
    forfeited,     \* history: samples given up by skips
    views_at_stop  \* history: len(obj_points) when `stop` was typed

controlVars == <<listening, skip, stop, pressed_at, views_at_stop>>
loopVars == <<pc, video, preview, queue, views, since_accept, waited, forfeited>>
captureVars == <<loopVars, controlVars>>

\* "reading": in cap.read(); "deciding": about to test control.stop;
\* "skipping": about to test control.skip; "judging": the rest of the
\* iteration; then the ways out of the loop.
LoopPlaces == {"idle", "reading", "deciding", "skipping", "judging", "ended",
               "gave_up", "interrupted"}

Running == pc \in {"reading", "deciding", "skipping", "judging"}

Current == IF queue = NoQueue THEN 1 ELSE queue.index

CaptureTypeOK ==
    /\ pc \in LoopPlaces
    /\ video \in BOOLEAN /\ preview \in BOOLEAN
    /\ queue \in Queue \cup {NoQueue}
    /\ views \in Nat /\ forfeited \in Nat /\ views_at_stop \in Nat
    /\ since_accept \in 0..Settle
    /\ waited \in 0..(OpenTimeout + 1)
    /\ listening \in BOOLEAN /\ skip \in BOOLEAN /\ stop \in BOOLEAN
    /\ pressed_at \in Nat

CaptureInit ==
    /\ pc = "idle" /\ video = FALSE /\ preview = FALSE
    /\ queue = NoQueue /\ views = 0 /\ forfeited = 0
    /\ since_accept = Settle      \* last_accept starts at the epoch
    /\ waited = 0
    /\ listening = FALSE /\ skip = FALSE /\ stop = FALSE
    /\ pressed_at = 0 /\ views_at_stop = 0

-----------------------------------------------------------------------------
(***************************************************************************)
(* The stdin thread, started only on a terminal.                           *)
(***************************************************************************)
PressEnter ==
    /\ listening /\ Running
    /\ skip' = TRUE
    /\ pressed_at' = Current
    /\ UNCHANGED <<loopVars, listening, stop, views_at_stop, serverVars>>

TypeStop ==
    /\ listening /\ Running
    /\ stop' = TRUE
    /\ listening' = FALSE
    /\ views_at_stop' = views
    /\ UNCHANGED <<loopVars, skip, pressed_at, serverVars>>

-----------------------------------------------------------------------------
(***************************************************************************)
(* The loop.                                                               *)
(***************************************************************************)
Goto(place) == pc' = place

\* Before the loop: control.start(), t0.
BeginCapture ==
    /\ Goto("reading")
    /\ listening' \in BOOLEAN        \* sys.stdin.isatty()
    /\ waited' = 0
    /\ UNCHANGED <<queue, views, since_accept, forfeited, skip, stop,
                   pressed_at, views_at_stop>>

LoopStays == UNCHANGED <<video, preview, waited, since_accept, controlVars>>

\* MUTANT of WaitedTooLong: counts only once there have been frames.
WaitedTooLongLater == queue # NoQueue /\ waited > OpenTimeout

WaitedTooLong == waited > OpenTimeout

\* A read without a frame from a live source sleeps 50 ms and reads again,
\* which changes nothing here; only before the first frame does it give up.
GiveUpOpening ==
    /\ pc = "reading" /\ ~video
    /\ queue = NoQueue
    /\ WaitedTooLong
    /\ Goto("gave_up")
    /\ UNCHANGED <<queue, views, forfeited, serverVars>>
    /\ LoopStays

EndOfFile ==
    /\ pc = "reading" /\ video
    /\ Goto("ended")
    /\ UNCHANGED <<queue, views, forfeited, serverVars>>
    /\ LoopStays

\* The first frame fixes the frame size, and with it the targets.
FirstFrame(targets) ==
    /\ pc = "reading" /\ queue = NoQueue
    /\ IF targets = <<>>
       THEN Goto("gave_up") /\ queue' = queue
       ELSE Goto("deciding") /\ queue' = NewQueue(targets)
    /\ UNCHANGED <<views, forfeited, serverVars>>
    /\ LoopStays

NextFrame ==
    /\ pc = "reading" /\ queue # NoQueue
    /\ Goto("deciding")
    /\ UNCHANGED <<queue, views, forfeited, serverVars>>
    /\ LoopStays

\* MUTANT of MustStop: a stop waits for the target at hand.
MustStopBetweenTargets == (stop /\ queue.in_box_hits = 0) \/ done(queue)

MustStop == stop \/ done(queue)

Decide ==
    /\ pc = "deciding"
    /\ Goto(IF MustStop THEN "ended" ELSE "skipping")
    /\ UNCHANGED <<queue, views, forfeited, serverVars>>
    /\ LoopStays

NoSkip ==
    /\ pc = "skipping" /\ ~skip
    /\ Goto("judging")
    /\ UNCHANGED <<queue, views, forfeited, serverVars>>
    /\ LoopStays

\* MUTANT of ConsumedSkip: the flag is left set.
ConsumedSkipNever == skip

\* An ENTER between the test of the flag and its reset is lost, as it would be
\* just before the test: one step stands for both.
ConsumedSkip == FALSE

TakeSkip ==
    /\ pc = "skipping" /\ skip
    /\ skip' = ConsumedSkip
    /\ queue' = advance(queue, TRUE)
    /\ forfeited' = forfeited + queue.remaining
    /\ Goto(IF done(queue') THEN "ended" ELSE "judging")
    /\ UNCHANGED <<views, video, preview, waited, since_accept, listening,
                   stop, pressed_at, views_at_stop, serverVars>>

\* The queue after note() and maybe_relax() have seen this frame.
Judged(inside, fill) == maybe_relax(note(queue, inside, fill))

Acceptable(q, inside, fill) ==
    inside /\ fill >= q.fill_pct /\ since_accept >= Settle

PublishPreview == IF preview THEN publish ELSE UNCHANGED serverVars

\* A frame whose view is not accepted: a preview of it, and the next read.
Reject(inside, fill) ==
    LET q == Judged(inside, fill)
    IN  /\ pc = "judging"
        /\ ~Acceptable(q, inside, fill)
        /\ queue' = q
        /\ Goto("reading")
        /\ PublishPreview
        /\ UNCHANGED <<views, forfeited>>
        /\ LoopStays

\* A sample: at the last one the final overlay is published and the loop left.
Accept(inside, fill) ==
    LET q == Judged(inside, fill)
    IN  /\ pc = "judging"
        /\ Acceptable(q, inside, fill)
        /\ queue' = accept(q)
        /\ views' = views + 1
        /\ since_accept' = 0
        /\ Goto(IF done(queue') THEN "ended" ELSE "reading")
        /\ PublishPreview
        /\ UNCHANGED <<video, preview, waited, forfeited, controlVars>>

Judge(inside, fill) == Reject(inside, fill) \/ Accept(inside, fill)

\* Ctrl-C. main()'s handler drops what was collected.
Interrupt ==
    /\ Running
    /\ Goto("interrupted")
    /\ views' = 0
    /\ UNCHANGED <<queue, forfeited, serverVars>>
    /\ LoopStays

Tick ==
    /\ Running
    /\ since_accept' = Capped(since_accept + 1, Settle)
    /\ waited' = IF queue = NoQueue THEN Capped(waited + 1, OpenTimeout + 1)
                                    ELSE waited
    /\ queue' = IF queue = NoQueue THEN queue
                ELSE [queue EXCEPT !.on_target = Capped(@ + 1, AdaptAfter)]
    /\ UNCHANGED <<pc, video, preview, views, forfeited, controlVars, serverVars>>

Frame == NextFrame \/ \E targets \in TargetLists : FirstFrame(targets)

\* What the loop does with a frame it has.
Step ==
    \/ Decide \/ NoSkip \/ TakeSkip
    \/ Reject(FALSE, 0) \/ \E fill \in Fills : Judge(TRUE, fill)

Loop == Frame \/ GiveUpOpening \/ EndOfFile \/ Step
Operator == PressEnter \/ TypeStop \/ Interrupt

-----------------------------------------------------------------------------
\* The progress bar is full exactly when the run is over, however samples,
\* skips and advances alternate: what is taken is what was collected plus what
\* was forfeited (calibrate_camera.py:819, 877-888, 1340-1344).
ProgressAddsUp ==
    queue # NoQueue =>
        /\ ProgressIsExact(queue)
        /\ pc # "interrupted" => queue.taken = views + forfeited

\* A threshold that was lowered is one the operator has met, on this target
\* and not on an earlier one (calibrate_camera.py:836-875).
LoweredIsReachable == queue # NoQueue => RelaxedIsReachable(queue)

\* ENTER is noticed a frame after it was pressed, and a sample may complete the
\* target in between: the skip then hits the next target, but never one
\* further (calibrate_camera.py:1340-1342, 1080-1085).
SkipHitsThisOrNext == skip => Current <= pressed_at + 1

\* After `stop` at most the view of the frame at hand is still taken
\* (calibrate_camera.py:1086-1089, 1338).
StopTakesAtMostOneMore ==
    stop /\ pc # "interrupted" => views <= views_at_stop + 1
=============================================================================
