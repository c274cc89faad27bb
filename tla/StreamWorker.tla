--------------------------- MODULE StreamWorker ---------------------------
(***************************************************************************)
(* One camera's worker thread: StreamWorker::run (src/src/                 *)
(* stream_worker.cpp) driving a GstCapture and a UdpPublisher, against a   *)
(* clock, a source that may stall, end or fail, and a stop flag set from a *)
(* signal handler at any moment.                                           *)
(*                                                                         *)
(* Time. The loop's own code is instantaneous; time passes only where the  *)
(* thread blocks (a read, a sleep, detect()), and never past the moment    *)
(* the blocking call returns. So a bound proved here is the bound the code *)
(* keeps when open(), close() and sendto() themselves return promptly.     *)
(***************************************************************************)
EXTENDS GstCapture, UdpPublisher

CONSTANTS
    UdpEnabled,        \* udp.enabled: the publisher exists
    HeartbeatPeriod,   \* heartbeat_period_us_, 0 when heartbeat_hz is 0
    DetectPeriod,      \* detect_period_us_, 0 when detect_fps is 0
    WatchdogTimeout,   \* watchdog_timeout_sec
    StatsInterval,     \* logging.stats_interval_sec, 0 = off
    ExitOnEos,         \* exit_on_eos
    ReadTimeout,       \* kReadTimeoutMs
    PollPeriod,        \* the 100 ms sleep inside every wait
    BackoffMin, BackoffMax,   \* kReopenBackoffMinS, kReopenBackoffMaxS
    RapidWindow,       \* kRapidRebuildWindowS
    MaxDetect,         \* longest detect() the source is dimensioned for
    Horizon,           \* TLC bound: the clock stops here
    EnvUntil           \* TLC bound: last tick of a stop, an error or an EOS

ASSUME WorkerAssumption ==
    /\ UdpEnabled \in BOOLEAN /\ ExitOnEos \in BOOLEAN
    /\ HeartbeatPeriod \in Nat /\ DetectPeriod \in Nat
    /\ WatchdogTimeout \in Nat /\ StatsInterval \in Nat
    /\ ReadTimeout \in Nat \ {0} /\ PollPeriod \in Nat \ {0}
    /\ BackoffMin \in Nat \ {0} /\ BackoffMax \in Nat
    /\ BackoffMin <= BackoffMax
    /\ RapidWindow \in Nat /\ MaxDetect \in Nat
    /\ BackoffMin <= RapidWindow
    /\ Horizon \in Nat /\ EnvUntil \in Int

VARIABLES
    pc,                 \* where the thread is, see Points
    stop,               \* the process-wide stop flag
    wake,               \* when the current read or sleep returns
    deadline,           \* when the current backoff is over
    backoff,            \* openCapture's local backoff
    capture_mono_us,    \* the current iteration's Frame, 0 outside one
    last_frame_us,      \* run()'s local; also the iteration's `now`
    last_publish_us_, last_detect_us_, last_stats_us_, last_rebuild_us_,
    rebuild_backoff_s_,
    frame_id_,
    window,             \* the stats window: frames in / detected / skipped,
                        \* heartbeats
    rebuilds_,
    stop_at,            \* history: when stop was set
    opened_at,          \* history: when this pipeline reached PLAYING
    opened_before       \* history: when the previous one did

clockVars   == <<now, stop, stop_at>>
sleepVars   == <<wake, deadline, backoff>>
frameVars   == <<capture_mono_us, last_frame_us>>
reportVars  == <<frame_id_, last_publish_us_, publisherVars>>
statsVars   == <<window, last_stats_us_>>
rebuildVars == <<last_rebuild_us_, rebuild_backoff_s_, rebuilds_>>
openVars    == <<opened_at, opened_before>>
vars == <<clockVars, captureVars, pc, sleepVars, frameVars, last_detect_us_,
          reportVars, statsVars, rebuildVars, openVars>>

Points == {"start", "opening", "open_wait", "looping", "reading", "got",
           "detecting", "idle", "rebuild_wait", "done"}

Window == [in : Nat, detected : Nat, skipped : Nat, heartbeats : Nat]
EmptyWindow == [in |-> 0, detected |-> 0, skipped |-> 0, heartbeats |-> 0]

WorkerTypeOK ==
    /\ pc \in Points
    /\ stop \in BOOLEAN
    /\ wake \in Nat /\ deadline \in Nat
    /\ backoff \in Nat /\ rebuild_backoff_s_ \in Nat
    /\ capture_mono_us \in Int
    /\ last_frame_us \in Nat
    /\ last_publish_us_ \in Nat /\ last_detect_us_ \in Nat
    /\ last_stats_us_ \in Nat /\ last_rebuild_us_ \in Nat
    /\ frame_id_ \in Nat /\ rebuilds_ \in Nat
    /\ window \in Window
    /\ stop_at \in Nat
    /\ opened_at \in Int /\ opened_before \in Int

TypeOK == CaptureTypeOK /\ PublisherTypeOK /\ WorkerTypeOK

\* The machine has been up for at least one detection period, so that the
\* first frame is due although last_detect_us_ starts at 0. A pipeline that
\* never played is one that played long ago.
Init ==
    /\ CaptureInit
    /\ PublisherInit
    /\ now = DetectPeriod
    /\ pc = "start" /\ stop = FALSE
    /\ wake = 0 /\ deadline = 0
    /\ backoff = BackoffMin /\ rebuild_backoff_s_ = 0
    /\ capture_mono_us = 0 /\ last_frame_us = 0
    /\ last_publish_us_ = 0 /\ last_detect_us_ = 0
    /\ last_stats_us_ = 0 /\ last_rebuild_us_ = 0
    /\ frame_id_ = 0 /\ rebuilds_ = 0
    /\ window = EmptyWindow
    /\ stop_at = 0
    /\ opened_at = -BackoffMin /\ opened_before = -BackoffMin

-----------------------------------------------------------------------------
Lesser(a, b) == IF a < b THEN a ELSE b
Greater(a, b) == IF a > b THEN a ELSE b

Doubled(b) == Lesser(2 * b, BackoffMax)

\* `while (!stop && now < deadline) sleep(100 ms)`: the first test is made
\* at once, the next ones a poll period apart.
BeginWait(point, length) ==
    /\ pc' = point
    /\ deadline' = now + length
    /\ wake' = now

\* MUTANT of WaitIsOver: a backoff is slept through.
WaitIgnoresStop == now >= deadline

WaitIsOver == stop \/ now >= deadline

KeepWaiting ==
    /\ pc \in {"open_wait", "rebuild_wait"}
    /\ now >= wake
    /\ ~WaitIsOver
    /\ wake' = now + PollPeriod
    /\ UNCHANGED <<pc, deadline, backoff, captureVars, frameVars, reportVars,
                   last_detect_us_, statsVars, rebuildVars, openVars>>

\* MUTANT of LogStats: the skip counter survives the reset.
LogStatsKeepsSkips(t, w) ==
    IF StatsInterval > 0 /\ t - last_stats_us_ >= StatsInterval
    THEN /\ window' = [EmptyWindow EXCEPT !.skipped = w.skipped]
         /\ last_stats_us_' = t
    ELSE window' = w /\ UNCHANGED last_stats_us_

\* logStats(t): the window w and its start, reset once per interval.
LogStats(t, w) ==
    IF StatsInterval > 0 /\ t - last_stats_us_ >= StatsInterval
    THEN window' = EmptyWindow /\ last_stats_us_' = t
    ELSE window' = w /\ UNCHANGED last_stats_us_

\* openCapture() is entered with a fresh local backoff.
EnterOpenCapture ==
    /\ pc' = "opening"
    /\ backoff' = BackoffMin
    /\ UNCHANGED <<wake, deadline>>

\* run() up to openCapture().
Start ==
    /\ pc = "start"
    /\ EnterOpenCapture
    /\ last_stats_us_' = now
    /\ last_publish_us_' = now
    /\ last_rebuild_us_' = now
    /\ UNCHANGED <<captureVars, publisherVars, frameVars, last_detect_us_,
                   frame_id_, window, rebuild_backoff_s_, rebuilds_,
                   openVars>>

\* openCapture() finds stop set at its loop test: run() returns at once,
\* without the close() at its end.
GiveUpOpening ==
    /\ pc = "opening" /\ stop
    /\ pc' = "done"
    /\ UNCHANGED <<captureVars, sleepVars, frameVars, last_detect_us_,
                   reportVars, statsVars, rebuildVars, openVars>>

OpenSucceeds ==
    /\ pc = "opening" /\ ~stop
    /\ OpenPlaying
    /\ pc' = "looping"
    /\ last_frame_us' = now
    /\ opened_at' = now
    /\ opened_before' = opened_at
    /\ UNCHANGED <<sleepVars, capture_mono_us, last_detect_us_, reportVars,
                   statsVars, rebuildVars>>

OpenFails ==
    /\ pc = "opening" /\ ~stop
    /\ OpenUnbuildable \/ OpenNotPlaying
    /\ BeginWait("open_wait", backoff)
    /\ UNCHANGED <<backoff, frameVars, last_detect_us_, reportVars,
                   statsVars, rebuildVars, openVars>>

OpenAgain ==
    /\ pc = "open_wait"
    /\ now >= wake /\ WaitIsOver
    /\ pc' = "opening"
    /\ backoff' = Doubled(backoff)
    /\ UNCHANGED <<wake, deadline, captureVars, frameVars, last_detect_us_,
                   reportVars, statsVars, rebuildVars, openVars>>

-----------------------------------------------------------------------------
\* The main loop's test.
LoopGoesOn == ~stop

BeginRead ==
    /\ pc = "looping" /\ LoopGoesOn
    /\ pc' = "reading"
    /\ wake' = now + ReadTimeout
    /\ UNCHANGED <<deadline, backoff, captureVars, frameVars,
                   last_detect_us_, reportVars, statsVars, rebuildVars,
                   openVars>>

LeaveLoop ==
    /\ pc = "looping" /\ ~LoopGoesOn
    /\ Close
    /\ pc' = "done"
    /\ UNCHANGED <<sleepVars, frameVars, last_detect_us_, reportVars,
                   statsVars, rebuildVars, openVars>>

\* read() returned a frame; `now` is sampled after it.
GetFrame ==
    /\ pc = "reading"
    /\ ReadGood
    /\ pc' = "got"
    /\ capture_mono_us' = CaptureStamp(Head(queue))
    /\ last_frame_us' = now
    /\ window' = [window EXCEPT !.in = @ + 1]
    /\ UNCHANGED <<sleepVars, last_detect_us_, reportVars, last_stats_us_,
                   rebuildVars, openVars>>

\* read() returned false, after a buffer it could not use or after none.
GetNoFrame ==
    /\ pc = "reading"
    /\ \/ ReadDiscarded
       \/ ReadBadCaps
       \/ ReadUnsupported
       \/ (now >= wake \/ sink_eos) /\ ReadNothing
    /\ pc' = "idle"
    /\ UNCHANGED <<sleepVars, frameVars, last_detect_us_, reportVars,
                   statsVars, rebuildVars, openVars>>

-----------------------------------------------------------------------------
\* The frame branch. `now` in the code is the time of the read, which is
\* last_frame_us here: detect() runs in between and does not move it.

DetectDue ==
    DetectPeriod = 0 \/ last_frame_us - last_detect_us_ >= DetectPeriod

\* MUTANT of NextId: the id is taken from the frame counter.
FrameNumber == window.in

NextId == frame_id_ + 1

\* MUTANT of HeartbeatDue: only a detected frame may heartbeat.
HeartbeatDueAfterDetect ==
    /\ UdpEnabled /\ HeartbeatPeriod # 0 /\ pc = "detecting"
    /\ last_frame_us - last_publish_us_ >= HeartbeatPeriod

HeartbeatDue ==
    /\ UdpEnabled /\ HeartbeatPeriod # 0
    /\ last_frame_us - last_publish_us_ >= HeartbeatPeriod

\* maybeHeartbeat and logStats with the stats window w, then round the loop.
EndIteration(w) ==
    /\ pc' = "looping"
    /\ capture_mono_us' = 0
    /\ \/ /\ HeartbeatDue
          /\ frame_id_' = NextId
          /\ sendHeartbeat(last_frame_us, NextId, now)
          /\ last_publish_us_' = last_frame_us
          /\ LogStats(last_frame_us, [w EXCEPT !.heartbeats = @ + 1])
       \/ /\ ~HeartbeatDue
          /\ LogStats(last_frame_us, w)
          /\ UNCHANGED reportVars
    /\ UNCHANGED <<captureVars, sleepVars, last_frame_us, rebuildVars,
                   openVars>>

SkipFrame ==
    /\ pc = "got" /\ ~DetectDue
    /\ EndIteration([window EXCEPT !.skipped = @ + 1])
    /\ UNCHANGED last_detect_us_

BeginDetect ==
    /\ pc = "got" /\ DetectDue
    /\ pc' = "detecting"
    /\ last_detect_us_' = last_frame_us
    /\ UNCHANGED <<captureVars, sleepVars, frameVars, reportVars, statsVars,
                   rebuildVars, openVars>>

DetectNothing ==
    /\ pc = "detecting"
    /\ EndIteration([window EXCEPT !.detected = @ + 1])
    /\ UNCHANGED last_detect_us_

\* At least one detection. The publish moves last_publish_us_ to this
\* iteration's `now`, so maybeHeartbeat, called next, finds nothing due.
DetectTags ==
    /\ pc = "detecting"
    /\ pc' = "looping"
    /\ capture_mono_us' = 0
    /\ frame_id_' = NextId
    /\ IF UdpEnabled THEN send(capture_mono_us, NextId, now)
                     ELSE UNCHANGED publisherVars
    /\ last_publish_us_' = last_frame_us
    /\ LogStats(last_frame_us, [window EXCEPT !.detected = @ + 1])
    /\ UNCHANGED <<captureVars, sleepVars, last_frame_us, last_detect_us_,
                   rebuildVars, openVars>>

-----------------------------------------------------------------------------
\* The no-frame branch.

\* MUTANT of Wedged: only a read that timed out counts as idle.
WedgedOnTimeout == now >= wake /\ now - last_frame_us > WatchdogTimeout

Wedged == now - last_frame_us > WatchdogTimeout

\* MUTANT of ExitsOnEos: the end of the stream counts only once wedged.
ExitsWhenWedged == eos_ /\ ExitOnEos /\ Wedged

ExitsOnEos == eos_ /\ ExitOnEos

\* MUTANT of NeedsRebuild: only the watchdog rebuilds.
NeedsRebuildWhenWedged == ~ExitsOnEos /\ Wedged

NeedsRebuild == ~ExitsOnEos /\ (Wedged \/ eos_ \/ error_)

\* MUTANT of IdleReport: heartbeats whether or not frames arrive.
IdleHeartbeat ==
    IF /\ UdpEnabled /\ HeartbeatPeriod # 0
       /\ now - last_publish_us_ >= HeartbeatPeriod
    THEN /\ frame_id_' = NextId
         /\ sendHeartbeat(now, NextId, now)
         /\ last_publish_us_' = now
    ELSE UNCHANGED reportVars

\* An idle camera is not reported alive: deliberately no heartbeat.
IdleReport == UNCHANGED reportVars

\* Idle but not yet wedged.
StayIdle ==
    /\ pc = "idle"
    /\ ~ExitsOnEos /\ ~NeedsRebuild
    /\ pc' = "looping"
    /\ IdleReport
    /\ LogStats(now, window)
    /\ UNCHANGED <<captureVars, sleepVars, frameVars, last_detect_us_,
                   rebuildVars, openVars>>

FinishOnEos ==
    /\ pc = "idle" /\ ExitsOnEos
    /\ Close
    /\ pc' = "done"
    /\ UNCHANGED <<sleepVars, frameVars, last_detect_us_, reportVars,
                   statsVars, rebuildVars, openVars>>

Escalated ==
    IF rebuild_backoff_s_ > 0 THEN Doubled(rebuild_backoff_s_)
                              ELSE BackoffMin

\* MUTANT of TearDownForRebuild: last_rebuild_us_ is never moved.
TearDownUndated ==
    /\ Close
    /\ rebuilds_' = rebuilds_ + 1
    /\ UNCHANGED last_rebuild_us_

TearDownForRebuild ==
    /\ Close
    /\ rebuilds_' = rebuilds_ + 1
    /\ last_rebuild_us_' = now

\* The previous rebuild is recent: wait before openCapture(). Otherwise go
\* straight to it, the backoff forgotten.
Rebuild ==
    /\ pc = "idle" /\ NeedsRebuild
    /\ TearDownForRebuild
    /\ \/ /\ now - last_rebuild_us_ < RapidWindow
          /\ rebuild_backoff_s_' = Escalated
          /\ BeginWait("rebuild_wait", Escalated)
          /\ UNCHANGED backoff
       \/ /\ now - last_rebuild_us_ >= RapidWindow
          /\ rebuild_backoff_s_' = 0
          /\ EnterOpenCapture
    /\ UNCHANGED <<frameVars, last_detect_us_, reportVars, statsVars,
                   openVars>>

\* The rebuild's wait ends: on stop, break (and close(), a no-op by now).
EndRebuildWait ==
    /\ pc = "rebuild_wait"
    /\ now >= wake /\ WaitIsOver
    /\ \/ stop /\ pc' = "done" /\ Close /\ UNCHANGED sleepVars
       \/ ~stop /\ EnterOpenCapture /\ UNCHANGED captureVars
    /\ UNCHANGED <<frameVars, last_detect_us_, reportVars, statsVars,
                   rebuildVars, openVars>>

-----------------------------------------------------------------------------
\* The environment.

\* A blocking call is in progress and need not return yet.
Blocked ==
    \/ pc \in {"open_wait", "rebuild_wait"} /\ now < wake
    \/ pc = "reading" /\ now < wake /\ queue = <<>> /\ ~sink_eos
    \/ pc = "detecting" /\ now < last_frame_us + MaxDetect

runVars == <<pc, sleepVars, frameVars, last_detect_us_, reportVars,
             statsVars, rebuildVars, openVars>>

Tick ==
    /\ now < Horizon
    /\ Blocked
    /\ now' = now + 1
    /\ arrived' = FALSE
    /\ UNCHANGED <<stop, stop_at, pipeline_, held_sample_, samples, eos_,
                   error_, bus, sink_eos, queue, faulted, runVars>>

\* signalHandler: SIGINT or SIGTERM.
RequestStop ==
    /\ ~stop /\ now <= EnvUntil
    /\ stop' = TRUE
    /\ stop_at' = now
    /\ UNCHANGED <<now, captureVars, runVars>>

Source ==
    /\ \/ BufferArrives
       \/ now <= EnvUntil /\ (PostError \/ ReachEos)
    /\ UNCHANGED <<clockVars, runVars>>

Worker ==
    /\ \/ Start \/ GiveUpOpening \/ OpenSucceeds \/ OpenFails \/ OpenAgain
       \/ KeepWaiting \/ BeginRead \/ LeaveLoop \/ GetFrame \/ GetNoFrame
       \/ SkipFrame \/ BeginDetect \/ DetectNothing \/ DetectTags
       \/ StayIdle \/ FinishOnEos \/ Rebuild \/ EndRebuildWait
    /\ UNCHANGED clockVars

\* run() has returned, or the bounded clock has run out.
Finished == (pc = "done" \/ now = Horizon) /\ UNCHANGED vars

Next == Worker \/ Source \/ RequestStop \/ Tick \/ Finished

Spec == Init /\ [][Next]_vars

\* The thread is scheduled and the clock runs. Nothing is assumed of the
\* source: it may never deliver a buffer.
FairSpec == Spec /\ WF_vars(Worker) /\ WF_vars(Tick)

-----------------------------------------------------------------------------
\* The watchdog cannot be starved: while a pipeline is being read, it has
\* delivered a usable frame (or was opened) within the watchdog timeout plus
\* one read, whatever mix of buffers, discards and silence arrives.
WatchdogBound ==
    pc \in {"looping", "reading", "idle"} =>
        now - last_frame_us
            <= Greater(WatchdogTimeout, MaxDetect) + ReadTimeout

\* A consumer may read silence as "no frames": after every frame of this
\* pipeline that has been dealt with, the newest datagram (or failed attempt)
\* is less than a heartbeat period older than that frame.
SilenceMeansNoFrames ==
    /\ UdpEnabled /\ HeartbeatPeriod # 0
    /\ pc \in {"looping", "reading", "idle"}
    /\ last_frame_us > opened_at
    => last_frame_us - last_publish_us_ < HeartbeatPeriod

\* A heartbeat or a pose asserts a live camera: nothing is handed to the
\* socket except while a frame read at most one detect() ago is held.
NothingSentWithoutFrame ==
    [][sent' + send_errors_' # sent + send_errors_
       => pipeline_ /\ held_sample_ /\ now - last_frame_us <= MaxDetect]_vars

\* frame_id numbers publish attempts, across rebuilds too: a gap at the
\* consumer is a sendto failure or a loss on the way, never a frame that
\* had nothing to publish.
IdsCountAttempts ==
    UdpEnabled => /\ frame_id_ = sent + send_errors_
                  /\ wire.frame_id <= frame_id_

\* A published pose is never staler than the appsink queue allows, however
\* slow the detector: ingest, a queue's worth of detections, its own.
PosesAreFresh ==
    wire.publish - wire.capture <= MaxIngest + (MaxBuffers + 1) * MaxDetect

\* After SIGTERM the thread returns within one read and one detect(), or one
\* poll of a wait, wherever the signal finds it.
StopIsPrompt ==
    stop /\ pc # "done" =>
        now - stop_at <= Greater(ReadTimeout + MaxDetect, PollPeriod)

\* However run() returns, the camera is released: no pipeline, no mapped
\* sample, no sample reference left behind.
ReleasedWhenDone ==
    pc = "done" => ~pipeline_ /\ ~held_sample_ /\ samples = 0

\* Sample references and the held sample agree on every path out of read(),
\* and nothing is held without a pipeline.
SamplesBalance ==
    /\ held_sample_ => samples = 1 /\ pipeline_
    /\ ~held_sample_ => samples = 0

\* A flag that makes the loop rebuild or exit is about the pipeline being
\* read now, not one that was torn down earlier.
FlagsAreCurrent == pipeline_ /\ (eos_ \/ error_) => faulted

\* No restart storm: of three pipelines reaching PLAYING in a row, the third
\* does so at least BackoffMin after the first, even if each fails at once.
RestartsAreSpaced ==
    [][~pipeline_ /\ pipeline_' => now - opened_before >= BackoffMin]_vars

\* Every frame of the stats window was either skipped or detected, but for
\* the one in hand.
FramesAccounted ==
    window.in = window.detected + window.skipped
                + (IF pc \in {"got", "detecting"} THEN 1 ELSE 0)

\* With exit_on_eos, a read that meets the end of the source ends the stream
\* by itself, even when an error is posted or the watchdog is due as well.
EosEndsStream == pc = "reading" /\ sink_eos /\ ExitOnEos ~> pc = "done"

\* A pipeline known to have failed or ended is not kept: it is torn down. An
\* error on the bus, which only a read without a sample looks at, waits for no
\* more than the buffers before it: unless another arrives, it ends the
\* pipeline too (gst_capture.cpp:211-219). There must be time left for a
\* detection and a read.
FaultIsHandled ==
    /\ pipeline_ /\ (sink_eos \/ error_) ~> ~pipeline_
    /\ (/\ pipeline_ /\ "error" \in bus /\ queue = <<>>
        /\ now + ReadTimeout + MaxDetect <= Horizon)
       ~> (~pipeline_ \/ queue # <<>>)

-----------------------------------------------------------------------------
\* The stream as its consumer and its operator see it.
Contract == INSTANCE StreamContract WITH
    Networked <- UdpEnabled,
    phase     <- IF pc = "done" THEN "over"
                 ELSE IF pipeline_ THEN "live" ELSE "down",
    ids       <- frame_id_,
    left      <- sent,
    refused   <- send_errors_,
    restarts  <- rebuilds_

\* Every run of the worker is a run of the contract: restarts, ids and the
\* end of the stream are what an observer was promised, with all the loop's
\* other steps invisible.
ImplementsContract == Contract!Spec

-----------------------------------------------------------------------------
\* What the repository's comments and documentation say, and the code does
\* not do. Each is checked by a run that must find it violated.

\* stream_worker.cpp:309, on the branch that resets the backoff: "Ran for a
\* while before failing again: treat as a fresh incident rather than
\* escalating".
FreshIncidentRanForAWhile ==
    [][rebuilds_' # rebuilds_ /\ rebuild_backoff_s_' = 0
       => now - opened_at >= RapidWindow]_vars

\* A stamp ahead of the clock is accepted up to the slack, and a detection may
\* be faster than that lead: the two stamps of a datagram are then inverted,
\* but by no more than the slack (gst_capture.cpp:28, 375-381).
InversionIsBounded == wire.capture <= wire.publish + FutureSlack
=============================================================================
