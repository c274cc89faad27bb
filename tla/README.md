# fiducial-detector-service: TLA+ models and proofs

This directory holds TLA+ models of `fiducial-detector-service`, the TLC runs that check
them on small instances, and proofs checked by TLAPS for every value of the constants.
Paths such as `src/src/main.cpp` are relative to the directory above this one.

## 1. The system

The service reads one camera per stream through GStreamer, detects fiducial markers,
solves their poses and publishes protobuf datagrams over UDP to one consumer. It runs
headless under systemd on a vehicle; its hazards are those of a long-running process
whose camera may wedge, whose consumer reads silence as information, and whose only
copy of a camera calibration is a file it rewrites itself.

| Part | State | Operations | Talks to |
|---|---|---|---|
| Stream worker (`stream_worker.cpp`), one thread per stream | position in `run()`, `last_*_us` times, backoffs, `frame_id_`, the stats window | `run`, `openCapture`, `maybeHeartbeat`, `logStats` | owns a capture, a detector and a publisher; polls the process-wide stop flag |
| Capture (`gst_capture.cpp`) | pipeline and appsink, the held sample, `eos_` and `error_`, the clock domain of the stamps | `open`, `close`, `read`, `drainBus` | GStreamer: bus, appsink queue, source threads |
| Publisher (`udp_publisher.cpp`) | socket, `sent`, `send_errors_` | `open`, `send`, `sendHeartbeat` | the consumer, by `sendto` |
| Detector (`detector.cpp`) | `K_raw_`, `K_solve_`, distortion, rectification maps, rejection counters | `init`, `lazyInit`, `detect`, `takeStats` | OpenCV |
| Configuration (`app_config.cpp`, first half of `main.cpp`) | `config.yaml`, `config.yaml.tmp`, the `AppConfig` in memory | `loadFromFile`, `writeToFile`, `validate` | the operator, systemd's `ExecStartPre`, the installer, other invocations |
| Process (`main.cpp`) | stop flag, workers, threads | start-up, signal handler, join | everything above |
| Clock domain (`clock_domain.cpp`) | the realtime offset, computed once; an identifier | `monotonicUs`, the offset, the identifier | capture, publisher |
| Receiver (`tools/recv_fiducial.py`) | last id and gap count per camera, problems, clock domains | one handler per datagram, the summary, the timeout, the verdict of `--check` | the wire |
| Synthetic publisher (`tools/fake_publisher.py`) | ids, heartbeat schedule, the iteration's time | one loop over its cameras | the wire |
| Calibration (`tools/calibrate_camera.py`): preview | latest frame and its number, closed, under a condition variable | `publish`, `close`, one handler thread per browser | the sampling loop, browsers |
| Calibration: target queue and sampling loop | target at hand, samples, threshold, best fill, timers; the flags `skip` and `stop` | `load`, `advance`, `note`, `maybe_relax`, the loop of `guided_capture`, the stdin thread | a camera, an operator, the preview |
| Calibration: `main` | source of the views, the views, the points file, the result | open, sample, release, save, solve, write | files, OpenCV |
| Calibration: geometry | none, pure | `fit_targets`, `_axis_limit`, `max_fill_pct`, `threshold_box`, the acceptance of a view | the loop |
| Unit, installers (`systemd/`, `deploy/`) | installed files, restart state | restart, install, uninstall | the process's exit codes, the config file |

What is hard here, and what would be right:

* **The worker's loop** has three ways to get no frame, three reasons to rebuild, five
  exits and two backoffs, interleaved with a source that may stall, end or fail and with
  a signal at any instant. Right: the watchdog cannot be starved; a stop is honoured
  within a stated time from any point; the camera is released on every exit; flags are
  about the pipeline being read; restarts are spaced; a known fault is always acted on.
* **The wire.** Ids count attempts across heartbeats, poses, failures and rebuilds;
  nothing is sent unless a frame is in hand; a camera that delivers is never silent for
  a heartbeat period; a pose's age is bounded by the queue, not by the backlog.
* **The detector's lazy state.** Intrinsics and maps belong to one frame size, which a
  rebuild may change. Right: what a pose is solved with fits the frame it is in.
* **The config.** Several processes may load, complete and replace one file, and any may
  be killed. Right: the file is always whole; only absent keys change; a file `-c`
  accepted stays accepted.
* **The bring-up harness.** A receiver counts gaps over a network that loses, overtakes and
  repeats. Right: no gap counted means nothing lost; a gap has a cause; a check that passes
  saw a run and nothing wrong in it; silence is noticed.
* **Calibration.** An operator, a camera, browsers and a solver each fail or linger on their
  own. Right: what is typed acts on the target it was meant for; no browser sleeps through a
  frame; a target nobody can reach comes down; the views are on disk before anything that
  may fail. And in the geometry: no target is kept that cannot be met, or dropped that can,
  and what is accepted was thresholded as a whole.
* **Deployment**: restart policy and installers. Not modelled (sections 6 and 8).

`PROJECT.json` lists every hazard at its line with the properties that watch it.

## 2. The modules

| Module | Models | Lines it stands for |
|---|---|---|
| `GstCapture` | the capture object; its actions are conjoined to the worker's | `gst_capture.cpp` `open`, `close`, `read`, `drainBus` |
| `UdpPublisher` | one socket | `udp_publisher.cpp` `send`, `sendHeartbeat`, `doSend` |
| `StreamWorker` | the thread, composing the two above with a clock, a source and a signal | `stream_worker.cpp` `run` and what it calls |
| `StreamContract` | what a stream promises an observer, without clock or camera | the meaning of `stream_worker.h`'s counters |
| `Detector` | intrinsics, maps, gates, counters | `detector.cpp` |
| `ConfigContract` | what may be seen to happen to `config.yaml`, without processes or crashes | `app_config.h`'s promises |
| `ConfigHeal` | load, heal, replace, validate, by several processes | `app_config.cpp`, `main.cpp:88-189` |
| `TargetQueue` | the guided sequence of targets, as operators on one record | `calibrate_camera.py` `TargetQueue` |
| `MjpegServer` | the preview's slot and its watchers | `calibrate_camera.py` `MjpegServer` |
| `GuidedCapture` | the sampling loop and the stdin thread, over the two above | `guided_capture`, `StdinControl` |
| `CalibrateMain` | `main()` around the loop, to the exit status | `main`, with `normalise_appsink`, `open_capture` and its releaser thread |
| `BoardView` | targets, regions, tiles, cutoffs, the acceptance of a view | `fit_targets` to `threshold_box` |
| `FakePublisher` | the synthetic publisher | `fake_publisher.py` `main` |
| `Receiver` | the receiver | `recv_fiducial.py` `main` |
| `Harness` | these two over a faulty network, with a stranger on the port | |
| `MCStreamWorker`, `MCDetector`, `MCConfigHeal`, `MCCalibrateMain`, `MCBoardView`, `MCHarness` | the instances TLC checks | |
| `StreamWorkerProofs`, `StreamReportProofs`, `DetectorProofs`, `ConfigHealProofs`, `CalibrateProofs`, `BoardViewProofs`, `HarnessProofs` | theorems | |

An operator preceded by a comment `MUTANT of X` is X with a plausible bug. No
specification uses one; each exists to show that a property notices it.

### StreamWorker, GstCapture, UdpPublisher

`pc` is the place in `run()`. Each action is the code between two blocking points or
branches: `start`, then `opening` / `open_wait` for `openCapture`, then the loop body
`looping` (the loop test), `reading` (inside `read()`), `got` (a frame in hand),
`detecting` (inside `detect()`), `idle` (the no-frame branch), and `rebuild_wait`.
Variables keep the code's names. An action of the worker takes the capture's action as a
conjunct (`GetFrame` contains `ReadGood`, `Rebuild` contains `Close`), so that everything
`read()` or `close()` does happens in the step that calls it; releasing the previous
sample is part of every read.

Time is an integer clock. The loop's own code takes none; it passes (`Tick`) only while
the thread is blocked, and never past the moment the blocking call returns: a read
returns at its timeout, at a buffer or at the end of the stream; a sleep after
`PollPeriod`; `detect()` within `MaxDetect`. So the time bounds below assume that
`open()`, `close()` and `sendto()` return promptly; the code has no timeout around them
either. A tick stands for whatever the run makes of it: a run fixes ratios between
timeouts, not milliseconds.

The source is external and does what the code is written to handle: deliver a buffer
(at most one per tick), post an error and still deliver what is under way, end. A
buffer is `good`, `discarded` (no buffer, no caps, bad size, not mappable), of `bad_caps`
or `unsupported`: the four ways `read()` treats one. Marker content is reduced to
"something" or "nothing" detected.

`opened_at`, `opened_before`, `stop_at` and `faulted` are history: no guard reads them,
except that a source that has failed does not fail again.

`StreamContract` is the abstract specification: a stream is down, live or over; ids are
spent one at a time and only while live; each is a datagram that left or was refused;
restarts never touch the numbering; nothing follows the end. `ImplementsContract` checks
that every behaviour of `StreamWorker` is one of its, under the mapping written in
`StreamWorker`.

### Detector

A frame size is one number (the code treats the axes alike); a focal length is the
configured one times a fraction `num/den`; a rectified matrix is remembered by the
`K_raw_` and the size it was computed from, since its numbers are OpenCV's. A decoded
marker is the set of gates it would fail, in the code's order of tests.

### ConfigHeal

A process runs `main()` from reading the arguments to the exit or the start of the
service, one action per system call that other processes can tell apart: read the
config, open and truncate the temp file, write it, rename it, validate. Files are inodes,
so that two processes opening `config.yaml.tmp` may hold the same file while one renames
it. A document keeps one key of each kind the code treats differently: an intrinsic whose
default is refused, the switch `--verbose` overrides, and the port that is cut to 16 bits.

When the text reaches the disk matters, because the code tests the stream before closing
it. libstdc++ writes a string of 1024 bytes or more through at once, together with what
it had buffered, and every healed document is longer than that (a stream alone has some
forty keys): by the time of the test all but the last newline has been written, and a full
disk is noticed. That is what `WriteTmp` says; the newline is left out.

`ConfigContract` is the abstract specification: one document, which is saved or completed,
and completing it is a single step that leaves what was there. It spells the completed
document out key by key, not by the operators of `ConfigHeal`, so that a heal that
completes it wrongly is no step of it.

### TargetQueue, MjpegServer, GuidedCapture, CalibrateMain

`CalibrateMain` extends `GuidedCapture`, which extends the other two: one state, and actions
that contain the calls they make. `stage` is the place in `main()`, `pc` the place in the
sampling loop: `reading` (inside `cap.read()`), `deciding` (about to test `control.stop`),
`skipping` (about to test `control.skip`), `judging` (the rest of the iteration), and the ways
out. The two flags are what the loop shares with the stdin thread, so the places at which
they are tested are the places between which the operator's line may fall; everything between
two such places is one step. A judged frame goes through `note`, `maybe_relax` and, when the
view is taken, `advance`, in that order, as operators on the queue record, and is published
to the preview in the same step.

Only what the loop tells apart is kept of a frame: whether the board was found inside the
box, and its fill in percent. Timers (`since_accept`, `waited`, `on_target`) and
`in_box_hits` saturate at the value the code compares them with. Time may pass anywhere.
In the server everything done while the condition variable is held is one step, so what may
happen between the test and the wait is exactly what the lock permits; `_seq` is compared
for equality only and is replaced by the set of watchers that are behind.

`main()` then leaves the loop (at its end, by an exception or by Ctrl-C), releases the
camera on a thread that may not return, closes the preview, counts the views, saves the
points, solves and writes. A solve is good, poor, or raises; a write may fail.
`pressed_at`, `views_at_stop` and `forfeited` are history.

### BoardView

Computes a view step by step: a frame size and a target, the target's fill after
`fit_targets`, a board held in front of the camera, the tiles of its threshold region and
the cutoff of one tile. Boards are fronto-parallel, upright or turned, `a` by `b` squares
between the inner corners, with the ring of one square outside them that the detector needs.
Positions are integers in pixels, and the largest square an axis allows is a fraction.

### FakePublisher, Receiver, Harness

Time is counted in frame periods. The publisher's loop serves its cameras in turn and sends,
withholds or drops each frame; the id is spent in every case, as in the code. The receiver
takes one datagram at a time; a datagram has at most one flaw, of those the code reports.
In between is a buffer of `MaxInFlight` datagrams from which any may be lost, taken out of
turn or delivered twice (once more: no test tells two repeats from one), and a full buffer or a
closed socket takes none. `got`, `missed`, `flawed` and `disordered` are history: the
receiver does not know what was lost.

The receiver's loop is modelled turn by turn: `recvfrom()` returns a datagram (`Receive`) or
times out (`PollTimesOut`), which is the only place where the silence is looked at; then the
turn either gives up or goes on to the summary and the next `recvfrom()` (`EndTurn`), which
starts a new poll (`polled`). Nothing in `Tick` knows of the receiver's timer. It lets time pass
for a receiver inside `recvfrom()`, which returns at most `PollLate` after its timeout
(`PollPeriod`): that is the socket's contract, and the one assumption. The rest of a turn takes no
time. `quiet` and `gave_up` are history: how long the socket has handed over nothing, kept by
`Harness` from the deliveries, whatever the receiver's timer says, and whether it was the timeout
that ended the run.

## 3. What the runs check

Passing runs:

| Run | Question | Properties | Bounds that make the case happen |
|---|---|---|---|
| `publishing` | which datagrams leave a stream that works, how old are they, and what does silence mean? | `SilenceMeansNoFrames`, `FramesAccounted`, `PosesAreFresh`, `NothingSentWithoutFrame`, `ImplementsContract` | detect and heartbeat periods of two ticks, stats every three, a buffer per tick against detections of up to two, so that the queue overflows; good and unsupported formats; stamps up to two ticks ahead against a slack of one; sends that may fail; a watchdog of three that fires when the source rests; time up to ten: several periods of each |
| `endings` | is a stop, a fault, or the end of a file acted on from anywhere, is an error still on the bus noticed, is the camera released, can restarts bunch up, is the watchdog starved, or a flag left over? | `StopIsPrompt`, `ReleasedWhenDone`, `WatchdogBound`, `FlagsAreCurrent`, `EosEndsStream`, `FaultIsHandled`, `RestartsAreSpaced` | good, discarded and unparseable buffers, both ways to fail an open; stops, errors and ends up to tick three, unparseable caps at any time, in every wait, read and detection; a watchdog of two; a backoff of three to six against a window of three, so that a wait may exceed the window, as 8 s does 5 s; eight ticks: longer than the stop bound, and room for three pipelines |
| `detector_resized` | is a frame ever solved with what was built for another size? do the counters add up? | `SolvesAtFrameSize`, `CandidatesAccounted`, `FirstSizeIsRight` | three sizes, one of them the calibrated one, three changes, markers that fail each counted gate, two of a kind per frame |
| `heal_restarts` | can a kill or a full disk damage the config, leave a heal half done, or undo an approval? | `ConfigAlwaysWhole`, `HealsOnce`, `ApprovedConfigStarts`, `ImplementsConfigContract` | three invocations one after the other, with any command line, each killable anywhere, an edit in between; complete, incomplete and unusable documents, and one with a port that is cut |
| `heal_races` | does the file recover from processes healing at once? | `WholeWhenQuiet` | three at once, no kill, no full disk |
| `calibration` | does what the operator types reach the target it was meant for, are the views safe, does the session end? | `NobodyOversleeps`, `ProgressAddsUp`, `LoweredIsReachable`, `SkipHitsThisOrNext`, `StopTakesAtMostOneMore`, `SinkIsFound`, `FailedRunIsKept`, `ViewsNotStranded`, `NoFrameGivesUp`, `SteadyEffortCompletes` | two targets, of two samples and of one, the first asking for more than the operator's largest fill and one fill below the floor; two in-box detections before a threshold may come down; a browser; a table of which nothing fits; the four shapes of a `--gst` pipeline; two image files; two views needed to solve |
| `board_view` | which targets are kept, and is what is accepted thresholded as a whole? | `KeptTargetIsReachable`, `NoneDroppedInVain`, `SuitedBoardIsThresholded`, `CutsMidway` | all targets of the three tables on a frame of each aspect the tables distinguish, the default board, ModalAI's and a slender one; boards of the sizes at which a limit binds and one beyond, against each side and in between; tiles with few, some and no pixels of either level |
| `harness` | what does a count of gaps say about loss, and when does a check pass? | `NoGapNoLoss`, `GapsCountMissingRuns`, `PassMeansClean`, `GivesUpOnSilence`, `GapsAreHeartbeats`, `GapsHaveACause` | one camera in each of three profiles, drops on purpose, heartbeats every two periods, four periods; two datagrams in flight, so that one may overtake; a stranger's datagram, good, undecodable or a heartbeat with tags, in either clock domain; a timeout of one, against polls of one period that may return one late, so that a datagram, a turn without one and the end of the timeout meet in every order |

Bounds. Time stops at `Horizon`, and stops, errors and ends happen up to `EnvUntil`, so
that every consequence of the last one fits before the horizon; buffers may come at any
time. The worker has no memory but its counters, whose values matter only relative to
`now` and to each other, and every timeout above is crossed at least twice, before and
after a rebuild where there is one. Three processes on a config are one more than any race
over a single temp file needs, and let the third find what two left behind.
`MaxEdits`, `MaxResizes`, `MaxDecoded`, `MaxPerFrame`, `MaxFiles` and `MaxStrangers` cap
counters. In `ConfigHeal` the processes are interchangeable and are declared symmetric; its
runs do not look for deadlocks, because every process ends, nor does the harness's, whose
horizon ends it. The calibration has no horizon: its timers saturate and its targets are
finitely many, so all of its behaviours are explored. Watchers do not interact with each
other, and `WatchersAreWoken` is proved for any number. A stream's own state does not depend
on the others of its process, and neither does a camera's in the harness.

Fairness. `FairSpec` of `StreamWorker`: the thread is scheduled (`WF` of `Worker`) and the
clock runs (`WF` of `Tick`). Nothing is assumed of the source, which may never deliver a
buffer, nor of the signal. The liveness properties therefore say what the read timeout, the
polls and the loop tests achieve by themselves. In the calibration the main thread and the
clock go on; nothing is assumed of frames, the operator, the browsers, or a `release()`, which is
why `ViewsNotStranded` is about the bounded join and not about the camera.
`SteadyEffortCompletes` says that an operator who goes on holding the board at the largest
fill this camera can reach is judged only finitely often, hence gets every target done.

## 4. Where code and documents disagree

Each is a run that must find one property violated; the property states what the quoted
comment or document says.

| Run | Property | What happens |
|---|---|---|
| `fresh_incident` | `FreshIncidentRanForAWhile` | the rapid-rebuild window includes the previous wait, so after a wait of 5 s or more an immediate failure counts as one that "ran for a while", and the backoff starts over; the documented 10 s cap is not reached this way. Restarts do stay spaced (`RestartsAreSpaced`) |
| `detector_rescaled` | `IntrinsicsMatchFrame` | the second of two frame sizes, neither the calibrated one, rescales intrinsics that were rescaled for the first: they fit neither |
| `heal_two_processes` | `ConfigAlwaysWhole` | processes healing at once share one temp name; one truncates what the other renames |
| `turned_board` | `BoardIsThresholded` | the margin of the threshold region is one square of an upright board at full fill; the squares of a board on its side in a tall target exceed the horizontal margin by a pixel or two, and it is accepted with that much of its outer ring outside the region. `SuitedBoardIsThresholded` is what holds: upright boards are inside, and turned ones too in a box whose longer side is along the pattern's |

More of them need no run, because a single line of the code decides them:

* `stream_worker.h:53` promises heartbeats independent of frame delivery, while
  `stream_worker.cpp:320` says why there are none without frames.
* `stream_worker.h:70` says that `frame_id` never skips; a refused `sendto` makes it do so on
  the wire. `IdsCountAttempts` is what holds, and is proved.
* `gst_capture.cpp:28, 375` accepts a stamp that is up to the slack ahead of the clock, so that a
  faster detection is sent before it was captured, by its stamps. `InversionIsBounded`,
  which is proved, says by how much.
* `detector.cpp:76` uses fisheye coefficients only with `undistort`; without it they reach
  `solvePnP`, which reads them as pinhole ones.
* `main.cpp:146` applies `--verbose` before the heal is written, so that the option ends up in
  the file, against the comment at `main.cpp:131`.
* `fake_publisher.py:236` spends an id for a frame it withholds, so that a loopback run without
  any loss shows gaps, which `README.md:186` of the repository says it does not.
  `GapsAreHeartbeats` and `GapsHaveACause` say which gaps remain possible.
* `calibrate_camera.py:1316` continues before it tests `control.stop` when a live source
  delivers nothing: `stop` is not noticed until a frame arrives.

## 5. What is proved

`StreamWorkerProofs`, for every timeout, queue depth, mix of samples and failures:

* `TypeCorrect` and `SamplesAlwaysBalance`. `TypeOK` alone is not inductive: `samples`
  stays a natural number only because a held sample is counted. The two are proved together
  as `Typed`, by a lemma on what any step does to the capture object (`CaptureSteps`).
* `CameraReleased`. `Placed` says that the pipeline is up exactly while the loop body
  runs; then the two exits without a `close()` have nothing to close.
* `WatchdogNeverStarved`. `Timed` adds, for each place in the loop, how old the last frame
  can be there, and that a read never outlives its wake-up time: a read begins
  at most `Greater(WatchdogTimeout, MaxDetect)` after the last frame, because the branch
  that would let it begin later rebuilds instead.
* `StopAlwaysPrompt`. `StopTimed` bounds, for each place, the time since the stop by what is
  left until the next loop test.

The assumptions are `CaptureAssumption`, `PublisherAssumption` and `WorkerAssumption`: ranges
of the constants, and two relations of the code's own (`BackoffMin <= BackoffMax`,
`BackoffMin <= RapidWindow`).

`DetectorProofs`, for any sequence of frame sizes, any calibration and any markers:
`AlwaysSolvesAtFrameSize`, and `FirstSizeAlwaysRight` up to the first change of size. The
invariant ties the size `lazyInit` last ran for to the size last solved, and says that
nothing was rescaled before the first; it cannot be extended past the first change, as
`detector_rescaled` shows.

`ConfigHealProofs`, for any number of processes, documents and command lines:

* `TypeCorrect`, whatever runs concurrently.
* `ConfigNeverTruncated`, `HealedOnce`, `ApprovalLasts`, when one process runs at a time
  (`~Concurrent`), killable anywhere and on a disk that may be full. The inductive invariant
  `SoloInv` says that all processes but one are over; that the temp name and the config
  never share an inode; that a writer's stream and the temp name agree, and that what is
  about to be renamed is the renamer's own complete configuration; and that a configuration in
  memory agrees with the file it came from on the keys `validate()` looks at. The last is
  what carries an approval across a heal, with the fact that reading back a port that was
  cut leaves it alone. `heal_two_processes` shows that the assumption cannot be dropped.
* `HealImplementsContract`, in the same case: every run is a run of `ConfigContract`. To `SoloInv`
  it adds `PendingInv`: a configuration on its way to the disk is the completion of the document
  that is under the name now, not only of the one that was read. A rename is then the
  contract's completion, an edit its save, and truncating or writing the temp file is not seen.
* `RacesEndWhole`, however many processes race, if none is killed and no write fails
  (`~Killable`, `~DiskFull`). `RacingInv`: a file that has a name may be truncated, `config.yaml`
  included, but only while a process that is still to write all of it has it open; a rename
  moves a name and no text. When all are over nobody has anything open. A killed writer or a full
  disk is what breaks it.

`StreamReportProofs`, on the same invariants `Typed`, `Placed` and `Timed`:

* `WorkerImplementsContract`: every run of the worker is a run of `StreamContract`. A report is a
  step of the live phase (`ReportsArePublished`); of the other steps only opening, tearing
  down for a rebuild and the four returns move the phase, and the rest stutter
  (`OthersMovePhase`). It needs `Placed` to know that a report finds the stream live, a rebuild
  too, and a wait down.
* `PosesAlwaysFresh`. `Fresh` bounds the age of every buffer in the queue by its place: one with
  `k` places behind it has waited for `k` detections at most, counted from the read that
  began the detection under way; reading moves everyone a place forward, a drop too, and what arrives
  finds a place however full the queue is (`ArrivalWithin`).
* `RestartsAlwaysSpaced`. `Spaced` follows the two newest pipelines and the newest rebuild
  through the backoffs: where the wait is skipped, the window has separated the rebuilds.
* `FlagsAlwaysCurrent`: whatever a flag can come from, a message or the end of the source,
  belongs to this pipeline (`Blamed`).
* `IdsAlwaysCount`, `FramesAlwaysAccounted`, `SilenceAlwaysMeansNoFrames`, `DatagramsMeanFrames`:
  only the end of an iteration touches the socket, the ids and the counters
  (`OthersReportNothing`), and there are three ways for it to report (`IterationReports`).
* `InversionAlwaysBounded`: the stamp was checked against a clock that only moves on.

`DetectorProofs` also shows `TypeCorrect`, and `CandidatesAlwaysAccounted` under
`EveryMarkerSized`, which is what `validate()` and OpenCV leave of the gates: the markers of a
frame are finitely many and are the disjoint union of those with each fate.

`CalibrateProofs`, for any target tables, fills, timers, pipelines and browsers:

* `LoweringIsSound` and `TypeCorrect` for the queue: `QueueOK` is kept by every method, so by
  whatever sequence of them an iteration is.
* `SkipsHit` and `StopIsObeyed`: `FlagsInv` says at each place of the loop what a flag that is
  set may still mean; the one view, or target, of slack is gone once the flag was tested.
* `ProgressAlwaysAddsUp`. `ProgressInv`: what was taken and what is still wanted of the targets ahead
  make the total, and what was taken are the views and the samples forfeited by skipping. What is
  wanted is a sum, which the model defines as a recursive function over the positions of the
  table. That such a function exists and satisfies its equation is an induction, stated over
  sets of naturals (`EveryNatural`, from the least element of a set) where the library's theorem
  would need an operator as a parameter; no instance of the sum is ever unfolded further than
  one step (`WantedAdds`).
* `EffortAlwaysPays`, the safety part of `SteadyEffortCompletes`: on a target nothing that was
  achieved is lost and the threshold only comes down; and once the timers have run, a frame as
  good as the best so far, above the floor, is a view, or one of at most `MinHits` detections
  before every such frame is one. What remains to TLC is that the timers run and that such
  frames are judged.
* `WatchersAreWoken` and `WatchersAreKept`, from the server's steps alone.
* `SinksAreFound` and `FailedRunsAreKept` (`MainInv`): the name of the sink after `normalise_appsink`,
  and that solving and writing only follow a save or a read of the points.

`BoardViewProofs`, for any frame, pattern, board, placement, floor and histogram with pixels
(`ViewAssumption`):

* `PlacementExists`: the four limits of an axis are the containments they stand for, no more
  and no less.
* `KeptTargetsAreReachable` and `NoTargetDroppedInVain`: what `fit_targets()` computes from the four
  limits is the fill an operator meets. A limit is a fraction of a pixel; on the grid it defines
  itself, the smallest of the limits is a square that can be placed (`LargestFits`), and on any
  grid no placed square is larger (`AxisLimit`, `PlacedOnGrid`). Fractions are compared crosswise,
  which is transitive for positive denominators (`RatioTransitive`), and squared with the area
  (`ReachableMeaning`, `CoversNoMore`). `FitInv` remembers what was decided for the target at hand.
  The run looks at quarters of a pixel for a dropped target; the theorem, at every grid
  (`NoneDroppedOnAnyGrid`).
* `TilesAreCutMidway`. `CutInv`: the prediction of a tile of two levels lies above the one and not
  above the other, or is their middle already; a pass moves it to the middle
  (`MidpointIsMiddle`), so that it does not matter at which of the ten passes it stops.
* `SuitedBoardsAreThresholded`: the region contains an accepted board with its ring, upright or in a
  box that suits the pattern, because its squares are then no larger than those that the margin
  was computed from (`SquaresFitPattern`). `turned_board` is the rest.
* `RegionsAreCovered`: the knots of the cutoff grid span the region, whatever its size leaves over.
* `TypeCorrect`: fills stay percentages, regions in the frame and cutoffs grey levels. It follows
  from `TilesInv`, the three invariants together, and would not be inductive by itself.

`HarnessProofs`, for any cameras, faults and strangers, over the invariant `NetOK` that what is in
flight was composed by its sender, all of what the `harness` run checks:

* `NoGapMeansNoLoss`. `GapInv`: without a gap the newest id is the last one and every id before it
  has come.
* `GapsAlwaysCountRuns`. `RunsInv`: while ids rise, `last_frame_id` is the newest id received, so
  that a datagram behind a gap begins exactly one more run.
* `GapsAlwaysHaveACause`. `TraceInv` says where every id of a camera went: received, on its way, or
  missed. The end of a run that is neither missed nor received is on its way, and overtaken. It
  needs the stranger to be no camera of the publisher's (`HarnessAssumption`).
* `GapsAlwaysHeartbeats`. `PulseInv`: during an iteration the clock stands, and each camera waits
  for its turn or was heard of less than a period before; between two, the next one begins at most
  `MaxLate` late.
* `AlwaysGivesUpOnSilence`. `SilenceInv`: while the receiver listens, its timer is the time the
  socket has really handed over nothing, and when the present turn of the loop began it was not
  too long yet. So the turn's poll is all that can be added, and a poll that finds it too long
  leaves.
* `PassAlwaysMeansClean` and `TypeCorrect`.

Every safety property of a passing run is a theorem, under the hypotheses named above. Only model-checked is liveness
(`EosEndsStream`, `FaultIsHandled`, `ViewsNotStranded`, `NoFrameGivesUp`,
`SteadyEffortCompletes`): it rests on fairness, hence on ENABLED, which the prover does not
handle.

Proved and not run, because a proof for every configuration makes a run of one needless:
`SamplesBalance`, `IdsCountAttempts`, `InversionIsBounded`, `KeptUntilClosed`,
`KnotsCoverRegion`, `NoneDroppedOnAnyGrid`, `EffortPays`, and the type invariants.

## 6. What the models leave out

* Poses, pixels and the numbers OpenCV computes. Each gate's outcome is a given.
* The tag content of datagrams, the MTU warning, log lines, `capture_realtime_us`.
* In the calibration: the fit, the coverage report, overlays and previews as pictures, and boards seen at an
  angle. They compute numbers or draw, and no state outlives them.
* In the harness: poses, moving averages and texts; two cameras at once, which share nothing
  but the buffer (the modules allow any number).
* Steps of the wall clock, which `guided_capture` times itself with: it only runs forward here, and
  `cap.read()` returns. `NoFrameGivesUp` rests on both.
* `make_test_video.py` renders a clip from a known pose and `check_camera.sh` runs a list of
  diagnostics: straight lines without interaction.
* The unit and the installers; the clock domain's offset and identifier (section 8).
* `clock_is_monotonic_` and the choice of a clock: an exact or an arrival stamp is the
  source's choice in `GstCapture`.
* A `sendto`, `open()` or `close()` that blocks for long.
* Overflow of `frame_id_` (two years at 30 fps); a NaN timeout, which `validate()` accepts.
* The rules of `validate()` beyond the keys kept; the order of data and rename on a disk that
  loses power; an operator who saves while a process is between its load and its rename.

## 7. Running

    tlc -config Publishing.cfg MCStreamWorker.tla
    tlapm StreamWorkerProofs.tla

Each run in `PROJECT.json` names its module and `.cfg`. A passing run takes at most a
minute or two on two cores.

## 8. Plan

What is left, in order of what matters most to the vehicle:

1. **CaptureClock**: the pipeline's clock across rebuilds, the once-computed realtime offset
   and a wall clock that steps. Properties: an exact stamp is only ever computed from a
   system clock; the offset's age.
2. **Service**: `main()`'s construction, threads and joins over several workers, each
   abstracted by `StreamContract`, which `WorkerImplementsContract` now justifies. Properties: a
   start-up failure starts nothing; the process ends when every stream does; exit codes.
3. **Supervisor**: `ExecStartPre`, `Restart=on-failure`, the exit codes of `ConfigHeal`.
4. **Installer**: what a re-install, an uninstall and a purge do to an installed config.
5. **More contracts**: abstract specifications of the sampling loop (a table of targets, each done
   or given up) and of the harness, to be implemented as the two above are.
