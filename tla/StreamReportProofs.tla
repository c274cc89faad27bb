------------------------ MODULE StreamReportProofs ------------------------
(***************************************************************************)
(* Theorems about what a stream reports: its datagrams, its counters, its  *)
(* flags and its restarts; and that it implements StreamContract.          *)
(***************************************************************************)
EXTENDS StreamWorkerProofs

USE DEF clockVars, sleepVars, frameVars, reportVars, statsVars, rebuildVars,
        openVars, runVars, captureVars, publisherVars

-----------------------------------------------------------------------------
(***************************************************************************)
(* The flags. Whatever a flag can come from, a message or the end of the   *)
(* source, belongs to this pipeline, since both of its ends are emptied    *)
(* when it is torn down.                                                   *)
(***************************************************************************)
Blamed == pipeline_ /\ (eos_ \/ error_ \/ bus # {} \/ sink_eos) => faulted

LEMMA BlamedNext == Blamed /\ [Next]_vars => Blamed'
  <1> SUFFICES ASSUME Blamed, [Next]_vars
               PROVE  Blamed'
    OBVIOUS
  <1> USE DEF Blamed
  <1>1. CASE \/ Start \/ GiveUpOpening \/ OpenAgain \/ KeepWaiting
             \/ BeginRead \/ SkipFrame \/ BeginDetect \/ DetectNothing
             \/ DetectTags \/ StayIdle \/ Tick \/ RequestStop
             \/ UNCHANGED vars
    <2>1. UNCHANGED <<pipeline_, eos_, error_, bus, sink_eos, faulted>>
      BY <1>1
      DEF Start, GiveUpOpening, OpenAgain, KeepWaiting, BeginRead,
          SkipFrame, BeginDetect, DetectNothing, DetectTags, StayIdle,
          EndIteration, Tick, RequestStop, vars
    <2> QED
      BY <2>1
  <1>2. CASE OpenSucceeds
    BY <1>2 DEF OpenSucceeds, OpenPlaying, TearDown, FreshPipelineSide
  <1>3. CASE OpenFails \/ LeaveLoop \/ FinishOnEos \/ Rebuild
    <2>1. pipeline_' = FALSE
      BY <1>3 DEF OpenFails, OpenUnbuildable, OpenNotPlaying, LeaveLoop,
                  FinishOnEos, Rebuild, TearDownForRebuild, Close
    <2> QED
      BY <2>1
  <1>4. CASE EndRebuildWait
    <2>1. pipeline_' = FALSE \/ UNCHANGED captureVars
      BY <1>4 DEF EndRebuildWait, Close
    <2> QED
      BY <2>1
  <1>5. CASE GetFrame \/ GetNoFrame
    <2>1. ReadGood \/ ReadDiscarded \/ ReadBadCaps \/ ReadUnsupported
            \/ ReadNothing
      BY <1>5 DEF GetFrame, GetNoFrame
    <2> QED
      BY <2>1 DEF ReadGood, ReadDiscarded, ReadBadCaps, ReadUnsupported,
                  ReadNothing, Pull
  <1>6. CASE Source
    BY <1>6 DEF Source, BufferArrives, PostError, ReachEos
  <1> QED
    BY <1>1, <1>2, <1>3, <1>4, <1>5, <1>6 DEF Next, Worker, Finished

\* A flag that makes the loop rebuild or exit is never left over from an
\* earlier pipeline (gst_capture.cpp:118).
THEOREM FlagsAlwaysCurrent == Spec => []FlagsAreCurrent
  <1>1. Init => Blamed
    BY DEF Init, CaptureInit, Blamed
  <1>2. Blamed => FlagsAreCurrent
    BY DEF Blamed, FlagsAreCurrent
  <1> QED
    BY <1>1, <1>2, BlamedNext, PTL DEF Spec

-----------------------------------------------------------------------------
(***************************************************************************)
(* The ids and the counters. Only the end of an iteration touches them.    *)
(***************************************************************************)
IterationEnds == SkipFrame \/ DetectNothing \/ DetectTags

\* Every other step leaves the socket, the ids and the time of the last
\* report alone, but for Start, which sets the latter.
LEMMA OthersReportNothing ==
    ASSUME [Next]_vars, ~IterationEnds
    PROVE  /\ UNCHANGED <<frame_id_, publisherVars>>
           /\ last_publish_us_' = last_publish_us_ \/ Start
  <1>1. CASE Worker
    BY <1>1
    DEF Worker, IterationEnds, Start, GiveUpOpening, OpenSucceeds, OpenFails,
        OpenAgain, KeepWaiting, BeginRead, LeaveLoop, GetFrame, GetNoFrame,
        BeginDetect, StayIdle, IdleReport, FinishOnEos, Rebuild,
        EndRebuildWait
  <1>2. CASE Source \/ RequestStop \/ Tick \/ UNCHANGED vars
    BY <1>2 DEF Source, RequestStop, Tick, vars
  <1> QED
    BY <1>1, <1>2 DEF Next, Finished

\* What an iteration's end reports: a pose, a heartbeat, or nothing because
\* a heartbeat was not due.
PoseSent ==
    /\ pc = "detecting"
    /\ frame_id_' = frame_id_ + 1
    /\ IF UdpEnabled THEN send(capture_mono_us, frame_id_ + 1, now)
                     ELSE UNCHANGED publisherVars
    /\ last_publish_us_' = last_frame_us

HeartbeatSent ==
    /\ UdpEnabled
    /\ frame_id_' = frame_id_ + 1
    /\ sendHeartbeat(last_frame_us, frame_id_ + 1, now)
    /\ last_publish_us_' = last_frame_us

NothingDue == ~HeartbeatDue /\ UNCHANGED reportVars

LEMMA IterationReports ==
    ASSUME IterationEnds
    PROVE  /\ pc \in {"got", "detecting"} /\ pc' = "looping"
           /\ UNCHANGED <<captureVars, last_frame_us, rebuildVars, openVars>>
           /\ PoseSent \/ HeartbeatSent \/ NothingDue
  <1>1. CASE DetectTags
    BY <1>1 DEF DetectTags, PoseSent, NextId
  <1>2. CASE SkipFrame \/ DetectNothing
    BY <1>2 DEF SkipFrame, DetectNothing, EndIteration, HeartbeatSent,
                NothingDue, NextId, HeartbeatDue
  <1> QED
    BY <1>1, <1>2 DEF IterationEnds

LEMMA IdsNext == TypeOK /\ IdsCountAttempts /\ [Next]_vars => IdsCountAttempts'
  <1> SUFFICES ASSUME TypeOK, IdsCountAttempts, [Next]_vars, UdpEnabled
               PROVE  /\ frame_id_' = sent' + send_errors_'
                      /\ wire'.frame_id <= frame_id_'
    BY DEF IdsCountAttempts
  <1>1. /\ frame_id_ \in Nat /\ sent \in Nat /\ send_errors_ \in Nat
        /\ wire.frame_id \in Nat /\ wire.frame_id <= frame_id_
        /\ frame_id_ = sent + send_errors_
    BY DEF TypeOK, WorkerTypeOK, PublisherTypeOK, Datagram, IdsCountAttempts
  <1>2. CASE ~IterationEnds
    BY <1>1, <1>2, OthersReportNothing
  <1>3. ASSUME NEW d, d.frame_id = frame_id_ + 1, doSend(d),
               frame_id_' = frame_id_ + 1
        PROVE  /\ frame_id_' = sent' + send_errors_'
               /\ wire'.frame_id <= frame_id_'
    BY <1>1, <1>3 DEF doSend
  <1>4. CASE IterationEnds
    BY <1>1, <1>3, <1>4, IterationReports
    DEF PoseSent, HeartbeatSent, NothingDue, send, sendHeartbeat
  <1> QED
    BY <1>2, <1>4

\* frame_id counts publish attempts whatever is sent, refused, skipped or
\* rebuilt (stream_worker.cpp:230-234).
THEOREM IdsAlwaysCount == Spec => []IdsCountAttempts
  <1>1. Init => IdsCountAttempts
    BY DEF Init, PublisherInit, NoDatagram, IdsCountAttempts
  <1> QED
    BY <1>1, IdsNext, TypeCorrect, PTL DEF Spec

\* Whoever moves one of the frame counters moves another or the place in the
\* loop, and the periodic reset moves all of them.
LEMMA FramesNext == TypeOK /\ FramesAccounted /\ [Next]_vars => FramesAccounted'
  <1> SUFFICES ASSUME TypeOK, FramesAccounted, [Next]_vars
               PROVE  FramesAccounted'
    OBVIOUS
  <1> USE DEF FramesAccounted
  <1>1. window \in Window
    BY DEF TypeOK, WorkerTypeOK
  <1>2. ASSUME NEW t, NEW w \in Window, LogStats(t, w),
               w.in = w.detected + w.skipped, pc' = "looping"
        PROVE  FramesAccounted'
    BY <1>2 DEF LogStats, EmptyWindow, Window
  <1>3. ASSUME NEW w \in Window, EndIteration(w), w.in = w.detected + w.skipped
        PROVE  FramesAccounted'
    <2> DEFINE h == [w EXCEPT !.heartbeats = @ + 1]
    <2>1. h \in Window
      BY DEF Window
    <2>2. h.in = w.in /\ h.detected = w.detected /\ h.skipped = w.skipped
      BY DEF Window
    <2>3. (LogStats(last_frame_us, h) \/ LogStats(last_frame_us, w))
            /\ pc' = "looping"
      BY <1>3 DEF EndIteration
    <2> HIDE DEF h
    <2> QED
      BY <1>2, <1>3, <2>1, <2>2, <2>3
  <1>4. CASE IterationEnds
    <2> DEFINE d == [window EXCEPT !.detected = @ + 1]
               k == [window EXCEPT !.skipped = @ + 1]
    <2>1. window.in = window.detected + window.skipped + 1
      BY <1>4, IterationReports
    <2>2. d \in Window /\ k \in Window
      BY <1>1 DEF Window
    <2>3. d.in = d.detected + d.skipped /\ k.in = k.detected + k.skipped
      BY <1>1, <2>1 DEF Window
    <2>4. \/ EndIteration(d) \/ EndIteration(k)
          \/ LogStats(last_frame_us, d) /\ pc' = "looping"
      BY <1>4 DEF IterationEnds, SkipFrame, DetectNothing, DetectTags
    <2> HIDE DEF d, k
    <2> QED
      BY <1>2, <1>3, <2>2, <2>3, <2>4
  <1>5. CASE GetFrame
    BY <1>1, <1>5 DEF GetFrame, Window
  <1>6. CASE StayIdle
    <2>1. window.in = window.detected + window.skipped
      BY <1>1, <1>6 DEF StayIdle, Window
    <2> QED
      BY <1>1, <1>2, <1>6, <2>1 DEF StayIdle
  <1>7. CASE \/ Start \/ GiveUpOpening \/ OpenSucceeds \/ OpenFails
             \/ OpenAgain \/ KeepWaiting \/ BeginRead \/ LeaveLoop
             \/ GetNoFrame \/ FinishOnEos \/ Rebuild \/ EndRebuildWait
    <2>1. /\ window' = window
          /\ pc \notin {"got", "detecting"} /\ pc' \notin {"got", "detecting"}
      BY <1>7
      DEF Start, EnterOpenCapture, GiveUpOpening, OpenSucceeds, OpenFails,
          OpenAgain, KeepWaiting, BeginRead, LeaveLoop, GetNoFrame,
          FinishOnEos, Rebuild, EndRebuildWait, BeginWait
    <2> QED
      BY <2>1
  <1>8. CASE BeginDetect
    BY <1>8 DEF BeginDetect
  <1>9. CASE Source \/ RequestStop \/ Tick \/ UNCHANGED vars
    BY <1>9 DEF Source, RequestStop, Tick, vars
  <1> QED
    BY <1>4, <1>5, <1>6, <1>7, <1>8, <1>9
    DEF Next, Worker, Finished, IterationEnds

\* A stats line always adds up, whichever of the two rate limits drops a frame
\* and wherever the reset falls (stream_worker.cpp:126-159).
THEOREM FramesAlwaysAccounted == Spec => []FramesAccounted
  <1>1. Init => FramesAccounted
    BY DEF Init, EmptyWindow, FramesAccounted
  <1> QED
    BY <1>1, FramesNext, TypeCorrect, PTL DEF Spec

-----------------------------------------------------------------------------
(***************************************************************************)
(* What silence means, and what a datagram means.                          *)
(***************************************************************************)
LEMMA SilenceNext ==
    TypeOK /\ SilenceMeansNoFrames /\ [Next]_vars => SilenceMeansNoFrames'
  <1> SUFFICES ASSUME TypeOK, SilenceMeansNoFrames, [Next]_vars
               PROVE  SilenceMeansNoFrames'
    OBVIOUS
  <1> USE WorkerAssumption DEF SilenceMeansNoFrames
  <1>0. last_frame_us \in Nat /\ last_publish_us_ \in Nat /\ now \in Nat
    BY DEF TypeOK, WorkerTypeOK, CaptureTypeOK
  <1>1. CASE IterationEnds
    BY <1>0, <1>1, IterationReports
    DEF PoseSent, HeartbeatSent, NothingDue, HeartbeatDue
  <1>2. CASE OpenSucceeds
    BY <1>0, <1>2 DEF OpenSucceeds
  <1>3. CASE BeginRead \/ GetNoFrame \/ StayIdle
    <2>1. /\ UNCHANGED <<last_frame_us, last_publish_us_, opened_at>>
          /\ pc \in {"looping", "reading", "idle"}
      BY <1>3 DEF BeginRead, GetNoFrame, StayIdle, IdleReport
    <2> QED
      BY <2>1
  <1>4. CASE \/ Start \/ GiveUpOpening \/ OpenFails \/ OpenAgain
             \/ KeepWaiting \/ LeaveLoop \/ GetFrame \/ BeginDetect
             \/ FinishOnEos \/ Rebuild \/ EndRebuildWait
    <2>1. pc' \notin {"looping", "reading", "idle"}
      BY <1>4
      DEF Start, EnterOpenCapture, GiveUpOpening, OpenFails, OpenAgain,
          KeepWaiting, LeaveLoop, GetFrame, BeginDetect, FinishOnEos,
          Rebuild, EndRebuildWait, BeginWait
    <2> QED
      BY <2>1
  <1>5. CASE Source \/ RequestStop \/ Tick \/ UNCHANGED vars
    <2>1. UNCHANGED <<pc, last_frame_us, last_publish_us_, opened_at>>
      BY <1>5 DEF Source, RequestStop, Tick, vars
    <2> QED
      BY <2>1
  <1> QED
    BY <1>1, <1>2, <1>3, <1>4, <1>5 DEF Next, Worker, Finished, IterationEnds

\* After every frame dealt with, the newest report is less than a heartbeat
\* period older than it: silence means that there are no frames
\* (stream_worker.cpp:113-122, 250).
THEOREM SilenceAlwaysMeansNoFrames == Spec => []SilenceMeansNoFrames
  <1>1. Init => SilenceMeansNoFrames
    BY DEF Init, SilenceMeansNoFrames
  <1> QED
    BY <1>1, SilenceNext, TypeCorrect, PTL DEF Spec

\* Nothing is handed to the socket but while a frame read at most one detection
\* ago is held: a datagram means a live camera (stream_worker.cpp:320-323).
THEOREM DatagramsMeanFrames == Spec => NothingSentWithoutFrame
  <1>1. Typed /\ Placed /\ Timed /\ [Next]_vars
          => [sent' + send_errors_' # sent + send_errors_
              => pipeline_ /\ held_sample_ /\ now - last_frame_us <= MaxDetect]_vars
    <2> SUFFICES ASSUME Typed, Placed, Timed, [Next]_vars,
                        sent' + send_errors_' # sent + send_errors_
                 PROVE  pipeline_ /\ held_sample_
                          /\ now - last_frame_us <= MaxDetect
      OBVIOUS
    <2>1. IterationEnds
      BY OthersReportNothing
    <2>2. pc \in {"got", "detecting"}
      BY <2>1, IterationReports
    <2>3. now \in Nat /\ last_frame_us \in Nat
      BY DEF Typed, TypeOK, CaptureTypeOK, WorkerTypeOK
    <2>4. now - last_frame_us <= MaxDetect
      BY <2>2, <2>3, WorkerAssumption DEF Timed
    <2>5. pipeline_ = TRUE /\ held_sample_ = TRUE
      BY <2>2 DEF Placed, LoopBody
    <2> QED
      BY <2>4, <2>5
  <1> QED
    BY <1>1, TypedInit, TypedNext, PlacedInit, PlacedNext, TimedInit,
       TimedNext, PTL DEF Spec, NothingSentWithoutFrame

-----------------------------------------------------------------------------
(***************************************************************************)
(* The stamps. The capture stamp of the frame in hand was checked against  *)
(* the clock, which only moves on.                                         *)
(***************************************************************************)
Stamped ==
    /\ InversionIsBounded
    /\ pc \in {"got", "detecting"} => capture_mono_us <= now + FutureSlack

LEMMA StampedNext ==
    Typed /\ Timed /\ Stamped /\ [Next]_vars => Stamped'
  <1> SUFFICES ASSUME Typed, Timed, Stamped, [Next]_vars
               PROVE  Stamped'
    OBVIOUS
  <1> USE CaptureAssumption DEF Stamped, InversionIsBounded
  <1>0. /\ now \in Nat /\ last_frame_us \in Nat /\ capture_mono_us \in Int
        /\ wire.capture \in Int /\ wire.publish \in Int
        /\ queue \in Seq(Sample) /\ CaptureTypeOK
    BY DEF Typed, TypeOK, WorkerTypeOK, CaptureTypeOK, PublisherTypeOK, Datagram
  <1>1. CASE IterationEnds
    <2>1. now' = now /\ last_frame_us <= now /\ pc' = "looping"
      <3>1. pc \in {"got", "detecting"} /\ pc' = "looping"
        BY <1>1, IterationReports
      <3>2. Worker
        BY <3>1 DEF Next, Source, RequestStop, Tick, Finished, vars
      <3> QED
        BY <1>0, <3>1, <3>2, WorkerAssumption DEF Timed, Worker
    <2>2. wire' = wire \/ (wire'.publish = now /\
             (wire'.capture = last_frame_us \/ wire'.capture = capture_mono_us))
      BY <1>1, IterationReports
      DEF PoseSent, HeartbeatSent, NothingDue, send, sendHeartbeat, doSend
    <2>3. pc \in {"got", "detecting"}
      BY <1>1, IterationReports
    <2> QED
      BY <1>0, <2>1, <2>2, <2>3
  <1>2. CASE ~IterationEnds
    <2>1. wire' = wire
      BY <1>2, OthersReportNothing
    <2>2. now' \in Nat /\ now <= now'
      BY <1>0 DEF Next, Worker, Source, RequestStop, Tick, Finished, vars
    <2>3. CASE GetFrame
      <3>1. Head(queue).stamp \in Int
        <4>1. Head(queue) \in Sample
          BY <1>0, <2>3, HeadTailProperties DEF GetFrame, ReadGood, Pull
        <4> QED
          BY <4>1 DEF Sample
      <3>2. capture_mono_us' <= now + FutureSlack /\ capture_mono_us' \in Int
        BY <1>0, <2>3, <3>1 DEF GetFrame, CaptureStamp
      <3>3. InversionIsBounded'
        BY <2>1
      <3>4. capture_mono_us' <= now' + FutureSlack
        <4>1. /\ now \in Int /\ now' \in Int /\ FutureSlack \in Int
              /\ capture_mono_us' \in Int /\ now <= now'
              /\ capture_mono_us' <= now + FutureSlack
          BY <1>0, <2>2, <3>2
        <4>2. \A a, b, c, d \in Int : a <= b + d /\ b <= c => a <= c + d
          OBVIOUS
        <4> QED
          BY <4>1, <4>2, Zenon
      <3> QED
        BY <3>3, <3>4
    <2>4. CASE ~GetFrame
      <3>1. pc' \in {"got", "detecting"}
              => pc \in {"got", "detecting"} /\ capture_mono_us' = capture_mono_us
        <4>1. CASE Worker
          BY <1>2, <2>4, <4>1
          DEF Worker, IterationEnds, Start, EnterOpenCapture, GiveUpOpening,
              OpenSucceeds, OpenFails, OpenAgain, KeepWaiting, BeginRead,
              LeaveLoop, GetNoFrame, BeginDetect, StayIdle, FinishOnEos,
              Rebuild, EndRebuildWait, BeginWait
        <4>2. CASE Source \/ RequestStop \/ Tick \/ UNCHANGED vars
          BY <4>2 DEF Source, RequestStop, Tick, vars
        <4> QED
          BY <4>1, <4>2 DEF Next, Finished
      <3> QED
        BY <1>0, <2>1, <2>2, <3>1
    <2> QED
      BY <2>3, <2>4
  <1> QED
    BY <1>1, <1>2

\* A pose is never on the wire as captured later than it was sent by more than
\* the slack the reader grants a stamp (gst_capture.cpp:28, 375-381).
THEOREM InversionAlwaysBounded == Spec => []InversionIsBounded
  <1>1. Init => Stamped
    BY CaptureAssumption
    DEF Init, PublisherInit, NoDatagram, Stamped, InversionIsBounded
  <1>2. Stamped => InversionIsBounded
    BY DEF Stamped
  <1> QED
    BY <1>1, <1>2, StampedNext, TypedInit, TypedNext, TimedInit, TimedNext,
       PTL DEF Spec

-----------------------------------------------------------------------------
(***************************************************************************)
(* The spacing of restarts. Before a pipeline is opened for the third time *)
(* either the rebuild's own wait has passed, or the previous rebuild was   *)
(* RapidWindow ago and the pipeline before last older still.               *)
(***************************************************************************)
Spaced ==
    /\ opened_before <= opened_at
    /\ rebuild_backoff_s_ = 0 \/ rebuild_backoff_s_ >= BackoffMin
    /\ pc = "start" => opened_at = -BackoffMin
    /\ pc \in LoopBody => /\ opened_before <= last_rebuild_us_
                          /\ opened_at <= now
    /\ pc \in {"opening", "open_wait", "rebuild_wait"} =>
          opened_at <= last_rebuild_us_ /\ last_rebuild_us_ <= now
    /\ pc \in {"opening", "open_wait"} => opened_before + BackoffMin <= now
    /\ pc = "rebuild_wait" => last_rebuild_us_ + BackoffMin <= deadline

LEMMA SpacedInit == Init => Spaced
  BY WorkerAssumption DEF Init, Spaced, LoopBody

LEMMA SpacedNext == TypeOK /\ Spaced /\ [Next]_vars => Spaced'
  <1> SUFFICES ASSUME TypeOK, Spaced, [Next]_vars
               PROVE  Spaced'
    OBVIOUS
  <1> USE WorkerAssumption DEF Spaced, LoopBody
  <1>0. /\ now \in Nat /\ deadline \in Nat /\ rebuild_backoff_s_ \in Nat
        /\ last_rebuild_us_ \in Nat /\ opened_at \in Int
        /\ opened_before \in Int
    BY DEF TypeOK, WorkerTypeOK, CaptureTypeOK
  <1>1. CASE Worker
    <2>1. now' = now
      BY <1>1 DEF Worker
    <2>2. CASE Start
      BY <1>0, <2>1, <2>2 DEF Start, EnterOpenCapture
    <2>3. CASE GiveUpOpening \/ LeaveLoop \/ FinishOnEos
      BY <1>0, <2>3 DEF GiveUpOpening, LeaveLoop, FinishOnEos
    <2>4. CASE OpenSucceeds
      BY <1>0, <2>1, <2>4 DEF OpenSucceeds
    <2>5. CASE OpenFails \/ OpenAgain \/ KeepWaiting
      BY <1>0, <2>1, <2>5 DEF OpenFails, OpenAgain, KeepWaiting, BeginWait
    <2>6. CASE BeginRead \/ GetFrame \/ GetNoFrame \/ BeginDetect \/ StayIdle
               \/ IterationEnds
      <3>1. /\ pc \in LoopBody /\ pc' \in LoopBody
            /\ UNCHANGED <<rebuildVars, openVars>>
        BY <2>6
        DEF BeginRead, GetFrame, GetNoFrame, BeginDetect, StayIdle,
            IterationEnds, SkipFrame, DetectNothing, DetectTags, EndIteration
      <3> QED
        BY <1>0, <2>1, <3>1
    <2>7. CASE Rebuild
      <3>1. /\ Escalated \in Nat /\ Escalated >= BackoffMin
        BY <1>0, EscalatedBackoff
      <3>2. /\ pc = "idle" /\ last_rebuild_us_' = now
            /\ UNCHANGED openVars
        BY <2>7 DEF Rebuild, TearDownForRebuild
      <3>3. CASE /\ rebuild_backoff_s_' = Escalated
                 /\ BeginWait("rebuild_wait", Escalated)
        BY <1>0, <2>1, <3>1, <3>2, <3>3 DEF BeginWait
      <3>4. CASE /\ now - last_rebuild_us_ >= RapidWindow
                 /\ rebuild_backoff_s_' = 0 /\ EnterOpenCapture
        BY <1>0, <2>1, <3>2, <3>4 DEF EnterOpenCapture
      <3> QED
        BY <2>7, <3>3, <3>4 DEF Rebuild
    <2>8. CASE EndRebuildWait
      BY <1>0, <2>1, <2>8 DEF EndRebuildWait, EnterOpenCapture, WaitIsOver
    <2> QED
      BY <1>1, <2>2, <2>3, <2>4, <2>5, <2>6, <2>7, <2>8
      DEF Worker, IterationEnds
  <1>2. CASE Source \/ RequestStop \/ Tick \/ UNCHANGED vars
    <2>1. /\ UNCHANGED <<pc, deadline, rebuildVars, openVars>>
          /\ now' \in Nat /\ now <= now'
      BY <1>0, <1>2 DEF Source, RequestStop, Tick, vars
    <2> QED
      BY <1>0, <2>1
  <1> QED
    BY <1>1, <1>2 DEF Next, Finished

\* Of three pipelines in a row the third comes up at least BackoffMin after the
\* first, although the backoff may be reset on the way (stream_worker.cpp:286-312).
THEOREM RestartsAlwaysSpaced == Spec => RestartsAreSpaced
  <1>1. TypeOK /\ Placed /\ Spaced /\ [Next]_vars
          => [~pipeline_ /\ pipeline_' => now - opened_before >= BackoffMin]_vars
    <2> SUFFICES ASSUME TypeOK, Placed, Spaced, [Next]_vars,
                        ~pipeline_, pipeline_'
                 PROVE  now - opened_before >= BackoffMin
      OBVIOUS
    <2>1. pc \notin LoopBody
      BY DEF Placed
    <2>2. pc = "opening"
      BY <2>1
      DEF LoopBody, Next, Worker, Source, RequestStop, Tick, Finished, vars,
          Start, GiveUpOpening, OpenSucceeds, OpenFails, OpenAgain,
          KeepWaiting, BeginRead, LeaveLoop, GetFrame, GetNoFrame, SkipFrame,
          BeginDetect, DetectNothing, DetectTags, StayIdle, FinishOnEos,
          Rebuild, EndRebuildWait, Close, BufferArrives, PostError, ReachEos
    <2> QED
      BY <2>2, WorkerAssumption DEF Spaced, TypeOK, WorkerTypeOK, CaptureTypeOK
  <1> QED
    BY <1>1, TypeCorrect, TypedInit, TypedNext, PlacedInit, PlacedNext,
       SpacedInit, SpacedNext, PTL DEF Spec, RestartsAreSpaced

-----------------------------------------------------------------------------
(***************************************************************************)
(* The contract. Reports are steps of the live phase, tearing down for a   *)
(* rebuild leads down, opening leads up, and whatever returns from run()   *)
(* ends the stream; no other step is visible.                              *)
(***************************************************************************)
Phase == IF pc = "done" THEN "over" ELSE IF pipeline_ THEN "live" ELSE "down"

Ends == GiveUpOpening \/ LeaveLoop \/ FinishOnEos \/ (EndRebuildWait /\ stop)

Invisible == UNCHANGED <<Phase, frame_id_, sent, send_errors_, rebuilds_>>

LEMMA ReportsArePublished ==
    ASSUME Placed, IterationEnds
    PROVE  Contract!Publish \/ Invisible
  <1>1. Phase = "live" /\ Phase' = "live" /\ rebuilds_' = rebuilds_
    BY IterationReports DEF Placed, LoopBody, Phase
  <1>2. CASE PoseSent
    BY <1>1, <1>2, WorkerAssumption
    DEF PoseSent, send, doSend, Contract!Publish, Phase
  <1>3. CASE HeartbeatSent
    BY <1>1, <1>3 DEF HeartbeatSent, sendHeartbeat, doSend, Contract!Publish, Phase
  <1>4. CASE NothingDue
    BY <1>1, <1>4 DEF NothingDue, Invisible
  <1> QED
    BY <1>2, <1>3, <1>4, IterationReports

LEMMA OthersMovePhase ==
    ASSUME Placed, [Next]_vars, ~IterationEnds
    PROVE  Contract!GoLive \/ Contract!GoDown \/ Contract!End \/ Invisible
  <1>0. UNCHANGED <<frame_id_, sent, send_errors_>>
    BY OthersReportNothing
  <1> USE DEF Phase, Placed, LoopBody, Invisible
  <1>1. CASE OpenSucceeds
    <2>1. Phase = "down" /\ Phase' = "live" /\ rebuilds_' = rebuilds_
      BY <1>1 DEF OpenSucceeds, OpenPlaying
    <2> QED
      BY <1>0, <2>1 DEF Contract!GoLive
  <1>2. CASE Rebuild
    <2>1. Phase = "live" /\ Phase' = "down" /\ rebuilds_' = rebuilds_ + 1
      BY <1>2 DEF Rebuild, TearDownForRebuild, Close, EnterOpenCapture,
                  BeginWait
    <2> QED
      BY <1>0, <2>1 DEF Contract!GoDown
  <1>3. CASE GiveUpOpening \/ LeaveLoop \/ FinishOnEos
    <2>1. Phase # "over" /\ Phase' = "over" /\ rebuilds_' = rebuilds_
      BY <1>3 DEF GiveUpOpening, LeaveLoop, FinishOnEos
    <2> QED
      BY <1>0, <2>1 DEF Contract!End
  <1>4. CASE EndRebuildWait
    <2>1. Phase = "down" /\ rebuilds_' = rebuilds_
      BY <1>4 DEF EndRebuildWait
    <2>2. Phase' \in {"down", "over"}
      BY <2>1, <1>4 DEF EndRebuildWait, EnterOpenCapture
    <2> QED
      BY <1>0, <2>1, <2>2 DEF Contract!End
  <1>5. CASE \/ Start \/ OpenFails \/ OpenAgain \/ KeepWaiting \/ BeginRead
             \/ BeginDetect \/ StayIdle
    BY <1>0, <1>5
    DEF Start, EnterOpenCapture, OpenFails, OpenUnbuildable, OpenNotPlaying,
        Close, OpenAgain, KeepWaiting, BeginWait, BeginRead, BeginDetect,
        StayIdle
  <1>6. CASE GetFrame \/ GetNoFrame
    <2>1. pipeline_' = pipeline_
      BY <1>6 DEF GetFrame, GetNoFrame, ReadGood, ReadDiscarded, ReadBadCaps,
                  ReadUnsupported, ReadNothing, Pull
    <2> QED
      BY <1>0, <1>6, <2>1 DEF GetFrame, GetNoFrame
  <1>7. CASE Source \/ RequestStop \/ Tick \/ UNCHANGED vars
    BY <1>0, <1>7
    DEF Source, BufferArrives, PostError, ReachEos, RequestStop, Tick,
        runVars, vars
  <1> QED
    BY <1>1, <1>2, <1>3, <1>4, <1>5, <1>6, <1>7
    DEF Next, Worker, Finished, IterationEnds

\* Every run of the worker is a run of the contract: the restarts, the ids and
\* the end of the stream are what an observer was promised, for every timeout,
\* queue and fault (stream_worker.cpp:77-317).
THEOREM WorkerImplementsContract == Spec => ImplementsContract
  <1>1. Init => Contract!Init
    BY DEF Init, CaptureInit, PublisherInit, Contract!Init
  <1>2. Placed /\ [Next]_vars => [Contract!Next]_(Contract!contractVars)
    <2> SUFFICES ASSUME Placed, [Next]_vars
                 PROVE  Contract!Next \/ UNCHANGED Contract!contractVars
      OBVIOUS
    <2>1. Invisible => UNCHANGED Contract!contractVars
      BY DEF Invisible, Phase, Contract!contractVars
    <2> QED
      BY <2>1, ReportsArePublished, OthersMovePhase DEF Contract!Next
  <1> QED
    BY <1>1, <1>2, TypedInit, TypedNext, PlacedInit, PlacedNext, PTL
    DEF Spec, ImplementsContract, Contract!Spec

-----------------------------------------------------------------------------
(***************************************************************************)
(* The age of a pose. A buffer waits for no more detections than there are *)
(* places from its own to the end of the queue, counted from the read that *)
(* began the detection under way; a drop only moves it forward.            *)
(***************************************************************************)
Waited(k) == MaxIngest + k * MaxDetect

LEMMA WaitedGrows ==
    ASSUME NEW k \in Int
    PROVE  /\ Waited(k) \in Int
           /\ Waited(k + 1) = Waited(k) + MaxDetect
           /\ k >= 0 => Waited(k) >= MaxIngest
  <1>1. MaxIngest \in Nat /\ MaxDetect \in Nat
    BY CaptureAssumption, WorkerAssumption
  <1>2. (k + 1) * MaxDetect = k * MaxDetect + MaxDetect
    BY <1>1
  <1>3. k >= 0 => k * MaxDetect >= 0
    BY <1>1
  <1> QED
    BY <1>1, <1>2, <1>3 DEF Waited

QueueWithin(q, t, k) ==
    \A i \in 1 .. Len(q) : t - q[i].stamp <= Waited(k - i)

LEMMA StampsAreTimes ==
    ASSUME NEW q \in Seq(Sample), NEW i \in 1 .. Len(q)
    PROVE  q[i].stamp \in Int
  <1>1. q[i] \in Sample
    BY ElementOfSeq
  <1> QED
    BY <1>1 DEF Sample

LEMMA TailWithin ==
    ASSUME NEW q \in Seq(Sample), q # <<>>, NEW t, NEW k \in Int,
           QueueWithin(q, t, k)
    PROVE  QueueWithin(Tail(q), t, k - 1)
  <1> SUFFICES ASSUME NEW i \in 1 .. Len(Tail(q))
               PROVE  t - Tail(q)[i].stamp <= Waited(k - 1 - i)
    BY DEF QueueWithin
  <1>1. i + 1 \in 1 .. Len(q) /\ Tail(q)[i] = q[i + 1]
    BY HeadTailProperties
  <1>2. k - 1 - i = k - (i + 1)
    OBVIOUS
  <1> QED
    BY <1>1, <1>2 DEF QueueWithin

\* A detection later, everyone may have waited for one more.
LEMMA LaterWithin ==
    ASSUME NEW q \in Seq(Sample), NEW t \in Int, NEW u \in Int, NEW k \in Int,
           QueueWithin(q, t, k), u - t <= MaxDetect
    PROVE  QueueWithin(q, u, k + 1)
  <1> SUFFICES ASSUME NEW i \in 1 .. Len(q)
               PROVE  u - q[i].stamp <= Waited(k + 1 - i)
    BY DEF QueueWithin
  <1>1. t - q[i].stamp <= Waited(k - i) /\ q[i].stamp \in Int
    BY StampsAreTimes DEF QueueWithin
  <1>2. Waited(k - i) \in Int /\ Waited((k - i) + 1) = Waited(k - i) + MaxDetect
    <2>1. k - i \in Int
      OBVIOUS
    <2> QED
      BY <2>1, WaitedGrows, Zenon
  <1>3. (k - i) + 1 = k + 1 - i
    OBVIOUS
  <1> DEFINE w == Waited(k - i)
             later == Waited(k + 1 - i)
             s == q[i].stamp
  <1>4. /\ w \in Int /\ s \in Int /\ t - s <= w
        /\ later = w + MaxDetect
    BY <1>1, <1>2, <1>3
  <1>5. MaxDetect \in Int
    BY WorkerAssumption
  <1> HIDE DEF w, later, s
  <1>6. u - s <= later
    BY <1>4, <1>5
  <1> QED
    BY <1>6 DEF later, s

LEMMA MoreWithin ==
    ASSUME NEW q \in Seq(Sample), NEW t \in Int, NEW k \in Int,
           QueueWithin(q, t, k)
    PROVE  QueueWithin(q, t, k + 1)
  <1>1. t - t <= MaxDetect
    BY WorkerAssumption
  <1> QED
    BY <1>1, LaterWithin

LEMMA AppendWithin ==
    ASSUME NEW q \in Seq(Sample), NEW s \in Sample, NEW t \in Int,
           NEW k \in Int, QueueWithin(q, t, k), Len(q) < k,
           t - s.stamp <= MaxIngest
    PROVE  QueueWithin(Append(q, s), t, k)
  <1> SUFFICES ASSUME NEW i \in 1 .. Len(Append(q, s))
               PROVE  t - Append(q, s)[i].stamp <= Waited(k - i)
    BY DEF QueueWithin
  <1>1. CASE i \in 1 .. Len(q)
    BY <1>1, AppendProperties DEF QueueWithin
  <1>2. CASE i = Len(q) + 1
    <2>1. Append(q, s)[i] = s /\ k - i >= 0 /\ k - i \in Int
      BY <1>2, AppendProperties
    <2>2. Waited(k - i) \in Int /\ Waited(k - i) >= MaxIngest
      BY <2>1, WaitedGrows
    <2>3. s.stamp \in Int /\ MaxIngest \in Int
      BY CaptureAssumption DEF Sample
    <2> QED
      BY <2>1, <2>2, <2>3
  <1> QED
    BY <1>1, <1>2, AppendProperties

\* What arrives finds its place, however full the queue is.
LEMMA ArrivalWithin ==
    ASSUME NEW q \in Seq(Sample), NEW s \in Sample, NEW t \in Int,
           NEW k \in Int, QueueWithin(q, t, k), Len(q) <= MaxBuffers,
           MaxBuffers <= k, t - s.stamp <= MaxIngest
    PROVE  /\ Len(KeepNewest(Append(q, s))) <= MaxBuffers
           /\ QueueWithin(KeepNewest(Append(q, s)), t, k)
  <1>0. MaxBuffers \in Nat /\ Len(q) \in Nat
    BY CaptureAssumption
  <1>1. Append(q, s) \in Seq(Sample) /\ Len(Append(q, s)) = Len(q) + 1
    BY AppendProperties
  <1>2. CASE Len(q) + 1 <= MaxBuffers
    BY <1>0, <1>1, <1>2, AppendWithin DEF KeepNewest
  <1>3. CASE Len(q) = MaxBuffers
    <2>1. QueueWithin(q, t, k + 1)
      BY MoreWithin
    <2>2. QueueWithin(Append(q, s), t, k + 1)
      BY <1>0, <1>3, <2>1, AppendWithin
    <2>3. Append(q, s) # <<>> /\ k + 1 \in Int
      BY <1>1, AppendProperties
    <2> DEFINE a == Append(q, s)
    <2>4. /\ QueueWithin(Tail(a), t, (k + 1) - 1)
          /\ Len(Tail(a)) = Len(a) - 1
      <3>1. a \in Seq(Sample) /\ a # <<>> /\ QueueWithin(a, t, k + 1)
        BY <1>1, <2>2, <2>3
      <3> HIDE DEF a
      <3> QED
        BY <2>3, <3>1, TailWithin, HeadTailProperties, Zenon
    <2>5. (k + 1) - 1 = k
      OBVIOUS
    <2>6. KeepNewest(Append(q, s)) = Tail(Append(q, s))
      BY <1>0, <1>1, <1>3 DEF KeepNewest
    <2> QED
      BY <1>0, <1>1, <1>3, <2>4, <2>5, <2>6
  <1> QED
    BY <1>0, <1>2, <1>3

InHand == {"got", "detecting"}
Between == {"looping", "reading", "idle"}

Fresh ==
    /\ PosesAreFresh
    /\ Len(queue) <= MaxBuffers
    /\ pc \in InHand => /\ QueueWithin(queue, last_frame_us, MaxBuffers)
                        /\ last_frame_us - capture_mono_us <= Waited(MaxBuffers)
    /\ pc \in Between => QueueWithin(queue, now, MaxBuffers + 1)

FreshTypes ==
    /\ now \in Nat /\ last_frame_us \in Nat /\ capture_mono_us \in Int
    /\ queue \in Seq(Sample) /\ MaxBuffers \in Nat /\ Len(queue) \in Nat
    /\ MaxDetect \in Nat /\ MaxIngest \in Nat
    /\ Waited(MaxBuffers) \in Int
    /\ Waited(MaxBuffers + 1) = Waited(MaxBuffers) + MaxDetect
    /\ Waited(MaxBuffers) >= MaxIngest

LEMMA FreshTyped == Typed => FreshTypes
  <1> SUFFICES ASSUME Typed
               PROVE  FreshTypes
    OBVIOUS
  <1>1. /\ MaxBuffers \in Nat /\ MaxDetect \in Nat /\ MaxIngest \in Nat
        /\ MaxBuffers \in Int /\ MaxBuffers >= 0
    BY CaptureAssumption, WorkerAssumption
  <1>2. /\ now \in Nat /\ last_frame_us \in Nat /\ capture_mono_us \in Int
        /\ queue \in Seq(Sample) /\ Len(queue) \in Nat
    BY DEF Typed, TypeOK, WorkerTypeOK, CaptureTypeOK
  <1> QED
    BY <1>1, <1>2, WaitedGrows DEF FreshTypes

EmptyIsWithin == \A t, k : QueueWithin(<<>>, t, k)

LEMMA EmptyWithin == EmptyIsWithin
  BY DEF EmptyIsWithin, QueueWithin

\* The end of an iteration: at most a detection since the read, so what was
\* measured from the read is one more detection away from now.
LEMMA FreshAfterIteration ==
    ASSUME Typed, Timed, Fresh, [Next]_vars, IterationEnds
    PROVE  Fresh'
  <1>0. FreshTypes
    BY FreshTyped
  <1>1. /\ pc \in InHand /\ pc' = "looping"
        /\ queue' = queue /\ now' = now
        /\ last_frame_us <= now /\ now - last_frame_us <= MaxDetect
    <2>1. pc \in InHand /\ pc' = "looping" /\ queue' = queue
      BY IterationReports DEF InHand, captureVars
    <2>2. Worker
      BY <2>1 DEF InHand, Next, Source, RequestStop, Tick, Finished, runVars,
                  vars
    <2> QED
      BY <1>0, <2>1, <2>2 DEF Timed, Worker, InHand, FreshTypes
  <1>2. QueueWithin(queue, now, MaxBuffers + 1)
    <2>1. /\ queue \in Seq(Sample) /\ last_frame_us \in Int /\ now \in Int
          /\ MaxBuffers \in Int /\ now - last_frame_us <= MaxDetect
          /\ QueueWithin(queue, last_frame_us, MaxBuffers)
      BY <1>0, <1>1 DEF FreshTypes, Fresh
    <2> QED
      BY <2>1, LaterWithin, Zenon
  <1>3. \/ wire' = wire
        \/ /\ wire'.publish = now
           /\ wire'.capture = last_frame_us \/ wire'.capture = capture_mono_us
    BY IterationReports
    DEF PoseSent, HeartbeatSent, NothingDue, send, sendHeartbeat, doSend
  <1>4. PosesAreFresh'
    <2>1. PosesAreFresh <=> wire.publish - wire.capture <= Waited(MaxBuffers + 1)
      BY DEF PosesAreFresh, Waited
    <2>2. PosesAreFresh' <=> wire'.publish - wire'.capture <= Waited(MaxBuffers + 1)
      BY DEF PosesAreFresh, Waited
    <2>3. CASE wire' = wire
      BY <2>3 DEF Fresh, PosesAreFresh
    <2>4. CASE wire' # wire
      <3>1. now - last_frame_us <= Waited(MaxBuffers + 1)
        BY <1>0, <1>1 DEF FreshTypes
      <3>2. now - capture_mono_us <= Waited(MaxBuffers + 1)
        <4>1. last_frame_us - capture_mono_us <= Waited(MaxBuffers)
          BY <1>1 DEF Fresh
        <4> QED
          BY <1>0, <1>1, <4>1 DEF FreshTypes
      <3> QED
        BY <1>3, <2>2, <2>4, <3>1, <3>2
    <2> QED
      BY <2>3, <2>4
  <1> QED
    BY <1>0, <1>1, <1>2, <1>4 DEF Fresh, InHand, Between

\* A read takes the head, or finds nothing: everyone else moves one forward.
LEMMA FreshAfterRead ==
    ASSUME Typed, Fresh, now' = now, wire' = wire, GetFrame \/ GetNoFrame
    PROVE  Fresh'
  <1>0. FreshTypes
    BY FreshTyped
  <1>1. /\ pc \in Between /\ QueueWithin(queue, now, MaxBuffers + 1)
        /\ Len(queue) <= MaxBuffers /\ PosesAreFresh
        /\ MaxBuffers + 1 \in Int /\ (MaxBuffers + 1) - 1 = MaxBuffers
    BY <1>0 DEF GetFrame, GetNoFrame, Between, Fresh, FreshTypes
  <1>2. PosesAreFresh'
    BY <1>1 DEF PosesAreFresh
  <1>3. ASSUME queue # <<>>, queue' = Tail(queue)
        PROVE  /\ QueueWithin(queue', now, MaxBuffers)
               /\ Len(queue') <= MaxBuffers
    <2>1. QueueWithin(Tail(queue), now, (MaxBuffers + 1) - 1)
      BY <1>0, <1>1, <1>3, TailWithin, Zenon DEF FreshTypes
    <2>2. Len(Tail(queue)) = Len(queue) - 1
      BY <1>0, <1>3, HeadTailProperties DEF FreshTypes
    <2> QED
      BY <1>0, <1>1, <1>3, <2>1, <2>2 DEF FreshTypes
  <1>4. CASE GetFrame
    <2>1. queue # <<>> /\ queue' = Tail(queue) /\ pc' = "got"
      BY <1>4 DEF GetFrame, ReadGood, Pull
    <2>2. last_frame_us' = now /\ capture_mono_us' = CaptureStamp(queue[1])
      BY <1>0, <1>4 DEF GetFrame, FreshTypes
    <2>3. now - capture_mono_us' <= Waited(MaxBuffers)
      <3>1. 1 \in 1 .. Len(queue)
        BY <1>0, <2>1 DEF FreshTypes
      <3>2. now - queue[1].stamp <= Waited((MaxBuffers + 1) - 1)
        BY <1>1, <3>1 DEF QueueWithin
      <3> QED
        BY <1>0, <1>1, <2>2, <3>2 DEF CaptureStamp, FreshTypes
    <2> QED
      BY <1>2, <1>3, <2>1, <2>2, <2>3 DEF Fresh, InHand, Between
  <1>5. CASE GetNoFrame
    <2>1. pc' = "idle"
      BY <1>5 DEF GetNoFrame
    <2>2. CASE queue # <<>> /\ queue' = Tail(queue)
      <3>1. QueueWithin(queue', now, MaxBuffers) /\ Len(queue') <= MaxBuffers
        BY <1>3, <2>2
      <3>2. queue' \in Seq(Sample) /\ now \in Int /\ MaxBuffers \in Int
        BY <1>0, <2>2, HeadTailProperties DEF FreshTypes
      <3>3. QueueWithin(queue', now, MaxBuffers + 1)
        BY <3>1, <3>2, MoreWithin, Zenon
      <3> QED
        BY <1>2, <2>1, <3>1, <3>3 DEF Fresh, InHand, Between
    <2>3. CASE queue' = queue
      BY <1>1, <1>2, <2>1, <2>3 DEF Fresh, InHand, Between
    <2> QED
      BY <1>5, <2>2, <2>3 DEF GetNoFrame, ReadDiscarded, ReadBadCaps,
                              ReadUnsupported, ReadNothing, Pull
  <1> QED
    BY <1>4, <1>5

LEMMA FreshAfterArrival ==
    ASSUME Typed, Timed, Placed, Fresh, BufferArrives, UNCHANGED <<clockVars, runVars>>
    PROVE  Fresh'
  <1>0. FreshTypes
    BY FreshTyped
  <1>1. PICK k \in SampleKinds, t \in (now - MaxIngest) .. (now + MaxAhead) :
            queue' = KeepNewest(Append(queue, [kind |-> k, stamp |-> t]))
    BY DEF BufferArrives
  <1> DEFINE s == [kind |-> k, stamp |-> t]
  <1>2. s \in Sample /\ now - s.stamp <= MaxIngest
    BY <1>0, CaptureAssumption DEF Sample, FreshTypes
  <1>3. queue' = KeepNewest(Append(queue, s))
    BY <1>1
  <1>4. /\ Len(queue) <= MaxBuffers /\ MaxBuffers \in Int
        /\ MaxBuffers + 1 \in Int /\ MaxBuffers <= MaxBuffers
        /\ MaxBuffers <= MaxBuffers + 1 /\ s.stamp \in Int
    BY <1>0, <1>2 DEF Fresh, FreshTypes, Sample
  <1> HIDE DEF s
  <1>5. UNCHANGED <<pc, now, last_frame_us, capture_mono_us, wire>>
    BY DEF clockVars, runVars, frameVars, reportVars, publisherVars
  <1>6. PosesAreFresh'
    BY <1>5 DEF Fresh, PosesAreFresh
  <1>7. pc \in InHand \cup Between
    BY DEF Placed, LoopBody, BufferArrives, InHand, Between
  <1>8. CASE pc \in InHand
    <2>1. last_frame_us <= now
      BY <1>0, <1>8 DEF Timed, InHand, FreshTypes
    <2>2. /\ last_frame_us - s.stamp <= MaxIngest /\ last_frame_us \in Int
          /\ QueueWithin(queue, last_frame_us, MaxBuffers)
      BY <1>0, <1>2, <1>4, <1>8, <2>1 DEF FreshTypes, Fresh
    <2>3. /\ Len(queue') <= MaxBuffers
          /\ QueueWithin(queue', last_frame_us, MaxBuffers)
      BY <1>0, <1>2, <1>3, <1>4, <2>2, ArrivalWithin, Zenon DEF FreshTypes
    <2> QED
      BY <1>5, <1>6, <1>8, <2>3 DEF Fresh, InHand, Between
  <1>9. CASE pc \in Between
    <2>1. now \in Int /\ QueueWithin(queue, now, MaxBuffers + 1)
      BY <1>0, <1>9 DEF FreshTypes, Fresh
    <2>2. /\ Len(queue') <= MaxBuffers
          /\ QueueWithin(queue', now, MaxBuffers + 1)
      BY <1>0, <1>2, <1>3, <1>4, <2>1, ArrivalWithin, Zenon DEF FreshTypes
    <2> QED
      BY <1>5, <1>6, <1>9, <2>2 DEF Fresh, InHand, Between
  <1> QED
    BY <1>7, <1>8, <1>9

LEMMA FreshNext == Typed /\ Timed /\ Placed /\ Fresh /\ [Next]_vars => Fresh'
  <1> SUFFICES ASSUME Typed, Timed, Placed, Fresh, [Next]_vars
               PROVE  Fresh'
    OBVIOUS
  <1>0. FreshTypes
    BY FreshTyped
  <1>1. CASE IterationEnds
    BY <1>1, FreshAfterIteration
  <1>2. ASSUME ~IterationEnds
        PROVE  wire' = wire
    BY <1>2, OthersReportNothing
  <1>3. CASE GetFrame \/ GetNoFrame
    <2>1. pc = "reading" /\ pc' \in {"got", "idle"}
      BY <1>3 DEF GetFrame, GetNoFrame
    <2>2. ~IterationEnds /\ now' = now
      BY <2>1, IterationReports
      DEF Next, Worker, Source, RequestStop, Tick, Finished, runVars, vars
    <2> QED
      BY <1>2, <1>3, <2>2, FreshAfterRead
  <1>4. ASSUME ~IterationEnds, Len(queue') <= MaxBuffers,
               pc' \in Between => QueueWithin(queue', now', MaxBuffers + 1),
               pc' \in InHand =>
                  /\ pc \in InHand /\ queue' = queue
                  /\ UNCHANGED <<last_frame_us, capture_mono_us>>
        PROVE  Fresh'
    <2>1. PosesAreFresh'
      BY <1>2, <1>4 DEF Fresh, PosesAreFresh
    <2> QED
      BY <1>4, <2>1 DEF Fresh
  <1>5. Len(queue) <= MaxBuffers /\ Len(<<>>) <= MaxBuffers
    BY <1>0 DEF Fresh, FreshTypes
  <1>6. CASE OpenSucceeds
    <2>1. pc' = "looping" /\ queue' = <<>> /\ pc = "opening"
      BY <1>6 DEF OpenSucceeds, OpenPlaying, TearDown, FreshPipelineSide
    <2>2. ~IterationEnds
      BY <2>1, IterationReports
    <2>3. QueueWithin(queue', now', MaxBuffers + 1)
      BY <2>1, EmptyWithin DEF EmptyIsWithin
    <2> QED
      BY <1>4, <1>5, <2>1, <2>2, <2>3 DEF InHand
  <1>7. CASE BeginRead \/ StayIdle
    <2>1. pc \in Between /\ pc' \in {"reading", "looping"} /\ queue' = queue
      BY <1>7 DEF BeginRead, StayIdle, Between
    <2>2. ~IterationEnds /\ now' = now
      BY <2>1, IterationReports, <1>7
      DEF Next, Worker, Source, RequestStop, Tick, Finished, runVars, vars,
          Between, BeginRead, StayIdle
    <2> QED
      BY <1>4, <1>5, <2>1, <2>2 DEF Fresh, InHand
  <1>8. CASE BeginDetect
    <2>1. /\ pc = "got" /\ pc' = "detecting" /\ queue' = queue
          /\ UNCHANGED <<last_frame_us, capture_mono_us>>
      BY <1>8 DEF BeginDetect
    <2>2. ~IterationEnds
      BY <2>1, IterationReports
    <2> QED
      BY <1>4, <1>5, <2>1, <2>2 DEF InHand, Between
  <1>9. CASE \/ Start \/ GiveUpOpening \/ OpenFails \/ OpenAgain
             \/ KeepWaiting \/ LeaveLoop \/ FinishOnEos \/ Rebuild
             \/ EndRebuildWait
    <2>1. /\ pc' \in {"opening", "open_wait", "rebuild_wait", "done"}
          /\ queue' = queue \/ queue' = <<>>
      BY <1>9
      DEF Start, EnterOpenCapture, GiveUpOpening, OpenFails, OpenUnbuildable,
          OpenNotPlaying, OpenAgain, KeepWaiting, LeaveLoop, FinishOnEos,
          Rebuild, TearDownForRebuild, Close, TearDown, FreshPipelineSide,
          EndRebuildWait, BeginWait
    <2>2. ~IterationEnds
      BY <2>1, IterationReports
    <2> QED
      BY <1>4, <1>5, <2>1, <2>2 DEF InHand, Between
  <1>10. CASE Source
    <2>1. UNCHANGED <<clockVars, runVars>>
      BY <1>10 DEF Source
    <2>2. CASE BufferArrives
      BY <2>1, <2>2, FreshAfterArrival
    <2>3. CASE PostError \/ ReachEos
      <3>1. UNCHANGED <<pc, queue, now, last_frame_us, capture_mono_us, wire>>
        BY <2>1, <2>3 DEF PostError, ReachEos, runVars
      <3> QED
        BY <3>1 DEF Fresh, PosesAreFresh
    <2> QED
      BY <1>10, <2>2, <2>3 DEF Source
  <1>11. CASE Tick
    <2>1. UNCHANGED <<pc, queue, last_frame_us, capture_mono_us, wire>>
      BY <1>11 DEF Tick, runVars
    <2>2. pc \in Between => queue = <<>>
      BY <1>11 DEF Tick, Blocked, Between
    <2>3. pc' \in Between => QueueWithin(queue', now', MaxBuffers + 1)
      BY <2>1, <2>2, EmptyWithin DEF EmptyIsWithin
    <2> QED
      BY <2>1, <2>3 DEF Fresh, PosesAreFresh
  <1>12. CASE RequestStop \/ UNCHANGED vars
    <2>1. UNCHANGED <<pc, queue, now, last_frame_us, capture_mono_us, wire>>
      BY <1>12 DEF RequestStop, runVars, vars
    <2> QED
      BY <2>1 DEF Fresh, PosesAreFresh
  <1> QED
    BY <1>1, <1>3, <1>6, <1>7, <1>8, <1>9, <1>10, <1>11, <1>12
    DEF Next, Worker, Finished, IterationEnds

\* No published pose is staler than the queue allows, however slow the
\* detector and whatever arrives (gst_capture.cpp:116, stream_worker.cpp:164).
THEOREM PosesAlwaysFresh == Spec => []PosesAreFresh
  <1>1. Init => Fresh
    <2> SUFFICES ASSUME Init
                 PROVE  Fresh
      OBVIOUS
    <2>1. /\ queue = <<>> /\ pc = "start"
          /\ wire.publish - wire.capture = 0
      BY DEF Init, CaptureInit, PublisherInit, NoDatagram
    <2>2. Typed
      BY TypedInit
    <2>3. FreshTypes
      BY <2>2, FreshTyped
    <2>4. Waited(MaxBuffers + 1) >= 0
      BY <2>3 DEF FreshTypes
    <2>5. PosesAreFresh
      BY <2>1, <2>4 DEF PosesAreFresh, Waited
    <2> QED
      BY <2>1, <2>3, <2>5 DEF Fresh, FreshTypes, InHand, Between
  <1>2. Fresh => PosesAreFresh
    BY DEF Fresh
  <1> QED
    BY <1>1, <1>2, FreshNext, TypedInit, TypedNext, TimedInit, TimedNext,
       PlacedInit, PlacedNext, PTL DEF Spec
=============================================================================
