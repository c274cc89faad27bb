------------------------ MODULE StreamWorkerProofs ------------------------
(***************************************************************************)
(* Theorems about StreamWorker, for every value of its constants.          *)
(***************************************************************************)
EXTENDS StreamWorker, SequenceTheorems, TLAPS

USE DEF clockVars, sleepVars, frameVars, reportVars, statsVars, rebuildVars,
        openVars, runVars, captureVars, publisherVars

-----------------------------------------------------------------------------
(***************************************************************************)
(* Lemmas on the helper operators.                                         *)
(***************************************************************************)

\* The capped doubling of a backoff stays a natural number, and never falls
\* below the minimum once it has reached it.
LEMMA DoubledBackoff ==
    ASSUME NEW b \in Nat
    PROVE  /\ Doubled(b) \in Nat
           /\ b >= BackoffMin => Doubled(b) >= BackoffMin
  BY WorkerAssumption DEF Doubled, Lesser

LEMMA EscalatedBackoff ==
    ASSUME rebuild_backoff_s_ \in Nat
    PROVE  /\ Escalated \in Nat
           /\ rebuild_backoff_s_ = 0 \/ rebuild_backoff_s_ >= BackoffMin
              => Escalated >= BackoffMin
  BY DoubledBackoff, WorkerAssumption DEF Escalated

\* drop=true leaves a queue of samples a queue of samples.
LEMMA KeepNewestType ==
    ASSUME NEW q \in Seq(Sample)
    PROVE  KeepNewest(q) \in Seq(Sample)
  <1>1. CASE Len(q) > MaxBuffers
    <2>1. q # <<>>
      BY <1>1, CaptureAssumption
    <2> QED
      BY <1>1, <2>1 DEF KeepNewest
  <1>2. CASE ~(Len(q) > MaxBuffers)
    BY <1>2 DEF KeepNewest
  <1> QED
    BY <1>1, <1>2

\* A reset or an update of the stats window is a stats window.
LEMMA LogStatsType ==
    ASSUME NEW t \in Nat, NEW w \in Window, last_stats_us_ \in Nat,
           LogStats(t, w)
    PROVE  window' \in Window /\ last_stats_us_' \in Nat
  BY DEF LogStats, Window, EmptyWindow

-----------------------------------------------------------------------------
(***************************************************************************)
(* Type correctness. Inductive only together with SamplesBalance: the      *)
(* count of sample references stays a natural number because it is 1       *)
(* whenever a held sample is about to be released.                         *)
(***************************************************************************)
CaptureOK == CaptureTypeOK /\ SamplesBalance

LEMMA NothingHeldAfterRelease ==
    ASSUME CaptureOK
    PROVE  Released = 0
  BY DEF CaptureOK, CaptureTypeOK, SamplesBalance, Released

\* What a step does to the capture object, whichever action it belongs to.
CloseStep ==
    /\ TearDown
    /\ pipeline_' \in BOOLEAN /\ eos_' \in BOOLEAN /\ error_' \in BOOLEAN

ReadStep ==
    ReadGood \/ ReadDiscarded \/ ReadBadCaps \/ ReadUnsupported
    \/ ReadNothing

SourceStep == BufferArrives \/ PostError \/ ReachEos

QuietStep ==
    /\ arrived' \in {arrived, FALSE}
    /\ UNCHANGED <<pipeline_, held_sample_, samples, eos_, error_, bus,
                   sink_eos, queue, faulted>>

LEMMA CloseIsCloseStep ==
    ASSUME CaptureTypeOK, Close
    PROVE  CloseStep
  BY DEF CaptureTypeOK, Close, CloseStep

LEMMA CaptureSteps ==
    ASSUME CaptureTypeOK, [Next]_vars
    PROVE  /\ now' \in Nat
           /\ CloseStep \/ ReadStep \/ SourceStep \/ QuietStep
  <1>1. CASE Worker
    <2>1. now' = now
      BY <1>1 DEF Worker
    <2>2. CASE OpenSucceeds
      <3>1. TearDown /\ pipeline_' = TRUE /\ eos_' = FALSE /\ error_' = FALSE
        BY <2>2 DEF OpenSucceeds, OpenPlaying
      <3> QED
        BY <2>1, <3>1 DEF CloseStep, CaptureTypeOK
    <2>3. CASE OpenFails
      <3>1. CASE OpenUnbuildable
        BY <2>1, <3>1, CloseIsCloseStep DEF OpenUnbuildable, CaptureTypeOK
      <3>2. CASE OpenNotPlaying
        <4>1. TearDown /\ pipeline_' = FALSE
          BY <3>2 DEF OpenNotPlaying
        <4>2. eos_' \in BOOLEAN
          BY <3>2 DEF OpenNotPlaying
        <4>3. error_' \in BOOLEAN
          BY <3>2 DEF OpenNotPlaying
        <4> QED
          BY <2>1, <4>1, <4>2, <4>3 DEF CloseStep, CaptureTypeOK
      <3> QED
        BY <2>3, <3>1, <3>2 DEF OpenFails
    <2>4. CASE LeaveLoop \/ FinishOnEos \/ Rebuild
      <3>1. Close
        BY <2>4 DEF LeaveLoop, FinishOnEos, Rebuild, TearDownForRebuild
      <3> QED
        BY <2>1, <3>1, CloseIsCloseStep DEF CaptureTypeOK
    <2>5. CASE EndRebuildWait
      <3>1. Close \/ UNCHANGED captureVars
        BY <2>5 DEF EndRebuildWait
      <3> QED
        BY <2>1, <3>1, CloseIsCloseStep DEF CaptureTypeOK, QuietStep
    <2>6. CASE GetFrame \/ GetNoFrame
      BY <2>1, <2>6 DEF GetFrame, GetNoFrame, ReadStep, CaptureTypeOK
    <2>7. CASE \/ Start \/ GiveUpOpening \/ OpenAgain \/ KeepWaiting
               \/ BeginRead \/ SkipFrame \/ BeginDetect \/ DetectNothing
               \/ DetectTags \/ StayIdle
      <3>1. UNCHANGED captureVars
        BY <2>7
        DEF Start, GiveUpOpening, OpenAgain, KeepWaiting, BeginRead,
            SkipFrame, BeginDetect, DetectNothing, DetectTags, StayIdle,
            EndIteration
      <3> QED
        BY <2>1, <3>1 DEF QuietStep, CaptureTypeOK
    <2> QED
      BY <1>1, <2>2, <2>3, <2>4, <2>5, <2>6, <2>7 DEF Worker
  <1>2. CASE Source
    BY <1>2 DEF Source, SourceStep, CaptureTypeOK
  <1>3. CASE Tick
    <2>1. now' \in Nat
      BY <1>3 DEF Tick, CaptureTypeOK
    <2>2. QuietStep
      BY <1>3 DEF Tick, QuietStep
    <2> QED
      BY <2>1, <2>2
  <1>4. CASE RequestStop \/ UNCHANGED vars
    <2>1. UNCHANGED <<now, captureVars>>
      BY <1>4 DEF RequestStop, vars
    <2> QED
      BY <2>1 DEF QuietStep, CaptureTypeOK
  <1> QED
    BY <1>1, <1>2, <1>3, <1>4 DEF Next, Finished

LEMMA CaptureTyped == CaptureOK /\ [Next]_vars => CaptureOK'
  <1> SUFFICES ASSUME CaptureOK, [Next]_vars
               PROVE  CaptureOK'
    OBVIOUS
  <1> USE NothingHeldAfterRelease
  <1>0. CaptureTypeOK /\ SamplesBalance
    BY DEF CaptureOK
  <1>now. now' \in Nat
    BY <1>0, CaptureSteps
  <1>1. CASE CloseStep
    <2>1. held_sample_' = FALSE /\ samples' = 0
      BY <1>1 DEF CloseStep, TearDown
    <2>2. bus' = {} /\ queue' \in Seq(Sample)
      BY <1>1 DEF CloseStep, TearDown, FreshPipelineSide
    <2>3. sink_eos' \in BOOLEAN /\ arrived' \in BOOLEAN
          /\ faulted' \in BOOLEAN
      BY <1>1 DEF CloseStep, TearDown, FreshPipelineSide
    <2>4. SamplesBalance'
      BY <2>1 DEF SamplesBalance
    <2> QED
      BY <1>1, <1>now, <2>1, <2>2, <2>3, <2>4
      DEF CloseStep, CaptureTypeOK, CaptureOK
  <1>2. ASSUME NEW k, Pull(k)
        PROVE  /\ pipeline_' = TRUE /\ Head(queue) \in Sample
               /\ queue' \in Seq(Sample) /\ bus' \subseteq {"error", "eos"}
               /\ eos_' \in BOOLEAN
               /\ sink_eos' \in BOOLEAN /\ arrived' \in BOOLEAN
    <2>1. pipeline_ = TRUE /\ queue # <<>> /\ queue' = Tail(queue)
          /\ UNCHANGED <<pipeline_, eos_, bus, sink_eos, arrived>>
      BY <1>2, <1>0 DEF Pull, CaptureTypeOK
    <2> QED
      BY <2>1, <1>0, HeadTailProperties DEF CaptureTypeOK
  <1>3. CASE ReadGood \/ ReadUnsupported
    <2>1. held_sample_' = TRUE /\ samples' = 1
          /\ UNCHANGED <<error_, faulted>>
      BY <1>3 DEF ReadGood, ReadUnsupported
    <2>2. \E k : Pull(k)
      BY <1>3 DEF ReadGood, ReadUnsupported
    <2>3. SamplesBalance'
      BY <1>2, <2>1, <2>2 DEF SamplesBalance
    <2> QED
      BY <1>0, <1>now, <1>2, <2>1, <2>2, <2>3 DEF CaptureTypeOK, CaptureOK
  <1>4. CASE ReadDiscarded \/ ReadBadCaps
    <2>1. held_sample_' = FALSE /\ samples' = 0
      BY <1>4 DEF ReadDiscarded, ReadBadCaps
    <2>2. \E k : Pull(k)
      BY <1>4 DEF ReadDiscarded, ReadBadCaps
    <2>3. error_' \in BOOLEAN /\ faulted' \in BOOLEAN
      BY <1>0, <1>4 DEF ReadDiscarded, ReadBadCaps, CaptureTypeOK
    <2>4. SamplesBalance'
      BY <2>1 DEF SamplesBalance
    <2> QED
      BY <1>now, <1>2, <2>1, <2>2, <2>3, <2>4 DEF CaptureTypeOK, CaptureOK
  <1>5. CASE ReadNothing
    <2>1. held_sample_' = FALSE /\ samples' = 0 /\ bus' = {}
          /\ UNCHANGED <<pipeline_, sink_eos, queue, arrived, faulted>>
      BY <1>5 DEF ReadNothing
    <2>2. error_' \in BOOLEAN
      BY <1>5 DEF ReadNothing
    <2>3. eos_' \in BOOLEAN
      BY <1>5 DEF ReadNothing
    <2>4. SamplesBalance'
      BY <2>1 DEF SamplesBalance
    <2> QED
      BY <1>0, <1>now, <2>1, <2>2, <2>3, <2>4 DEF CaptureTypeOK, CaptureOK
  <1>6. CASE BufferArrives
    <2>1. PICK k \in SampleKinds, t \in (now - MaxIngest)..(now + MaxAhead) :
            queue' = KeepNewest(Append(queue, [kind |-> k, stamp |-> t]))
      BY <1>6 DEF BufferArrives
    <2>2. [kind |-> k, stamp |-> t] \in Sample
      BY <1>0, CaptureAssumption DEF Sample, CaptureTypeOK
    <2>3. Append(queue, [kind |-> k, stamp |-> t]) \in Seq(Sample)
      BY <1>0, <2>2, AppendProperties DEF CaptureTypeOK
    <2>4. queue' \in Seq(Sample)
      BY <2>1, <2>3, KeepNewestType
    <2>5. arrived' = TRUE
          /\ UNCHANGED <<pipeline_, held_sample_, samples, eos_, error_, bus,
                         sink_eos, faulted>>
      BY <1>6 DEF BufferArrives
    <2>6. SamplesBalance'
      BY <1>0, <2>5 DEF SamplesBalance
    <2> QED
      BY <1>0, <1>now, <2>4, <2>5, <2>6 DEF CaptureTypeOK, CaptureOK
  <1>7. CASE PostError \/ ReachEos
    <2>1. faulted' = TRUE /\ sink_eos' \in {sink_eos, TRUE}
          /\ bus' \in {bus \cup {"error"}, bus \cup {"eos"}}
          /\ UNCHANGED <<pipeline_, held_sample_, samples, eos_, error_,
                         queue, arrived>>
      BY <1>7 DEF PostError, ReachEos
    <2>2. SamplesBalance'
      BY <1>0, <2>1 DEF SamplesBalance
    <2> QED
      BY <1>0, <1>now, <2>1, <2>2 DEF CaptureTypeOK, CaptureOK
  <1>8. CASE QuietStep
    <2>1. SamplesBalance'
      BY <1>0, <1>8 DEF QuietStep, SamplesBalance
    <2> QED
      BY <1>0, <1>8, <1>now, <2>1 DEF QuietStep, CaptureTypeOK, CaptureOK
  <1> QED
    BY <1>0, CaptureSteps, <1>1, <1>3, <1>4, <1>5, <1>6, <1>7, <1>8
    DEF ReadStep, SourceStep

LEMMA DoSendTyped ==
    ASSUME PublisherTypeOK, NEW d \in Datagram, doSend(d)
    PROVE  PublisherTypeOK'
  BY DEF PublisherTypeOK, doSend

\* The worker's own variables and the publisher's, whatever ends an
\* iteration of the loop with a report or without one.
ReportTypeOK ==
    /\ PublisherTypeOK
    /\ frame_id_ \in Nat /\ last_publish_us_ \in Nat
    /\ window \in Window /\ last_stats_us_ \in Nat

LEMMA EndIterationTyped ==
    ASSUME TypeOK, NEW w \in Window, EndIteration(w)
    PROVE  ReportTypeOK'
  <1>1. ReportTypeOK /\ last_frame_us \in Nat /\ now \in Nat
    BY DEF TypeOK, WorkerTypeOK, CaptureTypeOK, ReportTypeOK
  <1>2. CASE HeartbeatDue
    <2>1. [w EXCEPT !.heartbeats = @ + 1] \in Window
      BY DEF Window
    <2>2. window' \in Window /\ last_stats_us_' \in Nat
      BY <1>1, <1>2, <2>1, LogStatsType DEF EndIteration, ReportTypeOK
    <2>3. [frame_id |-> NextId, capture |-> last_frame_us, publish |-> now,
           heartbeat |-> TRUE] \in Datagram
      BY <1>1 DEF NextId, Datagram, ReportTypeOK
    <2>4. PublisherTypeOK'
      BY <1>1, <1>2, <2>3, DoSendTyped
      DEF EndIteration, sendHeartbeat, ReportTypeOK
    <2> QED
      BY <1>1, <1>2, <2>2, <2>4 DEF EndIteration, ReportTypeOK, NextId
  <1>3. CASE ~HeartbeatDue
    <2>1. LogStats(last_frame_us, w) /\ UNCHANGED reportVars
      BY <1>3 DEF EndIteration
    <2>2. window' \in Window /\ last_stats_us_' \in Nat
      BY <1>1, <2>1, LogStatsType DEF ReportTypeOK
    <2> QED
      BY <1>1, <2>1, <2>2 DEF ReportTypeOK, PublisherTypeOK
  <1> QED
    BY <1>2, <1>3

LEMMA WorkerTyped == TypeOK /\ [Next]_vars => WorkerTypeOK' /\ PublisherTypeOK'
  <1> SUFFICES ASSUME TypeOK, [Next]_vars
               PROVE  WorkerTypeOK' /\ PublisherTypeOK'
    OBVIOUS
  <1> USE WorkerAssumption
  <1>0. CaptureTypeOK /\ PublisherTypeOK /\ WorkerTypeOK /\ now \in Nat
    BY DEF TypeOK, CaptureTypeOK
  <1>1. CASE Worker
    <2>clock. UNCHANGED <<now, stop, stop_at>>
      BY <1>1 DEF Worker
    <2>counted. /\ [window EXCEPT !.in = @ + 1] \in Window
                /\ [window EXCEPT !.skipped = @ + 1] \in Window
                /\ [window EXCEPT !.detected = @ + 1] \in Window
      BY <1>0 DEF WorkerTypeOK, Window
    <2>1. CASE Start
      BY <1>0, <2>1, <2>clock
      DEF Start, EnterOpenCapture, WorkerTypeOK, PublisherTypeOK, Points
    <2>2. CASE GiveUpOpening
      BY <1>0, <2>2, <2>clock
      DEF GiveUpOpening, WorkerTypeOK, PublisherTypeOK, Points
    <2>3. CASE OpenSucceeds
      BY <1>0, <2>3, <2>clock
      DEF OpenSucceeds, WorkerTypeOK, PublisherTypeOK, Points
    <2>4. CASE OpenFails
      BY <1>0, <2>4, <2>clock
      DEF OpenFails, BeginWait, WorkerTypeOK, PublisherTypeOK, Points
    <2>5. CASE OpenAgain
      BY <1>0, <2>5, <2>clock, DoubledBackoff
      DEF OpenAgain, WorkerTypeOK, PublisherTypeOK, Points
    <2>6. CASE KeepWaiting
      BY <1>0, <2>6, <2>clock
      DEF KeepWaiting, WorkerTypeOK, PublisherTypeOK, Points
    <2>7. CASE BeginRead
      BY <1>0, <2>7, <2>clock
      DEF BeginRead, WorkerTypeOK, PublisherTypeOK, Points
    <2>8. CASE LeaveLoop
      BY <1>0, <2>8, <2>clock
      DEF LeaveLoop, WorkerTypeOK, PublisherTypeOK, Points
    <2>9. CASE GetFrame
      <3>1. Head(queue) \in Sample
        BY <1>0, <2>9, HeadTailProperties
        DEF GetFrame, ReadGood, Pull, CaptureTypeOK
      <3>2. capture_mono_us' \in Int
        <4>1. Head(queue).stamp \in Int
          BY <3>1 DEF Sample
        <4> QED
          BY <1>0, <2>9, <4>1 DEF GetFrame, CaptureStamp
      <3> QED
        BY <1>0, <2>9, <2>clock, <2>counted, <3>2
        DEF GetFrame, WorkerTypeOK, PublisherTypeOK, Points
    <2>10. CASE GetNoFrame
      BY <1>0, <2>10, <2>clock
      DEF GetNoFrame, WorkerTypeOK, PublisherTypeOK, Points
    <2>11. CASE SkipFrame \/ DetectNothing
      <3>1. PICK w \in Window : EndIteration(w)
        BY <2>11, <2>counted DEF SkipFrame, DetectNothing
      <3>2. ReportTypeOK'
        BY <3>1, EndIterationTyped
      <3>3. last_detect_us_' = last_detect_us_
        BY <2>11 DEF SkipFrame, DetectNothing
      <3> QED
        BY <1>0, <2>clock, <3>1, <3>2, <3>3
        DEF EndIteration, ReportTypeOK, WorkerTypeOK, Points
    <2>12. CASE BeginDetect
      BY <1>0, <2>12, <2>clock
      DEF BeginDetect, WorkerTypeOK, PublisherTypeOK, Points
    <2>13. CASE DetectTags
      <3>1. window' \in Window /\ last_stats_us_' \in Nat
        BY <1>0, <2>13, <2>counted, LogStatsType DEF DetectTags, WorkerTypeOK
      <3>2. [frame_id |-> NextId, capture |-> capture_mono_us,
             publish |-> now, heartbeat |-> FALSE] \in Datagram
        BY <1>0 DEF NextId, Datagram, WorkerTypeOK
      <3>3. PublisherTypeOK'
        <4>1. CASE UdpEnabled
          BY <1>0, <2>13, <3>2, <4>1, DoSendTyped DEF DetectTags, send
        <4>2. CASE ~UdpEnabled
          BY <1>0, <2>13, <4>2 DEF DetectTags, PublisherTypeOK
        <4> QED
          BY <4>1, <4>2
      <3> QED
        BY <1>0, <2>13, <2>clock, <3>1, <3>3
        DEF DetectTags, NextId, WorkerTypeOK, Points
    <2>14. CASE StayIdle
      <3>1. window' \in Window /\ last_stats_us_' \in Nat
        BY <1>0, <2>14, LogStatsType DEF StayIdle, WorkerTypeOK
      <3> QED
        BY <1>0, <2>14, <2>clock, <3>1
        DEF StayIdle, IdleReport, WorkerTypeOK, PublisherTypeOK, Points
    <2>15. CASE FinishOnEos
      BY <1>0, <2>15, <2>clock
      DEF FinishOnEos, WorkerTypeOK, PublisherTypeOK, Points
    <2>16. CASE Rebuild
      <3>1. Escalated \in Nat
        BY <1>0, EscalatedBackoff DEF WorkerTypeOK
      <3> QED
        BY <1>0, <2>16, <2>clock, <3>1
        DEF Rebuild, TearDownForRebuild, BeginWait, EnterOpenCapture,
            WorkerTypeOK, PublisherTypeOK, Points
    <2>17. CASE EndRebuildWait
      BY <1>0, <2>17, <2>clock
      DEF EndRebuildWait, EnterOpenCapture, WorkerTypeOK, PublisherTypeOK,
          Points
    <2> QED
      BY <1>1, <2>1, <2>2, <2>3, <2>4, <2>5, <2>6, <2>7, <2>8, <2>9, <2>10,
         <2>11, <2>12, <2>13, <2>14, <2>15, <2>16, <2>17 DEF Worker
  <1>2. CASE RequestStop
    BY <1>0, <1>2 DEF RequestStop, WorkerTypeOK, PublisherTypeOK
  <1>3. CASE Source \/ Tick \/ UNCHANGED vars
    <2>1. UNCHANGED <<stop, stop_at, runVars>>
      BY <1>3 DEF Source, Tick, vars
    <2> QED
      BY <1>0, <2>1 DEF WorkerTypeOK, PublisherTypeOK
  <1> QED
    BY <1>1, <1>2, <1>3 DEF Next, Finished

Typed == TypeOK /\ SamplesBalance

LEMMA TypedInit == Init => Typed
  <1> SUFFICES ASSUME Init PROVE Typed
    OBVIOUS
  <1> USE WorkerAssumption
  <1>1. CaptureTypeOK /\ SamplesBalance
    <2>1. /\ now \in Nat /\ samples = 0
          /\ pipeline_ = FALSE /\ held_sample_ = FALSE /\ eos_ = FALSE
          /\ error_ = FALSE /\ sink_eos = FALSE /\ arrived = FALSE
          /\ faulted = FALSE /\ bus = {} /\ queue \in Seq(Sample)
      BY DEF Init, CaptureInit
    <2>2. SamplesBalance
      BY <2>1 DEF SamplesBalance
    <2> QED
      BY <2>1, <2>2 DEF CaptureTypeOK
  <1>2. PublisherTypeOK
    BY DEF Init, PublisherInit, PublisherTypeOK, NoDatagram, Datagram
  <1>3. WorkerTypeOK
    <2>1. pc \in Points /\ stop \in BOOLEAN
      BY DEF Init, Points
    <2>2. window \in Window
      BY DEF Init, Window, EmptyWindow
    <2>3. opened_at \in Int /\ opened_before \in Int
      BY DEF Init
    <2> QED
      BY <2>1, <2>2, <2>3 DEF Init, WorkerTypeOK
  <1> QED
    BY <1>1, <1>2, <1>3 DEF Typed, TypeOK

LEMMA TypedNext == Typed /\ [Next]_vars => Typed'
  BY CaptureTyped, WorkerTyped DEF Typed, TypeOK, CaptureOK

\* Every variable keeps its type, for all timeouts, queue depths and sources.
THEOREM TypeCorrect == Spec => []TypeOK
  <1>1. Typed => TypeOK
    BY DEF Typed
  <1> QED
    BY TypedInit, TypedNext, <1>1, PTL DEF Spec

\* Every path out of open(), read() and close() leaves exactly the held
\* sample referenced, and none without a pipeline.
THEOREM SamplesAlwaysBalance == Spec => []SamplesBalance
  <1>1. Typed => SamplesBalance
    BY DEF Typed
  <1> QED
    BY TypedInit, TypedNext, <1>1, PTL DEF Spec

-----------------------------------------------------------------------------
(***************************************************************************)
(* Where the pipeline exists. run() returns from four places, two of them  *)
(* past no close(): the camera is released on all of them because the      *)
(* pipeline is up exactly while the main loop's body runs.                 *)
(***************************************************************************)
LoopBody == {"looping", "reading", "got", "detecting", "idle"}

Placed ==
    /\ pc \in LoopBody => pipeline_ = TRUE
    /\ pc \notin LoopBody => pipeline_ = FALSE
    /\ pc \in {"got", "detecting"} => held_sample_ = TRUE

LEMMA PlacedInit == Init => Placed
  BY DEF Init, CaptureInit, Placed, LoopBody

LEMMA PlacedNext == Typed /\ Placed /\ [Next]_vars => Placed'
  <1> SUFFICES ASSUME Typed, Placed, [Next]_vars
               PROVE  Placed'
    OBVIOUS
  <1> USE DEF Placed, LoopBody
  <1>1. CASE Start \/ GiveUpOpening \/ OpenAgain \/ KeepWaiting
    BY <1>1 DEF Start, EnterOpenCapture, GiveUpOpening, OpenAgain, KeepWaiting
  <1>2. CASE OpenSucceeds
    BY <1>2 DEF OpenSucceeds, OpenPlaying
  <1>3. CASE OpenFails
    BY <1>3 DEF OpenFails, OpenUnbuildable, OpenNotPlaying, Close, BeginWait
  <1>4. CASE BeginRead
    BY <1>4 DEF BeginRead
  <1>5. CASE LeaveLoop \/ FinishOnEos
    BY <1>5 DEF LeaveLoop, FinishOnEos, Close
  <1>6. CASE GetFrame
    BY <1>6 DEF GetFrame, ReadGood, Pull
  <1>7. CASE GetNoFrame
    BY <1>7 DEF GetNoFrame, ReadDiscarded, ReadBadCaps, ReadUnsupported,
                ReadNothing, Pull
  <1>8. CASE SkipFrame \/ BeginDetect \/ DetectNothing \/ DetectTags
             \/ StayIdle
    BY <1>8 DEF SkipFrame, BeginDetect, DetectNothing, DetectTags, StayIdle,
                EndIteration
  <1>9. CASE Rebuild
    BY <1>9 DEF Rebuild, TearDownForRebuild, Close, BeginWait,
                EnterOpenCapture
  <1>10. CASE EndRebuildWait
    BY <1>10 DEF EndRebuildWait, Close, EnterOpenCapture
  <1>11. CASE Source \/ RequestStop \/ Tick \/ UNCHANGED vars
    BY <1>11 DEF Source, BufferArrives, PostError, ReachEos, RequestStop,
                 Tick, vars
  <1> QED
    BY <1>1, <1>2, <1>3, <1>4, <1>5, <1>6, <1>7, <1>8, <1>9, <1>10, <1>11
    DEF Next, Worker, Finished

\* However run() returns, the camera is released.
THEOREM CameraReleased == Spec => []ReleasedWhenDone
  <1>1. Typed /\ Placed => ReleasedWhenDone
    BY DEF Typed, TypeOK, CaptureTypeOK, SamplesBalance, Placed, LoopBody,
           ReleasedWhenDone
  <1> QED
    BY TypedInit, TypedNext, PlacedInit, PlacedNext, <1>1, PTL DEF Spec

-----------------------------------------------------------------------------
(***************************************************************************)
(* The watchdog bound. A read begins at most max(watchdog, detect) after   *)
(* the last frame, because the no-frame branch that would let it begin     *)
(* later rebuilds instead, and it ends within ReadTimeout.                 *)
(***************************************************************************)
Slowest == Greater(WatchdogTimeout, MaxDetect)

Timed ==
    /\ pc = "got" => now = last_frame_us
    /\ pc = "detecting" => /\ last_frame_us <= now
                           /\ now <= last_frame_us + MaxDetect
    /\ pc = "looping" => now - last_frame_us <= Slowest
    /\ pc = "reading" => /\ now <= wake
                         /\ wake <= now + ReadTimeout
                         /\ wake - last_frame_us <= Slowest + ReadTimeout
    /\ pc = "idle" => now - last_frame_us <= Slowest + ReadTimeout
    /\ pc \in {"open_wait", "rebuild_wait"} => /\ now <= wake
                                                /\ wake <= now + PollPeriod

LEMMA SlowestBounds ==
    Slowest \in Nat /\ WatchdogTimeout <= Slowest /\ MaxDetect <= Slowest
  BY WorkerAssumption DEF Slowest, Greater

LEMMA TimedInit == Init => Timed
  BY DEF Init, Timed

LEMMA TimedNext == Typed /\ Timed /\ [Next]_vars => Timed'
  <1> SUFFICES ASSUME Typed, Timed, [Next]_vars
               PROVE  Timed'
    OBVIOUS
  <1> USE WorkerAssumption, SlowestBounds DEF Timed
  <1>0. now \in Nat /\ last_frame_us \in Nat /\ wake \in Nat /\ pc \in Points
    BY DEF Typed, TypeOK, CaptureTypeOK, WorkerTypeOK
  <1>1. CASE Worker
    <2>1. now' = now
      BY <1>1 DEF Worker
    <2>2. CASE Start \/ GiveUpOpening \/ OpenAgain \/ LeaveLoop
               \/ FinishOnEos \/ EndRebuildWait
      BY <2>1, <2>2
      DEF Start, EnterOpenCapture, GiveUpOpening, OpenAgain, LeaveLoop,
          FinishOnEos, EndRebuildWait
    <2>3. CASE OpenSucceeds
      BY <1>0, <2>1, <2>3 DEF OpenSucceeds
    <2>4. CASE OpenFails \/ Rebuild
      BY <1>0, <2>1, <2>4
      DEF OpenFails, Rebuild, BeginWait, EnterOpenCapture
    <2>5. CASE KeepWaiting
      BY <1>0, <2>1, <2>5 DEF KeepWaiting
    <2>6. CASE BeginRead
      BY <1>0, <2>1, <2>6 DEF BeginRead
    <2>7. CASE GetFrame
      BY <1>0, <2>1, <2>7 DEF GetFrame
    <2>8. CASE GetNoFrame
      BY <1>0, <2>1, <2>8 DEF GetNoFrame
    <2>9. CASE BeginDetect
      BY <1>0, <2>1, <2>9 DEF BeginDetect
    <2>10. CASE SkipFrame \/ DetectNothing \/ DetectTags
      BY <1>0, <2>1, <2>10
      DEF SkipFrame, DetectNothing, DetectTags, EndIteration
    <2>11. CASE StayIdle
      <3>1. ~ExitsOnEos /\ ~NeedsRebuild
        BY <2>11 DEF StayIdle
      <3>2. now - last_frame_us <= WatchdogTimeout
        BY <1>0, <3>1 DEF NeedsRebuild, Wedged
      <3> QED
        BY <1>0, <2>1, <2>11, <3>2 DEF StayIdle
    <2> QED
      BY <1>1, <2>2, <2>3, <2>4, <2>5, <2>6, <2>7, <2>8, <2>9, <2>10, <2>11
      DEF Worker
  <1>2. CASE Tick
    <2>1. now' = now + 1 /\ Blocked
          /\ UNCHANGED <<pc, wake, last_frame_us>>
      BY <1>2 DEF Tick
    <2> QED
      BY <1>0, <2>1 DEF Blocked, Points
  <1>3. CASE Source \/ RequestStop \/ UNCHANGED vars
    <2>1. UNCHANGED <<now, pc, wake, last_frame_us>>
      BY <1>3 DEF Source, RequestStop, vars
    <2> QED
      BY <2>1
  <1> QED
    BY <1>1, <1>2, <1>3 DEF Next, Finished

\* No mix of unusable buffers, silence and slow detections starves the
\* watchdog.
THEOREM WatchdogNeverStarved == Spec => []WatchdogBound
  <1>1. Typed /\ Timed => WatchdogBound
    <2> SUFFICES ASSUME Typed, Timed PROVE WatchdogBound
      OBVIOUS
    <2>1. now \in Nat /\ last_frame_us \in Nat /\ wake \in Nat
      BY DEF Typed, TypeOK, CaptureTypeOK, WorkerTypeOK
    <2> QED
      BY <2>1, SlowestBounds, WorkerAssumption
      DEF Timed, WatchdogBound, Slowest
  <1> QED
    BY TypedInit, TypedNext, TimedInit, TimedNext, <1>1, PTL DEF Spec

-----------------------------------------------------------------------------
(***************************************************************************)
(* The stop bound. Until it returns, the thread is at most one read and    *)
(* one detection away from a loop test, or one poll period from a wait's.  *)
(***************************************************************************)
StopLimit == Greater(ReadTimeout + MaxDetect, PollPeriod)

StopTimed ==
    stop =>
      /\ stop_at <= now
      /\ pc = "start" => now = stop_at
      /\ pc = "opening" => now - stop_at <= StopLimit
      /\ pc \in {"open_wait", "rebuild_wait"} => wake - stop_at <= StopLimit
      /\ pc = "reading" => wake - stop_at <= ReadTimeout
      /\ pc \in {"got", "idle"} => now - stop_at <= ReadTimeout
      /\ pc = "detecting" => last_frame_us - stop_at <= ReadTimeout
      /\ pc = "looping" => now - stop_at <= ReadTimeout + MaxDetect

LEMMA StopLimitBounds ==
    /\ StopLimit \in Nat /\ PollPeriod <= StopLimit
    /\ ReadTimeout + MaxDetect <= StopLimit
  BY WorkerAssumption DEF StopLimit, Greater

LEMMA StopTimedInit == Init => StopTimed
  BY DEF Init, StopTimed

LEMMA StopTimedNext ==
    Typed /\ Timed /\ StopTimed /\ [Next]_vars => StopTimed'
  <1> SUFFICES ASSUME Typed, Timed, StopTimed, [Next]_vars
               PROVE  StopTimed'
    OBVIOUS
  <1> USE WorkerAssumption, StopLimitBounds DEF StopTimed
  <1>0. /\ now \in Nat /\ last_frame_us \in Nat /\ wake \in Nat
        /\ stop_at \in Nat /\ pc \in Points
    BY DEF Typed, TypeOK, CaptureTypeOK, WorkerTypeOK
  <1>1. CASE Worker
    <2>1. now' = now /\ stop' = stop /\ stop_at' = stop_at
      BY <1>1 DEF Worker
    <2>2. CASE Start
      BY <1>0, <2>1, <2>2 DEF Start, EnterOpenCapture
    <2>3. CASE GiveUpOpening \/ LeaveLoop \/ FinishOnEos
      BY <1>0, <2>1, <2>3 DEF GiveUpOpening, LeaveLoop, FinishOnEos
    <2>4. CASE OpenSucceeds \/ OpenFails
      BY <1>0, <2>1, <2>4 DEF OpenSucceeds, OpenFails, BeginWait
    <2>5. CASE OpenAgain
      BY <1>0, <2>1, <2>5 DEF OpenAgain, Timed
    <2>6. CASE KeepWaiting \/ BeginRead
      BY <1>0, <2>1, <2>6 DEF KeepWaiting, WaitIsOver, BeginRead, LoopGoesOn
    <2>7. CASE GetFrame \/ GetNoFrame
      BY <1>0, <2>1, <2>7 DEF GetFrame, GetNoFrame, Timed
    <2>8. CASE BeginDetect
      BY <1>0, <2>1, <2>8 DEF BeginDetect, Timed
    <2>9. CASE SkipFrame \/ DetectNothing \/ DetectTags
      BY <1>0, <2>1, <2>9
      DEF SkipFrame, DetectNothing, DetectTags, EndIteration, Timed
    <2>10. CASE StayIdle
      BY <1>0, <2>1, <2>10 DEF StayIdle
    <2>11. CASE Rebuild
      BY <1>0, <2>1, <2>11 DEF Rebuild, BeginWait, EnterOpenCapture
    <2>12. CASE EndRebuildWait
      BY <1>0, <2>1, <2>12 DEF EndRebuildWait, EnterOpenCapture
    <2> QED
      BY <1>1, <2>2, <2>3, <2>4, <2>5, <2>6, <2>7, <2>8, <2>9, <2>10, <2>11,
         <2>12 DEF Worker
  <1>2. CASE Tick
    <2>1. now' = now + 1 /\ Blocked
          /\ UNCHANGED <<pc, stop, stop_at, wake, last_frame_us>>
      BY <1>2 DEF Tick
    <2> QED
      BY <1>0, <2>1 DEF Blocked, Points
  <1>3. CASE RequestStop
    <2>1. stop_at' = now /\ UNCHANGED <<now, pc, wake, last_frame_us>>
      BY <1>3 DEF RequestStop
    <2>2. CASE pc \in {"reading", "open_wait", "rebuild_wait"}
      BY <1>0, <2>1, <2>2 DEF Timed
    <2> QED
      BY <1>0, <2>1, <2>2 DEF Timed
  <1>4. CASE Source \/ UNCHANGED vars
    <2>1. UNCHANGED <<now, pc, stop, stop_at, wake, last_frame_us>>
      BY <1>4 DEF Source, vars
    <2> QED
      BY <2>1
  <1> QED
    BY <1>1, <1>2, <1>3, <1>4 DEF Next, Finished

\* A SIGTERM is honoured within one read and one detection, or one poll,
\* wherever it finds the thread.
THEOREM StopAlwaysPrompt == Spec => []StopIsPrompt
  <1>1. Typed /\ Timed /\ StopTimed => StopIsPrompt
    <2> SUFFICES ASSUME Typed, Timed, StopTimed PROVE StopIsPrompt
      OBVIOUS
    <2>1. /\ now \in Nat /\ last_frame_us \in Nat /\ wake \in Nat
          /\ stop_at \in Nat /\ pc \in Points
      BY DEF Typed, TypeOK, CaptureTypeOK, WorkerTypeOK
    <2> QED
      BY <2>1, StopLimitBounds, WorkerAssumption
      DEF Timed, StopTimed, StopIsPrompt, StopLimit, Points
  <1> QED
    BY TypedInit, TypedNext, TimedInit, TimedNext, StopTimedInit,
       StopTimedNext, <1>1, PTL DEF Spec
=============================================================================
