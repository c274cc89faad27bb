---------------------------- MODULE GstCapture ----------------------------
(***************************************************************************)
(* One camera's GStreamer capture object (src/src/gst_capture.cpp): the    *)
(* pipeline it owns, the sample it keeps mapped between two reads, and the *)
(* eos / error flags its owner polls. The GStreamer side (bus, appsink     *)
(* queue, source) is external: what it may do is what the code is written  *)
(* to handle. This module has no Next of its own; StreamWorker conjoins    *)
(* these actions to its own steps.                                         *)
(***************************************************************************)
EXTENDS Integers, Sequences

CONSTANTS
    MaxBuffers,    \* appsink max-buffers; drop=true discards the oldest
    MaxIngest,     \* longest exposure-to-appsink latency, in ticks
    MaxAhead,      \* how far base_time + PTS may run ahead of the clock
    FutureSlack,   \* kFutureStampSlackUs
    SampleKinds,   \* what a pulled sample may turn out to be, see Kinds
    OpenFailures,  \* how open() may fail: subset of OpenFailureKinds
    BusMessages    \* what the pipeline may post: subset of {"error", "eos"}

Kinds == {"good", "discarded", "bad_caps", "unsupported"}
OpenFailureKinds == {"unbuildable", "not_playing"}

ASSUME CaptureAssumption ==
    /\ MaxBuffers \in Nat \ {0}
    /\ MaxIngest \in Nat /\ MaxAhead \in Nat /\ FutureSlack \in Nat
    /\ SampleKinds \subseteq Kinds
    /\ OpenFailures \subseteq OpenFailureKinds
    /\ BusMessages \subseteq {"error", "eos"}

VARIABLES
    now,           \* CLOCK_MONOTONIC, in ticks
    pipeline_,     \* pipeline_ and appsink_ are non-null
    held_sample_,  \* a sample is held (and mapped) for Frame::gray
    samples,       \* references to samples this object has not released
    eos_, error_,  \* the flags the owner polls
    bus,           \* messages posted and not yet drained
    sink_eos,      \* gst_app_sink_is_eos: the source ended, queue empty
    queue,         \* buffers waiting in the appsink: [kind, stamp]
    arrived,       \* a buffer reached the appsink during this tick
    faulted        \* history: THIS pipeline posted an error, ended, or
                   \* delivered caps that cannot be parsed

captureVars == <<pipeline_, held_sample_, samples, eos_, error_, bus,
                 sink_eos, queue, arrived, faulted>>

Sample == [kind : Kinds, stamp : Int]

CaptureTypeOK ==
    /\ now \in Nat
    /\ pipeline_ \in BOOLEAN /\ held_sample_ \in BOOLEAN
    /\ samples \in Nat
    /\ eos_ \in BOOLEAN /\ error_ \in BOOLEAN
    /\ bus \subseteq {"error", "eos"}
    /\ sink_eos \in BOOLEAN /\ arrived \in BOOLEAN /\ faulted \in BOOLEAN
    /\ queue \in Seq(Sample)

CaptureInit ==
    /\ pipeline_ = FALSE /\ held_sample_ = FALSE /\ samples = 0
    /\ eos_ = FALSE /\ error_ = FALSE
    /\ bus = {} /\ sink_eos = FALSE /\ queue = <<>> /\ arrived = FALSE
    /\ faulted = FALSE

-----------------------------------------------------------------------------
\* Samples still referenced once the held one, if any, has been unreffed.
Released == IF held_sample_ THEN samples - 1 ELSE samples

\* The external pipeline is gone, or a new one has just been built: nothing
\* is queued or posted.
FreshPipelineSide ==
    /\ bus' = {} /\ sink_eos' = FALSE /\ queue' = <<>> /\ arrived' = FALSE
    /\ faulted' = FALSE

\* MUTANT of TearDown: the held sample is forgotten, not released.
TearDownKeepsSample ==
    /\ UNCHANGED <<held_sample_, samples>>
    /\ FreshPipelineSide

\* Unmap and unref the held sample, drop the pipeline's external side.
TearDown ==
    /\ held_sample_' = FALSE
    /\ samples' = Released
    /\ FreshPipelineSide

\* close() does not clear the flags.
Close ==
    /\ TearDown
    /\ pipeline_' = FALSE
    /\ UNCHANGED <<eos_, error_>>

\* open() closes first. A string that does not parse, or has no appsink,
\* returns before the flags are cleared.
OpenUnbuildable ==
    /\ "unbuildable" \in OpenFailures
    /\ Close

\* set_state fails: the flags were cleared, the bus is drained for the
\* reason, and the half-started pipeline is closed again.
OpenNotPlaying ==
    /\ "not_playing" \in OpenFailures
    /\ TearDown
    /\ pipeline_' = FALSE
    /\ \E posted \in SUBSET BusMessages :
          /\ error_' = ("error" \in posted)
          /\ eos_' = ("eos" \in posted)

\* MUTANT of OpenPlaying: the flags of the previous pipeline survive.
OpenPlayingKeepsFlags ==
    /\ TearDown
    /\ pipeline_' = TRUE
    /\ UNCHANGED <<eos_, error_>>

OpenPlaying ==
    /\ TearDown
    /\ pipeline_' = TRUE
    /\ eos_' = FALSE /\ error_' = FALSE

-----------------------------------------------------------------------------
\* A read() that gets a buffer of the given kind. The previous sample is
\* released first, whatever happens next.
Pull(kind) ==
    /\ pipeline_
    /\ queue # <<>>
    /\ Head(queue).kind = kind
    /\ queue' = Tail(queue)
    /\ UNCHANGED <<pipeline_, eos_, bus, sink_eos, arrived>>

ReadGood ==
    /\ Pull("good")
    /\ held_sample_' = TRUE
    /\ samples' = Released + 1
    /\ UNCHANGED <<error_, faulted>>

\* No buffer or caps, a non-positive size, or an unmappable buffer: the
\* sample is unreffed and read() returns false with no flag set.
ReadDiscarded ==
    /\ Pull("discarded")
    /\ held_sample_' = FALSE
    /\ samples' = Released
    /\ UNCHANGED <<error_, faulted>>

\* Caps that do not parse are a pipeline error; the sample is unreffed.
ReadBadCaps ==
    /\ Pull("bad_caps")
    /\ held_sample_' = FALSE
    /\ samples' = Released
    /\ error_' = TRUE
    /\ faulted' = TRUE

\* A format with no grey conversion: false, but the sample stays held.
ReadUnsupported ==
    /\ Pull("unsupported")
    /\ held_sample_' = TRUE
    /\ samples' = Released + 1
    /\ UNCHANGED <<error_, faulted>>

\* No buffer: timeout, or end of stream. The bus is drained into the flags.
ReadNothing ==
    /\ pipeline_
    /\ queue = <<>>
    /\ held_sample_' = FALSE
    /\ samples' = Released
    /\ error_' = (error_ \/ "error" \in bus)
    /\ eos_' = (eos_ \/ "eos" \in bus \/ sink_eos)
    /\ bus' = {}
    /\ UNCHANGED <<pipeline_, sink_eos, queue, arrived, faulted>>

\* Frame::capture_mono_us: base_time + PTS unless that is further ahead of
\* the clock than the slack, else the arrival time. A buffer without a PTS,
\* or a pipeline on another clock, behaves like one that is too far ahead.
CaptureStamp(s) == IF s.stamp <= now + FutureSlack THEN s.stamp ELSE now

-----------------------------------------------------------------------------
\* The external side. At most one buffer reaches the appsink in a tick;
\* drop=true keeps the newest MaxBuffers.
\* MUTANT of KeepNewest: max-buffers without effect.
KeepAll(q) == q

KeepNewest(q) ==
    IF Len(q) > MaxBuffers THEN Tail(q) ELSE q

BufferArrives ==
    /\ pipeline_ /\ ~sink_eos /\ ~arrived
    /\ \E k \in SampleKinds, t \in (now - MaxIngest)..(now + MaxAhead) :
          queue' = KeepNewest(Append(queue, [kind |-> k, stamp |-> t]))
    /\ arrived' = TRUE
    /\ UNCHANGED <<pipeline_, held_sample_, samples, eos_, error_, bus,
                   sink_eos, faulted>>

\* The element posts an error; buffers already under way still arrive.
PostError ==
    /\ "error" \in BusMessages
    /\ pipeline_ /\ "error" \notin bus /\ ~faulted
    /\ bus' = bus \cup {"error"}
    /\ faulted' = TRUE
    /\ UNCHANGED <<pipeline_, held_sample_, samples, eos_, error_, sink_eos,
                   queue, arrived>>

\* The stream ends. appsink reports EOS only once its queue is empty.
ReachEos ==
    /\ "eos" \in BusMessages
    /\ pipeline_ /\ ~sink_eos /\ queue = <<>>
    /\ sink_eos' = TRUE
    /\ bus' = bus \cup {"eos"}
    /\ faulted' = TRUE
    /\ UNCHANGED <<pipeline_, held_sample_, samples, eos_, error_, queue,
                   arrived>>
=============================================================================
