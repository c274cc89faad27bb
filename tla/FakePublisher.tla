--------------------------- MODULE FakePublisher ---------------------------
(***************************************************************************)
(* tools/fake_publisher.py: the synthetic publisher that stands in for the *)
(* service. One loop serves its cameras in turn, once per frame period,    *)
(* and decides of each frame whether it is sent, withheld because nothing  *)
(* is in view and no heartbeat is due, or dropped on purpose.              *)
(*                                                                         *)
(* Time is counted in frame periods; an iteration may start late.          *)
(***************************************************************************)
EXTENDS Integers, Sequences, FiniteSets

CONSTANTS
    Cameras,       \* --camera-id, in order
    Profiles,      \* --profile
    HbPeriod,      \* 1 / --heartbeat-hz, in periods; 0 for none
    Duration,      \* --duration, in periods; 0 for ever
    DropRate,      \* --drop-rate > 0
    MaxLate        \* bound: how late an iteration may start

ASSUME PublisherAssumption ==
    /\ HbPeriod \in Nat /\ Duration \in Nat /\ MaxLate \in Nat
    /\ DropRate \in BOOLEAN

VARIABLES
    clock,         \* the time
    began,         \* now: the time the iteration began at
    serving,       \* the cameras the iteration has still to serve
    running,
    profile,
    frame_ids, last_publish,
    published_at,  \* history: when a datagram was last composed
    missed         \* history: ids withheld, dropped on purpose or lost on the way

publisherVars == <<began, serving, running, profile, frame_ids, last_publish,
                   published_at>>

CameraSet == {Cameras[i] : i \in DOMAIN Cameras}

\* Whether a profile has a tag in view. "descent", "nested" and "static" always
\* do: of nested's two tags one is in range at every distance.
InView(t) ==
    CASE profile = "heartbeat" -> FALSE
      [] profile = "intermittent" -> t % 3 < 2
      [] OTHER -> TRUE

\* last_publish starts at the epoch, so that the first heartbeat is due at once.
PublisherInit ==
    /\ clock = 0 /\ began = -1
    /\ serving = <<>>
    /\ running = TRUE
    /\ profile \in Profiles
    /\ frame_ids = [c \in CameraSet |-> 0]
    /\ last_publish = [c \in CameraSet |-> -HbPeriod]
    /\ published_at = [c \in CameraSet |-> -HbPeriod]
    /\ missed = [c \in CameraSet |-> FALSE]

\* Sleeping until the next period, or for no time after an iteration that took
\* longer than one.
Due == clock > began

BeginIteration ==
    /\ running /\ serving = <<>> /\ Due
    /\ Duration = 0 \/ clock <= Duration
    /\ began' = clock
    /\ serving' = Cameras
    /\ UNCHANGED <<clock, running, profile, frame_ids, last_publish,
                   published_at, missed>>

\* The duration is over, or Ctrl-C.
Finish ==
    /\ running
    /\ serving = <<>>
    /\ running' = FALSE
    /\ UNCHANGED <<clock, began, serving, profile, frame_ids, last_publish,
                   published_at, missed>>

Camera == Head(serving)

\* Every iteration takes an id, published or not.
FrameId(c) == frame_ids[c] + 1

HeartbeatDue(c) == HbPeriod > 0 /\ began - last_publish[c] >= HbPeriod

\* MUTANT of PublishedAt: the schedule starts anew at every frame.
PublishedAtAlways(c, publishes) == began

PublishedAt(c, publishes) == IF publishes THEN began ELSE last_publish[c]

\* One camera of an iteration, up to the send.
Compose(publishes) ==
    LET c == Camera
    IN  /\ running /\ serving # <<>>
        /\ publishes = (InView(began) \/ HeartbeatDue(c))
        /\ frame_ids' = [frame_ids EXCEPT ![c] = FrameId(c)]
        /\ last_publish' = [last_publish EXCEPT ![c] = PublishedAt(c, publishes)]
        /\ published_at' = [published_at EXCEPT ![c] =
                                IF publishes THEN began ELSE @]
        /\ serving' = Tail(serving)
        /\ UNCHANGED <<clock, began, running, profile>>

\* The datagram of this camera and iteration.
Datagram(c) == [camera |-> c, id |-> FrameId(c),
                heartbeat |-> ~InView(began), flaw |-> "none", domain |-> "boot"]

Misses(c) == missed' = [missed EXCEPT ![c] = TRUE]

Withhold == Compose(FALSE) /\ Misses(Camera)

Drop ==
    /\ DropRate
    /\ Compose(TRUE)
    /\ Misses(Camera)

-----------------------------------------------------------------------------
\* Nothing in view appears as heartbeats, not as silence: from one published
\* datagram of a camera to the next it is never longer than the heartbeat
\* period and what an iteration may be late (fake_publisher.py:146-151, 261-266).
GapsAreHeartbeats ==
    running /\ HbPeriod > 0 =>
        \A c \in CameraSet :
            frame_ids[c] > 0 =>
                clock - published_at[c] <= HbPeriod + MaxLate
=============================================================================
