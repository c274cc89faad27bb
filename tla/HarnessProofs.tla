--------------------------- MODULE HarnessProofs ---------------------------
(***************************************************************************)
(* Theorems about the bring-up harness, for any cameras, profiles, timers, *)
(* buffer size and network faults.                                         *)
(***************************************************************************)
EXTENDS Harness, FiniteSetTheorems, SequenceTheorems, TLAPS

USE DEF publisherVars, receiverVars, silenceVars

-----------------------------------------------------------------------------
(***************************************************************************)
(* What is on its way is always a datagram.                                *)
(***************************************************************************)
NetOK ==
    /\ net \in Seq(Datagrams)
    /\ frame_ids \in [CameraSet -> Nat]
    /\ serving \in Seq(CameraSet)

LEMMA CamerasAreServed == Cameras \in Seq(CameraSet)
  <1>1. Cameras \in [1..Len(Cameras) -> CameraSet] /\ Len(Cameras) \in Nat
    BY HarnessAssumption DEF CameraSet
  <1> QED
    BY <1>1, SeqDef

LEMMA CamerasAreSenders == CameraSet \subseteq Senders
  BY HarnessAssumption DEF CameraSet

\* The datagram of a camera about to be served.
LEMMA DatagramType ==
    ASSUME NetOK, NEW c \in CameraSet
    PROVE  Datagram(c) \in Datagrams
  BY CamerasAreSenders DEF NetOK, Datagram, Datagrams, FrameId, Flaws

\* Taking one datagram out leaves datagrams.
LEMMA WithoutType ==
    ASSUME NEW s \in Seq(Datagrams), NEW i \in DOMAIN s
    PROVE  Without(s, i) \in Seq(Datagrams)
  <1>1. /\ Len(s) - 1 \in Nat
        /\ \A j \in 1..(Len(s) - 1) : j \in DOMAIN s /\ j + 1 \in DOMAIN s
    OBVIOUS
  <1>2. Without(s, i) \in [1..(Len(s) - 1) -> Datagrams]
    BY <1>1 DEF Without
  <1> QED
    BY <1>1, <1>2, SeqDef

LEMMA ArrivesType ==
    ASSUME net \in Seq(Datagrams), NEW d \in Datagrams, Arrives(d)
    PROVE  net' \in Seq(Datagrams)
  BY DEF Arrives

\* What serving a camera does to the publisher.
LEMMA ComposeType ==
    ASSUME NetOK, NEW publishes \in BOOLEAN, Compose(publishes)
    PROVE  /\ Camera \in CameraSet
           /\ frame_ids' \in [CameraSet -> Nat]
           /\ serving' \in Seq(CameraSet)
  <1>1. serving # <<>> /\ serving \in Seq(CameraSet)
    BY DEF Compose, NetOK
  <1>2. Camera \in CameraSet /\ Tail(serving) \in Seq(CameraSet)
    BY <1>1 DEF Camera
  <1>3. FrameId(Camera) \in Nat
    BY <1>2 DEF NetOK, FrameId
  <1> QED
    BY <1>2, <1>3 DEF Compose, NetOK

LEMMA NetInit == Init => NetOK
  BY DEF Init, PublisherInit, NetOK

LEMMA NetNext == NetOK /\ [Next]_vars => NetOK'
  <1> SUFFICES ASSUME NetOK, [Next]_vars PROVE NetOK'
    OBVIOUS
  <1>1. CASE Publish
    <2>1. UNCHANGED net
      BY <1>1 DEF Publish
    <2>2. CASE BeginIteration
      BY <2>1, <2>2, CamerasAreServed DEF BeginIteration, NetOK
    <2>3. CASE Withhold \/ Drop
      BY <2>1, <2>3, ComposeType DEF Withhold, Drop, NetOK
    <2>4. CASE Finish
      BY <2>1, <2>4 DEF Finish, NetOK
    <2> QED
      BY <1>1, <2>2, <2>3, <2>4 DEF Publish
  <1>2. CASE Send
    <2>1. Datagram(Camera) \in Datagrams
      BY <1>2, ComposeType, DatagramType DEF Send
    <2> QED
      BY <1>2, <2>1, ComposeType, ArrivesType DEF Send, NetOK
  <1>3. ASSUME NEW flaw \in Strangers, NEW domain \in {"boot", "other"},
               Intrude(flaw, domain)
        PROVE  NetOK'
    <2>1. [camera |-> Stray, id |-> 0, heartbeat |-> (flaw = "heartbeat_tags"),
           flaw |-> flaw, domain |-> domain] \in Datagrams
      BY HarnessAssumption DEF Datagrams
    <2> QED
      BY <1>3, <2>1, ArrivesType DEF Intrude, NetOK
  <1>4. CASE Network
    <2>1. PICK i \in DOMAIN net : Lose(i) \/ Deliver(i)
      BY <1>4 DEF Network
    <2>2. net' = Without(net, i) \/ net' = net
      BY <2>1 DEF Lose, Deliver
    <2>3. UNCHANGED <<frame_ids, serving>>
      BY <2>1 DEF Lose, Deliver
    <2> QED
      BY <2>2, <2>3, WithoutType DEF NetOK
  <1>5. CASE Listen
    <2>1. UNCHANGED <<frame_ids, serving>> /\ (net' = net \/ net' = <<>>)
      BY <1>5 DEF Listen
    <2>2. <<>> \in Seq(Datagrams)
      OBVIOUS
    <2> QED
      BY <2>1, <2>2 DEF NetOK
  <1>6. CASE Tick
    BY <1>6 DEF Tick, NetOK
  <1>7. CASE UNCHANGED vars
    BY <1>7 DEF vars, NetOK
  <1> QED
    BY <1>1, <1>2, <1>3, <1>4, <1>5, <1>6, <1>7 DEF Next

\* What each step does to the receiver: nothing, one datagram, a poll that
\* timed out, the end, or a tick of its timers.
LEMMA ReceiverSteps ==
    ASSUME NetOK, [Next]_vars
    PROVE  \/ UNCHANGED receiverVars
           \/ \E d \in Datagrams : Receive(d)
           \/ PollAgain \/ GiveUp \/ Interrupted \/ Age
  <1>1. CASE Network
    <2>1. PICK i \in DOMAIN net : Lose(i) \/ Deliver(i)
      BY <1>1 DEF Network
    <2>2. net[i] \in Datagrams
      BY <2>1 DEF NetOK
    <2> QED
      BY <2>1, <2>2 DEF Lose, Deliver
  <1>2. CASE Publish \/ Send
    BY <1>2 DEF Publish, Send
  <1>3. CASE \E flaw \in Strangers, domain \in {"boot", "other"} :
                Intrude(flaw, domain)
    BY <1>3 DEF Intrude
  <1>4. CASE Listen \/ Tick
    BY <1>4 DEF Listen, Tick
  <1>5. CASE UNCHANGED vars
    BY <1>5 DEF vars
  <1> QED
    BY <1>1, <1>2, <1>3, <1>4, <1>5 DEF Next

-----------------------------------------------------------------------------
(***************************************************************************)
(* No gap, no loss. The invariant says more of a camera without a gap than *)
(* the property does: its ids so far are an interval that ends at          *)
(* last_frame_id.                                                          *)
(***************************************************************************)
CountsOK ==
    /\ gaps \in [Senders -> Nat]
    /\ last_frame_id \in [Senders -> Nat \cup {None}]
    /\ got \in [Senders -> SUBSET Nat]

Gapless(c) ==
    \/ last_frame_id[c] = None /\ got[c] = {}
    \/ /\ last_frame_id[c] \in Nat
       /\ \E first \in Nat : got[c] = first..last_frame_id[c]

GapInv == CountsOK /\ \A c \in Senders : gaps[c] = 0 => Gapless(c)

LEMMA GapInit == Init => GapInv
  BY DEF Init, ReceiverInit, GapInv, CountsOK, Gapless

\* The first id of a camera, or the next one, prolongs its interval.
LEMMA IntervalGrows ==
    ASSUME GapInv, NEW d \in Datagrams, Decoded(d), gaps'[d.camera] = 0
    PROVE  Gapless(d.camera)'
  <1> DEFINE c == d.camera
  <1>1. c \in Senders /\ d.id \in Nat
    BY DEF Datagrams
  <1>2. /\ last_frame_id'[c] = d.id
        /\ got'[c] = got[c] \cup {d.id}
        /\ gaps'[c] = IF IsGap(c, d.id) THEN gaps[c] + 1 ELSE gaps[c]
    BY <1>1 DEF Decoded, LastId, GapInv, CountsOK
  <1>3. gaps[c] = 0 /\ ~IsGap(c, d.id) /\ Gapless(c)
    BY <1>1, <1>2 DEF GapInv, CountsOK
  <1>4. CASE last_frame_id[c] = None
    <2>1. got'[c] = d.id..d.id
      BY <1>1, <1>2, <1>3, <1>4 DEF Gapless, None
    <2> QED
      BY <1>1, <1>2, <2>1 DEF Gapless
  <1>5. CASE last_frame_id[c] # None
    <2>1. PICK first \in Nat : got[c] = first..last_frame_id[c]
      BY <1>3, <1>5 DEF Gapless
    <2>2. last_frame_id[c] \in Nat /\ d.id = last_frame_id[c] + 1
      BY <1>3, <1>5 DEF Gapless, IsGap
    <2>3. CASE first <= d.id
      <3>1. got'[c] = first..d.id
        BY <1>2, <2>1, <2>2, <2>3
      <3> QED
        BY <1>1, <1>2, <3>1 DEF Gapless
    <2>4. CASE ~(first <= d.id)
      <3>1. got'[c] = d.id..d.id
        BY <1>1, <1>2, <2>1, <2>2, <2>4
      <3> QED
        BY <1>1, <1>2, <3>1 DEF Gapless
    <2> QED
      BY <2>3, <2>4
  <1> QED
    BY <1>4, <1>5

LEMMA GapNext == NetOK /\ GapInv /\ [Next]_vars => GapInv'
  <1> SUFFICES ASSUME NetOK, GapInv, [Next]_vars PROVE GapInv'
    OBVIOUS
  <1>1. CASE UNCHANGED <<last_frame_id, gaps, got>>
    BY <1>1 DEF GapInv, CountsOK, Gapless
  <1>2. ASSUME NEW d \in Datagrams, Decoded(d) PROVE GapInv'
    <2>1. d.camera \in Senders /\ d.id \in Nat
      BY DEF Datagrams
    <2>2. CountsOK'
      BY <1>2, <2>1 DEF Decoded, LastId, GapInv, CountsOK
    <2>3. ASSUME NEW c \in Senders, gaps'[c] = 0 PROVE Gapless(c)'
      <3>1. CASE c = d.camera
        BY <1>2, <2>3, <3>1, IntervalGrows
      <3>2. CASE c # d.camera
        <4>1. /\ last_frame_id'[c] = last_frame_id[c]
              /\ got'[c] = got[c] /\ gaps'[c] = gaps[c]
          BY <1>2, <3>2 DEF Decoded, GapInv, CountsOK
        <4> QED
          BY <2>3, <4>1 DEF GapInv, Gapless
      <3> QED
        BY <3>1, <3>2
    <2> QED
      BY <2>2, <2>3 DEF GapInv
  <1>3. ASSUME NEW d \in Datagrams, Undecodable(d) PROVE GapInv'
    BY <1>1, <1>3 DEF Undecodable
  <1>4. CASE PollAgain \/ GiveUp \/ Interrupted \/ Age
    BY <1>1, <1>4 DEF PollAgain, GiveUp, Interrupted, Leave, Age
  <1> QED
    BY <1>1, <1>2, <1>3, <1>4, ReceiverSteps DEF Receive

LEMMA GapImplies == GapInv => NoGapNoLoss
  <1> SUFFICES ASSUME GapInv, NEW c \in Senders, gaps[c] = 0,
                      NEW i \in got[c], NEW j \in got[c]
               PROVE  i..j \subseteq got[c]
    BY DEF NoGapNoLoss
  <1>1. PICK first \in Nat : got[c] = first..last_frame_id[c]
    BY DEF GapInv, Gapless
  <1>2. last_frame_id[c] \in Nat
    BY DEF GapInv, Gapless
  <1> QED
    BY <1>1, <1>2

\* A camera for which the receiver counted no gap has given every id from its
\* first to its last, whatever the network lost, reordered or repeated.
THEOREM NoGapMeansNoLoss == Spec => []NoGapNoLoss
  <1>1. Init => NetOK /\ GapInv
    BY NetInit, GapInit
  <1>2. (NetOK /\ GapInv) /\ [Next]_vars => (NetOK /\ GapInv)'
    BY NetNext, GapNext
  <1> QED
    BY <1>1, <1>2, GapImplies, PTL DEF Spec

-----------------------------------------------------------------------------
(***************************************************************************)
(* --check. The invariant ties what was noted to what was received, and    *)
(* the status to both: after the end nothing is noted any more.            *)
(***************************************************************************)
CheckTyped ==
    /\ listening \in BOOLEAN /\ total \in BOOLEAN /\ flawed \in BOOLEAN
    /\ problems \subseteq (Flaws \ {"none"}) \cup {"domains"}
    /\ clock_domains \subseteq {"boot", "other"}

\* A flaw is noted exactly when a flawed datagram came, and two clock domains
\* only when there are two.
NotesAgree ==
    /\ flawed <=> \E f \in problems : f # "domains"
    /\ "domains" \in problems => clock_domains = {"boot", "other"}

StatusAgrees == status = IF listening THEN "none" ELSE Verdict

CheckInv == CheckTyped /\ NotesAgree /\ StatusAgrees

LEMMA CheckInit == Init => CheckInv
  BY DEF Init, ReceiverInit, CheckInv, CheckTyped, NotesAgree, StatusAgrees

LEMMA TwoDomains ==
    /\ Cardinality({"boot", "other"}) = 2
    /\ \A s \in SUBSET {"boot", "other"} :
          Cardinality(s) > 1 => s = {"boot", "other"}
  <1>1. /\ Cardinality({}) = 0
        /\ Cardinality({"boot"}) = 1 /\ Cardinality({"other"}) = 1
    BY FS_EmptySet, FS_Singleton
  <1>2. Cardinality({"boot"} \cup {"other"}) = 2
    <2>1. IsFiniteSet({"boot"}) /\ "other" \notin {"boot"}
      BY FS_Singleton
    <2> QED
      BY <1>1, <2>1, FS_AddElement
  <1>3. {"boot"} \cup {"other"} = {"boot", "other"}
    OBVIOUS
  <1>4. ASSUME NEW s \in SUBSET {"boot", "other"}, Cardinality(s) > 1
        PROVE  s = {"boot", "other"}
    <2>1. s = {} \/ s = {"boot"} \/ s = {"other"} \/ s = {"boot", "other"}
      OBVIOUS
    <2>2. s # {} /\ s # {"boot"} /\ s # {"other"}
      BY <1>1, <1>4
    <2> QED
      BY <2>1, <2>2
  <1>5. Cardinality({"boot", "other"}) = 2
    BY <1>2, <1>3
  <1> QED
    BY <1>4, <1>5

\* What the end of a turn notes: nothing, or two clock domains that there are.
LEMMA TurnNotes ==
    ASSUME NEW noted, NEW domains \in SUBSET {"boot", "other"},
           EndTurn(noted, domains)
    PROVE  /\ clock_domains' = domains
           /\ \/ problems' = noted
              \/ problems' = noted \cup {"domains"} /\ domains = {"boot", "other"}
  <1>1. Cardinality(domains) > 1 => domains = {"boot", "other"}
    BY TwoDomains
  <1> QED
    BY <1>1 DEF EndTurn

LEMMA CheckNext == NetOK /\ CheckInv /\ [Next]_vars => CheckInv'
  <1> SUFFICES ASSUME NetOK, CheckInv, [Next]_vars PROVE CheckInv'
    OBVIOUS
  <1> USE DEF CheckInv, CheckTyped
  <1>1. CASE UNCHANGED <<listening, total, flawed, problems, clock_domains, status>>
    BY <1>1 DEF NotesAgree, StatusAgrees, Verdict
  <1>2. ASSUME NEW d \in Datagrams, Decoded(d) PROVE CheckInv'
    <2> DEFINE noted == problems \cup ({d.flaw} \ {"none"})
               domains == IF d.flaw = "no_domain" THEN clock_domains
                          ELSE clock_domains \cup {d.domain}
    <2>1. d.flaw \in Flaws /\ d.domain \in {"boot", "other"} /\ d.flaw # "domains"
      BY DEF Datagrams, Flaws
    <2>2. /\ total' = TRUE /\ listening /\ UNCHANGED <<listening, status>>
          /\ flawed' = (flawed \/ d.flaw # "none")
          /\ EndTurn(noted, domains)
      BY <1>2 DEF Decoded, Seen, Noted
    <2>3. domains \in SUBSET {"boot", "other"} /\ clock_domains \subseteq domains
      BY <2>1
    <2>4. /\ clock_domains' = domains
          /\ \/ problems' = noted
             \/ problems' = noted \cup {"domains"} /\ domains = {"boot", "other"}
      BY <2>2, <2>3, TurnNotes
    <2>5. CheckTyped'
      BY <2>1, <2>2, <2>3, <2>4
    <2>6. NotesAgree'
      <3>1. "domains" \in problems' => clock_domains' = {"boot", "other"}
        BY <2>1, <2>3, <2>4 DEF NotesAgree
      <3>2. flawed' <=> \E f \in problems' : f # "domains"
        BY <2>1, <2>2, <2>4 DEF NotesAgree
      <3> QED
        BY <3>1, <3>2 DEF NotesAgree
    <2>7. StatusAgrees'
      BY <2>2 DEF StatusAgrees
    <2> QED
      BY <2>5, <2>6, <2>7
  <1>3. ASSUME NEW d \in Datagrams, Undecodable(d) PROVE CheckInv'
    <2>1. /\ total' = TRUE /\ listening
          /\ UNCHANGED <<listening, status, clock_domains>>
          /\ problems' = problems \cup {"undecodable"} /\ flawed' = TRUE
      BY <1>3 DEF Undecodable, Seen
    <2>2. CheckTyped' /\ NotesAgree'
      BY <2>1 DEF NotesAgree, Flaws
    <2> QED
      BY <2>1, <2>2 DEF StatusAgrees
  <1>4. CASE PollAgain
    <2>1. /\ listening /\ UNCHANGED <<listening, status, total, flawed>>
          /\ EndTurn(problems, clock_domains)
      BY <1>4 DEF PollAgain, PollTimesOut
    <2>2. clock_domains \in SUBSET {"boot", "other"}
      BY DEF CheckInv, CheckTyped
    <2>3. /\ clock_domains' = clock_domains
          /\ \/ problems' = problems
             \/ /\ problems' = problems \cup {"domains"}
                /\ clock_domains = {"boot", "other"}
      BY <2>1, <2>2, TurnNotes
    <2>4. NotesAgree'
      BY <2>1, <2>3 DEF NotesAgree
    <2>5. StatusAgrees' /\ CheckTyped'
      BY <2>1, <2>3 DEF StatusAgrees
    <2> QED
      BY <2>4, <2>5
  <1>5. CASE GiveUp \/ Interrupted
    <2>1. /\ listening' = FALSE /\ status' = Verdict
          /\ UNCHANGED <<total, flawed, problems, clock_domains>>
      BY <1>5 DEF GiveUp, Interrupted, Leave
    <2> QED
      BY <2>1 DEF NotesAgree, StatusAgrees, Verdict
  <1>6. CASE Age
    BY <1>1, <1>6 DEF Age
  <1> QED
    BY <1>1, <1>2, <1>3, <1>4, <1>5, <1>6, ReceiverSteps DEF Receive

LEMMA CheckImplies == CheckInv => PassMeansClean
  <1> SUFFICES ASSUME CheckInv, status # "none" PROVE
        /\ status = "passed" => total /\ ~flawed
        /\ ~flawed /\ total /\ Cardinality(clock_domains) <= 1
              => status = "passed"
    BY DEF PassMeansClean
  <1>1. status = Verdict
    BY DEF CheckInv, StatusAgrees
  <1>2. ASSUME status = "passed" PROVE total /\ ~flawed
    BY <1>1, <1>2 DEF Verdict, CheckInv, NotesAgree
  <1>3. ASSUME ~flawed, total, Cardinality(clock_domains) <= 1
        PROVE  status = "passed"
    <2>1. "domains" \notin problems
      <3>1. Cardinality({"boot", "other"}) <= 1 => FALSE
        BY TwoDomains
      <3> QED
        BY <1>3, <3>1 DEF CheckInv, NotesAgree
    <2>2. problems = {}
      BY <1>3, <2>1 DEF CheckInv, NotesAgree
    <2> QED
      BY <1>1, <1>3, <2>2 DEF Verdict
  <1> QED
    BY <1>2, <1>3

\* --check passes a run exactly when there was one and every datagram of it
\* kept the contract, two clock domains aside that no summary saw.
THEOREM PassAlwaysMeansClean == Spec => []PassMeansClean
  <1>1. Init => NetOK /\ CheckInv
    BY NetInit, CheckInit
  <1>2. (NetOK /\ CheckInv) /\ [Next]_vars => (NetOK /\ CheckInv)'
    BY NetNext, CheckNext
  <1> QED
    BY <1>1, <1>2, CheckImplies, PTL DEF Spec
-----------------------------------------------------------------------------
(***************************************************************************)
(* The timers and the types.                                               *)
(***************************************************************************)
TimersOK ==
    /\ clock \in 0..Horizon /\ began \in -1..clock
    /\ running \in BOOLEAN
    /\ silence \in Nat /\ unsummed \in 0..Interval
    /\ polled \in 0..(PollPeriod + PollLate)
    /\ quiet \in Nat /\ gave_up \in BOOLEAN
    /\ disordered \in BOOLEAN

\* The clock and the publisher's loop, whatever step is taken.
LEMMA ClockSteps ==
    ASSUME [Next]_vars
    PROVE  \/ Tick
           \/ /\ clock' = clock
              /\ began' = began \/ began' = clock
              /\ running' = running \/ running' = FALSE
  <1>1. CASE Publish
    <2>1. Compose(TRUE) \/ Compose(FALSE) => UNCHANGED <<clock, began, running>>
      BY DEF Compose
    <2> QED
      BY <1>1, <2>1 DEF Publish, BeginIteration, Withhold, Drop, Finish
  <1>2. CASE Send
    BY <1>2 DEF Send, Compose
  <1>3. CASE \E flaw \in Strangers, domain \in {"boot", "other"} :
                Intrude(flaw, domain)
    BY <1>3 DEF Intrude
  <1>4. CASE Network
    BY <1>4 DEF Network, Lose, Deliver
  <1>5. CASE Listen
    BY <1>5 DEF Listen
  <1>6. CASE UNCHANGED vars
    BY <1>6 DEF vars
  <1> QED
    BY <1>1, <1>2, <1>3, <1>4, <1>5, <1>6 DEF Next

\* The receiver's timers and the true silence move together: at a datagram, at
\* a poll that timed out, at its end and with the clock.
LEMMA TimerSteps ==
    ASSUME NetOK, [Next]_vars
    PROVE  \/ /\ UNCHANGED <<silence, unsummed, polled, quiet, gave_up>>
              /\ UNCHANGED listening
           \/ \E d \in Datagrams : Receive(d) /\ quiet' = 0 /\ gave_up' = gave_up
           \/ PollAgain /\ UNCHANGED <<quiet, gave_up>>
           \/ GiveUp /\ gave_up' = TRUE /\ UNCHANGED quiet
           \/ Interrupted /\ UNCHANGED <<quiet, gave_up>>
           \/ Age /\ quiet' = quiet + 1 /\ UNCHANGED gave_up
  <1>1. CASE Network
    <2>1. PICK i \in DOMAIN net : Lose(i) \/ Deliver(i)
      BY <1>1 DEF Network
    <2>2. net[i] \in Datagrams
      BY <2>1 DEF NetOK
    <2>3. CASE Lose(i)
      BY <2>3 DEF Lose
    <2>4. CASE Deliver(i)
      BY <2>2, <2>4 DEF Deliver
    <2> QED
      BY <2>1, <2>3, <2>4
  <1>2. CASE Publish \/ Send
    BY <1>2 DEF Publish, Send
  <1>3. CASE \E flaw \in Strangers, domain \in {"boot", "other"} :
                Intrude(flaw, domain)
    BY <1>3 DEF Intrude
  <1>4. CASE Listen
    BY <1>4 DEF Listen
  <1>5. CASE Tick
    BY <1>5 DEF Tick
  <1>6. CASE UNCHANGED vars
    BY <1>6 DEF vars
  <1> QED
    BY <1>1, <1>2, <1>3, <1>4, <1>5, <1>6 DEF Next

LEMMA TimersNext == NetOK /\ TimersOK /\ [Next]_vars => TimersOK'
  <1> SUFFICES ASSUME NetOK, TimersOK, [Next]_vars PROVE TimersOK'
    OBVIOUS
  <1> USE HarnessAssumption
  <1>1. clock' \in 0..Horizon /\ began' \in -1..clock' /\ running' \in BOOLEAN
    <2>1. CASE Tick
      <3>1. clock < Horizon /\ clock' = clock + 1 /\ UNCHANGED <<began, running>>
        BY <2>1 DEF Tick
      <3> QED
        BY <3>1 DEF TimersOK
    <2>2. ASSUME clock' = clock, began' = began \/ began' = clock,
                 running' = running \/ running' = FALSE
          PROVE  clock' \in 0..Horizon /\ began' \in -1..clock'
                 /\ running' \in BOOLEAN
      <3>1. running' \in BOOLEAN
        BY <2>2, Zenon DEF TimersOK
      <3>2. clock' \in 0..Horizon /\ began' \in -1..clock'
        BY <2>2 DEF TimersOK
      <3> QED
        BY <3>1, <3>2
    <2> QED
      BY <2>1, <2>2, ClockSteps
  <1>2. disordered' \in BOOLEAN
    <2>1. ASSUME NEW d \in Datagrams, Receive(d) PROVE disordered' \in BOOLEAN
      BY <2>1 DEF Receive, Undecodable, Decoded, TimersOK
    <2>2. CASE PollAgain \/ GiveUp \/ Interrupted \/ Age
      BY <2>2 DEF PollAgain, GiveUp, Interrupted, Leave, Age, TimersOK
    <2>3. CASE UNCHANGED receiverVars
      BY <2>3 DEF TimersOK
    <2> QED
      BY <2>1, <2>2, <2>3, ReceiverSteps
  <1>3. /\ silence' \in Nat /\ unsummed' \in 0..Interval
        /\ polled' \in 0..(PollPeriod + PollLate)
        /\ quiet' \in Nat /\ gave_up' \in BOOLEAN
    <2> DEFINE Typed == /\ silence' \in Nat /\ unsummed' \in 0..Interval
                        /\ polled' \in 0..(PollPeriod + PollLate)
                        /\ quiet' \in Nat /\ gave_up' \in BOOLEAN
    <2>1. CASE UNCHANGED <<silence, unsummed, polled, quiet, gave_up>>
      BY <2>1 DEF TimersOK
    <2>2. ASSUME NEW d \in Datagrams, Receive(d), quiet' = 0, gave_up' = gave_up
          PROVE  Typed
      <3>1. silence' = 0 /\ polled' = 0 /\ (unsummed' = 0 \/ unsummed' = unsummed)
        BY <2>2 DEF Receive, Undecodable, Decoded, Seen, SinceRx, EndTurn
      <3> QED
        BY <2>2, <3>1 DEF TimersOK
    <2>3. CASE PollAgain /\ UNCHANGED <<quiet, gave_up>>
      BY <2>3 DEF PollAgain, SinceRx, EndTurn, TimersOK
    <2>4. CASE GiveUp /\ gave_up' = TRUE /\ UNCHANGED quiet
      BY <2>4 DEF GiveUp, Leave, TimersOK
    <2>5. CASE Interrupted /\ UNCHANGED <<quiet, gave_up>>
      BY <2>5 DEF Interrupted, Leave, TimersOK
    <2>6. CASE Age /\ quiet' = quiet + 1 /\ UNCHANGED gave_up
      BY <2>6 DEF Age, TimersOK
    <2> QED
      BY <2>1, <2>2, <2>3, <2>4, <2>5, <2>6, TimerSteps
  <1> QED
    BY <1>1, <1>2, <1>3 DEF TimersOK

HarnessInv == NetOK /\ CheckInv /\ GapInv /\ TimersOK

LEMMA HarnessInvariant == Spec => []HarnessInv
  <1>1. Init => TimersOK
    <2> SUFFICES ASSUME Init PROVE TimersOK
      OBVIOUS
    <2>1. /\ clock = 0 /\ began = -1 /\ running = TRUE
          /\ silence = 0 /\ unsummed = 0 /\ polled = 0 /\ disordered = FALSE
          /\ quiet = 0 /\ gave_up = FALSE
      BY DEF Init, PublisherInit, ReceiverInit
    <2>2. running \in BOOLEAN /\ disordered \in BOOLEAN /\ gave_up \in BOOLEAN
      BY <2>1, Zenon
    <2>3. /\ clock \in 0..Horizon /\ began \in -1..clock
          /\ silence \in Nat /\ unsummed \in 0..Interval /\ quiet \in Nat
          /\ polled \in 0..(PollPeriod + PollLate)
      BY <2>1, HarnessAssumption
    <2> QED
      BY <2>2, <2>3, Zenon DEF TimersOK
  <1>2. Init => HarnessInv
    BY <1>1, NetInit, CheckInit, GapInit DEF HarnessInv
  <1>3. HarnessInv /\ [Next]_vars => HarnessInv'
    BY NetNext, CheckNext, GapNext, TimersNext DEF HarnessInv
  <1> QED
    BY <1>2, <1>3, PTL DEF Spec

\* Ids, counts, timers and what is on its way keep their types.
THEOREM TypeCorrect == Spec => []TypeOK
  <1>1. HarnessInv => TypeOK
    <2> SUFFICES ASSUME HarnessInv PROVE TypeOK
      OBVIOUS
    <2>1. ReceiverTypeOK
      BY DEF HarnessInv, CheckInv, CheckTyped, StatusAgrees, Verdict, GapInv,
             CountsOK, TimersOK, ReceiverTypeOK
    <2> QED
      BY <2>1 DEF HarnessInv, NetOK, TimersOK, TypeOK
  <1> QED
    BY <1>1, HarnessInvariant, PTL

-----------------------------------------------------------------------------
(***************************************************************************)
(* The two clocks of the harness.                                          *)
(***************************************************************************)

\* While the receiver listens, its timer is the true silence, which at the
\* beginning of this turn was not too long yet.
SilenceInv ==
    /\ listening => /\ silence = quiet /\ polled <= quiet
                    /\ Timeout > 0 => quiet - polled <= Timeout
                    /\ ~gave_up
    /\ gave_up => Timeout > 0 /\ quiet > Timeout

LEMMA SilenceNext == HarnessInv /\ SilenceInv /\ [Next]_vars => SilenceInv'
  <1> SUFFICES ASSUME HarnessInv, SilenceInv, [Next]_vars PROVE SilenceInv'
    OBVIOUS
  <1> USE HarnessAssumption DEF SilenceInv
  <1>1. NetOK /\ TimersOK
    BY DEF HarnessInv
  <1>2. CASE UNCHANGED <<silence, unsummed, polled, quiet, gave_up>>
             /\ UNCHANGED listening
    BY <1>2
  <1>3. ASSUME NEW d \in Datagrams, Receive(d), quiet' = 0, gave_up' = gave_up
        PROVE  SilenceInv'
    <2>1. silence' = 0 /\ polled' = 0 /\ listening /\ listening' = listening
      BY <1>3 DEF Receive, Undecodable, Decoded, Seen, SinceRx, EndTurn
    <2> QED
      BY <1>3, <2>1
  <1>4. CASE PollAgain /\ UNCHANGED <<quiet, gave_up>>
    <2>1. /\ polled' = 0 /\ silence' = silence /\ listening /\ listening' = listening
          /\ ~(Timeout > 0 /\ silence > Timeout)
      BY <1>4 DEF PollAgain, PollTimesOut, SilentTooLong, SinceRx, EndTurn
    <2> QED
      BY <1>1, <1>4, <2>1 DEF TimersOK
  <1>5. CASE GiveUp /\ gave_up' = TRUE /\ UNCHANGED quiet
    BY <1>5 DEF GiveUp, PollTimesOut, SilentTooLong, Leave
  <1>6. CASE Interrupted /\ UNCHANGED <<quiet, gave_up>>
    BY <1>6 DEF Interrupted, Leave
  <1>7. CASE Age /\ quiet' = quiet + 1 /\ UNCHANGED gave_up
    BY <1>1, <1>7 DEF Age, TimersOK
  <1> QED
    BY <1>1, <1>2, <1>3, <1>4, <1>5, <1>6, <1>7, TimerSteps

\* A receiver with a timeout leaves on a silence longer than it and on nothing
\* less, and at the latest when recvfrom() next returns: for any timeout, poll
\* and lateness, and whatever arrives in between (recv_fiducial.py:105-117).
THEOREM AlwaysGivesUpOnSilence == Spec => []GivesUpOnSilence
  <1>1. Init => SilenceInv
    BY HarnessAssumption DEF Init, ReceiverInit, SilenceInv
  <1>2. HarnessInv /\ SilenceInv => GivesUpOnSilence
    <2> SUFFICES ASSUME HarnessInv, SilenceInv PROVE GivesUpOnSilence
      OBVIOUS
    <2>1. TimersOK
      BY DEF HarnessInv
    <2> QED
      BY <2>1, HarnessAssumption DEF SilenceInv, TimersOK, GivesUpOnSilence
  <1> QED
    BY <1>1, <1>2, HarnessInvariant, SilenceNext, PTL DEF Spec

LEMMA PublisherSteps ==
    ASSUME [Next]_vars
    PROVE  \/ Tick \/ BeginIteration \/ Finish
           \/ \E publishes \in BOOLEAN : Compose(publishes)
           \/ UNCHANGED publisherVars /\ clock' = clock
  <1>1. CASE Publish \/ Send
    BY <1>1 DEF Publish, Send, Withhold, Drop
  <1>2. CASE \E flaw \in Strangers, domain \in {"boot", "other"} :
                Intrude(flaw, domain)
    BY <1>2 DEF Intrude
  <1>3. CASE Network
    BY <1>3 DEF Network, Lose, Deliver
  <1>4. CASE Listen
    BY <1>4 DEF Listen
  <1>5. CASE UNCHANGED vars
    BY <1>5 DEF vars
  <1> QED
    BY <1>1, <1>2, <1>3, <1>4, <1>5 DEF Next

\* Between iterations every camera was heard of less than a period before the
\* last one; during one the clock stands, and those still to be served wait.
Waits(c) == \E i \in DOMAIN serving : serving[i] = c

Recent(c) ==
    /\ Waits(c) \/ began - published_at[c] < HbPeriod
    /\ clock - published_at[c] <= HbPeriod + MaxLate

PulseOK ==
    /\ clock <= began + MaxLate + 1
    /\ serving # <<>> => clock = began
    /\ HbPeriod > 0 => \A c \in CameraSet : frame_ids[c] > 0 => Recent(c)

PulseInv ==
    /\ last_publish = published_at
    /\ published_at \in [CameraSet -> Int]
    /\ running => PulseOK

LEMMA StillInTail ==
    ASSUME NEW S, NEW s \in Seq(S), s # <<>>, NEW i \in 1..Len(s), i # 1
    PROVE  i - 1 \in DOMAIN Tail(s) /\ Tail(s)[i - 1] = s[i]
  OBVIOUS

LEMMA PulseCompose ==
    ASSUME HarnessInv, PulseInv, NEW publishes \in BOOLEAN, Compose(publishes)
    PROVE  PulseInv'
  <1> USE PublisherAssumption DEF HarnessInv, TimersOK, NetOK
  <1> DEFINE c == Camera
  <1>1. serving # <<>> /\ serving \in Seq(CameraSet) /\ c = serving[1] /\ running
    BY DEF Compose, Camera
  <1>2. c \in CameraSet /\ clock = began /\ PulseOK
    BY <1>1 DEF PulseInv, PulseOK
  <1>3. /\ UNCHANGED <<clock, began, running>> /\ serving' = Tail(serving)
        /\ published_at' = [published_at EXCEPT ![c] = IF publishes THEN began ELSE @]
        /\ last_publish' = published_at'
        /\ frame_ids' = [frame_ids EXCEPT ![c] = @ + 1]
    BY <1>2 DEF Compose, PublishedAt, FrameId, PulseInv
  <1>4. ~publishes /\ HbPeriod > 0 => began - published_at[c] < HbPeriod
    <2>1. ~publishes => ~HeartbeatDue(c)
      BY DEF Compose
    <2>2. published_at[c] \in Int /\ last_publish[c] = published_at[c]
      BY <1>2 DEF PulseInv
    <2> QED
      BY <2>1, <2>2 DEF HeartbeatDue
  <1>5. began \in Int /\ published_at \in [CameraSet -> Int]
    BY DEF PulseInv
  <1> HIDE DEF c
  <1>6. ASSUME NEW d \in CameraSet, HbPeriod > 0, frame_ids'[d] > 0
        PROVE  Recent(d)'
    <2>1. CASE d = c
      <3>1. published_at'[d] = IF publishes THEN began ELSE published_at[c]
        BY <1>3, <1>5, <2>1
      <3>2. began - published_at'[d] < HbPeriod
        BY <1>4, <1>5, <1>6, <3>1
      <3>3. published_at'[d] \in Int
        BY <1>5, <2>1, <3>1
      <3> QED
        BY <1>2, <1>3, <1>5, <3>2, <3>3 DEF Recent
    <2>2. CASE d # c
      <3>1. published_at'[d] = published_at[d] /\ frame_ids'[d] = frame_ids[d]
        BY <1>3, <1>5, <2>2
      <3>2. Recent(d)
        BY <1>2, <1>6, <3>1 DEF PulseOK
      <3>3. ASSUME NEW i \in DOMAIN serving, serving[i] = d
            PROVE  Waits(d)'
        <4>1. i # 1 /\ i \in 1..Len(serving)
          BY <1>1, <2>2, <3>3
        <4>2. i - 1 \in DOMAIN Tail(serving) /\ Tail(serving)[i - 1] = serving[i]
          BY <1>1, <4>1, StillInTail
        <4>3. serving' = Tail(serving)
          BY <1>3
        <4>4. i - 1 \in DOMAIN serving' /\ serving'[i - 1] = d
          BY <3>3, <4>2, <4>3
        <4> QED
          BY <4>4, Zenon DEF Waits
      <3>4. Waits(d) => Waits(d)'
        BY <3>3 DEF Waits
      <3> QED
        BY <1>3, <3>1, <3>2, <3>4 DEF Recent
    <2> QED
      BY <2>1, <2>2
  <1>7. PulseOK'
    BY <1>2, <1>3, <1>6 DEF PulseOK
  <1> QED
    BY <1>3, <1>5, <1>7 DEF PulseInv

LEMMA PulseNext == HarnessInv /\ PulseInv /\ [Next]_vars => PulseInv'
  <1> SUFFICES ASSUME HarnessInv, PulseInv, [Next]_vars PROVE PulseInv'
    OBVIOUS
  <1> USE PublisherAssumption DEF HarnessInv, TimersOK, PulseInv
  <1>1. CASE Tick
    <2>1. /\ clock' = clock + 1
          /\ UNCHANGED <<began, serving, running, frame_ids, last_publish,
                         published_at>>
          /\ running => serving = <<>> /\ clock <= began + MaxLate
      BY <1>1 DEF Tick
    <2>2. ASSUME running PROVE PulseOK'
      <3>1. ASSUME NEW c \in CameraSet, HbPeriod > 0, frame_ids[c] > 0
            PROVE  Recent(c)'
        <4>1. ~Waits(c)
          BY <2>1, <2>2 DEF Waits
        <4>2. began - published_at[c] < HbPeriod /\ published_at[c] \in Int
          BY <2>2, <3>1, <4>1 DEF PulseOK, Recent
        <4> QED
          BY <2>1, <2>2, <4>2 DEF Recent
      <3> QED
        BY <2>1, <2>2, <3>1 DEF PulseOK
    <2> QED
      BY <2>1, <2>2
  <1>2. CASE BeginIteration
    <2>1. /\ began' = clock /\ serving' = Cameras /\ running
          /\ UNCHANGED <<clock, running, frame_ids, last_publish, published_at>>
      BY <1>2 DEF BeginIteration
    <2>2. \A c \in CameraSet : Waits(c)'
      BY <2>1 DEF CameraSet, Waits
    <2>3. PulseOK'
      BY <2>1, <2>2 DEF PulseOK, Recent
    <2> QED
      BY <2>1, <2>3
  <1>3. CASE Finish
    BY <1>3 DEF Finish
  <1>4. CASE UNCHANGED publisherVars /\ clock' = clock
    BY <1>4 DEF PulseOK, Recent, Waits
  <1>5. CASE \E publishes \in BOOLEAN : Compose(publishes)
    BY <1>5, PulseCompose
  <1> QED
    BY <1>1, <1>2, <1>3, <1>4, <1>5, PublisherSteps

\* Nothing in view appears as heartbeats, for any number of cameras, any
\* profile and any lateness of the loop (fake_publisher.py:146-151, 261-266).
THEOREM GapsAlwaysHeartbeats == Spec => []GapsAreHeartbeats
  <1>1. Init => PulseInv
    BY PublisherAssumption
    DEF Init, PublisherInit, PulseInv, PulseOK, Recent, Waits
  <1>2. PulseInv => GapsAreHeartbeats
    BY DEF PulseInv, PulseOK, Recent, GapsAreHeartbeats
  <1> QED
    BY <1>1, <1>2, HarnessInvariant, PulseNext, PTL DEF Spec
-----------------------------------------------------------------------------
(***************************************************************************)
(* What a gap counts. While the ids of all cameras rise, last_frame_id is  *)
(* the newest one received, so that a datagram behind a gap begins one run *)
(* more and any other extends the last.                                    *)
(***************************************************************************)
Newest(c) ==
    /\ IsFiniteSet(RunsMissing(c)) /\ gaps[c] = Cardinality(RunsMissing(c))
    /\ last_frame_id[c] = None => got[c] = {}
    /\ last_frame_id[c] # None =>
          last_frame_id[c] \in got[c] /\ \A i \in got[c] : i <= last_frame_id[c]

RunsInv == ~disordered => \A c \in Senders : Newest(c)

LEMMA RunBegins ==
    ASSUME HarnessInv, NEW d \in Datagrams, Decoded(d), Newest(d.camera),
           \A i \in got[d.camera] : i < d.id
    PROVE  Newest(d.camera)'
  <1> DEFINE c == d.camera
             id == d.id
             gap == IsGap(c, id)
  <1>1. c \in Senders /\ id \in Nat
    BY DEF Datagrams
  <1>2. CountsOK
    BY DEF HarnessInv, GapInv
  <1>3. /\ last_frame_id'[c] = id
        /\ got'[c] = got[c] \cup {id}
        /\ gaps'[c] = IF gap THEN gaps[c] + 1 ELSE gaps[c]
    BY <1>1, <1>2 DEF Decoded, LastId, CountsOK
  <1>4. got[c] \subseteq Nat /\ last_frame_id[c] \in Nat \cup {None}
    BY <1>1, <1>2 DEF CountsOK
  <1>5. gap <=> id - 1 \notin got[c] /\ got[c] # {}
    <2>1. CASE last_frame_id[c] = None
      BY <2>1 DEF Newest, IsGap
    <2>2. CASE last_frame_id[c] # None
      BY <1>1, <1>4, <2>2 DEF Newest, IsGap
    <2> QED
      BY <2>1, <2>2
  <1>6. RunsMissing(c)' = IF gap THEN RunsMissing(c) \cup {id} ELSE RunsMissing(c)
    <2>1. ASSUME NEW i \in got[c]
          PROVE  i \in RunsMissing(c)' <=> i \in RunsMissing(c)
      BY <1>1, <1>3, <1>4, <2>1 DEF RunsMissing
    <2>2. id \in RunsMissing(c)' <=> gap
      BY <1>1, <1>3, <1>4, <1>5 DEF RunsMissing
    <2>3. RunsMissing(c)' \subseteq got[c] \cup {id} /\ RunsMissing(c) \subseteq got[c]
      BY <1>3 DEF RunsMissing
    <2> QED
      BY <2>1, <2>2, <2>3
  <1>7. id \notin RunsMissing(c)
    BY <1>1, <1>4 DEF RunsMissing
  <1>8. /\ IsFiniteSet(RunsMissing(c) \cup {id})
        /\ Cardinality(RunsMissing(c) \cup {id}) = Cardinality(RunsMissing(c)) + 1
    BY <1>7, FS_AddElement DEF Newest
  <1>9. IsFiniteSet(RunsMissing(c)') /\ gaps'[c] = Cardinality(RunsMissing(c)')
    BY <1>3, <1>6, <1>8 DEF Newest
  <1>10. \A i \in got'[c] : i <= id
    BY <1>1, <1>3, <1>4
  <1> QED
    BY <1>1, <1>3, <1>9, <1>10 DEF Newest, None

LEMMA RunsNext == HarnessInv /\ RunsInv /\ [Next]_vars => RunsInv'
  <1> SUFFICES ASSUME HarnessInv, RunsInv, [Next]_vars PROVE RunsInv'
    OBVIOUS
  <1>1. CASE UNCHANGED <<last_frame_id, gaps, got, disordered>>
    BY <1>1 DEF RunsInv, Newest, RunsMissing
  <1>2. ASSUME NEW d \in Datagrams, Decoded(d), ~disordered' PROVE RunsInv'
    <2>1. d.camera \in Senders /\ d.id \in Nat
      BY DEF Datagrams
    <2>2. ~disordered /\ \A i \in got[d.camera] : ~(d.id <= i)
      BY <1>2 DEF Decoded
    <2>3. CountsOK
      BY DEF HarnessInv, GapInv
    <2>4. \A i \in got[d.camera] : i < d.id
      BY <2>1, <2>2, <2>3 DEF CountsOK
    <2>5. Newest(d.camera)'
      BY <1>2, <2>1, <2>2, <2>4, RunBegins DEF RunsInv
    <2>6. ASSUME NEW c \in Senders, c # d.camera PROVE Newest(c)'
      <3>1. /\ last_frame_id'[c] = last_frame_id[c]
            /\ got'[c] = got[c] /\ gaps'[c] = gaps[c]
        BY <1>2, <2>3, <2>6 DEF Decoded, CountsOK
      <3> QED
        BY <2>2, <3>1 DEF RunsInv, Newest, RunsMissing
    <2> QED
      BY <2>5, <2>6 DEF RunsInv
  <1>3. ASSUME NEW d \in Datagrams, Undecodable(d) PROVE RunsInv'
    BY <1>1, <1>3 DEF Undecodable
  <1>4. CASE PollAgain \/ GiveUp \/ Interrupted \/ Age
    BY <1>1, <1>4 DEF PollAgain, GiveUp, Interrupted, Leave, Age
  <1>5. NetOK
    BY DEF HarnessInv
  <1>6. CASE disordered'
    BY <1>6 DEF RunsInv
  <1> QED
    BY <1>1, <1>2, <1>3, <1>4, <1>5, <1>6, ReceiverSteps DEF Receive

LEMMA RunsInvariant == Spec => []RunsInv
  <1>1. Init => RunsInv
    <2> SUFFICES ASSUME Init, NEW c \in Senders PROVE Newest(c)
      BY DEF RunsInv
    <2>1. gaps[c] = 0 /\ last_frame_id[c] = None /\ got[c] = {}
      BY DEF Init, ReceiverInit
    <2>2. RunsMissing(c) = {}
      BY <2>1 DEF RunsMissing
    <2> QED
      BY <2>1, <2>2, FS_EmptySet DEF Newest
  <1> QED
    BY <1>1, RunsNext, HarnessInvariant, PTL DEF Spec

\* The receiver's gap count is exact while ids rise: one for each run of ids that
\* never came, however long (recv_fiducial.py:139-144).
THEOREM GapsAlwaysCountRuns == Spec => []GapsCountMissingRuns
  <1>1. RunsInv => GapsCountMissingRuns
    BY DEF RunsInv, Newest, GapsCountMissingRuns
  <1> QED
    BY <1>1, RunsInvariant, PTL
-----------------------------------------------------------------------------
(***************************************************************************)
(* Where every id went. While the receiver listens, an id of a camera of   *)
(* which none was missed has been received or is on its way.               *)
(***************************************************************************)
InFlight(c, id) == \E i \in DOMAIN net : net[i].camera = c /\ net[i].id = id

Traced(c) == listening /\ ~missed[c] =>
                \A id \in 1..frame_ids[c] : id \in got[c] \/ InFlight(c, id)

Genuine(d, ids) == d.camera \in CameraSet =>
                       d.flaw = "none" /\ d.id \in 1..ids[d.camera]

TraceInv ==
    /\ missed \in [CameraSet -> BOOLEAN]
    /\ \A i \in DOMAIN net : Genuine(net[i], frame_ids)
    /\ \A c \in CameraSet : got[c] \subseteq 1..frame_ids[c] /\ Traced(c)

LEMMA AppendKeepsFlight ==
    ASSUME net \in Seq(Datagrams), NEW d, net' = Append(net, d)
    PROVE  /\ \A c, id : InFlight(c, id) => InFlight(c, id)'
           /\ InFlight(d.camera, d.id)'
           /\ \A i \in DOMAIN net' : net'[i] = d \/ \E j \in DOMAIN net : net'[i] = net[j]
  <1>1. /\ Len(net') = Len(net) + 1 /\ DOMAIN net' = 1..(Len(net) + 1)
        /\ DOMAIN net = 1..Len(net) /\ Len(net) \in Nat
        /\ net'[Len(net) + 1] = d
        /\ \A i \in 1..Len(net) : net'[i] = net[i]
    OBVIOUS
  <1> QED
    BY <1>1 DEF InFlight

LEMMA WithoutKeepsOthers ==
    ASSUME net \in Seq(Datagrams), NEW k \in DOMAIN net, net' = Without(net, k)
    PROVE  /\ \A c, id : InFlight(c, id) /\ ~(net[k].camera = c /\ net[k].id = id)
                            => InFlight(c, id)'
           /\ \A i \in DOMAIN net' : \E j \in DOMAIN net : net'[i] = net[j]
  <1>1. /\ DOMAIN net' = 1..(Len(net) - 1)
        /\ DOMAIN net = 1..Len(net) /\ Len(net) \in Nat
        /\ \A i \in 1..(Len(net) - 1) :
              net'[i] = IF i < k THEN net[i] ELSE net[i + 1]
    BY DEF Without
  <1>2. ASSUME NEW c, NEW id, NEW i \in DOMAIN net, i # k,
               net[i].camera = c, net[i].id = id
        PROVE  InFlight(c, id)'
    <2>1. CASE i < k
      BY <1>1, <1>2, <2>1 DEF InFlight
    <2>2. CASE ~(i < k)
      <3>1. i - 1 \in DOMAIN net' /\ net'[i - 1] = net[i]
        BY <1>1, <1>2, <2>2
      <3> QED
        BY <1>2, <3>1 DEF InFlight
    <2> QED
      BY <2>1, <2>2
  <1>3. ASSUME NEW c, NEW id, InFlight(c, id),
               ~(net[k].camera = c /\ net[k].id = id)
        PROVE  InFlight(c, id)'
    <2>1. PICK i \in DOMAIN net : net[i].camera = c /\ net[i].id = id
      BY <1>3 DEF InFlight
    <2>2. i # k
      BY <1>3, <2>1
    <2> QED
      BY <1>2, <2>1, <2>2
  <1>4. ASSUME NEW i \in DOMAIN net' PROVE \E j \in DOMAIN net : net'[i] = net[j]
    <2>1. i \in 1..(Len(net) - 1) /\ i \in DOMAIN net /\ i + 1 \in DOMAIN net
      BY <1>1
    <2> QED
      BY <1>1, <2>1
  <1> QED
    BY <1>3, <1>4

\* Every camera of an iteration: its id is on its way, or is missed.
LEMMA TraceCompose ==
    ASSUME HarnessInv, TraceInv, NEW publishes \in BOOLEAN, Compose(publishes),
           UNCHANGED <<got, listening>>,
           \/ net' = net /\ Misses(Camera)
           \/ net' = Append(net, Datagram(Camera)) /\ UNCHANGED missed
    PROVE  TraceInv'
  <1> DEFINE c == Camera
  <1>1. c \in CameraSet /\ NetOK /\ net \in Seq(Datagrams)
    BY ComposeType DEF HarnessInv, NetOK
  <1>2. /\ frame_ids' = [frame_ids EXCEPT ![c] = @ + 1]
        /\ frame_ids \in [CameraSet -> Nat]
    BY <1>1 DEF Compose, FrameId, NetOK
  <1>3. Datagram(c).camera = c /\ Datagram(c).id = frame_ids'[c]
        /\ Datagram(c).flaw = "none"
    BY <1>1, <1>2 DEF Datagram, FrameId
  <1> HIDE DEF c
  <1>4. \A b \in CameraSet : 1..frame_ids[b] \subseteq 1..frame_ids'[b]
    BY <1>1, <1>2
  <1>5. missed' \in [CameraSet -> BOOLEAN]
    BY DEF TraceInv, Misses
  <1>6. ASSUME NEW i \in DOMAIN net' PROVE Genuine(net'[i], frame_ids')
    <2>1. net'[i] = Datagram(c) \/ \E j \in DOMAIN net : net'[i] = net[j]
      BY <1>1, AppendKeepsFlight DEF c
    <2>2. CASE net'[i] = Datagram(c)
      BY <1>1, <1>2, <1>3, <2>2 DEF Genuine
    <2>3. ASSUME NEW j \in DOMAIN net, net'[i] = net[j] PROVE Genuine(net'[i], frame_ids')
      BY <1>4, <2>3 DEF TraceInv, Genuine
    <2> QED
      BY <2>1, <2>2, <2>3
  <1>7. ASSUME NEW b \in CameraSet
        PROVE  (got[b] \subseteq 1..frame_ids[b] /\ Traced(b))'
    <2>1. got'[b] \subseteq 1..frame_ids'[b]
      BY <1>4 DEF TraceInv
    <2>2. CASE net' = net /\ Misses(c)
      <3>1. CASE b = c
        <4>1. missed'[b]
          BY <1>1, <2>2, <3>1 DEF Misses, TraceInv
        <4> QED
          BY <2>1, <4>1 DEF Traced
      <3>2. CASE b # c
        <4>1. missed'[b] = missed[b] /\ frame_ids'[b] = frame_ids[b]
          BY <1>1, <1>2, <2>2, <3>2 DEF Misses, TraceInv
        <4> QED
          BY <2>1, <2>2, <4>1 DEF TraceInv, Traced, InFlight
      <3> QED
        BY <2>1, <3>1, <3>2
    <2>3. CASE net' = Append(net, Datagram(c)) /\ UNCHANGED missed
      <3>1. ASSUME listening', ~missed'[b], NEW id \in 1..frame_ids'[b]
            PROVE  id \in got'[b] \/ InFlight(b, id)'
        <4>1. CASE id \in 1..frame_ids[b]
          BY <1>1, <2>3, <3>1, <4>1, AppendKeepsFlight DEF TraceInv, Traced
        <4>2. CASE id \notin 1..frame_ids[b]
          <5>1. b = c /\ id = frame_ids'[c]
            BY <1>1, <1>2, <3>1, <4>2
          <5> QED
            BY <1>1, <1>3, <2>3, <5>1, AppendKeepsFlight
        <4> QED
          BY <4>1, <4>2
      <3> QED
        BY <2>1, <3>1 DEF Traced
    <2> QED
      BY <2>2, <2>3 DEF c
  <1> QED
    BY <1>5, <1>6, <1>7 DEF TraceInv

LEMMA TraceNetwork ==
    ASSUME HarnessInv, TraceInv, NEW k \in DOMAIN net, Lose(k) \/ Deliver(k)
    PROVE  TraceInv'
  <1> DEFINE d == net[k]
  <1>1. net \in Seq(Datagrams) /\ d \in Datagrams /\ CountsOK
    BY DEF HarnessInv, NetOK, GapInv
  <1>2. d.camera \in Senders /\ Genuine(d, frame_ids) /\ UNCHANGED frame_ids
    BY <1>1 DEF Datagrams, TraceInv, Lose, Deliver
  <1>3. net' = Without(net, k) \/ net' = net
    BY DEF Lose, Deliver
  <1>4. \A i \in DOMAIN net' : \E j \in DOMAIN net : net'[i] = net[j]
    BY <1>1, <1>3, WithoutKeepsOthers
  <1>5. \A c, id : InFlight(c, id) /\ ~(d.camera = c /\ d.id = id)
                       => InFlight(c, id)'
    BY <1>1, <1>3, WithoutKeepsOthers DEF InFlight
  <1> HIDE DEF d
  <1>6. \A i \in DOMAIN net' : Genuine(net'[i], frame_ids')
    BY <1>2, <1>4 DEF TraceInv, Genuine
  <1>7. CASE Lose(k)
    <2>1. /\ UNCHANGED <<got, listening>>
          /\ IF d.camera \in CameraSet THEN Misses(d.camera) ELSE UNCHANGED missed
      BY <1>7 DEF Lose, d
    <2>2. missed' \in [CameraSet -> BOOLEAN]
      BY <2>1 DEF TraceInv, Misses
    <2>3. ASSUME NEW c \in CameraSet, ~missed'[c] PROVE ~missed[c] /\ c # d.camera
      BY <2>1, <2>3 DEF TraceInv, Misses
    <2>4. ASSUME NEW c \in CameraSet
          PROVE  (got[c] \subseteq 1..frame_ids[c] /\ Traced(c))'
      BY <1>2, <1>5, <2>1, <2>3 DEF TraceInv, Traced
    <2> QED
      BY <1>6, <2>2, <2>4 DEF TraceInv
  <1>8. CASE Deliver(k)
    <2>1. Receive(d) /\ UNCHANGED <<missed, listening>>
      BY <1>8 DEF Deliver, Receive, Undecodable, Decoded, d
    <2>2. ASSUME NEW c \in CameraSet
          PROVE  got'[c] = IF c = d.camera THEN got[c] \cup {d.id} ELSE got[c]
      <3>1. CASE Decoded(d)
        BY <1>1, <3>1, CamerasAreSenders DEF Decoded, CountsOK
      <3>2. CASE Undecodable(d)
        <4>1. d.flaw = "undecodable" /\ got' = got
          BY <3>2 DEF Undecodable
        <4> QED
          BY <1>2, <2>2, <4>1 DEF Genuine
      <3> QED
        BY <2>1, <3>1, <3>2 DEF Receive
    <2>3. ASSUME NEW c \in CameraSet
          PROVE  (got[c] \subseteq 1..frame_ids[c] /\ Traced(c))'
      <3>1. got'[c] \subseteq 1..frame_ids'[c]
        BY <1>2, <2>2 DEF TraceInv, Genuine
      <3>2. Traced(c)'
        BY <1>2, <1>5, <2>1, <2>2 DEF TraceInv, Traced
      <3> QED
        BY <3>1, <3>2
    <2> QED
      BY <1>6, <2>1, <2>3 DEF TraceInv
  <1> QED
    BY <1>7, <1>8

LEMMA TraceNext == HarnessInv /\ TraceInv /\ [Next]_vars => TraceInv'
  <1> SUFFICES ASSUME HarnessInv, TraceInv, [Next]_vars PROVE TraceInv'
    OBVIOUS
  <1>1. CASE UNCHANGED <<net, got, missed, frame_ids, listening>>
    BY <1>1 DEF TraceInv, Traced, Genuine, InFlight
  <1>2. CASE Publish
    <2>1. UNCHANGED <<got, listening, net>>
      BY <1>2 DEF Publish
    <2>2. CASE BeginIteration \/ Finish
      BY <1>1, <2>1, <2>2 DEF BeginIteration, Finish
    <2>3. CASE Withhold \/ Drop
      <3>1. PICK publishes \in BOOLEAN : Compose(publishes) /\ Misses(Camera)
        BY <2>3 DEF Withhold, Drop
      <3> QED
        BY <2>1, <3>1, TraceCompose
    <2> QED
      BY <1>2, <2>2, <2>3 DEF Publish
  <1>3. CASE Send
    BY <1>3, TraceCompose DEF Send, Arrives
  <1>4. ASSUME NEW flaw \in Strangers, NEW domain \in {"boot", "other"},
               Intrude(flaw, domain)
        PROVE  TraceInv'
    <2>1. PICK d : d.camera = Stray /\ (net' = net \/ net' = Append(net, d))
      BY <1>4 DEF Intrude, Arrives
    <2>2. UNCHANGED <<got, missed, frame_ids, listening>>
      BY <1>4 DEF Intrude
    <2>3. CASE net' = net
      BY <1>1, <2>2, <2>3
    <2>4. CASE net' = Append(net, d)
      <3>1. \A i \in DOMAIN net' : net'[i] = d \/ \E j \in DOMAIN net : net'[i] = net[j]
        BY <2>4, AppendKeepsFlight DEF HarnessInv, NetOK
      <3>2. \A c, id : InFlight(c, id) => InFlight(c, id)'
        BY <2>4, AppendKeepsFlight DEF HarnessInv, NetOK
      <3>3. \A i \in DOMAIN net' : Genuine(net'[i], frame_ids')
        BY <2>1, <2>2, <3>1, HarnessAssumption DEF TraceInv, Genuine
      <3> QED
        BY <2>2, <3>2, <3>3 DEF TraceInv, Traced
    <2> QED
      BY <2>1, <2>3, <2>4
  <1>5. CASE Network
    BY <1>5, TraceNetwork DEF Network
  <1>6. CASE Listen
    <2>1. CASE PollAgain /\ UNCHANGED net
      BY <1>1, <1>6, <2>1 DEF Listen, PollAgain
    <2>2. CASE (GiveUp \/ Interrupted) /\ net' = <<>>
      BY <1>6, <2>2 DEF Listen, GiveUp, Interrupted, Leave, TraceInv, Traced
    <2> QED
      BY <1>6, <2>1, <2>2 DEF Listen
  <1>7. CASE Tick
    BY <1>1, <1>7 DEF Tick, Age
  <1>8. CASE UNCHANGED vars
    BY <1>1, <1>8 DEF vars
  <1> QED
    BY <1>2, <1>3, <1>4, <1>5, <1>6, <1>7, <1>8 DEF Next

LEMMA CauseFound ==
    ASSUME HarnessInv, RunsInv, TraceInv, listening,
           NEW c \in CameraSet, gaps[c] > 0, ~missed[c], ~disordered
    PROVE  Overtaken(c)
  <1>1. Newest(c) /\ frame_ids[c] \in Nat /\ got[c] \subseteq 1..frame_ids[c]
    BY CamerasAreSenders DEF RunsInv, HarnessInv, NetOK, TraceInv
  <1>2. RunsMissing(c) # {}
    BY <1>1, FS_EmptySet DEF Newest
  <1>3. PICK i \in got[c] : i - 1 \notin got[c] /\ \E j \in got[c] : j < i
    BY <1>2 DEF RunsMissing
  <1>4. i - 1 \in 1..frame_ids[c] /\ i <= last_frame_id[c]
    BY <1>1, <1>3 DEF Newest
  <1>5. InFlight(c, i - 1)
    BY <1>3, <1>4 DEF TraceInv, Traced
  <1>6. last_frame_id[c] \in Int /\ i \in Int
    BY <1>1, CamerasAreSenders DEF HarnessInv, GapInv, CountsOK, None
  <1> QED
    BY <1>4, <1>5, <1>6 DEF InFlight, Overtaken

\* A gap is never counted for nothing: for any cameras, faults and buffer size a
\* camera with one has missed an id, seen one come back, or been overtaken
\* (recv_fiducial.py:142, fake_publisher.py:236, 262-270).
THEOREM GapsAlwaysHaveACause == Spec => []GapsHaveACause
  <1>1. Init => TraceInv
    <2> SUFFICES ASSUME Init PROVE TraceInv
      OBVIOUS
    <2>1. /\ net = <<>> /\ missed = [c \in CameraSet |-> FALSE]
          /\ got = [c \in Senders |-> {}] /\ frame_ids = [c \in CameraSet |-> 0]
      BY DEF Init, PublisherInit, ReceiverInit
    <2>2. \A c \in CameraSet : got[c] = {} /\ frame_ids[c] = 0
      BY <2>1, CamerasAreSenders
    <2>3. missed \in [CameraSet -> BOOLEAN]
      BY <2>1, Zenon
    <2>4. DOMAIN net = {}
      BY <2>1
    <2>5. \A c \in CameraSet : got[c] \subseteq 1..frame_ids[c] /\ Traced(c)
      BY <2>2 DEF Traced
    <2> QED
      BY <2>3, <2>4, <2>5 DEF TraceInv
  <1>2. HarnessInv /\ RunsInv /\ TraceInv => GapsHaveACause
    BY CauseFound DEF GapsHaveACause
  <1> QED
    BY <1>1, <1>2, TraceNext, HarnessInvariant, RunsInvariant, PTL DEF Spec
=============================================================================
