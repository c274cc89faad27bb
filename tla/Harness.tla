------------------------------ MODULE Harness ------------------------------
(***************************************************************************)
(* The bring-up harness: fake_publisher.py and recv_fiducial.py over UDP.  *)
(* A datagram in flight may be lost, overtaken or delivered twice, and     *)
(* another sender may post one to the same port.                           *)
(***************************************************************************)
EXTENDS FakePublisher, Receiver

CONSTANTS
    Faults,         \* what the network does: "lose", "reorder", "duplicate"
    Strangers,      \* the flaws of another sender's datagrams
    MaxStrangers,   \* bound: how many of them
    MaxInFlight,    \* the socket's buffer: past it datagrams are lost
    Horizon         \* bound: the clock

VARIABLES
    net,            \* datagrams in flight, in order
    strangers,      \* datagrams another sender has still to send
    quiet,          \* history: how long the socket has handed over nothing
    gave_up         \* history: the receiver left because of its timeout

silenceVars == <<quiet, gave_up>>
vars == <<publisherVars, receiverVars, clock, missed, net, strangers, silenceVars>>

Stray == "stray"

ASSUME HarnessAssumption ==
    /\ Timeout \in Nat /\ Interval \in Nat
    /\ PollPeriod \in Nat \ {0} /\ PollLate \in Nat
    /\ Cameras \in Seq(Senders) /\ Stray \in Senders \ CameraSet
    /\ Strangers \subseteq Flaws
    /\ MaxStrangers \in Nat /\ MaxInFlight \in Nat /\ Horizon \in Nat

TypeOK ==
    /\ ReceiverTypeOK
    /\ clock \in 0..Horizon /\ began \in -1..clock
    /\ running \in BOOLEAN
    /\ frame_ids \in [CameraSet -> Nat]
    /\ net \in Seq(Datagrams)
    /\ quiet \in Nat /\ gave_up \in BOOLEAN

Init ==
    /\ PublisherInit /\ ReceiverInit
    /\ net = <<>>
    /\ strangers = MaxStrangers
    /\ quiet = 0 /\ gave_up = FALSE

\* A full buffer, or a closed socket, takes no datagram.
Room == listening /\ Len(net) < MaxInFlight

Arrives(d) == net' = IF Room THEN Append(net, d) ELSE net

Send ==
    /\ Compose(TRUE)
    /\ Arrives(Datagram(Camera))
    /\ IF Room THEN UNCHANGED missed ELSE Misses(Camera)
    /\ UNCHANGED <<receiverVars, strangers, silenceVars>>

Publish ==
    /\ BeginIteration \/ Withhold \/ Drop \/ Finish
    /\ UNCHANGED <<receiverVars, net, strangers, silenceVars>>

Intrude(flaw, domain) ==
    /\ strangers > 0
    /\ strangers' = strangers - 1
    /\ Arrives([camera |-> Stray, id |-> 0, heartbeat |-> (flaw = "heartbeat_tags"),
                flaw |-> flaw, domain |-> domain])
    /\ UNCHANGED <<clock, missed, publisherVars, receiverVars, silenceVars>>

Without(s, i) == [j \in 1..(Len(s) - 1) |-> IF j < i THEN s[j] ELSE s[j + 1]]

Lose(i) ==
    /\ "lose" \in Faults
    /\ net' = Without(net, i)
    /\ IF net[i].camera \in CameraSet THEN Misses(net[i].camera)
                                      ELSE UNCHANGED missed
    /\ UNCHANGED <<clock, publisherVars, receiverVars, strangers, silenceVars>>

Deliver(i) ==
    /\ i = 1 \/ "reorder" \in Faults
    /\ Receive(net[i])
    /\ \/ net' = Without(net, i)
       \/ "duplicate" \in Faults /\ net[i].id \notin got[net[i].camera]
          /\ UNCHANGED net
    /\ quiet' = 0
    /\ UNCHANGED <<clock, missed, publisherVars, strangers, gave_up>>

Network == \E i \in DOMAIN net : Lose(i) \/ Deliver(i)

Listen ==
    /\ \/ PollAgain /\ UNCHANGED <<net, gave_up>>
       \/ GiveUp /\ net' = <<>> /\ gave_up' = TRUE
       \/ Interrupted /\ net' = <<>> /\ UNCHANGED gave_up
    /\ UNCHANGED <<clock, missed, publisherVars, strangers, quiet>>

\* The publisher's loop is at most MaxLate late, and recvfrom() returns at most
\* PollLate past its timeout. What the receiver does with that is its own.
Tick ==
    /\ clock < Horizon
    /\ running => serving = <<>> /\ clock <= began + MaxLate
    /\ clock' = clock + 1
    /\ \/ Age /\ quiet' = quiet + 1
       \/ ~listening /\ UNCHANGED <<receiverVars, quiet>>
    /\ UNCHANGED <<missed, publisherVars, net, strangers, gave_up>>

Next ==
    \/ Publish \/ Send
    \/ \E flaw \in Strangers, domain \in {"boot", "other"} : Intrude(flaw, domain)
    \/ Network \/ Listen \/ Tick

Spec == Init /\ [][Next]_vars

-----------------------------------------------------------------------------
\* A gap is never counted for nothing: an id of that camera was lost, dropped
\* on purpose or withheld with nothing in view, or ids came back or twice, or
\* one that was overtaken is still on its way (recv_fiducial.py:142,
\* fake_publisher.py:236, 262-270).
Overtaken(c) == \E i \in DOMAIN net :
                    net[i].camera = c /\ net[i].id < last_frame_id[c]
GapsHaveACause ==
    listening => \A c \in CameraSet :
        gaps[c] > 0 => missed[c] \/ disordered \/ Overtaken(c)

\* A receiver with a timeout leaves once the socket has handed over nothing for
\* longer than that, and within one more turn of its loop: each turn looks at
\* the clock of the last datagram, whatever the turns in between were for, and
\* only a datagram restarts it (recv_fiducial.py:105-117).
GivesUpOnSilence ==
    /\ listening /\ Timeout > 0 => quiet <= Timeout + PollPeriod + PollLate
    /\ gave_up => Timeout > 0 /\ quiet > Timeout
=============================================================================
