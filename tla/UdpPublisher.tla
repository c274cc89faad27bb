--------------------------- MODULE UdpPublisher ---------------------------
(***************************************************************************)
(* One stream's UDP socket (src/src/udp_publisher.cpp). A datagram is      *)
(* stamped when it is built and handed to sendto once: there is no retry   *)
(* and nothing tells the caller that sendto failed. The proto3 message has *)
(* no required field, so serialisation cannot fail and is not a branch.    *)
(***************************************************************************)
EXTENDS Integers

CONSTANT SendFaults   \* may sendto return an error (ENETUNREACH, ...)?

ASSUME PublisherAssumption == SendFaults \in BOOLEAN

VARIABLES
    sent,          \* datagrams the kernel accepted
    send_errors_,  \* sendto failures, counted and otherwise ignored
    wire           \* the last accepted datagram, NoDatagram before the first

publisherVars == <<sent, send_errors_, wire>>

\* nexus.FiducialFrame, reduced to what a consumer's checks depend on.
Datagram == [frame_id : Nat, capture : Int, publish : Int,
             heartbeat : BOOLEAN]

\* frame_id starts at 1, so 0 cannot be a datagram's.
NoDatagram == [frame_id |-> 0, capture |-> 0, publish |-> 0,
               heartbeat |-> FALSE]

PublisherTypeOK ==
    /\ sent \in Nat
    /\ send_errors_ \in Nat
    /\ wire \in Datagram

PublisherInit ==
    /\ sent = 0 /\ send_errors_ = 0
    /\ wire = NoDatagram

doSend(d) ==
    \/ /\ sent' = sent + 1
       /\ wire' = d
       /\ UNCHANGED send_errors_
    \/ /\ SendFaults
       /\ send_errors_' = send_errors_ + 1
       /\ UNCHANGED <<sent, wire>>

\* fillFrameHeader reads the clock itself: publish is later than capture by
\* whatever detection took.
send(capture, id, clock) ==
    doSend([frame_id |-> id, capture |-> capture, publish |-> clock,
            heartbeat |-> FALSE])

sendHeartbeat(capture, id, clock) ==
    doSend([frame_id |-> id, capture |-> capture, publish |-> clock,
            heartbeat |-> TRUE])
=============================================================================
