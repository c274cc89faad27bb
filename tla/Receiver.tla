------------------------------ MODULE Receiver ------------------------------
(***************************************************************************)
(* tools/recv_fiducial.py: the receiver of the bring-up harness. It counts *)
(* the gaps in each camera's frame ids, notes what breaks the wire         *)
(* contract, prints a summary, gives up after a silence, and answers with  *)
(* its exit status under --check.                                          *)
(*                                                                         *)
(* A datagram has at most one flaw; the moving averages of the summary     *)
(* decide nothing and are left out.                                        *)
(***************************************************************************)
EXTENDS Integers, FiniteSets

CONSTANTS
    Senders,      \* the camera ids datagrams may carry
    Timeout,      \* --timeout, in clock ticks; 0 for ever
    Interval,     \* --interval, in clock ticks
    Raw,          \* --raw: no summaries
    PollPeriod,   \* sock.settimeout()
    PollLate      \* bound: how late recvfrom() may return from its timeout

\* "undecodable" ends the datagram; a flaw of a detection is noted behind the
\* gap count.
Flaws == {"none", "undecodable", "no_camera", "no_domain", "stamps",
          "oversized", "heartbeat_tags", "bad_tag"}
Datagrams == [camera : Senders, id : Nat, heartbeat : BOOLEAN, flaw : Flaws,
              domain : {"boot", "other"}]

VARIABLES
    listening,
    last_frame_id,   \* per camera; None before the first
    gaps,
    problems,        \* what has been noted
    clock_domains,
    total,           \* whether any datagram came
    silence,         \* now - t_last_rx
    unsummed,        \* now - t_last_summary, up to Interval
    polled,          \* the time since recvfrom() was called
    status,          \* of --check
    got,             \* history: the ids received, per camera
    flawed,          \* history: a flawed datagram was received
    disordered       \* history: an id at or below one received before

receiverVars == <<listening, last_frame_id, gaps, problems, clock_domains, total,
                  silence, unsummed, polled, status, got, flawed, disordered>>

None == -1

ReceiverTypeOK ==
    /\ listening \in BOOLEAN
    /\ last_frame_id \in [Senders -> Nat \cup {None}]
    /\ gaps \in [Senders -> Nat]
    /\ problems \subseteq (Flaws \ {"none"}) \cup {"domains"}
    /\ clock_domains \subseteq {"boot", "other"}
    /\ total \in BOOLEAN
    /\ silence \in Nat /\ unsummed \in 0..Interval
    /\ polled \in 0..(PollPeriod + PollLate)
    /\ status \in {"none", "passed", "failed"}
    /\ got \in [Senders -> SUBSET Nat]
    /\ flawed \in BOOLEAN /\ disordered \in BOOLEAN

ReceiverInit ==
    /\ listening = TRUE
    /\ last_frame_id = [c \in Senders |-> None]
    /\ gaps = [c \in Senders |-> 0]
    /\ problems = {} /\ clock_domains = {} /\ total = FALSE
    /\ silence = 0 /\ unsummed = 0 /\ polled = 0
    /\ status = "none"
    /\ got = [c \in Senders |-> {}]
    /\ flawed = FALSE /\ disordered = FALSE

-----------------------------------------------------------------------------
\* MUTANT of IsGap: an id that goes back is none.
IsGapAhead(c, id) == last_frame_id[c] # None /\ id > last_frame_id[c] + 1

\* MUTANT of IsGap: the first id of a camera is one.
IsGapFirst(c, id) == id # last_frame_id[c] + 1

\* The first id of a camera is taken as it comes; after that any other than
\* the next one counts.
IsGap(c, id) == last_frame_id[c] # None /\ id # last_frame_id[c] + 1

\* MUTANT of LastId: only an id that follows is remembered.
LastIdInStep(c, id) == IF IsGap(c, id) THEN last_frame_id[c] ELSE id

LastId(c, id) == id

\* MUTANT of SinceRx: every turn of the loop restarts the timer.
SinceRxAnew(received) == 0

\* t_last_rx once recvfrom() has returned, with a datagram or without.
SinceRx(received) == IF received THEN 0 ELSE silence

Seen == /\ total' = TRUE
        /\ silence' = SinceRx(TRUE)

\* `continue`: this turn of the loop has no summary.
Undecodable(d) ==
    /\ listening /\ d.flaw = "undecodable"
    /\ Seen
    /\ problems' = problems \cup {"undecodable"}
    /\ polled' = 0
    /\ flawed' = TRUE
    /\ UNCHANGED <<listening, last_frame_id, gaps, clock_domains, unsummed,
                   status, got, disordered>>

SummaryDue == ~Raw /\ unsummed >= Interval

\* The end of a turn, with what was noted and the domains seen up to it: the
\* summary, and recvfrom() anew. Only here are two clock domains a problem.
EndTurn(noted, domains) ==
    /\ clock_domains' = domains
    /\ problems' = IF SummaryDue /\ Cardinality(domains) > 1
                   THEN noted \cup {"domains"} ELSE noted
    /\ unsummed' = IF SummaryDue THEN 0 ELSE unsummed
    /\ polled' = 0

Noted(d) == {d.flaw} \ {"none"}

Decoded(d) ==
    LET c == d.camera
    IN  /\ listening /\ d.flaw # "undecodable"
        /\ Seen
        /\ gaps' = [gaps EXCEPT ![c] = IF IsGap(c, d.id) THEN @ + 1 ELSE @]
        /\ last_frame_id' = [last_frame_id EXCEPT ![c] = LastId(c, d.id)]
        /\ EndTurn(problems \cup Noted(d),
                   IF d.flaw = "no_domain" THEN clock_domains
                                           ELSE clock_domains \cup {d.domain})
        /\ got' = [got EXCEPT ![c] = @ \cup {d.id}]
        /\ flawed' = (flawed \/ d.flaw # "none")
        /\ disordered' = (disordered \/ \E id \in got[c] : d.id <= id)
        /\ UNCHANGED <<listening, status>>

Receive(d) == Undecodable(d) \/ Decoded(d)

\* MUTANT of Verdict: a run without a datagram is a clean one.
VerdictOfProblems == IF problems # {} THEN "failed" ELSE "passed"

Verdict == IF problems # {} \/ ~total THEN "failed" ELSE "passed"

Leave ==
    /\ listening' = FALSE
    /\ status' = Verdict
    /\ UNCHANGED <<last_frame_id, gaps, problems, clock_domains, total, silence,
                   unsummed, polled, got, flawed, disordered>>

SilentTooLong == Timeout > 0 /\ silence > Timeout

\* recvfrom() raised socket.timeout: the only place where the silence is
\* looked at.
PollTimesOut == listening /\ polled >= PollPeriod

GiveUp ==
    /\ PollTimesOut /\ SilentTooLong
    /\ Leave

PollAgain ==
    /\ PollTimesOut /\ ~SilentTooLong
    /\ silence' = SinceRx(FALSE)
    /\ EndTurn(problems, clock_domains)
    /\ UNCHANGED <<listening, last_frame_id, gaps, total, status, got, flawed,
                   disordered>>

Interrupted ==
    /\ listening
    /\ Leave

\* A tick of the clock, for a receiver inside recvfrom().
Age ==
    /\ listening
    /\ polled < PollPeriod + PollLate
    /\ silence' = silence + 1
    /\ unsummed' = IF unsummed < Interval THEN unsummed + 1 ELSE unsummed
    /\ polled' = polled + 1
    /\ UNCHANGED <<listening, last_frame_id, gaps, problems, clock_domains, total,
                   status, got, flawed, disordered>>

-----------------------------------------------------------------------------
\* No gap, no loss: a camera whose ids had no gap has given every id from its
\* first to its last, whatever the network did (recv_fiducial.py:139-144).
NoGapNoLoss ==
    \A c \in Senders :
        gaps[c] = 0 =>
            \A i, j \in got[c] : i..j \subseteq got[c]

\* While ids only rise, the count is exact: one gap for each run of ids that
\* never came (recv_fiducial.py:139-144).
RunsMissing(c) == {i \in got[c] : i - 1 \notin got[c]
                                  /\ \E j \in got[c] : j < i}
GapsCountMissingRuns ==
    ~disordered => \A c \in Senders : gaps[c] = Cardinality(RunsMissing(c))

\* --check passes a run only if there was one and every datagram of it kept the
\* contract (recv_fiducial.py:224-236).
PassMeansClean ==
    status # "none" =>
        (status = "passed" => total /\ ~flawed)
        /\ (~flawed /\ total /\ Cardinality(clock_domains) <= 1
              => status = "passed")
=============================================================================
