-------------------------- MODULE StreamContract --------------------------
(***************************************************************************)
(* What one stream promises its operator and its consumer, with no clock,  *)
(* no camera and no detector: it is down, live or over; ids are spent one  *)
(* at a time and only while it is live; every id spent is a datagram that  *)
(* left or one that the kernel refused; going down is a restart and        *)
(* restarts never touch the numbering; nothing follows the end.            *)
(***************************************************************************)
EXTENDS Naturals

CONSTANT Networked   \* BOOLEAN: does this stream have a socket at all?

VARIABLES phase, ids, left, refused, restarts

contractVars == <<phase, ids, left, refused, restarts>>

Init ==
    /\ phase = "down"
    /\ ids = 0 /\ left = 0 /\ refused = 0 /\ restarts = 0

GoLive ==
    /\ phase = "down"
    /\ phase' = "live"
    /\ UNCHANGED <<ids, left, refused, restarts>>

GoDown ==
    /\ phase = "live"
    /\ phase' = "down"
    /\ restarts' = restarts + 1
    /\ UNCHANGED <<ids, left, refused>>

Publish ==
    /\ phase = "live"
    /\ ids' = ids + 1
    /\ \/ Networked /\ left' = left + 1 /\ UNCHANGED refused
       \/ Networked /\ refused' = refused + 1 /\ UNCHANGED left
       \/ ~Networked /\ UNCHANGED <<left, refused>>
    /\ UNCHANGED <<phase, restarts>>

End ==
    /\ phase # "over"
    /\ phase' = "over"
    /\ UNCHANGED <<ids, left, refused, restarts>>

Next == GoLive \/ GoDown \/ Publish \/ End

Spec == Init /\ [][Next]_contractVars
=============================================================================
