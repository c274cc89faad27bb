---------------------------- MODULE MCConfigHeal ----------------------------
(***************************************************************************)
(* ConfigHeal for TLC: a few invocations, ports modulo 8 instead of 2^16,  *)
(* and the documents an operator may have left: a complete one, two with a *)
(* key missing, one that was never calibrated and one whose port does not  *)
(* fit.                                                                    *)
(***************************************************************************)
EXTENDS ConfigHeal, TLC

CONSTANTS p1, p2, p3   \* the invocations

Calibrated == [fx |-> 1, verbose |-> 0, port |-> 2]
NoVerbose  == [fx |-> 1, port |-> 3]
NoPort     == [fx |-> 1, verbose |-> 1]
NoFx       == [verbose |-> 0, port |-> 2]
WidePort   == [fx |-> 1, port |-> 10]

InRange == {Calibrated, NoVerbose, NoPort, NoFx}
AnyPort == InRange \cup {WidePort}

AnyCommand == [check : BOOLEAN, heal : BOOLEAN, verbose : BOOLEAN]
NotVerbose == {a \in AnyCommand : ~a.verbose}

Invocation == Permutations({p1, p2, p3})
=============================================================================
