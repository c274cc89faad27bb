---------------------------- MODULE ConfigContract ----------------------------
(***************************************************************************)
(* What the operator is promised about config.yaml, with no processes, no  *)
(* temp file and no crashes (src/include/app_config.h): it holds the       *)
(* document last saved, or that document completed, in one step. What was  *)
(* in it stays as the program reads it; what was absent gets its default.  *)
(***************************************************************************)
EXTENDS Integers

CONSTANTS
    Keys,       \* all the keys of a complete document, two named here
    Documents,  \* what an operator may save
    Default,    \* [Keys -> Int]: what an absent key means
    Ports       \* 2^16: "port" is read into that many values

VARIABLE doc    \* what the file holds

\* What a program that reads the file now sees under a key.
Meaning(k) == IF k \in DOMAIN doc THEN doc[k] ELSE Default[k]

Init == doc \in Documents

Save == doc' \in Documents

\* The file is completed because a key was missing, in one step. A port is
\* spelled out as it was read; --verbose may have switched on the logging.
Complete ==
    /\ DOMAIN doc # Keys
    /\ DOMAIN doc' = Keys
    /\ \A k \in Keys \ {"port", "verbose"} : doc'[k] = Meaning(k)
    /\ doc'["port"] = Meaning("port") % Ports
    /\ doc'["verbose"] \in {Meaning("verbose"), 1}

Next == Save \/ Complete

Spec == Init /\ [][Next]_doc
=============================================================================
