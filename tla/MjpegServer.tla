---------------------------- MODULE MjpegServer ----------------------------
(***************************************************************************)
(* MjpegServer of tools/calibrate_camera.py: one latest-frame slot under a *)
(* condition variable, and a thread per browser that watches it. The       *)
(* capture loop publishes and closes; a watcher waits for a frame newer    *)
(* than the last one it took.                                              *)
(*                                                                         *)
(* _seq is compared with a watcher's last_seq for equality only, and never *)
(* goes back, so the set of watchers for which they differ stands for all  *)
(* of these numbers. Everything done while _cond is held is one step.      *)
(***************************************************************************)
EXTENDS Naturals, FiniteSets

CONSTANT Watchers      \* the browsers that may open /stream.mjpg

VARIABLES
    serving,    \* serve_forever() is running
    jpeg,       \* _jpeg is not None
    unseen,     \* the watchers whose last_seq differs from _seq
    closed,     \* _closed
    watcher     \* per watcher: where its handler thread is

serverVars == <<serving, jpeg, unseen, closed, watcher>>

\* "testing": about to test the wait's condition; "waiting": in _cond.wait();
\* "writing": writing a frame to a browser that may be slow.
Places == {"away", "testing", "waiting", "writing", "gone"}

ServerTypeOK ==
    /\ serving \in BOOLEAN
    /\ jpeg \in BOOLEAN
    /\ unseen \subseteq Watchers
    /\ closed \in BOOLEAN
    /\ watcher \in [Watchers -> Places]

\* last starts at -1, which no _seq equals.
ServerInit ==
    /\ serving = FALSE
    /\ jpeg = FALSE
    /\ unseen = Watchers
    /\ closed = FALSE
    /\ watcher = [w \in Watchers |-> "away"]

-----------------------------------------------------------------------------
(***************************************************************************)
(* The capture loop's side.                                                *)
(***************************************************************************)

\* notify_all: every waiting watcher will test its condition again.
Woken == [w \in Watchers |-> IF watcher[w] = "waiting" THEN "testing"
                                                       ELSE watcher[w]]

StartServer ==
    /\ serving' = TRUE
    /\ UNCHANGED <<jpeg, unseen, closed, watcher>>

\* A frame that imencode cannot compress is not published.
publish ==
    \/ /\ jpeg' = TRUE
       /\ unseen' = Watchers
       /\ watcher' = Woken
       /\ UNCHANGED <<serving, closed>>
    \/ UNCHANGED serverVars

\* MUTANT of close: tells nobody.
closeSilently ==
    /\ closed' = TRUE
    /\ UNCHANGED <<serving, jpeg, unseen, watcher>>

close ==
    /\ closed' = TRUE
    /\ watcher' = Woken
    /\ UNCHANGED <<serving, jpeg, unseen>>

\* httpd.shutdown() returns once serve_forever() has.
Shutdown ==
    /\ serving' = FALSE
    /\ UNCHANGED <<jpeg, unseen, closed, watcher>>

-----------------------------------------------------------------------------
(***************************************************************************)
(* A watcher's handler thread.                                             *)
(***************************************************************************)
Moves(w, place) == watcher' = [watcher EXCEPT ![w] = place]

Connect(w) ==
    /\ serving
    /\ watcher[w] = "away"
    /\ Moves(w, "testing")
    /\ UNCHANGED <<serving, jpeg, unseen, closed>>

\* What the loop of _wait tests, negated: there is a frame w has not had.
HasNews(w) == jpeg /\ w \in unseen

\* _wait returns None, and do_GET ends the stream.
Dismiss(w) ==
    /\ watcher[w] = "testing"
    /\ closed
    /\ Moves(w, "gone")
    /\ UNCHANGED <<serving, jpeg, unseen, closed>>

\* _wait returns the newest frame. Without one, jpeg is None and do_GET takes
\* it for the end of the stream.
Take(w) ==
    /\ watcher[w] = "testing"
    /\ ~closed
    /\ HasNews(w)
    /\ Moves(w, IF jpeg THEN "writing" ELSE "gone")
    /\ unseen' = unseen \ {w}
    /\ UNCHANGED <<serving, jpeg, closed>>

FallAsleep(w) ==
    /\ watcher[w] = "testing"
    /\ ~closed
    /\ ~HasNews(w)
    /\ Moves(w, "waiting")
    /\ UNCHANGED <<serving, jpeg, unseen, closed>>

\* The 5 s of _cond.wait(timeout) pass: the condition is tested again.
WaitTimesOut(w) ==
    /\ watcher[w] = "waiting"
    /\ Moves(w, "testing")
    /\ UNCHANGED <<serving, jpeg, unseen, closed>>

Written(w) ==
    /\ watcher[w] = "writing"
    /\ Moves(w, "testing")
    /\ UNCHANGED <<serving, jpeg, unseen, closed>>

\* BrokenPipeError or ConnectionResetError.
BrowserLeft(w) ==
    /\ watcher[w] = "writing"
    /\ Moves(w, "gone")
    /\ UNCHANGED <<serving, jpeg, unseen, closed>>

Handler(w) == Dismiss(w) \/ Take(w) \/ FallAsleep(w) \/ WaitTimesOut(w)

\* How fast a browser reads is up to the browser.
Browser(w) == Connect(w) \/ Written(w) \/ BrowserLeft(w)

-----------------------------------------------------------------------------
\* No watcher sleeps through a frame it has not had or through the close: the
\* test and the wait are one critical section, and both publish and close
\* notify everyone in theirs. Without it the preview freezes for up to the 5 s
\* of the timeout, or a browser outlives the run (calibrate_camera.py:1019-1042).
NobodyOversleeps ==
    \A w \in Watchers :
        watcher[w] = "waiting" => ~closed /\ ~HasNews(w)

\* A browser that connects before the first frame is kept, not turned away
\* (calibrate_camera.py:1014-1017): while the server is open a watcher leaves
\* only from a write.
KeptUntilClosed ==
    [][\A w \in Watchers :
        watcher[w] = "testing" /\ watcher'[w] = "gone" => closed]_serverVars
=============================================================================
