--------------------------- MODULE CalibrateMain ---------------------------
(***************************************************************************)
(* main() of tools/calibrate_camera.py from the command line to the exit   *)
(* status: where the views come from, the capture loop inside its try, the *)
(* release of the camera on a thread that may never return, and what is    *)
(* written. The handler threads of the preview and the stdin thread run    *)
(* beside it until the process exits.                                      *)
(*                                                                         *)
(* A solve is good (rms <= cutoff), poor, or raises cv2.error; the numbers *)
(* themselves belong to OpenCV.                                            *)
(***************************************************************************)
EXTENDS GuidedCapture

CONSTANTS
    MinViews,     \* 6
    Pipelines,    \* pipelines --gst may name, as sequences of Elements
    MaxFiles      \* bound: files matched by --images

ASSUME MainAssumption == MinViews \in Nat /\ MaxFiles \in Nat

VARIABLES
    stage,        \* where main() is
    command,      \* which source, and whether --sensor, was asked for
    pipeline,     \* args.gst, until it is opened
    files,        \* image files still to be read
    sized,        \* img_size is not None
    saved,        \* *_points.npz: "no", "yes", or "failed" (OSError)
    verdict,      \* "none", "good" or "poor"
    written,      \* the result file was written
    status        \* the exit status, or "running"

mainVars == <<stage, command, pipeline, files, sized, saved, verdict, written,
              status>>
vars == <<mainVars, captureVars, serverVars>>

Stages == {"resolving", "images", "preview", "opening", "sampling",
           "releasing", "closing", "counting", "saving", "solving", "writing",
           "exited"}
Commands == [sensor : BOOLEAN,
             source : {"none", "gst", "images", "video", "points"}]

\* "appsink" is an unnamed appsink, which GStreamer names appsink0; "sink" is
\* the name the service looks up.
Elements == {"source", "appsink", "opencvsink", "sink"}

ASSUME PipelineAssumption == Pipelines \subseteq Seq(Elements)

TypeOK ==
    /\ CaptureTypeOK /\ ServerTypeOK
    /\ stage \in Stages /\ command \in Commands
    /\ pipeline \in Seq(Elements)
    /\ files \in 0..MaxFiles
    /\ sized \in BOOLEAN
    /\ saved \in {"no", "yes", "failed"}
    /\ verdict \in {"none", "good", "poor"}
    /\ written \in BOOLEAN
    /\ status \in {"running", "passed", "failed"}

Init ==
    /\ stage = "resolving" /\ command \in Commands
    /\ pipeline = <<>> /\ files = 0
    /\ sized = FALSE
    /\ saved = "no" /\ verdict = "none" /\ written = FALSE
    /\ status = "running"
    /\ CaptureInit /\ ServerInit

-----------------------------------------------------------------------------
(***************************************************************************)
(* The pipeline.                                                           *)
(***************************************************************************)
Sinks(p) == {i \in DOMAIN p : p[i] # "source"}

\* OpenCV scans for an element whose name contains "appsink" or "opencvsink".
OpenCVFinds(p) == \E i \in Sinks(p) : p[i] # "sink"

\* MUTANT of normalise_appsink: a pipeline is taken as it was given.
normalise_not(p) == p

\* Only the first appsink is looked at, and renamed if OpenCV would miss it.
normalise_appsink(p) ==
    [i \in DOMAIN p |->
        IF p[i] = "sink" /\ \A j \in Sinks(p) : i <= j THEN "opencvsink"
                                                      ELSE p[i]]

build_pipeline == <<"source", "opencvsink">>

-----------------------------------------------------------------------------
(***************************************************************************)
(* The stages.                                                             *)
(***************************************************************************)
Exit(code) == stage' = "exited" /\ status' = code

Enter(next) == stage' = next /\ UNCHANGED status

Threads == <<captureVars, serverVars>>

Refused(c) ==
    \/ c.sensor /\ c.source \in {"gst", "images", "video"}
    \/ ~c.sensor /\ c.source = "none"

\* --sensor may also name a mode the sensor has not.
Refuse ==
    /\ stage = "resolving"
    /\ Refused(command) \/ command.sensor
    /\ Exit("failed")
    /\ UNCHANGED <<command, pipeline, files, sized, saved,
                   verdict, written, Threads>>

\* A saved file holds any number of detections of one size, and wins over a
\* sensor.
LoadPoints(n) ==
    /\ stage = "resolving" /\ ~Refused(command)
    /\ command.source = "points"
    /\ Enter("counting")
    /\ views' = n
    /\ sized' = TRUE
    /\ UNCHANGED <<command, pipeline, files, saved, verdict, written, pc, video,
                   preview, queue, since_accept, waited, forfeited, controlVars,
                   serverVars>>

ListImages(n) ==
    /\ stage = "resolving" /\ ~Refused(command)
    /\ command.source = "images"
    /\ Enter("images")
    /\ files' = n
    /\ UNCHANGED <<command, pipeline, sized, saved, verdict,
                   written, Threads>>

\* One file of image_capture(): unreadable, or read with or without a board.
ReadImage(readable, found) ==
    /\ stage = "images" /\ files > 0
    /\ files' = files - 1
    /\ sized' = (sized \/ readable)
    /\ views' = IF readable /\ found THEN views + 1 ELSE views
    /\ UNCHANGED <<stage, command, pipeline, saved, verdict, written, status, pc,
                   video, preview, queue, since_accept, waited, forfeited,
                   controlVars, serverVars>>

ImagesRead ==
    /\ stage = "images" /\ files = 0
    /\ Enter("counting")
    /\ UNCHANGED <<command, pipeline, files, sized, saved,
                   verdict, written, Threads>>

ResolveCapture(p) ==
    /\ stage = "resolving" /\ ~Refused(command)
    /\ command.source \notin {"points", "images"}
    /\ Enter("preview")
    /\ pipeline' = IF command.source = "video" THEN <<>>
                   ELSE IF command.sensor THEN build_pipeline ELSE p
    /\ video' = (command.source = "video")
    /\ UNCHANGED <<command, files, sized, saved, verdict, written,
                   pc, preview, queue, views, since_accept, waited, forfeited,
                   controlVars, serverVars>>

\* --preview-port 0, or a port that cannot be bound, leaves no preview.
StartPreview(bound) ==
    /\ stage = "preview"
    /\ Enter("opening")
    /\ preview' = bound
    /\ IF bound THEN StartServer ELSE UNCHANGED serverVars
    /\ pipeline' = normalise_appsink(pipeline)
    /\ UNCHANGED <<command, files, sized, saved, verdict, written,
                   pc, video, queue, views, since_accept, waited, forfeited,
                   controlVars>>

\* The capture opens only if OpenCV finds a sink, and the camera may refuse.
OpenCapture ==
    /\ stage = "opening"
    /\ video \/ OpenCVFinds(pipeline)
    /\ Enter("sampling")
    /\ BeginCapture
    /\ pipeline' = <<>>
    /\ UNCHANGED <<command, files, sized, saved, verdict, written,
                   video, preview, serverVars>>

OpenRefused ==
    /\ stage = "opening"
    /\ Exit("failed")
    /\ UNCHANGED <<command, pipeline, files, sized, saved,
                   verdict, written, Threads>>

\* guided_capture(): the first frame's size is the size of every view.
SampleRecords ==
    /\ stage = "sampling"
    /\ sized' = (sized \/ pc' = "deciding")
    /\ UNCHANGED <<stage, command, pipeline, files, saved, verdict, written,
                   status>>

Sample ==
    \/ Loop /\ SampleRecords
    \/ Operator /\ SampleRecords
    \/ Tick /\ SampleRecords

\* The loop returned, or raised: the finally clause starts the releaser.
LeaveLoop ==
    /\ stage = "sampling" /\ ~Running
    /\ Enter("releasing")
    /\ sized' = (sized /\ pc # "interrupted")
    /\ UNCHANGED <<command, pipeline, files, saved, verdict, written,
                   Threads>>

\* MUTANT of ReleaserJoined: join() without a timeout.
ReleaserJoinedWhenDone(returned) == returned

\* The releaser is joined when release() has returned or after 5 s.
ReleaserJoined(returned) == TRUE

Release(returned) ==
    /\ stage = "releasing"
    /\ ReleaserJoined(returned)
    /\ Enter("closing")
    /\ UNCHANGED <<command, pipeline, files, sized, saved,
                   verdict, written, Threads>>

\* preview.close() notifies the watchers, then stops the server; a SystemExit
\* of the loop goes on to end the process.
ClosePreview ==
    /\ stage = "closing" /\ preview
    /\ IF ~closed THEN /\ close
                       /\ UNCHANGED <<stage, status>>
       ELSE /\ Shutdown
            /\ IF pc = "gave_up" THEN Exit("failed") ELSE Enter("counting")
    /\ UNCHANGED <<command, pipeline, files, sized, saved,
                   verdict, written, captureVars>>

NoPreviewToClose ==
    /\ stage = "closing" /\ ~preview
    /\ IF pc = "gave_up" THEN Exit("failed") ELSE Enter("counting")
    /\ UNCHANGED <<command, pipeline, files, sized, saved,
                   verdict, written, Threads>>

Enough == views >= MinViews /\ sized

\* MUTANT of AfterCount: the detections are not persisted before the solve.
AfterCountSolve == "solving"

\* Detections are persisted before the solve, unless they were just loaded.
AfterCount == IF command.source = "points" THEN "solving" ELSE "saving"

Count ==
    /\ stage = "counting"
    /\ IF Enough THEN Enter(AfterCount) ELSE Exit("failed")
    /\ UNCHANGED <<command, pipeline, files, sized, saved,
                   verdict, written, Threads>>

SavePoints(ok) ==
    /\ stage = "saving"
    /\ saved' = IF ok THEN "yes" ELSE "failed"
    /\ Enter("solving")
    /\ UNCHANGED <<command, pipeline, files, sized, verdict,
                   written, Threads>>

Solve(result) ==
    /\ stage = "solving"
    /\ verdict' = result
    /\ IF result = "none" THEN Exit("failed") ELSE Enter("writing")
    /\ UNCHANGED <<command, pipeline, files, sized, saved,
                   written, Threads>>

\* A poor result is written too, and only the status tells; an OSError here
\* ends the process.
WriteResult(ok) ==
    /\ stage = "writing"
    /\ written' = ok
    /\ Exit(IF ok /\ verdict = "good" THEN "passed" ELSE "failed")
    /\ UNCHANGED <<command, pipeline, files, sized, saved,
                   verdict, Threads>>

\* Ctrl-C outside the try ends the process.
Abort ==
    /\ stage \notin {"sampling", "exited"}
    /\ Exit("failed")
    /\ UNCHANGED <<command, pipeline, files, sized, saved,
                   verdict, written, Threads>>

\* Handler threads and browsers, until the process is gone.
Watch ==
    /\ stage # "exited"
    /\ \E w \in Watchers : Handler(w) \/ Browser(w)
    /\ UNCHANGED <<mainVars, captureVars>>

Exited == stage = "exited" /\ UNCHANGED vars

Resolve ==
    \/ Refuse
    \/ \E n \in 0..MinViews : LoadPoints(n)
    \/ \E n \in 0..MaxFiles : ListImages(n)
    \/ \E p \in Pipelines : ResolveCapture(p)

Images ==
    \/ \E readable, found \in BOOLEAN : ReadImage(readable, found)
    \/ ImagesRead

Open == (\E bound \in BOOLEAN : StartPreview(bound)) \/ OpenCapture \/ OpenRefused

Close == ClosePreview \/ NoPreviewToClose

\* What becomes of the views.
Record ==
    \/ Count
    \/ \E ok \in BOOLEAN : SavePoints(ok)
    \/ \E result \in {"good", "poor", "none"} : Solve(result)
    \/ \E ok \in BOOLEAN : WriteResult(ok)

\* From the end of the loop to the exit.
Finish ==
    \/ LeaveLoop
    \/ \E returned \in BOOLEAN : Release(returned)
    \/ Close
    \/ Record

Next == Resolve \/ Images \/ Open \/ Sample \/ Finish \/ Abort \/ Watch \/ Exited

\* The interpreter runs the main thread on and time passes; nobody promises
\* frames, an operator, a browser, or a release() that returns.
Fairness ==
    /\ WF_vars((GiveUpOpening \/ Step) /\ SampleRecords)
    /\ WF_vars(Tick /\ SampleRecords)
    /\ WF_vars(LeaveLoop \/ Release(FALSE) \/ Close \/ Record)

Spec == Init /\ [][Next]_vars /\ Fairness

-----------------------------------------------------------------------------
\* A pipeline with an appsink is never refused for the name of the sink, the
\* one the service's own configuration gives it included
\* (calibrate_camera.py:222-240).
SinkIsFound ==
    stage = "opening" /\ Sinks(pipeline) # {} => OpenCVFinds(pipeline)

\* A failed run is worth keeping: once there were enough views, a solve or a
\* write that fails leaves their detections on disk, unless saving them failed
\* or they came from there (calibrate_camera.py:1634-1649).
FailedRunIsKept ==
    (status = "failed" /\ verdict # "none") \/ stage = "solving"
        => saved # "no" \/ command.source = "points"

\* A wedged release() does not strand the views: once the loop is left, however
\* it was, the process ends (calibrate_camera.py:1612-1625).
ViewsNotStranded == (stage = "sampling" /\ ~Running) ~> (stage = "exited")

\* A live source that never delivers is given up (calibrate_camera.py:1310-1315).
NoFrameGivesUp ==
    (stage = "sampling" /\ queue = NoQueue /\ ~video)
        ~> (queue # NoQueue \/ ~Running)

\* A steady effort completes: an operator who goes on holding the board in the
\* box at the largest fill this camera can reach, above the floor, gets every
\* target done, whatever the tables ask for (calibrate_camera.py:836-875). Only
\* a finite number of frames can be judged so.
BestFill == CHOOSE f \in Fills : \A g \in Fills : g <= f
SteadyEffortCompletes ==
    BestFill >= FillFloor /\ AdaptAfter > 0 => <>[][~Judge(TRUE, BestFill)]_vars

\* How it comes about, step by step. While a target is worked on, what was
\* achieved on it is kept and its threshold only comes down; and once the
\* timers have run, a frame as good as the best so far is a view, or counts
\* towards the MinHits detections after which every such frame is one
\* (calibrate_camera.py:836-888, 1362-1368).
EffortIsKept ==
    queue'.index = queue.index =>
        /\ queue'.in_box_hits >= queue.in_box_hits
        /\ queue'.on_target >= queue.on_target
        /\ queue'.best_fill >= queue.best_fill
        /\ queue'.fill_pct <= queue.fill_pct

TimersRun == since_accept >= Settle /\ queue.on_target >= AdaptAfter

EffortCounts ==
    \A fill \in Fills :
        TimersRun /\ Judge(TRUE, fill) /\ fill >= Larger(FillFloor, queue.best_fill)
            => views' = views + 1 \/ queue'.in_box_hits > queue.in_box_hits

EffortPays ==
    [][queue # NoQueue => EffortIsKept /\ (AdaptAfter > 0 => EffortCounts)]_vars
=============================================================================
