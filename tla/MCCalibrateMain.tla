-------------------------- MODULE MCCalibrateMain --------------------------
\* A small calibration: two targets, of which the first asks for more than this
\* camera can reach, a frame too small for any target, and a browser.
EXTENDS CalibrateMain

MCTargetLists == {<<[fill |-> 30, n |-> 2], [fill |-> 20, n |-> 1]>>, <<>>}
MCPipelines == {<<"source", "sink">>, <<"source", "appsink">>, <<"source">>,
                <<"sink", "opencvsink">>}
=============================================================================
