----------------------------- MODULE MCHarness -----------------------------
\* One synthetic camera and a stranger on the same port.
EXTENDS Harness

MCCameras == <<"down">>
MCSenders == {"down", Stray}
MCProfiles == {"static", "intermittent", "heartbeat"}
=============================================================================
