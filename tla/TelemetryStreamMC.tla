------------------------- MODULE TelemetryStreamMC -------------------------
(* Instances of TelemetryStream for TLC.                                   *)
EXTENDS TelemetryStream

\* What the API itself publishes is well-formed JSON; another writer need not.
AllKinds == {"heartbeat", "logon", "malformed"}

=============================================================================
