----------------------------- MODULE MCTelemetry -----------------------------
(* Instances of Telemetry for TLC; the cfg files choose the bounds. *)
EXTENDS Telemetry
=============================================================================
