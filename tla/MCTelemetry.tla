----------------------------- MODULE MCTelemetry -----------------------------
(* Instances of Telemetry for TLC: the configurations give the constants. *)
EXTENDS Telemetry
=============================================================================
