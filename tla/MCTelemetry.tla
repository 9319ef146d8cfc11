------------------------------ MODULE MCTelemetry ------------------------------
(***************************************************************************)
(* Values for the constants of Telemetry.                                  *)
(***************************************************************************)
EXTENDS Telemetry
CONSTANTS w1
=============================================================================
