------------------------------ MODULE MCTelemetry ------------------------------
(***************************************************************************)
(* An instance of Telemetry for TLC.                                       *)
(***************************************************************************)
EXTENDS Telemetry, TLC

\* Requests are interchangeable, to the providers too; no property is about liveness.
Symmetry == Permutations(Requests)
=============================================================================
