----------------------------- MODULE MCTelemetry -----------------------------
(* Small instances of Telemetry: commuters who look at the first route.       *)
EXTENDS Telemetry

CONSTANT r1

MCRouteOf == [w \in Watchers |-> r1]
=============================================================================
