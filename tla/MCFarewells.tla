---------------------------- MODULE MCFarewells -----------------------------
(* BusTrackingHandlerClaims on the instances of MCBusTracking.             *)
EXTENDS MCBusTracking, BusTrackingHandlerClaims

\* The same quiet day, with a driver who may leave and no broadcaster: the
\* question is what a slow rider costs the others when the bus is gone.
QuietStep ==
    /\ Steady' /\ caster' = IdleCaster
    /\ reads'[c1] = "yes" /\ reads'[c2] = "yes"

SlowRiderSpec == ClaimsInit /\ [][ClaimsNext /\ QuietStep]_cvars

\* Alerts put no marker on a map and take none off: the broadcaster looks for
\* them while no sweep is under way.
AlertsAside == alerts.pc # "idle" => sweep.pc = "idle" /\ farewells = {} /\ parting = None

FarewellsSpec == ClaimsInit /\ [][ClaimsNext /\ AlertsAside']_cvars
=============================================================================
