---------------------------- MODULE MCBusTracking ---------------------------
(* Instances of BusTrackingHandler for TLC: one bus and its driver, with   *)
(* one rider or two.                                                       *)
EXTENDS BusTrackingHandler, TLC

CONSTANTS c1, c2, c3, t1, b1, d1, r1, r2, full

Tokens == {t1}
Drivers == [t \in Tokens |-> d1]
Buses == {b1}
BusOfToken == [t \in Tokens |-> b1]
NoLevels == {}

\* One rider, and no routes to choose from.
Conns == {c1, c2}
Pages == [c \in Conns |-> IF c = c1 THEN t1 ELSE Rider]
NoRoutes == {}
NoRouteOfBus == [b \in Buses |-> None]

\* Two riders, and a route besides the bus's own.
ThreeConns == {c1, c2, c3}
ThreePages == [c \in ThreeConns |-> IF c = c1 THEN t1 ELSE Rider]
Routes == {r1, r2}
RouteOfBus == [b \in Buses |-> r1]

-----------------------------------------------------------------------------
(* A day without incidents but one, for the question what a slow rider     *)
(* costs the others: the driver (c1) and the first rider (c2) stay         *)
(* connected and keep reading, nobody falls silent and the driver does not *)
(* hide.  The second rider (c3) comes and goes, and may stop reading for   *)
(* good.  The first may subscribe to a route that is not the bus's.        *)

Steady ==
    /\ sweep.pc = "idle"
    /\ \A c \in Conn :
         /\ io[c].pc # "hide" /\ io[c].shown
         /\ Registered(c) => /\ ~ sessions[c].stale
                             /\ sessions[c].tracking = None
                             /\ sessions[c].wants \in IF c = c2 THEN {None, r2} ELSE {None}

SteadyStep ==
    /\ Steady'
    /\ \A c \in {c1, c2} : reads'[c] = "yes" /\ (sock[c] # "closed" => sock'[c] # "closed")
    /\ reads[c3] # "yes" => reads'[c3] # "yes"

SteadySpec ==
    HandlerInit /\ [][HandlerNext /\ SteadyStep]_allvars /\ WF_allvars(CasterRuns)
=============================================================================
