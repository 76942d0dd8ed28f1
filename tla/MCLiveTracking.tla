--------------------------- MODULE MCLiveTracking ---------------------------
(* Instances of LiveTrackingClaims for TLC.                                *)
EXTENDS LiveTrackingClaims, TLC

CONSTANTS c1, c2, t1, b1, b2, d1, r1, full

Conns == {c1, c2}
Tokens == {t1}
Drivers == [t \in Tokens |-> d1]
BusOfToken == [t \in Tokens |-> b1]
Routes == {r1}
Levels == {full}
NoLevels == {}

\* One driver whose page reconnects: two connections with the same token.
\* No token claims b2.
Buses == {b1, b2}
RouteOfBus == [b \in Buses |-> r1]
DriverPages == [c \in Conns |-> t1]

\* A driver and a rider.
OneBus == {b1}
RouteOfOneBus == [b \in OneBus |-> r1]
MixedPages == [c \in Conns |-> IF c = c1 THEN t1 ELSE Rider]
=============================================================================
