---------------------------- MODULE MCRiderPage -----------------------------
(* RiderPage for TLC: two buses on two routes, and a rider at kilometre 2. *)
EXTENDS RiderPage, TLC

CONSTANTS b1, b2, r1, r2

Buses == {b1, b2}
Routes == {r1, r2}
Cards == b1 :> r1 @@ b2 :> r2
Ways == r1 :> <<0, 1, 3>> @@ r2 :> <<0, 3>>
\* The road of r1 first goes back: a bus at kilometre 1 is further away on it.
Snapped == r1 :> <<1, 0, 3>> @@ r2 :> <<0, 3>>
=============================================================================
