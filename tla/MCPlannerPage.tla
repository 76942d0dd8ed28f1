--------------------------- MODULE MCPlannerPage ----------------------------
(* PlannerPage for TLC: three routes with stops a transfer apart.  The      *)
(* second one goes past the others' stops, the third one out and home.      *)
EXTENDS PlannerClaims, TLC

Town == << [stops |-> <<1, 4>>,    path |-> <<1, 4>>,    wait |-> 10],
           [stops |-> <<5, 12>>,   path |-> <<5, 12>>,   wait |-> 20],
           [stops |-> <<6, 9, 7>>, path |-> <<6, 9, 7>>, wait |-> 30] >>

\* A circular route: its last stop has the name of its first.
LoopTown == << [stops |-> <<1, 9, 6, 1>>, path |-> <<1, 9, 6, 1>>, wait |-> 10] >>
=============================================================================
