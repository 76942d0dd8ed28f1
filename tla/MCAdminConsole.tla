--------------------------- MODULE MCAdminConsole ---------------------------
(* An instance of AdminConsole for TLC: two administrators, one route.     *)
EXTENDS AdminConsole, TLC

CONSTANTS c1, c2, i1, n1

Clients == {c1, c2}
Ids == {i1}
Numbers == {n1}
NoBuses == {}
=============================================================================
