---------------------------- MODULE MCDriverPage ----------------------------
(* DriverPage for TLC: one account on the page and another driver to be     *)
(* seen, and one lost socket at a time.                                     *)
EXTENDS DriverPage, TLC

CONSTANTS d1, d2, full, s1

Accounts == {d1}
Drivers2 == {d1, d2}
Levels1 == {full}
Sockets1 == {s1}

\* A bound: a page reports the crowding once, with nothing on its way, and until it
\* is loaded anew it only registers again.  No property of the run reads the crowding.
CrowdingLast ==
    /\ active' # active => active' = None \/ up = <<>>
    /\ active # None => link' # link \/ Len(up') <= Len(up)

CrowdingLastSpec == Init /\ [][Next /\ CrowdingLast]_vars /\ Fairness
=============================================================================
