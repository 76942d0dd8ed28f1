--------------------------- MODULE RouteGeometry ----------------------------
(***************************************************************************)
(* Where something is along a route: the geometry helpers of eta.js and    *)
(* the row search of the line diagram in script.js.                        *)
(*                                                                         *)
(* A route is drawn on a line of whole kilometres, so that a place is an   *)
(* integer and a road is the sequence of places it bends at.  It may turn  *)
(* back on itself, as a route out and home does.                           *)
(***************************************************************************)
EXTENDS Integers, Sequences, SequencesExt

Distance(p, q) == IF p <= q THEN q - p ELSE p - q

\* eta_projectSeg: the point of the segment a..b that is closest to p.
ProjectSeg(p, a, b) ==
    IF p < a /\ p < b THEN IF a < b THEN a ELSE b
    ELSE IF p > a /\ p > b THEN IF a < b THEN b ELSE a
    ELSE p

Segments(path) == 1 .. Len(path) - 1

\* eta_routePos: the first of the segments closest to p, and the point on it.
RoutePos(p, path) ==
    LET off(i) == Distance(p, ProjectSeg(p, path[i], path[i + 1]))
        seg == CHOOSE i \in Segments(path) :
                  /\ \A j \in Segments(path) : off(i) <= off(j)
                  /\ \A j \in 1 .. i - 1 : off(i) < off(j)
    IN [seg |-> seg, pt |-> ProjectSeg(p, path[seg], path[seg + 1])]

\* eta_cumKm: the length of the road up to a position on it.
CumKm(pos, path) ==
    FoldLeft(LAMBDA km, i : km + Distance(path[i], path[i + 1]),
             Distance(path[pos.seg], pos.pt), [i \in 1 .. pos.seg - 1 |-> i])

Km(p, path) == CumKm(RoutePos(p, path), path)

\* updateLadderBusPosition: the last row, the last one left out, up to which
\* the bus has passed every stop; cum[i] is the kilometre of stop i.
LadderRow(km, cum) == Max({1} \union {row \in 2 .. Len(cum) - 1 : \A i \in 2 .. row : km > cum[i]})
=============================================================================
