--------------------------- MODULE PlannerClaims ----------------------------
(***************************************************************************)
(* What PlannerPage and JourneyPlanner are checked for: the page's own     *)
(* bookkeeping, and every plan it is given, against a reference that       *)
(* neither searches nor folds.                                             *)
(***************************************************************************)
EXTENDS PlannerPage

-----------------------------------------------------------------------------
(* The reference: the least time of a way from p to q with at least one    *)
(* ride, from the least times of ways with more and more edges.            *)

Far == 1000000
Least(S) == CHOOSE m \in S : \A x \in S : m <= x

\* At a stop, before or after the first ride.
Steps(s, t) == IsEdge(s[1], t[1]) /\ t[2] = (s[2] \/ IsRide(s[1], t[1]))

\* The least times of the places reached so far, and of those one edge on.
OneMore(c) ==
    LET on == {t \in Node \X BOOLEAN : \E s \in DOMAIN c : Steps(s, t)}
        by(t) == {c[s] + Minutes(s[1], t[1]) : s \in {x \in DOMAIN c : Steps(x, t)}}
        already(t) == IF t \in DOMAIN c THEN {c[t]} ELSE {}
    IN [t \in on |-> Least(by(t) \union already(t))] @@ c

Ways(p) ==
    FoldSet(LAMBDA s, c : OneMore(c),
            [s \in Candidates(p) \X {FALSE} |-> Access(p, s[1])], Node \X BOOLEAN)

RideBest(p, q) ==
    LET c == Ways(p)
    IN Least({Far} \union {c[<<n, TRUE>>] + Egress(n, q) :
                             n \in {m \in Candidates(q) : <<m, TRUE>> \in DOMAIN c}})

WalkBest(p, q) == IF Street(p, q) <= MaxWalkOnly THEN Street(p, q) * PerWalk ELSE Far

-----------------------------------------------------------------------------
(* Properties.                                                             *)

Answered == asked # None /\ asked.plan # None
Legs == asked.plan.legs
Rides == {i \in DOMAIN Legs : Legs[i].mode = "RIDE"}

Searched == asked = None /\ asked' # None

\* README.md: "fastest door-to-door plan": no way by bus, and no walk the
\* service would offer, takes less time than the plan.
PlanIsFastest ==
    [][Searched /\ asked'.plan # None =>
         asked'.plan.totalMinutes = Least({RideBest(asked'.from, asked'.to),
                                           WalkBest(asked'.from, asked'.to)})]_vars

\* The legs are a way from the origin to the destination: each begins where
\* the last one ends, a ride follows the stops of one route, and between two
\* rides there is a walk.
LegsConnect ==
    Answered =>
      /\ Legs[1].from = asked.from /\ Legs[Len(Legs)].to = asked.to
      /\ \A i \in 1 .. Len(Legs) - 1 :
            Legs[i].to = Legs[i + 1].from /\ ~ {i, i + 1} \subseteq Rides
      /\ \A i \in Rides :
            LET b == Legs[i].board a == Legs[i].alight
            IN b[1] = a[1] /\ Legs[i].stops = Distance(b[2], a[2]) /\ b # a

\* A bus that is waited for and not boarded: two transfers in a row, or one
\* before the first ride or after the last.
Missed == \E i \in DOMAIN Legs \ {1} : {i, i - 1} \cap Rides = {}

\* Waits and rides and walks, leg by leg, are the time the plan says it
\* takes, unless a bus is waited for and not boarded.
Spent(i) == FoldLeft(LAMBDA t, leg : t + leg.wait + leg.minutes, 0, SubSeq(Legs, 1, i))
TimesAddUp ==
    Answered =>
      IF Missed \/ Rides = {} THEN Spent(Len(Legs)) <= asked.plan.totalMinutes
                             ELSE Spent(Len(Legs)) = asked.plan.totalMinutes

\* The page announces as many changes of buses, leg by leg, as the summary of
\* the server counts transfers, unless a bus is waited for and not boarded.
ChangesAreAnnounced ==
    Answered /\ ~ Missed =>
        Cardinality({i \in DOMAIN Legs : IsInterchange(Legs, i)}) = asked.plan.transfers

\* planner.js: "A ride leg's map geometry, built from the route's stops between
\* the boarding and alighting stop": it leads from the one to the other, through
\* the stops that are counted.
RidesAreDrawn ==
    Answered =>
        \A i \in Rides :
            LET points == Waypoints(Legs[i])
            IN /\ points[1] = Legs[i].from /\ points[Len(points)] = Legs[i].to
               /\ Len(points) = Legs[i].stops + 1

\* planner.js: "Running clock so each leg shows a real board/arrive time".
BoardTimesAreReal == Answered => \A i \in Rides : BoardAt(Legs, i) = Spent(i - 1) + Legs[i].wait

\* Swapping exchanges what is meant, whether a stop or a point on the map.
\* (A destination cannot be the rider's own position.)
Meant(c, w, p) == IF c[w].kind = "map" THEN p[w] ELSE c[w].at
SwapExchanges ==
    [][Swap => \A w \in Which : Meant(choice', w, pick') = Meant(choice, Other(w), pick)]_vars

\* The legs on the map are those of the plan that is shown: none are left of an
\* older one, or of one whose result a failed search has taken away.
LegsAreOfThePlan == legs = IF result THEN {"this"} ELSE {}
=============================================================================
