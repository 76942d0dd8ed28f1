---------------------------- MODULE PlannerPage -----------------------------
(***************************************************************************)
(* The journey planner of the rider's page, planner.js, and the service    *)
(* that answers it (JourneyPlanner).                                       *)
(*                                                                         *)
(* Origin and destination are chosen from two lists, by swapping them, or  *)
(* by clicks on the map, which set them in turn.  Every visit of the page  *)
(* fills the lists anew when the routes are there.  One search is under    *)
(* way at a time; lists and map can be changed meanwhile.  The pins on the *)
(* map, and the 100 ms between the page and its map, are left out.         *)
(*                                                                         *)
(* Stops of one name are stops of one place.  The routes the page draws    *)
(* legs with are those the service planned with.                           *)
(***************************************************************************)
EXTENDS JourneyPlanner

CONSTANTS
    Place,      \* where a rider or a stop can be
    Spot,       \* where a rider clicks on the map
    Home        \* where a rider is, for the service and for geolocation

VARIABLES
    map,        \* whether plannerMap is there
    filling,    \* populateStopPickers waits for the routes
    choice,     \* the values of planner-from and planner-to
    offered,    \* the lists that have the option of a point on the map
    pick,       \* mapPick
    next,       \* mapPick.next
    asked,      \* the search under way: its points, and the plan it will be answered
    result,     \* whether a plan is shown
    legs        \* whose legs are on the map: those of this plan, those of an older one

vars == <<map, filling, choice, offered, pick, next, asked, result, legs>>

Which == {"from", "to"}
Other(w) == IF w = "from" THEN "to" ELSE "from"
Places == Place \union {None}

Stops == {StopOf(n) : n \in Node}

ASSUME PlannerAssumption ==
    /\ Place \subseteq Int /\ None \notin Place
    /\ Spot \union Home \union Stops \subseteq Place

Me == [kind |-> "me", at |-> None]
NoChoice == [kind |-> "none", at |-> None]
OnMap == [kind |-> "map", at |-> None]
AtStop(p) == [kind |-> "stop", at |-> p]
FirstOption(w) == IF w = "from" THEN Me ELSE NoChoice
Options(w) == {FirstOption(w)} \union {AtStop(p) : p \in Stops}
              \union (IF w \in offered THEN {OnMap} ELSE {})

TypeOK ==
    /\ map \in BOOLEAN /\ filling \in BOOLEAN
    /\ offered \subseteq Which /\ next \in Which
    /\ pick \in [Which -> Places]
    /\ \A w \in Which : choice[w] \in Options(w)
    /\ asked # None => asked.from \in Place /\ asked.to \in Place
    /\ result \in BOOLEAN /\ legs \subseteq {"this", "older"}

Init ==
    /\ map = FALSE /\ filling = FALSE
    /\ choice = [w \in Which |-> FirstOption(w)] /\ offered = {}
    /\ pick = [w \in Which |-> None] /\ next = "from"
    /\ asked = None /\ result = FALSE /\ legs = {}

-----------------------------------------------------------------------------
(* The page is shown.                                                      *)

\* initPlannerMap and populateStopPickers: the first visit makes the map,
\* every visit loads the routes for the lists.
Visit ==
    /\ map' = TRUE /\ filling' = TRUE
    /\ UNCHANGED <<choice, offered, pick, next, asked, result, legs>>

\* (mutant: the choice of a list outlives its options)
FillPickersKeeps ==
    /\ filling
    /\ filling' = FALSE
    /\ offered' = {}
    /\ UNCHANGED <<map, choice, pick, next, asked, result, legs>>
\* The lists are new: the option of the map is gone, the first one is chosen.
FillPickers ==
    /\ filling
    /\ filling' = FALSE
    /\ choice' = [w \in Which |-> FirstOption(w)] /\ offered' = {}
    /\ UNCHANGED <<map, pick, next, asked, result, legs>>

-----------------------------------------------------------------------------
(* Origin and destination.                                                 *)

Choose(w, c) ==
    /\ map /\ c \in Options(w)
    /\ choice' = [choice EXCEPT ![w] = c]
    /\ UNCHANGED <<map, filling, offered, pick, next, asked, result, legs>>

\* setPickedPoint.
ClickMap(p) ==
    /\ map
    /\ pick' = [pick EXCEPT ![next] = p]
    /\ offered' = offered \union {next}
    /\ choice' = [choice EXCEPT ![next] = OnMap]
    /\ next' = Other(next)
    /\ UNCHANGED <<map, filling, asked, result, legs>>

\* The points on the map change places with the choices.
Swapped ==
    [from |-> IF choice["to"] = NoChoice THEN Me ELSE choice["to"],
     to   |-> IF choice["from"] = Me THEN NoChoice ELSE choice["from"]]

\* (mutant: only the choices change places)
PickKept == pick
PickSwapped == [w \in Which |-> pick[Other(w)]]

Swap ==
    /\ map
    /\ offered' = Which
    /\ choice' = Swapped
    /\ pick' = PickSwapped
    /\ UNCHANGED <<map, filling, next, asked, result, legs>>

-----------------------------------------------------------------------------
(* A search: planJourney.                                                  *)

\* resolvePoint, at the click.
Resolved(w) ==
    CASE choice[w].kind = "me"   -> Home
      [] choice[w].kind = "map"  -> {pick[w]} \ {None}
      [] choice[w].kind = "stop" -> {choice[w].at}
      [] OTHER                   -> {}

Ask ==
    /\ map /\ asked = None
    /\ \E p \in Resolved("from"), q \in Resolved("to") : asked' = [from |-> p, to |-> q, plan |-> Plan(p, q)]
    /\ UNCHANGED <<map, filling, choice, offered, pick, next, result, legs>>

\* clearLegLayers, and drawLegsOnMap, which begins with it.
Cleared(layers) == {}
\* (mutant: the legs are drawn over those on the map)
DrawnOver(layers) == layers \union {"this"}
Drawn(layers) == Cleared(layers) \union {"this"}

\* The error path: the result and its legs are taken away.
Failed == result' = FALSE /\ legs' = Cleared(legs)

\* A point is not chosen, or the position is not known.
CannotAsk ==
    /\ map /\ asked = None
    /\ \E w \in Which : Resolved(w) = {} \/ choice[w] = Me
    /\ Failed
    /\ UNCHANGED <<map, filling, choice, offered, pick, next, asked>>

\* renderJourney: whatever is on the map is of an older plan now.
PlanComes ==
    /\ asked # None /\ asked.plan # None
    /\ result' = TRUE /\ legs' = Drawn({"older" : l \in legs})
    /\ asked' = None
    /\ UNCHANGED <<map, filling, choice, offered, pick, next>>

\* No plan (the same place, or a 404), no answer, or one that cannot be shown.
SearchFails ==
    /\ asked # None
    /\ asked' = None
    /\ Failed
    /\ UNCHANGED <<map, filling, choice, offered, pick, next>>

-----------------------------------------------------------------------------
(* What the page makes of the legs.                                        *)

\* A walk between two rides is announced as a change of buses.
\* (mutant: every walk after a ride is)
IsGettingOff(ls, i) ==
    /\ ls[i].mode = "WALK"
    /\ i - 1 \in DOMAIN ls /\ ls[i - 1].mode = "RIDE"
IsInterchange(ls, i) ==
    /\ ls[i].mode = "WALK"
    /\ i - 1 \in DOMAIN ls /\ ls[i - 1].mode = "RIDE"
    /\ i + 1 \in DOMAIN ls /\ ls[i + 1].mode = "RIDE"

\* The running clock of the list of legs, and the time to board at.
Elapsed(ls, i) == FoldLeft(LAMBDA t, leg : t + leg.minutes, 0, SubSeq(ls, 1, i - 1))
BoardAt(ls, i) == Elapsed(ls, i) + ls[i].wait

\* rideLegWaypoints: the first stops of the names, and those between them.
FirstNamed(stops, p) == SelectInSeq(stops, LAMBDA q : q = p)
\* (mutant: always in the order of the route)
WaypointsForward(leg) ==
    LET stops == Network[leg.route].stops
        i == FirstNamed(stops, leg.from) j == FirstNamed(stops, leg.to)
    IN IF i <= j THEN SubSeq(stops, i, j) ELSE SubSeq(stops, j, i)
Waypoints(leg) ==
    LET stops == Network[leg.route].stops
        i == FirstNamed(stops, leg.from) j == FirstNamed(stops, leg.to)
    IN IF i <= j THEN SubSeq(stops, i, j) ELSE Reverse(SubSeq(stops, j, i))

-----------------------------------------------------------------------------
Next ==
    \/ Visit \/ FillPickers
    \/ \E w \in Which : \E c \in Options(w) : Choose(w, c)
    \/ \E p \in Spot : ClickMap(p)
    \/ Swap \/ Ask \/ CannotAsk \/ PlanComes \/ SearchFails

Spec == Init /\ [][Next]_vars
=============================================================================
