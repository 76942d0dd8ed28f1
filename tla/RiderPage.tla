----------------------------- MODULE RiderPage ------------------------------
(***************************************************************************)
(* The live map of the rider's page: script.js, eta.js and the arrival     *)
(* alert of assist.js.                                                     *)
(*                                                                         *)
(* A choice of the rider (a bus, or a route alone) shows at once a route   *)
(* on the map, its line diagram and the estimate panel, and narrows the    *)
(* server's updates to the route.  What is shown is then changed by        *)
(* messages, timers, the callbacks of the road geometry, the reader's own  *)
(* buttons and the loss of the socket, in any order.                       *)
(*                                                                         *)
(* The page runs one event at a time.  The callbacks of a promise run      *)
(* before the next event: nothing else steps while calls is not empty.     *)
(*                                                                         *)
(* The server is what the page can tell of it: it may send any of its      *)
(* messages at any time, but a bus-location-update only of the route the   *)
(* session is subscribed to.  Speeds are one constant.                     *)
(***************************************************************************)
EXTENDS RouteGeometry, FiniteSets

CONSTANTS
    Bus, Route,
    RouteOf,    \* RouteOf[b]: the route on the bus's card
    Place,      \* where a bus may report to be
    UserAt,     \* where the rider is
    Path, Road, \* of each route: its way points, and the road snapped to them
    MinPerKm,
    None,
    MaxCalls    \* bound: callbacks waiting for the road of each route

ASSUME PageAssumption ==
    /\ None \notin Bus /\ None \notin Route /\ None \notin Place
    /\ RouteOf \in [Bus -> Route] /\ Path \in [Route -> Seq(Int)]
    /\ MaxCalls \in Nat

VARIABLES
    loaded,     \* whether the network has been fetched: window.busRoutes
    located,    \* whether userLocation is known
    link,       \* ws
    told,       \* the route the server has this session subscribed to
    marker,     \* busMarkers[b]: a place, or None
    layers,     \* the keys of routeLayers
    ladder,     \* ladderState and where its bead is
    eta,        \* the active bus and route, the panel, and the arrival alert
    later,      \* routes whose choice waits for its 400 ms timer
    asked,      \* callbacks waiting for the road of each route, in the order they will run
    calls,      \* callbacks of a road that has come
    roads       \* the routes that have their roadGeom

vars == <<loaded, located, link, told, marker, layers, ladder, eta, later, asked, calls, roads>>
page == <<layers, ladder, eta, asked>>

ThresholdMin == 5

Panels == {"hidden", "no-location", "offline", "passed", "arriving", "minutes"}
NoEta == [bus |-> None, route |-> None, panel |-> "hidden", line |-> None,
          last |-> None, armed |-> None, fired |-> FALSE]
NoLadder == [route |-> None, bus |-> None, bead |-> None, row |-> 0]
Callback == [bus : Bus, route : Route, at : Place]

TypeOK ==
    /\ loaded \in BOOLEAN /\ located \in BOOLEAN
    /\ link \in {"opening", "open", "lost"}
    /\ told \in Route \union {None}
    /\ marker \in [Bus -> Place \union {None}]
    /\ layers \subseteq Route
    /\ ladder \in [route : Route \union {None}, bus : Bus \union {None},
                   bead : Bus \union {None}, row : Nat]
    /\ eta \in [bus : Bus \union {None}, route : Route \union {None}, panel : Panels,
                line : Bus \union {None}, last : Bus \union {None},
                armed : Bus \union {None}, fired : BOOLEAN]
    /\ later \subseteq Route
    /\ asked \in [Route -> Seq(Callback)] /\ calls \in Seq(Callback)
    /\ roads \subseteq Route

Init ==
    /\ loaded = FALSE /\ located = FALSE
    /\ link = "opening" /\ told = None
    /\ marker = [b \in Bus |-> None]
    /\ layers = {} /\ ladder = NoLadder /\ eta = NoEta
    /\ later = {} /\ asked = [r \in Route |-> <<>>] /\ calls = <<>> /\ roads = {}

-----------------------------------------------------------------------------
(* The estimate panel.                                                     *)

\* The road if it has come, else the way points.
Line(r, known) == IF r \in known THEN Road[r] ELSE Path[r]

\* How far the bus still has to go, and what the panel says of it.
Ahead(r, at, known) == Km(UserAt, Line(r, known)) - Km(at, Line(r, known))

EtaMins(km) == IF km * MinPerKm < 1 THEN 1 ELSE km * MinPerKm

\* (mutant: the alert stays armed when it rings)
CheckedStaysArmed(e, b, mins) ==
    IF e.armed = b /\ mins <= ThresholdMin THEN [e EXCEPT !.fired = TRUE] ELSE e

\* etaNotify.check.
Checked(e, b, mins) ==
    IF e.armed = b /\ mins <= ThresholdMin
    THEN [e EXCEPT !.armed = None, !.fired = TRUE]
    ELSE e

\* calculateAndShowETA, but for the callback it may leave behind.
Calculated(e, b, r, at, known) ==
    LET on == [e EXCEPT !.bus = b, !.route = r]
        km == Ahead(r, at, known)
    IN CASE ~ loaded           -> e
         [] loaded /\ ~ located -> [on EXCEPT !.panel = "no-location"]
         [] loaded /\ located /\ km < 0 -> [on EXCEPT !.panel = "passed", !.line = None]
         [] loaded /\ located /\ km = 0 -> [on EXCEPT !.panel = "arriving", !.line = None]
         [] OTHER -> Checked([on EXCEPT !.panel = "minutes", !.line = b, !.last = b],
                             b, EtaMins(km))

\* It asks for the road while the route has none.
Asks(b, r, at) ==
    asked' = IF loaded /\ located /\ r \notin roads
             THEN [asked EXCEPT ![r] = Append(@, [bus |-> b, route |-> r, at |-> at])]
             ELSE asked

AskBound == \A r \in Route : Len(asked[r]) < MaxCalls

\* triggerETA, on a panel that hideETAPanel has just reset.
Triggered(b, r) ==
    IF b = None
    THEN eta' = NoEta /\ asked' = asked
    ELSE IF marker[b] = None
    THEN eta' = [NoEta EXCEPT !.bus = b, !.route = r, !.panel = "offline"] /\ asked' = asked
    ELSE eta' = Calculated(NoEta, b, r, marker[b], roads) /\ Asks(b, r, marker[b])

-----------------------------------------------------------------------------
(* The line diagram.                                                       *)

StopKm(r) == [i \in 1 .. Len(Path[r]) |-> Km(Path[r][i], Path[r])]

\* updateLadderBusPosition.
Beaded(l, b, at) ==
    IF l.route = None \/ (l.bus # None /\ l.bus # b) THEN l
    ELSE [l EXCEPT !.bead = b, !.row = LadderRow(Km(at, Path[l.route]), StopKm(l.route))]

\* showRouteLadder, on a diagram that has just been hidden.
ShownLadder(r, b) ==
    LET l == [NoLadder EXCEPT !.route = r, !.bus = b]
    IN IF b # None /\ marker[b] # None THEN Beaded(l, b, marker[b]) ELSE l

-----------------------------------------------------------------------------
(* Choices.                                                                *)

\* subscribeToRoute: what is sent on a socket that is not open is lost.
Subscribe(r) == told' = IF link = "open" THEN r ELSE told

\* trackBus and selectBusRoute: everything the last choice showed is taken
\* down (clearRouteSelection), then the new one is shown.
Choose(r, b) ==
    /\ layers' = IF loaded THEN {r} ELSE {}
    /\ ladder' = IF loaded THEN ShownLadder(r, b) ELSE NoLadder
    /\ Triggered(b, r)
    /\ Subscribe(r)

ChooseBus(b) ==
    /\ calls = <<>> /\ AskBound
    /\ Choose(RouteOf[b], b)
    /\ UNCHANGED <<loaded, located, link, marker, later, calls, roads>>

\* "Track this route" of the nearest route or of a saved one: the page is
\* switched at once, the route chosen 400 ms later.
ChooseLater(r) ==
    /\ calls = <<>> /\ loaded /\ r \notin later
    /\ later' = later \union {r}
    /\ UNCHANGED <<loaded, located, link, told, marker, page, calls, roads>>

TimerChooses(r) ==
    /\ calls = <<>> /\ r \in later
    /\ later' = later \ {r}
    /\ Choose(r, None)
    /\ UNCHANGED <<loaded, located, link, marker, calls, roads>>

CloseLadder ==
    /\ calls = <<>> /\ ladder # NoLadder
    /\ ladder' = NoLadder
    /\ UNCHANGED <<loaded, located, link, told, marker, layers, eta, later, asked, calls, roads>>

\* (mutant: the panel is hidden, nothing is forgotten)
ClosePanelHides ==
    /\ calls = <<>> /\ eta.panel # "hidden"
    /\ eta' = [eta EXCEPT !.panel = "hidden"]
    /\ UNCHANGED <<loaded, located, link, told, marker, layers, ladder, later, asked, calls, roads>>

\* hideETAPanel by its own button.
ClosePanel ==
    /\ calls = <<>> /\ eta.panel # "hidden"
    /\ eta' = NoEta
    /\ UNCHANGED <<loaded, located, link, told, marker, layers, ladder, later, asked, calls, roads>>

\* (mutant: a flag for the alert, not a bus)
ToggleAlertFlag ==
    /\ calls = <<>> /\ eta.last # None
    /\ eta' = [eta EXCEPT !.armed = (@ = None), !.fired = FALSE]
    /\ UNCHANGED <<loaded, located, link, told, marker, layers, ladder, later, asked, calls, roads>>

\* "Alert me": arm or disarm, for the bus of the last estimate.
ToggleAlert ==
    /\ calls = <<>> /\ eta.last # None
    /\ eta' = [eta EXCEPT !.armed = IF @ = eta.last THEN None ELSE eta.last, !.fired = FALSE]
    /\ UNCHANGED <<loaded, located, link, told, marker, layers, ladder, later, asked, calls, roads>>

-----------------------------------------------------------------------------
(* Answers.                                                                *)

RoutesLoad ==
    /\ calls = <<>> /\ ~ loaded
    /\ loaded' = TRUE
    /\ UNCHANGED <<located, link, told, marker, page, later, calls, roads>>

Locate ==
    /\ calls = <<>> /\ ~ located
    /\ located' = TRUE
    /\ UNCHANGED <<loaded, link, told, marker, page, later, calls, roads>>

\* getRouteRoadGeom resolves: everything that waited for this road is called,
\* in the order it asked.  It was asked for when the home map drew the route,
\* if not before.
RoadComes(r) ==
    /\ calls = <<>> /\ loaded /\ r \notin roads
    /\ roads' = roads \union {r}
    /\ calls' = asked[r]
    /\ asked' = [asked EXCEPT ![r] = <<>>]
    /\ UNCHANGED <<loaded, located, link, told, marker, layers, ladder, eta, later>>

\* (mutant: whatever the panel has moved on to)
AnyCall(c) == TRUE

\* The recomputation on the road, unless the panel has moved on.
StillActive(c) == eta.bus = c.bus /\ eta.route = c.route

CallBack ==
    /\ calls # <<>>
    /\ LET c == Head(calls)
       IN eta' = IF StillActive(c) THEN Calculated(eta, c.bus, c.route, c.at, roads) ELSE eta
    /\ calls' = Tail(calls)
    /\ UNCHANGED <<loaded, located, link, told, marker, layers, ladder, later, asked, roads>>

-----------------------------------------------------------------------------
(* The socket.                                                             *)

\* (mutant: the session keeps the route of the one that was lost)
OpenKeepsRoute ==
    /\ calls = <<>> /\ link = "opening"
    /\ link' = "open"
    /\ UNCHANGED <<loaded, located, told, marker, page, later, calls, roads>>

\* onopen: user-register starts a new session, which wants every route.
Open ==
    /\ calls = <<>> /\ link = "opening"
    /\ link' = "open" /\ told' = None
    /\ UNCHANGED <<loaded, located, marker, page, later, calls, roads>>

Lose ==
    /\ calls = <<>> /\ link # "lost"
    /\ link' = "lost"
    /\ UNCHANGED <<loaded, located, told, marker, page, later, calls, roads>>

\* The 5 s timer of onclose.
Retry ==
    /\ calls = <<>> /\ link = "lost"
    /\ link' = "opening"
    /\ UNCHANGED <<loaded, located, told, marker, page, later, calls, roads>>

Receives == calls = <<>> /\ link = "open"

\* active-buses: markers are added and moved, nothing else.
ActiveBuses(seen) ==
    /\ Receives
    /\ marker' = [b \in Bus |-> IF seen[b] = None THEN marker[b] ELSE seen[b]]
    /\ UNCHANGED <<loaded, located, link, told, page, later, calls, roads>>

\* bus-location-update.
LocationUpdate(b, at) ==
    /\ Receives /\ AskBound
    /\ told \in {None, RouteOf[b]}
    /\ marker' = [marker EXCEPT ![b] = at]
    /\ ladder' = Beaded(ladder, b, at)
    /\ IF eta.bus = b
       THEN eta' = Calculated(eta, b, eta.route, at, roads) /\ Asks(b, eta.route, at)
       ELSE UNCHANGED <<eta, asked>>
    /\ UNCHANGED <<loaded, located, link, told, layers, later, calls, roads>>

\* driver-left.
DriverLeft(b) ==
    /\ Receives
    /\ marker' = [marker EXCEPT ![b] = None]
    /\ UNCHANGED <<loaded, located, link, told, page, later, calls, roads>>

-----------------------------------------------------------------------------
Next ==
    \/ \E b \in Bus : ChooseBus(b)
    \/ \E r \in Route : ChooseLater(r) \/ TimerChooses(r) \/ RoadComes(r)
    \/ CloseLadder \/ ClosePanel \/ ToggleAlert
    \/ RoutesLoad \/ Locate \/ CallBack
    \/ Open \/ Lose \/ Retry
    \/ \E seen \in [Bus -> Place \union {None}] : ActiveBuses(seen)
    \/ \E b \in Bus, at \in Place : LocationUpdate(b, at)
    \/ \E b \in Bus : DriverLeft(b)

Spec == Init /\ [][Next]_vars

-----------------------------------------------------------------------------
(* Properties.                                                             *)

\* Whatever comes in between, the page shows one choice: the route on the map
\* is the one of the line diagram and of the estimate, and the diagram waits
\* for the very bus that is estimated.
OneChoice ==
    /\ eta.bus # None /\ layers # {} => layers = {eta.route}
    /\ ladder.route # None => layers = {ladder.route}
    /\ ladder.route # None /\ eta.bus # None => ladder.bus = eta.bus

\* Everything the panel leaves for later is about the bus it is open for: the
\* highlighted way, the estimate that is shared, and the alert.
EtaIsOfOneBus ==
    /\ eta.last \in {None, eta.bus} /\ eta.armed \in {None, eta.bus}
    /\ eta.line = IF eta.panel = "minutes" THEN eta.bus ELSE None

\* The server never filters away the reports of the bus that is estimated or
\* of the route on the map, whatever was chosen while the socket was down.
ChoiceIsHeard ==
    link = "open" =>
      /\ eta.bus # None => told \in {None, RouteOf[eta.bus]}
      /\ told # None => layers \subseteq {told}

\* The alert keeps what ArrivalAlert promises.
Alert == INSTANCE ArrivalAlert WITH tracked <- eta.bus, armed <- eta.armed, rang <- eta.fired
AlertSpec == Alert!Spec

\* assist.js promises a notification when the tracked bus is 5 minutes away or
\* less: an alert is not still waiting when the bus arrives.
NoMissedAlert == eta.panel = "arriving" => eta.armed = None

\* The bead of the line diagram is a bus of the route it is the diagram of.
BeadIsOnItsRoute == ladder.bead # None => RouteOf[ladder.bead] = ladder.route
=============================================================================
