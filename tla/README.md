# CityBus: a TLA+ model of live bus tracking

CityBus is a Spring Boot server with browser pages for riders, drivers and
administrators.  Riders see buses move on a map, drivers broadcast their
position, administrators edit routes and buses, and a planner finds journeys.
This directory models where threads, sockets, transactions and pages interleave:
live tracking, the catalogue of routes with the copies made of it, the pages of
riders, drivers and administrators, and the journey planner.  Most of what holds is
proved for any number of connections, drivers, buses, routes and requests.

## 1. The system

Paths are relative to the repository; `J/` is `src/main/java/com/citybus/`,
`S/` is `src/main/resources/static/`.

| Component | State it keeps | Operations | Talks to |
|---|---|---|---|
| live registry `J/service/LiveTrackingService.java` | `sessions`, `liveBuses` (two concurrent maps), fields of their values | register, remove, location, occupancy, visibility, track, subscribe, ping, snapshot, proximity alerts, eviction | called by every thread of the endpoint |
| WebSocket endpoint `J/websocket/BusTrackingWebSocketHandler.java` | its own `sessions` map of sockets | one handler per frame type, close and error callbacks, a 10 s broadcast, a 30 s eviction | registry; sends messages to pages |
| rider page, live map `S/script.js`, `eta.js`, `assist.js` | markers, the route shown, the line diagram, the estimate panel and its alert | choose, reconnect after 5 s, one handler per message, a callback per road | endpoint, road geometry |
| driver page `S/driver_script.js` | login in session storage, visibility, occupancy, markers and list of other drivers | login, register on open, ping, toggle, logout and reload | endpoint, login |
| route and bus catalogue `J/service/RouteService.java`, `BusService.java` | JPA tables, a cache with a 10 min TTL | CRUD in transactions, cache eviction, `RoutesChangedEvent` | planner, cache |
| alert feed `J/service/AlertService.java` | table, a cache with a 30 s TTL | CRUD, live feed | cache |
| journey planner `J/service/JourneyPlannerService.java` | one graph in an `AtomicReference` | invalidate, build, plan (Dijkstra, folding into legs) | catalogue |
| login and tokens `J/service/AuthService.java`, `J/security/` | none but the tokens; the limiter keeps windows per client | login, parse, rate limiting | catalogue, endpoint |
| administration page `S/admin.js` | token, lists, a form per table, a pending confirmation, an interval | login, load, save, delete | catalogue |
| planner page `S/planner.js` | choices, points on the map, the plan shown | choose, swap, click, search | planner |
| caches `S/roads.js`, `S/sw.js` | snapped roads, offline copies | | external services |

Hard behaviours: (1) the registry's two maps are written one after the other by
frame threads, close callbacks and the sweeper; (2) messages are composed from
the registry first and sent later, by threads nothing orders; (3) pages reconnect
and register anew while the server may not have noticed the old socket's end;
(4) a slow socket disturbs the loop that serves all of them; (5) caches are
invalidated around, not inside, transactions; (6) pages apply the answers of
overlapping requests in whatever order they come.

What makes each component correct:

* registry: a driver broadcasts only for the bus of a token; live buses and
  driver sessions agree; a driver's visibility choice is kept; silent sessions go.
* endpoint: a rider who stays connected gets to see every visible bus; a bus that
  leaves goes from every rider's map; an evicted page's socket is closed.
* catalogue and caches: no update is lost silently; numbers stay unique and
  references intact; a copy (cache entry, graph) is old only where a read
  overlapped a write, and one that outlives the write is a flaw.
* planner: a plan uses committed routes; legs connect, add up and are no worse
  than any other plan of the graph.
* limiter: at most the configured number of attempts per window is let through.
* rider page: one choice is shown at a time, everywhere; the server does not filter
  away what it needs; an alert is about the bus of the panel.
* driver page: what the server shows is what the driver wants shown, whatever was
  lost; every new socket registers; late answers bring nothing back.
* administration page: a save or deletion hits the row that was shown or named, no
  button stays disabled, one interval runs.

## 2. Modules

| Module | What it is |
|---|---|
| `LiveTracking` | the registry: one action per atomic access of each service method |
| `LiveTrackingClaims` | its properties, three observing history variables, the inductive invariants |
| `LiveTrackingProofs` | theorems about the registry, and about the driver's last word on visibility |
| `BusTrackingHandler` | the endpoint around the registry (EXTENDS `LiveTracking`), and the rider's map |
| `BusTrackingHandlerClaims` | its property about farewells, with a history variable, and the inductive invariants |
| `BusTrackingHandlerProofs` | what the registry promises holds under the endpoint; types, sockets and farewells |
| `RouteCatalog` | routes, buses, the "routes" cache and the planner's graph: one action per step of a request |
| `RouteCatalogClaims` | its properties about copies and concurrent updates, with history variables |
| `RouteCatalogProofs` | theorems about the catalogue |
| `AdminConsole` | two administrators editing routes (EXTENDS `RouteCatalog`) |
| `RouteGeometry` | positions along a route: pure functions |
| `ArrivalAlert` | what the "Alert me" button promises: an abstract specification |
| `RiderPage`, `RiderPageProofs` | the rider's live map, which implements `ArrivalAlert` |
| `DriverPage`, `DriverPageProofs` | the driver's dashboard and the server's side of one driver |
| `AdminPage`, `AdminPageProofs` | the administration page: session, reloads, forms, the dialog |
| `JourneyPlanner` | graph, search and folding into legs: pure functions (EXTENDS `RouteGeometry`) |
| `PlannerPage` | the planner page, which asks `JourneyPlanner` |
| `PlannerClaims` | its properties, and a reference for the plans that neither searches nor folds |
| `PlannerProofs` | theorems about plans and about the planner page |
| `FoldLemmas` | induction over numbers, subsets and folds, for the theorems above |
| `MC...` | instances for TLC of the module named |

An operator marked "(mutant: ...)" is a faulty variant of the operation after it.
It takes part in no specification: replacing the operation by it shows that the
property named in `PROJECT.json` can fail.

### The registry

`sessions[c]` and `live[b]` are the two `ConcurrentHashMap`s.  `io[c]` holds the
locals of the frame being served on connection `c` (a container serves the frames
of a connection one at a time), `rem[c]` those of the close callback's
`removeSession` between its two map operations, `sweep` those of
`evictStaleSessions` and `alerts` those of `pendingProximityAlerts`.  The steps of the
methods are:

| Method | Actions |
|---|---|
| `registerDriver` (207) | `RegisterDriver` (`sessions.put`), `PutBus` (`liveBuses.put`) |
| `updateDriverLocation` (236) | `BeginLocation` (check, `lastSeen`), `AddPoint` (get or create, `addPoint`), `SetVisible` |
| `setOccupancy` (290) | `BeginOccupancy`, `WriteOccupancy` |
| `setDriverVisibility` (304, called by the handler at 256) | `BeginVisibility`, `WriteVisibility` |
| `registerUser`, `trackBus`, `subscribeRoute`, `touch`, `updateUserLocation` | `RegisterUser`, `TrackBus`, `SubscribeRoute`, `Touch` (both) |
| `removeSession` (226) | `RemoveSession`, `RetireBus` |
| `evictStaleSessions` (382) | `StartSweep`, `CheckStale`, `EvictSession`, `EvictBus`, `EndSweep` |
| `pendingProximityAlerts` (352) | `StartAlerts`, `VisitRider` (the session's fields, `liveBuses.get`), `CheckVisible` (363), `RaiseAlert` or `TooFar` (366-375), `EndAlerts` |
| time | `GoStale` (two minutes of silence), `CoolDown` (the alert's cooldown is over) |

A thread may hold a `LiveBusState` the map no longer has; `attached` says whether
it still has it, and a write to a detached object changes nothing anyone reads.  The
loop of the alerts holds such a state, too, and reads the flag of whatever it holds: of
a detached one it may read either value.  It also holds a session, whose
`trackingBusCode` it reads a second time for the text of the alert: `orphan` is that of
a session which is no longer registered.  An alert has both, the bus that was `near` and
the one it `names`.
`Page[c]` is the page behind a connection: the token of a driver, or a rider.  A
page sends the frames its script sends, so a driver's connection never registers
as a rider.  Merged steps are those whose order no other thread can observe, as
the comment of each action says.

Abstracted: positions are "has one"; distance and speed are left out, so a bus with a
position is near (`RaiseAlert`) or not (`TooFar`), for any rider; clocks are the two facts `stale` and `cooling`.

### The endpoint

`sock[c]`, `reads[c]` and `calls[c]` are a connection's socket, whether its peer
reads, and how often the container will still call `cleanup`; `mapped` is the key
set of the handler's own map, and `entering` are the connections whose registration is
being served and not put down yet: the socket may close meanwhile, and then the session
is put down after the cleanup.  `mail[s]` is the message that thread `s` is sending:
frames and close callbacks of each connection, the sweeper and the broadcaster are
threads of their own, and `Deliver` sends to one recipient at a time.  `view[c]` is
the set of bus markers on the rider's page of `c`: `active-buses` and
`bus-location-update` add markers, `driver-left` removes one
(`S/script.js:733-818`).

| Code | Actions |
|---|---|
| `afterConnectionEstablished` (103) | `Open` |
| `handleDriverRegister` (146) | `BeginRegister` (up to the lookup of the route), `HandleDriverRegister`, `FrameGoesOn` |
| `handleDriverLocation` (179) | `HandleDriverFrame`, `FrameGoesOn`, `PublishLocation`, `Address`, `Deliver` |
| `handleUserRegister` (231) | `BeginRegister`, `HandleUserRegister`, `TakeWelcome`, `Deliver` |
| other rider frames (222-274) | `HandleRiderFrame` |
| `cleanup` (287) | `Cleanup`, `AnnounceDeparture`, `Address`, `Deliver` |
| `evictStaleSessions` (326) | `BeginSweep`, `SweepRegistry`, `SweepReturns`, `TakeLeave`, `Address`, `Deliver`, `Part` |
| `broadcastActiveBuses` (305) | `StartBroadcast`, `TakeSnapshot`, `Deliver`, `BeginAlerts`, `FindAlerts` (the registry's loop), `AlertsReturn`, `SendAlert`, `EndBroadcast` |
| `send` (365) | `Deliver`; `DeliveryFails` for the unchecked exception it does not catch |

A connection id is a page with its current socket: it opens the next one when all
the server does for the last is over, so an instance with few ids still has
unboundedly many reconnections.  A message that is still addressed to the last socket
finds none (`Forgotten`).  That a page's new socket may overlap its old one
is modelled with two ids that carry the same token (`registry`).

### The catalogue

`routes` and `assigned` are the committed tables of routes and of buses, `cache` the
entries of the "routes" cache (one per id, one for the whole list), `graph` the table
`graphRef` was built from, and `call[c]` the locals of the request that client `c`
waits for.  A route is its number and its version; every update sets new collections
of points and stops, so every update changes the version.

| Code | Actions |
|---|---|
| `findAll`, `findById` (46, 54) | `Miss`, `Query`, `PutCache`; `Expire` for the TTL |
| `create`, `update`, `delete` (60, 73, 88) | `BeginCreate`, `BeginUpdate`, `BeginDelete` (checks), `Publish` (save and event), `Commit` or `WriteFails`, `Evict` |
| `onRoutesChanged` (`JourneyPlannerService` 85) | `Publish`: the listener runs in the publishing thread |
| `graph` (125) | `NoGraph`, `Build` (under the lock), `StoreGraph` |
| `BusService` `create`, `update`, `delete` (66-100) | `BeginAssign`, `Assign`, `DeleteBus` |

The database is modelled from how the code relies on it: queries see committed rows,
statements are sent when the transaction commits and then meet the version, the
unique constraint and the foreign key; the insert of a new route is sent by `save`
(identity ids) and makes others wait for its number.  Ids are never reused
(`unborn`), so a finite `Id` bounds the creations.

A read takes several queries in the code: the rows are mapped one by one, and the roads
of routes are loaded when they are asked for.  In the model it is one step.  A commit
that falls between them overtakes the read, and the history counts such a read as
spoilt whichever rows it got, so that the properties say the same of both.

In `AdminConsole` a client is a page: it loads the list (from the cache or by a read
that fills it), opens a form on a route of it, and saves it without a version, or
deletes.  The reload that follows a save may be late or fail, so it is a load like any
other.

### The rider's page

The page runs one event at a time, so an action is a whole handler with all the
functions it calls.  `layers`, `ladder` and `eta` are what the map, the line diagram
and the estimate panel show; `asked[r]` are the callbacks that wait for the road of a
route, `calls` those whose promise has resolved, which run before any other event
(`calls = <<>>` guards every other action).

| Code | Actions |
|---|---|
| `trackBus`, `selectBusRoute` with `clearRouteSelection`, `showRouteLadder`, `triggerETA`, `subscribeToRoute` | `ChooseBus`; `ChooseLater`, `TimerChooses` for the 400 ms timers (`Choose`) |
| `calculateAndShowETA` and its road callback, `etaNotify.check` | `Calculated`, `Checked`, `Asks`; `RoadComes`, `CallBack` |
| `hideLadder`, `hideETAPanel` (their buttons), the alert button | `CloseLadder`, `ClosePanel`, `ToggleAlert` |
| `connectWebSocket`, `onclose` | `Open`, `Lose`, `Retry` |
| `active-buses`, `bus-location-update`, `driver-left` | `ActiveBuses`, `LocationUpdate`, `DriverLeft` |
| the network and the position arrive | `RoutesLoad`, `Locate` |
| `eta_projectSeg`, `eta_routePos`, `eta_cumKm`, `updateLadderBusPosition` | `ProjectSeg`, `RoutePos`, `CumKm`, `LadderRow` of `RouteGeometry` |

The server is open: it may send any message at any time, except that it filters
location updates by `told`, the route the session is subscribed to
(`BusTrackingHandler` has why).  A route lies on a line of whole kilometres and may
turn back on itself; the speed is one constant.

### The driver's page

`up` and `down` are what is on its way on the page's socket, served in order; `session`
says what became of the registration of that socket.  A lost socket leaves its session
and the bus behind: `old[s]` is what the server has of it, whose it was, whether it has a
session and which frames had been received and may still be served.  The removal of that
session comes late and takes the bus off the map by its code, whoever has registered it
meanwhile, as `LiveTracking` shows.  `bus` is the bus at the server: whether it is live
and can be seen, what its flag says and who put it there.

A logout closes the socket and asks for the reload (`driver_script.js:720-731`);
`leaving` is the time until the page is loaded anew, in which the 5 s timer of `onclose`
runs and opens a socket that registers nobody.  Hiding the other drivers takes their
markers down; the list beside the map stays as it was.

| Code | Actions |
|---|---|
| login form, `checkExistingSession`, `setupLogout` | `SubmitLogin`, `LoginSucceeds`, `LoginFails`, `Logout` (the click), `Reload` (any time after it, or by the driver); `TokenExpires`.  `EnterDashboard` may fail before it connects (`initDriverMap`) |
| `connectWebSocket`, `onopen`, `onclose` | `Open`, `Lose`, `Retry`; `Disconnect` for what is left behind |
| `handleLocationUpdate`, `handleVisibilityToggle`, the occupancy buttons | `Report`, `ToggleVisibility`, `PressOccupancy` |
| `toggleOtherDriversDisplay`, `refreshOtherDriversList`, `other-drivers` | `ShowOthers`, `HideOthers`, `Refresh`, `HandleOtherDrivers` |
| the endpoint's handlers for this driver | `Serve` with `Register` (an expired token, a token without a bus and a lookup that fails are refused, on a socket that stays open), `ServeOld`, `OldSessionRemoved` |

### The administration page

Every `await` lets other handlers in, so a request is `write[w]` or `load[l]` from the
click to the answer: one write for each form and one for the dialog, one reload for
each of these and one for the refresh button.  An answer carries the token it was
sent with.

| Code | Actions |
|---|---|
| login, resumption, `signOut`, `startLiveRefresh` | `SubmitLogin`, `LoginSucceeds`, `LoginFails`, `ResumeSucceeds`, `ResumeFails`, `Logout`, `TokenExpires` |
| `loadAll` | `PressRefresh`, `ReadTable`, `LoadSucceeds`, `LoadFails` |
| the three forms | `OpenForm`, `CloseForm`, `Save`, `Saved`, `SaveFails` |
| `confirmDelete`, `runConfirmedAction` | `ConfirmDelete`, `CloseDialog`, `RunConfirmedAction`, `Deleted`, `DeleteFails` |

### The planner

`JourneyPlanner` follows `J/service/JourneyPlannerService.java`: `Node`, `IsEdge`,
`Minutes` are `build`; `Candidates` is `accessCandidates`; `Search` (one `Poll` for
each settled node), `Alight` and `Transit` are `planTransit`; `Chain`, `Hopped` (one
`FoldHop` for each hop) and `Ended` are the folding; `OrWalk` and `Plan` are `plan`.
The town is one street, lengths and minutes are integers, and nothing is rounded.  In `PlannerPage`, `Ask` is the click:
it records the plan the search will be answered (`PlanComes`) unless it fails
(`SearchFails`); choices, clicks, `Swap` and `FillPickers` go on meanwhile.
`legs` says whose legs are on the map: those of the plan that is shown, or of an older
one that `clearLegLayers` has not taken away (`Cleared`, `Drawn`).
`IsInterchange`, `BoardAt` and `Waypoints` are what `renderJourney` and
`rideLegWaypoints` read from the legs.

## 3. What the runs check

| Run | Result | Question |
|---|---|---|
| `registry` | passes | two connections of one driver token, two buses |
| `registry_riders` | passes | a driver and a rider, with the loop of the alerts in its separate reads |
| `farewells` | passes | the whole endpoint with a driver and a rider |
| `broadcast` | passes | the broadcaster with a driver, a rider and a rider who may stop reading |
| `catalog` | passes | two requests at a time on routes, buses, cache and graph |
| `rider_page` | passes | two buses of two routes, every order of choices, messages, timers, callbacks and losses |
| `driver_page` | passes | one page and its server, with a socket lost at any time and its session removed late |
| `admin_page` | passes | one table of two rows, two requests under way |
| `planner` | passes | every search of the page in a town of three routes |
| `stale_graph` | violated | may an old graph stay once every request is answered? |
| `lost_edit` | violated | may an edit replace one its administrator has not seen? |
| `board_clock` | violated | is the boarding time the page prints one the bus can be boarded at? |

Properties that hold:

* `NoImpersonation`: sessions and live buses carry only pairs of driver and bus
  that a token claims.
* `RegistryTracksSessions`: unless a removal met another user of the bus
  (`contested`), a bus with nothing under way is live exactly if a driver session
  stands for it.
* `LastWordOnVisibility`: on such a bus, once its frames are served, the flag is what
  the driver asked for last.
* `NoAlertOfHiddenBus`: nobody is alerted of a bus whose driver had hidden it before the
  loop of the alerts began and left it so (`quiet`).  A bus that is hidden while the loop
  runs may be in its list: the flag has been read by then, and the alert is sent later.
* `SilentSessionsAreSwept`: a session that stays silent is evicted.
* `FarewellsReachRiders`: whoever takes the session, callback or sweeper, every
  rider who shows the bus is told, apart from the two ways `excused` records.
* `EvictedSocketIsClosed`: no page that registered is left on an open socket without a
  session, also if it was heard from after the sweep found it silent.
* `VisibleBusReachesRider`: a visible bus is shown to every rider who stays and
  reads, although location updates are filtered by route.
* `NumbersAreUnique`, `ReferencesIntact`: the services check before another request
  commits, but the constraints of the schema hold what the checks promise.
* `CacheFollowsRoutes`, `GraphFollowsRoutes`: an entry is old only between a commit
  and its eviction, or if a read overtaken by the write put it (`spoilt`); the graph
  only if a query that overlapped a write stored it (`graphSpoilt`).
* `NoUpdateIsLost`: of two concurrent updates of a route the second to commit fails.
* `OneChoice`: map, line diagram and estimate are of one choice, through timers that
  choose behind the rider's back and buttons that close one of them.
* `EtaIsOfOneBus`: the highlighted way, the estimate to share and the armed alert are
  of the bus of the panel, although roads come late.
* `ChoiceIsHeard`: the server does not filter away the bus estimated or the route
  shown, although nothing is subscribed again after a reconnection.
* `AlertSpec`: the page implements `ArrivalAlert`.
* `VisibilityFollowsToggle`: once nothing is on its way and no session of a lost socket
  is left, a bus the server would show has the visibility of the toggle, whatever was
  toggled while the socket was down and whatever was served late.  While an old session
  is left it need not: the socket is lost while the bus is visible, the toggle is set to
  hidden, and the new socket is refused; the bus stays as it was until the removal.
* `HiddenOthersStayHidden`: late answers bring back no marker of hidden drivers, and
  neither markers nor list are ever of the driver's own bus.
* `LogoutEndsBroadcast`: although the page reconnects until it is loaded anew, nobody's
  bus is live after a logout once the sessions of the lost sockets are removed.
* `DriverReregisters`: a page with a driver and a valid token gets an answer to a
  registration in the end, whatever is lost.  It may be a refusal, which leaves the page
  on an open socket that is not registered: nothing in the page asks again.
* `OneInterval`, `EditsWhatItShows`, `DeletesWhatItNames`, `WaitsForItsReload`: forms,
  dialog, buttons and interval stay consistent while answers are under way.
* `PlanIsFastest`: the plan takes the least time of all ways with a ride (computed by
  relaxation of all edges, without a queue) and of a walk.
* `LegsConnect`, `TimesAddUp`: the legs are a way from the origin to the destination,
  and their waits and minutes are the total.  `TimesAddUp` excuses the plans in which
  a bus is waited for and not boarded (two transfers in a row, or one before the first
  ride or after the last): there the legs say less than the total, because `fold` puts
  a wait into a ride only.
* `ChangesAreAnnounced`: the page announces as many changes of buses, leg by leg, as the
  summary counts transfers, with the same excuse.
* `RidesAreDrawn`: the points a ride is drawn through are the stops between its ends, in
  its direction.  It holds in the town of the run, which has no circular route; see below.
* `LegsAreOfThePlan`: the legs on the map are those of the plan that is shown, and of no
  older one.
* `SwapExchanges`: swapping exchanges what is meant by the two lists.

What the violated runs show:

* `stale_graph`: the event is handled before the commit.  A query between the two
  rebuilds the graph from the old rows and nothing drops it again.
* `lost_edit`: the version is loaded and compared within one request, and no response
  carries it.  The second of two administrators who opened a form on the same list
  overwrites the first one's edit.
* `board_clock`: the running clock of `renderJourney` adds the minutes of a leg and
  not its wait, so that the second ride is to be boarded earlier than it can be.

Further configurations state what a document or comment says and TLC violates, each
in seconds.  They are kept beside the runs:

| Configuration (module) | Property | What happens |
|---|---|---|
| `LiveTrackingTakeover.cfg` (`MCLiveTracking`) | `RegisteredDriverIsLive` | `removeSession` retires by bus code: the callback of a driver's old socket removes the bus the new session has just put on the map. The next ping makes a new one without route and occupancy |
| `LiveTrackingGhostBus.cfg` (`MCLiveTracking`) | `NoGhostBus` | a ping or registration past its session access puts the bus back after the session was removed; the sweeper goes by sessions and never finds it |
| `LiveTrackingAlertName.cfg` (`MCLiveTracking`) | `AlertNamesNearBus` | `pendingProximityAlerts` reads `trackingBusCode` again for the alert (`LiveTrackingService.java:375`): a `track-bus` between the reads makes it say that the other bus is near, and the cooldown keeps the true alert back ("Riders who follow a bus that is now within ... km", `LiveTrackingService.java:349`) |
| `HandlerGhostMarker.cfg` (`MCBusTracking`) | `NoGhostMarker` | messages composed before a departure and sent after its `driver-left`, and departures while the rider is away, leave a marker (`SYSTEM_DESIGN.md:226-227`) |
| `HandlerSlowRider.cfg` (`MCFarewells`) | `FarewellsReachRiders` | `SessionLimitExceededException` is unchecked and leaves the loop over recipients: the riders after the slow one miss `driver-left` (`SYSTEM_DESIGN.md:221`) |
| `AdminStaleList.cfg` (`MCAdminPage`) | `DeletedRowStaysAway` | a reload that began before a deletion and ends after the deletion's own reload shows the row again (`S/admin.js:3`) |
| `RiderMissedAlert.cfg` (`MCRiderPage`) | `NoMissedAlert` | the alert is checked only where the panel shows minutes: a bus whose next report is already at the rider rings nothing (`S/assist.js:9-10`) |
| `RiderBead.cfg` (`MCRiderPage`) | `BeadIsOnItsRoute` | a diagram of a route alone takes the position of every bus that is reported: chosen while the socket was down, the bead is of another route's bus (`README.md:28`) |
| `DriverCrowding.cfg` (`MCDriverPage`) | `CrowdingIsRebuilt` | a registration makes a bus without crowding, and the page sends it on the button only: after a reconnection the lit button is not what riders see (`SYSTEM_DESIGN.md:224-225`) |
| `PlannerLoopRoute.cfg` (`MCPlannerPage`) | `RidesAreDrawn` | `rideLegWaypoints` finds the ends of a ride by the first stop of the name: on a circular route a ride to the last stop is drawn back to the first one, through stops the bus does not pass (`S/planner.js:321`) |

One more observation without a configuration: where the best stop to get off at is
reached without a ride, `planTransit` answers that there is no plan
(`JourneyPlannerService.java:350`) although another stop is reached by one.
`PlanIsFastest` is therefore about plans that are given.

### Bounds, and why they are enough

* `registry`: two connections with the same token are the smallest instance in
  which a session and a removal of another session of the same bus meet, which is
  every interference of the two maps: all conditions are about one bus and at most
  two users of it (the proof shows the same for any number).  The second bus is
  claimed by no token, so an intrusion would be seen.  There are no occupancy levels in this run; the
  `registry_riders` run has one.
* `registry_riders` (920 thousand): one bus, one driver, one rider, one route and one
  level.  The loop of the alerts takes one rider after the other, and what it knows of
  one is over before the next: one rider and the bus it tracks meet every interference.
* `farewells` (1.2 million): one driver, one rider, one bus; `MaxCallbacks = 1`,
  `MaxStalls = 0`, and the broadcaster looks for alerts only while no sweep is under way
  (`AlertsAside` of `MCFarewells`), since alerts change no rider's map.  A farewell concerns one bus and one rider's map; the threads
  that can disturb it (frames, callback, sweeper, broadcaster) are all there.
  `MaxCallbacks` bounds how often a closing socket calls `cleanup`; the second call
  finds no session, and the theorem of section 4 holds for any bound.
* `broadcast`: three connections, restricted by `SteadyStep` of
  `MCBusTracking` to the situation asked about: nobody falls silent,
  the driver does not hide, the first rider stays and reads, the second comes and
  goes and may stop reading once for good.  `MaxStalls = 1`.  (A rider who could
  stall again and again, with a new socket in every round, could make every round
  fail: that is the flaw `HandlerSlowRider.cfg` shows, and the liveness run excludes
  it.  For the same reason `farewells` has no stalled sockets: the exception leaves
  the sweeper's loop over evicted sessions too.)

* `catalog`, `stale_graph`: two clients, two ids, two numbers, one bus,
  `MaxVersion = 1`.  Each property is about one request that another overlaps; two
  ids and numbers make a clash of numbers possible, and one update of a route is
  enough for another to have loaded the version before it.  Clients, ids and numbers
  are interchangeable and `catalog` uses that symmetry (it checks safety only).
* `lost_edit`: two administrators, one route, one number, `MaxVersion = 2` for one
  update each.
* `rider_page` (1.9 million states): two buses of two routes, so that every remainder
  of one choice can meet another.  The places are before, at and after the rider, the
  road of one route begins by going back so that an estimate changes when it comes;
  at 4 minutes a kilometre every bus on its way is near enough for an alert.
  `MaxCalls = 2` lets two callbacks of one road wait, of the same or of two buses.
* `driver_page` (545 thousand): one account, another driver to be seen, one level.
  `MaxUp = 2` lets a message be sent behind one that is not served, `MaxDown = 1` lets an
  answer come after the driver has hidden the others.  One lost socket (`Lost`) lets its
  frames be served and its session be removed anywhere before, between and after what
  its successor does.  `CrowdingLast` of `MCDriverPage`: a page reports the crowding once
  and then sends nothing but registrations, as no property of the run reads it
  (`DriverCrowding.cfg` is without that bound).
* `admin_page` (355 thousand): forms and requests of different tables share no state
  but the session, so one table with two rows and the dialog have every interference;
  `MaxAsked = 2` lets an answer come before an earlier one.  Ids are not given out
  again.  The two rows are interchangeable (safety only).
* `planner`, `board_clock` (368 thousand): in the town of `MCPlannerPage` two routes
  are a transfer apart, the second passes stops of the third, which turns back; ties
  between candidates, more stops within reach than `MaxCandidates`, two rides, walks that beat the bus, two transfers in a row and places from
  which there is no plan all occur among its searches.

Deadlock is not checked: with no page open the server rests, a catalogue whose
ids and versions are used up has nothing left to write, and a page waits for its user.

### Fairness

`registry` assumes weak fairness of `SweepStep`, `broadcast` of `CasterRuns`:
`@Scheduled(fixedRate = ...)` keeps starting both jobs, and neither waits for
anything a page does (a send is bounded by the decorator's limit and the
container's write timeout, and a job that throws is scheduled again).  Pages are
not assumed to do anything.

`driver_page` assumes `WF(Retry)`, since the 5 s timer of `onclose` is always set, and
`WF(HandleOtherDrivers)`, since a page handles what has come.  Connecting and serving
are strongly fair: the network may refuse or cut any number of sockets, but among
sockets opened again and again one is accepted and one lives until its first message
is served.  Weak fairness would say nothing here, as `Lose` disables both.  No action
of the driver is fair.

## 4. What is proved

`LiveTrackingProofs`, for every value of the constants that meets
`ConstantsAssumption` (tokens name a driver and a bus, every page is a token's or a
rider's) and `NoneAssumption` (`None` is none of the other values):

* `TypeCorrect`, `HTypeCorrect`: type correctness, action by action, with lemmas
  for the shapes most actions share (a session is written, a frame begins or ends,
  a bus is retired).
* `NobodyImpersonates`: `Spec => []NoImpersonation`.  By itself the property is not
  inductive: a frame in service carries the bus it will put on the map.  `PageOK`
  adds that a session and a frame agree with the token of the page, and `LiveOK`
  follows step by step.
* `RegistryExact`: `HSpec => []RegistryTracksSessions`.  The inductive invariant is
  `TrackInv`: a contest under way is recorded, and on a bus without one a live bus
  has a session or a removal under way, a driver session that is not just
  registering has its bus, and a frame about to put the bus on the map has a session
  for it.  The third part is what a removal between the two halves of a ping would
  break, and the reason it counts as a contest.  `TrackStep` shows that steps keep it where
  no contest was or begins, `CleanStep` that a clean registration
  re-establishes it after one.
* `LastWordStands`: `HSpec => []LastWordOnVisibility`.  The word is taken from the frame
  first and written to the bus some steps later, and the bus may be retired or made
  anew in between.  `WordInv` therefore says where the word is (`WordOnItsWay`): in
  the frame being served until the write, which is to the object in the map, and in the
  flag of the live bus afterwards.  It also says that only a driver who is alone on the
  bus has a word that counts, and `HeldBus` that a live bus without a contest carries
  the driver of one of its sessions, so that an update by another driver's name cannot
  be in the way.
* `HiddenBusIsNotAlerted`: `HSpec => []NoAlertOfHiddenBus`.  By `LastWordStands` the flag
  of a quiet bus is FALSE; but the loop reads the flag of the state it got, and that may
  have been replaced.  `QuietInv` says that it has not: whoever puts the bus on the map or
  takes it off ends its quiet (`OthersAndAlerts`).  So `CheckVisible` answers no, and the
  loop is never about to raise an alert of a quiet bus.

`BusTrackingHandlerProofs`, where the constants also meet `MailAssumption` (`None` is
no message):

* `HandlerKeepsIdentity`: `HandlerSpec => [](TypeOK /\ NoImpersonation)`, although a
  registration may be put down after its socket is gone.  A run of the endpoint is a run
  of the registry (`RegistryRuns`), so what was proved of the registry holds.
* `EndpointTypes`: type correctness of sockets, mail, views and the history variable.
* `EvictedSocketsClose` and `EveryFarewellIsSent`:
  `HandlerSpec /\ []EverybodyReads => []EvictedSocketIsClosed`, and the same of
  `FarewellsReachRiders`.  The hypothesis `EverybodyReads` says that no socket is
  stalled; `NoStallsAllowed` proves it from `MaxStalls = 0`, the bound of the run.  It
  cannot be dropped: with a stalled socket both are false of the code, as
  `HandlerSlowRider.cfg` shows.  `SocketInv` strengthens the first: a page
  that registered and has no session any more is among those the sweeper has still to
  take leave of (`Gone`), once, or is the one it is parting from; and nobody who has a
  session is.  `SweepOrder` says that the registry's loop begins with an empty list and
  hands over all it evicted.  `FarewellInv` strengthens the second: no thread overwrites a
  `driver-left` that is being sent, and the excuses of a page that is not watching are
  all it shows.

`RouteCatalogProofs`, under `CatalogAssumption` and `RowAssumption` (the null value is
none of the others; versions are naturals):

* `CatalogTypeCorrect`, `HistoryTypeCorrect`: type correctness, without and with the
  history variables; `CallOK` says what a request holds at each of its steps.
* `NumbersStayUnique`, `ReferencesStayIntact`: inductive by themselves, since only a
  commit and an assignment write the tables (`OnlyCommitWrites`, `CommitWrites`).
* `CacheIsCurrent`, `GraphIsCurrent`: `HSpec => []CacheFollowsRoutes` and
  `HSpec => []GraphFollowsRoutes`.  A put or a commit decides the first one.
  `GraphInv` strengthens the second: while an unspoilt graph is
  there, no write that has published its event has still to commit.
* `NoUpdateLost`: `HSpec => NoUpdateIsLost`.  `LoadInv` says that a route which still
  has the version a write has loaded is the row it has loaded.  It needs that versions
  grow, and that an id is used for one creation, or a new row of version 0 could pass
  for the one that was loaded.

`RiderPageProofs`, under `PageAssumption` (buses go on routes, and the road of a route
is a sequence of integers):

* `PageTypes`: `Spec => []TypeOK`.  The one value that is not copied from somewhere is
  the row of the line diagram.  `RowOfDiagram` shows that it is a row of the route
  whatever the kilometres are: row 1 is always among those passed, the others lie below
  `Len`, and a bounded set of naturals has a greatest one (`MaxIsGreatest` of
  `FoldLemmas`).
* `OneChoiceAlways`, `EtaIsOfOneBusAlways`, `ChoiceIsHeardAlways`.  The inductive
  invariant `Inv` joins the three with the shape of the state: an estimate in minutes
  is there only once network and position are, so that a recomputation of it cannot
  fall through, and a panel about a bus has a route.  Nothing depends on distances:
  `CalculatedIsAbout` says which bus and route a recomputation writes for, whatever it
  computes.
* `PageImplementsAlert`: `Spec => AlertSpec`.  Every handler makes one step of
  `ArrivalAlert` or none; what has to be shown is that `Calculated`, called from three
  places, rings only for the bus that is tracked, which is `EtaIsOfOneBus`.

`DriverPageProofs`, under `DriverPageAssumption`:

* `DriverTypes`, `HiddenOthersStayHiddenAlways`.
* `VisibilityFollowsToggleAlways`.  The property speaks of the moment when nothing is
  on its way, so the inductive invariant `WordInv` must say what is on its way: the
  last message of `up` that carries a visibility carries that of the toggle, and if
  there is none, no lost socket has a session and the bus has been placed, the bus has it
  already.  Serving the head of the queue keeps it by lemmas on the last word of a queue
  and of its tail.  The removal of the last old session takes the bus with it, so that no
  word of an old socket survives (`RemovedStep`).
* `LogoutEndsBroadcastAlways`.  `HeldInv`: a live bus is held by the session of the page's
  own socket, and then carries its user, or by that of a lost one.  `RegisteredInv` and
  `ClosedInv`: without a user the socket of the page has no session and no registration is
  on its way, although the socket may be opened.

`AdminPageProofs`, under `AdminAssumption`:

* `AdminTypes`, `OneIntervalAlways`, `SavesGoHome`, `DeletionsAreNamed`,
  `NoButtonIsStuck`: `TypeOK` and the four properties.  A writer that waits for its
  reload owns it, so an answer of one writer leaves the others' equivalence alone;
  `OneInterval` holds because every start stops the interval first.

`FoldLemmas` holds what the planner's proofs need of recursion.  The induction
theorems of the libraries cannot be instantiated, so induction is stated with sets:
a set that holds 0 and with every number the next one holds all (`NumbersAreReached`,
from the well-foundedness of the naturals), and likewise for the subsets of a finite
set (`SubsetsAreReached`).  A fold is a function chosen for satisfying an equation;
`FoldExists` and `LeftFoldExists` show that there is one if the operator maps a set to
itself, `FoldStaysIn` that its values are in a set if each element keeps them there.
For sums over a finite set, `SumTakesAny` shows that it does not matter which element is
taken first, although the definition takes a chosen one.

`PlannerProofs`, under `NetworkAssumption` (a route has at least two stops and a road of
at least two points, which are integers, and a wait, a natural number),
`CostAssumption` (costs are natural numbers, and a stop on the way takes a minute or
more), `NoneAssumption` (`None` is no stop) and `PlannerAssumption` (stops, spots and
homes are places, which are integers other than `None`):

* `LegsAlwaysConnect`: `Spec => []LegsConnect`, for any network and any two points.
  - The search: by `SearchOK`, nothing in the queue is nearer than what was taken out of
    it.  So what was taken out is never improved, and the time of a stop stays what it
    was made of: the walk to it and the wait, or the time of its predecessor and the
    minutes of the edge.  Predecessors do not go in circles, which is said without a
    path: each set of stops that are reached has one whose predecessor lies outside.
    `PollOK` shows that a poll keeps all this.  `Alight` is the first of least time, of
    a set that is finite (`AlightIsReached`).
  - The chain: followed back from there, the predecessors are a way that passes no stop
    twice (`ChainIsSimple`).  It is no longer than there are stops (`ChainIsShort`), so
    the bound of `Chain` cuts nothing off and it begins at a stop reached on foot
    (`ChainLeads`).  Its rides do not turn back (`RidesGoOn`), since that would reach a
    stop again, later than it was reached: this is where a ride must take time.  So a
    ride of n hops passes n stops.
  - The legs: `HopOK` is the loop invariant of the folding: the legs so far are a way to
    the stop where the ride under way began, and the last of them is a walk.
    `HopStep` has a case for each of the kinds of hop, and `TransitConnects` adds the
    walk to the destination.
* `TimesAlwaysAddUp`: `Spec => []TimesAddUp`.  `TimeOK` is a second loop invariant: the
  waits and minutes of the legs, with the minutes waited in vain, are the time at which
  the last ride ends, or at which the one under way begins, less the wait for it.
  `HopTime` has the same cases as `HopStep`.  A ride's minutes are the sum of those of
  its hops, which telescopes to the difference of two times of the search (`RideTakes`),
  and only a walk after a walk adds to what is waited in vain (`OneMoreLasts`).
* `ChangesAlwaysAnnounced`: `Spec => []ChangesAreAnnounced`, for any network, with
  circular routes or not.  `CountOK`, a third loop invariant, says that there is a walk
  for each transfer besides the first one (`HopCounts`), and without two walks in a row
  all but the first and the last are between rides (`ChangesAreCounted`).
* `RidesAreFastest`: `Spec => []NothingIsFaster`.  A plan with a ride takes no longer than
  any way from a stop in reach of the origin, along the edges, to a stop in reach of the
  destination, and less than a walk that is offered.  By `SearchOK` no edge from a stop
  taken out comes earlier than the time of the stop it leads to.  A poll takes out one
  stop more, so after as many polls as there are stops the queue is empty
  (`SearchFinds`), and an induction along the way shows that the search is at each of its
  stops as early (`StopsAreNearest`).
* `PlannerTypes`: what is chosen is always on offer, and what is asked for is a place.
  `ResolvedIsPlace` shows the latter of the three kinds of choice.
* `LegsGoWithThePlan`: `Spec => []LegsAreOfThePlan`: on every path an answer takes, the
  legs of an older plan are gone.
* `SwappingExchanges`: `Spec => SwapExchanges`, from the types of the choices.

Checked by TLC only:

* the liveness properties `SilentSessionsAreSwept`, `VisibleBusReachesRider` and
  `DriverReregisters`: the prover does not handle fairness;
* `RidesAreDrawn`, which is false of circular routes;
* `PlanIsFastest`, which says besides `RidesAreFastest` what a plan without a ride is
  compared with: the best way with a ride, by relaxation of all edges.  That is about the
  town of the run and not about every network, since where the fastest way to the
  destination changes stops on foot and never rides, the service considers no other way
  with a ride before it offers the walk.

## 5. Not modelled

* **Login rate limiter**: fixed windows over wall-clock time in a map of its own, which
  no other component reads.
* **Alert feed** on the server: a list behind a 30 s cache whose expiry is computed
  when it is read.  The administrator's side of alerts is a table of `AdminPage`.
* **Tokens**: signing is a library's.  That the bus claim of a token is frozen at login
  is part of the registry's model (`NoImpersonation` is about the claim).
* **Speeds** (`TelemetryBuffer`): a mean of real numbers over real time; the pages take
  a speed as a constant.
* **Road cache and service worker**: stores of opaque values in which the last writer
  wins.  `RiderPage` has the arrival of a road and everything that waits for it.
* **Timetables, fares, saved routes, sharing** of `S/assist.js`: texts computed from
  constants; a saved route's button is `ChooseLater`.
* **Fields of forms**, validation, the table of live buses on the administration page.
* **What drivers are told of each other** beyond `other-drivers`: the endpoint sends
  `driver-left` to riders only, so a driver's page never takes another's marker down.
* Presentation scripts, the chat bot, seeding and the load test keep no state another
  part depends on; controllers, DTOs and repositories pass through.

What a next step could add: the driver's page composed with the registry itself instead
of the server's side in `DriverPage`, which takes a frame and a removal as one step each
and leaves the eviction of a silent driver to the registry.
