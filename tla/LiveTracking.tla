---------------------------- MODULE LiveTracking ----------------------------
(***************************************************************************)
(* The in-memory registry of live buses: LiveTrackingService.java.         *)
(*                                                                         *)
(* Two ConcurrentHashMaps are shared by every thread of the server:        *)
(*   sessions    WebSocket session id -> ClientSession                     *)
(*   liveBuses   bus code             -> LiveBusState                      *)
(* Each map operation is atomic, but the service methods are not: one      *)
(* method makes several map operations and field writes, and four kinds    *)
(* of thread interleave between them:                                      *)
(*   io[c]     the thread serving the frames of connection c, one at a     *)
(*             time (the container serialises a connection's frames);      *)
(*   rem[c]    the close / transport-error callback of c: removeSession;   *)
(*   sweep     the scheduled evictStaleSessions;                           *)
(*   alerts    the scheduled pendingProximityAlerts.                       *)
(* A step below is one atomic access to shared state; accesses whose order *)
(* no other thread can observe are merged, as each action says.            *)
(*                                                                         *)
(* Time is abstracted to two facts: a session's lastSeen is older than the *)
(* stale timeout ("stale"), its lastProximityAlert is younger than the     *)
(* cooldown ("cooling").  Positions are abstracted to "has one".           *)
(***************************************************************************)
EXTENDS FiniteSets

CONSTANTS
    Conn,       \* WebSocket session ids
    Token,      \* JWTs issued to drivers
    DriverOf,   \* DriverOf[t]: the subject of token t
    BusOf,      \* BusOf[t]: the busCode claim of token t, frozen at issue
    Bus,        \* bus codes
    Route,      \* route numbers
    RouteOf,    \* RouteOf[b]: the route the database has for b, or None
    Level,      \* occupancy levels
    Rider,      \* the page of a rider
    Page,       \* Page[c]: the driver token of the page behind c, or Rider
    None

Driver == {DriverOf[t] : t \in Token}

\* What ClientSession remembers of a connected driver or rider.
Session ==
    [type     : {"DRIVER", "USER"},
     driver   : Driver \union {None},      \* clientId of a driver
     bus      : Bus \union {None},         \* busCode
     stale    : BOOLEAN,                   \* lastSeen < now - timeout
     tracking : Bus \union {None},         \* trackingBusCode
     wants    : Route \union {None},       \* subscribedRouteNumber
     cooling  : BOOLEAN]                   \* now - lastProximityAlert < cooldown

\* What LiveBusState holds of a bus on the air.
LiveBus ==
    [driver    : Driver,
     route     : Route \union {None},      \* routeNumber, null when recreated
     point     : BOOLEAN,                  \* latest().isPresent()
     visible   : BOOLEAN,
     occupancy : Level \union {None}]

\* The locals of a frame being served.  "attached" says that the LiveBusState
\* the thread holds is still the one liveBuses maps its bus to.
Frame ==
    [pc       : {"idle", "reg", "loc", "vis", "occ", "hide"},
     driver   : Driver \union {None},
     bus      : Bus \union {None},
     shown    : BOOLEAN,
     level    : Level \union {None},
     attached : BOOLEAN]

\* A session returned by a removal, of which riders are still to be told.
Goodbye == [conn : Conn, driver : Driver \union {None}, bus : Bus \union {None}]

Sweep ==
    [pc      : {"idle", "scan", "remove", "retire"},
     todo    : SUBSET Conn,
     victim  : Conn \union {None},
     bus     : Bus \union {None},
     evicted : SUBSET Goodbye]

\* A proximity alert: the bus that was found near the rider, the one it names.
Alert == [rider : Conn, near : Bus, names : Bus \union {None}]

\* "attached" as in Frame, of the state got for the rider's bus; "orphan" is the
\* trackingBusCode of the rider's session once that is no longer registered.
Alerts ==
    [pc       : {"idle", "scan", "got", "seen"},
     todo     : SUBSET Conn,
     rider    : Conn \union {None},
     bus      : Bus \union {None},
     attached : BOOLEAN,
     orphan   : Bus \union {None},
     due      : SUBSET Alert]

ASSUME ConstantsAssumption ==
    /\ DriverOf \in [Token -> {DriverOf[t] : t \in Token}]
    /\ BusOf \in [Token -> Bus]
    /\ RouteOf \in [Bus -> Route \union {None}]
    /\ Page \in [Conn -> Token \union {Rider}]
    /\ Rider \notin Token

ASSUME NoneAssumption ==
    /\ None \notin Conn /\ None \notin Bus /\ None \notin Route
    /\ None \notin Level /\ None \notin Driver /\ None \notin BOOLEAN
    /\ None \notin Session /\ None \notin LiveBus

VARIABLES
    sessions,   \* sessions[c]: the ClientSession of c, or None
    live,       \* live[b]: the LiveBusState liveBuses maps b to, or None
    io,         \* io[c]: the frame c's thread is serving
    rem,        \* rem[c]: the bus the close callback of c still has to retire
    sweep,      \* the locals of evictStaleSessions
    alerts      \* the locals of pendingProximityAlerts

vars == <<sessions, live, io, rem, sweep, alerts>>

TypeOK ==
    /\ sessions \in [Conn -> Session \union {None}]
    /\ live \in [Bus -> LiveBus \union {None}]
    /\ io \in [Conn -> Frame]
    /\ rem \in [Conn -> Bus \union {None}]
    /\ sweep \in Sweep
    /\ alerts \in Alerts

Serving(pc, d, b, shown, level) ==
    [pc |-> pc, driver |-> d, bus |-> b, shown |-> shown, level |-> level, attached |-> FALSE]

IdleFrame == Serving("idle", None, None, TRUE, None)

IdleSweep == [pc |-> "idle", todo |-> {}, victim |-> None, bus |-> None, evicted |-> {}]

IdleAlerts == [pc |-> "idle", todo |-> {}, rider |-> None, bus |-> None, attached |-> FALSE,
               orphan |-> None, due |-> {}]

Init ==
    /\ sessions = [c \in Conn |-> None]
    /\ live = [b \in Bus |-> None]
    /\ io = [c \in Conn |-> IdleFrame]
    /\ rem = [c \in Conn |-> None]
    /\ sweep = IdleSweep
    /\ alerts = IdleAlerts

-----------------------------------------------------------------------------
(* Helpers.                                                                *)

Registered(c) == sessions[c] # None
IsDriver(c) == Registered(c) /\ sessions[c].type = "DRIVER"
IsUser(c) == Registered(c) /\ sessions[c].type = "USER"

NewDriverSession(t) ==
    [type |-> "DRIVER", driver |-> DriverOf[t], bus |-> BusOf[t], stale |-> FALSE,
     tracking |-> None, wants |-> None, cooling |-> FALSE]

NewUserSession ==
    [type |-> "USER", driver |-> None, bus |-> None, stale |-> FALSE,
     tracking |-> None, wants |-> None, cooling |-> FALSE]

\* (mutant: the visible flag has no initialiser)
NewBusUnset(d, r) == [driver |-> d, route |-> r, point |-> FALSE, visible |-> None,
                      occupancy |-> None]

\* A fresh LiveBusState: visible, nothing reported yet.
NewBus(d, r) == [driver |-> d, route |-> r, point |-> FALSE, visible |-> TRUE,
                 occupancy |-> None]

\* liveBuses no longer maps b to the object threads may hold: their later
\* writes go to an object nobody reads.
Detach(frames, b) ==
    [c \in Conn |-> IF frames[c].pc = "vis" /\ frames[c].bus = b
                    THEN [frames[c] EXCEPT !.attached = FALSE]
                    ELSE frames[c]]

\* What the loop of the alerts holds is no longer what the maps hold.
Unmapped(b) == IF alerts.bus = b THEN [alerts EXCEPT !.attached = FALSE] ELSE alerts
Orphaned(c) ==
    IF alerts.rider = c /\ alerts.orphan = None
    THEN [alerts EXCEPT !.orphan = sessions[c].tracking]
    ELSE alerts

\* Every operation that records traffic sets lastSeen to now.
Heard(c) == sessions' = [sessions EXCEPT ![c].stale = FALSE]

\* snapshotVisibleBuses: the buses a rider is shown.
Published(b) == live[b] # None /\ live[b].visible /\ live[b].point
VisibleBuses == {b \in Bus : Published(b)}

Idle(c) == io[c].pc = "idle"
-----------------------------------------------------------------------------
(* Frames of a driver.                                                     *)

\* (mutant: the bus comes from the payload)
RegisterAnyBus(c, t) ==
    /\ Idle(c) /\ Page[c] = t
    /\ \E b \in Bus :
         /\ sessions' = [sessions EXCEPT ![c] = [NewDriverSession(t) EXCEPT !.bus = b]]
         /\ io' = [io EXCEPT ![c] = Serving("reg", DriverOf[t], b, TRUE, None)]
    /\ UNCHANGED <<live, rem, sweep, alerts>>

\* driver-register, first half: identity comes from the token, never from the
\* payload; sessions.put replaces whatever the connection had.
RegisterDriver(c, t) ==
    /\ Idle(c) /\ Page[c] = t
    /\ sessions' = [sessions EXCEPT ![c] = NewDriverSession(t)]
    /\ io' = [io EXCEPT ![c] = Serving("reg", DriverOf[t], BusOf[t], TRUE, None)]
    /\ UNCHANGED <<live, rem, sweep, alerts>>

\* driver-register, second half: liveBuses.put replaces the bus's state by a
\* new one, whatever another session had reported for it.
PutBus(c) ==
    /\ io[c].pc = "reg"
    /\ LET b == io[c].bus
       IN /\ live' = [live EXCEPT ![b] = NewBus(io[c].driver, RouteOf[b])]
          /\ io' = [Detach(io, b) EXCEPT ![c] = IdleFrame]
          /\ alerts' = Unmapped(b)
    /\ UNCHANGED <<sessions, rem, sweep>>

\* driver-location: the session check and its lastSeen.  (A frame of a
\* connection with no driver session is refused and changes nothing.)
BeginLocation(c, shown) ==
    /\ Idle(c) /\ IsDriver(c)
    /\ Heard(c)
    /\ io' = [io EXCEPT ![c] = Serving("loc", sessions[c].driver, sessions[c].bus, shown, None)]
    /\ UNCHANGED <<live, rem, sweep, alerts>>

\* get, else computeIfAbsent with a state that has no route; then addPoint.
\* A point added to a state unmapped in between is lost with it, so the two
\* accesses are one step.
AddPoint(c) ==
    /\ io[c].pc = "loc"
    /\ LET b == io[c].bus
           state == IF live[b] = None THEN NewBus(io[c].driver, None) ELSE live[b]
       IN live' = [live EXCEPT ![b] = [state EXCEPT !.point = TRUE]]
    /\ io' = [io EXCEPT ![c].pc = "vis", ![c].attached = TRUE]
    /\ UNCHANGED <<sessions, rem, sweep, alerts>>

\* (mutant: "visible || true", the slip the page's comment warns of)
SetVisibleOnly(c) ==
    /\ io[c].pc = "vis"
    /\ live' = IF io[c].attached /\ io[c].shown
               THEN [live EXCEPT ![io[c].bus].visible = TRUE]
               ELSE live
    /\ io' = [io EXCEPT ![c] = IdleFrame]
    /\ UNCHANGED <<sessions, rem, sweep, alerts>>

\* The visibility flag of the same frame, written after its point.
SetVisible(c) ==
    /\ io[c].pc = "vis"
    /\ live' = IF io[c].attached
               THEN [live EXCEPT ![io[c].bus].visible = io[c].shown]
               ELSE live
    /\ io' = [io EXCEPT ![c] = IdleFrame]
    /\ UNCHANGED <<sessions, rem, sweep, alerts>>

\* driver-occupancy: the session check ...
BeginOccupancy(c, level) ==
    /\ Idle(c) /\ IsDriver(c)
    /\ io' = [io EXCEPT ![c] = Serving("occ", None, sessions[c].bus, TRUE, level)]
    /\ UNCHANGED <<sessions, live, rem, sweep, alerts>>

\* ... and the write, which a bus that left the map meanwhile does not get;
\* only a write that happened counts as traffic.
WriteOccupancy(c) ==
    /\ io[c].pc = "occ"
    /\ LET b == io[c].bus
       IN IF live[b] = None
          THEN UNCHANGED <<live, sessions>>
          ELSE /\ live' = [live EXCEPT ![b].occupancy = io[c].level]
               /\ IF Registered(c) THEN Heard(c) ELSE UNCHANGED sessions
    /\ io' = [io EXCEPT ![c] = IdleFrame]
    /\ UNCHANGED <<rem, sweep, alerts>>

\* driver-visibility: the session check (lastSeen is left alone) ...
BeginVisibility(c, shown) ==
    /\ Idle(c) /\ IsDriver(c)
    /\ io' = [io EXCEPT ![c] = Serving("hide", sessions[c].driver, None, shown, None)]
    /\ UNCHANGED <<sessions, live, rem, sweep, alerts>>

\* ... and setDriverVisibility: every bus that carries this driver's id.
WriteVisibility(c) ==
    /\ io[c].pc = "hide"
    /\ live' = [b \in Bus |->
                  IF live[b] # None /\ live[b].driver = io[c].driver
                  THEN [live[b] EXCEPT !.visible = io[c].shown]
                  ELSE live[b]]
    /\ io' = [io EXCEPT ![c] = IdleFrame]
    /\ UNCHANGED <<sessions, rem, sweep, alerts>>

-----------------------------------------------------------------------------
(* Frames of a rider, and ping.  Each reads its session and writes fields  *)
(* of it; a session removed in between takes the write with it, so each is *)
(* one step.                                                               *)

RegisterUser(c) ==
    /\ Idle(c) /\ Page[c] = Rider
    /\ sessions' = [sessions EXCEPT ![c] = NewUserSession]
    /\ alerts' = Orphaned(c)
    /\ UNCHANGED <<live, io, rem, sweep>>

\* Any session will do, but only a rider's page sends track-bus.
TrackBus(c, b) ==
    /\ Idle(c) /\ Registered(c) /\ Page[c] = Rider
    /\ sessions' = [sessions EXCEPT ![c].tracking = b, ![c].stale = FALSE]
    /\ UNCHANGED <<live, io, rem, sweep, alerts>>

\* r = None is the whole network again.
SubscribeRoute(c, r) ==
    /\ Idle(c) /\ IsUser(c)
    /\ sessions' = [sessions EXCEPT ![c].wants = r, ![c].stale = FALSE]
    /\ UNCHANGED <<live, io, rem, sweep, alerts>>

\* ping, and user-location: the rider's coordinates are data of the distance
\* alone (see RaiseAlert).
Touch(c) ==
    /\ Idle(c) /\ Registered(c)
    /\ Heard(c)
    /\ UNCHANGED <<live, io, rem, sweep, alerts>>

-----------------------------------------------------------------------------
(* pendingProximityAlerts, every 10 s: whether a rider has coordinates, and *)
(* is near, is left open.                                                  *)

\* The loop meets a session that comes or goes while it runs, or does not; a
\* driver's is passed over at once.
StartAlerts ==
    LET riders == {c \in Conn : Page[c] = Rider}
    IN /\ alerts.pc = "idle" /\ riders # {}
       /\ alerts' = [IdleAlerts EXCEPT !.pc = "scan", !.todo = riders]
       /\ UNCHANGED <<sessions, live, io, rem, sweep>>

NextRider == [alerts EXCEPT !.pc = "scan", !.rider = None, !.bus = None, !.attached = FALSE,
                            !.orphan = None]

\* A rider told within the cooldown is passed over.  Nobody else writes the time
\* of the last alert, and a bus once tracked is never none again: the session's
\* fields, and liveBuses.get, are one step.
VisitRider(c) ==
    /\ alerts.pc = "scan" /\ c \in alerts.todo
    /\ LET rest == [alerts EXCEPT !.todo = @ \ {c}]
           b == sessions[c].tracking
       IN \/ alerts' = rest
          \/ /\ IsUser(c) /\ b # None /\ ~ sessions[c].cooling /\ live[b] # None
             /\ alerts' = [rest EXCEPT !.pc = "got", !.rider = c, !.bus = b, !.attached = TRUE]
    /\ UNCHANGED <<sessions, live, io, rem, sweep>>

\* (mutant: isVisible is not asked)
SkipVisible ==
    /\ alerts.pc = "got"
    /\ alerts' = [alerts EXCEPT !.pc = "seen"]
    /\ UNCHANGED <<sessions, live, io, rem, sweep>>

\* isVisible, of the state the loop got; one that was replaced may say either.
CheckVisible ==
    /\ alerts.pc = "got"
    /\ LET b == alerts.bus
       IN \/ (alerts.attached => live[b].visible) /\ alerts' = [alerts EXCEPT !.pc = "seen"]
          \/ (alerts.attached => ~ live[b].visible) /\ alerts' = NextRider
    /\ UNCHANGED <<sessions, live, io, rem, sweep>>

\* A state that has a position keeps it, so latest is read with the rest.  The
\* alert names the bus the rider's session tracks by now.
RaiseAlert ==
    /\ alerts.pc = "seen"
    /\ alerts.attached => live[alerts.bus].point
    /\ LET c == alerts.rider
           names == IF alerts.orphan = None THEN sessions[c].tracking ELSE alerts.orphan
       IN /\ alerts' = [NextRider EXCEPT
                          !.due = @ \union {[rider |-> c, near |-> alerts.bus, names |-> names]}]
          /\ sessions' = IF alerts.orphan = None
                         THEN [sessions EXCEPT ![c].cooling = TRUE]
                         ELSE sessions
    /\ UNCHANGED <<live, io, rem, sweep>>

TooFar ==
    /\ alerts.pc = "seen"
    /\ alerts' = NextRider
    /\ UNCHANGED <<sessions, live, io, rem, sweep>>

\* The list goes to the caller.
EndAlerts ==
    /\ alerts.pc = "scan" /\ alerts.todo = {}
    /\ alerts' = IdleAlerts
    /\ UNCHANGED <<sessions, live, io, rem, sweep>>

-----------------------------------------------------------------------------
(* Removal: by the close callback of a connection, and by the sweeper.     *)

GoodbyeOf(c) == [conn |-> c, driver |-> sessions[c].driver, bus |-> sessions[c].bus]

\* removeSession, first half: sessions.remove hands the session to one caller.
RemoveSession(c) ==
    /\ rem[c] = None /\ Registered(c)
    /\ sessions' = [sessions EXCEPT ![c] = None]
    /\ rem' = [rem EXCEPT ![c] = sessions[c].bus]
    /\ alerts' = Orphaned(c)
    /\ UNCHANGED <<live, io, sweep>>

\* removeSession, second half: the bus is retired by its code, whichever
\* session's state the map now holds.
RetireBus(c) ==
    /\ rem[c] # None
    /\ live' = [live EXCEPT ![rem[c]] = None]
    /\ io' = Detach(io, rem[c])
    /\ rem' = [rem EXCEPT ![c] = None]
    /\ alerts' = Unmapped(rem[c])
    /\ UNCHANGED <<sessions, sweep>>

\* The scheduled sweep iterates over the sessions present when it starts.
\* (One registered later is fresh, so visiting it would change nothing.)
StartSweep ==
    /\ sweep.pc = "idle"
    /\ sweep' = [IdleSweep EXCEPT !.pc = "scan", !.todo = {c \in Conn : Registered(c)}]
    /\ UNCHANGED <<sessions, live, io, rem, alerts>>

\* (mutant: only riders are swept)
CheckStaleRiders(c) ==
    /\ sweep.pc = "scan" /\ c \in sweep.todo
    /\ sweep' = IF IsUser(c) /\ sessions[c].stale
                THEN [sweep EXCEPT !.todo = @ \ {c}, !.pc = "remove", !.victim = c]
                ELSE [sweep EXCEPT !.todo = @ \ {c}]
    /\ UNCHANGED <<sessions, live, io, rem, alerts>>

\* The check "lastSeen < cutoff" of one session.
CheckStale(c) ==
    /\ sweep.pc = "scan" /\ c \in sweep.todo
    /\ sweep' = IF Registered(c) /\ sessions[c].stale
                THEN [sweep EXCEPT !.todo = @ \ {c}, !.pc = "remove", !.victim = c]
                ELSE [sweep EXCEPT !.todo = @ \ {c}]
    /\ UNCHANGED <<sessions, live, io, rem, alerts>>

\* (mutant: the sweep removes the session but not its bus)
EvictSessionOnly ==
    /\ sweep.pc = "remove"
    /\ LET c == sweep.victim
       IN /\ sessions' = [sessions EXCEPT ![c] = None]
          /\ sweep' = [sweep EXCEPT !.pc = "scan", !.victim = None]
          /\ alerts' = Orphaned(c)
    /\ UNCHANGED <<live, io, rem>>

\* removeSession(session.sessionId): by id, and after the check.
EvictSession ==
    /\ sweep.pc = "remove"
    /\ LET c == sweep.victim
       IN IF Registered(c)
          THEN /\ sessions' = [sessions EXCEPT ![c] = None]
               /\ sweep' = [sweep EXCEPT
                              !.pc = IF IsDriver(c) THEN "retire" ELSE "scan",
                              !.victim = None,
                              !.bus = sessions[c].bus,
                              !.evicted = @ \union {GoodbyeOf(c)}]
               /\ alerts' = Orphaned(c)
          ELSE /\ sweep' = [sweep EXCEPT !.pc = "scan", !.victim = None]
               /\ UNCHANGED <<sessions, alerts>>
    /\ UNCHANGED <<live, io, rem>>

EvictBus ==
    /\ sweep.pc = "retire"
    /\ live' = [live EXCEPT ![sweep.bus] = None]
    /\ io' = Detach(io, sweep.bus)
    /\ sweep' = [sweep EXCEPT !.pc = "scan", !.bus = None]
    /\ alerts' = Unmapped(sweep.bus)
    /\ UNCHANGED <<sessions, rem>>

\* The sweep returns the sessions it evicted to its caller.
EndSweep ==
    /\ sweep.pc = "scan" /\ sweep.todo = {}
    /\ sweep' = IdleSweep
    /\ UNCHANGED <<sessions, live, io, rem, alerts>>

-----------------------------------------------------------------------------
(* The passing of time.                                                    *)

\* Two minutes without traffic on c; no frame takes that long to serve.
GoStale(c) ==
    /\ Idle(c) /\ Registered(c) /\ ~ sessions[c].stale
    /\ sessions' = [sessions EXCEPT ![c].stale = TRUE]
    /\ UNCHANGED <<live, io, rem, sweep, alerts>>

CoolDown(c) ==
    /\ IsUser(c) /\ sessions[c].cooling
    /\ sessions' = [sessions EXCEPT ![c].cooling = FALSE]
    /\ UNCHANGED <<live, io, rem, sweep, alerts>>

-----------------------------------------------------------------------------

DriverFrame(c) ==
    \/ \E t \in Token : RegisterDriver(c, t)
    \/ \E shown \in BOOLEAN : BeginLocation(c, shown) \/ BeginVisibility(c, shown)
    \/ \E level \in Level : BeginOccupancy(c, level)

\* The rest of a frame already begun.
ServeFrame(c) ==
    PutBus(c) \/ AddPoint(c) \/ SetVisible(c) \/ WriteOccupancy(c) \/ WriteVisibility(c)

RiderFrame(c) ==
    \/ RegisterUser(c)
    \/ \E b \in Bus : TrackBus(c, b)
    \/ \E r \in Route \union {None} : SubscribeRoute(c, r)

Removal(c) == RemoveSession(c) \/ RetireBus(c)

SweepStep ==
    StartSweep \/ (\E c \in Conn : CheckStale(c)) \/ EvictSession \/ EvictBus \/ EndSweep

AlertStep ==
    \/ StartAlerts \/ (\E c \in Conn : VisitRider(c))
    \/ CheckVisible \/ RaiseAlert \/ TooFar \/ EndAlerts

Passage(c) == GoStale(c) \/ CoolDown(c)

Next ==
    \/ \E c \in Conn : \/ DriverFrame(c) \/ RiderFrame(c) \/ Touch(c) \/ ServeFrame(c)
                       \/ Removal(c) \/ Passage(c)
    \/ SweepStep \/ AlertStep

Spec == Init /\ [][Next]_vars
=============================================================================
