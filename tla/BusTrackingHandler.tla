------------------------- MODULE BusTrackingHandler -------------------------
(***************************************************************************)
(* The WebSocket endpoint around the registry:                             *)
(* BusTrackingWebSocketHandler.java, and the map of the rider's page       *)
(* (script.js), which is what its messages are for.                        *)
(*                                                                         *)
(* A message is composed from the registry and then sent to one socket     *)
(* after the other, by whichever thread composed it: the thread of a       *)
(* connection's frames, the one of its close callbacks, the sweeper and    *)
(* the 10 s broadcaster.  Nothing orders the sends of two threads, so a    *)
(* rider may be told old news after newer one.  Sends to one socket arrive *)
(* in the order they are made, so a rider's map is updated as they are.    *)
(*                                                                         *)
(* A connection id stands for a page and its current socket: it opens a    *)
(* new socket when everything the server did for the last one is over.     *)
(* Acknowledgements, errors, pong and new-driver-available change no state *)
(* of a page that is modelled, and are left out.                           *)
(***************************************************************************)
EXTENDS LiveTracking, Integers

CONSTANTS
    MaxCallbacks,   \* bound: times a closing socket calls cleanup
    MaxStalls       \* bound: sockets at a time that stop reading for longer
                    \* than the send limit

ASSUME BoundsAssumption == MaxCallbacks \in Nat \ {0} /\ MaxStalls \in Nat

VARIABLES
    sock,       \* sock[c]: the socket, as the container sees it
    reads,      \* reads[c]: whether the peer keeps reading
    calls,      \* calls[c]: cleanup calls a closed socket has still to make
    mapped,     \* the keys of the handler's own sessions map
    entering,   \* connections whose registration is not put down yet
    mail,       \* mail[s]: the message thread s is sending, or None
    farewells,  \* evicted sessions the sweeper has still to take leave of
    parting,    \* the one it is taking leave of, if its socket was mapped
    caster,     \* the broadcaster
    view        \* view[c]: the bus markers on the rider's page of c

hwvars == <<sock, reads, calls, mapped, entering, mail, farewells, parting, caster, view>>
allvars == <<sessions, live, io, rem, sweep, alerts, sock, reads, calls, mapped, entering,
             mail, farewells, parting, caster, view>>

\* The threads that send.
FrameOf(c) == [of |-> "frame", conn |-> c]
CloseOf(c) == [of |-> "close", conn |-> c]
Sweeper == [of |-> "sweeper", conn |-> None]
Caster == [of |-> "caster", conn |-> None]
Thread == {FrameOf(c) : c \in Conn} \union {CloseOf(c) : c \in Conn} \union {Sweeper, Caster}

\* to = None: the recipients have not been read yet.
Mail == [type : {"active-buses", "bus-location-update", "driver-left", "proximity-alert"},
         buses : SUBSET Bus, route : Route \union {None}, to : (SUBSET Conn) \union {None}]

ASSUME MailAssumption == None \notin Mail

News(type, buses, route, to) == [type |-> type, buses |-> buses, route |-> route, to |-> to]

IdleCaster == [pc |-> "idle", users |-> {}, due |-> {}]

HandlerTypeOK ==
    /\ TypeOK
    /\ sock \in [Conn -> {"closed", "fresh", "registered"}]
    /\ reads \in [Conn -> {"yes", "stalled", "cut"}]
    /\ calls \in [Conn -> 0 .. MaxCallbacks]
    /\ mapped \subseteq Conn /\ entering \subseteq Conn
    /\ mail \in [Thread -> Mail \union {None}]
    /\ farewells \subseteq Goodbye
    /\ parting \in Conn \union {None}
    /\ caster \in [pc : {"idle", "snapshot", "alerts", "loop", "send"}, users : SUBSET Conn,
                   due : SUBSET Alert]
    /\ view \in [Conn -> SUBSET Bus]

HandlerInit ==
    /\ Init
    /\ sock = [c \in Conn |-> "closed"]
    /\ reads = [c \in Conn |-> "yes"]
    /\ calls = [c \in Conn |-> 0]
    /\ mapped = {} /\ entering = {}
    /\ mail = [s \in Thread |-> None]
    /\ farewells = {}
    /\ parting = None
    /\ caster = IdleCaster
    /\ view = [c \in Conn |-> {}]

-----------------------------------------------------------------------------
(* Sockets.                                                                *)

\* Everything the server did for the last socket of c is over.
Over(c) ==
    /\ sock[c] = "closed" /\ calls[c] = 0 /\ rem[c] = None
    /\ Idle(c) /\ mail[FrameOf(c)] = None /\ mail[CloseOf(c)] = None
    /\ ~ Registered(c) /\ c \notin entering
    /\ c # alerts.rider /\ \A a \in alerts.due \union caster.due : a.rider # c
    /\ c \notin sweep.todo /\ c # sweep.victim /\ c # parting
    /\ \A g \in sweep.evicted \union farewells : g.conn # c

\* A message still addressed to the last socket of c finds no socket.
Forgotten(m, c) ==
    IF m = None \/ m.to = None THEN m
    ELSE IF m.to = {c} THEN None ELSE [m EXCEPT !.to = @ \ {c}]

\* afterConnectionEstablished.
Open(c) ==
    /\ Over(c)
    /\ sock' = [sock EXCEPT ![c] = "fresh"]
    /\ reads' = [reads EXCEPT ![c] = "yes"]
    /\ mapped' = mapped \union {c}
    /\ mail' = [s \in Thread |-> Forgotten(mail[s], c)]
    /\ caster' = [caster EXCEPT !.users = @ \ {c}]
    /\ UNCHANGED <<vars, calls, entering, farewells, parting, view>>

\* The container calls back once (closed) or more (transport error, closed).
Closes(c) ==
    /\ sock' = [sock EXCEPT ![c] = "closed"]
    /\ \E n \in 1 .. MaxCallbacks : calls' = [calls EXCEPT ![c] = n]

\* The page goes away or the network fails.
Close(c) ==
    /\ sock[c] # "closed"
    /\ Closes(c)
    /\ UNCHANGED <<vars, reads, mapped, entering, mail, farewells, parting, caster, view>>

\* The peer stops reading, and a send of some thread, if only that of an
\* acknowledgement, blocks longer than the two seconds the decorator allows.
Stall(c) ==
    /\ sock[c] # "closed" /\ reads[c] = "yes"
    /\ Cardinality({d \in Conn : reads[d] # "yes"}) < MaxStalls
    /\ reads' = [reads EXCEPT ![c] = "stalled"]
    /\ UNCHANGED <<vars, sock, calls, mapped, entering, mail, farewells, parting, caster, view>>

-----------------------------------------------------------------------------
(* Delivery.                                                               *)

Users == {c \in Conn : IsUser(c)}

\* broadcastToUsers and broadcastToSubscribedUsers read the sessions once.
Address(s) ==
    /\ mail[s] # None /\ mail[s].to = None /\ mail[s].type # "active-buses"
    /\ mail' = [mail EXCEPT ![s] = IF Users = {} THEN None ELSE [@ EXCEPT !.to = Users]]
    /\ UNCHANGED <<vars, sock, reads, calls, mapped, entering, farewells, parting, caster, view>>

\* The route filter applies to location updates only, at the time of the send.
WantsRoute(c, r) == sessions[c].wants = None \/ r = None \/ sessions[c].wants = r
Wanted(c, m) ==
    m.type = "bus-location-update" => Registered(c) /\ WantsRoute(c, m.route)

\* What the page makes of a message: markers are added one by one and only
\* driver-left removes one.
Shown(markers, m) ==
    IF m.type = "driver-left" THEN markers \ m.buses ELSE markers \union m.buses

\* send finds the socket mapped and open.
Reachable(c) == c \in mapped /\ sock[c] # "closed"

\* One send of the loop of thread s.  To a stalled socket it may end in an
\* IOException, which send catches: the message is lost and the loop goes on.
Deliver(s, c) ==
    /\ mail[s] # None /\ mail[s].to # None /\ c \in mail[s].to
    /\ view' = IF Reachable(c) /\ Wanted(c, mail[s]) /\ reads[c] = "yes"
               THEN [view EXCEPT ![c] = Shown(@, mail[s])]
               ELSE view
    /\ mail' = [mail EXCEPT ![s] = IF @.to = {c} THEN None ELSE [mail[s] EXCEPT !.to = @ \ {c}]]
    /\ UNCHANGED <<vars, sock, reads, calls, mapped, entering, farewells, parting, caster>>

\* Or the decorator, past its limit, refuses the send with an unchecked
\* exception and cuts the socket off for good.  send does not catch it: the
\* exception ends the loop the send was made from, and for the scheduled jobs
\* the whole run.
DeliveryFails(s, c) ==
    /\ mail[s] # None /\ mail[s].to # None /\ c \in mail[s].to
    /\ Reachable(c) /\ Wanted(c, mail[s]) /\ reads[c] = "stalled"
    /\ reads' = [reads EXCEPT ![c] = "cut"]
    /\ mail' = [mail EXCEPT ![s] = None]
    /\ caster' = IF s = Caster THEN IdleCaster ELSE caster
    /\ farewells' = IF s = Sweeper THEN {} ELSE farewells
    /\ parting' = IF s = Sweeper THEN None ELSE parting
    /\ UNCHANGED <<vars, sock, calls, mapped, entering, view>>

-----------------------------------------------------------------------------
(* Frames: handleMessage.  A connection's next frame waits for the last.   *)

Free(c) == Idle(c) /\ mail[FrameOf(c)] = None /\ c \notin entering

\* driver-register looks up the bus's route first: until the registration is put
\* down the socket may close, and its cleanup find no session.  user-register is
\* no different, but faster.
BeginRegister(c) ==
    /\ sock[c] = "fresh" /\ Free(c)
    /\ entering' = entering \union {c}
    /\ UNCHANGED <<vars, sock, reads, calls, mapped, mail, farewells, parting, caster, view>>

\* A socket that is still open is now that of a registered page.
Enter(c) ==
    /\ c \in entering
    /\ entering' = entering \ {c}
    /\ sock' = IF sock[c] = "fresh" THEN [sock EXCEPT ![c] = "registered"] ELSE sock

HandleDriverRegister(c) ==
    /\ Enter(c)
    /\ \E t \in Token : RegisterDriver(c, t)
    /\ UNCHANGED <<reads, calls, mapped, mail, farewells, parting, caster, view>>

\* driver-location, driver-visibility, driver-occupancy begin.
HandleDriverFrame(c) ==
    /\ sock[c] = "registered" /\ Free(c)
    /\ \/ \E shown \in BOOLEAN : BeginLocation(c, shown) \/ BeginVisibility(c, shown)
       \/ \E level \in Level : BeginOccupancy(c, level)
    /\ UNCHANGED hwvars

\* What they and driver-register do next, with nothing to tell a rider's map.
FrameGoesOn(c) ==
    /\ PutBus(c) \/ AddPoint(c) \/ WriteVisibility(c) \/ WriteOccupancy(c)
    /\ UNCHANGED hwvars

\* The end of driver-location: the bus is shown to riders if it is visible.
\* Its state may be unmapped by now; its route is then the one it was made with.
\* Visibility is read again, and the page of another driver may have changed it.
PublishLocation(c) ==
    /\ SetVisible(c)
    /\ LET b == io[c].bus
           routes == IF io[c].attached THEN {live[b].route} ELSE {None, RouteOf[b]}
           others == {d \in Conn \ {c} : Page[d] # Rider}
       IN \E shown \in IF others = {} THEN {io[c].shown} ELSE BOOLEAN :
            IF shown
            THEN \E r \in routes :
                   mail' = [mail EXCEPT ![FrameOf(c)] = News("bus-location-update", {b}, r, None)]
            ELSE UNCHANGED mail
    /\ UNCHANGED <<sock, reads, calls, mapped, entering, farewells, parting, caster, view>>

\* user-register; the snapshot follows.
HandleUserRegister(c) ==
    /\ Enter(c)
    /\ RegisterUser(c)
    /\ mail' = [mail EXCEPT ![FrameOf(c)] = News("active-buses", {}, None, None)]
    /\ UNCHANGED <<reads, calls, mapped, farewells, parting, caster, view>>

\* The snapshot of user-register is taken, and then sent.
TakeWelcome(c) ==
    /\ mail[FrameOf(c)] # None
    /\ mail[FrameOf(c)].type = "active-buses" /\ mail[FrameOf(c)].to = None
    /\ mail' = [mail EXCEPT ![FrameOf(c)] = News("active-buses", VisibleBuses, None, {c})]
    /\ UNCHANGED <<vars, sock, reads, calls, mapped, entering, farewells, parting, caster, view>>

\* track-bus, subscribe-route, user-location and ping.
HandleRiderFrame(c) ==
    /\ sock[c] = "registered" /\ Free(c)
    /\ \/ \E b \in Bus : TrackBus(c, b)
       \/ \E r \in Route \union {None} : SubscribeRoute(c, r)
       \/ Touch(c)
    /\ UNCHANGED hwvars

-----------------------------------------------------------------------------
(* cleanup, from handleTransportError and afterConnectionClosed.           *)

Cleanup(c) ==
    /\ calls[c] > 0 /\ rem[c] = None /\ mail[CloseOf(c)] = None
    /\ calls' = [calls EXCEPT ![c] = @ - 1]
    /\ mapped' = mapped \ {c}
    /\ IF Registered(c) THEN RemoveSession(c) ELSE UNCHANGED vars
    /\ UNCHANGED <<sock, reads, entering, mail, farewells, parting, caster, view>>

\* A driver's bus is retired and its departure announced.
AnnounceDeparture(c) ==
    /\ RetireBus(c)
    /\ mail' = [mail EXCEPT ![CloseOf(c)] = News("driver-left", {rem[c]}, None, None)]
    /\ UNCHANGED <<sock, reads, calls, mapped, entering, farewells, parting, caster, view>>

-----------------------------------------------------------------------------
(* evictStaleSessions, every 30 s.  (One run ends long before the next.)   *)

BeginSweep ==
    /\ farewells = {} /\ parting = None /\ mail[Sweeper] = None
    /\ StartSweep
    /\ UNCHANGED hwvars

SweepRegistry ==
    /\ (\E c \in Conn : CheckStale(c)) \/ EvictSession \/ EvictBus
    /\ UNCHANGED hwvars

SweepReturns ==
    /\ EndSweep
    /\ farewells' = sweep.evicted
    /\ UNCHANGED <<sock, reads, calls, mapped, entering, mail, parting, caster, view>>

\* (mutant: a rider's departure is announced as a driver's)
TakeLeaveOfAnyone(g) ==
    /\ g \in farewells /\ parting = None /\ mail[Sweeper] = None
    /\ farewells' = farewells \ {g}
    /\ parting' = IF g.conn \in mapped THEN g.conn ELSE None
    /\ mapped' = mapped \ {g.conn}
    /\ mail' = [mail EXCEPT ![Sweeper] = News("driver-left", {g.bus}, None, None)]
    /\ UNCHANGED <<vars, sock, reads, calls, entering, caster, view>>

\* (mutant: leaves the announcement to the close callback, which finds no session)
TakeLeaveSilently(g) ==
    /\ g \in farewells /\ parting = None /\ mail[Sweeper] = None
    /\ farewells' = farewells \ {g}
    /\ parting' = IF g.conn \in mapped THEN g.conn ELSE None
    /\ mapped' = mapped \ {g.conn}
    /\ UNCHANGED <<vars, sock, reads, calls, entering, mail, caster, view>>

\* (mutant: unmaps the socket before looking it up, so that it is never closed)
TakeLeaveUnmapped(g) ==
    /\ g \in farewells /\ parting = None /\ mail[Sweeper] = None
    /\ farewells' = farewells \ {g}
    /\ mapped' = mapped \ {g.conn}
    /\ mail' = IF g.bus = None
               THEN mail
               ELSE [mail EXCEPT ![Sweeper] = News("driver-left", {g.bus}, None, None)]
    /\ UNCHANGED <<vars, sock, reads, calls, entering, parting, caster, view>>

\* One evicted session: its socket is unmapped, a driver's departure announced ...
TakeLeave(g) ==
    /\ g \in farewells /\ parting = None /\ mail[Sweeper] = None
    /\ farewells' = farewells \ {g}
    /\ parting' = IF g.conn \in mapped THEN g.conn ELSE None
    /\ mapped' = mapped \ {g.conn}
    /\ mail' = IF g.bus = None
               THEN mail
               ELSE [mail EXCEPT ![Sweeper] = News("driver-left", {g.bus}, None, None)]
    /\ UNCHANGED <<vars, sock, reads, calls, entering, caster, view>>

\* ... and then its socket closed, if it still is open.
Part ==
    /\ parting # None /\ mail[Sweeper] = None
    /\ IF sock[parting] # "closed" THEN Closes(parting) ELSE UNCHANGED <<sock, calls>>
    /\ parting' = None
    /\ UNCHANGED <<vars, reads, mapped, entering, mail, farewells, caster, view>>

-----------------------------------------------------------------------------
(* broadcastActiveBuses, every 10 s.                                       *)

StartBroadcast ==
    /\ caster.pc = "idle" /\ Users # {}
    /\ caster' = [IdleCaster EXCEPT !.pc = "snapshot", !.users = Users]
    /\ UNCHANGED <<vars, sock, reads, calls, mapped, entering, mail, farewells, parting, view>>

\* (mutant: the snapshot goes to riders of the whole network only)
TakeFilteredSnapshot ==
    /\ caster.pc = "snapshot"
    /\ LET to == {c \in caster.users : Registered(c) /\ sessions[c].wants = None}
       IN mail' = IF VisibleBuses = {} \/ to = {}
                  THEN mail
                  ELSE [mail EXCEPT ![Caster] = News("active-buses", VisibleBuses, None, to)]
    /\ caster' = [IdleCaster EXCEPT !.pc = "alerts"]
    /\ UNCHANGED <<vars, sock, reads, calls, mapped, entering, farewells, parting, view>>

TakeSnapshot ==
    /\ caster.pc = "snapshot"
    /\ mail' = IF VisibleBuses = {} \/ caster.users = {}
               THEN mail
               ELSE [mail EXCEPT ![Caster] =
                       News("active-buses", VisibleBuses, None, caster.users)]
    /\ caster' = [IdleCaster EXCEPT !.pc = "alerts"]
    /\ UNCHANGED <<vars, sock, reads, calls, mapped, entering, farewells, parting, view>>

\* pendingProximityAlerts is called when the snapshot is sent ...
BeginAlerts ==
    /\ caster.pc = "alerts" /\ mail[Caster] = None
    /\ StartAlerts
    /\ caster' = [IdleCaster EXCEPT !.pc = "loop"]
    /\ UNCHANGED <<sock, reads, calls, mapped, entering, mail, farewells, parting, view>>

FindAlerts ==
    /\ (\E c \in Conn : VisitRider(c)) \/ CheckVisible \/ RaiseAlert \/ TooFar
    /\ UNCHANGED hwvars

AlertsReturn ==
    /\ EndAlerts
    /\ caster' = [IdleCaster EXCEPT !.pc = "send", !.due = alerts.due]
    /\ UNCHANGED <<sock, reads, calls, mapped, entering, mail, farewells, parting, view>>

\* ... and each alert of its list sent, whatever its bus is by now.  The page
\* shows the text: its map is not concerned.
SendAlert(a) ==
    /\ a \in caster.due /\ mail[Caster] = None
    /\ caster' = [caster EXCEPT !.due = @ \ {a}]
    /\ mail' = [mail EXCEPT ![Caster] = News("proximity-alert", {}, None, {a.rider})]
    /\ UNCHANGED <<vars, sock, reads, calls, mapped, entering, farewells, parting, view>>

EndBroadcast ==
    /\ caster.pc = "send" /\ caster.due = {} /\ mail[Caster] = None
    /\ caster' = IdleCaster
    /\ UNCHANGED <<vars, sock, reads, calls, mapped, entering, mail, farewells, parting, view>>

-----------------------------------------------------------------------------

\* Two minutes of silence, the cooldown of an alert.
TimePasses(c) ==
    /\ \/ Free(c) /\ GoStale(c)
       \/ CoolDown(c)
    /\ UNCHANGED hwvars

Frames(c) ==
    \/ BeginRegister(c) \/ HandleDriverRegister(c) \/ HandleUserRegister(c)
    \/ HandleDriverFrame(c) \/ FrameGoesOn(c) \/ PublishLocation(c)
    \/ TakeWelcome(c) \/ HandleRiderFrame(c)

Sends(s) == Address(s) \/ \E c \in Conn : Deliver(s, c) \/ DeliveryFails(s, c)

SweeperRuns ==
    BeginSweep \/ SweepRegistry \/ SweepReturns \/ (\E g \in farewells : TakeLeave(g)) \/ Part
        \/ Sends(Sweeper)

CasterRuns ==
    \/ StartBroadcast \/ TakeSnapshot \/ BeginAlerts \/ FindAlerts \/ AlertsReturn
    \/ (\E a \in caster.due : SendAlert(a)) \/ EndBroadcast
    \/ Sends(Caster)

ConnRuns(c) ==
    \/ Open(c) \/ Close(c) \/ Stall(c)
    \/ Frames(c) \/ Sends(FrameOf(c))
    \/ Cleanup(c) \/ AnnounceDeparture(c) \/ Sends(CloseOf(c))
    \/ TimePasses(c)

HandlerNext == (\E c \in Conn : ConnRuns(c)) \/ SweeperRuns \/ CasterRuns

HandlerSpec == HandlerInit /\ [][HandlerNext]_allvars

-----------------------------------------------------------------------------
(* Properties.                                                             *)

\* The rider's page of c is connected, and the server knows it as a rider.
Watching(c) == IsUser(c) /\ Reachable(c)

\* A rider who stays connected and keeps reading is shown a bus that stays
\* visible, whatever route the rider subscribed to.
\* (broadcastActiveBuses every 10 s; the subscription narrows the pings only.)
Served(b, c) == Published(b) /\ Watching(c) /\ reads[c] = "yes"

VisibleBusReachesRider ==
    \A c \in Conn, b \in Bus : Served(b, c) ~> (b \in view[c] \/ ~ Served(b, c))

\* A page whose session was evicted under an open socket gets that socket
\* closed: only then does it connect and register again, and until then its
\* frames are refused.  (The second loop, in the handler's evictStaleSessions,
\* takes up every session the first loop, in the registry's, removed.)
EvictedSocketIsClosed ==
    \A c \in Conn :
        sock[c] = "registered" /\ ~ Registered(c)
            => c = parting \/ \E g \in sweep.evicted \union farewells : g.conn = c

\* Once the server is at rest, a connected rider's map shows no bus that left.
AtRest ==
    /\ \A s \in Thread : mail[s] = None
    /\ sweep.pc = "idle" /\ farewells = {} /\ parting = None
    /\ \A c \in Conn : Idle(c) /\ rem[c] = None

NoGhostMarker ==
    AtRest => \A c \in Conn : Watching(c) => \A b \in view[c] : live[b] # None
=============================================================================
