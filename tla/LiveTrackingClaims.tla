------------------------- MODULE LiveTrackingClaims -------------------------
(***************************************************************************)
(* What the registry of LiveTracking promises, and under which condition.  *)
(*                                                                         *)
(* liveBuses should hold exactly the buses of the connected drivers.  The  *)
(* code does not keep that promise always: sessions and buses are two maps *)
(* written one after the other, and a bus is retired by its code, so the   *)
(* removal of one session can meet another user of the same bus.  This     *)
(* module records, in history variables, whether that happened:            *)
(*   contested[b]  a removal of b met a session, a registration, a ping or *)
(*                 a second removal on b since the last clean registration *)
(*   asked[c]      the visibility last asked for on c's connection, while  *)
(*                 no other connection has to do with its bus or driver    *)
(*   quiet         the buses whose driver's last word was to hide them, ever *)
(*                 since the loop of the alerts began                      *)
(* They only observe: no action of LiveTracking reads them.                *)
(***************************************************************************)
EXTENDS LiveTracking

VARIABLES contested, asked, quiet

hvars == <<sessions, live, io, rem, sweep, alerts, contested, asked, quiet>>

-----------------------------------------------------------------------------

DriverOn(c, b) == IsDriver(c) /\ sessions[c].bus = b

\* c's thread is about to put bus b on the map.
Arriving(c, b) == io[c].pc \in {"reg", "loc"} /\ io[c].bus = b

\* Somebody is about to take b off the map.
SweepRetires(b) == sweep.pc = "retire" /\ sweep.bus = b
Retiring(b) == SweepRetires(b) \/ \E c \in Conn : rem[c] = b

\* A removal of b is under way and somebody else uses b.
Contest(b) ==
    \/ Retiring(b) /\ \E c \in Conn : DriverOn(c, b) \/ Arriving(c, b)
    \/ SweepRetires(b) /\ \E c \in Conn : rem[c] = b
    \/ \E c, d \in Conn : c # d /\ rem[c] = b /\ rem[d] = b

\* c's registration of b ends with nobody else near b.
CleanRegistration(c, b) ==
    /\ io[c].pc = "reg" /\ io[c].bus = b /\ io'[c].pc = "idle"
    /\ DriverOn(c, b)
    /\ ~ Retiring(b)
    /\ \A d \in Conn \ {c} : ~ DriverOn(d, b) /\ ~ Arriving(d, b)

\* No other connection has a session or a frame of c's bus or of c's driver.
Alone(c) ==
    \A d \in Conn \ {c} :
        /\ Registered(d) => /\ sessions[d].bus # sessions[c].bus
                           /\ sessions[d].driver # sessions[c].driver
        /\ ~ Idle(d) => /\ io[d].bus # sessions[c].bus
                       /\ io[d].driver # sessions[c].driver

\* The visibility c asks for as a frame of it begins: a registration asks for
\* TRUE; a toggle adds to what is known, a ping settles it.
Asks(c) ==
    IF ~ IsDriver(c)' \/ ~ Alone(c)'
    THEN None
    ELSE CASE Idle(c) /\ io'[c].pc = "reg"                    -> TRUE
           [] Idle(c) /\ io'[c].pc = "loc"                    -> io'[c].shown
           [] Idle(c) /\ io'[c].pc = "hide" /\ asked[c] # None -> io'[c].shown
           [] OTHER                                           -> asked[c]

\* Nobody is about to put b on the map, or to take it off.
Settled(b) == ~ Retiring(b) /\ \A c \in Conn : ~ Arriving(c, b)

\* The last word of b's driver was to hide it, and has been served.
Hushed(b) ==
    /\ ~ contested[b] /\ Settled(b)
    /\ \E c \in Conn : DriverOn(c, b) /\ Idle(c) /\ asked[c] = FALSE

Observe ==
    /\ contested' = [b \in Bus |->
                       \/ Contest(b)'
                       \/ contested[b] /\ ~ \E c \in Conn : CleanRegistration(c, b)]
    /\ asked' = [c \in Conn |-> Asks(c)]
    /\ quiet' = {b \in IF alerts.pc = "idle" THEN Bus ELSE quiet : Hushed(b)'}

HInit ==
    /\ Init
    /\ contested = [b \in Bus |-> FALSE] /\ asked = [c \in Conn |-> None] /\ quiet = {}

HNext == Next /\ Observe

HSpec == HInit /\ [][HNext]_hvars

\* The scheduler keeps running the sweep; a connection's frames may stop.
FairSpec == HSpec /\ WF_hvars(SweepStep /\ Observe)

HTypeOK ==
    /\ TypeOK
    /\ contested \in [Bus -> BOOLEAN]
    /\ asked \in [Conn -> BOOLEAN \union {None}]
    /\ quiet \subseteq Bus

-----------------------------------------------------------------------------
(* Properties.                                                             *)

\* Every session, frame and live bus names a bus that some driver token
\* claims together with that driver: no interleaving of registrations, late
\* pings and removals lets a driver broadcast for a bus that is not in a token
\* (handleDriverRegister takes the bus from the token, not the payload).
Claims(d, b) == \E t \in Token : DriverOf[t] = d /\ BusOf[t] = b

NoImpersonation ==
    /\ \A c \in Conn : IsDriver(c) => Claims(sessions[c].driver, sessions[c].bus)
    /\ \A b \in Bus : live[b] # None => Claims(live[b].driver, b)

\* As long as no removal of a bus met another user of it, the registry is
\* exact whenever nothing is under way on that bus: it is live if and only if
\* a registered driver session stands for it.  (registerDriver, removeSession,
\* updateDriverLocation and evictStaleSessions against each other.)
RegistryTracksSessions ==
    \A b \in Bus :
        ~ contested[b] /\ Settled(b)
            => (live[b] # None <=> \E c \in Conn : DriverOn(c, b))

\* On such a bus, while one connection alone has to do with it and none of its
\* frames is in service, the published flag is what the driver last asked for: a ping, a toggle and a
\* re-registration leave no older choice behind.
\* (updateDriverLocation's visible, setDriverVisibility.)
LastWordOnVisibility ==
    \A b \in Bus : \A c \in Conn :
        /\ ~ contested[b] /\ Settled(b)
        /\ DriverOn(c, b) /\ Idle(c) /\ asked[c] # None
        => live[b].visible = asked[c]

\* Nobody is alerted of a bus whose driver had hidden it before the loop of the
\* alerts began and left it so: the word of a toggle or a ping that has been
\* served holds for pendingProximityAlerts, which reads the bus, its flag and
\* its position one after the other.
NoAlertOfHiddenBus == \A a \in alerts.due : a.near \notin quiet

\* "Riders who follow a bus that is now within {@value PROXIMITY_THRESHOLD_KM} km
\* of them": an alert names the bus that was found near.
AlertNamesNearBus == \A a \in alerts.due : a.names = a.near

\* A session that stays silent is evicted by the sweep.
\* (BusTrackingWebSocketHandler.evictStaleSessions every 30 s.)
SilentSessionsAreSwept ==
    \A c \in Conn :
        (Registered(c) /\ sessions[c].stale) ~> (~ Registered(c) \/ ~ sessions[c].stale)

\* What the registry promises unconditionally: a driver with a session is on
\* the air once nothing is under way on the bus.
RegisteredDriverIsLive ==
    \A b \in Bus : Settled(b) /\ (\E c \in Conn : DriverOn(c, b)) => live[b] # None

\* A bus without a driver session leaves the registry.
NoGhostBus ==
    \A b \in Bus : Settled(b) /\ live[b] # None => \E c \in Conn : DriverOn(c, b)

-----------------------------------------------------------------------------
(* The inductive strengthening the proofs use.                             *)

\* What a connection's page says of its session and of the frame in service.
PageOK ==
    \A c \in Conn :
        /\ IsDriver(c) => /\ Page[c] \in Token
                          /\ sessions[c].driver = DriverOf[Page[c]]
                          /\ sessions[c].bus = BusOf[Page[c]]
        /\ io[c].pc \in {"reg", "loc"} => /\ Page[c] \in Token
                                          /\ io[c].driver = DriverOf[Page[c]]
                                          /\ io[c].bus = BusOf[Page[c]]

LiveOK == \A b \in Bus : live[b] # None => Claims(live[b].driver, b)

Registering(c, b) == io[c].pc = "reg" /\ io[c].bus = b

\* Without a contest: a live bus has a session or a removal under way, a
\* session that is not just registering has its bus, and whoever is about to
\* put the bus on the map has a session for it.
TracksBus(b) ==
    /\ live[b] # None => Retiring(b) \/ \E c \in Conn : DriverOn(c, b)
    /\ \A c \in Conn : DriverOn(c, b) /\ ~ Registering(c, b) => live[b] # None
    /\ \A c \in Conn : Arriving(c, b) => DriverOn(c, b)

TrackInv ==
    \A b \in Bus : /\ Contest(b) => contested[b]
                   /\ ~ contested[b] => TracksBus(b)

\* Without a contest, a live bus that nobody is removing carries the driver of
\* one of its sessions.
HeldBus(b) ==
    live[b] # None => \/ Retiring(b)
                      \/ \E c \in Conn : DriverOn(c, b) /\ live[b].driver = DriverOf[Page[c]]

\* How the last word of c reaches its bus b: it is in the frame being served
\* until the write, which nobody detaches, and in the flag afterwards.
WordOnItsWay(c, b) ==
    /\ io[c].pc \in {"loc", "vis", "hide"} => asked[c] = io[c].shown
    /\ io[c].pc = "vis" => io[c].attached /\ io[c].bus = b
    /\ io[c].pc = "hide" => io[c].driver = DriverOf[Page[c]]
    /\ io[c].pc \in {"idle", "occ"} => live[b].visible = asked[c]

WordInv ==
    /\ \A c \in Conn : asked[c] # None => /\ IsDriver(c) /\ Alone(c)
                                          /\ io[c].pc = "reg" => asked[c] = TRUE
    /\ \A b \in Bus : ~ contested[b] =>
          /\ HeldBus(b)
          /\ \A c \in Conn : DriverOn(c, b) /\ asked[c] # None => WordOnItsWay(c, b)
=============================================================================
