---------------------- MODULE BusTrackingHandlerProofs ----------------------
(***************************************************************************)
(* Proofs about the WebSocket endpoint: whatever the endpoint does with    *)
(* sockets, messages and jobs, what it does to the registry is a behaviour *)
(* of LiveTracking, so the registry's theorems hold under it.              *)
(***************************************************************************)
EXTENDS BusTrackingHandlerClaims, LiveTrackingProofs, FiniteSetTheorems

\* Each action of a connection is one of the registry's, or leaves it alone.
LEMMA ConnStep ==
    ASSUME NEW c \in Conn, ConnRuns(c)
    PROVE  [Next]_vars
<1>1. CASE Open(c) \/ Close(c) \/ Stall(c)
  BY <1>1 DEF Open, Close, Stall
<1>2. CASE BeginRegister(c) \/ HandleDriverRegister(c)
  BY <1>2 DEF BeginRegister, HandleDriverRegister, Next, DriverFrame
<1>3. CASE HandleDriverFrame(c)
  BY <1>3 DEF HandleDriverFrame, Next, DriverFrame
<1>4. CASE FrameGoesOn(c)
  BY <1>4 DEF FrameGoesOn, Next, ServeFrame
<1>5. CASE PublishLocation(c)
  BY <1>5 DEF PublishLocation, Next, ServeFrame
<1>6. CASE HandleUserRegister(c)
  BY <1>6 DEF HandleUserRegister, Next, RiderFrame
<1>7. CASE TakeWelcome(c)
  BY <1>7 DEF TakeWelcome
<1>8. CASE HandleRiderFrame(c)
  BY <1>8 DEF HandleRiderFrame, Next, RiderFrame
<1>9. ASSUME NEW s, Sends(s) PROVE UNCHANGED vars
  BY <1>9 DEF Sends, Address, Deliver, DeliveryFails
<1>10. CASE Cleanup(c)
  BY <1>10 DEF Cleanup, Next, Removal
<1>11. CASE AnnounceDeparture(c)
  BY <1>11 DEF AnnounceDeparture, Next, Removal
<1>12. CASE TimePasses(c)
  BY <1>12 DEF TimePasses, Next, Passage
<1> QED
  BY <1>1, <1>2, <1>3, <1>4, <1>5, <1>6, <1>7, <1>8, <1>9, <1>10, <1>11, <1>12
  DEF ConnRuns, Frames

\* The broadcaster's part of the registry.
LEMMA AlertJobs ==
    ASSUME BeginAlerts \/ FindAlerts \/ AlertsReturn
    PROVE  AlertStep
BY DEF BeginAlerts, FindAlerts, AlertsReturn, AlertStep

LEMMA JobStep ==
    ASSUME SweeperRuns \/ CasterRuns
    PROVE  [Next]_vars
<1>1. ASSUME NEW s, Sends(s) PROVE UNCHANGED vars
  BY <1>1 DEF Sends, Address, Deliver, DeliveryFails
<1>2. CASE BeginSweep \/ SweepRegistry \/ SweepReturns
  BY <1>2 DEF BeginSweep, SweepRegistry, SweepReturns, Next, SweepStep
<1>3. CASE (\E g \in farewells : TakeLeave(g)) \/ Part
  BY <1>3 DEF TakeLeave, Part
<1>4. CASE StartBroadcast \/ TakeSnapshot \/ EndBroadcast \/ \E a \in caster.due : SendAlert(a)
  BY <1>4 DEF StartBroadcast, TakeSnapshot, EndBroadcast, SendAlert
<1>5. CASE BeginAlerts \/ FindAlerts \/ AlertsReturn
  BY <1>5, AlertJobs DEF Next
<1> QED
  BY <1>1, <1>2, <1>3, <1>4, <1>5 DEF SweeperRuns, CasterRuns

\* What the endpoint does to the registry is a run of it, so that what holds of
\* every run of the registry holds under the endpoint.
LEMMA RegistryRuns == HandlerSpec => Spec
<1>1. HandlerInit => Init
  BY DEF HandlerInit
<1>2. [HandlerNext]_allvars => [Next]_vars
  <2>1. CASE HandlerNext
    BY <2>1, ConnStep, JobStep DEF HandlerNext
  <2>2. CASE UNCHANGED allvars
    BY <2>2 DEF allvars, vars
  <2> QED
    BY <2>1, <2>2
<1> QED
  BY <1>1, <1>2, PTL DEF HandlerSpec, Spec

\* So no run of the endpoint shows a bus under a driver who has no token for it.
THEOREM HandlerKeepsIdentity == HandlerSpec => [](TypeOK /\ NoImpersonation)
BY RegistryRuns, TypeCorrect, NobodyImpersonates, PTL

-----------------------------------------------------------------------------
(* Type correctness of the endpoint.                                       *)

LEMMA RegistryStep == HandlerNext => [Next]_vars
BY ConnStep, JobStep DEF HandlerNext

LEMMA ThreadsSend ==
    /\ \A c \in Conn : FrameOf(c) \in Thread /\ CloseOf(c) \in Thread
    /\ Sweeper \in Thread /\ Caster \in Thread
BY DEF Thread

LEMMA NewsIsMail ==
    ASSUME NEW type \in {"active-buses", "bus-location-update", "driver-left",
                         "proximity-alert"},
           NEW buses \in SUBSET Bus, NEW route \in Route \union {None},
           NEW to \in (SUBSET Conn) \union {None}
    PROVE  /\ News(type, buses, route, to) \in Mail
           /\ News(type, buses, route, to).type = type
           /\ News(type, buses, route, to).buses = buses
           /\ News(type, buses, route, to).to = to
BY DEF News, Mail

\* The handler's own variables.
HandlerVarsOK ==
    /\ sock \in [Conn -> {"closed", "fresh", "registered"}]
    /\ reads \in [Conn -> {"yes", "stalled", "cut"}]
    /\ calls \in [Conn -> 0 .. MaxCallbacks]
    /\ mapped \subseteq Conn /\ entering \subseteq Conn
    /\ mail \in [Thread -> Mail \union {None}]
    /\ farewells \subseteq Goodbye
    /\ parting \in Conn \union {None}
    /\ caster \in [pc : {"idle", "snapshot", "alerts", "loop", "send"}, users : SUBSET Conn,
                   due : SUBSET Alert]
    /\ view \in [Conn -> SUBSET Bus]

LEMMA ForgottenTyped ==
    ASSUME NEW m \in Mail \union {None}, NEW c \in Conn
    PROVE  /\ Forgotten(m, c) \in Mail \union {None}
           /\ Forgotten(m, c) # None => /\ m # None
                                       /\ Forgotten(m, c).type = m.type
                                       /\ Forgotten(m, c).buses = m.buses
           /\ m = None => Forgotten(m, c) = None
<1>1. CASE m \in Mail /\ m.to \in SUBSET Conn /\ m.to # {c} /\ m.to # None /\ m # None
  <2> DEFINE n == [m EXCEPT !.to = m.to \ {c}]
  <2>1. n \in Mail /\ n.type = m.type /\ n.buses = m.buses
    BY <1>1 DEF Mail
  <2>2. Forgotten(m, c) = n
    BY <1>1 DEF Forgotten
  <2> QED
    BY <1>1, <2>1, <2>2
<1>2. CASE m = None \/ m.to = {c} \/ m.to = None
  BY <1>2 DEF Forgotten
<1> QED
  BY <1>1, <1>2 DEF Mail

\* One send, failed or not, by any thread.
LEMMA SendTyped ==
    ASSUME TypeInv, HandlerVarsOK, NEW s \in Thread, Sends(s)
    PROVE  HandlerVarsOK'
<1> USE DEF HandlerVarsOK
<1>1. CASE Address(s)
  <2> DEFINE m == IF Users = {} THEN None ELSE [mail[s] EXCEPT !.to = Users]
  <2>1. m \in Mail \union {None}
    BY <1>1 DEF Address, Mail, Users
  <2>2. mail' = [mail EXCEPT ![s] = m]
    BY <1>1 DEF Address
  <2> QED
    BY <1>1, <2>1, <2>2 DEF Address
<1>2. ASSUME NEW c \in Conn, Deliver(s, c) PROVE HandlerVarsOK'
  <2> DEFINE m == IF mail[s].to = {c} THEN None ELSE [mail[s] EXCEPT !.to = mail[s].to \ {c}]
  <2>0. mail[s] \in Mail /\ mail[s].to \in SUBSET Conn
    BY <1>2 DEF Deliver, Mail
  <2>1. m \in Mail \union {None}
    BY <2>0 DEF Mail
  <2>2. mail' = [mail EXCEPT ![s] = m]
    BY <1>2 DEF Deliver
  <2>3. Shown(view[c], mail[s]) \in SUBSET Bus
    BY <2>0 DEF Shown, Mail
  <2>4. view' \in [Conn -> SUBSET Bus]
    BY <1>2, <2>3 DEF Deliver
  <2> QED
    BY <1>2, <2>1, <2>2, <2>4 DEF Deliver
<1>3. ASSUME NEW c \in Conn, DeliveryFails(s, c) PROVE HandlerVarsOK'
  BY <1>3 DEF DeliveryFails, IdleCaster
<1> QED
  BY <1>1, <1>2, <1>3 DEF Sends

LEMMA ClosesTyped ==
    ASSUME HandlerVarsOK, NEW c \in Conn, Closes(c)
    PROVE  /\ sock' \in [Conn -> {"closed", "fresh", "registered"}]
           /\ calls' \in [Conn -> 0 .. MaxCallbacks]
BY BoundsAssumption DEF HandlerVarsOK, Closes

LEMMA ConnTyped ==
    ASSUME TypeInv, HandlerVarsOK, NEW c \in Conn, ConnRuns(c)
    PROVE  HandlerVarsOK'
<1> USE ThreadsSend DEF HandlerVarsOK
<1>1. CASE Open(c)
  <2>1. \A s \in Thread : Forgotten(mail[s], c) \in Mail \union {None}
    BY ForgottenTyped
  <2>2. mail' \in [Thread -> Mail \union {None}]
    BY <1>1, <2>1 DEF Open
  <2>3. caster' \in [pc : {"idle", "snapshot", "alerts", "loop", "send"}, users : SUBSET Conn,
                     due : SUBSET Alert]
    BY <1>1 DEF Open
  <2> QED
    BY <1>1, <2>2, <2>3 DEF Open
<1>2. CASE Close(c)
  BY <1>2, ClosesTyped DEF Close
<1>3. CASE Stall(c) \/ BeginRegister(c) \/ HandleDriverRegister(c) \/ HandleDriverFrame(c)
             \/ FrameGoesOn(c) \/ HandleRiderFrame(c) \/ TimePasses(c)
  BY <1>3
  DEF Stall, BeginRegister, HandleDriverRegister, Enter, HandleDriverFrame, FrameGoesOn,
      HandleRiderFrame, TimePasses, hwvars
<1>4. ASSUME NEW s \in Thread, NEW m \in Mail, mail' = [mail EXCEPT ![s] = m],
             UNCHANGED <<reads, calls, mapped, farewells, parting, caster, view>>,
             UNCHANGED <<sock, entering>> \/ Enter(c)
      PROVE  HandlerVarsOK'
  BY <1>4 DEF Enter
<1>5. CASE PublishLocation(c)
  <2>1. CASE mail' = mail
    BY <1>5, <2>1 DEF PublishLocation
  <2>2. CASE mail' # mail
    <3> DEFINE b == io[c].bus
               routes == IF io[c].attached THEN {live[b].route} ELSE {None, RouteOf[b]}
    <3>1. b \in Bus /\ (io[c].attached => live[b] \in LiveBus)
      BY <1>5 DEF PublishLocation, SetVisible, TypeInv, CoreOK, FrameOK
    <3>2. routes \subseteq Route \union {None}
      BY <3>1, ConstantsAssumption DEF LiveBus
    <3>3. PICK r \in routes :
            mail' = [mail EXCEPT ![FrameOf(c)] = News("bus-location-update", {b}, r, None)]
      BY <1>5, <2>2 DEF PublishLocation
    <3>4. News("bus-location-update", {b}, r, None) \in Mail
      BY <3>1, <3>2, NewsIsMail
    <3> QED
      BY <1>4, <1>5, <3>3, <3>4 DEF PublishLocation
  <2> QED
    BY <2>1, <2>2
<1>6. CASE HandleUserRegister(c)
  <2>1. News("active-buses", {}, None, None) \in Mail
    BY NewsIsMail
  <2> QED
    BY <1>4, <1>6, <2>1 DEF HandleUserRegister
<1>7. CASE TakeWelcome(c)
  <2>1. News("active-buses", VisibleBuses, None, {c}) \in Mail
    BY NewsIsMail DEF VisibleBuses
  <2> QED
    BY <1>4, <1>7, <2>1 DEF TakeWelcome
<1>8. CASE Sends(FrameOf(c)) \/ Sends(CloseOf(c))
  BY <1>8, SendTyped
<1>9. CASE Cleanup(c)
  BY <1>9, BoundsAssumption DEF Cleanup
<1>10. CASE AnnounceDeparture(c)
  <2>1. rem[c] \in Bus
    BY <1>10 DEF AnnounceDeparture, RetireBus, TypeInv, CoreOK
  <2>2. News("driver-left", {rem[c]}, None, None) \in Mail
    BY <2>1, NewsIsMail
  <2> QED
    BY <1>4, <1>10, <2>2 DEF AnnounceDeparture
<1> QED
  BY <1>1, <1>2, <1>3, <1>5, <1>6, <1>7, <1>8, <1>9, <1>10 DEF ConnRuns, Frames

LEMMA JobTyped ==
    ASSUME TypeInv, HandlerVarsOK, SweeperRuns \/ CasterRuns
    PROVE  HandlerVarsOK'
<1> USE ThreadsSend DEF HandlerVarsOK
<1>1. CASE BeginSweep \/ SweepRegistry \/ SweepReturns
  <2>1. sweep.evicted \in SUBSET Goodbye
    BY DEF TypeInv, CoreOK, Sweep
  <2> QED
    BY <1>1, <2>1 DEF BeginSweep, SweepRegistry, SweepReturns, hwvars
<1>2. ASSUME NEW g \in farewells, TakeLeave(g) PROVE HandlerVarsOK'
  <2>1. g.conn \in Conn /\ g.bus \in Bus \union {None}
    BY DEF Goodbye
  <2>2. g.bus # None => News("driver-left", {g.bus}, None, None) \in Mail
    BY <2>1, NewsIsMail
  <2>3. mail' \in [Thread -> Mail \union {None}]
    BY <1>2, <2>2 DEF TakeLeave
  <2> QED
    BY <1>2, <2>1, <2>3 DEF TakeLeave
<1>3. CASE Part
  BY <1>3, ClosesTyped DEF Part
<1>4. CASE StartBroadcast \/ EndBroadcast \/ BeginAlerts
  <2>1. Users \in SUBSET Conn
    BY DEF Users
  <2>2. /\ IdleCaster \in [pc : {"idle"}, users : SUBSET Conn, due : SUBSET Alert]
        /\ [IdleCaster EXCEPT !.pc = "loop"]
             \in [pc : {"loop"}, users : SUBSET Conn, due : SUBSET Alert]
        /\ [IdleCaster EXCEPT !.pc = "snapshot", !.users = Users]
             \in [pc : {"snapshot"}, users : SUBSET Conn, due : SUBSET Alert]
    BY <2>1 DEF IdleCaster
  <2>3. caster' \in {IdleCaster, [IdleCaster EXCEPT !.pc = "loop"],
                     [IdleCaster EXCEPT !.pc = "snapshot", !.users = Users]}
    BY <1>4 DEF StartBroadcast, EndBroadcast, BeginAlerts
  <2>4. UNCHANGED <<sock, reads, calls, mapped, entering, mail, farewells, parting, view>>
    BY <1>4 DEF StartBroadcast, EndBroadcast, BeginAlerts
  <2> QED
    BY <2>2, <2>3, <2>4
<1>9. CASE FindAlerts
  BY <1>9 DEF FindAlerts, hwvars
<1>7. CASE AlertsReturn
  <2>1. alerts.due \in SUBSET Alert
    BY DEF TypeInv, AlertOK, Alerts
  <2> QED
    BY <1>7, <2>1 DEF AlertsReturn, IdleCaster
<1>8. ASSUME NEW a \in caster.due, SendAlert(a) PROVE HandlerVarsOK'
  <2>1. a.rider \in Conn
    BY DEF Alert
  <2>2. News("proximity-alert", {}, None, {a.rider}) \in Mail
    BY <2>1, NewsIsMail
  <2> QED
    BY <1>8, <2>2 DEF SendAlert
<1>5. CASE TakeSnapshot
  <2>1. News("active-buses", VisibleBuses, None, caster.users) \in Mail
    BY NewsIsMail DEF VisibleBuses
  <2> QED
    BY <1>5, <2>1 DEF TakeSnapshot, IdleCaster
<1>6. CASE Sends(Sweeper) \/ Sends(Caster)
  BY <1>6, SendTyped
<1> QED
  BY <1>1, <1>2, <1>3, <1>4, <1>5, <1>6, <1>7, <1>8, <1>9 DEF SweeperRuns, CasterRuns

HandlerTypeInv == TypeInv /\ HandlerVarsOK

LEMMA HandlerTypeInit == HandlerInit => HandlerTypeInv
BY TypeInit, BoundsAssumption DEF HandlerInit, HandlerTypeInv, HandlerVarsOK, IdleCaster

LEMMA HandlerTypeStep == HandlerTypeInv /\ [HandlerNext]_allvars => HandlerTypeInv'
<1> SUFFICES ASSUME HandlerTypeInv, [HandlerNext]_allvars PROVE HandlerTypeInv'
  OBVIOUS
<1>1. TypeInv'
  <2>1. [Next]_vars
    BY RegistryStep DEF allvars, vars
  <2> QED
    BY <2>1, TypeStep DEF HandlerTypeInv
<1>2. HandlerVarsOK'
  <2>1. CASE HandlerNext
    BY <2>1, ConnTyped, JobTyped DEF HandlerTypeInv, HandlerNext
  <2>2. CASE UNCHANGED allvars
    BY <2>2 DEF allvars, HandlerTypeInv, HandlerVarsOK
  <2> QED
    BY <2>1, <2>2
<1> QED
  BY <1>1, <1>2 DEF HandlerTypeInv

LEMMA ClaimsImplementHandler == ClaimsSpec => HandlerSpec
<1>1. ClaimsInit => HandlerInit
  BY DEF ClaimsInit
<1>2. [ClaimsNext]_cvars => [HandlerNext]_allvars
  BY DEF ClaimsNext, cvars, allvars
<1> QED
  BY <1>1, <1>2, PTL DEF ClaimsSpec, HandlerSpec

\* Sockets, messages and jobs keep their types, whatever the peers do.
THEOREM EndpointTypes == ClaimsSpec => []ClaimsTypeOK
<1> DEFINE I == HandlerTypeInv /\ excused \in [Conn -> SUBSET Bus]
<1>1. ClaimsInit => I
  BY HandlerTypeInit DEF ClaimsInit
<1>2. I /\ [ClaimsNext]_cvars => I'
  <2> SUFFICES ASSUME I, [ClaimsNext]_cvars PROVE I'
    OBVIOUS
  <2>1. HandlerTypeInv'
    BY HandlerTypeStep DEF ClaimsNext, cvars, allvars
  <2>2. CASE ClaimsNext
    BY <2>1, <2>2 DEF ClaimsNext, Excuse, HandlerTypeInv, HandlerVarsOK
  <2>3. CASE UNCHANGED cvars
    BY <2>1, <2>3 DEF cvars
  <2> QED
    BY <2>2, <2>3
<1>3. I => ClaimsTypeOK
  BY TypeInvTypes DEF HandlerTypeInv, HandlerVarsOK, HandlerTypeOK, ClaimsTypeOK
<1> QED
  BY <1>1, <1>2, <1>3, PTL DEF ClaimsSpec

-----------------------------------------------------------------------------
(* Sockets and sessions, as long as no peer stops reading.                 *)

\* Nobody's registration begins or ends.
SessionsStay ==
    \A d \in Conn : /\ Registered(d)' <=> Registered(d)
                    /\ IsUser(d)' <=> IsUser(d)

LEMMA WriteStays ==
    ASSUME TypeInv, NEW c \in Conn, NEW s \in Session, sessions' = [sessions EXCEPT ![c] = s],
           Registered(c), s.type = sessions[c].type
    PROVE  SessionsStay
BY NoneAssumption DEF SessionsStay, IsUser, Registered, TypeInv, CoreOK

LEMMA HeardStays ==
    ASSUME TypeInv, NEW c \in Conn, Registered(c), Heard(c)
    PROVE  SessionsStay
<1> DEFINE s == [sessions[c] EXCEPT !.stale = FALSE]
<1>1. sessions[c] \in Session
  BY DEF TypeInv, CoreOK, Registered
<1>2. s \in Session /\ s.type = sessions[c].type
  BY <1>1 DEF Session
<1> QED
  BY <1>2, WriteStays DEF Heard

\* Frames after the registration, and time: the endpoint's side.
Traffic(c) ==
    \/ HandleDriverFrame(c) \/ FrameGoesOn(c) \/ PublishLocation(c)
    \/ TakeWelcome(c) \/ HandleRiderFrame(c) \/ TimePasses(c)

LEMMA TrafficStays ==
    ASSUME TypeInv, NEW c \in Conn, Traffic(c)
    PROVE  /\ SessionsStay
           /\ UNCHANGED <<rem, sweep, sock, reads, calls, mapped, entering, farewells, parting, view>>
<1>0. UNCHANGED <<sock, reads, calls, mapped, entering, farewells, parting, view>>
  BY DEF Traffic, HandleDriverFrame, FrameGoesOn, PublishLocation, TakeWelcome,
         HandleRiderFrame, TimePasses, hwvars
<1>1. ASSUME NEW shown \in BOOLEAN, BeginLocation(c, shown)
      PROVE  SessionsStay /\ UNCHANGED <<rem, sweep>>
  BY <1>1, HeardStays DEF BeginLocation, IsDriver
<1>2. ASSUME WriteOccupancy(c) PROVE SessionsStay /\ UNCHANGED <<rem, sweep>>
  BY <1>2, HeardStays DEF WriteOccupancy, SessionsStay, IsUser, Registered
<1>3. sessions' = sessions => SessionsStay
  BY DEF SessionsStay, IsUser, Registered
<1>4. ASSUME RiderWrite(c) PROVE SessionsStay /\ UNCHANGED <<rem, sweep>>
  BY <1>4, WriteStays DEF RiderWrite
<1>5. ASSUME HandleRiderFrame(c) \/ TimePasses(c)
      PROVE  SessionsStay /\ UNCHANGED <<rem, sweep>>
  BY <1>4, <1>5, FieldStep DEF HandleRiderFrame, TimePasses, Passage
<1>6. ASSUME \/ SetVisible(c) \/ PutBus(c) \/ AddPoint(c) \/ WriteVisibility(c) \/ TakeWelcome(c)
             \/ \E level \in Level : BeginOccupancy(c, level)
             \/ \E shown \in BOOLEAN : BeginVisibility(c, shown)
      PROVE  SessionsStay /\ UNCHANGED <<rem, sweep>>
  BY <1>3, <1>6
  DEF SetVisible, PutBus, AddPoint, WriteVisibility, TakeWelcome, BeginOccupancy,
      BeginVisibility, vars
<1> QED
  BY <1>0, <1>1, <1>2, <1>5, <1>6
  DEF Traffic, HandleDriverFrame, FrameGoesOn, PublishLocation

\* The loop of the alerts writes to a session, and to no other part of the map.
LEMMA AlertsStay ==
    ASSUME TypeInv, BeginAlerts \/ FindAlerts \/ AlertsReturn
    PROVE  /\ SessionsStay
           /\ UNCHANGED <<live, rem, sweep, sock, reads, calls, mapped, entering, mail, farewells,
                         parting, view>>
<1>1. AlertStep
  BY AlertJobs
<1>2. UNCHANGED <<live, rem, sweep>>
  BY <1>1, AlertIdentity
<1>3. SessionsStay
  <2>1. sessions' = sessions => SessionsStay
    BY DEF SessionsStay, IsUser, Registered
  <2>2. ASSUME NEW c \in Conn, RiderWrite(c) PROVE SessionsStay
    BY <2>2, WriteStays DEF RiderWrite
  <2> QED
    BY <1>1, <2>1, <2>2, AlertWrites
<1>4. UNCHANGED <<sock, reads, calls, mapped, entering, mail, farewells, parting, view>>
  BY DEF BeginAlerts, FindAlerts, AlertsReturn, hwvars
<1> QED
  BY <1>2, <1>3, <1>4

\* The rest of the broadcaster's run leaves the registry alone.
Casting ==
    StartBroadcast \/ TakeSnapshot \/ (\E a \in caster.due : SendAlert(a)) \/ EndBroadcast

LEMMA CastingStays ==
    ASSUME Casting
    PROVE  UNCHANGED <<vars, sock, reads, calls, mapped, entering, farewells, parting, view>>
BY DEF Casting, StartBroadcast, TakeSnapshot, SendAlert, EndBroadcast

LEMMA CasterIs ==
    CasterRuns => \/ BeginAlerts \/ FindAlerts \/ AlertsReturn
                  \/ Casting \/ Sends(Caster)
BY DEF CasterRuns, Casting

\* A send that nothing blocks changes the message and the page only.
LEMMA SendsOnlySend ==
    ASSUME EverybodyReads, NEW s \in Thread, Sends(s)
    PROVE  UNCHANGED <<vars, sock, reads, calls, mapped, entering, farewells, parting, caster>>
<1>1. ~ \E c \in Conn : DeliveryFails(s, c)
  BY DEF DeliveryFails, EverybodyReads
<1> QED
  BY <1>1 DEF Sends, Address, Deliver

\* Only the sweeper touches its own locals.
LEMMA OthersKeepSweep ==
    ASSUME TypeInv, EverybodyReads,
           (\E c \in Conn : ConnRuns(c)) \/ CasterRuns \/ Part \/ Sends(Sweeper)
    PROVE  UNCHANGED <<sweep, farewells>>
<1> USE ThreadsSend
<1>1. ASSUME NEW c \in Conn, ConnRuns(c) PROVE UNCHANGED <<sweep, farewells>>
  <2>1. CASE Sends(FrameOf(c)) \/ Sends(CloseOf(c))
    BY <2>1, SendsOnlySend DEF vars
  <2>2. CASE BeginRegister(c) \/ HandleDriverRegister(c) \/ HandleUserRegister(c)
    BY <2>2
    DEF BeginRegister, HandleDriverRegister, HandleUserRegister, RegisterDriver, RegisterUser, vars
  <2>3. CASE Open(c) \/ Close(c) \/ Stall(c) \/ Cleanup(c) \/ AnnounceDeparture(c)
    BY <2>3 DEF Open, Close, Stall, Cleanup, AnnounceDeparture, RemoveSession, RetireBus, vars
  <2>4. CASE Traffic(c)
    BY <2>4, TrafficStays
  <2> QED
    BY <1>1, <2>1, <2>2, <2>3, <2>4 DEF ConnRuns, Frames, Traffic
<1>2. CASE CasterRuns
  <2>1. CASE Sends(Caster)
    BY <2>1, SendsOnlySend DEF vars
  <2>2. CASE BeginAlerts \/ FindAlerts \/ AlertsReturn
    BY <2>2, AlertsStay
  <2>3. CASE Casting
    BY <2>3, CastingStays DEF vars
  <2> QED
    BY <1>2, <2>1, <2>2, <2>3, CasterIs
<1>3. CASE Part \/ Sends(Sweeper)
  BY <1>3, SendsOnlySend DEF Part, vars
<1> QED
  BY <1>1, <1>2, <1>3

\* What a step of the registry's loop does to the locals of the sweep.
LEMMA SweepMoves ==
    ASSUME TypeInv
    PROVE  /\ StartSweep => sweep.pc = "idle" /\ sweep'.pc = "scan" /\ sweep'.evicted = {}
           /\ EndSweep => sweep.pc = "scan" /\ sweep'.pc = "idle" /\ sweep'.evicted = {}
           /\ \A c \in Conn : CheckStale(c) =>
                 /\ sweep.pc = "scan" /\ sweep'.pc \in {"scan", "remove"}
                 /\ sweep'.evicted = sweep.evicted
           /\ EvictBus => /\ sweep.pc = "retire" /\ sweep'.pc = "scan"
                          /\ sweep'.evicted = sweep.evicted
           /\ EvictSession => sweep.pc = "remove"
           /\ EvictSession /\ ~ Registered(sweep.victim)
                => sweep'.pc = "scan" /\ sweep'.evicted = sweep.evicted /\ sessions' = sessions
           /\ EvictSession /\ Registered(sweep.victim) =>
                 /\ sweep'.pc \in {"scan", "retire"}
                 /\ sweep'.bus = sessions[sweep.victim].bus
                 /\ sweep'.evicted = sweep.evicted \union {GoodbyeOf(sweep.victim)}
                 /\ sessions' = [sessions EXCEPT ![sweep.victim] = None]
<1> USE DEF TypeInv, CoreOK
<1>1. StartSweep => sweep.pc = "idle" /\ sweep'.pc = "scan" /\ sweep'.evicted = {}
  BY DEF StartSweep, IdleSweep
<1>2. EndSweep => sweep.pc = "scan" /\ sweep'.pc = "idle" /\ sweep'.evicted = {}
  BY DEF EndSweep, IdleSweep
<1>3. ASSUME NEW c \in Conn, CheckStale(c)
      PROVE  /\ sweep.pc = "scan" /\ sweep'.pc \in {"scan", "remove"}
             /\ sweep'.evicted = sweep.evicted
  <2>1. \/ sweep' = [sweep EXCEPT !.todo = @ \ {c}, !.pc = "remove", !.victim = c]
        \/ sweep' = [sweep EXCEPT !.todo = @ \ {c}]
    BY <1>3 DEF CheckStale
  <2> QED
    BY <1>3, <2>1 DEF CheckStale, Sweep
<1>4. EvictBus => /\ sweep.pc = "retire" /\ sweep'.pc = "scan"
                  /\ sweep'.evicted = sweep.evicted
  BY DEF EvictBus, Sweep
<1>5. EvictSession => sweep.pc = "remove"
  BY DEF EvictSession
<1>6. EvictSession /\ ~ Registered(sweep.victim)
        => sweep'.pc = "scan" /\ sweep'.evicted = sweep.evicted /\ sessions' = sessions
  BY DEF EvictSession, Sweep
<1>7. ASSUME EvictSession, Registered(sweep.victim)
      PROVE  /\ sweep'.pc \in {"scan", "retire"}
             /\ sweep'.bus = sessions[sweep.victim].bus
             /\ sweep'.evicted = sweep.evicted \union {GoodbyeOf(sweep.victim)}
             /\ sessions' = [sessions EXCEPT ![sweep.victim] = None]
  BY <1>7 DEF EvictSession, Sweep
<1> QED
  BY <1>1, <1>2, <1>3, <1>4, <1>5, <1>6, <1>7

LEMMA SweepOrderStep ==
    ASSUME TypeInv, EverybodyReads, SweepOrder, [HandlerNext]_allvars
    PROVE  SweepOrder'
<1>1. CASE UNCHANGED <<sweep, farewells>>
  BY <1>1 DEF SweepOrder
<1>2. CASE BeginSweep \/ SweepReturns \/ (\E c \in Conn : CheckStale(c) /\ UNCHANGED hwvars)
  BY <1>2, SweepMoves DEF SweepOrder, BeginSweep, SweepReturns, hwvars
<1>3. CASE EvictBus /\ UNCHANGED hwvars
  BY <1>3, SweepMoves DEF SweepOrder, hwvars
<1>4. CASE EvictSession /\ UNCHANGED hwvars
  <2>1. farewells = {} /\ farewells' = farewells
    BY <1>4, SweepMoves DEF SweepOrder, hwvars
  <2>2. CASE Registered(sweep.victim)
    <3>1. GoodbyeOf(sweep.victim).bus = sweep'.bus
      BY <1>4, <2>2, SweepMoves DEF GoodbyeOf
    <3> QED
      BY <1>4, <2>1, <2>2, <3>1, SweepMoves DEF SweepOrder
  <2>3. CASE ~ Registered(sweep.victim)
    BY <1>4, <2>1, <2>3, SweepMoves DEF SweepOrder
  <2> QED
    BY <2>2, <2>3
<1>5. ASSUME NEW g \in farewells, TakeLeave(g) PROVE SweepOrder'
  BY <1>5 DEF TakeLeave, SweepOrder, vars
<1> QED
  BY <1>1, <1>2, <1>3, <1>4, <1>5, OthersKeepSweep
  DEF HandlerNext, SweeperRuns, SweepRegistry, allvars

\* A step that leaves the sockets, the sessions and the farewells alone.
SocketsStay ==
    /\ UNCHANGED <<sock, calls, mapped, entering, parting>> /\ Gone' = Gone /\ SessionsStay

LEMMA SocketsStayOK ==
    ASSUME SocketInv, SocketsStay
    PROVE  SocketInv'
BY DEF SocketInv, SocketOK, SocketsStay, SessionsStay

LEMMA GoneOfSweep == UNCHANGED <<sweep, farewells>> => Gone' = Gone
BY DEF Gone

\* The steps that open, register, close and clean up the socket of c.
LEMMA SocketSteps ==
    ASSUME HandlerTypeInv, SocketInv, NEW c \in Conn, UNCHANGED <<sweep, farewells>>,
           \/ Open(c) \/ Close(c) \/ BeginRegister(c)
           \/ HandleDriverRegister(c) \/ HandleUserRegister(c) \/ Cleanup(c)
    PROVE  SocketInv'
<1> USE DEF HandlerTypeInv, HandlerVarsOK, TypeInv, CoreOK
<1> SUFFICES ASSUME NEW d \in Conn PROVE SocketOK(d)'
  BY DEF SocketInv
<1>0. SocketOK(d) /\ Gone' = Gone
  BY GoneOfSweep DEF SocketInv
<1>1. CASE Open(c)
  <2>1. /\ \A e \in Conn : Registered(e)' <=> Registered(e)
        /\ UNCHANGED <<calls, entering, parting>> /\ mapped' = mapped \union {c}
        /\ sock'[d] = IF d = c THEN "fresh" ELSE sock[d]
    BY <1>1 DEF Open, Registered, vars
  <2>2. /\ calls[c] = 0 /\ c # parting /\ (\A g \in Gone : g.conn # c)
        /\ ~ Registered(c) /\ c \notin entering
    BY <1>1 DEF Open, Over, Gone
  <2> QED
    BY <1>0, <2>1, <2>2 DEF SocketOK
<1>2. CASE Close(c)
  <2>1. /\ \A e \in Conn : Registered(e)' <=> Registered(e)
        /\ UNCHANGED <<mapped, entering, parting>>
        /\ d # c => sock'[d] = sock[d] /\ calls'[d] = calls[d]
        /\ sock'[c] = "closed" /\ sock[c] # "closed"
    BY <1>2 DEF Close, Closes, Registered, vars
  <2> QED
    BY <1>0, <2>1 DEF SocketOK
<1>3. CASE HandleDriverRegister(c) \/ HandleUserRegister(c)
  <2>1. /\ UNCHANGED <<calls, mapped, parting>> /\ c \in entering /\ entering' = entering \ {c}
        /\ sock'[d] = IF d = c /\ sock[d] = "fresh" THEN "registered" ELSE sock[d]
    BY <1>3 DEF HandleDriverRegister, HandleUserRegister, Enter
  <2>3. sock[c] \in {"fresh", "closed"} /\ c # parting /\ \A g \in Gone : g.conn # c
    BY <2>1 DEF SocketInv, SocketOK
  <2>2. Registered(c)' /\ (d # c => (Registered(d)' <=> Registered(d)))
    <3>1. PICK s \in Session : sessions' = [sessions EXCEPT ![c] = s]
      BY <1>3, NewSessionsAreSessions
      DEF HandleDriverRegister, HandleUserRegister, RegisterDriver, RegisterUser
    <3> QED
      BY <3>1, NoneAssumption DEF Registered
  <2> QED
    BY <1>0, <2>1, <2>2, <2>3 DEF SocketOK
<1>5. CASE BeginRegister(c)
  <2>1. /\ \A e \in Conn : Registered(e)' <=> Registered(e)
        /\ UNCHANGED <<sock, calls, mapped, parting>>
        /\ sock[c] = "fresh" /\ entering' = entering \union {c}
    BY <1>5 DEF BeginRegister, Registered, vars
  <2>2. ~ Registered(c)
    BY <2>1 DEF SocketInv, SocketOK
  <2> QED
    BY <1>0, <2>1, <2>2 DEF SocketOK
<1>4. CASE Cleanup(c)
  <2>1. /\ UNCHANGED <<sock, entering, parting>> /\ mapped' = mapped \ {c} /\ calls[c] > 0
        /\ calls'[d] > 0 => calls[d] > 0
    BY <1>4, BoundsAssumption DEF Cleanup
  <2>2. sock[c] = "closed"
    BY <2>1 DEF SocketInv, SocketOK
  <2>3. Registered(d)' => Registered(d)
    BY <1>4 DEF Cleanup, RemoveSession, Registered, vars
  <2>4. d # c => (Registered(d)' <=> Registered(d))
    BY <1>4 DEF Cleanup, RemoveSession, Registered, vars
  <2> QED
    BY <1>0, <2>1, <2>2, <2>3, <2>4 DEF SocketOK
<1> QED
  BY <1>1, <1>2, <1>3, <1>4, <1>5

\* The sweep evicts a session: its socket, if open, is now one to part from.
LEMMA EvictionOK ==
    ASSUME HandlerTypeInv, SocketInv, EvictSession, UNCHANGED hwvars
    PROVE  SocketInv'
<1> USE DEF HandlerTypeInv, HandlerVarsOK, TypeInv, CoreOK
<1>1. CASE ~ Registered(sweep.victim)
  <2>1. Gone' = Gone /\ SessionsStay
    BY <1>1, SweepMoves DEF Gone, hwvars, SessionsStay, IsUser, Registered
  <2> QED
    BY <2>1, SocketsStayOK DEF SocketsStay, hwvars
<1>2. CASE Registered(sweep.victim)
  <2> DEFINE c == sweep.victim
             g == GoodbyeOf(c)
  <2>1. c \in Conn /\ g.conn = c
    BY DEF EvictSession, SweepOK, GoodbyeOf
  <2>2. /\ UNCHANGED <<sock, calls, mapped, entering, parting>>
        /\ Gone' = Gone \union {g}
    BY <1>2, SweepMoves DEF hwvars, Gone
  <2>3. \A d \in Conn : Registered(d)' <=> Registered(d) /\ d # c
    BY <1>2, <2>1, SweepMoves DEF Registered
  <2>4. /\ SocketOK(c) /\ c # parting /\ (\A h \in Gone : h.conn # c)
        /\ sock[c] # "fresh" /\ c \notin entering
    BY <1>2, <2>1 DEF SocketInv, SocketOK
  <2>5. ASSUME NEW d \in Conn PROVE SocketOK(d)'
    <3>1. SocketOK(d)
      BY DEF SocketInv
    <3> HIDE DEF g
    <3>2. CASE d = c
      BY <2>1, <2>2, <2>3, <2>4, <3>2 DEF SocketOK
    <3>3. CASE d # c
      BY <2>1, <2>2, <2>3, <3>1, <3>3 DEF SocketOK
    <3> QED
      BY <3>2, <3>3
  <2> QED
    BY <2>5 DEF SocketInv
<1> QED
  BY <1>1, <1>2

\* One farewell after the other: the socket is looked up, unmapped and closed.
LEMMA LeavingOK ==
    ASSUME HandlerTypeInv, SweepOrder, SocketInv, (\E g \in farewells : TakeLeave(g)) \/ Part
    PROVE  SocketInv'
<1> USE DEF HandlerTypeInv, HandlerVarsOK, TypeInv, CoreOK
<1> SUFFICES ASSUME NEW d \in Conn PROVE SocketOK(d)'
  BY DEF SocketInv
<1>0. SocketOK(d)
  BY DEF SocketInv
<1>1. ASSUME NEW g \in farewells, TakeLeave(g) PROVE SocketOK(d)'
  <2>0. Registered(d)' <=> Registered(d)
    BY <1>1 DEF TakeLeave, Registered, vars
  <2>1. sweep.evicted = {} /\ Gone = farewells /\ Gone' = Gone \ {g}
    <3>1. sweep.pc = "idle"
      BY DEF SweepOrder
    <3> QED
      BY <1>1, <3>1 DEF SweepOrder, TakeLeave, Gone, vars
  <2>2. UNCHANGED <<sock, calls, entering>> /\ parting = None /\ mapped' = mapped \ {g.conn}
    BY <1>1 DEF TakeLeave
  <2>3. parting' = IF g.conn \in mapped THEN g.conn ELSE None
    BY <1>1 DEF TakeLeave
  <2>4. d # None
    BY NoneAssumption
  <2>5. CASE g.conn = d
    <3>1. /\ \A h \in Gone' : h.conn # d
          /\ ~ Registered(d) /\ sock[d] # "fresh" /\ d \notin entering
      BY <1>0, <2>1, <2>5 DEF SocketOK
    <3>2. sock[d] # "closed" => parting' = d
      BY <1>0, <2>2, <2>3, <2>4, <2>5 DEF SocketOK
    <3> QED
      BY <1>0, <2>0, <2>2, <3>1, <3>2 DEF SocketOK
  <2>6. CASE g.conn # d
    <3>1. parting' # d /\ parting # d /\ (d \in mapped' <=> d \in mapped)
      BY <2>2, <2>3, <2>4, <2>6
    <3>2. \A h \in Gone : h.conn = d => h \in Gone'
      BY <2>1, <2>6
    <3>3. Gone' \subseteq Gone
      BY <2>1
    <3> QED
      BY <1>0, <2>0, <2>2, <3>1, <3>2, <3>3 DEF SocketOK
  <2> QED
    BY <2>5, <2>6
<1>2. CASE Part
  <2>1. /\ Registered(d)' <=> Registered(d)
        /\ Gone' = Gone /\ UNCHANGED <<mapped, entering>> /\ parting \in Conn /\ parting' = None
    BY <1>2 DEF Part, Registered, Gone, vars
  <2>2. d # parting => sock'[d] = sock[d] /\ calls'[d] = calls[d]
    BY <1>2, <2>1 DEF Part, Closes
  <2>3. sock'[parting] = "closed"
    BY <1>2, <2>1 DEF Part, Closes
  <2>4. d # None
    BY NoneAssumption
  <2> QED
    BY <1>0, <2>1, <2>2, <2>3, <2>4 DEF SocketOK
<1> QED
  BY <1>1, <1>2

LEMMA SocketStep ==
    ASSUME HandlerTypeInv, EverybodyReads, SweepOrder, SocketInv, [HandlerNext]_allvars
    PROVE  SocketInv'
<1> USE ThreadsSend
<1>0. TypeInv
  BY DEF HandlerTypeInv
<1>1. ASSUME NEW c \in Conn, ConnRuns(c) PROVE SocketInv'
  <2>0. UNCHANGED <<sweep, farewells>> /\ Gone' = Gone
    BY <1>0, <1>1, OthersKeepSweep, GoneOfSweep
  <2>1. CASE \/ Open(c) \/ Close(c) \/ BeginRegister(c)
              \/ HandleDriverRegister(c) \/ HandleUserRegister(c) \/ Cleanup(c)
    BY <2>0, <2>1, SocketSteps
  <2>2. CASE Traffic(c)
    BY <1>0, <2>0, <2>2, TrafficStays, SocketsStayOK DEF SocketsStay
  <2>3. CASE Stall(c) \/ AnnounceDeparture(c) \/ Sends(FrameOf(c)) \/ Sends(CloseOf(c))
    <3>1. UNCHANGED <<sock, calls, mapped, entering, parting, sessions>>
      BY <2>3, SendsOnlySend DEF Stall, AnnounceDeparture, RetireBus, vars
    <3> QED
      BY <2>0, <3>1, SocketsStayOK DEF SocketsStay, SessionsStay, IsUser, Registered
  <2> QED
    BY <1>1, <2>1, <2>2, <2>3 DEF ConnRuns, Frames, Traffic
<1>2. CASE CasterRuns
  <2>0. Gone' = Gone
    BY <1>0, <1>2, OthersKeepSweep, GoneOfSweep
  <2>1. CASE BeginAlerts \/ FindAlerts \/ AlertsReturn
    BY <1>0, <2>0, <2>1, AlertsStay, SocketsStayOK DEF SocketsStay
  <2>2. CASE Casting \/ Sends(Caster)
    <3>1. UNCHANGED <<sock, calls, mapped, entering, parting, sessions>>
      BY <2>2, SendsOnlySend, CastingStays DEF vars
    <3> QED
      BY <2>0, <3>1, SocketsStayOK DEF SocketsStay, SessionsStay, IsUser, Registered
  <2> QED
    BY <1>2, <2>1, <2>2, CasterIs
<1>3. CASE BeginSweep \/ SweepReturns \/ Sends(Sweeper)
          \/ (UNCHANGED hwvars /\ (EvictBus \/ \E c \in Conn : CheckStale(c)))
  <2>1. Gone' = Gone
    <3>1. CASE Sends(Sweeper)
      BY <1>0, <3>1, OthersKeepSweep, GoneOfSweep
    <3>2. CASE ~ Sends(Sweeper)
      BY <1>0, <1>3, <3>2, SweepMoves DEF Gone, SweepOrder, BeginSweep, SweepReturns, hwvars
    <3> QED
      BY <3>1, <3>2
  <2>2. UNCHANGED <<sock, calls, mapped, entering, parting, sessions>>
    BY <1>3, SendsOnlySend
    DEF BeginSweep, SweepReturns, StartSweep, EndSweep, EvictBus, CheckStale, hwvars, vars
  <2> QED
    BY <2>1, <2>2, SocketsStayOK DEF SocketsStay, SessionsStay, IsUser, Registered
<1>4. CASE UNCHANGED hwvars /\ EvictSession
  BY <1>4, EvictionOK
<1>5. CASE (\E g \in farewells : TakeLeave(g)) \/ Part
  BY <1>5, LeavingOK
<1>6. CASE UNCHANGED allvars
  <2>1. UNCHANGED <<sock, calls, mapped, entering, parting, sessions>> /\ Gone' = Gone
    BY <1>6 DEF allvars, Gone
  <2> QED
    BY <2>1, SocketsStayOK DEF SocketsStay, SessionsStay, IsUser, Registered
<1> QED
  BY <1>1, <1>2, <1>3, <1>4, <1>5, <1>6 DEF HandlerNext, SweeperRuns, SweepRegistry

EndpointInv == HandlerTypeInv /\ SweepOrder /\ SocketInv

LEMMA EndpointInit == HandlerInit => EndpointInv
<1> SUFFICES ASSUME HandlerInit PROVE EndpointInv
  OBVIOUS
<1>1. Gone = {} /\ SweepOrder
  BY DEF HandlerInit, Init, IdleSweep, Gone, SweepOrder
<1>2. SocketInv
  BY <1>1 DEF HandlerInit, Init, SocketInv, SocketOK, Registered
<1> QED
  BY <1>1, <1>2, HandlerTypeInit DEF EndpointInv

LEMMA EndpointStep == EndpointInv /\ EverybodyReads /\ [HandlerNext]_allvars => EndpointInv'
BY HandlerTypeStep, SweepOrderStep, SocketStep DEF EndpointInv, HandlerTypeInv

\* As long as no peer stops reading, every session the sweep evicts under an
\* open socket is taken leave of, and its socket closed: no page is left with a
\* connection whose frames the server refuses.
THEOREM EvictedSocketsClose == HandlerSpec /\ []EverybodyReads => []EvictedSocketIsClosed
<1>1. EndpointInv => EvictedSocketIsClosed
  BY DEF EndpointInv, SocketInv, SocketOK, EvictedSocketIsClosed, Gone
<1> QED
  BY <1>1, EndpointInit, EndpointStep, PTL DEF HandlerSpec

\* Where no socket may stop reading, none does.
THEOREM NoStallsAllowed ==
    ASSUME MaxStalls = 0
    PROVE  HandlerSpec => []EverybodyReads
<1>1. HandlerInit => EverybodyReads
  BY DEF HandlerInit, EverybodyReads
<1>2. EverybodyReads /\ [HandlerNext]_allvars => EverybodyReads'
  <2> SUFFICES ASSUME EverybodyReads, [HandlerNext]_allvars PROVE EverybodyReads'
    OBVIOUS
  <2> USE ThreadsSend
  <2>1. ASSUME NEW c \in Conn PROVE ~ Stall(c)
    <3>1. {d \in Conn : reads[d] # "yes"} = {}
      BY DEF EverybodyReads
    <3>2. Cardinality({d \in Conn : reads[d] # "yes"}) = 0
      BY <3>1, FS_EmptySet
    <3> QED
      BY <3>2 DEF Stall
  <2>2. ASSUME NEW c \in Conn, Open(c) PROVE EverybodyReads'
    BY <2>2 DEF Open, EverybodyReads
  <2>3. ASSUME NEW c \in Conn, ConnRuns(c), ~ Open(c) PROVE reads' = reads
    <3>1. CASE Sends(FrameOf(c)) \/ Sends(CloseOf(c))
      BY <3>1, SendsOnlySend
    <3>2. CASE Frames(c) \/ TimePasses(c)
      BY <3>2
      DEF Frames, BeginRegister, HandleDriverRegister, HandleDriverFrame, FrameGoesOn,
          PublishLocation, HandleUserRegister, TakeWelcome, HandleRiderFrame, TimePasses, hwvars
    <3>3. CASE Close(c) \/ Cleanup(c) \/ AnnounceDeparture(c)
      BY <3>3 DEF Close, Cleanup, AnnounceDeparture
    <3> QED
      BY <2>1, <2>3, <3>1, <3>2, <3>3 DEF ConnRuns
  <2>4. CASE SweeperRuns
    <3>1. CASE Sends(Sweeper)
      BY <3>1, SendsOnlySend DEF EverybodyReads
    <3>2. reads' = reads \/ Sends(Sweeper)
      BY <2>4 DEF SweeperRuns, BeginSweep, SweepRegistry, SweepReturns, TakeLeave, Part, hwvars
    <3> QED
      BY <3>1, <3>2 DEF EverybodyReads
  <2>5. CASE CasterRuns
    <3>1. CASE Sends(Caster)
      BY <3>1, SendsOnlySend DEF EverybodyReads
    <3>2. reads' = reads \/ Sends(Caster)
      BY <2>5, CastingStays, CasterIs DEF BeginAlerts, FindAlerts, AlertsReturn, hwvars
    <3> QED
      BY <3>1, <3>2 DEF EverybodyReads
  <2> QED
    BY <2>2, <2>3, <2>4, <2>5 DEF HandlerNext, EverybodyReads, allvars
<1> QED
  BY <1>1, <1>2, PTL DEF HandlerSpec

-----------------------------------------------------------------------------
(* Farewells.                                                              *)

LEMMA ThreadsDiffer ==
    /\ Sweeper # Caster
    /\ \A c, d \in Conn : /\ FrameOf(c) # CloseOf(d)
                          /\ FrameOf(c) # Sweeper /\ FrameOf(c) # Caster
                          /\ CloseOf(c) # Sweeper /\ CloseOf(c) # Caster
                          /\ CloseOf(c) = CloseOf(d) => c = d
BY DEF FrameOf, CloseOf, Sweeper, Caster

\* Who writes a message, and of which type.
MailMoves ==
    \/ mail' = mail
    \/ \E s \in Thread, m \in Mail : /\ mail' = [mail EXCEPT ![s] = m]
                                     /\ m.type # "driver-left"
                                     /\ s = Caster \/ \E c \in Conn : s = FrameOf(c)
    \/ \E c \in Conn : AnnounceDeparture(c)
    \/ \E g \in farewells : TakeLeave(g)
    \/ \E s \in Thread : Address(s) \/ \E c \in Conn : Deliver(s, c)
    \/ \E c \in Conn : Open(c)

LEMMA MailMovesSo ==
    ASSUME HandlerTypeInv, EverybodyReads, HandlerNext
    PROVE  MailMoves
<1> USE ThreadsSend DEF HandlerTypeInv
<1>0. ASSUME NEW s \in Thread, Sends(s) PROVE MailMoves
  <2>1. ~ \E c \in Conn : DeliveryFails(s, c)
    BY DEF DeliveryFails, EverybodyReads
  <2> QED
    BY <1>0, <2>1 DEF Sends, MailMoves
<1>1. ASSUME NEW c \in Conn, ConnRuns(c) PROVE MailMoves
  <2>1. CASE PublishLocation(c)
    <3> DEFINE b == io[c].bus
               routes == IF io[c].attached THEN {live[b].route} ELSE {None, RouteOf[b]}
    <3>1. b \in Bus /\ (io[c].attached => live[b] \in LiveBus)
      BY <2>1 DEF PublishLocation, SetVisible, TypeInv, CoreOK, FrameOK
    <3>2. routes \subseteq Route \union {None}
      BY <3>1, ConstantsAssumption DEF LiveBus
    <3>3. CASE mail' # mail
      <4>1. PICK r \in routes :
              mail' = [mail EXCEPT ![FrameOf(c)] = News("bus-location-update", {b}, r, None)]
        BY <2>1, <3>3 DEF PublishLocation
      <4>2. /\ News("bus-location-update", {b}, r, None) \in Mail
            /\ News("bus-location-update", {b}, r, None).type # "driver-left"
        BY <3>1, <3>2, NewsIsMail
      <4> QED
        BY <4>1, <4>2 DEF MailMoves
    <3> QED
      BY <3>3 DEF MailMoves
  <2>2. CASE HandleUserRegister(c)
    <3>1. /\ News("active-buses", {}, None, None) \in Mail
          /\ News("active-buses", {}, None, None).type # "driver-left"
      BY NewsIsMail
    <3> QED
      BY <2>2, <3>1 DEF HandleUserRegister, MailMoves
  <2>3. CASE TakeWelcome(c)
    <3>1. /\ News("active-buses", VisibleBuses, None, {c}) \in Mail
          /\ News("active-buses", VisibleBuses, None, {c}).type # "driver-left"
      BY NewsIsMail DEF VisibleBuses
    <3> QED
      BY <2>3, <3>1 DEF TakeWelcome, MailMoves
  <2>4. CASE Sends(FrameOf(c)) \/ Sends(CloseOf(c))
    BY <1>0, <2>4
  <2>5. CASE AnnounceDeparture(c)
    BY <2>5 DEF MailMoves
  <2>6. CASE Open(c) \/ Close(c) \/ Stall(c) \/ BeginRegister(c) \/ HandleDriverRegister(c)
               \/ HandleDriverFrame(c) \/ FrameGoesOn(c) \/ HandleRiderFrame(c) \/ Cleanup(c)
               \/ TimePasses(c)
    BY <2>6
    DEF MailMoves, Close, Stall, BeginRegister, HandleDriverRegister, HandleDriverFrame,
        FrameGoesOn, HandleRiderFrame, Cleanup, TimePasses, hwvars
  <2> QED
    BY <1>1, <2>1, <2>2, <2>3, <2>4, <2>5, <2>6 DEF ConnRuns, Frames
<1>2. CASE SweeperRuns
  <2>1. mail' = mail \/ Sends(Sweeper) \/ \E g \in farewells : TakeLeave(g)
    BY <1>2 DEF SweeperRuns, BeginSweep, SweepRegistry, SweepReturns, Part, hwvars
  <2> QED
    BY <1>0, <2>1 DEF MailMoves
<1>3. CASE CasterRuns
  <2>1. CASE TakeSnapshot
    <3>1. /\ News("active-buses", VisibleBuses, None, caster.users) \in Mail
          /\ News("active-buses", VisibleBuses, None, caster.users).type # "driver-left"
      BY NewsIsMail DEF VisibleBuses, HandlerVarsOK
    <3> QED
      BY <2>1, <3>1 DEF TakeSnapshot, MailMoves
  <2>2. ASSUME NEW a \in caster.due, SendAlert(a) PROVE MailMoves
    <3>1. a.rider \in Conn
      BY DEF HandlerVarsOK, Alert
    <3>2. /\ News("proximity-alert", {}, None, {a.rider}) \in Mail
          /\ News("proximity-alert", {}, None, {a.rider}).type # "driver-left"
      BY <3>1, NewsIsMail
    <3> QED
      BY <2>2, <3>2 DEF SendAlert, MailMoves
  <2>3. \/ mail' = mail \/ Sends(Caster) \/ TakeSnapshot
        \/ \E a \in caster.due : SendAlert(a)
    BY <1>3
    DEF CasterRuns, StartBroadcast, BeginAlerts, FindAlerts, AlertsReturn, EndBroadcast, hwvars
  <2> QED
    BY <1>0, <2>1, <2>2, <2>3 DEF MailMoves
<1> QED
  BY <1>1, <1>2, <1>3 DEF HandlerNext

\* Only a close callback retires a bus by its rem, and only one that has
\* nothing else to send.
LEMMA RemMoves ==
    ASSUME TypeInv, EverybodyReads, HandlerNext
    PROVE  \/ rem' = rem
           \/ \E c \in Conn : /\ rem[c] = None /\ mail[CloseOf(c)] = None /\ mail' = mail
                              /\ \A d \in Conn \ {c} : rem'[d] = rem[d]
           \/ \E c \in Conn : AnnounceDeparture(c)
<1> USE ThreadsSend
<1>1. ASSUME NEW c \in Conn, Cleanup(c)
      PROVE  \/ rem' = rem
             \/ /\ rem[c] = None /\ mail[CloseOf(c)] = None /\ mail' = mail
                /\ \A d \in Conn \ {c} : rem'[d] = rem[d]
  BY <1>1 DEF Cleanup, RemoveSession, vars, TypeInv, CoreOK
<1>2. ASSUME NEW c \in Conn, Traffic(c) PROVE rem' = rem
  BY <1>2, TrafficStays
<1>3. ASSUME NEW s \in Thread, Sends(s) PROVE rem' = rem
  BY <1>3, SendsOnlySend DEF vars
<1>4. ASSUME NEW c \in Conn,
             \/ Open(c) \/ Close(c) \/ Stall(c)
             \/ BeginRegister(c) \/ HandleDriverRegister(c) \/ HandleUserRegister(c)
      PROVE  rem' = rem
  BY <1>4
  DEF Open, Close, Stall, BeginRegister, HandleDriverRegister, HandleUserRegister, RegisterDriver,
      RegisterUser, vars
<1>5. CASE SweeperRuns
  BY <1>3, <1>5
  DEF SweeperRuns, BeginSweep, StartSweep, SweepRegistry, CheckStale, EvictSession, EvictBus,
      SweepReturns, EndSweep, TakeLeave, Part, vars
<1>6. CASE CasterRuns
  BY <1>3, <1>6, CasterIs, CastingStays, AlertsStay DEF vars
<1> QED
  BY <1>1, <1>2, <1>3, <1>4, <1>5, <1>6 DEF HandlerNext, ConnRuns, Frames, Traffic

\* The frame in service unmaps no bus.
LEMMA ServeKeepsLive ==
    ASSUME TypeInv, NEW c \in Conn, ServeFrame(c), NEW b \in Bus, live[b] # None
    PROVE  live'[b] # None
<1> USE NoneAssumption DEF TypeInv, CoreOK
<1>1. CASE PutBus(c)
  <2>1. io[c].bus \in Bus /\ NewBus(io[c].driver, RouteOf[io[c].bus]) \in LiveBus
    BY <1>1, NewBusIsLiveBus, ConstantsAssumption DEF PutBus, FrameOK
  <2> QED
    BY <1>1, <2>1 DEF PutBus
<1>2. CASE AddPoint(c)
  <2> DEFINE e == io[c].bus
             state == IF live[e] = None THEN NewBus(io[c].driver, None) ELSE live[e]
             point == [state EXCEPT !.point = TRUE]
  <2>1. e \in Bus /\ state \in LiveBus
    BY <1>2, NewBusIsLiveBus DEF AddPoint, FrameOK
  <2>2. point \in LiveBus
    BY <2>1 DEF LiveBus
  <2>3. live' = [live EXCEPT ![e] = point]
    BY <1>2 DEF AddPoint
  <2> QED
    BY <2>1, <2>2, <2>3
<1>3. CASE SetVisible(c) \/ WriteOccupancy(c) \/ WriteVisibility(c)
  <2> DEFINE shown == [live[b] EXCEPT !.visible = io[c].shown]
             crowded == [live[b] EXCEPT !.occupancy = io[c].level]
  <2>1. shown \in LiveBus /\ crowded \in LiveBus
    BY DEF LiveBus, Frame
  <2>2. live'[b] \in {live[b], shown, crowded}
    BY <1>3 DEF SetVisible, WriteOccupancy, WriteVisibility
  <2> QED
    BY <2>1, <2>2
<1> QED
  BY <1>1, <1>2, <1>3 DEF ServeFrame

\* A bus leaves the map by a departure that is announced, or by the sweep.
LEMMA LiveMoves ==
    ASSUME TypeInv, EverybodyReads, HandlerNext, NEW b \in Bus, live[b] # None, live'[b] = None
    PROVE  \/ \E c \in Conn : AnnounceDeparture(c) /\ rem[c] = b
           \/ sweep.pc = "retire" /\ sweep.bus = b /\ UNCHANGED hwvars /\ EvictBus
<1> USE ThreadsSend
<1>1. ASSUME NEW c \in Conn, AnnounceDeparture(c) PROVE rem[c] = b
  BY <1>1 DEF AnnounceDeparture, RetireBus, TypeInv, CoreOK
<1>2. EvictBus => sweep.pc = "retire" /\ sweep.bus = b
  BY DEF EvictBus, TypeInv, CoreOK
<1>3. ASSUME NEW s \in Thread, Sends(s) PROVE FALSE
  BY <1>3, SendsOnlySend DEF vars
<1>4. ASSUME NEW c \in Conn, FrameGoesOn(c) \/ PublishLocation(c) PROVE FALSE
  BY <1>4, ServeKeepsLive DEF FrameGoesOn, PublishLocation, ServeFrame
<1>5. ASSUME NEW c \in Conn, ConnRuns(c) PROVE AnnounceDeparture(c)
  <2>1. CASE Open(c) \/ Close(c) \/ Stall(c) \/ BeginRegister(c) \/ TakeWelcome(c)
    BY <2>1 DEF Open, Close, Stall, BeginRegister, TakeWelcome, vars
  <2>2. CASE HandleDriverRegister(c) \/ HandleUserRegister(c) \/ HandleDriverFrame(c)
    BY <2>2
    DEF HandleDriverRegister, HandleUserRegister, HandleDriverFrame, RegisterDriver,
        RegisterUser, BeginLocation, BeginVisibility, BeginOccupancy
  <2>3. CASE HandleRiderFrame(c) \/ TimePasses(c) \/ Cleanup(c)
    BY <2>3
    DEF HandleRiderFrame, TrackBus, SubscribeRoute, Touch, TimePasses, GoStale, CoolDown,
        Cleanup, RemoveSession, vars
  <2> QED
    BY <1>3, <1>4, <1>5, <2>1, <2>2, <2>3 DEF ConnRuns, Frames
<1>6. CASE SweeperRuns
  <2>1. ~ (BeginSweep \/ SweepReturns \/ (\E g \in farewells : TakeLeave(g)) \/ Part)
    BY DEF BeginSweep, StartSweep, SweepReturns, EndSweep, TakeLeave, Part, vars
  <2>2. ~ ((\E c \in Conn : CheckStale(c)) \/ EvictSession)
    BY DEF CheckStale, EvictSession
  <2> QED
    BY <1>2, <1>3, <1>6, <2>1, <2>2 DEF SweeperRuns, SweepRegistry
<1>7. ~ CasterRuns
  BY <1>3, CasterIs, CastingStays, AlertsStay DEF vars
<1> QED
  BY <1>1, <1>5, <1>6, <1>7 DEF HandlerNext

\* What is still to be taken leave of stays so until the sweeper does.
LEMMA GoneMoves ==
    ASSUME HandlerTypeInv, EverybodyReads, SweepOrder, HandlerNext
    PROVE  Gone \subseteq Gone' \/ \E g \in farewells : TakeLeave(g)
<1>0. TypeInv
  BY DEF HandlerTypeInv
<1>1. CASE (\E c \in Conn : ConnRuns(c)) \/ CasterRuns \/ Part \/ Sends(Sweeper)
  BY <1>0, <1>1, OthersKeepSweep, GoneOfSweep
<1>2. CASE BeginSweep \/ SweepReturns
  BY <1>0, <1>2, SweepMoves DEF BeginSweep, SweepReturns, SweepOrder, Gone, hwvars
<1>3. CASE SweepRegistry
  BY <1>0, <1>3, SweepMoves DEF SweepRegistry, Gone, hwvars
<1> QED
  BY <1>1, <1>2, <1>3 DEF HandlerNext, SweeperRuns

\* Nobody overwrites a driver-left that is being sent.
LeftMail ==
    /\ \A c \in Conn : rem[c] # None => mail[CloseOf(c)] = None
    /\ \A s \in Thread : mail[s] # None /\ mail[s].type = "driver-left"
                            => s = Sweeper \/ \E c \in Conn : s = CloseOf(c)

LEMMA LeftMailStep ==
    ASSUME HandlerTypeInv, EverybodyReads, LeftMail, HandlerNext
    PROVE  LeftMail'
<1> USE ThreadsSend, ThreadsDiffer DEF HandlerTypeInv, HandlerVarsOK
<1>1. MailMoves
  BY MailMovesSo
<1>2. ASSUME NEW c \in Conn, rem'[c] # None PROVE mail'[CloseOf(c)] = None
  <2>1. CASE \E d \in Conn : AnnounceDeparture(d)
    <3>1. PICK d \in Conn : AnnounceDeparture(d)
      BY <2>1
    <3>2. d # c /\ rem'[c] = rem[c] /\ mail'[CloseOf(c)] = mail[CloseOf(c)]
      BY <1>2, <3>1 DEF AnnounceDeparture, RetireBus, TypeInv, CoreOK
    <3> QED
      BY <1>2, <3>2 DEF LeftMail
  <2>2. CASE ~ \E d \in Conn : AnnounceDeparture(d)
    <3>1. mail[CloseOf(c)] = None
      BY <1>2, <2>2, RemMoves DEF LeftMail
    <3>2. CASE \E g \in farewells : TakeLeave(g)
      BY <3>1, <3>2 DEF TakeLeave
    <3>3. CASE \E s \in Thread : Address(s) \/ \E d \in Conn : Deliver(s, d)
      BY <3>1, <3>3 DEF Address, Deliver
    <3>4. CASE \E d \in Conn : Open(d)
      BY <3>1, <3>4 DEF Open, Forgotten
    <3> QED
      BY <1>1, <2>2, <3>1, <3>2, <3>3, <3>4 DEF MailMoves
  <2> QED
    BY <2>1, <2>2
<1>3. ASSUME NEW s \in Thread, mail'[s] # None, mail'[s].type = "driver-left"
      PROVE  s = Sweeper \/ \E c \in Conn : s = CloseOf(c)
  <2>1. CASE \E c \in Conn : AnnounceDeparture(c)
    BY <1>3, <2>1 DEF AnnounceDeparture, LeftMail
  <2>2. CASE \E g \in farewells : TakeLeave(g)
    BY <1>3, <2>2 DEF TakeLeave, LeftMail
  <2>3. CASE \E r \in Thread : Address(r) \/ \E d \in Conn : Deliver(r, d)
    <3>1. PICK r \in Thread : Address(r) \/ \E d \in Conn : Deliver(r, d)
      BY <2>3
    <3>2. mail[r] # None /\ mail[r] \in Mail
      BY <3>1 DEF Address, Deliver
    <3>3. mail'[r] # None => mail'[r].type = mail[r].type
      BY <3>1, <3>2 DEF Address, Deliver, Mail
    <3>4. s # r => mail'[s] = mail[s]
      BY <3>1 DEF Address, Deliver
    <3> QED
      BY <1>3, <3>2, <3>3, <3>4 DEF LeftMail
  <2>4. CASE \E d \in Conn : Open(d)
    <3>1. PICK d \in Conn : Open(d)
      BY <2>4
    <3>2. mail'[s] = Forgotten(mail[s], d) /\ mail[s] \in Mail \union {None}
      BY <3>1 DEF Open
    <3>3. mail[s] # None /\ mail[s].type = "driver-left"
      BY <1>3, <3>2, ForgottenTyped
    <3> QED
      BY <3>3 DEF LeftMail
  <2> QED
    BY <1>1, <1>3, <2>1, <2>2, <2>3, <2>4 DEF MailMoves, LeftMail
<1> QED
  BY <1>2, <1>3 DEF LeftMail

\* s is sending the departure of b, to c among others.
Tells(s, b, c) ==
    /\ mail[s] # None /\ mail[s].type = "driver-left" /\ b \in mail[s].buses
    /\ mail[s].to = None \/ c \in mail[s].to

LEMMA PendingIs ==
    ASSUME SweepOrder, NEW b \in Bus, NEW c \in Conn
    PROVE  FarewellPending(b, c) <=> \/ sweep.pc = "retire" /\ sweep.bus = b
                                     \/ \E d \in Conn : rem[d] = b
                                     \/ \E g \in Gone : g.bus = b
                                     \/ \E s \in Thread : Tells(s, b, c)
BY DEF FarewellPending, Gone, Tells

\* A departure just announced is told to everybody.
LEMMA AnnouncedIsTold ==
    ASSUME HandlerTypeInv, NEW b \in Bus, NEW c \in Conn, NEW s \in Thread,
           mail' = [mail EXCEPT ![s] = News("driver-left", {b}, None, None)]
    PROVE  Tells(s, b, c)'
<1> DEFINE m == News("driver-left", {b}, None, None)
<1>1. m \in Mail /\ m.type = "driver-left" /\ m.buses = {b} /\ m.to = None
  BY NewsIsMail
<1>2. m # None
  BY <1>1, MailAssumption
<1>3. mail'[s] = m
  BY DEF HandlerTypeInv, HandlerVarsOK
<1> QED
  BY <1>1, <1>2, <1>3 DEF Tells

\* A driver-left under way to a watching rider who still shows the bus stays
\* under way, whatever step comes next.
LEMMA TellsStep ==
    ASSUME HandlerTypeInv, EverybodyReads, LeftMail, HandlerNext, NEW c \in Conn, NEW b \in Bus,
           Watching(c), b \in view'[c], NEW s \in Thread, Tells(s, b, c)
    PROVE  Tells(s, b, c)'
<1> USE ThreadsSend, ThreadsDiffer DEF HandlerTypeInv, HandlerVarsOK
<1>0. mail[s] \in Mail /\ mail[s] # None
  BY DEF Tells
<1>1. CASE mail'[s] = mail[s]
  BY <1>1 DEF Tells
<1>2. s = Sweeper \/ \E d \in Conn : s = CloseOf(d)
  BY DEF Tells, LeftMail
<1>3. CASE Address(s)
  <2>1. c \in Users
    BY DEF Watching, Users
  <2>2. mail'[s] = [mail[s] EXCEPT !.to = Users]
    BY <1>3, <2>1 DEF Address
  <2>3. mail'[s] \in Mail
    BY <1>0, <2>2 DEF Mail, Users
  <2>4. mail'[s].type = mail[s].type /\ mail'[s].buses = mail[s].buses /\ mail'[s].to = Users
    BY <1>0, <2>2 DEF Mail
  <2> QED
    BY <2>1, <2>3, <2>4, MailAssumption DEF Tells
<1>4. ASSUME NEW d \in Conn, Deliver(s, d) PROVE Tells(s, b, c)'
  <2>1. c \in mail[s].to
    BY <1>4 DEF Deliver, Tells
  <2>2. d # c
    <3> SUFFICES ASSUME d = c PROVE FALSE
      OBVIOUS
    <3>1. Reachable(c) /\ Wanted(c, mail[s]) /\ reads[c] = "yes"
      BY DEF Watching, Wanted, Tells, EverybodyReads
    <3>2. view'[c] = view[c] \ mail[s].buses
      BY <1>4, <3>1 DEF Deliver, Shown, Tells
    <3> QED
      BY <3>2 DEF Tells
  <2>3. mail'[s] = [mail[s] EXCEPT !.to = mail[s].to \ {d}]
    BY <1>4, <2>1, <2>2 DEF Deliver
  <2>4. mail[s].to \in SUBSET Conn
    BY <1>0, <1>4 DEF Mail, Deliver
  <2>5. mail'[s] \in Mail
    BY <1>0, <2>3, <2>4 DEF Mail
  <2>6. mail'[s].type = mail[s].type /\ mail'[s].buses = mail[s].buses
        /\ mail'[s].to = mail[s].to \ {d}
    BY <1>0, <2>3 DEF Mail
  <2> QED
    BY <2>1, <2>2, <2>5, <2>6, MailAssumption DEF Tells
<1>5. ASSUME NEW r \in Thread, r # s, Address(r) \/ \E d \in Conn : Deliver(r, d)
      PROVE  mail'[s] = mail[s]
  BY <1>5 DEF Address, Deliver
<1>6. ASSUME NEW d \in Conn, AnnounceDeparture(d) PROVE mail'[s] = mail[s]
  <2>1. s # CloseOf(d)
    BY <1>0, <1>6 DEF AnnounceDeparture, RetireBus, LeftMail
  <2> QED
    BY <1>6, <2>1 DEF AnnounceDeparture
<1>7. ASSUME NEW g \in farewells, TakeLeave(g) PROVE mail'[s] = mail[s]
  BY <1>0, <1>7 DEF TakeLeave
<1>8. ASSUME NEW d \in Conn, Open(d) PROVE Tells(s, b, c)'
  <2>1. d # c
    BY <1>8 DEF Open, Over, Watching, Reachable
  <2>2. mail'[s] = Forgotten(mail[s], d)
    BY <1>8 DEF Open
  <2>3. CASE mail[s].to = None
    BY <1>1, <2>2, <2>3 DEF Forgotten
  <2>4. CASE mail[s].to # None
    <3>1. c \in mail[s].to /\ mail[s].to \in SUBSET Conn
      BY <1>0, <2>4 DEF Tells, Mail
    <3>2. mail'[s] = [mail[s] EXCEPT !.to = mail[s].to \ {d}]
      BY <1>0, <2>1, <2>2, <2>4, <3>1 DEF Forgotten
    <3>3. mail'[s] \in Mail /\ mail'[s].type = mail[s].type
          /\ mail'[s].buses = mail[s].buses /\ mail'[s].to = mail[s].to \ {d}
      BY <1>0, <3>1, <3>2 DEF Mail
    <3> QED
      BY <2>1, <3>1, <3>3, MailAssumption DEF Tells
  <2> QED
    BY <2>3, <2>4
<1>9. MailMoves
  BY MailMovesSo
<1> QED
  BY <1>1, <1>2, <1>3, <1>4, <1>5, <1>6, <1>7, <1>8, <1>9 DEF MailMoves

\* From the moment a bus leaves the map until its marker is gone from the map
\* of a watching rider, somebody has still to tell that rider.
LEMMA ToldStep ==
    ASSUME HandlerTypeInv, EverybodyReads, SweepOrder, SweepOrder', LeftMail, HandlerNext,
           NEW c \in Conn, NEW b \in Bus, b \in view'[c], live'[b] = None,
           live[b] # None \/ (Watching(c) /\ FarewellPending(b, c))
    PROVE  FarewellPending(b, c)'
<1> USE ThreadsSend
<1>0. TypeInv /\ b # None
  BY NoneAssumption DEF HandlerTypeInv
<1>1. \/ \E d \in Conn : rem'[d] = b
      \/ \E g \in Gone' : g.bus = b
      \/ \E s \in Thread : Tells(s, b, c)'
      => FarewellPending(b, c)'
  BY PendingIs DEF FarewellPending, Gone, Tells
<1>2. ASSUME NEW d \in Conn, AnnounceDeparture(d), rem[d] = b PROVE FarewellPending(b, c)'
  BY <1>1, <1>2, AnnouncedIsTold DEF AnnounceDeparture
<1>3. ASSUME NEW g \in Gone, g.bus = b PROVE FarewellPending(b, c)'
  <2>1. CASE g \in Gone'
    BY <1>1, <1>3, <2>1
  <2>2. CASE g \notin Gone'
    <3>1. PICK h \in farewells : TakeLeave(h)
      BY <1>3, <2>2, GoneMoves
    <3>2. h = g
      BY <2>2, <3>1 DEF TakeLeave, Gone, vars
    <3>3. mail' = [mail EXCEPT ![Sweeper] = News("driver-left", {b}, None, None)]
      BY <1>0, <1>3, <3>1, <3>2 DEF TakeLeave
    <3> QED
      BY <1>1, <3>3, AnnouncedIsTold
  <2> QED
    BY <2>1, <2>2
<1>4. CASE sweep.pc = "retire" /\ sweep.bus = b
  <2>1. PICK g \in sweep.evicted : g.bus = b
    BY <1>4 DEF SweepOrder
  <2> QED
    BY <1>3, <2>1 DEF Gone
<1>5. CASE live[b] # None
  BY <1>0, <1>2, <1>4, <1>5, LiveMoves
<1>6. CASE Watching(c) /\ FarewellPending(b, c)
  <2>1. ASSUME NEW d \in Conn, rem[d] = b PROVE FarewellPending(b, c)'
    <3>1. CASE rem'[d] = b
      BY <1>1, <3>1
    <3>2. CASE rem'[d] # b
      <4>1. PICK e \in Conn : AnnounceDeparture(e)
        BY <1>0, <2>1, <3>2, RemMoves
      <4>2. e = d
        BY <1>0, <2>1, <3>2, <4>1 DEF AnnounceDeparture, RetireBus, TypeInv, CoreOK
      <4> QED
        BY <1>2, <2>1, <4>1, <4>2
    <3> QED
      BY <3>1, <3>2
  <2>2. ASSUME NEW s \in Thread, Tells(s, b, c) PROVE FarewellPending(b, c)'
    BY <1>1, <1>6, <2>2, TellsStep
  <2> QED
    BY <1>3, <1>4, <1>6, <2>1, <2>2, PendingIs
<1> QED
  BY <1>5, <1>6

\* Only a send changes what a page shows.
LEMMA ViewBySends ==
    ASSUME TypeInv, EverybodyReads, HandlerNext, view' # view
    PROVE  live' = live
<1> USE ThreadsSend
<1>1. ASSUME NEW s \in Thread, Sends(s) PROVE live' = live
  BY <1>1, SendsOnlySend DEF vars
<1>2. ASSUME NEW c \in Conn, ConnRuns(c) PROVE Sends(FrameOf(c)) \/ Sends(CloseOf(c))
  BY <1>2
  DEF ConnRuns, Frames, Open, Close, Stall, BeginRegister, HandleDriverRegister,
      HandleDriverFrame, FrameGoesOn, PublishLocation, HandleUserRegister, TakeWelcome, HandleRiderFrame,
      Cleanup, AnnounceDeparture, TimePasses, hwvars
<1>3. CASE SweeperRuns
  BY <1>1, <1>3 DEF SweeperRuns, BeginSweep, SweepRegistry, SweepReturns, TakeLeave, Part, hwvars
<1>4. CASE CasterRuns
  BY <1>1, <1>4, CasterIs, CastingStays, AlertsStay
<1> QED
  BY <1>1, <1>2, <1>3, <1>4 DEF HandlerNext

LEMMA FarewellStep ==
    ASSUME HandlerTypeInv, EverybodyReads, SweepOrder, SweepOrder', FarewellInv,
           view' \in [Conn -> SUBSET Bus], [ClaimsNext]_cvars
    PROVE  FarewellInv'
<1>1. CASE ClaimsNext
  <2>0. HandlerNext /\ Excuse /\ TypeInv
    BY <1>1 DEF ClaimsNext, HandlerTypeInv
  <2>1. LeftMail'
    BY <2>0, LeftMailStep DEF FarewellInv, LeftMail
  <2>2. \A c \in Conn : ~ Watching(c)' => excused'[c] = view'[c]
    BY <2>0 DEF Excuse
  <2>3. ASSUME NEW c \in Conn, NEW b \in view'[c], b \notin excused'[c], Watching(c)',
               live'[b] = None
        PROVE  FarewellPending(b, c)'
    <3>1. b \in Bus /\ b \notin excused[c] /\ (b \in view[c] \/ live[b] # None)
      BY <2>0, <2>3 DEF Excuse
    <3>2. CASE live[b] # None
      BY <2>0, <2>3, <3>1, <3>2, ToldStep DEF FarewellInv, LeftMail
    <3>3. CASE live[b] = None
      <4>1. b \in view[c] /\ Watching(c)
        BY <3>1, <3>3 DEF FarewellInv
      <4>2. FarewellPending(b, c)
        BY <3>1, <3>3, <4>1 DEF FarewellInv, FarewellsReachRiders, EverybodyReads
      <4> QED
        BY <2>0, <2>3, <3>1, <4>1, <4>2, ToldStep DEF FarewellInv, LeftMail
    <3> QED
      BY <3>2, <3>3
  <2>4. FarewellsReachRiders'
    BY <2>3 DEF FarewellsReachRiders
  <2> QED
    BY <2>1, <2>2, <2>4 DEF FarewellInv, LeftMail
<1>2. CASE UNCHANGED cvars
  BY <1>2
  DEF cvars, FarewellInv, FarewellsReachRiders, FarewellPending, Watching, Reachable, IsUser,
      Registered
<1> QED
  BY <1>1, <1>2

\* As long as no peer stops reading: the marker of a connected rider's map is
\* that of a live bus or its driver-left is under way to that rider, unless the
\* bus was gone before the marker came.  No order of removals, sends and
\* reconnections loses a farewell.
THEOREM EveryFarewellIsSent == ClaimsSpec /\ []EverybodyReads => []FarewellsReachRiders
<1> DEFINE I == EndpointInv /\ FarewellInv
<1>1. ClaimsInit => I
  BY EndpointInit
  DEF ClaimsInit, HandlerInit, Init, FarewellInv, FarewellsReachRiders
<1>2. I /\ EverybodyReads /\ [ClaimsNext]_cvars => I'
  <2> SUFFICES ASSUME I, EverybodyReads, [ClaimsNext]_cvars PROVE I'
    OBVIOUS
  <2>1. EndpointInv'
    BY EndpointStep DEF ClaimsNext, cvars, allvars
  <2>2. view' \in [Conn -> SUBSET Bus]
    BY <2>1 DEF EndpointInv, HandlerTypeInv, HandlerVarsOK
  <2> QED
    BY <2>1, <2>2, FarewellStep DEF EndpointInv
<1>3. I => FarewellsReachRiders
  BY DEF FarewellInv
<1> QED
  BY <1>1, <1>2, <1>3, PTL DEF ClaimsSpec
=============================================================================
