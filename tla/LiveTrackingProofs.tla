------------------------- MODULE LiveTrackingProofs -------------------------
(***************************************************************************)
(* Proofs about the registry of live buses, for every set of connections,  *)
(* tokens and buses.                                                       *)
(***************************************************************************)
EXTENDS LiveTrackingClaims, TLAPS

-----------------------------------------------------------------------------
(* Type correctness.                                                       *)

LEMMA NewSessionsAreSessions ==
    /\ \A t \in Token : NewDriverSession(t) \in Session
    /\ NewUserSession \in Session
BY ConstantsAssumption DEF NewDriverSession, NewUserSession, Session, Driver

LEMMA NewBusIsLiveBus ==
    ASSUME NEW d \in Driver, NEW r \in Route \union {None}
    PROVE  NewBus(d, r) \in LiveBus
BY DEF NewBus, LiveBus

LEMMA ServingIsFrame ==
    ASSUME NEW pc \in {"idle", "reg", "loc", "vis", "occ", "hide"},
           NEW d \in Driver \union {None}, NEW b \in Bus \union {None},
           NEW shown \in BOOLEAN, NEW level \in Level \union {None}
    PROVE  /\ Serving(pc, d, b, shown, level) \in Frame
           /\ Serving(pc, d, b, shown, level).pc = pc
           /\ Serving(pc, d, b, shown, level).driver = d
           /\ Serving(pc, d, b, shown, level).bus = b
BY DEF Serving, Frame

LEMMA DriverOfIsDriver == \A t \in Token : DriverOf[t] \in Driver
BY DEF Driver

LEMMA IdleFrameIsFrame == IdleFrame \in Frame /\ IdleFrame.pc = "idle"
BY DEF IdleFrame, Serving, Frame

LEMMA DetachIsTyped ==
    ASSUME NEW frames \in [Conn -> Frame], NEW b
    PROVE  /\ Detach(frames, b) \in [Conn -> Frame]
           /\ \A c \in Conn : /\ Detach(frames, b)[c].pc = frames[c].pc
                              /\ Detach(frames, b)[c].bus = frames[c].bus
                              /\ Detach(frames, b)[c].driver = frames[c].driver
                              /\ Detach(frames, b)[c].attached =>
                                    /\ frames[c].attached
                                    /\ ~ (frames[c].pc = "vis" /\ frames[c].bus = b)
BY DEF Detach, Frame

\* The part of TypeOK that the loop of the alerts has nothing to do with.
CoreOK ==
    /\ sessions \in [Conn -> Session \union {None}]
    /\ live \in [Bus -> LiveBus \union {None}]
    /\ io \in [Conn -> Frame]
    /\ rem \in [Conn -> Bus \union {None}]
    /\ sweep \in Sweep

\* What the program counters say of the locals they guard.
FrameOK ==
    \A c \in Conn :
        /\ io[c].pc \in {"reg", "loc"} => io[c].driver \in Driver
        /\ io[c].pc \in {"reg", "loc", "vis", "occ"} => io[c].bus \in Bus
        /\ io[c].pc = "vis" /\ io[c].attached => live[io[c].bus] # None

SessionOK == \A c \in Conn : IsDriver(c) => sessions[c].driver \in Driver /\ sessions[c].bus \in Bus

SweepOK ==
    /\ sweep.pc = "remove" => sweep.victim \in Conn
    /\ sweep.pc = "retire" => sweep.bus \in Bus

\* The rider the loop of the alerts is at has a session, or left what it tracked.
AlertOK ==
    /\ alerts \in Alerts
    /\ \A c \in alerts.todo : Page[c] = Rider
    /\ alerts.pc \in {"got", "seen"} => alerts.rider \in Conn /\ alerts.bus \in Bus
    /\ alerts.pc \in {"idle", "scan"} => alerts.rider = None /\ alerts.orphan = None
    /\ alerts.pc = "idle" => alerts.due = {}
    /\ alerts.rider # None =>
          /\ Page[alerts.rider] = Rider
          /\ alerts.orphan = None => /\ Registered(alerts.rider)
                                     /\ sessions[alerts.rider].tracking # None

TypeInv == CoreOK /\ FrameOK /\ SessionOK /\ SweepOK /\ AlertOK

\* A write to the session of c.
LEMMA SessionStep ==
    ASSUME TypeInv, NEW c \in Conn, NEW s \in Session, sessions' = [sessions EXCEPT ![c] = s],
           s.type = "DRIVER" => s.driver \in Driver /\ s.bus \in Bus
    PROVE  sessions' \in [Conn -> Session \union {None}] /\ SessionOK'
BY DEF TypeInv, CoreOK, SessionOK, IsDriver, Registered

LEMMA HeardStep ==
    ASSUME TypeInv, NEW c \in Conn, Registered(c), Heard(c)
    PROVE  sessions' \in [Conn -> Session \union {None}] /\ SessionOK'
<1> DEFINE s == [sessions[c] EXCEPT !.stale = FALSE]
<1>1. sessions[c] \in Session
  BY DEF TypeInv, CoreOK, Registered
<1>2. s \in Session /\ s.type = sessions[c].type /\ s.driver = sessions[c].driver
         /\ s.bus = sessions[c].bus
  BY <1>1 DEF Session
<1>3. s.type = "DRIVER" => s.driver \in Driver /\ s.bus \in Bus
  BY <1>2 DEF TypeInv, SessionOK, IsDriver, Registered
<1> QED
  BY <1>2, <1>3, SessionStep DEF Heard

\* A frame begun or ended on c, the rest of io and live left alone.
LEMMA FrameStep ==
    ASSUME TypeInv, NEW c \in Conn, NEW f \in Frame,
           io' = [io EXCEPT ![c] = f], live' = live,
           f.pc \in {"reg", "loc"} => f.driver \in Driver,
           f.pc \in {"reg", "loc", "occ"} => f.bus \in Bus,
           f.pc # "vis"
    PROVE  FrameOK' /\ io' \in [Conn -> Frame]
BY DEF TypeInv, CoreOK, FrameOK

\* A write to live that unmaps no bus, at the end of c's frame.
LEMMA FrameEnd ==
    ASSUME TypeInv, NEW c \in Conn, io' = [io EXCEPT ![c] = IdleFrame],
           live' \in [Bus -> LiveBus \union {None}],
           \A b \in Bus : live[b] # None => live'[b] # None
    PROVE  FrameOK' /\ io' \in [Conn -> Frame]
BY IdleFrameIsFrame DEF TypeInv, CoreOK, FrameOK

\* Retiring bus b detaches the frames that hold its state.
LEMMA RetireStep ==
    ASSUME TypeInv, NEW b \in Bus, live' = [live EXCEPT ![b] = None], io' = Detach(io, b)
    PROVE  FrameOK' /\ io' \in [Conn -> Frame] /\ live' \in [Bus -> LiveBus \union {None}]
<1> USE DEF TypeInv, CoreOK
<1>1. io' \in [Conn -> Frame] /\ live' \in [Bus -> LiveBus \union {None}]
  BY DetachIsTyped
<1>2. ASSUME NEW c \in Conn PROVE FrameOK!(c)'
  BY DetachIsTyped DEF FrameOK
<1> QED
  BY <1>1, <1>2 DEF FrameOK

\* A write to fields of c's session that identity does not depend on.
RiderWrite(c) ==
    /\ UNCHANGED <<live, io, rem, sweep>>
    /\ \E s \in Session :
          /\ sessions' = [sessions EXCEPT ![c] = s]
          /\ s.type = sessions[c].type /\ s.driver = sessions[c].driver
          /\ s.bus = sessions[c].bus
          /\ sessions[c].tracking # None => s.tracking # None
          /\ Registered(c)

LEMMA FieldStep ==
    ASSUME TypeInv, NEW c \in Conn,
           \/ \E b \in Bus : TrackBus(c, b)
           \/ \E r \in Route \union {None} : SubscribeRoute(c, r)
           \/ Touch(c) \/ Passage(c)
    PROVE  RiderWrite(c)
<1>1. Registered(c) /\ sessions[c] \in Session
  BY DEF TrackBus, SubscribeRoute, Touch,
      Passage, GoStale, CoolDown, IsUser, Registered, TypeInv, CoreOK
<1>6. ASSUME NEW w \in Session, w.type = sessions[c].type, w.driver = sessions[c].driver,
             w.bus = sessions[c].bus, sessions[c].tracking # None => w.tracking # None,
             sessions' = [sessions EXCEPT ![c] = w],
             UNCHANGED <<live, io, rem, sweep>>
      PROVE  RiderWrite(c)
  BY <1>1, <1>6 DEF RiderWrite
<1>3. CASE \E b \in Bus : TrackBus(c, b)
  <2>3. PICK b \in Bus : TrackBus(c, b)
    BY <1>3
  <2> DEFINE w == [sessions[c] EXCEPT !.tracking = b, !.stale = FALSE]
  <2>1. w \in Session /\ w.type = sessions[c].type /\ w.driver = sessions[c].driver
           /\ w.bus = sessions[c].bus /\ w.tracking = b /\ b # None
    BY <1>1, NoneAssumption DEF Session
  <2>2. sessions' = [sessions EXCEPT ![c] = w] /\ UNCHANGED <<live, io, rem, sweep>>
    BY <2>3 DEF TrackBus
  <2> QED
    BY <1>6, <2>1, <2>2
<1>4. CASE \E r \in Route \union {None} : SubscribeRoute(c, r)
  <2>3. PICK r \in Route \union {None} : SubscribeRoute(c, r)
    BY <1>4
  <2> DEFINE w == [sessions[c] EXCEPT !.wants = r, !.stale = FALSE]
  <2>1. w \in Session /\ w.type = sessions[c].type /\ w.driver = sessions[c].driver
           /\ w.bus = sessions[c].bus /\ w.tracking = sessions[c].tracking
    BY <1>1 DEF Session
  <2> QED
    BY <1>6, <2>1, <2>3 DEF SubscribeRoute
<1>5. CASE Touch(c) \/ GoStale(c) \/ CoolDown(c)
  <2>1. PICK v \in BOOLEAN : \/ sessions' = [sessions EXCEPT ![c].stale = v]
                            \/ sessions' = [sessions EXCEPT ![c].cooling = v]
    BY <1>5 DEF Touch, Heard, GoStale, CoolDown
  <2> DEFINE w1 == [sessions[c] EXCEPT !.stale = v]
             w2 == [sessions[c] EXCEPT !.cooling = v]
  <2>2. /\ w1 \in Session /\ w1.type = sessions[c].type /\ w1.driver = sessions[c].driver
        /\ w1.bus = sessions[c].bus /\ w1.tracking = sessions[c].tracking
        /\ w2 \in Session /\ w2.type = sessions[c].type /\ w2.driver = sessions[c].driver
        /\ w2.bus = sessions[c].bus /\ w2.tracking = sessions[c].tracking
    BY <1>1 DEF Session
  <2>3. UNCHANGED <<live, io, rem, sweep>>
    BY <1>5 DEF Touch, Heard, GoStale, CoolDown
  <2> QED
    BY <1>6, <2>1, <2>2, <2>3
<1> QED
  BY <1>3, <1>4, <1>5 DEF Passage

LEMMA RiderStep ==
    ASSUME TypeInv, NEW c \in Conn, RiderFrame(c) \/ Touch(c) \/ Passage(c),
           ~ RegisterUser(c)
    PROVE  RiderWrite(c)
BY FieldStep DEF RiderFrame

\* The loop of the alerts writes nothing but the time of a rider's last alert.
LEMMA AlertWrites ==
    ASSUME TypeInv, AlertStep
    PROVE  \/ UNCHANGED <<sessions, live, io, rem, sweep>>
           \/ \E c \in Conn : RiderWrite(c)
<1>1. CASE RaiseAlert /\ alerts.orphan = None
  <2> DEFINE c == alerts.rider
             w == [sessions[c] EXCEPT !.cooling = TRUE]
  <2>1. c \in Conn /\ Registered(c) /\ sessions[c] \in Session
    BY <1>1, NoneAssumption DEF RaiseAlert, TypeInv, CoreOK, AlertOK, Registered
  <2>2. w \in Session /\ w.type = sessions[c].type /\ w.driver = sessions[c].driver
           /\ w.bus = sessions[c].bus /\ w.tracking = sessions[c].tracking
    BY <2>1 DEF Session
  <2>3. sessions' = [sessions EXCEPT ![c] = w] /\ UNCHANGED <<live, io, rem, sweep>>
    BY <1>1 DEF RaiseAlert
  <2>4. RiderWrite(c)
    BY <2>1, <2>2, <2>3 DEF RiderWrite
  <2> QED
    BY <2>1, <2>4
<1>2. CASE ~ (RaiseAlert /\ alerts.orphan = None)
  BY <1>2
  DEF AlertStep, StartAlerts, VisitRider, CheckVisible, RaiseAlert, TooFar, EndAlerts
<1> QED
  BY <1>1, <1>2

\* A rider the loop may be at keeps its session, and a bus once tracked.
RidersStay ==
    \A c \in Conn :
        Page[c] = Rider /\ Registered(c) /\ sessions[c].tracking # None
            => Registered(c)' /\ sessions'[c].tracking # None

LEMMA AlertsWait ==
    ASSUME TypeInv, RidersStay, alerts' = alerts
    PROVE  AlertOK'
BY NoneAssumption DEF TypeInv, AlertOK, RidersStay, Alerts

\* A bus leaves the map, or is put on it anew, under the loop.
LEMMA UnmapStep ==
    ASSUME TypeInv, NEW b, sessions' = sessions, alerts' = Unmapped(b)
    PROVE  AlertOK'
<1>1. alerts \in Alerts /\ [alerts EXCEPT !.attached = FALSE] \in Alerts
  BY DEF TypeInv, AlertOK, Alerts
<1>2. CASE alerts' = alerts
  BY <1>2 DEF TypeInv, AlertOK, Registered
<1>3. CASE alerts' = [alerts EXCEPT !.attached = FALSE]
  <2>1. /\ alerts'.pc = alerts.pc /\ alerts'.todo = alerts.todo /\ alerts'.rider = alerts.rider
        /\ alerts'.bus = alerts.bus /\ alerts'.orphan = alerts.orphan
        /\ alerts'.due = alerts.due
    BY <1>1, <1>3 DEF Alerts
  <2> QED
    BY <1>1, <1>3, <2>1 DEF TypeInv, AlertOK, Registered
<1> QED
  BY <1>2, <1>3 DEF Unmapped

\* The session the loop holds is taken out of the map, or replaced.
LEMMA OrphanStep ==
    ASSUME TypeInv, NEW c \in Conn, NEW s, sessions' = [sessions EXCEPT ![c] = s],
           alerts' = Orphaned(c)
    PROVE  AlertOK'
<1> USE NoneAssumption
<1>1. alerts \in Alerts
  BY DEF TypeInv, AlertOK
<1>2. CASE ~ (alerts.rider = c /\ alerts.orphan = None)
  <2>1. alerts' = alerts
    BY <1>2 DEF Orphaned
  <2>2. alerts.rider # None /\ alerts.orphan = None
          => alerts.rider \in Conn /\ sessions'[alerts.rider] = sessions[alerts.rider]
    BY <1>1, <1>2 DEF Alerts, TypeInv, CoreOK
  <2> QED
    BY <2>1, <2>2 DEF TypeInv, AlertOK, Registered
<1>3. CASE alerts.rider = c /\ alerts.orphan = None
  <2> DEFINE b == sessions[c].tracking
  <2>1. Registered(c) /\ b # None /\ sessions[c] \in Session
    BY <1>3 DEF TypeInv, AlertOK, CoreOK, Registered
  <2>2. b \in Bus
    BY <2>1 DEF Session
  <2>3. alerts' = [alerts EXCEPT !.orphan = b]
    BY <1>3 DEF Orphaned
  <2>4. /\ alerts' \in Alerts /\ alerts'.orphan = b
        /\ alerts'.pc = alerts.pc /\ alerts'.todo = alerts.todo /\ alerts'.rider = alerts.rider
        /\ alerts'.bus = alerts.bus /\ alerts'.due = alerts.due
    BY <1>1, <2>2, <2>3 DEF Alerts
  <2>5. alerts.pc \notin {"idle", "scan"}
    BY <1>3 DEF TypeInv, AlertOK
  <2> QED
    BY <2>1, <2>4, <2>5 DEF TypeInv, AlertOK
<1> QED
  BY <1>2, <1>3

LEMMA NextRiderOK ==
    ASSUME TypeInv
    PROVE  /\ NextRider \in Alerts /\ NextRider.pc = "scan" /\ NextRider.todo = alerts.todo
           /\ NextRider.rider = None /\ NextRider.orphan = None /\ NextRider.due = alerts.due
BY DEF TypeInv, AlertOK, Alerts, NextRider

LEMMA AlertOKStep == TypeInv /\ [Next]_vars => AlertOK'
<1> SUFFICES ASSUME TypeInv, [Next]_vars PROVE AlertOK'
  OBVIOUS
<1> USE ConstantsAssumption, NoneAssumption
<1>0. alerts \in Alerts
  BY DEF TypeInv, AlertOK
<1>1. ASSUME NEW c \in Conn, RiderWrite(c) PROVE RidersStay
  <2>1. PICK w \in Session : /\ sessions' = [sessions EXCEPT ![c] = w]
                             /\ sessions[c].tracking # None => w.tracking # None
    BY <1>1 DEF RiderWrite
  <2> QED
    BY <2>1 DEF RidersStay, Registered, TypeInv, CoreOK
<1>2. ASSUME NEW c \in Conn, Heard(c), Registered(c) PROVE RidersStay
  <2> DEFINE w == [sessions[c] EXCEPT !.stale = FALSE]
  <2>1. sessions[c] \in Session
    BY <1>2 DEF TypeInv, CoreOK, Registered
  <2>2. w \in Session /\ w.tracking = sessions[c].tracking
    BY <2>1 DEF Session
  <2>3. sessions' = [sessions EXCEPT ![c] = w]
    BY <1>2 DEF Heard
  <2> QED
    BY <2>2, <2>3 DEF RidersStay, Registered, TypeInv, CoreOK
<1>3. CASE sessions' = sessions /\ alerts' = alerts
  BY <1>3, AlertsWait DEF RidersStay, Registered
<1>4. ASSUME NEW c \in Conn, DriverFrame(c) PROVE AlertOK'
  <2>1. ASSUME NEW t \in Token, RegisterDriver(c, t) PROVE AlertOK'
    <3>1. RidersStay /\ alerts' = alerts
      BY <2>1 DEF RegisterDriver, RidersStay, Registered, TypeInv, CoreOK
    <3> QED
      BY <3>1, AlertsWait
  <2>2. ASSUME NEW shown \in BOOLEAN, BeginLocation(c, shown) PROVE AlertOK'
    BY <1>2, <2>2, AlertsWait DEF BeginLocation, IsDriver
  <2> QED
    BY <1>3, <1>4, <2>1, <2>2 DEF DriverFrame, BeginVisibility, BeginOccupancy
<1>5. ASSUME NEW c \in Conn, ServeFrame(c) PROVE AlertOK'
  <2>1. CASE PutBus(c)
    BY <2>1, UnmapStep DEF PutBus
  <2>2. CASE WriteOccupancy(c)
    BY <1>2, <1>3, <2>2, AlertsWait DEF WriteOccupancy
  <2> QED
    BY <1>3, <1>5, <2>1, <2>2 DEF ServeFrame, AddPoint, SetVisible, WriteVisibility
<1>6. ASSUME NEW c \in Conn, RiderFrame(c) \/ Touch(c) \/ Passage(c) PROVE AlertOK'
  <2>1. CASE RegisterUser(c)
    BY <2>1, OrphanStep DEF RegisterUser
  <2>2. CASE ~ RegisterUser(c)
    <3>1. RidersStay
      BY <1>1, <1>6, <2>2, RiderStep
    <3>2. alerts' = alerts
      BY <1>6, <2>2
      DEF RiderFrame, TrackBus, SubscribeRoute, Touch, Passage, GoStale, CoolDown
    <3> QED
      BY <3>1, <3>2, AlertsWait
  <2> QED
    BY <2>1, <2>2
<1>7. ASSUME NEW c \in Conn, Removal(c) PROVE AlertOK'
  BY <1>7, OrphanStep, UnmapStep DEF Removal, RemoveSession, RetireBus
<1>8. CASE SweepStep
  BY <1>3, <1>8, OrphanStep, UnmapStep
  DEF SweepStep, StartSweep, CheckStale, EvictSession, EvictBus, EndSweep, TypeInv, SweepOK
<1>9. CASE AlertStep
  <2>1. CASE RaiseAlert
    <3> DEFINE c == alerts.rider
               names == IF alerts.orphan = None THEN sessions[c].tracking ELSE alerts.orphan
               a == [rider |-> c, near |-> alerts.bus, names |-> names]
    <3>1. c \in Conn /\ alerts.bus \in Bus
      BY <2>1 DEF RaiseAlert, TypeInv, AlertOK
    <3>2. names \in Bus \union {None}
      <4>1. alerts.orphan = None => sessions[c] \in Session
        BY <3>1 DEF TypeInv, AlertOK, CoreOK, Registered
      <4> QED
        BY <1>0, <4>1 DEF Alerts, Session
    <3>3. a \in Alert
      BY <3>1, <3>2 DEF Alert
    <3>4. alerts' = [NextRider EXCEPT !.due = @ \union {a}]
      BY <2>1 DEF RaiseAlert
    <3>5. /\ alerts' \in Alerts /\ alerts'.pc = "scan" /\ alerts'.todo = alerts.todo
          /\ alerts'.rider = None /\ alerts'.orphan = None
      BY <3>3, <3>4, NextRiderOK DEF Alerts
    <3> QED
      BY <3>5 DEF TypeInv, AlertOK
  <2>2. CASE ~ RaiseAlert
    <3>1. sessions' = sessions
      BY <1>9, <2>2 DEF AlertStep, StartAlerts, VisitRider, CheckVisible, TooFar, EndAlerts
    <3>2. CASE alerts' = NextRider
      BY <3>2, NextRiderOK DEF TypeInv, AlertOK
    <3>3. CASE EndAlerts
      BY <3>3 DEF EndAlerts, IdleAlerts, Alerts, AlertOK
    <3>4. CASE StartAlerts
      <4> DEFINE riders == {c \in Conn : Page[c] = Rider}
      <4>1. alerts' = [IdleAlerts EXCEPT !.pc = "scan", !.todo = riders]
        BY <3>4 DEF StartAlerts
      <4>2. /\ alerts' \in Alerts /\ alerts'.pc = "scan" /\ alerts'.todo = riders
            /\ alerts'.rider = None /\ alerts'.orphan = None
        BY <4>1 DEF IdleAlerts, Alerts
      <4> QED
        BY <4>2 DEF AlertOK
    <3>5. CASE CheckVisible /\ alerts' = [alerts EXCEPT !.pc = "seen"]
      <4>1. /\ alerts' \in Alerts /\ alerts'.pc = "seen" /\ alerts'.todo = alerts.todo
            /\ alerts'.rider = alerts.rider /\ alerts'.bus = alerts.bus
            /\ alerts'.orphan = alerts.orphan
        BY <1>0, <3>5 DEF Alerts
      <4> QED
        BY <3>1, <3>5, <4>1 DEF CheckVisible, TypeInv, AlertOK, Registered
    <3>6. ASSUME NEW c \in Conn, VisitRider(c) PROVE AlertOK'
      <4> DEFINE rest == [alerts EXCEPT !.todo = @ \ {c}]
                 b == sessions[c].tracking
                 got == [rest EXCEPT !.pc = "got", !.rider = c, !.bus = b, !.attached = TRUE]
      <4>1. /\ alerts.pc = "scan" /\ c \in alerts.todo
            /\ \/ alerts' = rest
               \/ IsUser(c) /\ b # None /\ alerts' = got
        BY <3>6 DEF VisitRider
      <4>2. /\ rest \in Alerts /\ rest.pc = "scan" /\ rest.todo = alerts.todo \ {c}
            /\ rest.rider = alerts.rider /\ rest.orphan = alerts.orphan
        BY <1>0, <4>1 DEF Alerts
      <4>3. CASE alerts' = rest
        BY <3>1, <4>1, <4>2, <4>3 DEF TypeInv, AlertOK
      <4>4. CASE IsUser(c) /\ b # None /\ alerts' = got
        <5>1. b \in Bus
          BY <4>4 DEF IsUser, Registered, TypeInv, CoreOK, Session
        <5>2. /\ got \in Alerts /\ got.pc = "got" /\ got.todo = rest.todo
              /\ got.rider = c /\ got.bus = b
          BY <4>2, <5>1 DEF Alerts
        <5>3. Page[c] = Rider /\ \A d \in got.todo : Page[d] = Rider
          BY <4>1, <4>2, <5>2 DEF TypeInv, AlertOK
        <5> QED
          BY <3>1, <4>4, <5>1, <5>2, <5>3 DEF AlertOK, IsUser, Registered
      <4> QED
        BY <4>1, <4>3, <4>4
    <3> QED
      BY <1>9, <2>2, <3>2, <3>3, <3>4, <3>5, <3>6 DEF AlertStep, CheckVisible, TooFar
  <2> QED
    BY <2>1, <2>2
<1>10. CASE UNCHANGED vars
  BY <1>3, <1>10 DEF vars
<1> QED
  BY <1>4, <1>5, <1>6, <1>7, <1>8, <1>9, <1>10 DEF Next

LEMMA TypeStep == TypeInv /\ [Next]_vars => TypeInv'
<1> DEFINE Core == CoreOK /\ FrameOK /\ SessionOK /\ SweepOK
<1> SUFFICES ASSUME TypeInv, [Next]_vars PROVE Core'
  BY AlertOKStep DEF TypeInv
<1> USE ConstantsAssumption, NoneAssumption
<1>1. ASSUME NEW c \in Conn, NEW t \in Token, RegisterDriver(c, t) PROVE Core'
  <2> DEFINE f == Serving("reg", DriverOf[t], BusOf[t], TRUE, None)
  <2>1. f \in Frame /\ f.pc = "reg" /\ f.driver \in Driver /\ f.bus \in Bus
    <3>1. DriverOf[t] \in Driver /\ BusOf[t] \in Bus
      BY DriverOfIsDriver
    <3> QED
      BY <3>1 DEF Serving, Frame
  <2>2. FrameOK' /\ io' \in [Conn -> Frame]
    BY <1>1, <2>1, FrameStep DEF RegisterDriver
  <2>3. sessions' \in [Conn -> Session \union {None}] /\ SessionOK'
    BY <1>1, NewSessionsAreSessions
    DEF RegisterDriver, NewDriverSession, Driver, TypeInv, CoreOK, SessionOK, IsDriver, Registered
  <2> QED
    BY <1>1, <2>2, <2>3 DEF RegisterDriver, TypeInv, CoreOK, SweepOK
<1>2. ASSUME NEW c \in Conn, PutBus(c) PROVE Core'
  <2> DEFINE b == io[c].bus
  <2> DEFINE state == NewBus(io[c].driver, RouteOf[b])
  <2>1. b \in Bus /\ state \in LiveBus
    BY <1>2, NewBusIsLiveBus DEF PutBus, TypeInv, FrameOK
  <2>2. live' = [live EXCEPT ![b] = state] /\ io' = [Detach(io, b) EXCEPT ![c] = IdleFrame]
    BY <1>2 DEF PutBus
  <2>3. live' \in [Bus -> LiveBus \union {None}] /\ io' \in [Conn -> Frame]
    BY <2>1, <2>2, DetachIsTyped, IdleFrameIsFrame DEF TypeInv, CoreOK
  <2>4. FrameOK'
    BY <2>1, <2>2, DetachIsTyped, IdleFrameIsFrame DEF TypeInv, CoreOK, FrameOK
  <2> QED
    BY <1>2, <2>3, <2>4 DEF PutBus, TypeInv, CoreOK, SessionOK, SweepOK, IsDriver, Registered
<1>3. ASSUME NEW c \in Conn, NEW shown \in BOOLEAN, BeginLocation(c, shown) PROVE Core'
  <2> DEFINE f == Serving("loc", sessions[c].driver, sessions[c].bus, shown, None)
  <2>1. f \in Frame /\ f.pc = "loc" /\ f.driver \in Driver /\ f.bus \in Bus
    BY <1>3, ServingIsFrame DEF BeginLocation, TypeInv, SessionOK
  <2>2. FrameOK' /\ io' \in [Conn -> Frame]
    BY <1>3, <2>1, FrameStep DEF BeginLocation
  <2>3. sessions' \in [Conn -> Session \union {None}] /\ SessionOK'
    BY <1>3, HeardStep DEF BeginLocation, IsDriver
  <2> QED
    BY <1>3, <2>2, <2>3 DEF BeginLocation, TypeInv, CoreOK, SweepOK
<1>4. ASSUME NEW c \in Conn, AddPoint(c) PROVE Core'
  <2> DEFINE b == io[c].bus
  <2> DEFINE state == IF live[b] = None THEN NewBus(io[c].driver, None) ELSE live[b]
  <2>1. b \in Bus /\ state \in LiveBus
    BY <1>4, NewBusIsLiveBus DEF AddPoint, TypeInv, CoreOK, FrameOK
  <2>2. [state EXCEPT !.point = TRUE] \in LiveBus
    BY <2>1 DEF LiveBus
  <2>3. live' \in [Bus -> LiveBus \union {None}]
    <3>1. live' = [live EXCEPT ![b] = [state EXCEPT !.point = TRUE]]
      BY <1>4 DEF AddPoint
    <3> QED
      BY <2>1, <2>2, <3>1 DEF TypeInv, CoreOK
  <2>5. io' \in [Conn -> Frame]
    <3> DEFINE f == [io[c] EXCEPT !.pc = "vis", !.attached = TRUE]
    <3>1. f \in Frame /\ io' = [io EXCEPT ![c] = f]
      BY <1>4 DEF AddPoint, TypeInv, CoreOK, Frame
    <3> QED
      BY <3>1 DEF TypeInv, CoreOK
  <2>4. FrameOK'
    <3>1. \A d \in Bus : live[d] # None \/ d = b => live'[d] # None
      BY <1>4, <2>1, <2>2 DEF AddPoint, TypeInv, CoreOK
    <3>2. \A d \in Conn : /\ d # c => io'[d] = io[d]
                          /\ io'[d].bus = io[d].bus /\ io'[d].driver = io[d].driver
      BY <1>4 DEF AddPoint, TypeInv, CoreOK, Frame
    <3>3. io[c].pc = "loc" /\ io'[c].pc = "vis"
      BY <1>4 DEF AddPoint, TypeInv, CoreOK, Frame
    <3> QED
      BY <3>1, <3>2, <3>3, <2>1 DEF TypeInv, FrameOK
  <2> QED
    BY <1>4, <2>3, <2>4, <2>5 DEF AddPoint, TypeInv, CoreOK, SessionOK, SweepOK, IsDriver, Registered
<1>5. ASSUME NEW c \in Conn, SetVisible(c) PROVE Core'
  <2>1. live' \in [Bus -> LiveBus \union {None}] /\ \A b \in Bus : live[b] # None => live'[b] # None
    <3>1. CASE ~ io[c].attached
      BY <1>5, <3>1 DEF SetVisible, TypeInv, CoreOK
    <3>2. CASE io[c].attached
      <4> DEFINE b == io[c].bus
      <4>1. b \in Bus /\ live[b] \in LiveBus /\ io[c].shown \in BOOLEAN
        BY <1>5, <3>2 DEF SetVisible, TypeInv, CoreOK, FrameOK, Frame
      <4>2. [live[b] EXCEPT !.visible = io[c].shown] \in LiveBus
        BY <4>1 DEF LiveBus
      <4> QED
        BY <1>5, <3>2, <4>1, <4>2 DEF SetVisible, TypeInv, CoreOK
    <3> QED
      BY <3>1, <3>2
  <2>2. FrameOK' /\ io' \in [Conn -> Frame]
    BY <1>5, <2>1, FrameEnd DEF SetVisible
  <2> QED
    BY <1>5, <2>1, <2>2 DEF SetVisible, TypeInv, CoreOK, SessionOK, SweepOK, IsDriver, Registered
<1>6. ASSUME NEW c \in Conn, NEW level \in Level, BeginOccupancy(c, level) PROVE Core'
  <2> DEFINE f == Serving("occ", None, sessions[c].bus, TRUE, level)
  <2>1. f \in Frame /\ f.pc = "occ" /\ f.bus \in Bus
    <3>1. sessions[c].bus \in Bus
      BY <1>6 DEF BeginOccupancy, TypeInv, SessionOK
    <3> QED
      BY <3>1 DEF Serving, Frame
  <2>2. FrameOK' /\ io' \in [Conn -> Frame]
    BY <1>6, <2>1, FrameStep DEF BeginOccupancy
  <2> QED
    BY <1>6, <2>2 DEF BeginOccupancy, TypeInv, CoreOK, SessionOK, SweepOK, IsDriver, Registered
<1>7. ASSUME NEW c \in Conn, WriteOccupancy(c) PROVE Core'
  <2>1. live' \in [Bus -> LiveBus \union {None}] /\ \A b \in Bus : live[b] # None => live'[b] # None
    BY <1>7 DEF WriteOccupancy, TypeInv, CoreOK, FrameOK, LiveBus, Frame
  <2>2. FrameOK' /\ io' \in [Conn -> Frame]
    BY <1>7, <2>1, FrameEnd DEF WriteOccupancy
  <2>3. sessions' \in [Conn -> Session \union {None}] /\ SessionOK'
    BY <1>7, HeardStep DEF WriteOccupancy, TypeInv, CoreOK, SessionOK, IsDriver, Registered
  <2> QED
    BY <1>7, <2>1, <2>2, <2>3 DEF WriteOccupancy, TypeInv, CoreOK, SweepOK
<1>8. ASSUME NEW c \in Conn, NEW shown \in BOOLEAN, BeginVisibility(c, shown) PROVE Core'
  <2> DEFINE f == Serving("hide", sessions[c].driver, None, shown, None)
  <2>1. f \in Frame /\ f.pc = "hide"
    BY <1>8, ServingIsFrame DEF BeginVisibility, TypeInv, SessionOK
  <2>2. FrameOK' /\ io' \in [Conn -> Frame]
    BY <1>8, <2>1, FrameStep DEF BeginVisibility
  <2> QED
    BY <1>8, <2>2 DEF BeginVisibility, TypeInv, CoreOK, SessionOK, SweepOK, IsDriver, Registered
<1>9. ASSUME NEW c \in Conn, WriteVisibility(c) PROVE Core'
  <2>1. live' \in [Bus -> LiveBus \union {None}] /\ \A b \in Bus : live[b] # None => live'[b] # None
    <3>1. io[c].shown \in BOOLEAN
      BY DEF TypeInv, CoreOK, Frame
    <3>2. ASSUME NEW b \in Bus, live[b] # None
          PROVE  [live[b] EXCEPT !.visible = io[c].shown] \in LiveBus
      BY <3>1, <3>2 DEF TypeInv, CoreOK, LiveBus
    <3> QED
      BY <1>9, <3>2 DEF WriteVisibility, TypeInv, CoreOK
  <2>2. FrameOK' /\ io' \in [Conn -> Frame]
    BY <1>9, <2>1, FrameEnd DEF WriteVisibility
  <2> QED
    BY <1>9, <2>1, <2>2 DEF WriteVisibility, TypeInv, CoreOK, SessionOK, SweepOK, IsDriver, Registered
<1>16. ASSUME NEW c \in Conn, RiderWrite(c) PROVE Core'
  <2>1. PICK s \in Session :
               /\ sessions' = [sessions EXCEPT ![c] = s]
               /\ s.type = sessions[c].type /\ s.driver = sessions[c].driver
               /\ s.bus = sessions[c].bus
               /\ Registered(c)
    BY <1>16 DEF RiderWrite
  <2>2. s.type = "DRIVER" => s.driver \in Driver /\ s.bus \in Bus
    BY <2>1 DEF TypeInv, SessionOK, IsDriver
  <2>3. sessions' \in [Conn -> Session \union {None}] /\ SessionOK'
    BY <2>1, <2>2, SessionStep
  <2> QED
    BY <1>16, <2>3 DEF RiderWrite, TypeInv, CoreOK, FrameOK, SweepOK
<1>10. ASSUME NEW c \in Conn, RiderFrame(c) \/ Touch(c) \/ Passage(c) PROVE Core'
  <2>1. CASE RegisterUser(c)
    <3>1. sessions' \in [Conn -> Session \union {None}] /\ SessionOK'
      BY <2>1, NewSessionsAreSessions, SessionStep DEF RegisterUser, NewUserSession
    <3> QED
      BY <2>1, <3>1 DEF RegisterUser, TypeInv, CoreOK, FrameOK, SweepOK
  <2>2. CASE ~ RegisterUser(c)
    BY <1>10, <1>16, <2>2, RiderStep
  <2> QED
    BY <2>1, <2>2
<1>11. ASSUME NEW c \in Conn, RemoveSession(c) PROVE Core'
  BY <1>11
  DEF RemoveSession, Session, TypeInv, CoreOK, FrameOK, SessionOK, SweepOK, IsDriver, Registered
<1>12. ASSUME NEW c \in Conn, RetireBus(c) PROVE Core'
  <2>1. rem[c] \in Bus /\ rem' \in [Conn -> Bus \union {None}]
    BY <1>12 DEF RetireBus, TypeInv, CoreOK
  <2> QED
    BY <1>12, <2>1, RetireStep
    DEF RetireBus, TypeInv, CoreOK, SessionOK, SweepOK, IsDriver, Registered
<1>13. ASSUME SweepStep PROVE Core'
  <2>1. CASE StartSweep
    BY <2>1
    DEF StartSweep, IdleSweep, Sweep, TypeInv, CoreOK, FrameOK, SessionOK, SweepOK, IsDriver, Registered
  <2>2. ASSUME NEW c \in Conn, CheckStale(c) PROVE Core'
    BY <2>2
    DEF CheckStale, Sweep, TypeInv, CoreOK, FrameOK, SessionOK, SweepOK, IsDriver, Registered
  <2>3. CASE EvictSession
    <3> DEFINE c == sweep.victim
    <3>1. c \in Conn
      BY <2>3 DEF EvictSession, TypeInv, SweepOK
    <3>2. CASE Registered(c)
      <4>1. GoodbyeOf(c) \in Goodbye
        BY <3>1, <3>2 DEF GoodbyeOf, Goodbye, Session, TypeInv, CoreOK, Registered
      <4>4. sessions[c].bus \in Bus \union {None} /\ (IsDriver(c) => sessions[c].bus \in Bus)
        BY <3>1, <3>2 DEF Session, TypeInv, CoreOK, SessionOK, Registered
      <4>5. sweep' = [sweep EXCEPT
                              !.pc = IF IsDriver(c) THEN "retire" ELSE "scan",
                              !.victim = None,
                              !.bus = sessions[c].bus,
                              !.evicted = @ \union {GoodbyeOf(c)}]
        BY <2>3, <3>2 DEF EvictSession
      <4>2. sweep' \in Sweep /\ SweepOK'
        BY <4>1, <4>4, <4>5 DEF Sweep, TypeInv, CoreOK, SweepOK
      <4>3. sessions' \in [Conn -> Session \union {None}] /\ SessionOK'
        BY <2>3, <3>1, <3>2
        DEF EvictSession, TypeInv, CoreOK, SessionOK, IsDriver, Registered
      <4> QED
        BY <2>3, <4>2, <4>3 DEF EvictSession, TypeInv, CoreOK, FrameOK
    <3>3. CASE ~ Registered(c)
      <4>1. sweep' = [sweep EXCEPT !.pc = "scan", !.victim = None]
        BY <2>3, <3>3 DEF EvictSession
      <4>2. sweep' \in Sweep /\ SweepOK'
        BY <4>1 DEF Sweep, TypeInv, CoreOK, SweepOK
      <4>3. UNCHANGED <<sessions, live, io, rem>>
        BY <2>3, <3>3 DEF EvictSession
      <4> QED
        BY <4>2, <4>3 DEF TypeInv, CoreOK, FrameOK, SessionOK, IsDriver, Registered
    <3> QED
      BY <3>2, <3>3
  <2>4. CASE EvictBus
    <3>1. sweep.bus \in Bus /\ sweep' \in Sweep /\ SweepOK'
      BY <2>4 DEF EvictBus, Sweep, TypeInv, CoreOK, SweepOK
    <3> QED
      BY <2>4, <3>1, RetireStep DEF EvictBus, TypeInv, CoreOK, SessionOK, IsDriver, Registered
  <2>5. CASE EndSweep
    BY <2>5
    DEF EndSweep, IdleSweep, Sweep, TypeInv, CoreOK, FrameOK, SessionOK, SweepOK, IsDriver, Registered
  <2> QED
    BY <1>13, <2>1, <2>2, <2>3, <2>4, <2>5 DEF SweepStep
<1>15. CASE AlertStep
  <2>1. CASE UNCHANGED <<sessions, live, io, rem, sweep>>
    BY <2>1 DEF TypeInv, CoreOK, FrameOK, SessionOK, SweepOK, IsDriver, Registered
  <2>2. ASSUME NEW c \in Conn, RiderWrite(c) PROVE Core'
    BY <1>16, <2>2
  <2> QED
    BY <1>15, <2>1, <2>2, AlertWrites
<1>14. CASE UNCHANGED vars
  BY <1>14 DEF vars, TypeInv, CoreOK, FrameOK, SessionOK, SweepOK, IsDriver, Registered
<1> QED
  BY <1>1, <1>2, <1>3, <1>4, <1>5, <1>6, <1>7, <1>8, <1>9, <1>10, <1>11, <1>12, <1>13, <1>14, <1>15
  DEF Next, DriverFrame, ServeFrame, Removal

LEMMA TypeInit == Init => TypeInv
BY IdleFrameIsFrame, NoneAssumption
DEF Init, TypeInv, CoreOK, FrameOK, SessionOK, SweepOK, AlertOK, IdleSweep, Sweep, IdleAlerts,
    Alerts, IsDriver, Registered

LEMMA TypeInvTypes == TypeInv => TypeOK
BY DEF TypeInv, CoreOK, AlertOK, TypeOK

\* The registry's variables keep their types, and no access to liveBuses uses
\* a bus code or an unmapped object that is not there.
THEOREM TypeCorrect == Spec => []TypeOK
BY TypeInit, TypeStep, TypeInvTypes, PTL DEF Spec

-----------------------------------------------------------------------------
(* The history variables only observe.                                     *)

LEMMA HSpecImplementsSpec == HSpec => Spec
<1>1. HInit => Init
  BY DEF HInit
<1>2. [HNext]_hvars => [Next]_vars
  BY DEF HNext, hvars, vars
<1> QED
  BY <1>1, <1>2, PTL DEF HSpec, Spec

\* The visibility a driver asks for is a Boolean of a frame.
LEMMA AsksIsTyped ==
    ASSUME CoreOK', asked \in [Conn -> BOOLEAN \union {None}], NEW c \in Conn
    PROVE  Asks(c) \in BOOLEAN \union {None}
<1>1. io'[c].shown \in BOOLEAN
  BY DEF CoreOK, Frame
<1>2. asked[c] \in BOOLEAN \union {None}
  OBVIOUS
<1>3. Asks(c) \in {None, TRUE, io'[c].shown, asked[c]}
  BY DEF Asks
<1> QED
  BY <1>1, <1>2, <1>3

\* The registry and what is recorded of it keep their types.
THEOREM HTypeCorrect == HSpec => []HTypeOK
<1> DEFINE I == TypeInv /\ HTypeOK
<1>1. HInit => I
  BY TypeInit, TypeInvTypes DEF HInit, HTypeOK
<1>2. I /\ [HNext]_hvars => I'
  <2> SUFFICES ASSUME I, [HNext]_hvars PROVE I'
    OBVIOUS
  <2>1. TypeInv'
    BY TypeStep DEF HNext, hvars, vars
  <2>2. /\ contested' \in [Bus -> BOOLEAN] /\ asked' \in [Conn -> BOOLEAN \union {None}]
        /\ quiet' \subseteq Bus
    <3>1. CASE HNext
      <4>1. contested' \in [Bus -> BOOLEAN]
        BY <3>1 DEF HNext, Observe
      <4>2. asked' = [c \in Conn |-> Asks(c)]
        BY <3>1 DEF HNext, Observe
      <4>3. \A c \in Conn : Asks(c) \in BOOLEAN \union {None}
        BY <2>1, AsksIsTyped DEF TypeInv, HTypeOK
      <4>4. quiet' \subseteq Bus
        BY <3>1 DEF HNext, Observe, HTypeOK
      <4> QED
        BY <4>1, <4>2, <4>3, <4>4
    <3>2. CASE UNCHANGED hvars
      BY <3>2 DEF hvars, HTypeOK
    <3> QED
      BY <3>1, <3>2
  <2> QED
    BY <2>1, <2>2 DEF HTypeOK, TypeInv, CoreOK, AlertOK, TypeOK
<1> QED
  BY <1>1, <1>2, PTL DEF HSpec

-----------------------------------------------------------------------------
(* What each kind of step does to the facts the invariant is about: who    *)
(* holds a session on a bus, who is about to put it on the map, who is     *)
(* about to take it off, and whether it is there.                          *)

Same(b) ==
    /\ \A c \in Conn : /\ DriverOn(c, b)' <=> DriverOn(c, b)
                       /\ Arriving(c, b)' <=> Arriving(c, b)
                       /\ Registering(c, b)' <=> Registering(c, b)
    /\ (live[b] # None)' <=> live[b] # None
    /\ SweepRetires(b)' <=> SweepRetires(b)
    /\ \A c \in Conn : (rem[c] = b)' <=> rem[c] = b

\* A step of c's that brings no bus and takes none away.
Bystander(c) ==
    \/ RiderFrame(c) \/ Touch(c) \/ Passage(c)
    \/ SetVisible(c) \/ WriteOccupancy(c) \/ WriteVisibility(c)
    \/ \E level \in Level : BeginOccupancy(c, level)
    \/ \E shown \in BOOLEAN : BeginVisibility(c, shown)

LEMMA AlertIdentity ==
    ASSUME TypeInv, AlertStep
    PROVE  /\ UNCHANGED <<live, io, rem, sweep>>
           /\ \A d \in Conn : /\ IsDriver(d)' <=> IsDriver(d)
                              /\ IsDriver(d) => /\ sessions'[d].driver = sessions[d].driver
                                                /\ sessions'[d].bus = sessions[d].bus
<1>1. UNCHANGED <<live, io, rem, sweep>>
  BY AlertWrites DEF RiderWrite
<1>2. \A d \in Conn : /\ IsDriver(d)' <=> IsDriver(d)
                      /\ IsDriver(d) => /\ sessions'[d].driver = sessions[d].driver
                                        /\ sessions'[d].bus = sessions[d].bus
  <2>1. CASE sessions' = sessions
    BY <2>1 DEF IsDriver, Registered
  <2>2. ASSUME NEW c \in Conn, RiderWrite(c) 
        PROVE  \A d \in Conn : /\ IsDriver(d)' <=> IsDriver(d)
                               /\ IsDriver(d) => /\ sessions'[d].driver = sessions[d].driver
                                                 /\ sessions'[d].bus = sessions[d].bus
    <3>1. PICK s \in Session : /\ sessions' = [sessions EXCEPT ![c] = s]
                               /\ s.type = sessions[c].type /\ s.driver = sessions[c].driver
                               /\ s.bus = sessions[c].bus
                               /\ Registered(c)
      BY <2>2 DEF RiderWrite
    <3> QED
      BY <3>1, NoneAssumption DEF IsDriver, Registered, TypeInv, CoreOK
  <2> QED
    BY <2>1, <2>2, AlertWrites
<1> QED
  BY <1>1, <1>2

LEMMA AlertSame ==
    ASSUME TypeInv, NEW b \in Bus, AlertStep
    PROVE  Same(b)
BY AlertIdentity DEF Same, DriverOn, Arriving, Registering, SweepRetires

LEMMA PageStep == TypeInv /\ PageOK /\ [Next]_vars => PageOK'
<1> SUFFICES ASSUME TypeInv, PageOK, [Next]_vars PROVE PageOK'
  OBVIOUS
<1> USE ConstantsAssumption, NoneAssumption
<1> USE DEF PageOK, TypeInv, CoreOK, IsDriver, IsUser, Registered, Idle
<1>1. ASSUME NEW c \in Conn, NEW t \in Token, RegisterDriver(c, t) PROVE PageOK'
  BY <1>1 DEF RegisterDriver, NewDriverSession, Serving
<1>2. ASSUME NEW c \in Conn, PutBus(c) PROVE PageOK'
  BY <1>2, DetachIsTyped, IdleFrameIsFrame DEF PutBus
<1>3. ASSUME NEW c \in Conn, NEW shown \in BOOLEAN, BeginLocation(c, shown) PROVE PageOK'
  BY <1>3 DEF BeginLocation, Heard, Serving
<1>4. ASSUME NEW c \in Conn, AddPoint(c) PROVE PageOK'
  BY <1>4 DEF AddPoint, Frame
<1>5. ASSUME NEW c \in Conn, Bystander(c) PROVE PageOK'
  <2>1. CASE RiderFrame(c) \/ Touch(c) \/ Passage(c)
    <3>1. CASE RegisterUser(c)
      BY <3>1 DEF RegisterUser, NewUserSession
    <3>2. CASE ~ RegisterUser(c)
      BY <2>1, <3>2, RiderStep DEF RiderWrite
    <3> QED
      BY <3>1, <3>2
  <2>2. CASE SetVisible(c) \/ WriteOccupancy(c) \/ WriteVisibility(c)
    <3>1. io' = [io EXCEPT ![c] = IdleFrame]
      BY <2>2 DEF SetVisible, WriteOccupancy, WriteVisibility
    <3>2. sessions' = sessions \/ (Registered(c) /\ Heard(c))
      BY <2>2 DEF SetVisible, WriteOccupancy, WriteVisibility
    <3> QED
      BY <3>1, <3>2, IdleFrameIsFrame DEF Heard, Session
  <2>3. ASSUME NEW f, io' = [io EXCEPT ![c] = f], f.pc \in {"occ", "hide"}, sessions' = sessions
        PROVE  PageOK'
    BY <2>3
  <2>4. ASSUME NEW level \in Level, BeginOccupancy(c, level) PROVE PageOK'
    BY <2>3, <2>4 DEF BeginOccupancy, Serving
  <2>5. ASSUME NEW shown \in BOOLEAN, BeginVisibility(c, shown) PROVE PageOK'
    BY <2>3, <2>5 DEF BeginVisibility, Serving
  <2> QED
    BY <1>5, <2>1, <2>2, <2>4, <2>5 DEF Bystander
<1>6. ASSUME NEW c \in Conn, Removal(c) PROVE PageOK'
  BY <1>6, DetachIsTyped DEF Removal, RemoveSession, RetireBus
<1>7. CASE SweepStep
  <2>1. CASE StartSweep \/ (\E c \in Conn : CheckStale(c)) \/ EndSweep
    BY <2>1 DEF StartSweep, CheckStale, EndSweep
  <2>2. CASE EvictSession
    BY <2>2 DEF EvictSession, SweepOK
  <2>3. CASE EvictBus
    BY <2>3, DetachIsTyped DEF EvictBus
  <2> QED
    BY <1>7, <2>1, <2>2, <2>3 DEF SweepStep
<1>8. CASE AlertStep
  BY <1>8, AlertIdentity
<1>9. CASE UNCHANGED vars
  BY <1>9 DEF vars
<1> QED
  BY <1>1, <1>2, <1>3, <1>4, <1>5, <1>6, <1>7, <1>8, <1>9
  DEF Next, DriverFrame, ServeFrame, Bystander

LEMMA LiveStep == TypeInv /\ PageOK /\ LiveOK /\ [Next]_vars => LiveOK'
<1> SUFFICES ASSUME TypeInv, PageOK, LiveOK, [Next]_vars, NEW b \in Bus, live'[b] # None
             PROVE  Claims(live'[b].driver, b)
  BY DEF LiveOK
<1> USE DEF TypeInv, CoreOK
<1>1. CASE live[b] # None /\ live'[b].driver = live[b].driver
  BY <1>1 DEF LiveOK
<1>2. ASSUME NEW c \in Conn, PutBus(c) PROVE Claims(live'[b].driver, b)
  <2>1. io[c].bus \in Bus /\ Claims(io[c].driver, io[c].bus)
    BY <1>2 DEF PutBus, PageOK, FrameOK, Claims
  <2>2. CASE b = io[c].bus
    BY <1>2, <2>1, <2>2 DEF PutBus, NewBus
  <2>3. CASE b # io[c].bus
    BY <1>1, <1>2, <2>1, <2>3 DEF PutBus
  <2> QED
    BY <2>2, <2>3
<1>3. ASSUME NEW c \in Conn, AddPoint(c) PROVE Claims(live'[b].driver, b)
  <2>1. io[c].bus \in Bus /\ Claims(io[c].driver, io[c].bus)
    BY <1>3 DEF AddPoint, PageOK, FrameOK, Claims
  <2> DEFINE e == io[c].bus
             state == IF live[e] = None THEN NewBus(io[c].driver, None) ELSE live[e]
             point == [state EXCEPT !.point = TRUE]
  <2>4. live' = [live EXCEPT ![e] = point]
    BY <1>3 DEF AddPoint
  <2>2. CASE b = e
    <3>1. live'[b] = point
      BY <2>1, <2>2, <2>4
    <3>2. CASE live[b] = None
      <4>1. point.driver = io[c].driver
        BY <2>2, <3>2 DEF NewBus
      <4> QED
        BY <2>1, <2>2, <3>1, <4>1
    <3>3. CASE live[b] # None
      <4>1. point.driver = live[b].driver
        BY <2>2, <3>3 DEF LiveBus
      <4> QED
        BY <1>1, <3>1, <3>3, <4>1
    <3> QED
      BY <3>2, <3>3
  <2>3. CASE b # io[c].bus
    BY <1>1, <2>1, <2>3, <2>4
  <2> QED
    BY <2>2, <2>3
<1>4. CASE live' = live
  BY <1>1, <1>4
<1>5. ASSUME NEW c \in Conn, SetVisible(c) \/ WriteOccupancy(c) \/ WriteVisibility(c)
      PROVE  Claims(live'[b].driver, b)
  <2>1. CASE SetVisible(c) \/ WriteOccupancy(c)
    BY <1>1, <2>1 DEF SetVisible, WriteOccupancy, LiveBus, FrameOK
  <2>2. CASE WriteVisibility(c)
    <3>1. live[b] # None /\ live'[b].driver = live[b].driver
      BY <2>2 DEF WriteVisibility, LiveBus
    <3> QED
      BY <1>1, <3>1
  <2> QED
    BY <1>5, <2>1, <2>2
<1>6. ASSUME NEW c \in Conn, RetireBus(c) PROVE Claims(live'[b].driver, b)
  BY <1>1, <1>6 DEF RetireBus
<1>7. CASE EvictBus
  BY <1>1, <1>7 DEF EvictBus
<1> QED
  BY <1>2, <1>3, <1>4, <1>5, <1>6, <1>7, AlertIdentity
  DEF Next, DriverFrame, ServeFrame, RegisterDriver, BeginLocation, BeginOccupancy,
      BeginVisibility, RiderFrame, RegisterUser, TrackBus, SubscribeRoute,
      Touch, Removal, RemoveSession, Passage, GoStale, CoolDown, SweepStep,
      StartSweep, CheckStale, EvictSession, EndSweep, vars

\* Whatever the interleaving, a bus on the air, a driver's session and the
\* frames in service name a bus that a token of that driver claims.
THEOREM NobodyImpersonates == Spec => []NoImpersonation
<1> DEFINE I == TypeInv /\ PageOK /\ LiveOK
<1>1. Init => I
  BY TypeInit DEF Init, PageOK, LiveOK, IdleFrame, Serving, IsDriver, Registered
<1>2. I /\ [Next]_vars => I'
  BY TypeStep, PageStep, LiveStep
<1>3. I => NoImpersonation
  BY DEF PageOK, LiveOK, NoImpersonation, Claims
<1> QED
  BY <1>1, <1>2, <1>3, PTL DEF Spec

-----------------------------------------------------------------------------
(* The registry tracks the sessions.                                       *)

\* A step that changes none of those facts of bus b keeps b tracked.
LEMMA SameKeeps ==
    ASSUME NEW b \in Bus, Same(b), TracksBus(b)
    PROVE  TracksBus(b)'
BY DEF Same, TracksBus, Retiring

\* c's frame changes, and is neither begun nor ended as one that brings b.
LEMMA FrameSame ==
    ASSUME TypeInv, NEW b \in Bus, NEW c \in Conn, NEW f \in Frame,
           io' = [io EXCEPT ![c] = f], f.pc \notin {"reg", "loc"}, ~ Arriving(c, b)
    PROVE  \A d \in Conn : /\ Arriving(d, b)' <=> Arriving(d, b)
                           /\ Registering(d, b)' <=> Registering(d, b)
BY DEF Arriving, Registering, TypeInv, CoreOK

\* A write to c's session that keeps its identity.
LEMMA SessionSame ==
    ASSUME TypeInv, NEW b \in Bus, NEW c \in Conn, NEW s \in Session,
           sessions' = [sessions EXCEPT ![c] = s], Registered(c),
           s.type = sessions[c].type, s.bus = sessions[c].bus
    PROVE  \A d \in Conn : DriverOn(d, b)' <=> DriverOn(d, b)
BY NoneAssumption DEF DriverOn, IsDriver, Registered, TypeInv, CoreOK

LEMMA HeardSame ==
    ASSUME TypeInv, NEW b \in Bus, NEW c \in Conn, Registered(c), Heard(c)
    PROVE  \A d \in Conn : DriverOn(d, b)' <=> DriverOn(d, b)
<1> DEFINE s == [sessions[c] EXCEPT !.stale = FALSE]
<1>1. sessions[c] \in Session
  BY DEF TypeInv, CoreOK, Registered
<1>2. s \in Session /\ s.type = sessions[c].type /\ s.bus = sessions[c].bus
  BY <1>1 DEF Session
<1> QED
  BY <1>2, SessionSame DEF Heard

LEMMA BystanderSame ==
    ASSUME TypeInv, PageOK, NEW b \in Bus, NEW c \in Conn, Bystander(c)
    PROVE  Same(b)
<1> USE ConstantsAssumption, NoneAssumption
<1>1. CASE RiderFrame(c) \/ Touch(c) \/ Passage(c)
  <2>1. UNCHANGED <<live, io, rem, sweep>>
    <3>1. CASE RegisterUser(c)
      BY <3>1 DEF RegisterUser
    <3>2. CASE ~ RegisterUser(c)
      BY <1>1, <3>2, RiderStep DEF RiderWrite
    <3> QED
      BY <3>1, <3>2
  <2>2. \A d \in Conn : DriverOn(d, b)' <=> DriverOn(d, b)
    <3>1. CASE ~ RegisterUser(c)
      BY <1>1, <3>1, RiderStep, SessionSame DEF RiderWrite
    <3>2. CASE RegisterUser(c)
      BY <3>2
      DEF RegisterUser, NewUserSession, DriverOn, IsDriver, Registered, TypeInv, CoreOK, PageOK
    <3> QED
      BY <3>1, <3>2
  <2> QED
    BY <2>1, <2>2 DEF Same, Arriving, Registering, SweepRetires
<1>2. CASE SetVisible(c) \/ WriteOccupancy(c) \/ WriteVisibility(c)
  <2>1. io' = [io EXCEPT ![c] = IdleFrame] /\ io[c].pc \in {"vis", "occ", "hide"}
    BY <1>2 DEF SetVisible, WriteOccupancy, WriteVisibility
  <2>2. \A d \in Conn : /\ Arriving(d, b)' <=> Arriving(d, b)
                        /\ Registering(d, b)' <=> Registering(d, b)
    BY <2>1, IdleFrameIsFrame, FrameSame DEF Arriving
  <2>3. sessions' = sessions \/ (Registered(c) /\ Heard(c))
    BY <1>2 DEF SetVisible, WriteOccupancy, WriteVisibility
  <2>4. \A d \in Conn : DriverOn(d, b)' <=> DriverOn(d, b)
    BY <2>3, HeardSame DEF DriverOn, IsDriver, Registered
  <2>5. (live[b] # None)' <=> live[b] # None
    <3> DEFINE e == io[c].bus
               shown == [live[e] EXCEPT !.visible = io[c].shown]
               crowded == [live[e] EXCEPT !.occupancy = io[c].level]
               toggled == [live[b] EXCEPT !.visible = io[c].shown]
    <3>1. io[c].shown \in BOOLEAN /\ io[c].level \in Level \union {None}
      BY DEF TypeInv, CoreOK, Frame
    <3>2. /\ e \in Bus /\ live[e] # None => shown # None /\ crowded # None
          /\ live[b] # None => toggled # None
      <4>1. \A a \in Bus : live[a] # None => live[a] \in LiveBus
        BY DEF TypeInv, CoreOK
      <4>2. /\ e \in Bus /\ live[e] # None => shown \in LiveBus /\ crowded \in LiveBus
            /\ live[b] # None => toggled \in LiveBus
        BY <3>1, <4>1 DEF LiveBus
      <4> QED
        BY <4>2
    <3>3. CASE SetVisible(c)
      <4>1. CASE io[c].attached
        <5>1. e \in Bus /\ live[e] # None
          BY <3>3, <4>1 DEF SetVisible, TypeInv, FrameOK
        <5>2. live' = [live EXCEPT ![e] = shown]
          BY <3>3, <4>1 DEF SetVisible
        <5> QED
          BY <3>2, <5>1, <5>2 DEF TypeInv, CoreOK
      <4>2. CASE ~ io[c].attached
        BY <3>3, <4>2 DEF SetVisible
      <4> QED
        BY <4>1, <4>2
    <3>4. CASE WriteOccupancy(c)
      <4>1. e \in Bus
        BY <3>4 DEF WriteOccupancy, TypeInv, FrameOK
      <4>2. live' = live \/ (live[e] # None /\ live' = [live EXCEPT ![e] = crowded])
        BY <3>4 DEF WriteOccupancy
      <4> QED
        BY <3>2, <4>1, <4>2 DEF TypeInv, CoreOK
    <3>5. CASE WriteVisibility(c)
      <4>1. live'[b] = live[b] \/ (live[b] # None /\ live'[b] = toggled)
        BY <3>5 DEF WriteVisibility
      <4> QED
        BY <3>2, <4>1
    <3> QED
      BY <1>2, <3>3, <3>4, <3>5
  <2>6. UNCHANGED <<rem, sweep>>
    BY <1>2 DEF SetVisible, WriteOccupancy, WriteVisibility
  <2> QED
    BY <2>2, <2>4, <2>5, <2>6 DEF Same, SweepRetires
<1>3. ASSUME NEW f \in Frame, io' = [io EXCEPT ![c] = f], f.pc \in {"occ", "hide"}, Idle(c),
             UNCHANGED <<sessions, live, rem, sweep>>
      PROVE  Same(b)
  <2>1. \A d \in Conn : /\ Arriving(d, b)' <=> Arriving(d, b)
                        /\ Registering(d, b)' <=> Registering(d, b)
    BY <1>3, FrameSame DEF Arriving, Idle
  <2> QED
    BY <1>3, <2>1 DEF Same, SweepRetires, DriverOn, IsDriver, Registered
<1>4. ASSUME NEW level \in Level, BeginOccupancy(c, level) PROVE Same(b)
  <2>1. sessions[c].bus \in Bus \union {None}
    BY <1>4 DEF BeginOccupancy, TypeInv, SessionOK
  <2> DEFINE f == Serving("occ", None, sessions[c].bus, TRUE, level)
  <2>2. f \in Frame /\ f.pc = "occ"
    BY <2>1 DEF Serving, Frame
  <2> QED
    BY <1>3, <1>4, <2>2 DEF BeginOccupancy
<1>5. ASSUME NEW shown \in BOOLEAN, BeginVisibility(c, shown) PROVE Same(b)
  <2>1. sessions[c].driver \in Driver \union {None}
    BY <1>5 DEF BeginVisibility, TypeInv, SessionOK
  <2> DEFINE f == Serving("hide", sessions[c].driver, None, shown, None)
  <2>2. f \in Frame /\ f.pc = "hide"
    BY <2>1 DEF Serving, Frame
  <2> QED
    BY <1>3, <1>5, <2>2 DEF BeginVisibility
<1> QED
  BY <1>1, <1>2, <1>4, <1>5 DEF Bystander

\* A bus nobody contests stays tracked over every step of the registry.
LEMMA TrackStep ==
    ASSUME TypeInv, PageOK, Next, NEW b \in Bus, TracksBus(b), ~ Contest(b), ~ Contest(b)'
    PROVE  TracksBus(b)'
<1> USE ConstantsAssumption, NoneAssumption
<1>1. ASSUME NEW c \in Conn, NEW t \in Token, RegisterDriver(c, t) PROVE TracksBus(b)'
  <2> DEFINE f == Serving("reg", DriverOf[t], BusOf[t], TRUE, None)
  <2>1. f.pc = "reg" /\ f.bus = BusOf[t] /\ io' = [io EXCEPT ![c] = f]
    BY <1>1 DEF RegisterDriver, Serving
  <2>2. \A d \in Conn \ {c} : /\ DriverOn(d, b)' <=> DriverOn(d, b)
                              /\ Arriving(d, b)' <=> Arriving(d, b)
                              /\ Registering(d, b)' <=> Registering(d, b)
    BY <1>1, <2>1
    DEF RegisterDriver, DriverOn, IsDriver, Registered, Arriving, Registering, TypeInv, CoreOK
  <2>3. UNCHANGED <<live, rem, sweep>>
    BY <1>1 DEF RegisterDriver
  <2>4. DriverOn(c, b) => BusOf[t] = b
    BY <1>1 DEF RegisterDriver, PageOK, DriverOn
  <2>5. ~ Arriving(c, b)
    BY <1>1 DEF RegisterDriver, Idle, Arriving
  <2>6. /\ DriverOn(c, b)' <=> BusOf[t] = b
        /\ Arriving(c, b)' <=> BusOf[t] = b
        /\ Registering(c, b)' <=> BusOf[t] = b
    <3>1. sessions'[c] = NewDriverSession(t) /\ io'[c] = f
      BY <1>1, <2>1 DEF RegisterDriver, TypeInv, CoreOK
    <3>2. NewDriverSession(t) # None
      BY NewSessionsAreSessions
    <3>3. NewDriverSession(t).type = "DRIVER" /\ NewDriverSession(t).bus = BusOf[t]
      BY DEF NewDriverSession
    <3>4. DriverOn(c, b)' <=> BusOf[t] = b
      BY <3>1, <3>2, <3>3 DEF DriverOn, IsDriver, Registered
    <3>5. io'[c].pc = "reg" /\ io'[c].bus = BusOf[t]
      BY <2>1, <3>1
    <3> QED
      BY <3>4, <3>5 DEF Arriving, Registering
  <2> QED
    BY <2>2, <2>3, <2>4, <2>5, <2>6 DEF TracksBus, Retiring, SweepRetires
<1>2. ASSUME NEW c \in Conn, PutBus(c) PROVE TracksBus(b)'
  <2> DEFINE e == io[c].bus
  <2>1. e \in Bus /\ live' = [live EXCEPT ![e] = NewBus(io[c].driver, RouteOf[e])]
    BY <1>2 DEF PutBus, TypeInv, FrameOK
  <2>2. NewBus(io[c].driver, RouteOf[e]) # None
    BY <1>2, <2>1, NewBusIsLiveBus DEF PutBus, TypeInv, FrameOK
  <2>3. \A d \in Conn : /\ DriverOn(d, b)' <=> DriverOn(d, b)
                        /\ d # c => /\ Arriving(d, b)' <=> Arriving(d, b)
                                    /\ Registering(d, b)' <=> Registering(d, b)
                        /\ ~ Arriving(c, b)'
                        /\ ~ Registering(c, b)'
    BY <1>2, DetachIsTyped, IdleFrameIsFrame
    DEF PutBus, DriverOn, IsDriver, Registered, Arriving, Registering, TypeInv, CoreOK
  <2>4. Registering(c, b) <=> e = b
    BY <1>2 DEF PutBus, Registering
  <2>5. e = b => live'[b] # None
    BY <2>1, <2>2 DEF TypeInv, CoreOK
  <2>6. e # b => live'[b] = live[b]
    BY <2>1 DEF TypeInv, CoreOK
  <2>7. Arriving(c, b) <=> e = b
    BY <1>2 DEF PutBus, Arriving
  <2>8. UNCHANGED <<rem, sweep>>
    BY <1>2 DEF PutBus
  <2>9. Retiring(b)' <=> Retiring(b)
    BY <2>8 DEF Retiring, SweepRetires
  <2>10. CASE e = b
    BY <2>3, <2>5, <2>7, <2>10 DEF TracksBus
  <2>11. CASE e # b
    BY <2>3, <2>4, <2>6, <2>7, <2>9, <2>11 DEF TracksBus
  <2> QED
    BY <2>10, <2>11
<1>3. ASSUME NEW c \in Conn, NEW shown \in BOOLEAN, BeginLocation(c, shown) PROVE TracksBus(b)'
  <2> DEFINE f == Serving("loc", sessions[c].driver, sessions[c].bus, shown, None)
  <2>1. f.pc = "loc" /\ f.bus = sessions[c].bus /\ io' = [io EXCEPT ![c] = f]
    BY <1>3 DEF BeginLocation, Serving
  <2>2. \A d \in Conn : DriverOn(d, b)' <=> DriverOn(d, b)
    BY <1>3, HeardSame DEF BeginLocation, IsDriver
  <2>3. /\ \A d \in Conn : /\ d # c => (Arriving(d, b)' <=> Arriving(d, b))
                           /\ Registering(d, b)' <=> Registering(d, b)
        /\ Arriving(c, b)' => sessions[c].bus = b
    BY <1>3, <2>1 DEF BeginLocation, Arriving, Registering, Idle, TypeInv, CoreOK
  <2>4. sessions[c].bus = b => DriverOn(c, b)
    BY <1>3 DEF BeginLocation, DriverOn
  <2>5. UNCHANGED <<live, rem, sweep>>
    BY <1>3 DEF BeginLocation
  <2> QED
    BY <2>2, <2>3, <2>4, <2>5 DEF TracksBus, Retiring, SweepRetires
<1>4. ASSUME NEW c \in Conn, AddPoint(c) PROVE TracksBus(b)'
  <2> DEFINE e == io[c].bus
             state == IF live[e] = None THEN NewBus(io[c].driver, None) ELSE live[e]
             point == [state EXCEPT !.point = TRUE]
  <2>1. e \in Bus /\ live' = [live EXCEPT ![e] = point]
    BY <1>4 DEF AddPoint, TypeInv, FrameOK
  <2>2. point # None
    <3>1. state \in LiveBus
      BY <1>4, NewBusIsLiveBus DEF AddPoint, TypeInv, CoreOK, FrameOK
    <3>2. point \in LiveBus
      BY <3>1 DEF LiveBus
    <3> QED
      BY <3>2
  <2>3. live'[e] # None /\ (e # b => live'[b] = live[b])
    BY <2>1, <2>2 DEF TypeInv, CoreOK
  <2>4. \A d \in Conn : /\ DriverOn(d, b)' <=> DriverOn(d, b)
                        /\ d # c => (Arriving(d, b)' <=> Arriving(d, b))
                        /\ Registering(d, b)' <=> Registering(d, b)
                        /\ ~ Arriving(c, b)'
    BY <1>4
    DEF AddPoint, DriverOn, IsDriver, Registered, Arriving, Registering, Frame, TypeInv, CoreOK
  <2>5. Arriving(c, b) <=> e = b
    BY <1>4 DEF AddPoint, Arriving
  <2>6. Retiring(b)' <=> Retiring(b)
    BY <1>4 DEF AddPoint, Retiring, SweepRetires
  <2>7. CASE e = b
    BY <2>3, <2>4, <2>5, <2>7 DEF TracksBus
  <2>8. CASE e # b
    BY <2>3, <2>4, <2>5, <2>6, <2>8 DEF TracksBus
  <2> QED
    BY <2>7, <2>8
<1>5. ASSUME NEW c \in Conn, Bystander(c) PROVE TracksBus(b)'
  BY <1>5, BystanderSame, SameKeeps
<1>6. ASSUME NEW c \in Conn, RemoveSession(c) PROVE TracksBus(b)'
  <2>1. \A d \in Conn \ {c} : DriverOn(d, b)' <=> DriverOn(d, b)
    BY <1>6 DEF RemoveSession, DriverOn, IsDriver, Registered, TypeInv, CoreOK
  <2>2. ~ DriverOn(c, b)'
    BY <1>6 DEF RemoveSession, DriverOn, IsDriver, Registered, TypeInv, CoreOK
  <2>3. UNCHANGED <<live, io, sweep>>
    BY <1>6 DEF RemoveSession
  <2>4. rem'[c] = sessions[c].bus /\ rem[c] = None /\ \A d \in Conn \ {c} : rem'[d] = rem[d]
    BY <1>6 DEF RemoveSession, TypeInv, CoreOK
  <2>5. CASE sessions[c].bus = b
    <3>1. Retiring(b)'
      BY <2>4, <2>5 DEF Retiring
    <3> QED
      BY <3>1 DEF Contest, TracksBus
  <2>6. CASE sessions[c].bus # b
    <3>1. ~ DriverOn(c, b)
      BY <2>6 DEF DriverOn
    <3>2. Same(b)
      BY <2>1, <2>2, <2>3, <2>4, <2>6, <3>1 DEF Same, Arriving, Registering, SweepRetires
    <3> QED
      BY <3>2, SameKeeps
  <2> QED
    BY <2>5, <2>6
<1>7. ASSUME NEW c \in Conn, RetireBus(c) PROVE TracksBus(b)'
  <2>1. rem[c] \in Bus
    BY <1>7 DEF RetireBus, TypeInv, CoreOK
  <2>2. \A d \in Conn : /\ DriverOn(d, b)' <=> DriverOn(d, b)
                        /\ Arriving(d, b)' <=> Arriving(d, b)
                        /\ Registering(d, b)' <=> Registering(d, b)
    BY <1>7, DetachIsTyped
    DEF RetireBus, DriverOn, IsDriver, Registered, Arriving, Registering, TypeInv, CoreOK
  <2>3. CASE rem[c] = b
    <3>1. \A d \in Conn : ~ DriverOn(d, b) /\ ~ Arriving(d, b)
      BY <2>3 DEF Contest, Retiring
    <3>2. live'[b] = None
      BY <1>7, <2>3 DEF RetireBus, TypeInv, CoreOK
    <3> QED
      BY <2>2, <3>1, <3>2 DEF TracksBus
  <2>4. CASE rem[c] # b
    <3>1. live'[b] = live[b] /\ sweep' = sweep /\ \A d \in Conn : (rem[d] = b)' <=> rem[d] = b
      BY <1>7, <2>1, <2>4 DEF RetireBus, TypeInv, CoreOK
    <3>2. Same(b)
      BY <2>2, <3>1 DEF Same, SweepRetires
    <3> QED
      BY <3>2, SameKeeps
  <2> QED
    BY <2>3, <2>4
<1>8. CASE StartSweep \/ (\E c \in Conn : CheckStale(c)) \/ EndSweep
  <2>1. UNCHANGED <<sessions, live, io, rem>> /\ sweep.pc # "retire" /\ sweep'.pc # "retire"
    <3>1. CASE StartSweep \/ EndSweep
      <4>1. \A todo : [IdleSweep EXCEPT !.pc = "scan", !.todo = todo].pc = "scan"
        BY DEF IdleSweep
      <4>2. IdleSweep.pc = "idle"
        BY DEF IdleSweep
      <4> QED
        BY <3>1, <4>1, <4>2 DEF StartSweep, EndSweep
    <3>2. CASE \E c \in Conn : CheckStale(c)
      <4>0. PICK c \in Conn : CheckStale(c)
        BY <3>2
      <4>1. sweep'.pc \in {"scan", "remove"}
        <5>1. sweep \in Sweep /\ sweep.pc = "scan"
          BY <4>0 DEF CheckStale, TypeInv, CoreOK
        <5>2. \/ sweep' = [sweep EXCEPT !.todo = @ \ {c}, !.pc = "remove", !.victim = c]
              \/ sweep' = [sweep EXCEPT !.todo = @ \ {c}]
          BY <4>0 DEF CheckStale
        <5>3. CASE sweep' = [sweep EXCEPT !.todo = @ \ {c}, !.pc = "remove", !.victim = c]
          BY <5>1, <5>3 DEF Sweep
        <5>4. CASE sweep' = [sweep EXCEPT !.todo = @ \ {c}]
          BY <5>1, <5>4 DEF Sweep
        <5> QED
          BY <5>2, <5>3, <5>4
      <4> QED
        BY <3>2, <4>1 DEF CheckStale
    <3> QED
      BY <1>8, <3>1, <3>2
  <2>2. Same(b)
    BY <2>1 DEF Same, SweepRetires, DriverOn, IsDriver, Registered, Arriving, Registering
  <2> QED
    BY <2>2, SameKeeps
<1>9. CASE EvictSession
  <2>0. PICK c \in Conn : c = sweep.victim
    BY <1>9 DEF EvictSession, TypeInv, SweepOK
  <2>1. UNCHANGED <<live, io, rem>> /\ ~ SweepRetires(b)
    BY <1>9 DEF EvictSession, SweepRetires
  <2>2. CASE ~ Registered(c)
    <3>1. sessions' = sessions /\ sweep'.pc = "scan"
      BY <1>9, <2>0, <2>2 DEF EvictSession, Sweep, TypeInv, CoreOK
    <3>2. Same(b)
      BY <2>1, <3>1 DEF Same, SweepRetires, DriverOn, IsDriver, Registered, Arriving, Registering
    <3> QED
      BY <3>2, SameKeeps
  <2>3. CASE Registered(c)
    <3>1. /\ sweep'.pc = IF IsDriver(c) THEN "retire" ELSE "scan"
          /\ sweep'.bus = sessions[c].bus
      <4>1. sweep' = [sweep EXCEPT
                              !.pc = IF IsDriver(c) THEN "retire" ELSE "scan",
                              !.victim = None,
                              !.bus = sessions[c].bus,
                              !.evicted = @ \union {GoodbyeOf(c)}]
        BY <1>9, <2>0, <2>3 DEF EvictSession
      <4> QED
        BY <4>1 DEF Sweep, TypeInv, CoreOK
    <3>2. /\ \A d \in Conn \ {c} : DriverOn(d, b)' <=> DriverOn(d, b)
          /\ ~ DriverOn(c, b)'
      BY <1>9, <2>0, <2>3 DEF EvictSession, DriverOn, IsDriver, Registered, TypeInv, CoreOK
    <3>3. CASE DriverOn(c, b)
      <4>1. SweepRetires(b)'
        BY <3>1, <3>3 DEF DriverOn, SweepRetires
      <4> QED
        BY <4>1 DEF Contest, TracksBus, Retiring
    <3>4. CASE ~ DriverOn(c, b)
      <4>1. ~ SweepRetires(b)'
        BY <3>1, <3>4 DEF DriverOn, SweepRetires
      <4>2. Same(b)
        BY <2>1, <3>2, <3>4, <4>1 DEF Same, Arriving, Registering
      <4> QED
        BY <4>2, SameKeeps
    <3> QED
      BY <3>3, <3>4
  <2> QED
    BY <2>2, <2>3
<1>10. CASE EvictBus
  <2>1. sweep.bus \in Bus
    BY <1>10 DEF EvictBus, TypeInv, SweepOK
  <2>2. \A d \in Conn : /\ DriverOn(d, b)' <=> DriverOn(d, b)
                        /\ Arriving(d, b)' <=> Arriving(d, b)
                        /\ Registering(d, b)' <=> Registering(d, b)
    BY <1>10, DetachIsTyped
    DEF EvictBus, DriverOn, IsDriver, Registered, Arriving, Registering, TypeInv, CoreOK
  <2>3. CASE sweep.bus = b
    <3>1. \A d \in Conn : ~ DriverOn(d, b) /\ ~ Arriving(d, b)
      BY <1>10, <2>3 DEF EvictBus, Contest, Retiring, SweepRetires
    <3>2. live'[b] = None
      BY <1>10, <2>3 DEF EvictBus, TypeInv, CoreOK
    <3> QED
      BY <2>2, <3>1, <3>2 DEF TracksBus
  <2>4. CASE sweep.bus # b
    <3>1. /\ live'[b] = live[b] /\ rem' = rem
          /\ ~ SweepRetires(b) /\ ~ SweepRetires(b)'
      BY <1>10, <2>1, <2>4 DEF EvictBus, SweepRetires, Sweep, TypeInv, CoreOK
    <3>2. Same(b)
      BY <2>2, <3>1 DEF Same
    <3> QED
      BY <3>2, SameKeeps
  <2> QED
    BY <2>3, <2>4
<1>11. CASE AlertStep
  BY <1>11, AlertSame, SameKeeps
<1> QED
  BY <1>1, <1>2, <1>3, <1>4, <1>5, <1>6, <1>7, <1>8, <1>9, <1>10, <1>11
  DEF Next, DriverFrame, ServeFrame, Removal, SweepStep, Bystander

\* Only the second half of a registration registers.
LEMMA CleanIsPut ==
    ASSUME TypeInv, Next, NEW b \in Bus, NEW c \in Conn, CleanRegistration(c, b)
    PROVE  PutBus(c)
<1> USE ConstantsAssumption, NoneAssumption
<1>1. io[c].pc = "reg" /\ io'[c].pc = "idle"
  BY DEF CleanRegistration
<1>2. \A d \in Conn : \A f : d # c => io' # [io EXCEPT ![d] = f]
  BY <1>1 DEF TypeInv, CoreOK
<1>3. io' # io /\ \A e : io' # Detach(io, e)
  BY <1>1, DetachIsTyped DEF TypeInv, CoreOK
<1>4. ASSUME NEW d \in Conn PROVE ~ DriverFrame(d)
  BY <1>1, <1>2
  DEF DriverFrame, RegisterDriver, BeginLocation, BeginVisibility, BeginOccupancy, Idle
<1>5. ASSUME NEW d \in Conn
      PROVE  ~ RiderFrame(d) /\ ~ Touch(d) /\ ~ Passage(d) /\ ~ Removal(d)
  BY <1>3
  DEF RiderFrame, RegisterUser, TrackBus, SubscribeRoute, Touch,
      Passage, GoStale, CoolDown, Removal, RemoveSession, RetireBus
<1>6. ~ SweepStep /\ ~ AlertStep
  BY <1>3, AlertIdentity
  DEF SweepStep, StartSweep, CheckStale, EvictSession, EvictBus, EndSweep
<1>7. ASSUME NEW d \in Conn, ServeFrame(d) PROVE PutBus(c)
  <2>1. CASE PutBus(d)
    <3>1. d = c
      BY <1>1, <2>1, DetachIsTyped DEF PutBus, TypeInv, CoreOK
    <3> QED
      BY <2>1, <3>1
  <2>2. CASE AddPoint(d)
    <3>1. io' = [io EXCEPT ![d] = [io[d] EXCEPT !.pc = "vis", !.attached = TRUE]]
      BY <2>2 DEF AddPoint
    <3> QED
      BY <1>1, <1>2, <2>2, <3>1 DEF AddPoint
  <2>3. CASE SetVisible(d) \/ WriteOccupancy(d) \/ WriteVisibility(d)
    BY <1>1, <1>2, <2>3 DEF SetVisible, WriteOccupancy, WriteVisibility
  <2> QED
    BY <1>7, <2>1, <2>2, <2>3 DEF ServeFrame
<1> QED
  BY <1>4, <1>5, <1>6, <1>7 DEF Next

\* A clean registration starts the bus afresh.
LEMMA CleanStep ==
    ASSUME TypeInv, Next, NEW b \in Bus, NEW c \in Conn, CleanRegistration(c, b)
    PROVE  TracksBus(b)'
<1> USE ConstantsAssumption, NoneAssumption
<1>1. PutBus(c)
  BY CleanIsPut
<1>2. live'[b] # None
  <2>1. NewBus(io[c].driver, RouteOf[b]) # None
    BY <1>1, NewBusIsLiveBus DEF CleanRegistration, TypeInv, FrameOK
  <2> QED
    BY <1>1, <2>1 DEF PutBus, CleanRegistration, TypeInv, CoreOK
<1>3. DriverOn(c, b)'
  BY <1>1 DEF PutBus, CleanRegistration, DriverOn, IsDriver, Registered
<1>4. \A d \in Conn : ~ Arriving(d, b)'
  BY <1>1, DetachIsTyped, IdleFrameIsFrame
  DEF PutBus, CleanRegistration, Arriving, TypeInv, CoreOK
<1> QED
  BY <1>2, <1>3, <1>4 DEF TracksBus

LEMMA TrackInvStep ==
    ASSUME TypeInv, PageOK, contested \in [Bus -> BOOLEAN], TrackInv, [HNext]_hvars
    PROVE  contested' \in [Bus -> BOOLEAN] /\ TrackInv'
<1>1. CASE HNext
  <2>1. /\ contested' \in [Bus -> BOOLEAN]
        /\ \A b \in Bus : contested'[b] <=>
                            \/ Contest(b)'
                            \/ contested[b] /\ ~ \E c \in Conn : CleanRegistration(c, b)
    BY <1>1 DEF HNext, Observe
  <2>2. ASSUME NEW b \in Bus, ~ contested'[b] PROVE TracksBus(b)'
    <3>1. ~ Contest(b)'
      BY <2>1, <2>2
    <3>2. CASE contested[b]
      <4>1. PICK c \in Conn : CleanRegistration(c, b)
        BY <2>1, <2>2, <3>2
      <4> QED
        BY <1>1, <4>1, CleanStep DEF HNext
    <3>3. CASE ~ contested[b]
      <4>1. TracksBus(b) /\ ~ Contest(b)
        BY <3>3 DEF TrackInv
      <4> QED
        BY <1>1, <3>1, <4>1, TrackStep DEF HNext
    <3> QED
      BY <3>2, <3>3
  <2> QED
    BY <2>1, <2>2 DEF TrackInv
<1>2. CASE UNCHANGED hvars
  BY <1>2
  DEF hvars, TrackInv, TracksBus, Contest, Retiring, SweepRetires, DriverOn, Arriving,
      Registering, IsDriver, Registered
<1> QED
  BY <1>1, <1>2

LEMMA TrackInit == HInit => TypeInv /\ PageOK /\ TrackInv
<1> SUFFICES ASSUME HInit PROVE TypeInv /\ PageOK /\ TrackInv
  OBVIOUS
<1>1. TypeInv /\ PageOK
  BY TypeInit DEF HInit, Init, PageOK, IdleFrame, Serving, IsDriver, Registered
<1>2. TrackInv
  BY NoneAssumption
  DEF HInit, Init, TrackInv, TracksBus, Contest, Retiring, SweepRetires, DriverOn, Arriving,
      Registering, IsDriver, Registered, IdleFrame, IdleSweep, Serving
<1> QED
  BY <1>1, <1>2

\* Until a removal of a bus meets another user of it, the bus is live exactly
\* while a driver session stands for it, whenever nothing is under way on it.
THEOREM RegistryExact == HSpec => []RegistryTracksSessions
<1> DEFINE I == TypeInv /\ PageOK /\ contested \in [Bus -> BOOLEAN] /\ TrackInv
<1>1. HInit => I
  BY TrackInit DEF HInit
<1>2. I /\ [HNext]_hvars => I'
  <2> SUFFICES ASSUME I, [HNext]_hvars PROVE I'
    OBVIOUS
  <2>1. [Next]_vars
    BY DEF HNext, hvars, vars
  <2> QED
    BY <2>1, TypeStep, PageStep, TrackInvStep
<1>3. I => RegistryTracksSessions
  BY DEF TrackInv, TracksBus, RegistryTracksSessions, Settled, Registering, Arriving
<1> QED
  BY <1>1, <1>2, <1>3, PTL DEF HSpec
-----------------------------------------------------------------------------
(* Who holds a bus.                                                        *)

\* A step that takes no session off b, ends no removal of it and puts nothing
\* new on the map under its code.
Kept(b) ==
    /\ live'[b] # None => live[b] # None /\ live'[b].driver = live[b].driver
    /\ Retiring(b) => Retiring(b)'
    /\ \A c \in Conn : DriverOn(c, b) => DriverOn(c, b)'

LEMMA KeptHeld ==
    ASSUME NEW b \in Bus, Kept(b), HeldBus(b)
    PROVE  HeldBus(b)'
BY DEF Kept, HeldBus

\* Only the driver of a new bus comes from a frame; every other write to a
\* live bus leaves its driver.
LEMMA WritesKeepDriver ==
    ASSUME TypeInv, NEW c \in Conn, NEW b \in Bus, live'[b] # None,
           SetVisible(c) \/ WriteOccupancy(c) \/ WriteVisibility(c)
    PROVE  live[b] # None /\ live'[b].driver = live[b].driver
<1> USE DEF TypeInv, CoreOK
<1>1. CASE SetVisible(c) \/ WriteOccupancy(c)
  BY <1>1 DEF SetVisible, WriteOccupancy, LiveBus, FrameOK
<1>2. CASE WriteVisibility(c)
  BY <1>2 DEF WriteVisibility, LiveBus
<1> QED
  BY <1>1, <1>2

LEMMA BystanderKeeps ==
    ASSUME TypeInv, PageOK, NEW b \in Bus, NEW c \in Conn, Bystander(c)
    PROVE  Kept(b)
<1>1. Same(b)
  BY BystanderSame
<1>2. live'[b] # None => live[b] # None /\ live'[b].driver = live[b].driver
  <2>1. CASE SetVisible(c) \/ WriteOccupancy(c) \/ WriteVisibility(c)
    BY <2>1, WritesKeepDriver
  <2>2. CASE live' = live
    BY <2>2
  <2> QED
    BY <2>1, <2>2
    DEF Bystander, RiderFrame, RegisterUser, TrackBus, SubscribeRoute, Touch,
        Passage, GoStale, CoolDown, BeginOccupancy, BeginVisibility
<1> QED
  BY <1>1, <1>2 DEF Same, Kept, Retiring

\* c puts a bus of its own on the map, or leaves the one that is there.
LEMMA PutHolds ==
    ASSUME TypeInv, PageOK, NEW c \in Conn, NEW b \in Bus, PutBus(c) \/ AddPoint(c),
           Arriving(c, b) => DriverOn(c, b), HeldBus(b)
    PROVE  HeldBus(b)'
<1> USE DEF TypeInv, CoreOK
<1>1. io[c].bus \in Bus /\ io[c].driver = DriverOf[Page[c]]
  BY DEF PutBus, AddPoint, PageOK, FrameOK
<1>2. /\ UNCHANGED <<sessions, rem, sweep>>
      /\ \A d \in Conn : DriverOn(d, b)' <=> DriverOn(d, b)
      /\ Retiring(b)' <=> Retiring(b)
  BY DEF PutBus, AddPoint, DriverOn, IsDriver, Registered, Retiring, SweepRetires
<1>3. CASE io[c].bus # b
  <2>1. live'[b] = live[b]
    BY <1>1, <1>3 DEF PutBus, AddPoint
  <2> QED
    BY <1>2, <2>1, KeptHeld DEF Kept
<1>4. CASE io[c].bus = b
  <2>1. DriverOn(c, b)'
    BY <1>2, <1>4 DEF PutBus, AddPoint, Arriving
  <2>2. CASE live[b] = None \/ PutBus(c)
    <3>1. live'[b].driver = io[c].driver
      BY <1>1, <1>4, <2>2 DEF PutBus, AddPoint, NewBus
    <3> QED
      BY <1>1, <2>1, <3>1 DEF HeldBus
  <2>3. CASE AddPoint(c) /\ live[b] # None
    <3>1. live'[b].driver = live[b].driver
      BY <1>1, <1>4, <2>3 DEF AddPoint, LiveBus
    <3> QED
      BY <1>2, <2>3, <3>1, KeptHeld DEF Kept
  <2> QED
    BY <2>2, <2>3
<1> QED
  BY <1>3, <1>4

\* A step of the sweep, or a removal, other than the write to live.
LEMMA RemovalKeeps ==
    ASSUME TypeInv, NEW b \in Bus, ~ Contest(b), ~ Contest(b)',
           (\E c \in Conn : RemoveSession(c)) \/ StartSweep \/ (\E c \in Conn : CheckStale(c))
             \/ EvictSession \/ EndSweep,
           HeldBus(b)
    PROVE  HeldBus(b)'
<1> USE NoneAssumption DEF TypeInv, CoreOK
<1>1. ASSUME NEW c \in Conn, RemoveSession(c) PROVE HeldBus(b)'
  <2>1. /\ UNCHANGED <<live, sweep>>
        /\ rem'[c] = sessions[c].bus /\ rem[c] = None /\ \A d \in Conn \ {c} : rem'[d] = rem[d]
        /\ \A d \in Conn \ {c} : DriverOn(d, b)' <=> DriverOn(d, b)
    BY <1>1 DEF RemoveSession, DriverOn, IsDriver, Registered
  <2>2. CASE sessions[c].bus = b
    BY <2>1, <2>2 DEF HeldBus, Retiring
  <2>3. CASE sessions[c].bus # b
    <3>1. ~ DriverOn(c, b)
      BY <2>3 DEF DriverOn
    <3>2. Kept(b)
      BY <2>1, <3>1 DEF Kept, Retiring, SweepRetires
    <3> QED
      BY <3>2, KeptHeld
  <2> QED
    BY <2>2, <2>3
<1>2. CASE StartSweep \/ (\E c \in Conn : CheckStale(c)) \/ EndSweep
  <2>1. UNCHANGED <<sessions, live, rem>> /\ sweep.pc # "retire"
    BY <1>2 DEF StartSweep, CheckStale, EndSweep
  <2>2. Kept(b)
    BY <2>1 DEF Kept, Retiring, SweepRetires, DriverOn, IsDriver, Registered
  <2> QED
    BY <2>2, KeptHeld
<1>3. CASE EvictSession
  <2> DEFINE c == sweep.victim
  <2>0. c \in Conn
    BY <1>3 DEF EvictSession, SweepOK
  <2>1. /\ UNCHANGED <<live, rem>> /\ ~ SweepRetires(b)
        /\ \A d \in Conn \ {c} : DriverOn(d, b)' <=> DriverOn(d, b)
    BY <1>3, <2>0 DEF EvictSession, SweepRetires, DriverOn, IsDriver, Registered
  <2>2. CASE DriverOn(c, b)
    <3>1. sweep'.pc = "retire" /\ sweep'.bus = b
      BY <1>3, <2>0, <2>2 DEF EvictSession, Sweep, DriverOn, IsDriver
    <3> QED
      BY <2>1, <3>1 DEF HeldBus, Retiring, SweepRetires
  <2>3. CASE ~ DriverOn(c, b)
    <3>1. Kept(b)
      BY <2>1, <2>3 DEF Kept, Retiring
    <3> QED
      BY <3>1, KeptHeld
  <2> QED
    BY <2>2, <2>3
<1> QED
  BY <1>1, <1>2, <1>3

\* The removal of a bus by its code leaves it off the map or is of another bus.
LEMMA RetireKeeps ==
    ASSUME TypeInv, NEW b \in Bus, (\E c \in Conn : RetireBus(c)) \/ EvictBus, HeldBus(b)
    PROVE  HeldBus(b)'
<1> USE DEF TypeInv, CoreOK
<1>0. \A d \in Conn : DriverOn(d, b)' <=> DriverOn(d, b)
  BY DEF RetireBus, EvictBus, DriverOn, IsDriver, Registered
<1>1. ASSUME NEW c \in Conn, RetireBus(c) PROVE HeldBus(b)'
  <2>1. CASE rem[c] = b
    BY <1>1, <2>1 DEF RetireBus, HeldBus
  <2>2. CASE rem[c] # b
    <3>1. /\ live'[b] = live[b] /\ sweep' = sweep
          /\ \A d \in Conn : rem[d] = b => rem'[d] = b
      BY <1>1, <2>2 DEF RetireBus
    <3>2. Kept(b)
      BY <1>0, <3>1 DEF Kept, Retiring, SweepRetires
    <3> QED
      BY <3>2, KeptHeld
  <2> QED
    BY <2>1, <2>2
<1>2. CASE EvictBus
  <2>1. CASE sweep.bus = b
    BY <1>2, <2>1 DEF EvictBus, HeldBus
  <2>2. CASE sweep.bus # b
    <3>1. live'[b] = live[b] /\ rem' = rem /\ ~ SweepRetires(b)
      BY <1>2, <2>2 DEF EvictBus, SweepRetires
    <3>2. Kept(b)
      BY <1>0, <3>1 DEF Kept, Retiring
    <3> QED
      BY <3>2, KeptHeld
  <2> QED
    BY <2>1, <2>2
<1> QED
  BY <1>1, <1>2

\* Over every step that meets no contest, a live bus has the driver of one of
\* its sessions.
LEMMA HeldStep ==
    ASSUME TypeInv, PageOK, Next, NEW b \in Bus, TracksBus(b), ~ Contest(b), ~ Contest(b)',
           HeldBus(b)
    PROVE  HeldBus(b)'
<1>1. ASSUME NEW c \in Conn, NEW t \in Token, RegisterDriver(c, t) PROVE HeldBus(b)'
  <2>1. sessions'[c] = NewDriverSession(t) /\ \A d \in Conn \ {c} : sessions'[d] = sessions[d]
    BY <1>1 DEF RegisterDriver, TypeInv, CoreOK
  <2>2. UNCHANGED <<live, rem, sweep>>
    BY <1>1 DEF RegisterDriver
  <2>3. DriverOn(c, b) => BusOf[t] = b
    BY <1>1 DEF RegisterDriver, PageOK, DriverOn
  <2>4. NewDriverSession(t).type = "DRIVER" /\ NewDriverSession(t).bus = BusOf[t]
        /\ NewDriverSession(t) # None
    BY NewSessionsAreSessions, NoneAssumption DEF NewDriverSession
  <2>5. Kept(b)
    BY <2>1, <2>2, <2>3, <2>4 DEF Kept, Retiring, SweepRetires, DriverOn, IsDriver, Registered
  <2> QED
    BY <2>5, KeptHeld
<1>2. ASSUME NEW c \in Conn, PutBus(c) \/ AddPoint(c) PROVE HeldBus(b)'
  <2>1. Arriving(c, b) => DriverOn(c, b)
    BY DEF TracksBus
  <2> QED
    BY <1>2, <2>1, PutHolds
<1>3. ASSUME NEW c \in Conn, NEW shown \in BOOLEAN, BeginLocation(c, shown) PROVE HeldBus(b)'
  <2>1. \A d \in Conn : DriverOn(d, b)' <=> DriverOn(d, b)
    BY <1>3, HeardSame DEF BeginLocation, IsDriver
  <2>2. Kept(b)
    BY <1>3, <2>1 DEF BeginLocation, Kept, Retiring, SweepRetires
  <2> QED
    BY <2>2, KeptHeld
<1>4. ASSUME NEW c \in Conn, Bystander(c) PROVE HeldBus(b)'
  BY <1>4, BystanderKeeps, KeptHeld
<1>5. ASSUME NEW c \in Conn, Removal(c) PROVE HeldBus(b)'
  BY <1>5, RemovalKeeps, RetireKeeps DEF Removal
<1>6. CASE SweepStep
  BY <1>6, RemovalKeeps, RetireKeeps DEF SweepStep
<1>7. CASE AlertStep
  <2>1. Kept(b)
    BY <1>7, AlertIdentity, AlertSame DEF Same, Kept, Retiring
  <2> QED
    BY <2>1, KeptHeld
<1> QED
  BY <1>1, <1>2, <1>3, <1>4, <1>5, <1>6, <1>7 DEF Next, DriverFrame, ServeFrame, Bystander

-----------------------------------------------------------------------------
(* The way of the last word to the bus.                                    *)

\* A frame that holds no state of bus e keeps its locals when e is unmapped.
LEMMA DetachSpares ==
    ASSUME NEW frames \in [Conn -> Frame], NEW e, NEW c \in Conn,
           ~ (frames[c].pc = "vis" /\ frames[c].bus = e)
    PROVE  Detach(frames, e)[c] = frames[c]
BY DEF Detach

\* The word of c on b is left where it is.
Aside(c, b) == io'[c] = io[c] /\ live'[b].visible = live[b].visible

LEMMA AsideKeeps ==
    ASSUME NEW c \in Conn, NEW b \in Bus, Aside(c, b), asked'[c] = asked[c], WordOnItsWay(c, b)
    PROVE  WordOnItsWay(c, b)'
BY DEF Aside, WordOnItsWay

\* c has b to itself: nobody removes b, and no other session or frame names b
\* or the driver b carries.
OwnBus(c, b) ==
    /\ DriverOn(c, b) /\ Alone(c) /\ ~ Retiring(b)
    /\ live[b] # None => live[b].driver = DriverOf[Page[c]]

\* Another connection's frame writes neither to that bus nor to c's frame.
LEMMA OthersStandAside ==
    ASSUME TypeInv, PageOK, NEW c \in Conn, NEW d \in Conn, d # c, NEW b \in Bus,
           OwnBus(c, b), WordOnItsWay(c, b),
           \/ DriverFrame(d) \/ RiderFrame(d) \/ Touch(d) \/ ServeFrame(d)
           \/ Removal(d) \/ Passage(d)
    PROVE  Aside(c, b)
<1> USE DEF TypeInv, CoreOK
<1>1. CASE live' = live /\ \E f : io' = [io EXCEPT ![d] = f]
  BY <1>1 DEF Aside
<1>2. CASE UNCHANGED <<live, io>>
  BY <1>2 DEF Aside
<1>3. ~ Idle(d) => io[d].bus # b /\ io[d].driver # DriverOf[Page[c]]
  BY DEF OwnBus, Alone, DriverOn, PageOK
<1>4. CASE PutBus(d)
  <2>1. io[d].bus \in Bus /\ io[d].bus # b
    BY <1>3, <1>4 DEF PutBus, Idle, FrameOK
  <2>2. live'[b] = live[b]
    BY <1>4, <2>1 DEF PutBus
  <2>3. Detach(io, io[d].bus)[c] = io[c]
    BY <2>1, DetachSpares DEF WordOnItsWay
  <2>4. io'[c] = Detach(io, io[d].bus)[c]
    BY <1>4, DetachIsTyped DEF PutBus
  <2> QED
    BY <2>2, <2>3, <2>4 DEF Aside
<1>5. CASE AddPoint(d) \/ SetVisible(d) \/ WriteOccupancy(d)
  <2>1. io[d].bus # b
    BY <1>3, <1>5 DEF AddPoint, SetVisible, WriteOccupancy, Idle
  <2>2. live'[b] = live[b]
    BY <1>5, <2>1 DEF AddPoint, SetVisible, WriteOccupancy
  <2>3. io'[c] = io[c]
    BY <1>5 DEF AddPoint, SetVisible, WriteOccupancy
  <2> QED
    BY <2>2, <2>3 DEF Aside
<1>6. CASE WriteVisibility(d)
  <2>1. io[d].driver # DriverOf[Page[c]]
    BY <1>3, <1>6 DEF WriteVisibility, Idle
  <2>2. live'[b] = live[b]
    BY <1>6, <2>1 DEF WriteVisibility, OwnBus
  <2> QED
    BY <1>6, <2>2 DEF WriteVisibility, Aside
<1>7. CASE RetireBus(d)
  <2>1. rem[d] # b
    BY <1>7 DEF OwnBus, Retiring
  <2>2. live'[b] = live[b] /\ io'[c] = io[c]
    BY <1>7, <2>1, DetachSpares DEF RetireBus, WordOnItsWay
  <2> QED
    BY <2>2 DEF Aside
<1>8. CASE DriverFrame(d)
  BY <1>1, <1>8
  DEF DriverFrame, RegisterDriver, BeginLocation, BeginVisibility, BeginOccupancy
<1>9. CASE RiderFrame(d) \/ Touch(d) \/ Passage(d) \/ RemoveSession(d)
  BY <1>2, <1>9
  DEF RiderFrame, RegisterUser, TrackBus, SubscribeRoute, Touch, Passage,
      GoStale, CoolDown, RemoveSession
<1> QED
  BY <1>4, <1>5, <1>6, <1>7, <1>8, <1>9 DEF ServeFrame, Removal

\* Nor does the sweep.
LEMMA SweepStandsAside ==
    ASSUME TypeInv, NEW c \in Conn, NEW b \in Bus, OwnBus(c, b), WordOnItsWay(c, b), SweepStep
    PROVE  Aside(c, b)
<1> USE DEF TypeInv, CoreOK
<1>1. CASE EvictBus
  <2>1. sweep.bus # b
    BY <1>1 DEF EvictBus, OwnBus, Retiring, SweepRetires
  <2>2. live'[b] = live[b] /\ io'[c] = io[c]
    BY <1>1, <2>1, DetachSpares DEF EvictBus, WordOnItsWay
  <2> QED
    BY <2>2 DEF Aside
<1>2. CASE ~ EvictBus
  BY <1>2 DEF SweepStep, StartSweep, CheckStale, EvictSession, EndSweep, Aside
<1> QED
  BY <1>1, <1>2

\* What c asks for changes only where a frame of c begins.
LEMMA AskedStays ==
    ASSUME NEW c \in Conn, Observe, asked'[c] # None,
           ~ Idle(c) \/ io'[c].pc \in {"idle", "occ"}
    PROVE  asked'[c] = asked[c]
BY DEF Observe, Asks, Idle

\* c's own frames: a new word replaces the old one, and the write that ends
\* the frame puts the word on the bus.
LEMMA OwnFrameKeeps ==
    ASSUME TypeInv, PageOK, NEW c \in Conn, NEW b \in Bus, OwnBus(c, b), TracksBus(b),
           WordOnItsWay(c, b), io[c].pc = "reg" => asked[c] = TRUE,
           ServeFrame(c), asked'[c] = asked[c]
    PROVE  WordOnItsWay(c, b)'
<1> USE DEF TypeInv, CoreOK
<1>0. sessions[c].bus = b /\ b = BusOf[Page[c]]
  BY DEF OwnBus, DriverOn, PageOK
<1>1. CASE PutBus(c)
  <2>1. io[c].bus = b /\ asked[c] = TRUE
    BY <1>0, <1>1 DEF PutBus, PageOK
  <2>2. live'[b].visible = TRUE
    BY <1>1, <2>1 DEF PutBus, NewBus
  <2>3. io'[c].pc = "idle"
    BY <1>1, DetachIsTyped, IdleFrameIsFrame DEF PutBus
  <2> QED
    BY <2>1, <2>2, <2>3 DEF WordOnItsWay
<1>2. CASE AddPoint(c)
  <2>1. io[c].bus = b /\ asked[c] = io[c].shown
    BY <1>0, <1>2 DEF AddPoint, PageOK, WordOnItsWay
  <2>2. io'[c].pc = "vis" /\ io'[c].attached /\ io'[c].bus = b /\ io'[c].shown = io[c].shown
    BY <1>2, <2>1 DEF AddPoint, Frame
  <2> QED
    BY <2>1, <2>2 DEF WordOnItsWay
<1>3. CASE SetVisible(c)
  <2>1. io[c].bus = b /\ io[c].attached /\ asked[c] = io[c].shown /\ live[b] # None
    BY <1>3 DEF SetVisible, WordOnItsWay, FrameOK
  <2>2. live'[b].visible = io[c].shown
    BY <1>3, <2>1 DEF SetVisible, LiveBus
  <2>3. io'[c].pc = "idle"
    BY <1>3, IdleFrameIsFrame DEF SetVisible
  <2> QED
    BY <2>1, <2>2, <2>3 DEF WordOnItsWay
<1>4. CASE WriteOccupancy(c)
  <2>1. live'[b].visible = live[b].visible /\ asked[c] = live[b].visible
    <3>1. asked[c] = live[b].visible
      BY <1>4 DEF WriteOccupancy, WordOnItsWay
    <3>2. live' = live \/ live'= [live EXCEPT ![io[c].bus].occupancy = io[c].level]
      BY <1>4 DEF WriteOccupancy
    <3>3. live[b] # None
      BY <1>4 DEF WriteOccupancy, TracksBus, Registering, OwnBus
    <3> QED
      BY <3>1, <3>2, <3>3 DEF LiveBus
  <2>2. io'[c].pc = "idle"
    BY <1>4, IdleFrameIsFrame DEF WriteOccupancy
  <2> QED
    BY <2>1, <2>2 DEF WordOnItsWay
<1>5. CASE WriteVisibility(c)
  <2>1. live[b] # None /\ live[b].driver = io[c].driver /\ asked[c] = io[c].shown
    BY <1>5 DEF WriteVisibility, TracksBus, Registering, OwnBus, WordOnItsWay
  <2>2. live'[b].visible = io[c].shown
    BY <1>5, <2>1 DEF WriteVisibility, LiveBus
  <2>3. io'[c].pc = "idle"
    BY <1>5, IdleFrameIsFrame DEF WriteVisibility
  <2> QED
    BY <2>1, <2>2, <2>3 DEF WordOnItsWay
<1> QED
  BY <1>1, <1>2, <1>3, <1>4, <1>5 DEF ServeFrame

\* What is no frame of a driver leaves every frame at its place.
LEMMA FramesStay ==
    ASSUME TypeInv, NEW c \in Conn,
           \/ SweepStep \/ AlertStep
           \/ \E d \in Conn : RiderFrame(d) \/ Touch(d) \/ Removal(d) \/ Passage(d)
    PROVE  io'[c].pc = io[c].pc
<1>1. CASE (\E d \in Conn : RetireBus(d)) \/ EvictBus
  BY <1>1, DetachIsTyped DEF RetireBus, EvictBus, TypeInv, CoreOK
<1>2. CASE ~ ((\E d \in Conn : RetireBus(d)) \/ EvictBus)
  <2>1. io' = io
    BY <1>2, AlertIdentity
    DEF RiderFrame, RegisterUser, TrackBus, SubscribeRoute, Touch, Passage,
        GoStale, CoolDown, Removal, RemoveSession, SweepStep, StartSweep, CheckStale,
        EvictSession, EndSweep
  <2> QED
    BY <2>1
<1> QED
  BY <1>1, <1>2

\* Only a registration takes a frame of c to "reg".
LEMMA RegBegins ==
    ASSUME TypeInv, Next, NEW c \in Conn, io'[c].pc = "reg"
    PROVE  Idle(c) \/ io[c].pc = "reg"
<1> USE IdleFrameIsFrame DEF TypeInv, CoreOK
<1>1. ASSUME NEW d \in Conn, DriverFrame(d) PROVE Idle(c) \/ io[c].pc = "reg"
  <2>1. Idle(d) /\ \E f : io' = [io EXCEPT ![d] = f]
    BY <1>1 DEF DriverFrame, RegisterDriver, BeginLocation, BeginVisibility, BeginOccupancy
  <2> QED
    BY <2>1
<1>2. ASSUME NEW d \in Conn, ServeFrame(d) PROVE io[c].pc = "reg"
  <2>1. CASE PutBus(d)
    BY <2>1, DetachIsTyped DEF PutBus
  <2>2. CASE ~ PutBus(d)
    BY <1>2, <2>2 DEF ServeFrame, AddPoint, SetVisible, WriteOccupancy, WriteVisibility, Frame
  <2> QED
    BY <2>1, <2>2
<1> QED
  BY <1>1, <1>2, FramesStay DEF Next

\* A frame that is not one of a driver's begins nothing; of a driver's, only
\* driver-occupancy brings no word.
LEMMA OnlyFramesBegin ==
    ASSUME TypeInv, Next, NEW c \in Conn, Idle(c),
           ~ \/ \E t \in Token : RegisterDriver(c, t)
             \/ \E shown \in BOOLEAN : BeginLocation(c, shown) \/ BeginVisibility(c, shown)
    PROVE  io'[c].pc \in {"idle", "occ"}
<1> USE IdleFrameIsFrame DEF TypeInv, CoreOK
<1>1. ASSUME NEW d \in Conn, DriverFrame(d) PROVE io'[c].pc \in {"idle", "occ"}
  <2>1. CASE d # c
    <3>1. \E f : io' = [io EXCEPT ![d] = f]
      BY <1>1 DEF DriverFrame, RegisterDriver, BeginLocation, BeginVisibility, BeginOccupancy
    <3> QED
      BY <2>1, <3>1 DEF Idle
  <2>2. CASE d = c
    BY <1>1, <2>2 DEF DriverFrame, BeginOccupancy, Serving
  <2> QED
    BY <2>1, <2>2
<1>2. ASSUME NEW d \in Conn, ServeFrame(d) PROVE io'[c].pc \in {"idle", "occ"}
  <2>1. d # c
    BY <1>2 DEF ServeFrame, PutBus, AddPoint, SetVisible, WriteOccupancy, WriteVisibility, Idle
  <2>2. io'[c].pc = io[c].pc
    <3>1. CASE PutBus(d)
      BY <2>1, <3>1, DetachIsTyped DEF PutBus
    <3>2. CASE ~ PutBus(d)
      BY <1>2, <2>1, <3>2 DEF ServeFrame, AddPoint, SetVisible, WriteOccupancy, WriteVisibility
    <3> QED
      BY <3>1, <3>2
  <2> QED
    BY <2>2 DEF Idle
<1> QED
  BY <1>1, <1>2, FramesStay DEF Next, Idle

\* A word is known only of a driver that is alone.
LEMMA AskedIsAlone ==
    ASSUME NEW c \in Conn, Observe, asked'[c] # None
    PROVE  asked'[c] = Asks(c) /\ IsDriver(c)' /\ Alone(c)'
<1>1. asked'[c] = Asks(c)
  BY DEF Observe
<1>2. ~ IsDriver(c)' \/ ~ Alone(c)' => Asks(c) = None
  BY DEF Asks
<1> QED
  BY <1>1, <1>2

\* Whoever's word is known is a driver alone on its bus, and one registering
\* has asked to be shown.
LEMMA AloneStep ==
    ASSUME TypeInv, TypeInv', WordInv, HNext, NEW c \in Conn, asked'[c] # None
    PROVE  IsDriver(c)' /\ Alone(c)' /\ (io'[c].pc = "reg" => asked'[c] = TRUE)
<1>1. asked'[c] = Asks(c) /\ IsDriver(c)' /\ Alone(c)'
  BY AskedIsAlone DEF HNext
<1>3. ASSUME io'[c].pc = "reg" PROVE asked'[c] = TRUE
  <2>1. CASE Idle(c)
    BY <1>1, <1>3, <2>1 DEF Asks
  <2>2. CASE ~ Idle(c)
    <3>1. io[c].pc = "reg"
      BY <1>3, <2>2, RegBegins DEF HNext
    <3>2. asked'[c] = asked[c]
      BY <2>2, AskedStays DEF HNext
    <3> QED
      BY <3>1, <3>2 DEF WordInv
  <2> QED
    BY <2>1, <2>2
<1> QED
  BY <1>1, <1>3

\* A frame of c that brings a new word begins.
LEMMA NewWord ==
    ASSUME TypeInv, PageOK, NEW c \in Conn, NEW b \in Bus, Observe, asked'[c] # None,
           \/ \E t \in Token : RegisterDriver(c, t)
           \/ \E shown \in BOOLEAN : BeginLocation(c, shown) \/ BeginVisibility(c, shown)
    PROVE  WordOnItsWay(c, b)'
<1> USE DEF TypeInv, CoreOK
<1>0. asked'[c] = Asks(c) /\ IsDriver(c)' /\ Alone(c)' /\ Idle(c)
  BY AskedIsAlone DEF RegisterDriver, BeginLocation, BeginVisibility
<1>1. CASE \E t \in Token : RegisterDriver(c, t)
  BY <1>1 DEF RegisterDriver, Serving, WordOnItsWay
<1>2. ASSUME NEW shown \in BOOLEAN, BeginLocation(c, shown) PROVE WordOnItsWay(c, b)'
  <2>1. io'[c].pc = "loc"
    BY <1>2 DEF BeginLocation, Serving
  <2>2. asked'[c] = io'[c].shown
    BY <1>0, <2>1 DEF Asks
  <2> QED
    BY <2>1, <2>2 DEF WordOnItsWay
<1>3. ASSUME NEW shown \in BOOLEAN, BeginVisibility(c, shown) PROVE WordOnItsWay(c, b)'
  <2>1. io'[c].pc = "hide" /\ io'[c].driver = DriverOf[Page[c]]
    BY <1>3 DEF BeginVisibility, Serving, PageOK
  <2>2. asked'[c] = io'[c].shown
    BY <1>0, <2>1 DEF Asks
  <2> QED
    BY <2>1, <2>2 DEF WordOnItsWay
<1> QED
  BY <1>1, <1>2, <1>3

\* The word of the driver that has b to itself stays on its way.
LEMMA WordStep ==
    ASSUME TypeInv, TypeInv', PageOK, PageOK', TrackInv, TrackInv', WordInv, HNext,
           NEW c \in Conn, NEW b \in Bus, ~ contested'[b], DriverOn(c, b)', asked'[c] # None
    PROVE  WordOnItsWay(c, b)'
<1>0. Observe /\ Next
  BY DEF HNext
<1>1. CASE \/ \E t \in Token : RegisterDriver(c, t)
           \/ \E shown \in BOOLEAN : BeginLocation(c, shown) \/ BeginVisibility(c, shown)
  BY <1>0, <1>1, NewWord
<1>2. CASE ~ \/ \E t \in Token : RegisterDriver(c, t)
             \/ \E shown \in BOOLEAN : BeginLocation(c, shown) \/ BeginVisibility(c, shown)
  <2>1. Idle(c) => io'[c].pc \in {"idle", "occ"}
    BY <1>0, <1>2, OnlyFramesBegin
  <2>2. asked'[c] = asked[c]
    BY <1>0, <2>1, AskedStays
  <2>3. IsDriver(c) /\ Alone(c) /\ (io[c].pc = "reg" => asked[c] = TRUE)
    BY <2>2 DEF WordInv
  <2>4. DriverOn(c, b)
    BY <2>3 DEF PageOK, DriverOn
  <2>5. CASE contested[b]
    <3>1. PICK e \in Conn : CleanRegistration(e, b)
      BY <1>0, <2>5 DEF Observe
    <3>2. e = c /\ io[c].pc = "reg" /\ io[c].bus = b /\ PutBus(c)
      BY <1>0, <2>4, <3>1, CleanIsPut DEF CleanRegistration
    <3>3. live'[b].visible = TRUE /\ io'[c].pc = "idle"
      BY <3>1, <3>2 DEF PutBus, NewBus, CleanRegistration, TypeInv, CoreOK
    <3> QED
      BY <2>2, <2>3, <3>2, <3>3 DEF WordOnItsWay
  <2>6. CASE ~ contested[b]
    <3>1. WordOnItsWay(c, b) /\ HeldBus(b) /\ TracksBus(b) /\ ~ Contest(b)
      BY <2>2, <2>4, <2>6 DEF WordInv, TrackInv
    <3>2. OwnBus(c, b)
      <4>1. ~ Retiring(b)
        BY <2>4, <3>1 DEF Contest
      <4>2. \A d \in Conn : DriverOn(d, b) => d = c
        BY <2>3, <2>4 DEF Alone, DriverOn, IsDriver
      <4> QED
        BY <2>3, <2>4, <3>1, <4>1, <4>2 DEF OwnBus, HeldBus
    <3>3. CASE SweepStep
      BY <2>2, <3>1, <3>2, <3>3, SweepStandsAside, AsideKeeps
    <3>9. CASE AlertStep
      <4>1. Aside(c, b)
        BY <3>9, AlertIdentity DEF Aside
      <4> QED
        BY <2>2, <3>1, <4>1, AsideKeeps
    <3>4. ASSUME NEW d \in Conn, d # c,
                 \/ DriverFrame(d) \/ RiderFrame(d) \/ Touch(d) \/ ServeFrame(d)
                 \/ Removal(d) \/ Passage(d)
          PROVE  WordOnItsWay(c, b)'
      BY <2>2, <3>1, <3>2, <3>4, OthersStandAside, AsideKeeps
    <3>5. CASE ServeFrame(c)
      BY <2>2, <2>3, <3>1, <3>2, <3>5, OwnFrameKeeps
    <3>6. CASE \E level \in Level : BeginOccupancy(c, level)
      BY <2>2, <3>1, <3>6 DEF BeginOccupancy, Serving, Idle, WordOnItsWay, TypeInv, CoreOK
    <3>7. CASE RiderFrame(c) \/ Touch(c) \/ Passage(c) \/ RemoveSession(c)
      <4>1. Aside(c, b)
        BY <3>7
        DEF RiderFrame, RegisterUser, TrackBus, SubscribeRoute, Touch, Passage,
            GoStale, CoolDown, RemoveSession, Aside
      <4> QED
        BY <2>2, <3>1, <4>1, AsideKeeps
    <3>8. CASE RetireBus(c)
      <4>1. rem[c] # b
        BY <3>2, <3>8 DEF OwnBus, Retiring, RetireBus
      <4>2. Aside(c, b)
        BY <3>1, <3>8, <4>1, DetachSpares DEF RetireBus, Aside, WordOnItsWay, TypeInv, CoreOK
      <4> QED
        BY <2>2, <3>1, <4>2, AsideKeeps
    <3> QED
      BY <1>0, <1>2, <3>3, <3>4, <3>5, <3>6, <3>7, <3>8, <3>9 DEF Next, DriverFrame, Removal
  <2> QED
    BY <2>5, <2>6
<1> QED
  BY <1>1, <1>2

\* What is proved of every step: the parts of the invariant, one by one.
LEMMA WordInvStep ==
    ASSUME TypeInv, PageOK, TrackInv, WordInv, contested \in [Bus -> BOOLEAN],
           TypeInv', PageOK', TrackInv', [HNext]_hvars
    PROVE  WordInv'
<1>1. CASE HNext
  <2>1. ASSUME NEW c \in Conn, asked'[c] # None
        PROVE  IsDriver(c)' /\ Alone(c)' /\ (io'[c].pc = "reg" => asked'[c] = TRUE)
    BY <1>1, <2>1, AloneStep
  <2>2. ASSUME NEW b \in Bus, ~ contested'[b] PROVE HeldBus(b)'
    <3>1. ~ Contest(b)'
      BY <2>2 DEF TrackInv
    <3>2. CASE contested[b]
      <4>1. PICK c \in Conn : CleanRegistration(c, b)
        BY <1>1, <2>2, <3>2 DEF HNext, Observe
      <4>2. PutBus(c)
        BY <1>1, <4>1, CleanIsPut DEF HNext
      <4>3. io[c].bus = b /\ io[c].driver = DriverOf[Page[c]]
        BY <4>1, <4>2 DEF CleanRegistration, PutBus, PageOK
      <4>4. live'[b].driver = DriverOf[Page[c]]
        BY <4>2, <4>3 DEF PutBus, NewBus, TypeInv, CoreOK
      <4>5. DriverOn(c, b)'
        BY <4>1, <4>2 DEF CleanRegistration, PutBus, DriverOn, IsDriver, Registered
      <4> QED
        BY <4>4, <4>5 DEF HeldBus
    <3>3. CASE ~ contested[b]
      <4>1. TracksBus(b) /\ ~ Contest(b) /\ HeldBus(b)
        BY <3>3 DEF TrackInv, WordInv
      <4> QED
        BY <1>1, <3>1, <4>1, HeldStep DEF HNext
    <3> QED
      BY <3>2, <3>3
  <2>3. ASSUME NEW b \in Bus, ~ contested'[b], NEW c \in Conn, DriverOn(c, b)', asked'[c] # None
        PROVE  WordOnItsWay(c, b)'
    BY <1>1, <2>3, WordStep
  <2> QED
    BY <2>1, <2>2, <2>3 DEF WordInv
<1>2. CASE UNCHANGED hvars
  BY <1>2
  DEF hvars, WordInv, HeldBus, WordOnItsWay, Alone, Idle, Retiring, SweepRetires, DriverOn,
      IsDriver, Registered
<1> QED
  BY <1>1, <1>2

VisibilityInv ==
    /\ TypeInv /\ PageOK /\ TrackInv /\ WordInv
    /\ contested \in [Bus -> BOOLEAN]

LEMMA VisibilityInit == HInit => VisibilityInv
<1> SUFFICES ASSUME HInit PROVE VisibilityInv
  OBVIOUS
<1>1. TypeInv /\ PageOK /\ TrackInv
  BY TrackInit, TypeInit DEF HInit
<1>2. WordInv
  BY DEF HInit, Init, WordInv, HeldBus
<1> QED
  BY <1>1, <1>2 DEF HInit, VisibilityInv

LEMMA VisibilityStep == VisibilityInv /\ [HNext]_hvars => VisibilityInv'
<1> SUFFICES ASSUME VisibilityInv, [HNext]_hvars PROVE VisibilityInv'
  OBVIOUS
<1>1. [Next]_vars
  BY DEF HNext, hvars, vars
<1>2. TypeInv' /\ PageOK' /\ contested' \in [Bus -> BOOLEAN] /\ TrackInv'
  BY <1>1, TypeStep, PageStep, TrackInvStep DEF VisibilityInv
<1> QED
  BY <1>2, WordInvStep DEF VisibilityInv

LEMMA WordIsPublished == VisibilityInv => LastWordOnVisibility
<1> SUFFICES ASSUME VisibilityInv, NEW b \in Bus, NEW c \in Conn, ~ contested[b],
                    DriverOn(c, b), Idle(c), asked[c] # None
             PROVE  live[b].visible = asked[c]
  BY DEF LastWordOnVisibility
<1> QED
  BY DEF VisibilityInv, WordInv, WordOnItsWay, Idle

\* Whatever the interleaving of registrations, pings, toggles, removals and
\* the sweep: on a bus no removal met another user of, and whose driver is the
\* only one near it, the published flag is what that driver last asked for.
THEOREM LastWordStands == HSpec => []LastWordOnVisibility
BY VisibilityInit, VisibilityStep, WordIsPublished, PTL DEF HSpec

-----------------------------------------------------------------------------
(* The alerts.                                                             *)

\* A bus that stays hushed holds the state the loop got for it, and no answer of
\* the loop about it is yes.
QuietInv ==
    /\ quiet \subseteq Bus
    /\ \A b \in quiet : Hushed(b)
    /\ alerts.bus \in quiet /\ alerts.pc = "got" => alerts.attached
    /\ alerts.bus \in quiet => alerts.pc # "seen"
    /\ NoAlertOfHiddenBus

\* The other threads leave the loop its place and its list; the state it got is
\* replaced only by somebody who puts the bus on the map or takes it off.
LEMMA OthersAndAlerts ==
    ASSUME Next, ~ AlertStep
    PROVE  \/ alerts' = alerts
           \/ \E v : alerts' = [alerts EXCEPT !.orphan = v]
           \/ alerts' = [alerts EXCEPT !.attached = FALSE] /\ ~ Settled(alerts.bus)
<1>1. ASSUME NEW e, alerts' = Unmapped(e), ~ Settled(e)
      PROVE  alerts' = alerts \/ (alerts' = [alerts EXCEPT !.attached = FALSE] /\ ~ Settled(alerts.bus))
  BY <1>1 DEF Unmapped
<1>2. CASE \/ \E c \in Conn : PutBus(c) \/ RetireBus(c)
           \/ EvictBus
  <2>1. PICK e : alerts' = Unmapped(e) /\ ~ Settled(e)
    BY <1>2 DEF PutBus, RetireBus, EvictBus, Settled, Retiring, SweepRetires, Arriving
  <2> QED
    BY <1>1, <2>1
<1>3. CASE \/ EvictSession \/ \E c \in Conn : RegisterUser(c) \/ RemoveSession(c)
  BY <1>3 DEF EvictSession, RegisterUser, RemoveSession, Orphaned
<1> QED
  BY <1>2, <1>3
  DEF Next, DriverFrame, ServeFrame, RegisterDriver, BeginLocation, BeginOccupancy,
      BeginVisibility, AddPoint, SetVisible, WriteOccupancy, WriteVisibility, RiderFrame,
      TrackBus, SubscribeRoute, Touch, Removal, Passage, GoStale, CoolDown, SweepStep,
      StartSweep, CheckStale, EndSweep

\* isVisible answers no for a hushed bus.
LEMMA HushedIsHidden ==
    ASSUME VisibilityInv, NEW b \in Bus, Hushed(b)
    PROVE  ~ live[b].visible
<1>1. PICK c \in Conn : DriverOn(c, b) /\ Idle(c) /\ asked[c] = FALSE
  BY DEF Hushed
<1>2. asked[c] # None
  BY <1>1, NoneAssumption
<1>3. live[b].visible = asked[c]
  BY <1>1, <1>2, WordIsPublished DEF Hushed, LastWordOnVisibility
<1> QED
  BY <1>1, <1>3

LEMMA QuietStep ==
    ASSUME VisibilityInv, QuietInv, [HNext]_hvars
    PROVE  QuietInv'
<1> USE NoneAssumption
<1>0. TypeInv /\ alerts \in Alerts
  BY DEF VisibilityInv, TypeInv, AlertOK
<1>1. CASE UNCHANGED hvars
  BY <1>1
  DEF hvars, QuietInv, NoAlertOfHiddenBus, Hushed, Settled, Retiring, SweepRetires, Arriving,
      DriverOn, IsDriver, Registered, Idle
<1>2. CASE HNext
  <2>1. /\ quiet' \subseteq Bus /\ \A b \in quiet' : Hushed(b)'
        /\ alerts.pc # "idle" => quiet' \subseteq quiet
    BY <1>2 DEF HNext, Observe, QuietInv
  <2> DEFINE Answers ==
               /\ alerts'.bus \in quiet' /\ alerts'.pc = "got" => alerts'.attached
               /\ alerts'.bus \in quiet' => alerts'.pc # "seen"
               /\ \A a \in alerts'.due : a.near \notin quiet'
  <2> SUFFICES Answers
    BY <2>1 DEF QuietInv, NoAlertOfHiddenBus
  <2>2. CASE ~ AlertStep
    <3>1. /\ alerts'.pc = alerts.pc /\ alerts'.bus = alerts.bus /\ alerts'.due = alerts.due
          /\ alerts.bus \in quiet => alerts'.attached = alerts.attached
      <4>1. CASE \E v : alerts' = [alerts EXCEPT !.orphan = v]
        BY <1>0, <4>1 DEF Alerts
      <4>2. CASE alerts' = [alerts EXCEPT !.attached = FALSE] /\ ~ Settled(alerts.bus)
        BY <1>0, <4>2 DEF Alerts, QuietInv, Hushed
      <4>3. \/ alerts' = alerts
            \/ \E v : alerts' = [alerts EXCEPT !.orphan = v]
            \/ alerts' = [alerts EXCEPT !.attached = FALSE] /\ ~ Settled(alerts.bus)
        BY <1>2, <2>2, OthersAndAlerts DEF HNext
      <4> QED
        BY <4>1, <4>2, <4>3
    <3>2. CASE alerts.pc = "idle"
      BY <1>0, <3>1, <3>2 DEF TypeInv, AlertOK
    <3>3. CASE alerts.pc # "idle"
      BY <2>1, <3>1, <3>3 DEF QuietInv, NoAlertOfHiddenBus
    <3> QED
      BY <3>2, <3>3
  <2>3. CASE StartAlerts \/ EndAlerts
    <3>1. CASE StartAlerts
      <4>1. alerts'.pc = "scan" /\ alerts'.due = {}
        BY <3>1 DEF StartAlerts, IdleAlerts
      <4> QED
        BY <4>1
    <3>2. CASE EndAlerts
      <4>1. alerts'.pc = "idle" /\ alerts'.due = {}
        BY <3>2 DEF EndAlerts, IdleAlerts
      <4> QED
        BY <4>1
    <3> QED
      BY <2>3, <3>1, <3>2
  <2>4. ASSUME NEW c \in Conn, VisitRider(c) PROVE Answers
    <3> DEFINE rest == [alerts EXCEPT !.todo = @ \ {c}]
               got == [rest EXCEPT !.pc = "got", !.rider = c, !.bus = sessions[c].tracking,
                                   !.attached = TRUE]
    <3>1. alerts.pc = "scan" /\ (alerts' = rest \/ alerts' = got)
      BY <2>4 DEF VisitRider
    <3>2. /\ rest.pc = alerts.pc /\ rest.due = alerts.due
          /\ got.pc = "got" /\ got.attached /\ got.due = alerts.due
      BY <1>0 DEF Alerts
    <3> QED
      BY <2>1, <3>1, <3>2 DEF QuietInv, NoAlertOfHiddenBus
  <2>5. CASE alerts.pc # "idle" /\ alerts' = NextRider
    BY <1>0, <2>1, <2>5, NextRiderOK DEF QuietInv, NoAlertOfHiddenBus
  <2>6. CASE CheckVisible /\ alerts' = [alerts EXCEPT !.pc = "seen"]
    <3>1. alerts.pc = "got" /\ (alerts.attached => live[alerts.bus].visible)
      <4>1. NextRider.pc # "seen"
        BY <1>0, NextRiderOK
      <4>2. alerts'.pc = "seen"
        BY <1>0, <2>6 DEF Alerts
      <4> QED
        BY <2>6, <4>1, <4>2 DEF CheckVisible
    <3>2. alerts.bus \notin quiet
      BY <3>1, HushedIsHidden DEF QuietInv
    <3>3. alerts'.pc = "seen" /\ alerts'.bus = alerts.bus /\ alerts'.due = alerts.due
      BY <1>0, <2>6 DEF Alerts
    <3> QED
      BY <2>1, <3>1, <3>2, <3>3 DEF QuietInv, NoAlertOfHiddenBus
  <2>7. CASE RaiseAlert
    <3> DEFINE names == IF alerts.orphan = None THEN sessions[alerts.rider].tracking
                                               ELSE alerts.orphan
               a == [rider |-> alerts.rider, near |-> alerts.bus, names |-> names]
    <3>1. a.near = alerts.bus /\ alerts' = [NextRider EXCEPT !.due = @ \union {a}]
      BY <2>7 DEF RaiseAlert
    <3>2. alerts'.pc = "scan" /\ alerts'.due = alerts.due \union {a}
      BY <1>0, <3>1, NextRiderOK DEF Alerts
    <3>3. alerts.bus \notin quiet /\ alerts.pc # "idle"
      BY <2>7 DEF RaiseAlert, QuietInv
    <3> QED
      BY <2>1, <3>1, <3>2, <3>3 DEF QuietInv, NoAlertOfHiddenBus
  <2> QED
    BY <2>2, <2>3, <2>4, <2>5, <2>6, <2>7 DEF AlertStep, CheckVisible, TooFar
<1> QED
  BY <1>1, <1>2

\* And therefore nobody is alerted of a bus whose driver had hidden it when the
\* loop began and left it so, wherever pings, toggles, registrations, removals
\* and riders come between the loop's reads of the bus, its flag and its point.
THEOREM HiddenBusIsNotAlerted == HSpec => []NoAlertOfHiddenBus
<1> DEFINE I == VisibilityInv /\ QuietInv
<1>1. HInit => I
  BY VisibilityInit DEF HInit, Init, IdleAlerts, QuietInv, NoAlertOfHiddenBus
<1>2. I /\ [HNext]_hvars => I'
  BY VisibilityStep, QuietStep
<1>3. I => NoAlertOfHiddenBus
  BY DEF QuietInv
<1> QED
  BY <1>1, <1>2, <1>3, PTL DEF HSpec
=============================================================================
