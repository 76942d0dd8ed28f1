-------------------------- MODULE RiderPageProofs ---------------------------
(***************************************************************************)
(* What the rider's page shows is of one choice, and its arrival alert is  *)
(* an ArrivalAlert, for any network, any geometry and any order of         *)
(* messages, timers, callbacks and buttons.                                *)
(*                                                                         *)
(* Nothing here depends on distances: an estimate may be anything, what    *)
(* counts is which bus and which route it is written for.                  *)
(***************************************************************************)
EXTENDS RiderPage, FoldLemmas, TLAPS

Buses == Bus \union {None}
Routes == Route \union {None}

EtaRecord == [bus : Buses, route : Routes, panel : Panels, line : Buses, last : Buses,
              armed : Buses, fired : BOOLEAN]

\* An estimate needs the network and the rider's place; neither is forgotten.
EtaInv ==
    /\ eta \in EtaRecord
    /\ eta.panel = "minutes" => loaded /\ located
    /\ eta.bus # None => eta.route # None

LadderRecord == [route : Routes, bus : Buses, bead : Buses, row : Nat]
LadderInv == ladder \in LadderRecord

RestInv ==
    /\ loaded \in BOOLEAN /\ located \in BOOLEAN
    /\ link \in {"opening", "open", "lost"}
    /\ told \in Routes /\ layers \subseteq Route /\ later \subseteq Route
    /\ asked \in [Route -> Seq(Callback)] /\ calls \in Seq(Callback)
    /\ marker \in [Bus -> Place \union {None}]
    /\ roads \subseteq Route

Shape == EtaInv /\ LadderInv /\ RestInv

Inv == Shape /\ OneChoice /\ EtaIsOfOneBus /\ ChoiceIsHeard

LEMMA NoEtaRecord ==
    /\ NoEta \in EtaRecord /\ NoEta.panel = "hidden" /\ NoEta.fired = FALSE
    /\ NoEta.bus = None /\ NoEta.route = None /\ NoEta.line = None
    /\ NoEta.last = None /\ NoEta.armed = None
BY DEF NoEta, EtaRecord, Buses, Routes, Panels

LEMMA NoLadderRecord ==
    NoLadder \in LadderRecord /\ NoLadder.route = None /\ NoLadder.bus = None
BY DEF NoLadder, LadderRecord, Routes, Buses

-----------------------------------------------------------------------------
(* Estimates.                                                              *)

\* A panel that is about bus b of route r, or about none.
About(e, b, r) ==
    /\ e.last \in {None, b} /\ e.armed \in {None, b}
    /\ e.line = IF e.panel = "minutes" THEN b ELSE None
    /\ e.panel = "minutes" => loaded /\ located
    /\ e \in EtaRecord

\* An alert that is armed may ring, or nothing happens to it.
Rings(e, f, b) ==
    \/ f.armed = e.armed /\ f.fired = e.fired
    \/ e.armed = b /\ f.armed = None /\ f.fired = TRUE

\* A recomputation for bus b and route r leaves a panel about b, and an alert
\* that may only have rung for b.
LEMMA CalculatedIsAbout ==
    ASSUME NEW b \in Bus, NEW r \in Route, NEW at, NEW known, NEW e, About(e, b, r),
           loaded \in BOOLEAN, located \in BOOLEAN, loaded
    PROVE  /\ About(Calculated(e, b, r, at, known), b, r)
           /\ Calculated(e, b, r, at, known).bus = b /\ Calculated(e, b, r, at, known).route = r
           /\ Rings(e, Calculated(e, b, r, at, known), b)
<1> DEFINE on == [e EXCEPT !.bus = b, !.route = r]
           km == Ahead(r, at, known)
           c == Calculated(e, b, r, at, known)
           minutes == [on EXCEPT !.panel = "minutes", !.line = b, !.last = b]
           noplace == [on EXCEPT !.panel = "no-location"]
           passed == [on EXCEPT !.panel = "passed", !.line = None]
           arriving == [on EXCEPT !.panel = "arriving", !.line = None]
           rung == [minutes EXCEPT !.armed = None, !.fired = TRUE]
<1>1. on \in EtaRecord /\ on.bus = b /\ on.route = r /\ on.panel = e.panel /\ on.line = e.line
      /\ on.last = e.last /\ on.armed = e.armed /\ on.fired = e.fired
  BY DEF About, EtaRecord, Buses, Routes
<1>2. \/ ~ located /\ c = noplace
      \/ located /\ c \in {passed, arriving, minutes}
      \/ located /\ minutes.armed = b /\ c = rung
  BY DEF Calculated, Checked
<1> SUFFICES About(c, b, r) /\ c.bus = b /\ c.route = r /\ Rings(e, c, b)
  OBVIOUS
<1> HIDE DEF on, c, km
<1>3. CASE ~ located /\ c = noplace
  <2>1. noplace \in EtaRecord /\ noplace.bus = b /\ noplace.route = r
    BY <1>1 DEF EtaRecord, Buses, Panels
  <2>2. noplace.panel = "no-location" /\ noplace.line = e.line /\ noplace.last = e.last
    BY <1>1 DEF EtaRecord
  <2>3. noplace.armed = e.armed /\ noplace.fired = e.fired
    BY <1>1 DEF EtaRecord
  <2> HIDE DEF noplace, passed, arriving, minutes, rung
  <2> QED
    BY <1>3, <2>1, <2>2, <2>3 DEF About, Rings
<1>4. CASE located /\ c = passed
  <2>1. passed \in EtaRecord /\ passed.bus = b /\ passed.route = r
    BY <1>1 DEF EtaRecord, Buses, Panels
  <2>2. passed.panel = "passed" /\ passed.line = None /\ passed.last = e.last
    BY <1>1 DEF EtaRecord
  <2>3. passed.armed = e.armed /\ passed.fired = e.fired
    BY <1>1 DEF EtaRecord
  <2> HIDE DEF noplace, passed, arriving, minutes, rung
  <2> QED
    BY <1>4, <2>1, <2>2, <2>3 DEF About, Rings
<1>5. CASE located /\ c = arriving
  <2>1. arriving \in EtaRecord /\ arriving.bus = b /\ arriving.route = r
    BY <1>1 DEF EtaRecord, Buses, Panels
  <2>2. arriving.panel = "arriving" /\ arriving.line = None /\ arriving.last = e.last
    BY <1>1 DEF EtaRecord
  <2>3. arriving.armed = e.armed /\ arriving.fired = e.fired
    BY <1>1 DEF EtaRecord
  <2> HIDE DEF noplace, passed, arriving, minutes, rung
  <2> QED
    BY <1>5, <2>1, <2>2, <2>3 DEF About, Rings
<1>6. CASE located /\ c = minutes
  <2>1. minutes \in EtaRecord /\ minutes.bus = b /\ minutes.route = r
    BY <1>1 DEF EtaRecord, Buses, Panels
  <2>2. minutes.panel = "minutes" /\ minutes.line = b /\ minutes.last = b
    BY <1>1 DEF EtaRecord
  <2>3. minutes.armed = e.armed /\ minutes.fired = e.fired
    BY <1>1 DEF EtaRecord
  <2> HIDE DEF noplace, passed, arriving, minutes, rung
  <2> QED
    BY <1>6, <2>1, <2>2, <2>3 DEF About, Rings
<1>7. CASE located /\ minutes.armed = b /\ c = rung
  <2>1. rung \in EtaRecord /\ rung.bus = b /\ rung.route = r
    BY <1>1 DEF EtaRecord, Buses, Panels
  <2>2. rung.panel = "minutes" /\ rung.line = b /\ rung.last = b
    BY <1>1 DEF EtaRecord
  <2>3. rung.armed = None /\ rung.fired = TRUE
    BY <1>1 DEF EtaRecord
  <2>4. e.armed = b
    BY <1>1, <1>7 DEF EtaRecord
  <2> HIDE DEF noplace, passed, arriving, minutes, rung
  <2> QED
    BY <1>7, <2>1, <2>2, <2>3, <2>4 DEF About, Rings
<1> QED
  BY <1>2, <1>3, <1>4, <1>5, <1>6, <1>7

-----------------------------------------------------------------------------
(* What a choice shows.                                                    *)

\* What is asked of the road service is kept by route.
LEMMA AsksStep ==
    ASSUME RestInv, NEW b \in Bus, NEW r \in Route, NEW at \in Place, Asks(b, r, at)
    PROVE  asked' \in [Route -> Seq(Callback)]
<1> DEFINE c == [bus |-> b, route |-> r, at |-> at]
<1>1. c \in Callback
  BY DEF Callback
<1>2. asked[r] \in Seq(Callback)
  BY DEF RestInv
<1>3. Append(asked[r], c) \in Seq(Callback)
  BY <1>1, <1>2
<1>4. asked' = asked \/ asked' = [asked EXCEPT ![r] = Append(asked[r], c)]
  BY DEF Asks
<1> HIDE DEF c
<1> QED
  BY <1>3, <1>4 DEF RestInv

\* The panel of a choice is about its bus, or about none, and no alert is set.
LEMMA TriggeredStep ==
    ASSUME RestInv, NEW b \in Buses, NEW r \in Route, Triggered(b, r),
           UNCHANGED <<loaded, located>>
    PROVE  /\ EtaInv' /\ EtaIsOfOneBus'
           /\ eta'.bus \in {None, b} /\ (eta'.bus # None => eta'.route = r)
           /\ eta'.armed = None /\ eta'.fired = FALSE
           /\ asked' \in [Route -> Seq(Callback)]
<1> USE PageAssumption
<1>1. CASE eta' = NoEta /\ asked' \in [Route -> Seq(Callback)]
  BY <1>1, NoEtaRecord DEF EtaInv, EtaIsOfOneBus
<1>2. CASE b = None
  BY <1>1, <1>2 DEF Triggered, RestInv
<1>3. CASE b # None /\ marker[b] = None
  <2> DEFINE off == [NoEta EXCEPT !.bus = b, !.route = r, !.panel = "offline"]
  <2>1. eta' = off /\ asked' = asked
    BY <1>3 DEF Triggered
  <2>2. off \in EtaRecord /\ off.bus = b /\ off.route = r /\ off.panel = "offline"
    BY NoEtaRecord DEF EtaRecord, Routes, Panels
  <2>3. off.last = None /\ off.line = None /\ off.armed = None /\ off.fired = FALSE
    BY NoEtaRecord DEF EtaRecord
  <2> HIDE DEF off
  <2> QED
    BY <2>1, <2>2, <2>3, NoEtaRecord DEF EtaInv, EtaIsOfOneBus, RestInv
<1>4. CASE b # None /\ marker[b] # None
  <2> DEFINE f == Calculated(NoEta, b, r, marker[b], roads)
  <2>1. b \in Bus /\ marker[b] \in Place
    BY <1>4 DEF Buses, RestInv
  <2>2. eta' = f /\ asked' \in [Route -> Seq(Callback)]
    BY <1>4, <2>1, AsksStep DEF Triggered
  <2>3. CASE ~ loaded
    BY <2>2, <2>3, <1>1 DEF Calculated
  <2>4. CASE loaded
    <3>1. About(NoEta, b, r)
      BY NoEtaRecord DEF About
    <3>2. About(f, b, r) /\ f.bus = b /\ f.route = r /\ Rings(NoEta, f, b)
      BY <2>1, <2>4, <3>1, CalculatedIsAbout DEF RestInv
    <3> HIDE DEF f
    <3> QED
      BY <2>1, <2>2, <3>2, NoEtaRecord DEF EtaInv, EtaIsOfOneBus, About, Rings
  <2> QED
    BY <2>3, <2>4 DEF RestInv
<1> QED
  BY <1>2, <1>3, <1>4

\* The bead is in a row of the diagram, wherever the bus is and whatever the
\* stops' kilometres are: in the first row, or in one before the last.
LEMMA RowOfDiagram ==
    ASSUME NEW km, NEW cum, Len(cum) \in Nat
    PROVE  /\ LadderRow(km, cum) \in Nat
           /\ LadderRow(km, cum) = 1 \/ LadderRow(km, cum) \in 2 .. Len(cum) - 1
<1> DEFINE S == {1} \union {row \in 2 .. Len(cum) - 1 : \A i \in 2 .. row : km > cum[i]}
<1>1. S \in SUBSET Nat /\ S # {} /\ 1 + Len(cum) \in Nat /\ \A x \in S : x <= 1 + Len(cum)
  OBVIOUS
<1>2. Max(S) \in S
  <2> HIDE DEF S
  <2> QED
    BY <1>1, MaxIsGreatest
<1> QED
  BY <1>2 DEF LadderRow

\* A bead is put on a diagram, whose route and bus stay.
LEMMA BeadedKeeps ==
    ASSUME NEW l \in LadderRecord, NEW b \in Bus, NEW at
    PROVE  /\ Beaded(l, b, at) \in LadderRecord
           /\ Beaded(l, b, at).route = l.route /\ Beaded(l, b, at).bus = l.bus
<1> DEFINE row == LadderRow(Km(at, Path[l.route]), StopKm(l.route))
<1>1. ASSUME l.route # None PROVE row \in Nat
  <2>1. Path[l.route] \in Seq(Int)
    BY <1>1, PageAssumption DEF LadderRecord, Routes
  <2>2. Len(Path[l.route]) \in Nat /\ Len(StopKm(l.route)) = Len(Path[l.route])
    BY <2>1 DEF StopKm
  <2> QED
    BY <2>2, RowOfDiagram
<1>2. CASE Beaded(l, b, at) = l
  BY <1>2
<1>3. CASE l.route # None /\ Beaded(l, b, at) = [l EXCEPT !.bead = b, !.row = row]
  <2> HIDE DEF row
  <2> QED
    BY <1>1, <1>3 DEF LadderRecord, Buses
<1> QED
  BY <1>2, <1>3 DEF Beaded

LEMMA ShownLadderIs ==
    ASSUME Shape, NEW r \in Route, NEW b \in Buses
    PROVE  /\ ShownLadder(r, b) \in LadderRecord
           /\ ShownLadder(r, b).route = r /\ ShownLadder(r, b).bus = b
<1> DEFINE l == [NoLadder EXCEPT !.route = r, !.bus = b]
<1>1. l \in LadderRecord /\ l.route = r /\ l.bus = b
  BY NoLadderRecord DEF LadderRecord, Routes
<1>2. \/ ShownLadder(r, b) = l
      \/ b \in Bus /\ ShownLadder(r, b) = Beaded(l, b, marker[b])
  BY DEF ShownLadder, Buses
<1> HIDE DEF l
<1>3. ASSUME b \in Bus
      PROVE  /\ Beaded(l, b, marker[b]) \in LadderRecord
             /\ Beaded(l, b, marker[b]).route = l.route /\ Beaded(l, b, marker[b]).bus = l.bus
  BY <1>1, <1>3, BeadedKeeps
<1> QED
  BY <1>1, <1>2, <1>3

\* Choosing a bus, or a route without one.
LEMMA ChooseStep ==
    ASSUME Inv, NEW b \in Buses, NEW r \in Route, b # None => r = RouteOf[b], Choose(r, b),
           UNCHANGED <<loaded, located, link, marker, calls, roads>>, later' \subseteq Route
    PROVE  Inv' /\ eta'.bus \in Buses /\ eta'.armed = None /\ eta'.fired = FALSE
<1> USE PageAssumption
<1>1. /\ EtaInv' /\ EtaIsOfOneBus'
      /\ eta'.bus \in {None, b} /\ (eta'.bus # None => eta'.route = r)
      /\ eta'.armed = None /\ eta'.fired = FALSE
      /\ asked' \in [Route -> Seq(Callback)]
  BY TriggeredStep DEF Inv, Shape, Choose
<1>2. /\ layers' = IF loaded THEN {r} ELSE {}
      /\ told' = IF link = "open" THEN r ELSE told
  BY DEF Choose, Subscribe
<1>3. LadderInv' /\ (IF loaded THEN ladder'.route = r /\ ladder'.bus = b ELSE ladder'.route = None)
  BY ShownLadderIs, NoLadderRecord DEF Choose, LadderInv, Inv
<1>4. RestInv'
  BY <1>1, <1>2 DEF Inv, Shape, RestInv, Routes
<1>5. OneChoice'
  BY <1>1, <1>2, <1>3 DEF OneChoice
<1>6. ChoiceIsHeard'
  BY <1>1, <1>2 DEF ChoiceIsHeard
<1> QED
  BY <1>1, <1>3, <1>4, <1>5, <1>6 DEF Inv, Shape, Buses

-----------------------------------------------------------------------------
(* What comes later.                                                       *)

AlertStep == [Alert!Next]_(Alert!avars)

\* A recomputation of the panel that is open leaves it about its bus.
LEMMA RecalculatedStep ==
    ASSUME Inv, NEW b \in Bus, eta.bus = b, NEW at, NEW known,
           eta' = Calculated(eta, b, eta.route, at, known), UNCHANGED <<loaded, located>>
    PROVE  /\ EtaInv' /\ EtaIsOfOneBus' /\ AlertStep
           /\ eta'.bus = eta.bus /\ eta'.route = eta.route
<1> USE PageAssumption
<1>1. eta.route \in Route /\ eta \in EtaRecord /\ loaded \in BOOLEAN /\ located \in BOOLEAN
  BY DEF Inv, Shape, EtaInv, RestInv, EtaRecord, Routes
<1>2. CASE ~ loaded
  <2>1. eta' = eta
    BY <1>2 DEF Calculated
  <2> QED
    BY <2>1 DEF Inv, Shape, EtaInv, EtaIsOfOneBus, AlertStep, Alert!avars
<1>3. CASE loaded
  <2> DEFINE f == Calculated(eta, b, eta.route, at, known)
  <2>1. About(eta, b, eta.route)
    BY <1>1 DEF Inv, Shape, EtaInv, EtaIsOfOneBus, About
  <2>2. About(f, b, eta.route) /\ f.bus = b /\ f.route = eta.route /\ Rings(eta, f, b)
    BY <1>1, <1>3, <2>1, CalculatedIsAbout
  <2> HIDE DEF f
  <2>3. EtaInv' /\ EtaIsOfOneBus' /\ eta'.bus = eta.bus /\ eta'.route = eta.route
    BY <1>1, <2>2 DEF EtaInv, EtaIsOfOneBus, About, f
  <2>4. AlertStep
    <3>1. eta' = f
      BY DEF f
    <3> QED
      BY <2>2, <3>1 DEF AlertStep, Alert!avars, Alert!Next, Alert!Ring, Rings
  <2> QED
    BY <2>3, <2>4
<1> QED
  BY <1>1, <1>2, <1>3

\* A step that leaves the panel and what was chosen alone.
LEMMA QuietStep ==
    ASSUME Inv, RestInv', UNCHANGED <<layers, ladder, eta>>,
           loaded => loaded', located => located',
           \/ UNCHANGED <<link, told>> \/ link' # "open" \/ told' = None
    PROVE  Inv' /\ AlertStep
<1>1. EtaInv' /\ LadderInv' /\ OneChoice' /\ EtaIsOfOneBus'
  BY DEF Inv, Shape, EtaInv, LadderInv, OneChoice, EtaIsOfOneBus
<1>2. ChoiceIsHeard'
  BY DEF Inv, ChoiceIsHeard
<1>3. AlertStep
  BY DEF AlertStep, Alert!avars
<1> QED
  BY <1>1, <1>2, <1>3 DEF Inv, Shape

\* The same, but the bead of the diagram may move and the panel be written for
\* the bus it is open for.
LEMMA ShownStep ==
    ASSUME Inv, RestInv', EtaInv', EtaIsOfOneBus', AlertStep,
           UNCHANGED <<link, told, layers>>,
           eta'.bus = eta.bus, eta'.route = eta.route,
           LadderInv', ladder'.route = ladder.route, ladder'.bus = ladder.bus
    PROVE  Inv' /\ AlertStep
<1>1. OneChoice' /\ ChoiceIsHeard'
  BY DEF Inv, OneChoice, ChoiceIsHeard
<1> QED
  BY <1>1 DEF Inv, Shape

LEMMA ChoiceSteps ==
    ASSUME Inv, (\E b \in Bus : ChooseBus(b)) \/ (\E r \in Route : TimerChooses(r))
    PROVE  Inv' /\ AlertStep
<1> USE PageAssumption
<1> DEFINE Fresh == Inv' /\ eta'.bus \in Buses /\ eta'.armed = None /\ eta'.fired = FALSE
<1>1. Fresh
  <2>1. ASSUME NEW b \in Bus, ChooseBus(b) PROVE Fresh
    BY <2>1, ChooseStep DEF ChooseBus, Buses, Inv, Shape, RestInv
  <2>2. ASSUME NEW r \in Route, TimerChooses(r) PROVE Fresh
    BY <2>2, ChooseStep DEF TimerChooses, Buses, Inv, Shape, RestInv
  <2> QED
    BY <2>1, <2>2
<1>2. Alert!Turn(eta'.bus)
  BY <1>1 DEF Alert!Turn
<1> QED
  BY <1>1, <1>2 DEF AlertStep, Alert!Next, Buses

LEMMA ButtonSteps ==
    ASSUME Inv, CloseLadder \/ ClosePanel \/ ToggleAlert \/ \E r \in Route : ChooseLater(r)
    PROVE  Inv' /\ AlertStep
<1> USE PageAssumption
<1>1. CASE CloseLadder
  <2>1. EtaInv' /\ EtaIsOfOneBus' /\ RestInv' /\ AlertStep
    BY <1>1 DEF CloseLadder, Inv, Shape, EtaInv, EtaIsOfOneBus, RestInv, AlertStep, Alert!avars
  <2>2. LadderInv' /\ OneChoice' /\ ChoiceIsHeard'
    BY <1>1, NoLadderRecord DEF CloseLadder, Inv, Shape, LadderInv, OneChoice, ChoiceIsHeard,
                                Routes, Buses
  <2> QED
    BY <2>1, <2>2 DEF Inv, Shape
<1>2. CASE ClosePanel
  <2>1. EtaInv' /\ EtaIsOfOneBus' /\ RestInv' /\ LadderInv'
    BY <1>2, NoEtaRecord DEF ClosePanel, Inv, Shape, EtaInv, EtaIsOfOneBus, RestInv, LadderInv
  <2>2. OneChoice' /\ ChoiceIsHeard'
    BY <1>2, NoEtaRecord DEF ClosePanel, Inv, OneChoice, ChoiceIsHeard
  <2>3. Alert!Turn(None)
    BY <1>2, NoEtaRecord DEF ClosePanel, Alert!Turn
  <2> QED
    BY <2>1, <2>2, <2>3 DEF Inv, Shape, AlertStep, Alert!Next
<1>3. CASE ToggleAlert
  <2> DEFINE cancelled == [eta EXCEPT !.armed = None, !.fired = FALSE]
             set == [eta EXCEPT !.armed = eta.last, !.fired = FALSE]
  <2>1. eta \in EtaRecord /\ eta.last = eta.bus /\ eta.last # None
    BY <1>3 DEF ToggleAlert, Inv, Shape, EtaInv, EtaIsOfOneBus
  <2>2. eta' = IF eta.armed = eta.last THEN cancelled ELSE set
    BY <1>3 DEF ToggleAlert
  <2>3. /\ cancelled \in EtaRecord /\ cancelled.armed = None /\ cancelled.fired = FALSE
        /\ cancelled.bus = eta.bus /\ cancelled.route = eta.route /\ cancelled.panel = eta.panel
        /\ cancelled.line = eta.line /\ cancelled.last = eta.last
    BY <2>1 DEF EtaRecord, Buses
  <2>4. /\ set \in EtaRecord /\ set.armed = eta.last /\ set.fired = FALSE
        /\ set.bus = eta.bus /\ set.route = eta.route /\ set.panel = eta.panel
        /\ set.line = eta.line /\ set.last = eta.last
    BY <2>1 DEF EtaRecord
  <2> HIDE DEF cancelled, set
  <2>5. /\ eta' \in EtaRecord /\ eta'.bus = eta.bus /\ eta'.route = eta.route
        /\ eta'.panel = eta.panel /\ eta'.line = eta.line /\ eta'.last = eta.last
        /\ eta'.fired = FALSE /\ eta'.armed = IF eta.armed = eta.last THEN None ELSE eta.last
    BY <2>2, <2>3, <2>4
  <2>6. EtaInv' /\ EtaIsOfOneBus' /\ RestInv'
    BY <1>3, <2>1, <2>5 DEF ToggleAlert, Inv, Shape, EtaInv, EtaIsOfOneBus, RestInv
  <2>7. AlertStep
    BY <2>1, <2>5 DEF AlertStep, Alert!Next, Alert!Arm, Alert!Cancel
  <2> QED
    BY <1>3, <2>5, <2>6, <2>7, ShownStep DEF ToggleAlert, Inv, Shape, LadderInv
<1>4. ASSUME NEW r \in Route, ChooseLater(r) PROVE Inv' /\ AlertStep
  BY <1>4, QuietStep DEF ChooseLater, page, Inv, Shape, RestInv
<1> QED
  BY <1>1, <1>2, <1>3, <1>4

LEMMA AnswerSteps ==
    ASSUME Inv, RoutesLoad \/ Locate \/ \E r \in Route : RoadComes(r) PROVE Inv' /\ AlertStep
<1>1. CASE RoutesLoad \/ Locate
  BY <1>1, QuietStep DEF RoutesLoad, Locate, page, Inv, Shape, RestInv
<1>2. ASSUME NEW r \in Route, RoadComes(r) PROVE Inv' /\ AlertStep
  <2>1. asked' \in [Route -> Seq(Callback)] /\ calls' \in Seq(Callback)
    BY <1>2 DEF RoadComes, Inv, Shape, RestInv
  <2>2. RestInv'
    BY <1>2, <2>1 DEF RoadComes, Inv, Shape, RestInv
  <2> QED
    BY <1>2, <2>2, QuietStep DEF RoadComes
<1> QED
  BY <1>1, <1>2

\* The panel has moved on, or is written for the bus the callback is of.
LEMMA CallBackStep ==
    ASSUME Inv, CallBack PROVE Inv' /\ AlertStep
<1> DEFINE c == Head(calls)
<1>1. c \in Callback /\ c.bus \in Bus
  <2>1. calls \in Seq(Callback) /\ calls # <<>>
    BY DEF CallBack, Inv, Shape, RestInv
  <2>2. c \in Callback
    BY <2>1
  <2> QED
    BY <2>2 DEF Callback
<1>2. RestInv'
  BY DEF CallBack, Inv, Shape, RestInv
<1>3. EtaInv' /\ EtaIsOfOneBus' /\ AlertStep /\ eta'.bus = eta.bus /\ eta'.route = eta.route
  <2>1. CASE StillActive(c)
    <3>1. eta' = Calculated(eta, c.bus, eta.route, c.at, roads) /\ eta.bus = c.bus
      BY <2>1 DEF CallBack, StillActive
    <3> HIDE DEF c
    <3> QED
      BY <1>1, <3>1, RecalculatedStep DEF CallBack
  <2>2. CASE ~ StillActive(c)
    <3>1. eta' = eta
      BY <2>2 DEF CallBack
    <3> QED
      BY <3>1 DEF CallBack, Inv, Shape, EtaInv, EtaIsOfOneBus, AlertStep, Alert!avars
  <2> QED
    BY <2>1, <2>2
<1> QED
  BY <1>2, <1>3, ShownStep DEF CallBack, Inv, Shape, LadderInv

-----------------------------------------------------------------------------
(* The socket.                                                             *)

\* A bus's report moves the bead, and is written into the panel if it is open
\* for that bus.
LEMMA LocationStep ==
    ASSUME Inv, NEW b \in Bus, NEW at \in Place, LocationUpdate(b, at) PROVE Inv' /\ AlertStep
<1> USE PageAssumption
<1>1. LadderInv' /\ ladder'.route = ladder.route /\ ladder'.bus = ladder.bus
  <2>1. ladder \in LadderRecord /\ ladder' = Beaded(ladder, b, at)
    BY DEF LocationUpdate, Inv, Shape, LadderInv
  <2> QED
    BY <2>1, BeadedKeeps DEF LadderInv
<1>2. marker' \in [Bus -> Place \union {None}]
  BY DEF LocationUpdate, Inv, Shape, RestInv
<1>3. /\ EtaInv' /\ EtaIsOfOneBus' /\ AlertStep /\ eta'.bus = eta.bus /\ eta'.route = eta.route
      /\ asked' \in [Route -> Seq(Callback)]
  <2>1. CASE eta.bus = b
    <3>1. eta.route \in Route
      BY <2>1 DEF Inv, Shape, EtaInv, EtaRecord, Routes
    <3>2. asked' \in [Route -> Seq(Callback)]
      BY <2>1, <3>1, AsksStep DEF LocationUpdate, Inv, Shape
    <3> QED
      BY <2>1, <3>2, RecalculatedStep DEF LocationUpdate
  <2>2. CASE eta.bus # b
    BY <2>2 DEF LocationUpdate, Inv, Shape, EtaInv, EtaIsOfOneBus, RestInv, AlertStep, Alert!avars
  <2> QED
    BY <2>1, <2>2
<1>4. RestInv'
  BY <1>2, <1>3 DEF LocationUpdate, Inv, Shape, RestInv
<1> QED
  BY <1>1, <1>3, <1>4, ShownStep DEF LocationUpdate

LEMMA SocketSteps ==
    ASSUME Inv,
           \/ Open \/ Lose \/ Retry
           \/ \E seen \in [Bus -> Place \union {None}] : ActiveBuses(seen)
           \/ \E b \in Bus : DriverLeft(b)
    PROVE  Inv' /\ AlertStep
<1>1. CASE Open \/ Lose \/ Retry
  BY <1>1, QuietStep DEF Open, Lose, Retry, page, Inv, Shape, RestInv, Routes
<1>2. ASSUME NEW seen \in [Bus -> Place \union {None}], ActiveBuses(seen) PROVE Inv' /\ AlertStep
  <2>1. marker' \in [Bus -> Place \union {None}]
    BY <1>2 DEF ActiveBuses, Inv, Shape, RestInv
  <2> QED
    BY <1>2, <2>1, QuietStep DEF ActiveBuses, page, Inv, Shape, RestInv
<1>3. ASSUME NEW b \in Bus, DriverLeft(b) PROVE Inv' /\ AlertStep
  <2>1. marker' \in [Bus -> Place \union {None}]
    BY <1>3 DEF DriverLeft, Inv, Shape, RestInv
  <2> QED
    BY <1>3, <2>1, QuietStep DEF DriverLeft, page, Inv, Shape, RestInv
<1> QED
  BY <1>1, <1>2, <1>3

-----------------------------------------------------------------------------
(* Every step, and the theorems.                                           *)

LEMMA InvInit == Init => Inv /\ Alert!Init
<1> SUFFICES ASSUME Init PROVE Inv /\ Alert!Init
  OBVIOUS
<1>1. EtaInv /\ EtaIsOfOneBus /\ Alert!Init
  BY NoEtaRecord DEF Init, EtaInv, EtaIsOfOneBus, Alert!Init
<1>2. LadderInv /\ OneChoice /\ ChoiceIsHeard
  BY NoEtaRecord, NoLadderRecord DEF Init, LadderInv, OneChoice, ChoiceIsHeard, Routes, Buses
<1>3. RestInv
  <2>1. <<>> \in Seq(Callback)
    OBVIOUS
  <2>2. asked \in [Route -> Seq(Callback)] /\ calls \in Seq(Callback)
    BY <2>1 DEF Init
  <2>3. marker \in [Bus -> Place \union {None}]
    BY DEF Init
  <2> QED
    BY <2>2, <2>3 DEF Init, RestInv, Routes
<1> QED
  BY <1>1, <1>2, <1>3 DEF Inv, Shape

LEMMA InvStep == Inv /\ [Next]_vars => Inv' /\ AlertStep
<1> SUFFICES ASSUME Inv, [Next]_vars PROVE Inv' /\ AlertStep
  OBVIOUS
<1>1. CASE (\E b \in Bus : ChooseBus(b)) \/ (\E r \in Route : TimerChooses(r))
  BY <1>1, ChoiceSteps
<1>2. CASE CloseLadder \/ ClosePanel \/ ToggleAlert \/ \E r \in Route : ChooseLater(r)
  BY <1>2, ButtonSteps
<1>3. CASE RoutesLoad \/ Locate \/ \E r \in Route : RoadComes(r)
  BY <1>3, AnswerSteps
<1>4. CASE CallBack
  BY <1>4, CallBackStep
<1>5. CASE \/ Open \/ Lose \/ Retry
           \/ \E seen \in [Bus -> Place \union {None}] : ActiveBuses(seen)
           \/ \E b \in Bus : DriverLeft(b)
  BY <1>5, SocketSteps
<1>6. ASSUME NEW b \in Bus, NEW at \in Place, LocationUpdate(b, at) PROVE Inv' /\ AlertStep
  BY <1>6, LocationStep
<1>7. CASE UNCHANGED vars
  BY <1>7, QuietStep DEF vars, Inv, Shape, RestInv
<1> QED
  BY <1>1, <1>2, <1>3, <1>4, <1>5, <1>6, <1>7 DEF Next

LEMMA Invariance == Spec => []Inv
BY InvInit, InvStep, PTL DEF Spec

\* Every reachable state of the page is well typed: estimates, callbacks and
\* the row of the bead, for any geometry.
THEOREM PageTypes == Spec => []TypeOK
<1>1. Inv => TypeOK
  BY DEF Inv, Shape, EtaInv, EtaRecord, LadderInv, LadderRecord, RestInv, Routes, Buses, TypeOK
<1> QED
  BY <1>1, Invariance, PTL

\* The route on the map, the line diagram and the estimate are of one choice,
\* in whatever order callbacks, timers and messages come after it.
THEOREM OneChoiceAlways == Spec => []OneChoice
BY Invariance, PTL DEF Inv

\* The highlighted way, the shared estimate and the alert are of the bus the
\* panel is open for, and gone when it is.
THEOREM EtaIsOfOneBusAlways == Spec => []EtaIsOfOneBus
BY Invariance, PTL DEF Inv

\* A choice made while the socket is down, or lost with it, never leaves the
\* server filtering away what is shown.
THEOREM ChoiceIsHeardAlways == Spec => []ChoiceIsHeard
BY Invariance, PTL DEF Inv

\* The page implements the alert it promises: armed for the bus of the panel
\* alone, rung at most once, not outliving the panel.
THEOREM PageImplementsAlert == Spec => AlertSpec
<1>1. Init => Alert!Init
  BY InvInit
<1>2. Inv /\ [Next]_vars => [Alert!Next]_(Alert!avars)
  BY InvStep DEF AlertStep
<1> QED
  BY <1>1, <1>2, Invariance, PTL DEF Spec, AlertSpec, Alert!Spec
=============================================================================
