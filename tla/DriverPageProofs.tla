-------------------------- MODULE DriverPageProofs --------------------------
(***************************************************************************)
(* The invariants of DriverPage, for any number of drivers, accounts,      *)
(* levels of crowding, messages under way and lost sockets.                *)
(*                                                                         *)
(* Two need an argument.  A live bus is held by a session: that of the     *)
(* page's own socket, which is then the one that put it there, or that of  *)
(* a lost socket.  And while messages are under way, the last of them that *)
(* says whether the bus is to be seen says what the toggle shows; when     *)
(* none of them does, and no lost socket has a session, the bus at the     *)
(* server is as the toggle shows, if it can be seen at all.                *)
(***************************************************************************)
EXTENDS DriverPage, TLAPS, SequenceTheorems

Says(m) == m.type \in {"driver-location", "driver-visibility"}

LastWord(q, t) ==
    \A i \in 1 .. Len(q) :
        Says(q[i]) /\ (\A j \in i + 1 .. Len(q) : ~ Says(q[j])) => q[i].visible = t

Silent(q) == \A i \in 1 .. Len(q) : ~ Says(q[i])

Registers(q) == \E i \in 1 .. Len(q) : q[i].type = "driver-register"

\* Nothing is under way on a socket that is not open, and it has no session.
ClosedInv == link # "open" => up = <<>> /\ down = <<>> /\ session = "none"

\* A session is, and will be, somebody's.
RegisteredInv == user = None => session # "registered" /\ ~ Registers(up)

\* A live bus is held by the page's session, or by that of a lost socket.
HeldInv ==
    bus.live => (session = "registered" /\ bus.by = user) \/ ~ Alone

WordInv ==
    link = "open" =>
      /\ LastWord(up, toggle)
      /\ Silent(up) /\ Alone => (bus.live /\ bus.placed => bus.visible = toggle)

\* A login is by nobody yet; who has logged out is gone until the page is loaded
\* anew, and before a login there is no socket and nobody else is shown.
UserInv ==
    /\ leaving => user = None
    /\ login => user = None /\ ~ leaving
    /\ user = None /\ ~ leaving => link = "none" /\ ~ others /\ marks = {} /\ listed = {}

Inv ==
    /\ TypeOK /\ ClosedInv /\ RegisteredInv /\ HeldInv /\ WordInv /\ UserInv
    /\ HiddenOthersStayHidden

-----------------------------------------------------------------------------
(* Records.                                                                *)

LEMMA BusRecords ==
    /\ NoBus \in Bus /\ ~ NoBus.live
    /\ \A d \in Drivers : Fresh(d) \in Bus /\ ~ Fresh(d).placed /\ Fresh(d).live /\ Fresh(d).by = d
BY DEF NoBus, Fresh, Bus, Levels, Drivers

LEMMA Messages ==
    /\ [type |-> "driver-register"] \in Upward /\ ~ Says([type |-> "driver-register"])
    /\ [type |-> "get-other-drivers"] \in Upward /\ ~ Says([type |-> "get-other-drivers"])
    /\ \A v \in BOOLEAN : /\ [type |-> "driver-location", visible |-> v] \in Upward
                          /\ [type |-> "driver-visibility", visible |-> v] \in Upward
    /\ \A l \in Level : [type |-> "driver-occupancy", level |-> l] \in Upward
    /\ \A l \in Level : ~ Says([type |-> "driver-occupancy", level |-> l])
BY DEF Upward, Says

LEMMA MessageFields ==
    ASSUME NEW m \in Upward
    PROVE  /\ Says(m) => m.visible \in BOOLEAN
           /\ m.type = "driver-occupancy" => m.level \in Level
BY DEF Upward, Says

LEMMA EmptyQueues == <<>> \in Seq(Upward) /\ <<>> \in Seq(Downward)
OBVIOUS

\* A frame that is served leaves a bus, and takes none off the map.  One that
\* says whether the bus is to be seen decides it, of the driver's own bus.
LEMMA ServedBus ==
    ASSUME NEW m \in Upward, NEW d \in Drivers, NEW b \in Bus
    PROVE  /\ Served(m, d, b) \in Bus
           /\ ~ Says(m) => LET c == Served(m, d, b)
                           IN c.live = b.live /\ c.placed = b.placed /\ c.visible = b.visible
           /\ Says(m) /\ (b.live => b.by = d) =>
                LET c == Served(m, d, b) IN c.live => c.visible = m.visible
           /\ Served(m, d, b).live => Served(m, d, b).by = (IF b.live THEN b.by ELSE d)
<1>1. /\ \/ m.type = "driver-location" /\ m.visible \in BOOLEAN /\ Says(m)
         \/ m.type = "driver-visibility" /\ m.visible \in BOOLEAN /\ Says(m)
         \/ m.type = "driver-occupancy" /\ m.level \in Level /\ ~ Says(m)
         \/ m.type \in {"driver-register", "get-other-drivers"} /\ ~ Says(m)
  BY MessageFields DEF Upward, Says
<1>2. Fresh(d) \in Bus /\ Fresh(d).live /\ Fresh(d).by = d
  BY BusRecords
<1>3. CASE m.type = "driver-location" /\ m.visible \in BOOLEAN /\ Says(m)
  <2> DEFINE e == IF b.live THEN b ELSE Fresh(d)
  <2>1. e \in Bus /\ e.live /\ e.by = (IF b.live THEN b.by ELSE d)
    BY <1>2
  <2> HIDE DEF e
  <2>2. Served(m, d, b) = [e EXCEPT !.placed = TRUE, !.visible = m.visible]
    BY <1>3 DEF Served, e
  <2>3. /\ [e EXCEPT !.placed = TRUE, !.visible = m.visible] \in Bus
        /\ [e EXCEPT !.placed = TRUE, !.visible = m.visible].live = e.live
        /\ [e EXCEPT !.placed = TRUE, !.visible = m.visible].visible = m.visible
        /\ [e EXCEPT !.placed = TRUE, !.visible = m.visible].by = e.by
    BY <1>3, <2>1 DEF Bus
  <2> QED
    BY <1>3, <2>1, <2>2, <2>3
<1>4. CASE m.type = "driver-visibility" /\ m.visible \in BOOLEAN /\ Says(m)
  <2>1. CASE b.live /\ b.by = d
    <3>1. Served(m, d, b) = [b EXCEPT !.visible = m.visible]
      BY <1>4, <2>1 DEF Served
    <3> QED
      BY <1>4, <2>1, <3>1 DEF Bus
  <2>2. CASE ~ (b.live /\ b.by = d)
    <3>1. Served(m, d, b) = b
      BY <1>4, <2>2 DEF Served
    <3> QED
      BY <1>4, <2>2, <3>1
  <2> QED
    BY <2>1, <2>2
<1>5. CASE m.type = "driver-occupancy" /\ m.level \in Level /\ ~ Says(m)
  <2>1. CASE b.live
    <3>1. Served(m, d, b) = [b EXCEPT !.level = m.level]
      BY <1>5, <2>1 DEF Served
    <3> QED
      BY <1>5, <2>1, <3>1 DEF Bus, Levels
  <2>2. CASE ~ b.live
    <3>1. Served(m, d, b) = b
      BY <1>5, <2>2 DEF Served
    <3> QED
      BY <1>5, <2>2, <3>1
  <2> QED
    BY <2>1, <2>2
<1>6. CASE m.type \in {"driver-register", "get-other-drivers"} /\ ~ Says(m)
  <2>1. Served(m, d, b) = b
    BY <1>6 DEF Served
  <2> QED
    BY <1>6, <2>1
<1> QED
  BY <1>1, <1>3, <1>4, <1>5, <1>6

-----------------------------------------------------------------------------
(* The last word.                                                          *)

\* A message that says nothing of it does not change the last word.
LEMMA AppendOther ==
    ASSUME NEW q \in Seq(Upward), NEW m \in Upward, ~ Says(m), NEW t, LastWord(q, t)
    PROVE  LastWord(Append(q, m), t) /\ (Silent(Append(q, m)) => Silent(q))
<1> DEFINE r == Append(q, m)
<1>1. Len(r) = Len(q) + 1 /\ r[Len(q) + 1] = m /\ \A i \in 1 .. Len(q) : r[i] = q[i]
  OBVIOUS
<1>2. Len(q) \in Nat
  OBVIOUS
<1> HIDE DEF r
<1>3. LastWord(r, t)
  <2> SUFFICES ASSUME NEW i \in 1 .. Len(r), Says(r[i]), \A j \in i + 1 .. Len(r) : ~ Says(r[j])
               PROVE  r[i].visible = t
    BY DEF LastWord
  <2>1. i \in 1 .. Len(q) /\ r[i] = q[i]
    BY <1>1, <1>2
  <2>2. \A j \in i + 1 .. Len(q) : ~ Says(q[j])
    BY <1>1, <1>2, <2>1
  <2> QED
    BY <2>1, <2>2 DEF LastWord
<1>4. Silent(r) => Silent(q)
  BY <1>1, <1>2 DEF Silent
<1> QED
  BY <1>3, <1>4 DEF r

\* One that does is the last word.
LEMMA AppendWord ==
    ASSUME NEW q \in Seq(Upward), NEW m \in Upward, Says(m), NEW t, m.visible = t
    PROVE  LastWord(Append(q, m), t) /\ ~ Silent(Append(q, m))
<1> DEFINE r == Append(q, m)
<1>1. Len(r) = Len(q) + 1 /\ r[Len(q) + 1] = m /\ Len(q) \in Nat
  OBVIOUS
<1> HIDE DEF r
<1>2. LastWord(r, t)
  <2> SUFFICES ASSUME NEW i \in 1 .. Len(r), \A j \in i + 1 .. Len(r) : ~ Says(r[j])
               PROVE  r[i].visible = t
    BY DEF LastWord
  <2>1. i = Len(r)
    BY <1>1
  <2> QED
    BY <1>1, <2>1
<1>3. ~ Silent(r)
  BY <1>1 DEF Silent
<1> QED
  BY <1>2, <1>3 DEF r

\* The rest of a queue has the last word of the queue; when the rest is silent
\* its head has it, or nothing has.
LEMMA TailWord ==
    ASSUME NEW q \in Seq(Upward), q # <<>>, NEW t, LastWord(q, t)
    PROVE  /\ LastWord(Tail(q), t)
           /\ Silent(Tail(q)) /\ Says(Head(q)) => Head(q).visible = t
           /\ Silent(Tail(q)) /\ ~ Says(Head(q)) => Silent(q)
<1> DEFINE r == Tail(q)
<1>1. /\ Len(q) \in Nat \ {0} /\ Len(r) = Len(q) - 1 /\ Head(q) = q[1]
      /\ \A i \in 1 .. Len(r) : r[i] = q[i + 1]
  OBVIOUS
<1> HIDE DEF r
<1>2. ASSUME NEW i \in 2 .. Len(q) PROVE q[i] = r[i - 1] /\ i - 1 \in 1 .. Len(r)
  BY <1>1
<1>3. LastWord(r, t)
  <2> SUFFICES ASSUME NEW i \in 1 .. Len(r), Says(r[i]), \A j \in i + 1 .. Len(r) : ~ Says(r[j])
               PROVE  r[i].visible = t
    BY DEF LastWord
  <2>1. i + 1 \in 1 .. Len(q) /\ Says(q[i + 1])
    BY <1>1
  <2>2. ASSUME NEW j \in (i + 1) + 1 .. Len(q) PROVE ~ Says(q[j])
    <3>1. j - 1 \in i + 1 .. Len(r) /\ q[j] = r[j - 1]
      BY <1>1, <1>2
    <3> QED
      BY <3>1
  <2>3. q[i + 1].visible = t
    BY <2>1, <2>2 DEF LastWord
  <2> QED
    BY <1>1, <2>3
<1>4. Silent(r) /\ Says(q[1]) => q[1].visible = t
  <2> SUFFICES ASSUME Silent(r), Says(q[1]) PROVE q[1].visible = t
    OBVIOUS
  <2>1. \A j \in 1 + 1 .. Len(q) : ~ Says(q[j])
    BY <1>1, <1>2 DEF Silent
  <2> QED
    BY <1>1, <2>1 DEF LastWord
<1>5. Silent(r) /\ ~ Says(q[1]) => Silent(q)
  <2> SUFFICES ASSUME Silent(r), ~ Says(q[1]), NEW i \in 1 .. Len(q) PROVE ~ Says(q[i])
    BY DEF Silent
  <2> QED
    BY <1>1, <1>2 DEF Silent
<1> QED
  BY <1>1, <1>3, <1>4, <1>5 DEF r

-----------------------------------------------------------------------------
(* The account and the socket.                                             *)

\* The page is loaded anew, or the socket is lost: a session that held the bus
\* is now that of a lost socket.
LEMMA DisconnectStep ==
    ASSUME Inv, Disconnect
    PROVE  /\ up' = <<>> /\ down' = <<>> /\ session' = "none" /\ bus' = bus
           /\ old' \in [Lost -> Socket]
           /\ bus'.live => ~ Alone'
<1>1. /\ up' = <<>> /\ down' = <<>> /\ session' = "none" /\ bus' = bus
  BY DEF Disconnect
<1> USE DEF Inv, TypeOK
<1>2. PICK n \in 0 .. Len(up) :
        LET c == [of |-> user, registered |-> session = "registered", up |-> SubSeq(up, 1, n)]
        IN IF Matters(c) THEN \E s \in Lost : ~ Matters(old[s]) /\ old' = [old EXCEPT ![s] = c]
                         ELSE old' = old
  BY DEF Disconnect
<1> DEFINE q == SubSeq(up, 1, n)
           c == [of |-> user, registered |-> session = "registered", up |-> q]
<1>3. q \in Seq(Upward)
  <2>1. \A i \in 1 .. n : up[i] \in Upward
    OBVIOUS
  <2> QED
    BY <2>1, SubSeqProperties
<1> HIDE DEF q
<1>4. c \in Socket /\ c.registered = (session = "registered")
  BY <1>3 DEF Socket
<1> HIDE DEF c
<1>5. CASE Matters(c)
  <2>1. PICK s \in Lost : ~ Matters(old[s]) /\ old' = [old EXCEPT ![s] = c]
    BY <1>2, <1>5 DEF c, q
  <2>2. old' \in [Lost -> Socket] /\ old'[s] = c /\ \A t \in Lost \ {s} : old'[t] = old[t]
    BY <1>4, <2>1
  <2>3. ASSUME bus.live PROVE ~ Alone'
    <3>1. CASE session = "registered"
      BY <1>4, <2>2, <3>1 DEF Alone
    <3>2. CASE ~ Alone
      <4>1. PICK t \in Lost : old[t].registered
        BY <3>2 DEF Alone
      <4>2. t # s
        BY <2>1, <4>1 DEF Matters
      <4> QED
        BY <2>2, <4>1, <4>2 DEF Alone
    <3> QED
      BY <2>3, <3>1, <3>2 DEF HeldInv
  <2> QED
    BY <1>1, <2>2, <2>3
<1>6. CASE ~ Matters(c)
  <2>1. old' = old /\ session # "registered"
    BY <1>2, <1>4, <1>6 DEF c, q, Matters
  <2> QED
    BY <1>1, <2>1 DEF HeldInv, Alone
<1> QED
  BY <1>5, <1>6

\* While no socket is open, WordInv asks for nothing.
LEMMA AccountSteps ==
    ASSUME Inv, SubmitLogin \/ LoginFails \/ TokenExpires \/ \E d \in Account : LoginSucceeds(d)
    PROVE  Inv'
<1> USE DriverPageAssumption DEF Inv, wishes, shown, server
<1>1. CASE SubmitLogin \/ LoginFails
  <2> USE <1>1 DEF SubmitLogin, LoginFails
  <2>1. TypeOK'
    BY DEF TypeOK
  <2>2. ClosedInv' /\ RegisteredInv' /\ HeldInv' /\ WordInv'
    BY DEF ClosedInv, RegisteredInv, HeldInv, WordInv, Alone
  <2>3. UserInv' /\ HiddenOthersStayHidden'
    BY DEF UserInv, HiddenOthersStayHidden
  <2> QED
    BY <2>1, <2>2, <2>3
<1>2. CASE TokenExpires
  <2> USE <1>2 DEF TokenExpires
  <2>1. token' \in [of : Driver, valid : BOOLEAN]
    <3>1. token # NoToken
      BY DEF NoToken
    <3>2. token \in [of : Driver, valid : BOOLEAN]
      BY <3>1 DEF TypeOK
    <3> QED
      BY <3>2
  <2>2. TypeOK'
    BY <2>1 DEF TypeOK
  <2>3. ClosedInv' /\ RegisteredInv' /\ HeldInv' /\ WordInv'
    BY DEF ClosedInv, RegisteredInv, HeldInv, WordInv, Alone
  <2>4. UserInv' /\ HiddenOthersStayHidden'
    BY DEF UserInv, HiddenOthersStayHidden
  <2> QED
    BY <2>2, <2>3, <2>4
<1>3. ASSUME NEW d \in Account, LoginSucceeds(d) PROVE Inv'
  <2> USE <1>3 DEF LoginSucceeds, EnterDashboard
  <2>1. /\ d \in Driver /\ link' \in {"opening", "none"}
        /\ user = None /\ ~ leaving /\ marks = {} /\ listed = {} /\ ~ others /\ link = "none"
    BY DEF UserInv
  <2>2. session = "none" /\ up = <<>> /\ down = <<>>
    BY <2>1 DEF ClosedInv
  <2>3. TypeOK'
    BY <2>1 DEF TypeOK, Drivers
  <2>4. ClosedInv' /\ RegisteredInv' /\ HeldInv' /\ WordInv'
    BY <2>1, <2>2 DEF ClosedInv, RegisteredInv, HeldInv, WordInv, Alone
  <2>5. UserInv' /\ HiddenOthersStayHidden'
    BY <2>1 DEF UserInv, HiddenOthersStayHidden
  <2> QED
    BY <2>3, <2>4, <2>5
<1> QED
  BY <1>1, <1>2, <1>3

LEMMA LeaveSteps ==
    ASSUME Inv, Logout \/ Reload PROVE Inv'
<1> USE DriverPageAssumption DEF Inv
<1>1. Disconnect
  BY DEF Logout, SocketClosed, Reload
<1>2. /\ up' = <<>> /\ down' = <<>> /\ session' = "none" /\ bus' \in Bus
      /\ old' \in [Lost -> Socket] /\ (bus'.live => ~ Alone')
  BY <1>1, DisconnectStep DEF TypeOK
<1>3. ~ Registers(up')
  BY <1>2 DEF Registers
<1>4. /\ link' \in {"none", "opening", "lost"} /\ user' \in Drivers
      /\ token' \in [of : Driver, valid : BOOLEAN] \union {NoToken}
      /\ UserInv' /\ HiddenOthersStayHidden'
      /\ login' \in BOOLEAN /\ leaving' \in BOOLEAN /\ toggle' \in BOOLEAN /\ active' \in Levels
      /\ others' \in BOOLEAN /\ marks' \subseteq Driver /\ listed' \subseteq Driver
  <2>1. CASE Logout
    <3>1. /\ user # None /\ user' = None /\ token' = NoToken /\ leaving' /\ login' = login
          /\ leaving' \in BOOLEAN /\ UNCHANGED <<wishes, shown>> /\ link' \in {"none", "lost"}
      BY <2>1 DEF Logout, SocketClosed, Forgotten
    <3>2. ~ login
      BY <3>1 DEF UserInv
    <3>3. UserInv' /\ HiddenOthersStayHidden'
      BY <3>1, <3>2 DEF UserInv, HiddenOthersStayHidden, wishes, shown, TypeOK
    <3> QED
      BY <3>1, <3>3 DEF wishes, shown, TypeOK, Drivers
  <2>2. CASE Reload
    <3>1. /\ token' = token /\ Blank
          /\ \/ user' = token.of /\ token.of # None /\ link' \in {"opening", "none"}
             \/ user' = None /\ link' = "none"
      BY <2>2 DEF Reload, EnterDashboard
    <3>2. user' \in Drivers
      BY <3>1 DEF TypeOK, NoToken, Drivers
    <3>3. UserInv' /\ HiddenOthersStayHidden'
      BY <3>1 DEF Blank, UserInv, HiddenOthersStayHidden
    <3> QED
      BY <3>1, <3>2, <3>3 DEF Blank, TypeOK, Levels
  <2> QED
    BY <2>1, <2>2
<1>5. TypeOK'
  BY <1>2, <1>4, EmptyQueues DEF TypeOK
<1>6. ClosedInv' /\ RegisteredInv' /\ HeldInv' /\ WordInv'
  BY <1>2, <1>3, <1>4 DEF ClosedInv, RegisteredInv, HeldInv, WordInv
<1> QED
  BY <1>4, <1>5, <1>6

LEMMA SocketSteps ==
    ASSUME Inv, Open \/ Lose \/ Retry PROVE Inv'
<1> USE DriverPageAssumption DEF Inv, account, wishes, shown
<1>1. CASE Open
  <2> USE <1>1 DEF Open, server
  <2>1. up = <<>> /\ session = "none"
    BY DEF ClosedInv
  <2>2. up' \in Seq(Upward) /\ LastWord(up', toggle') /\ (user = None => ~ Registers(up'))
    <3>1. CASE up' = <<>>
      BY <3>1 DEF LastWord, Registers
    <3>2. CASE user # None /\ up' = <<[type |-> "driver-register"]>>
      BY <3>2, Messages DEF LastWord
    <3> QED
      BY <3>1, <3>2
  <2>3. TypeOK'
    BY <2>2 DEF TypeOK
  <2>4. ClosedInv' /\ RegisteredInv' /\ HeldInv'
    BY <2>1, <2>2 DEF ClosedInv, RegisteredInv, HeldInv, Alone
  <2>5. WordInv'
    BY <2>1, <2>2 DEF WordInv, HeldInv, Alone
  <2>6. UserInv' /\ HiddenOthersStayHidden'
    BY DEF UserInv, HiddenOthersStayHidden
  <2> QED
    BY <2>3, <2>4, <2>5, <2>6
<1>2. CASE Lose
  <2> USE <1>2 DEF Lose
  <2>1. /\ up' = <<>> /\ down' = <<>> /\ session' = "none" /\ bus' \in Bus
        /\ old' \in [Lost -> Socket] /\ (bus'.live => ~ Alone')
    BY DisconnectStep DEF TypeOK
  <2>2. ~ Registers(up')
    BY <2>1 DEF Registers
  <2>3. TypeOK'
    BY <2>1, EmptyQueues DEF TypeOK
  <2>4. ClosedInv' /\ RegisteredInv' /\ HeldInv' /\ WordInv'
    BY <2>1, <2>2 DEF ClosedInv, RegisteredInv, HeldInv, WordInv
  <2>5. UserInv' /\ HiddenOthersStayHidden'
    BY DEF UserInv, HiddenOthersStayHidden
  <2> QED
    BY <2>3, <2>4, <2>5
<1>3. CASE Retry
  <2> USE <1>3 DEF Retry, server
  <2>1. TypeOK'
    BY DEF TypeOK
  <2>2. ClosedInv' /\ RegisteredInv' /\ HeldInv' /\ WordInv'
    BY DEF ClosedInv, RegisteredInv, HeldInv, WordInv, Alone
  <2>3. UserInv' /\ HiddenOthersStayHidden'
    BY DEF UserInv, HiddenOthersStayHidden
  <2> QED
    BY <2>1, <2>2, <2>3
<1> QED
  BY <1>1, <1>2, <1>3

-----------------------------------------------------------------------------
(* The control panel.                                                      *)

\* No message of the panel registers.
LEMMA AppendRegisters ==
    ASSUME NEW q \in Seq(Upward), NEW m \in Upward, m.type # "driver-register", ~ Registers(q)
    PROVE  ~ Registers(Append(q, m))
<1> SUFFICES ASSUME NEW i \in 1 .. Len(Append(q, m)), Append(q, m)[i].type = "driver-register"
             PROVE  FALSE
  BY DEF Registers
<1>1. i \in 1 .. Len(q) /\ Append(q, m)[i] = q[i]
  OBVIOUS
<1> QED
  BY <1>1 DEF Registers

\* A message that says nothing of visibility, or what the toggle shows now.
LEMMA SendStep ==
    ASSUME Inv, NEW m \in Upward, Send(m), toggle' \in BOOLEAN, UNCHANGED <<link, server>>,
           IF Says(m) THEN m.visible = toggle' ELSE toggle' = toggle
    PROVE  up' \in Seq(Upward) /\ WordInv' /\ (link # "open" => up' = up)
<1>1. up \in Seq(Upward)
  BY DEF Inv, TypeOK
<1>2. CASE link # "open"
  BY <1>1, <1>2 DEF Send, WordInv
<1>3. CASE link = "open"
  <2>1. up' = Append(up, m)
    BY <1>3 DEF Send
  <2>2. up' \in Seq(Upward)
    BY <1>1, <2>1
  <2>3. CASE Says(m)
    <3>1. LastWord(up', toggle') /\ ~ Silent(up')
      BY <1>1, <2>1, <2>3, AppendWord
    <3> QED
      BY <1>3, <2>2, <3>1 DEF WordInv, server, Alone
  <2>4. CASE ~ Says(m)
    <3>1. LastWord(up', toggle') /\ (Silent(up') => Silent(up))
      BY <1>1, <1>3, <2>1, <2>4, AppendOther DEF Inv, WordInv
    <3> QED
      BY <1>3, <2>2, <2>4, <3>1 DEF Inv, WordInv, server, Alone
  <2> QED
    BY <2>3, <2>4
<1> QED
  BY <1>2, <1>3

LEMMA PanelSteps ==
    ASSUME Inv, \/ Report \/ ToggleVisibility \/ ShowOthers \/ HideOthers \/ Refresh
                \/ \E l \in Level : PressOccupancy(l)
    PROVE  Inv'
<1> USE DEF Inv, account, shown, server
<1>1. CASE Report \/ ToggleVisibility \/ ShowOthers \/ Refresh \/ \E l \in Level : PressOccupancy(l)
  <2>1. /\ link # "none" /\ UNCHANGED <<account, link, shown, down, server>>
        /\ toggle' \in BOOLEAN /\ active' \in Levels /\ others' \in BOOLEAN
        /\ others => others'
    BY <1>1 DEF Report, ToggleVisibility, ShowOthers, Refresh, PressOccupancy, Panel, wishes,
                TypeOK, Levels
  <2> DEFINE Sent == \E m \in Upward :
                      /\ Send(m) /\ m.type # "driver-register"
                      /\ IF Says(m) THEN m.visible = toggle' ELSE toggle' = toggle
  <2>2. Sent
    <3>1. CASE Report
      <4> DEFINE m == [type |-> "driver-location", visible |-> toggle]
      <4>1. m \in Upward /\ Send(m) /\ m.visible = toggle' /\ Says(m)
        BY <3>1, Messages DEF Report, Wanted, wishes, TypeOK, Says
      <4> QED
        BY <4>1
    <3>2. CASE ToggleVisibility
      <4> DEFINE m == [type |-> "driver-visibility", visible |-> toggle']
      <4>1. m \in Upward /\ Send(m) /\ m.visible = toggle' /\ Says(m)
        BY <2>1, <3>2, Messages DEF ToggleVisibility, Says
      <4> QED
        BY <4>1
    <3>3. CASE ShowOthers \/ Refresh
      <4> DEFINE m == [type |-> "get-other-drivers"]
      <4>1. m \in Upward /\ Send(m) /\ ~ Says(m) /\ toggle' = toggle
        BY <3>3, Messages DEF ShowOthers, Refresh, wishes
      <4> QED
        BY <4>1
    <3>4. ASSUME NEW l \in Level, PressOccupancy(l) PROVE Sent
      <4> DEFINE m == [type |-> "driver-occupancy", level |-> l]
      <4>1. m \in Upward /\ Send(m) /\ ~ Says(m) /\ toggle' = toggle
        BY <3>4, Messages DEF PressOccupancy
      <4> QED
        BY <4>1
    <3> QED
      BY <1>1, <3>1, <3>2, <3>3, <3>4
  <2>3. up' \in Seq(Upward) /\ WordInv' /\ (link # "open" => up' = up)
    BY <2>1, <2>2, SendStep
  <2>4. TypeOK'
    BY <2>1, <2>3 DEF TypeOK
  <2>5. RegisteredInv'
    <3>1. PICK m \in Upward : Send(m) /\ m.type # "driver-register"
      BY <2>2
    <3>2. up \in Seq(Upward) /\ (up' = up \/ up' = Append(up, m))
      BY <3>1 DEF Send, TypeOK
    <3>3. ~ Registers(up) => ~ Registers(up')
      BY <3>1, <3>2, AppendRegisters
    <3> QED
      BY <2>1, <3>3 DEF RegisteredInv
  <2>6. ClosedInv' /\ HeldInv'
    BY <2>1, <2>3 DEF ClosedInv, HeldInv, Alone
  <2>7. UserInv' /\ HiddenOthersStayHidden'
    BY <2>1 DEF UserInv, HiddenOthersStayHidden
  <2> QED
    BY <2>3, <2>4, <2>5, <2>6, <2>7
<1>2. CASE HideOthers
  <2> USE <1>2 DEF HideOthers
  <2>1. TypeOK'
    BY DEF TypeOK
  <2>2. ClosedInv' /\ RegisteredInv' /\ HeldInv' /\ WordInv'
    BY DEF ClosedInv, RegisteredInv, HeldInv, WordInv, Alone
  <2>3. UserInv' /\ HiddenOthersStayHidden'
    BY DEF UserInv, HiddenOthersStayHidden
  <2> QED
    BY <2>1, <2>2, <2>3
<1> QED
  BY <1>1, <1>2

-----------------------------------------------------------------------------
(* Answers, and the server.                                                *)

LEMMA HandleStep ==
    ASSUME Inv, HandleOtherDrivers PROVE Inv'
<1> USE DEF Inv, HandleOtherDrivers, account, wishes, server, shown
<1>1. down \in Seq(Downward) /\ down # <<>>
  BY DEF TypeOK
<1>2. Head(down) \in Downward /\ Tail(down) \in Seq(Downward)
  BY <1>1
<1>3. Head(down).seen \subseteq Driver
  BY <1>2 DEF Downward
<1>4. link = "open"
  BY <1>1 DEF ClosedInv
<1>5. \/ others /\ marks' = marks \union (Head(down).seen \ {user}) /\ listed' = Head(down).seen \ {user}
      \/ ~ others /\ marks' = marks /\ listed' = listed
  BY DEF ShownStill
<1>6. TypeOK'
  BY <1>2, <1>3, <1>5 DEF TypeOK
<1>7. ClosedInv' /\ RegisteredInv' /\ HeldInv' /\ WordInv'
  BY <1>4 DEF ClosedInv, RegisteredInv, HeldInv, WordInv, Alone
<1>8. UserInv' /\ HiddenOthersStayHidden'
  BY <1>4, <1>5 DEF UserInv, HiddenOthersStayHidden
<1> QED
  BY <1>6, <1>7, <1>8

LEMMA ServeStep ==
    ASSUME Inv, Serve PROVE Inv'
<1> USE DEF Inv
<1> DEFINE m == Head(up)
<1>1. /\ up \in Seq(Upward) /\ up # <<>> /\ up' = Tail(up) /\ down \in Seq(Downward)
      /\ UNCHANGED <<account, link, wishes, shown, old>>
      /\ bus \in Bus /\ user \in Drivers
  BY DEF TypeOK, Serve
<1>2. link = "open" /\ m \in Upward
  BY <1>1 DEF ClosedInv
<1>3. \/ /\ m.type = "driver-register" /\ session' = "registered" /\ bus' = Fresh(user)
      \/ /\ m.type = "driver-register" /\ bus' = bus
         /\ session' = (IF session = "none" THEN "refused" ELSE session)
      \/ /\ m.type # "driver-register" /\ session' = session
         /\ session = "registered" /\ bus' = Served(m, user, bus)
      \/ /\ m.type # "driver-register" /\ session' = session
         /\ session # "registered" /\ bus' = bus
  BY DEF Serve, Register
<1>4. up' \in Seq(Upward) /\ (Registers(up') => Registers(up))
  <2>1. \A i \in 1 .. Len(up') : i + 1 \in 1 .. Len(up) /\ up'[i] = up[i + 1]
    BY <1>1
  <2> QED
    BY <1>1, <2>1 DEF Registers
<1>5. down' \in Seq(Downward)
  <2>1. CASE down' = down
    BY <1>1, <2>1
  <2>2. ASSUME NEW seen \in SUBSET Driver,
               down' = Append(down, [type |-> "other-drivers", seen |-> seen])
        PROVE  down' \in Seq(Downward)
    <3> DEFINE d == [type |-> "other-drivers", seen |-> seen]
    <3>1. d \in Downward
      BY DEF Downward
    <3> HIDE DEF d
    <3>2. Append(down, d) \in Seq(Downward)
      BY <1>1, <3>1
    <3> QED
      BY <2>2, <3>2 DEF d
  <2> QED
    BY <2>1, <2>2 DEF Serve
<1>6. m.type = "driver-register" => Registers(up) /\ ~ Says(m)
  <2>1. m = up[1] /\ 1 \in 1 .. Len(up)
    BY <1>1
  <2> QED
    BY <2>1 DEF Registers, Says
<1> HIDE DEF m
<1>7. bus' \in Bus /\ session' \in {"none", "registered", "refused"}
  BY <1>1, <1>2, <1>3, BusRecords, ServedBus DEF TypeOK
<1>8. TypeOK'
  BY <1>1, <1>4, <1>5, <1>7 DEF TypeOK, account, wishes, shown
<1>9. ClosedInv' /\ RegisteredInv'
  BY <1>1, <1>2, <1>3, <1>4, <1>6 DEF ClosedInv, RegisteredInv, account
<1>10. HeldInv' /\ (Alone' = Alone)
  <2>1. Alone' = Alone /\ user' = user
    BY <1>1 DEF Alone, account
  <2>2. CASE session' = "registered" /\ bus' = Fresh(user)
    BY <1>1, <2>1, <2>2, BusRecords DEF HeldInv
  <2>3. CASE bus' = bus /\ session' = (IF session = "none" THEN "refused" ELSE session)
    BY <2>1, <2>3 DEF HeldInv
  <2>4. CASE session' = session /\ session = "registered" /\ bus' = Served(m, user, bus)
    <3>1. bus'.live => bus'.by = (IF bus.live THEN bus.by ELSE user)
      BY <1>1, <1>2, <2>4, ServedBus
    <3> QED
      BY <2>1, <2>4, <3>1 DEF HeldInv
  <2>5. CASE session' = session /\ bus' = bus
    BY <2>1, <2>5 DEF HeldInv
  <2> QED
    BY <1>3, <2>1, <2>2, <2>3, <2>4, <2>5
<1>11. WordInv'
  <2>1. LastWord(up, toggle) /\ (Silent(up) /\ Alone => (bus.live /\ bus.placed => bus.visible = toggle))
    BY <1>2 DEF WordInv
  <2>2. LastWord(up', toggle')
    BY <1>1, <2>1, TailWord DEF wishes
  <2>3. ASSUME Silent(up'), Alone, bus'.live, bus'.placed PROVE bus'.visible = toggle'
    <3>0. toggle' = toggle
      BY <1>1 DEF wishes
    <3>1. CASE Says(m)
      <4>1. m.visible = toggle /\ m.type # "driver-register"
        BY <1>1, <1>6, <2>1, <2>3, <3>1, TailWord DEF m
      <4>2. bus.live => session = "registered" /\ bus.by = user
        BY <2>3 DEF HeldInv
      <4>3. bus' = Served(m, user, bus)
        BY <1>3, <2>3, <4>1, <4>2
      <4> QED
        BY <1>1, <1>2, <2>3, <3>0, <3>1, <4>1, <4>2, <4>3, ServedBus
    <3>2. CASE ~ Says(m)
      <4>1. Silent(up)
        BY <1>1, <2>1, <2>3, <3>2, TailWord DEF m
      <4>2. CASE bus' = Fresh(user)
        BY <1>1, <2>3, <4>2, BusRecords
      <4>3. CASE bus' = bus
        BY <2>1, <2>3, <3>0, <4>1, <4>3
      <4>4. CASE bus' = Served(m, user, bus)
        BY <1>1, <1>2, <2>1, <2>3, <3>0, <3>2, <4>1, <4>4, ServedBus
      <4> QED
        BY <1>3, <4>2, <4>3, <4>4
    <3> QED
      BY <3>1, <3>2
  <2> QED
    BY <1>10, <2>2, <2>3 DEF WordInv
<1>12. UserInv' /\ HiddenOthersStayHidden'
  BY <1>1 DEF UserInv, HiddenOthersStayHidden, account, wishes, shown
<1> QED
  BY <1>8, <1>9, <1>10, <1>11, <1>12

\* What is served of a lost socket touches the bus only if that socket has a
\* session afterwards; and it keeps one that it had.
LEMMA ServeOldStep ==
    ASSUME Inv, NEW s \in Lost, ServeOld(s) PROVE Inv'
<1> USE DEF Inv, ServeOld
<1> DEFINE m == Head(old[s].up)
<1>1. /\ bus \in Bus /\ old \in [Lost -> Socket] /\ old[s] \in Socket
      /\ UNCHANGED <<account, link, wishes, shown, up, down, session>>
  BY DEF TypeOK
<1>2. old[s].up \in Seq(Upward) /\ old[s].up # <<>> /\ old[s].of \in Drivers
  BY <1>1 DEF Socket
<1>3. m \in Upward /\ Tail(old[s].up) \in Seq(Upward)
  BY <1>2
<1>4. PICK registered \in BOOLEAN :
        /\ old' = [old EXCEPT ![s].registered = registered, ![s].up = Tail(@)]
        /\ \/ registered /\ bus' = Fresh(old[s].of)
           \/ registered = old[s].registered /\ bus' = bus
           \/ registered = old[s].registered /\ registered /\ bus' = Served(m, old[s].of, bus)
  <2>1. PICK registered \in BOOLEAN :
          /\ old' = [old EXCEPT ![s].registered = registered, ![s].up = Tail(@)]
          /\ IF m.type = "driver-register"
             THEN \/ registered /\ bus' = Fresh(old[s].of)
                  \/ registered = old[s].registered /\ bus' = bus
             ELSE /\ registered = old[s].registered
                  /\ bus' = IF registered THEN Served(m, old[s].of, bus) ELSE bus
    OBVIOUS
  <2> QED
    BY <2>1
<1> HIDE DEF m
<1>5. /\ old' \in [Lost -> Socket] /\ old'[s].registered = registered
      /\ \A t \in Lost \ {s} : old'[t] = old[t]
  BY <1>1, <1>2, <1>3, <1>4 DEF Socket
<1>6. bus' \in Bus
  BY <1>1, <1>2, <1>3, <1>4, BusRecords, ServedBus
<1>7. \/ ~ Alone'
      \/ Alone /\ bus' = bus
  BY <1>4, <1>5 DEF Alone
<1>8. TypeOK'
  BY <1>1, <1>5, <1>6 DEF TypeOK, account, wishes, shown
<1>9. ClosedInv' /\ RegisteredInv' /\ HeldInv' /\ WordInv'
  BY <1>1, <1>7 DEF ClosedInv, RegisteredInv, HeldInv, WordInv, account, wishes
<1>10. UserInv' /\ HiddenOthersStayHidden'
  BY <1>1 DEF UserInv, HiddenOthersStayHidden, account, wishes, shown
<1> QED
  BY <1>8, <1>9, <1>10

\* The bus is off the map, whoever had put it there.
LEMMA RemovedStep ==
    ASSUME Inv, NEW s \in Lost, OldSessionRemoved(s) PROVE Inv'
<1> USE DEF Inv, OldSessionRemoved
<1>1. bus' \in Bus /\ ~ bus'.live
  BY BusRecords
<1>2. old' \in [Lost -> Socket]
  <2>1. Done \in Socket
    BY EmptyQueues DEF Done, Socket, Drivers
  <2> QED
    BY <2>1 DEF TypeOK
<1>3. TypeOK'
  BY <1>1, <1>2 DEF TypeOK, account, wishes, shown
<1>4. ClosedInv' /\ WordInv' /\ RegisteredInv' /\ HeldInv'
  BY <1>1 DEF ClosedInv, WordInv, RegisteredInv, HeldInv, wishes, account
<1>5. UserInv' /\ HiddenOthersStayHidden'
  BY DEF UserInv, HiddenOthersStayHidden, account, wishes, shown
<1> QED
  BY <1>3, <1>4, <1>5

-----------------------------------------------------------------------------
(* Every step, and the theorems.                                           *)

LEMMA InvInit == Init => Inv
<1> SUFFICES ASSUME Init PROVE Inv
  OBVIOUS
<1>1. TypeOK
  <2>1. bus \in Bus
    BY BusRecords DEF Init
  <2>2. user \in Drivers /\ active \in Levels
    BY DEF Init, Drivers, Levels
  <2>3. old \in [Lost -> Socket]
    BY EmptyQueues DEF Init, Done, Socket, Drivers
  <2>4. up \in Seq(Upward) /\ down \in Seq(Downward)
    BY EmptyQueues DEF Init
  <2> QED
    BY <2>1, <2>2, <2>3, <2>4 DEF Init, TypeOK
<1>2. ClosedInv /\ RegisteredInv /\ HeldInv /\ WordInv
  BY BusRecords DEF Init, ClosedInv, RegisteredInv, HeldInv, WordInv, Registers
<1>3. UserInv /\ HiddenOthersStayHidden
  BY DEF Init, UserInv, HiddenOthersStayHidden
<1> QED
  BY <1>1, <1>2, <1>3 DEF Inv

LEMMA InvStep == Inv /\ [Next]_vars => Inv'
<1> SUFFICES ASSUME Inv, [Next]_vars PROVE Inv'
  OBVIOUS
<1>1. CASE SubmitLogin \/ LoginFails \/ TokenExpires \/ \E d \in Account : LoginSucceeds(d)
  BY <1>1, AccountSteps
<1>2. CASE Logout \/ Reload
  BY <1>2, LeaveSteps
<1>3. CASE Open \/ Lose \/ Retry
  BY <1>3, SocketSteps
<1>4. CASE \/ Report \/ ToggleVisibility \/ ShowOthers \/ HideOthers \/ Refresh
           \/ \E l \in Level : PressOccupancy(l)
  BY <1>4, PanelSteps
<1>5. CASE HandleOtherDrivers
  BY <1>5, HandleStep
<1>6. CASE Serve
  BY <1>6, ServeStep
<1>7. CASE \E s \in Lost : ServeOld(s) \/ OldSessionRemoved(s)
  BY <1>7, ServeOldStep, RemovedStep
<1>8. CASE UNCHANGED vars
  <2> USE <1>8 DEF vars
  <2>1. TypeOK'
    BY DEF Inv, TypeOK
  <2>2. ClosedInv' /\ RegisteredInv' /\ HeldInv' /\ WordInv'
    BY DEF Inv, ClosedInv, RegisteredInv, HeldInv, WordInv, Alone
  <2>3. UserInv' /\ HiddenOthersStayHidden'
    BY DEF Inv, UserInv, HiddenOthersStayHidden
  <2> QED
    BY <2>1, <2>2, <2>3 DEF Inv
<1> QED
  BY <1>1, <1>2, <1>3, <1>4, <1>5, <1>6, <1>7, <1>8 DEF Next

LEMMA Invariance == Spec => []Inv
BY InvInit, InvStep, PTL DEF Spec

\* Every variable of the page and of the bus at the server keeps its type, and
\* every message on its way is one that is handled.
THEOREM DriverTypes == Spec => []TypeOK
BY Invariance, PTL DEF Inv

\* However often the toggle is pressed or the socket lost, whatever of lost
\* sockets is served late or removed behind the page's back: when nothing of the
\* page is on its way and no lost socket has a session, a bus that riders could
\* see is seen exactly if the toggle says so.
THEOREM VisibilityFollowsToggleAlways == Spec => []VisibilityFollowsToggle
<1>1. Inv => VisibilityFollowsToggle
  BY DEF Inv, WordInv, Silent, VisibilityFollowsToggle
<1> QED
  BY <1>1, Invariance, PTL

\* An answer that comes after the others were hidden brings no marker of them
\* back, and no answer shows the driver's own bus as another's.
THEOREM HiddenOthersStayHiddenAlways == Spec => []HiddenOthersStayHidden
BY Invariance, PTL DEF Inv

\* Whenever the page is loaded anew after a logout, and whatever socket its timer
\* opened until then: no bus is left on the map but that of a lost socket whose
\* session is still to be removed.
THEOREM LogoutEndsBroadcastAlways == Spec => []LogoutEndsBroadcast
<1>1. Inv => LogoutEndsBroadcast
  BY DEF Inv, HeldInv, RegisteredInv, LogoutEndsBroadcast
<1> QED
  BY <1>1, Invariance, PTL
=============================================================================
