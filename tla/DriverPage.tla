----------------------------- MODULE DriverPage -----------------------------
(***************************************************************************)
(* The driver's dashboard, driver_script.js, and what the server knows of  *)
(* the bus through its sockets.                                            *)
(*                                                                         *)
(* The page logs in, connects and reconnects, reports where the bus is,    *)
(* whether it wants to be seen and how full it is, and shows the other     *)
(* drivers on request.  What it sends on an open socket is served in the   *)
(* order it was sent, any time later.  A socket that is lost leaves its    *)
(* session and the bus behind: what the server has received of it may be   *)
(* served after a new socket has registered, and its session is removed    *)
(* late, with the bus of its code.                                         *)
(*                                                                         *)
(* Whoever logs in on this page drives the same bus.  A frame, and a       *)
(* removal, is one step of the registry here; LiveTracking has what two of *)
(* them do to each other, and the eviction of a driver who is silent.  The *)
(* marker of the bus itself, the counters and the colours of the           *)
(* connection status are left out.                                         *)
(***************************************************************************)
EXTENDS Naturals, Sequences

CONSTANTS
    Driver,     \* accounts with the role DRIVER
    Account,    \* those of them who log in on this page
    Level,      \* of crowding
    None,
    Lost,       \* bound: names for lost sockets the server is not done with
    MaxUp,      \* bound: messages of the page not served yet
    MaxDown     \* bound: messages of the server not handled yet

ASSUME DriverPageAssumption ==
    Account \subseteq Driver /\ None \notin Driver /\ None \notin Level /\ {MaxUp, MaxDown} \subseteq Nat

VARIABLES
    user,       \* currentUser
    token,      \* sessionStorage: whose token is stored, and whether it is valid
    login,      \* whether a login request is under way
    leaving,    \* whether the page waits to be loaded anew after a logout
    link,       \* ws
    toggle,     \* visibility-toggle
    active,     \* the occupancy button that is lit
    others,     \* showOtherDrivers
    marks,      \* otherDriverMarkers
    listed,     \* other-drivers-list
    up, down,   \* what the page and the server have sent on this socket
    session,    \* what became of the registration of this socket
    old,        \* old[s]: what the server has of the lost socket s
    bus         \* the bus at the server

vars == <<user, token, login, leaving, link, toggle, active, others, marks, listed,
          up, down, session, old, bus>>
account == <<user, token, login, leaving>>
wishes == <<toggle, active, others>>
shown == <<marks, listed>>
server == <<session, old, bus>>

Drivers == Driver \union {None}
Levels == Level \union {None}

Upward == [type : {"driver-register", "get-other-drivers"}]
          \union [type : {"driver-location", "driver-visibility"}, visible : BOOLEAN]
          \union [type : {"driver-occupancy"}, level : Level]
Downward == [type : {"other-drivers"}, seen : SUBSET Driver]

NoToken == [of |-> None, valid |-> FALSE]

\* A bus that is not live, and one that has just been registered.
Bus == [live : BOOLEAN, placed : BOOLEAN, visible : BOOLEAN, level : Levels, by : Drivers]
NoBus == [live |-> FALSE, placed |-> FALSE, visible |-> TRUE, level |-> None, by |-> None]
Fresh(d) == [NoBus EXCEPT !.live = TRUE, !.by = d]

\* A lost socket: whose it was, whether it has a session, what is still to be served.
Socket == [of : Drivers, registered : BOOLEAN, up : Seq(Upward)]
Done == [of |-> None, registered |-> FALSE, up |-> <<>>]

TypeOK ==
    /\ user \in Drivers
    /\ token \in [of : Driver, valid : BOOLEAN] \union {NoToken}
    /\ login \in BOOLEAN /\ leaving \in BOOLEAN
    /\ link \in {"none", "opening", "open", "lost"}
    /\ toggle \in BOOLEAN /\ active \in Levels /\ others \in BOOLEAN
    /\ marks \subseteq Driver /\ listed \subseteq Driver
    /\ up \in Seq(Upward) /\ down \in Seq(Downward)
    /\ session \in {"none", "registered", "refused"}
    /\ old \in [Lost -> Socket]
    /\ bus \in Bus

\* What a page shows when it is loaded.
Blank ==
    /\ login' = FALSE /\ leaving' = FALSE
    /\ toggle' = TRUE /\ active' = None /\ others' = FALSE /\ marks' = {} /\ listed' = {}

Init ==
    /\ user = None /\ token = NoToken /\ login = FALSE /\ leaving = FALSE
    /\ link = "none"
    /\ toggle = TRUE /\ active = None /\ others = FALSE /\ marks = {} /\ listed = {}
    /\ up = <<>> /\ down = <<>>
    /\ session = "none" /\ old = [s \in Lost |-> Done] /\ bus = NoBus

-----------------------------------------------------------------------------
(* Sockets that come to an end.                                            *)

\* The server is not done with a socket that has a session or may get one.
Matters(c) == c.registered \/ \E i \in 1 .. Len(c.up) : c.up[i].type = "driver-register"

\* What of the messages under way had been received is still served; the bus
\* stays as it is.
Disconnect ==
    /\ \E n \in 0 .. Len(up) :
          LET c == [of |-> user, registered |-> session = "registered", up |-> SubSeq(up, 1, n)]
          IN IF Matters(c) THEN \E s \in Lost : ~ Matters(old[s]) /\ old' = [old EXCEPT ![s] = c]
                           ELSE old' = old
    /\ up' = <<>> /\ down' = <<>> /\ session' = "none"
    /\ UNCHANGED bus

-----------------------------------------------------------------------------
(* The account.                                                            *)

\* The button is disabled until the answer.
SubmitLogin ==
    /\ user = None /\ ~ login /\ ~ leaving
    /\ login' = TRUE
    /\ UNCHANGED <<user, token, leaving, link, wishes, shown, up, down, server>>

\* initializeDashboard opens the socket, unless the map cannot be made.
EnterDashboard(d) ==
    /\ user' = d /\ link' \in {"opening", "none"}

LoginSucceeds(d) ==
    /\ login
    /\ login' = FALSE
    /\ token' = [of |-> d, valid |-> TRUE]
    /\ EnterDashboard(d)
    /\ UNCHANGED <<leaving, wishes, shown, up, down, server>>

\* Refused, no answer, or an account of another role.
LoginFails ==
    /\ login
    /\ login' = FALSE
    /\ UNCHANGED <<user, token, leaving, link, wishes, shown, up, down, server>>

\* The token was signed for some hours.
TokenExpires ==
    /\ token.valid
    /\ token' = [token EXCEPT !.valid = FALSE]
    /\ UNCHANGED <<user, login, leaving, link, wishes, shown, up, down, server>>

\* The click of setupLogout: both entries of the storage are discarded.
\* (mutant: the token is left behind)
ForgottenDriver == [token EXCEPT !.of = None]
Forgotten == NoToken

\* (mutant: without ws.close())
SocketLeft == UNCHANGED <<link, up, down, server>>
\* onclose will start its timer for this socket as for any other.
SocketClosed ==
    /\ link' = IF link = "none" THEN "none" ELSE "lost"
    /\ Disconnect

Logout ==
    /\ user # None
    /\ user' = None /\ token' = Forgotten /\ leaving' = TRUE
    /\ SocketClosed
    /\ UNCHANGED <<login, wishes, shown>>

\* The page is loaded anew, by the driver or some time after a logout: this
\* closes the socket.  checkExistingSession looks at the stored data, not at
\* the age of the token.
Reload ==
    /\ IF token.of # None THEN EnterDashboard(token.of) ELSE user' = None /\ link' = "none"
    /\ Blank /\ Disconnect
    /\ UNCHANGED token

-----------------------------------------------------------------------------
(* The socket.                                                             *)

\* What is sent while the socket is not open is dropped by the page.
Send(m) == up' = IF link = "open" THEN Append(up, m) ELSE up

UpBound == Len(up) < MaxUp

\* (mutant: a socket that is opened again does not register)
OpenSilently ==
    /\ link = "opening"
    /\ link' = "open" /\ up' = <<>>
    /\ UNCHANGED <<account, wishes, shown, down, server>>

Open ==
    /\ link = "opening"
    /\ link' = "open"
    /\ up' = IF user # None THEN <<[type |-> "driver-register"]>> ELSE <<>>
    /\ UNCHANGED <<account, wishes, shown, down, server>>

\* onclose, after an error or not, of a socket that was open or never was.
Lose ==
    /\ link \in {"opening", "open"}
    /\ link' = "lost"
    /\ Disconnect
    /\ UNCHANGED <<account, wishes, shown>>

\* The 5 s timer of onclose, which runs after a logout, too.
Retry ==
    /\ link = "lost"
    /\ link' = "opening"
    /\ UNCHANGED <<account, wishes, shown, up, down, server>>

-----------------------------------------------------------------------------
(* The control panel, which is set up before the socket is first opened,   *)
(* and is there until the page is loaded anew.                             *)

Panel == link # "none"

\* (mutant: "||" does not)
WantedOrTrue == toggle \/ TRUE
\* handleLocationUpdate; "??" keeps a FALSE of the toggle.
Wanted == toggle

Report ==
    /\ user # None /\ link = "open" /\ UpBound
    /\ Send([type |-> "driver-location", visible |-> Wanted])
    /\ UNCHANGED <<account, link, wishes, shown, down, server>>

\* handleVisibilityToggle.
ToggleVisibility ==
    /\ Panel /\ UpBound
    /\ toggle' = ~ toggle
    /\ Send([type |-> "driver-visibility", visible |-> toggle'])
    /\ UNCHANGED <<account, link, active, others, shown, down, server>>

\* The button is lit only when its level could be sent.
PressOccupancy(l) ==
    /\ link = "open" /\ UpBound
    /\ active' = l
    /\ Send([type |-> "driver-occupancy", level |-> l])
    /\ UNCHANGED <<account, link, toggle, others, shown, down, server>>

\* toggleOtherDriversDisplay: hiding takes the markers down, the list stays.
ShowOthers ==
    /\ Panel /\ ~ others /\ UpBound
    /\ others' = TRUE
    /\ Send([type |-> "get-other-drivers"])
    /\ UNCHANGED <<account, link, toggle, active, shown, down, server>>

HideOthers ==
    /\ Panel /\ others
    /\ others' = FALSE /\ marks' = {}
    /\ UNCHANGED <<account, link, toggle, active, listed, up, down, server>>

\* refreshOtherDriversList, by its button.
Refresh ==
    /\ user # None /\ link = "open" /\ UpBound
    /\ Send([type |-> "get-other-drivers"])
    /\ UNCHANGED <<account, link, wishes, shown, down, server>>

\* (mutant: whether they are still to be shown or not)
ShownAnyway == TRUE
ShownStill == others

\* other-drivers: markers are added and moved and the list is written anew, if
\* the drivers are still to be shown; nothing takes one marker down.
HandleOtherDrivers ==
    /\ down # <<>>
    /\ LET seen == Head(down).seen \ {user}
       IN IF ShownStill THEN marks' = marks \union seen /\ listed' = seen ELSE UNCHANGED shown
    /\ down' = Tail(down)
    /\ UNCHANGED <<account, link, wishes, up, server>>

-----------------------------------------------------------------------------
(* The server.                                                             *)

\* A frame of a registered session of driver d.  A ping puts the bus on the
\* map, anew if it was taken off; visibility is that of the driver's own bus.
Served(m, d, b) ==
    CASE m.type = "driver-location" ->
           [(IF b.live THEN b ELSE Fresh(d)) EXCEPT !.placed = TRUE, !.visible = m.visible]
      [] m.type = "driver-visibility" /\ b.live /\ b.by = d -> [b EXCEPT !.visible = m.visible]
      [] m.type = "driver-occupancy" /\ b.live -> [b EXCEPT !.level = m.level]
      [] OTHER -> b

\* handleDriverRegister.  An expired token is refused; so is one without a bus,
\* and a lookup of its route that fails ends the same way.  A refusal takes
\* nothing away that was registered.
Register ==
    \/ token.valid /\ session' = "registered" /\ bus' = Fresh(user)
    \/ session' = (IF session = "none" THEN "refused" ELSE session) /\ bus' = bus

Serve ==
    /\ up # <<>>
    /\ LET m == Head(up)
       IN /\ IF m.type = "driver-register" THEN Register
             ELSE /\ session' = session
                  /\ bus' = IF session = "registered" THEN Served(m, user, bus) ELSE bus
          /\ IF m.type = "get-other-drivers"
             THEN /\ Len(down) < MaxDown
                  /\ \E seen \in SUBSET Driver :
                       down' = Append(down, [type |-> "other-drivers", seen |-> seen])
             ELSE down' = down
    /\ up' = Tail(up)
    /\ UNCHANGED <<account, link, wishes, shown, old>>

\* What had been received of a lost socket.
ServeOld(s) ==
    /\ old[s].up # <<>>
    /\ LET m == Head(old[s].up)
       IN \E registered \in BOOLEAN :
            /\ old' = [old EXCEPT ![s].registered = registered, ![s].up = Tail(@)]
            /\ IF m.type = "driver-register"
               THEN \/ registered /\ bus' = Fresh(old[s].of)
                    \/ registered = old[s].registered /\ bus' = bus
               ELSE /\ registered = old[s].registered
                    /\ bus' = IF registered THEN Served(m, old[s].of, bus) ELSE bus
    /\ UNCHANGED <<account, link, wishes, shown, up, down, session>>

\* The session of a lost socket is removed, and the bus of its code.
OldSessionRemoved(s) ==
    /\ old[s].registered
    /\ old' = [old EXCEPT ![s] = Done]
    /\ bus' = NoBus
    /\ UNCHANGED <<account, link, wishes, shown, up, down, session>>

-----------------------------------------------------------------------------
Next ==
    \/ SubmitLogin \/ LoginFails \/ TokenExpires \/ Logout \/ Reload
    \/ \E d \in Account : LoginSucceeds(d)
    \/ Open \/ Lose \/ Retry
    \/ Report \/ ToggleVisibility \/ ShowOthers \/ HideOthers \/ Refresh
    \/ \E l \in Level : PressOccupancy(l)
    \/ HandleOtherDrivers \/ Serve
    \/ \E s \in Lost : ServeOld(s) \/ OldSessionRemoved(s)

Spec == Init /\ [][Next]_vars

\* Timers run and the server serves what has come.  Of connections tried again
\* and again one is accepted, and one lives long enough for a message.
Fairness == WF_vars(Retry) /\ SF_vars(Open) /\ SF_vars(Serve) /\ WF_vars(HandleOtherDrivers)

FairSpec == Spec /\ Fairness

-----------------------------------------------------------------------------
(* Properties.                                                             *)

\* Only the socket of the page has a session, or nobody.
Alone == \A s \in Lost : ~ old[s].registered

\* Whatever was toggled while the socket was down, whatever was served late or
\* retired behind the page's back: a bus the server would show is one whose
\* driver wants it shown, as soon as nothing of this socket is on its way and
\* the sessions of the lost ones are removed.
VisibilityFollowsToggle ==
    link = "open" /\ up = <<>> /\ Alone /\ bus.live /\ bus.placed => bus.visible = toggle

\* A driver who hid the others has no markers of them on the map, whatever answer
\* comes late (the list beside the map stays as it was); and neither there nor in
\* the list is the driver.
HiddenOthersStayHidden == (~ others => marks = {}) /\ user \notin marks \union listed

\* A logout ends the broadcast: although the page reconnects until it is loaded
\* anew, nobody's bus is live once the sessions of its lost sockets are removed.
LogoutEndsBroadcast == user = None /\ Alone => ~ bus.live

\* SYSTEM_DESIGN.md: "drivers re-register on reconnect", unless the server
\* refuses or the page has failed to set itself up.
DriverReregisters ==
    (user # None /\ token.valid) ~>
        (session \in {"registered", "refused"} \/ link = "none" \/ user = None \/ ~ token.valid)

\* SYSTEM_DESIGN.md: "server state rebuilds itself": once the page reports
\* again and nothing is on its way, the server has the crowding the page shows.
CrowdingIsRebuilt ==
    link = "open" /\ up = <<>> /\ Alone /\ bus.live /\ bus.placed => bus.level = active
=============================================================================
