---------------------- MODULE BusTrackingHandlerClaims ----------------------
(***************************************************************************)
(* What the endpoint of BusTrackingHandler promises to riders and pages.   *)
(*                                                                         *)
(* Riders learn that a bus is gone from one message, driver-left.  It is   *)
(* sent to the riders who have a session when the bus is retired, and a    *)
(* message composed before that may still arrive after it.  The history    *)
(* variable excused[c] collects the markers of c that got there, or        *)
(* stayed there, in one of these ways: shown when the bus was gone         *)
(* already, or kept while c had no session to be told by.                  *)
(***************************************************************************)
EXTENDS BusTrackingHandler

VARIABLE excused

cvars == <<sessions, live, io, rem, sweep, alerts, sock, reads, calls, mapped, entering,
           mail, farewells, parting, caster, view, excused>>

Excuse ==
    excused' = [c \in Conn |->
        IF Watching(c)'
        THEN {b \in view'[c] : b \in excused[c] \/ (b \notin view[c] /\ live[b] = None)}
        ELSE view'[c]]

ClaimsInit == HandlerInit /\ excused = [c \in Conn |-> {}]

ClaimsNext == HandlerNext /\ Excuse

ClaimsSpec == ClaimsInit /\ [][ClaimsNext]_cvars

ClaimsTypeOK == HandlerTypeOK /\ excused \in [Conn -> SUBSET Bus]

-----------------------------------------------------------------------------
(* Properties.                                                             *)

\* Somebody has still to send driver-left for b to c.
FarewellPending(b, c) ==
    \/ sweep.pc = "retire" /\ sweep.bus = b
    \/ \E d \in Conn : rem[d] = b
    \/ \E g \in sweep.evicted \union farewells : g.bus = b
    \/ \E s \in Thread : /\ mail[s] # None /\ mail[s].type = "driver-left"
                         /\ b \in mail[s].buses
                         /\ mail[s].to = None \/ c \in mail[s].to

\* A marker on the map of a connected rider is that of a live bus, or its
\* driver-left is under way: whichever of the close callback and the sweeper
\* takes the session, the farewell is sent to every rider who shows the bus.
\* (cleanup, announceDeparture, evictStaleSessions, broadcastToUsers.)
FarewellsReachRiders ==
    \A c \in Conn : \A b \in view[c] \ excused[c] :
        Watching(c) /\ reads[c] = "yes" => live[b] # None \/ FarewellPending(b, c)

-----------------------------------------------------------------------------
(* The inductive strengthening the proofs use.                             *)

\* Evicted sessions the sweeper has still to take leave of.
Gone == sweep.evicted \union farewells

\* The registry's loop starts from nothing and hands over all it evicted.
SweepOrder ==
    /\ sweep.pc # "idle" => farewells = {}
    /\ sweep.pc = "idle" => sweep.evicted = {}
    /\ sweep.pc = "retire" => \E g \in sweep.evicted : g.bus = sweep.bus

\* A session belongs to one socket: it ends with it or is taken leave of, once.
SocketOK(c) ==
    /\ calls[c] > 0 => sock[c] = "closed"
    /\ Registered(c) => sock[c] # "fresh"
    /\ sock[c] # "closed" => c \in mapped \/ c = parting
    /\ c \in entering => ~ Registered(c) /\ sock[c] \in {"fresh", "closed"}
    /\ Registered(c) \/ sock[c] = "fresh" \/ c \in entering
         => c # parting /\ \A g \in Gone : g.conn # c
    /\ \A g \in Gone : g.conn = c => c # parting /\ \A h \in Gone : h.conn = c => g = h
    /\ sock[c] = "registered" /\ ~ Registered(c) => c = parting \/ \E g \in Gone : g.conn = c

SocketInv == \A c \in Conn : SocketOK(c)

\* Nobody overwrites a driver-left that is being sent, and whoever is not
\* watching has nothing to be told.
FarewellInv ==
    /\ \A c \in Conn : rem[c] # None => mail[CloseOf(c)] = None
    /\ \A s \in Thread : mail[s] # None /\ mail[s].type = "driver-left"
                            => s = Sweeper \/ \E c \in Conn : s = CloseOf(c)
    /\ \A c \in Conn : ~ Watching(c) => excused[c] = view[c]
    /\ FarewellsReachRiders

\* No peer has stopped reading for longer than the send limit.
EverybodyReads == \A c \in Conn : reads[c] = "yes"
=============================================================================
