--------------------------- MODULE JourneyPlanner ---------------------------
(***************************************************************************)
(* What GET /api/v1/journeys answers: the graph of                         *)
(* JourneyPlannerService.java, the search in it, and the folding of the    *)
(* path that is found into legs.                                           *)
(*                                                                         *)
(* The town is one long street: a place is an integer.  Lengths are        *)
(* quarters of the distance between neighbouring places (a walk in the     *)
(* streets is 5/4 of the straight one), times are integers as well.  What  *)
(* the service rounds when it answers is not rounded here.                 *)
(***************************************************************************)
EXTENDS RouteGeometry, FiniteSetsExt

CONSTANTS
    Network,        \* the active routes of two stops or more, by number: [stops, path, wait]
    PerRide,        \* BUS_SPEED_KMH, as the time for one unit of length
    PerWalk,        \* WALK_SPEED_KMH
    Dwell,          \* DWELL_MINUTES_PER_STOP
    MaxTransferWalk, MaxAccessWalk, MaxWalkOnly,
    MaxCandidates,  \* MAX_ACCESS_CANDIDATES
    None

ASSUME NetworkAssumption ==
    /\ Network \in Seq([stops : Seq(Int), path : Seq(Int), wait : Nat])
    /\ \A r \in DOMAIN Network : Len(Network[r].stops) >= 2 /\ Len(Network[r].path) >= 2

ASSUME CostAssumption ==
    /\ {PerRide, PerWalk, MaxTransferWalk, MaxAccessWalk, MaxWalkOnly, MaxCandidates} \subseteq Nat
    /\ Dwell \in Nat \ {0}

Straight(p, q) == 4 * Distance(p, q)
Street(p, q) == 5 * Distance(p, q)      \* INDIRECTNESS

-----------------------------------------------------------------------------
(* build: the graph.                                                       *)

\* A node is a stop of a route.
Node == UNION {{<<r, i>> : i \in 1 .. Len(Network[r].stops)} : r \in DOMAIN Network}
ASSUME NoneAssumption == None \notin Node

StopOf(n) == Network[n[1]].stops[n[2]]
Wait(n) == Network[n[1]].wait               \* half the headway
OnPath(n) == 4 * Km(StopOf(n), Network[n[1]].path)

IsRide(u, v) == u[1] = v[1] /\ u[2] - v[2] \in {-1, 1}
IsTransfer(u, v) == u[1] # v[1] /\ Straight(StopOf(u), StopOf(v)) <= MaxTransferWalk
IsEdge(u, v) == IsRide(u, v) \/ IsTransfer(u, v)

\* Along the path, in the direction of the stops; a projection that does not
\* move on falls back to the distance.
RideKm(u, v) ==
    LET ahead == IF u[2] < v[2] THEN OnPath(v) - OnPath(u) ELSE OnPath(u) - OnPath(v)
    IN IF ahead <= 0 THEN Street(StopOf(u), StopOf(v)) ELSE ahead

EdgeKm(u, v) == IF u[1] = v[1] THEN RideKm(u, v) ELSE Straight(StopOf(u), StopOf(v))
Minutes(u, v) ==
    IF u[1] = v[1] THEN EdgeKm(u, v) * PerRide + Dwell ELSE EdgeKm(u, v) * PerWalk + Wait(v)

\* accessCandidates: the nearest stops within reach, the earlier one of two
\* that are equally near.
Precedes(m, n, p) ==
    LET dm == Distance(p, StopOf(m)) dn == Distance(p, StopOf(n))
    IN \/ dm < dn
       \/ dm = dn /\ m[1] < n[1]
       \/ dm = dn /\ m[1] = n[1] /\ m[2] < n[2]
Within(p) == {n \in Node : Straight(p, StopOf(n)) <= MaxAccessWalk}
Candidates(p) == {n \in Within(p) : Cardinality({m \in Within(p) : Precedes(m, n, p)}) < MaxCandidates}

\* (mutant: the first bus is not waited for)
AccessNoWait(p, n) == Street(p, StopOf(n)) * PerWalk
Access(p, n) == Street(p, StopOf(n)) * PerWalk + Wait(n)
Egress(n, q) == Street(StopOf(n), q) * PerWalk

-----------------------------------------------------------------------------
(* planTransit: the search.                                                *)

\* dist has the nodes reached; entries of the queue that are stale do not count.
Reached(s) == DOMAIN s.dist
Open(s) == Reached(s) \ s.settled

Started(p) ==
    [dist |-> [n \in Candidates(p) |-> Access(p, n)],
     via |-> [n \in Candidates(p) |-> None],
     settled |-> {}]

\* (mutant: a stop that was reached keeps its first arrival)
RelaxesNew(s, u, v) == IsEdge(u, v) /\ v \notin Reached(s)
Relaxes(s, u, v) == IsEdge(u, v) /\ (v \in Reached(s) => s.dist[u] + Minutes(u, v) < s.dist[v])

\* One node is polled and settled.
Poll(s) ==
    LET u == CHOOSE u \in Open(s) : \A v \in Open(s) : s.dist[u] <= s.dist[v]
        better == {v \in Node : Relaxes(s, u, v)}
        now == Reached(s) \union better
    IN [dist |-> [v \in now |-> IF v \in better THEN s.dist[u] + Minutes(u, v) ELSE s.dist[v]],
        via |-> [v \in now |-> IF v \in better THEN u ELSE s.via[v]],
        settled |-> s.settled \union {u}]

Search(p) ==
    FoldSet(LAMBDA n, s : IF Open(s) = {} THEN s ELSE Poll(s), Started(p), Node)

\* The stop to get off at, or None.
Alight(s, q) ==
    LET at == Candidates(q) \cap Reached(s)
        total(n) == s.dist[n] + Egress(n, q)
    IN IF at = {} THEN None
       ELSE CHOOSE n \in at : \A m \in at \ {n} :
              total(n) < total(m) \/ (total(n) = total(m) /\ Precedes(n, m, q))

-----------------------------------------------------------------------------
(* fold: the legs.                                                         *)

WalkLeg(p, q, km) ==
    [mode |-> "WALK", from |-> p, to |-> q, route |-> None, board |-> None, alight |-> None,
     stops |-> 0, wait |-> 0, km |-> km, minutes |-> km * PerWalk]

Hops(chain, i, j) == {<<chain[k], chain[k + 1]>> : k \in i .. j - 1}

RideLeg(chain, i, j) ==
    [mode |-> "RIDE", from |-> StopOf(chain[i]), to |-> StopOf(chain[j]),
     route |-> chain[i][1], board |-> chain[i], alight |-> chain[j],
     stops |-> j - i, wait |-> Wait(chain[i]),
     km |-> MapThenSumSet(LAMBDA h : EdgeKm(h[1], h[2]), Hops(chain, i, j)),
     minutes |-> MapThenSumSet(LAMBDA h : Minutes(h[1], h[2]), Hops(chain, i, j))]

\* The predecessors of the last stop.
Chain(s, last) ==
    FoldSet(LAMBDA n, c : IF s.via[Head(c)] = None THEN c ELSE <<s.via[Head(c)]>> \o c, <<last>>, Node)

\* (mutant: the next ride still begins where the first one did)
FoldHopStays(acc, chain, i) ==
    LET change == chain[i][1] # chain[i - 1][1]
        end == IF change THEN i - 1 ELSE i
        rides == IF (change \/ i = Len(chain)) /\ end > acc.start
                 THEN <<RideLeg(chain, acc.start, end)>> ELSE <<>>
        walks == IF change
                 THEN <<WalkLeg(StopOf(chain[i - 1]), StopOf(chain[i]), EdgeKm(chain[i - 1], chain[i]))>>
                 ELSE <<>>
    IN [legs |-> acc.legs \o rides \o walks,
        start |-> acc.start,
        transfers |-> acc.transfers + Len(walks)]

\* One hop: a transfer, and the end of the chain, end a ride.
FoldHop(acc, chain, i) ==
    LET change == chain[i][1] # chain[i - 1][1]
        end == IF change THEN i - 1 ELSE i
        rides == IF (change \/ i = Len(chain)) /\ end > acc.start
                 THEN <<RideLeg(chain, acc.start, end)>> ELSE <<>>
        walks == IF change
                 THEN <<WalkLeg(StopOf(chain[i - 1]), StopOf(chain[i]), EdgeKm(chain[i - 1], chain[i]))>>
                 ELSE <<>>
    IN [legs |-> acc.legs \o rides \o walks,
        start |-> IF change THEN i ELSE acc.start,
        transfers |-> acc.transfers + Len(walks)]

Response(legs, total, transfers) ==
    [legs |-> legs, totalMinutes |-> total, transfers |-> transfers,
     totalKm |-> FoldLeft(LAMBDA km, leg : km + leg.km, 0, legs)]

\* The walk to the destination.  A plan that never boards a bus is none.
Ended(acc, last, total, q) ==
    LET legs == Append(acc.legs, WalkLeg(StopOf(last), q, Street(StopOf(last), q)))
    IN IF \E i \in DOMAIN legs : legs[i].mode = "RIDE"
       THEN Response(legs, total, acc.transfers)
       ELSE None

\* The walk from the origin, and the hops.
Hopped(chain, p) ==
    FoldLeft(LAMBDA a, i : FoldHop(a, chain, i),
             [legs |-> <<WalkLeg(p, StopOf(chain[1]), Street(p, StopOf(chain[1])))>>,
              start |-> 1, transfers |-> 0],
             [i \in 1 .. Len(chain) - 1 |-> i + 1])

Folded(s, last, p, q) ==
    IF last = None THEN None
    ELSE Ended(Hopped(Chain(s, last), p), last, s.dist[last] + Egress(last, q), q)

FoldedTo(s, p, q) == Folded(s, Alight(s, q), p, q)
Transit(p, q) == FoldedTo(Search(p), p, q)

\* Walking all the way, if that is near enough and no slower.
OrWalk(transit, p, q) ==
    LET km == Street(p, q)
        walk == Response(<<WalkLeg(p, q, km)>>, km * PerWalk, 0)
    IN IF km <= MaxWalkOnly /\ (transit = None \/ walk.totalMinutes <= transit.totalMinutes)
       THEN walk ELSE transit

\* plan.  None is an error: the same place twice, or the 404.
Plan(p, q) == IF p = q THEN None ELSE OrWalk(Transit(p, q), p, q)
=============================================================================
