--------------------------- MODULE PlannerProofs ----------------------------
(***************************************************************************)
(* The legs of every plan are a way from the origin to the destination,    *)
(* whatever the network is, and what PlannerPage keeps of the rider's      *)
(* choices and of a plan it shows is right, for any order of visits,       *)
(* clicks and answers.                                                     *)
(***************************************************************************)
EXTENDS PlannerClaims, FoldLemmas, TLAPS

-----------------------------------------------------------------------------
(* Lengths.                                                                *)

\* A distance is a number.
LEMMA DistanceIsNat == \A p, q \in Int : Distance(p, q) \in Nat
BY DEF Distance

\* Where a point projects on a line is a number.
LEMMA SegIsInt == \A p, a, b \in Int : ProjectSeg(p, a, b) \in Int
BY DEF ProjectSeg

\* Costs are not negative.
LEMMA ProductIsNat == \A a, b \in Nat : a * b \in Nat
OBVIOUS

\* There is a first of the closest segments, and the point is on the line.
LEMMA PosOnPath ==
    ASSUME NEW path \in Seq(Int), Len(path) >= 2, NEW p \in Int
    PROVE  RoutePos(p, path).seg \in Segments(path) /\ RoutePos(p, path).pt \in Int
<1> DEFINE off(i) == Distance(p, ProjectSeg(p, path[i], path[i + 1]))
           Offs == {off(i) : i \in Segments(path)}
<1>1. ASSUME NEW i \in Segments(path)
      PROVE  /\ path[i] \in Int /\ path[i + 1] \in Int
             /\ ProjectSeg(p, path[i], path[i + 1]) \in Int /\ off(i) \in Nat
  <2>1. path[i] \in Int /\ path[i + 1] \in Int
    BY DEF Segments
  <2>2. ProjectSeg(p, path[i], path[i + 1]) \in Int
    BY <2>1, SegIsInt
  <2> QED
    BY <2>1, <2>2, DistanceIsNat
<1>2. PICK m \in Offs : \A x \in Offs : m <= x
  <2>1. 1 \in Segments(path)
    BY DEF Segments
  <2> HIDE DEF off
  <2>2. Offs # {} /\ Offs \in SUBSET Nat
    BY <1>1, <2>1
  <2> HIDE DEF Offs
  <2> QED
    BY <2>1, <2>2, LeastExists
<1> DEFINE First == {i \in Segments(path) : off(i) = m}
<1>3. PICK i \in First : \A j \in First : i <= j
  <2>1. First \in SUBSET Nat
    BY DEF Segments
  <2>2. First # {}
    BY <1>2
  <2> HIDE DEF First
  <2> QED
    BY <2>1, <2>2, LeastExists
<1>4. /\ i \in Segments(path)
      /\ \A j \in Segments(path) : off(i) <= off(j)
      /\ \A j \in 1 .. i - 1 : off(i) < off(j)
  <2>1. i \in Segments(path) /\ off(i) = m /\ \A j \in Segments(path) : m <= off(j)
    BY <1>2, <1>3
  <2>2. ASSUME NEW j \in 1 .. i - 1 PROVE off(i) < off(j)
    <3>1. j \in Segments(path)
      BY <2>1, <2>2 DEF Segments
    <3>3. j \notin First
      BY <1>3, <2>1, <2>2 DEF Segments
    <3>2. off(j) # m /\ off(j) \in Nat /\ m \in Nat
      BY <1>1, <2>1, <3>1, <3>3
    <3> HIDE DEF off
    <3> QED
      BY <2>1, <3>1, <3>2
  <2> QED
    BY <2>1, <2>2
<1> DEFINE seg == CHOOSE k \in Segments(path) :
                    /\ \A j \in Segments(path) : off(k) <= off(j)
                    /\ \A j \in 1 .. k - 1 : off(k) < off(j)
<1>5. seg \in Segments(path)
  <2> HIDE DEF off
  <2> QED
    BY <1>4
<1>6. RoutePos(p, path) = [seg |-> seg, pt |-> ProjectSeg(p, path[seg], path[seg + 1])]
  BY DEF RoutePos
<1> HIDE DEF seg
<1> QED
  BY <1>1, <1>5, <1>6

\* The length of a road up to a point of it is a number.
LEMMA KmIsNat ==
    ASSUME NEW path \in Seq(Int), Len(path) >= 2, NEW p \in Int
    PROVE  Km(p, path) \in Nat
<1> DEFINE pos == RoutePos(p, path)
           n == pos.seg - 1
           ids == [i \in 1 .. n |-> i]
           b == Distance(path[pos.seg], pos.pt)
           step(i) == Distance(path[i], path[i + 1])
           IsFold(f) == f = [s \in SUBSET (DOMAIN ids) |->
                               IF s = {} THEN b ELSE f[s \ {Max(s)}] + step(ids[Max(s)])]
           fold == CHOOSE f : IsFold(f)
<1>1. n \in Nat /\ b \in Nat /\ \A i \in 1 .. n : step(i) \in Nat
  <2>1. pos.seg \in Segments(path) /\ pos.pt \in Int
    BY PosOnPath
  <2> HIDE DEF pos
  <2>2. pos.seg \in Nat /\ pos.seg >= 1 /\ pos.seg <= Len(path) - 1
    BY <2>1 DEF Segments
  <2>3. n \in Nat /\ path[pos.seg] \in Int
    BY <2>2
  <2>4. ASSUME NEW i \in 1 .. n PROVE path[i] \in Int /\ path[i + 1] \in Int
    <3>1. i \in Nat /\ i >= 1 /\ i <= pos.seg - 1
      BY <2>2
    <3> HIDE DEF n
    <3>2. Len(path) \in Nat
      OBVIOUS
    <3>3. i \in 1 .. Len(path) /\ i + 1 \in 1 .. Len(path)
      BY <2>2, <3>1, <3>2
    <3> QED
      BY <3>3
  <2> HIDE DEF n
  <2> QED
    BY <2>1, <2>3, <2>4, DistanceIsNat
<1>2. Km(p, path) = fold[DOMAIN ids]
  BY DEF Km, CumKm, FoldLeft, MapThenFoldSet
<1>3. DOMAIN ids = 1 .. n /\ \A i \in 1 .. n : ids[i] = i
  OBVIOUS
<1> HIDE DEF pos, n, ids, b, step, fold, IsFold
<1> DEFINE op == [x \in (1 .. n) \X Nat |-> x[2] + step(x[1])]
<1>4. PICK g : LeftSolves(g, n, b, op, Nat)
  <2>1. op \in [(1 .. n) \X Nat -> Nat]
    BY <1>1
  <2> HIDE DEF op
  <2>2. n \in Nat /\ b \in Nat
    BY <1>1
  <2> QED
    BY <2>1, <2>2, LeftFoldExists
<1>5. IsFold(g)
  <2>1. ASSUME NEW s \in SUBSET (1 .. n)
        PROVE  g[s] = IF s = {} THEN b ELSE g[s \ {Max(s)}] + step(ids[Max(s)])
    <3>1. s # {} => Max(s) \in 1 .. n
      BY <1>1, LastOfMany
    <3> QED
      BY <1>3, <1>4, <3>1 DEF LeftSolves
  <2> QED
    BY <1>3, <1>4, <2>1 DEF IsFold, LeftSolves
<1>6. IsFold(fold)
  BY <1>5 DEF fold
<1> USE DEF IsFold
<1> HIDE DEF fold
<1> DEFINE T == {k \in Nat : k <= n => fold[1 .. k] \in Nat}
<1>7. 0 \in T
  BY <1>1, <1>3, <1>6
<1>8. ASSUME NEW k \in Nat, k \in T PROVE k + 1 \in T
  <2>1. SUFFICES ASSUME k + 1 <= n PROVE fold[1 .. (k + 1)] \in Nat
    OBVIOUS
  <2>2. k + 1 \in 1 .. n /\ fold[1 .. k] \in Nat /\ step(k + 1) \in Nat
    BY <1>1, <1>8, <2>1
  <2>3. /\ 1 .. (k + 1) \in SUBSET (1 .. n) /\ 1 .. (k + 1) # {} /\ Max(1 .. (k + 1)) = k + 1
        /\ (1 .. (k + 1)) \ {k + 1} = 1 .. ((k + 1) - 1)
    BY <1>1, <2>2, LastOfMany
  <2>4. (k + 1) - 1 = k
    OBVIOUS
  <2>6. fold[1 .. (k + 1)] = fold[(1 .. (k + 1)) \ {Max(1 .. (k + 1))}]
                            + step(ids[Max(1 .. (k + 1))])
    BY <1>3, <1>6, <2>3
  <2>7. ids[k + 1] = k + 1
    BY <1>3, <2>2
  <2>5. fold[1 .. (k + 1)] = fold[1 .. k] + step(k + 1)
    BY <2>3, <2>4, <2>6, <2>7
  <2> QED
    BY <2>2, <2>5
<1>9. n \in T
  <2> HIDE DEF T
  <2> QED
    BY <1>1, <1>7, <1>8, NumbersAreReached
<1> QED
  BY <1>1, <1>2, <1>3, <1>9

-----------------------------------------------------------------------------
(* The graph.                                                              *)

\* What the network assumption says of one route.
LEMMA RouteFacts ==
    /\ DOMAIN Network = 1 .. Len(Network) /\ Len(Network) \in Nat
    /\ \A r \in DOMAIN Network :
         /\ Network[r].stops \in Seq(Int) /\ Network[r].path \in Seq(Int)
         /\ Network[r].wait \in Nat /\ Len(Network[r].path) >= 2
         /\ Len(Network[r].stops) \in Nat
<1> DEFINE Row == [stops : Seq(Int), path : Seq(Int), wait : Nat]
<1>1. Network \in Seq(Row) /\ \A r \in DOMAIN Network : Len(Network[r].path) >= 2
  BY NetworkAssumption
<1>2. DOMAIN Network = 1 .. Len(Network) /\ Len(Network) \in Nat
  BY <1>1
<1>3. ASSUME NEW r \in DOMAIN Network
      PROVE  /\ Network[r].stops \in Seq(Int) /\ Network[r].path \in Seq(Int)
             /\ Network[r].wait \in Nat /\ Len(Network[r].stops) \in Nat
  <2>1. Network[r] \in Row
    <3> HIDE DEF Row
    <3> QED
      BY <1>1, <1>2
  <2>2. /\ Network[r].stops \in Seq(Int) /\ Network[r].path \in Seq(Int)
        /\ Network[r].wait \in Nat
    BY <2>1
  <2> QED
    BY <2>2
<1> QED
  BY <1>1, <1>2, <1>3

\* A node is a route and the place of a stop in it; there are finitely many.
LEMMA NodeIs ==
    ASSUME NEW n \in Node
    PROVE  /\ n[1] \in DOMAIN Network /\ n[2] \in 1 .. Len(Network[n[1]].stops)
           /\ n = <<n[1], n[2]>> /\ n[2] \in Nat
BY RouteFacts DEF Node

\* The search ends because a network has finitely many stops.
LEMMA NodesAreFinite == IsFiniteSet(Node)
<1> DEFINE OfRoute == [r \in DOMAIN Network |-> {<<r, i>> : i \in 1 .. Len(Network[r].stops)}]
<1>1. ASSUME NEW r \in DOMAIN Network PROVE IsFiniteSet(OfRoute[r])
  <2> DEFINE m == Len(Network[r].stops)
             f == [i \in 1 .. m |-> <<r, i>>]
  <2>1. m \in Nat
    BY RouteFacts
  <2> HIDE DEF m
  <2>5. f = [i \in 1 .. m |-> f[i]]
    OBVIOUS
  <2>2. IsFiniteSet(1 .. m)
    BY <2>1, FS_Interval
  <2>3. IsFiniteSet({f[i] : i \in 1 .. m})
    BY <2>2, <2>5, ImageIsFinite
  <2>4. OfRoute[r] = {f[i] : i \in 1 .. m}
    BY DEF m
  <2> QED
    BY <2>3, <2>4
<1>2. IsFiniteSet(DOMAIN Network)
  BY RouteFacts, FS_Interval
<1> HIDE DEF OfRoute
<1>3. OfRoute = [r \in DOMAIN Network |-> OfRoute[r]]
  BY DEF OfRoute
<1>4. IsFiniteSet({OfRoute[r] : r \in DOMAIN Network})
  BY <1>2, <1>3, ImageIsFinite
<1>5. IsFiniteSet(UNION {OfRoute[r] : r \in DOMAIN Network})
  BY <1>1, <1>4, FS_UNION
<1>6. Node = UNION {OfRoute[r] : r \in DOMAIN Network}
  BY DEF Node, OfRoute
<1> QED
  BY <1>5, <1>6

\* A stop is a point, and lies somewhere on the road of its route.
LEMMA StopFacts ==
    ASSUME NEW n \in Node
    PROVE  StopOf(n) \in Int /\ Wait(n) \in Nat /\ OnPath(n) \in Nat
<1>1. StopOf(n) \in Int /\ Wait(n) \in Nat
  BY NodeIs, RouteFacts DEF StopOf, Wait
<1>2. Km(StopOf(n), Network[n[1]].path) \in Nat
  BY <1>1, NodeIs, RouteFacts, KmIsNat
<1> QED
  BY <1>1, <1>2 DEF OnPath

\* Every edge takes time, and a ride takes some.
LEMMA MinutesOfEdge ==
    ASSUME NEW u \in Node, NEW v \in Node
    PROVE  /\ Minutes(u, v) \in Nat /\ (u[1] = v[1] => Minutes(u, v) > 0)
           /\ EdgeKm(u, v) * PerWalk \in Nat
<1>1. /\ StopOf(u) \in Int /\ StopOf(v) \in Int /\ OnPath(u) \in Nat /\ OnPath(v) \in Nat
      /\ Wait(v) \in Nat /\ u[2] \in Nat /\ v[2] \in Nat
  BY StopFacts, NodeIs
<1>2. Distance(StopOf(u), StopOf(v)) \in Nat
  BY <1>1, DistanceIsNat
<1>3. Straight(StopOf(u), StopOf(v)) \in Nat /\ Street(StopOf(u), StopOf(v)) \in Nat
  BY <1>2 DEF Straight, Street
<1>4. RideKm(u, v) \in Nat
  BY <1>1, <1>3 DEF RideKm
<1>5. EdgeKm(u, v) \in Nat
  BY <1>3, <1>4 DEF EdgeKm
<1>6. PerRide \in Nat /\ PerWalk \in Nat /\ Dwell \in Nat /\ Dwell > 0
  BY CostAssumption
<1>7. EdgeKm(u, v) * PerRide \in Nat /\ EdgeKm(u, v) * PerWalk \in Nat
  BY <1>5, <1>6, ProductIsNat
<1> QED
  BY <1>1, <1>6, <1>7 DEF Minutes

\* Before the first stop and after the last one.
LEMMA EndsTakeTime ==
    ASSUME NEW n \in Node, NEW p \in Int
    PROVE  /\ Access(p, n) \in Nat /\ Egress(n, p) \in Nat
           /\ Street(p, StopOf(n)) * PerWalk \in Nat
<1>1. StopOf(n) \in Int /\ Wait(n) \in Nat /\ PerWalk \in Nat
  BY StopFacts, CostAssumption
<1>2. Street(p, StopOf(n)) \in Nat /\ Street(StopOf(n), p) \in Nat
  <2>1. Distance(p, StopOf(n)) \in Nat /\ Distance(StopOf(n), p) \in Nat
    BY <1>1, DistanceIsNat
  <2> QED
    BY <2>1 DEF Street
<1>3. Street(p, StopOf(n)) * PerWalk \in Nat /\ Street(StopOf(n), p) * PerWalk \in Nat
  BY <1>1, <1>2, ProductIsNat
<1> QED
  BY <1>1, <1>3 DEF Access, Egress

-----------------------------------------------------------------------------
(* The search.                                                             *)

Table == [dist : UNION {[R -> Nat] : R \in SUBSET Node},
          via : UNION {[R -> Node \union {None}] : R \in SUBSET Node},
          settled : SUBSET Node]

\* A predecessor has been taken out of the queue, and its edge is what the time
\* of the stop comes from.
Leads(s, u, v) == u \in s.settled /\ IsEdge(u, v) /\ s.dist[u] + Minutes(u, v) = s.dist[v]

\* The stops taken out are the nearest ones.  What nothing precedes is reached on
\* foot, and predecessors do not go in circles.  No walk to a stop, and no edge from
\* a stop taken out, comes earlier than the time of the stop.
SearchOK(p, s) ==
    /\ DOMAIN s.via = Reached(s) /\ s.settled \subseteq Reached(s)
    /\ \A u \in s.settled, v \in Open(s) : s.dist[u] <= s.dist[v]
    /\ \A v \in Reached(s) : IF s.via[v] = None THEN s.dist[v] = Access(p, v)
                                                ELSE Leads(s, s.via[v], v)
    /\ \A Z \in SUBSET Reached(s) : Z # {} => \E v \in Z : s.via[v] = None \/ s.via[v] \notin Z
    /\ \A v \in Candidates(p) : v \in Reached(s) /\ s.dist[v] <= Access(p, v)
    /\ \A u \in s.settled, v \in Node :
          IsEdge(u, v) => v \in Reached(s) /\ s.dist[v] <= s.dist[u] + Minutes(u, v)

Searches(p) == {s \in Table : SearchOK(p, s)}

\* What a state of the search has, stop by stop.
LEMMA SearchHas ==
    ASSUME NEW p, NEW s \in Searches(p)
    PROVE  /\ Reached(s) \subseteq Node /\ s.dist \in [Reached(s) -> Nat]
           /\ s.via \in [Reached(s) -> Node \union {None}] /\ s.settled \subseteq Reached(s)
           /\ \A u \in s.settled, v \in Open(s) : s.dist[u] <= s.dist[v]
           /\ \A v \in Reached(s) : IF s.via[v] = None THEN s.dist[v] = Access(p, v)
                                                       ELSE Leads(s, s.via[v], v)
           /\ \A Z \in SUBSET Reached(s) :
                Z # {} => \E v \in Z : s.via[v] = None \/ s.via[v] \notin Z
           /\ \A v \in Candidates(p) : v \in Reached(s) /\ s.dist[v] <= Access(p, v)
           /\ \A u \in s.settled, v \in Node :
                IsEdge(u, v) => v \in Reached(s) /\ s.dist[v] <= s.dist[u] + Minutes(u, v)
<1>1. s \in Table /\ SearchOK(p, s)
  BY DEF Searches
<1>2. PICK R \in SUBSET Node : s.dist \in [R -> Nat]
  BY <1>1 DEF Table
<1>3. PICK Q \in SUBSET Node : s.via \in [Q -> Node \union {None}]
  BY <1>1 DEF Table
<1>4. R = Reached(s) /\ Q = Reached(s)
  BY <1>1, <1>2, <1>3 DEF SearchOK, Reached
<1>5. s.via \in [Reached(s) -> Node \union {None}]
  BY <1>3, <1>4
<1> QED
  BY <1>1, <1>2, <1>4, <1>5 DEF SearchOK

\* The search starts at the stops in reach, which nothing precedes.
LEMMA StartedOK ==
    ASSUME NEW p \in Int
    PROVE  Started(p) \in Searches(p)
<1>1. Candidates(p) \in SUBSET Node
  BY DEF Candidates, Within
<1>2. [n \in Candidates(p) |-> Access(p, n)] \in [Candidates(p) -> Nat]
  BY <1>1, EndsTakeTime
<1>3. [n \in Candidates(p) |-> None] \in [Candidates(p) -> Node \union {None}]
  OBVIOUS
<1>4. Started(p) \in Table
  BY <1>1, <1>2, <1>3 DEF Started, Table
<1>6. \A n \in Candidates(p) : Access(p, n) \in Nat
  BY <1>2
<1>5. SearchOK(p, Started(p))
  BY <1>6 DEF Started, SearchOK, Reached
<1> QED
  BY <1>4, <1>5 DEF Searches

\* Taking the nearest open stop out of the queue keeps SearchOK.  A stop that was
\* taken out before is as near, so none of them is improved: what they lead to
\* keeps its time, and a circle would have to go through a stop improved now.
LEMMA PollOK ==
    ASSUME NEW p \in Int, NEW s \in Searches(p), Open(s) # {}
    PROVE  Poll(s) \in Searches(p) /\ \E u \in Open(s) : Poll(s).settled = s.settled \union {u}
<1> DEFINE u == CHOOSE x \in Open(s) : \A v \in Open(s) : s.dist[x] <= s.dist[v]
           better == {v \in Node : Relaxes(s, u, v)}
           now == Reached(s) \union better
           done == s.settled \union {u}
           dist == [v \in now |-> IF v \in better THEN s.dist[u] + Minutes(u, v) ELSE s.dist[v]]
           via == [v \in now |-> IF v \in better THEN u ELSE s.via[v]]
           polled == [dist |-> dist, via |-> via, settled |-> done]
<1>1. Poll(s) = polled
  BY DEF Poll
<1>2. u \in Open(s) /\ \A v \in Open(s) : s.dist[u] <= s.dist[v]
  <2> DEFINE Times == {s.dist[v] : v \in Open(s)}
  <2>1. Times \in SUBSET Nat /\ Times # {}
    BY SearchHas DEF Open
  <2>2. PICK m \in Times : \A x \in Times : m <= x
    <3> HIDE DEF Times
    <3> QED
      BY <2>1, LeastExists
  <2>3. \E x \in Open(s) : \A v \in Open(s) : s.dist[x] <= s.dist[v]
    BY <2>2
  <2> QED
    BY <2>3
<1> HIDE DEF u
<1>3. u \in Reached(s) /\ u \in Node /\ s.dist[u] \in Nat /\ u \notin s.settled
  BY <1>2, SearchHas DEF Open
<1>4. \A v \in better : v \in Node /\ Relaxes(s, u, v) /\ Minutes(u, v) \in Nat
  BY <1>3, MinutesOfEdge
<1>5. \A v \in done : v \in Reached(s) /\ s.dist[v] \in Nat /\ s.dist[v] <= s.dist[u]
  BY <1>2, <1>3, SearchHas
<1>6. \A v \in done : v \notin better
  BY <1>3, <1>4, <1>5 DEF Relaxes
<1> HIDE DEF better
<1>7. now \in SUBSET Node /\ done \in SUBSET now
  BY <1>4, <1>5, SearchHas
<1>8. dist \in [now -> Nat]
  BY <1>3, <1>4, SearchHas
<1>9. via \in [now -> Node \union {None}]
  BY <1>3, SearchHas
<1>10. \A v \in done : dist[v] = s.dist[v] /\ via[v] = s.via[v]
  BY <1>5, <1>6
<1>11. polled \in Table
  <2> HIDE DEF dist, via, now, done
  <2> QED
    BY <1>7, <1>8, <1>9 DEF Table
<1>12. Reached(polled) = now /\ DOMAIN via = now
  BY DEF Reached
<1>13. \A v \in Open(polled) : dist[v] \in Nat /\ s.dist[u] <= dist[v]
  <2> SUFFICES ASSUME NEW v \in now, v \notin done PROVE dist[v] \in Nat /\ s.dist[u] <= dist[v]
    BY <1>12 DEF Open
  <2>1. CASE v \in better
    BY <1>3, <1>4, <2>1
  <2>2. CASE v \notin better
    <3>1. v \in Open(s) /\ dist[v] = s.dist[v]
      BY <2>2 DEF Open
    <3> QED
      BY <1>2, <1>8, <3>1
  <2> QED
    BY <2>1, <2>2
<1>14. \A a \in done, v \in Open(polled) : dist[a] <= dist[v]
  <2> HIDE DEF dist, done, polled
  <2>1. \A a \in done : dist[a] \in Nat /\ dist[a] <= s.dist[u]
    BY <1>5, <1>10
  <2> QED
    BY <1>3, <1>13, <2>1
<1>15. \A v \in now : via[v] = None \/ via[v] \in done
  BY SearchHas DEF Leads
<1>16. ASSUME NEW v \in now
       PROVE  IF via[v] = None THEN dist[v] = Access(p, v) ELSE Leads(polled, via[v], v)
  <2>1. CASE v \in better
    <3>1. via[v] = u /\ dist[v] = s.dist[u] + Minutes(u, v) /\ dist[u] = s.dist[u] /\ u \in done
      BY <1>10, <2>1
    <3>2. IsEdge(u, v) /\ u # None
      BY <1>3, <1>4, <2>1, NoneAssumption DEF Relaxes
    <3> HIDE DEF dist, via, now, done
    <3> QED
      BY <3>1, <3>2 DEF Leads
  <2>2. CASE v \notin better
    <3> DEFINE w == s.via[v]
    <3>1. v \in Reached(s) /\ via[v] = w /\ dist[v] = s.dist[v]
      BY <2>2
    <3>2. IF w = None THEN s.dist[v] = Access(p, v) ELSE Leads(s, w, v)
      BY <3>1, SearchHas
    <3>3. w # None => w \in done /\ dist[w] = s.dist[w]
      BY <1>10, <3>2 DEF Leads
    <3> HIDE DEF dist, via, now, done, w
    <3> QED
      BY <3>1, <3>2, <3>3 DEF Leads
  <2> QED
    BY <2>1, <2>2
<1>17. ASSUME NEW Z \in SUBSET now, Z # {}
       PROVE  \E v \in Z : via[v] = None \/ via[v] \notin Z
  <2>1. CASE Z \intersect done # {}
    <3>1. PICK v \in Z \intersect done : s.via[v] = None \/ s.via[v] \notin Z \intersect done
      <4>1. Z \intersect done \in SUBSET Reached(s)
        BY <1>5
      <4> QED
        BY <2>1, <4>1, SearchHas
    <3>2. via[v] = s.via[v] /\ v \in now
      BY <1>10
    <3> HIDE DEF via, now, done
    <3> QED
      BY <1>15, <3>1, <3>2
  <2>2. CASE Z \intersect done = {}
    <3> HIDE DEF via, done
    <3> QED
      BY <1>15, <1>17, <2>2
  <2> QED
    BY <2>1, <2>2
<1>19. ASSUME NEW v \in Reached(s) PROVE v \in now /\ dist[v] \in Nat /\ dist[v] <= s.dist[v]
  <2>1. v \in now /\ dist[v] \in Nat /\ s.dist[v] \in Nat
    BY <1>8, SearchHas
  <2>2. CASE v \in better
    BY <1>4, <2>1, <2>2 DEF Relaxes
  <2>3. CASE v \notin better
    BY <2>1, <2>3
  <2> QED
    BY <2>1, <2>2, <2>3
<1>20. ASSUME NEW v \in Candidates(p) PROVE v \in now /\ dist[v] <= Access(p, v)
  <2>1. v \in Reached(s) /\ s.dist[v] <= Access(p, v) /\ s.dist[v] \in Nat /\ v \in Node
    BY SearchHas
  <2>2. Access(p, v) \in Nat
    BY <2>1, EndsTakeTime
  <2> HIDE DEF dist, now
  <2> QED
    BY <1>19, <2>1, <2>2
<1>21. ASSUME NEW a \in done, NEW v \in Node, IsEdge(a, v)
       PROVE  v \in now /\ dist[v] <= dist[a] + Minutes(a, v)
  <2>1. dist[a] = s.dist[a] /\ s.dist[a] \in Nat /\ a \in Node /\ Minutes(a, v) \in Nat
    <3>1. dist[a] = s.dist[a] /\ a \in Reached(s)
      BY <1>5, <1>10
    <3>2. s.dist[a] \in Nat /\ a \in Node
      BY <3>1, SearchHas
    <3> QED
      BY <3>1, <3>2, MinutesOfEdge
  <2>2. CASE v \in better /\ a = u
    BY <2>1, <2>2, <1>4
  <2>3. CASE v \notin better /\ a = u
    <3>1. v \in Reached(s) /\ ~ (s.dist[u] + Minutes(u, v) < s.dist[v])
      BY <1>21, <2>3 DEF better, Relaxes
    <3>2. v \in now /\ dist[v] = s.dist[v] /\ s.dist[v] \in Nat
      BY <2>3, <3>1, SearchHas
    <3> HIDE DEF dist, now, done
    <3> QED
      BY <2>1, <2>3, <3>1, <3>2
  <2>4. CASE a # u
    <3>1. a \in s.settled
      BY <2>4
    <3>2. v \in Reached(s) /\ s.dist[v] <= s.dist[a] + Minutes(a, v) /\ s.dist[v] \in Nat
      BY <1>21, <3>1, SearchHas
    <3> HIDE DEF dist, now, done
    <3> QED
      BY <1>19, <2>1, <3>2
  <2> QED
    BY <2>2, <2>3, <2>4
<1>18. SearchOK(p, polled)
  <2>1. DOMAIN via = now /\ done \subseteq now
    BY <1>7
  <2> HIDE DEF dist, via, now, done
  <2> QED
    BY <1>12, <1>14, <1>16, <1>17, <1>20, <1>21, <2>1 DEF SearchOK
<1>22. polled.settled = s.settled \union {u}
  OBVIOUS
<1> HIDE DEF polled
<1> QED
  BY <1>1, <1>2, <1>11, <1>18, <1>22 DEF Searches

\* The search, a fold over as many polls as there are stops, ends in such a state,
\* and with an empty queue: a poll takes out one stop more.
LEMMA SearchFinds ==
    ASSUME NEW p \in Int
    PROVE  Search(p) \in Searches(p) /\ Open(Search(p)) = {}
<1> DEFINE b == Started(p)
           ch == [s \in SUBSET Node |-> CHOOSE x \in s : TRUE]
           IsFold(f) == f = [s \in SUBSET Node |->
                               IF s = {} THEN b
                               ELSE IF Open(f[s \ {CHOOSE x \in s : TRUE}]) = {}
                                    THEN f[s \ {CHOOSE x \in s : TRUE}]
                                    ELSE Poll(f[s \ {CHOOSE x \in s : TRUE}])]
           fold == CHOOSE f : IsFold(f)
           op == [x \in Node \X Searches(p) |-> IF Open(x[2]) = {} THEN x[2] ELSE Poll(x[2])]
<1>1. Search(p) = fold[Node]
  BY DEF Search, FoldSet, MapThenFoldSet
<1>2. op \in [Node \X Searches(p) -> Searches(p)]
  BY PollOK
<1>10. \A y \in Node, r \in Searches(p) : op[<<y, r>>] = IF Open(r) = {} THEN r ELSE Poll(r)
  OBVIOUS
<1>3. b \in Searches(p)
  BY StartedOK
<1>4. \A s \in SUBSET Node : s # {} => ch[s] \in s
  OBVIOUS
<1> HIDE DEF b, fold
<1>5. PICK g : Solves(g, SUBSET Node, b, op, ch, Searches(p))
  <2> HIDE DEF op, ch, IsFold
  <2> QED
    BY <1>2, <1>3, <1>4, NodesAreFinite, FoldExists
<1>6. IsFold(g)
  <2>1. ASSUME NEW s \in SUBSET Node, s # {}
        PROVE  LET r == g[s \ {CHOOSE x \in s : TRUE}]
               IN  g[s] = IF Open(r) = {} THEN r ELSE Poll(r)
    <3> DEFINE y == CHOOSE x \in s : TRUE
    <3>1. y \in Node /\ s \ {y} \in SUBSET Node /\ ch[s] = y
      BY <2>1
    <3> HIDE DEF y
    <3>2. g[s \ {y}] \in Searches(p) /\ g[s] = op[<<y, g[s \ {y}]>>]
      BY <1>5, <2>1, <3>1 DEF Solves
    <3>3. g[s] = IF Open(g[s \ {y}]) = {} THEN g[s \ {y}] ELSE Poll(g[s \ {y}])
      <4> HIDE DEF op
      <4> QED
        BY <1>10, <3>1, <3>2
    <3> QED
      BY <3>3 DEF y
  <2>2. g = [s \in SUBSET Node |-> g[s]] /\ g[{}] = b
    BY <1>5 DEF Solves
  <2> QED
    BY <2>1, <2>2
<1>7. IsFold(fold)
  <2> HIDE DEF IsFold
  <2> QED
    BY <1>6 DEF fold
<1> DEFINE Num(t) == Cardinality(fold[t].settled)
           T == {t \in SUBSET Node :
                   fold[t] \in Searches(p) /\ (Open(fold[t]) = {} \/ Num(t) = Cardinality(t))}
<1>8. {} \in T
  <2>1. fold[{}] = b /\ b.settled = {}
    <3>1. b.settled = {}
      BY DEF b, Started
    <3> QED
      BY <1>7, <3>1
  <2> HIDE DEF IsFold
  <2> QED
    BY <1>3, <2>1
<1>9. ASSUME NEW t \in SUBSET Node, t # {}, \A x \in t : t \ {x} \in T PROVE t \in T
  <2> DEFINE y == CHOOSE x \in t : TRUE
             r == fold[t \ {y}]
  <2>1. y \in t
    BY <1>9
  <2>2. fold[t] = IF Open(r) = {} THEN r ELSE Poll(r)
    BY <1>7, <1>9
  <2>3. r \in Searches(p) /\ (Open(r) = {} \/ Cardinality(r.settled) = Cardinality(t \ {y}))
    BY <1>9, <2>1
  <2> HIDE DEF y, r, IsFold
  <2>4. CASE Open(r) = {}
    BY <2>2, <2>3, <2>4
  <2>5. CASE Open(r) # {}
    <3>1. Poll(r) \in Searches(p)
      BY <2>3, <2>5, PollOK
    <3>2. PICK u \in Open(r) : Poll(r).settled = r.settled \union {u}
      BY <2>3, <2>5, PollOK
    <3>3. IsFiniteSet(r.settled) /\ u \notin r.settled
      <4>1. r.settled \subseteq Node
        BY <2>3, SearchHas
      <4> QED
        BY <3>2, <4>1, NodesAreFinite, FS_Subset DEF Open
    <3>4. Cardinality(Poll(r).settled) = Cardinality(r.settled) + 1
      BY <3>2, <3>3, FS_AddElement, Zenon
    <3>5. IsFiniteSet(t)
      BY NodesAreFinite, FS_Subset
    <3>6. Cardinality(t \ {y}) = Cardinality(t) - 1 /\ Cardinality(t) \in Nat
      <4>1. Cardinality(t \ {y}) = Cardinality(t) - 1
        BY <2>1, <3>5, FS_RemoveElement, Zenon
      <4> QED
        BY <3>5, <4>1, FS_CardinalityType
    <3>7. Cardinality(Poll(r).settled) = Cardinality(t)
      BY <2>3, <2>5, <3>4, <3>6
    <3> QED
      BY <2>2, <2>5, <3>1, <3>7
  <2> QED
    BY <2>4, <2>5
<1> HIDE DEF IsFold
<1>11. Node \in T
  <2> HIDE DEF T
  <2>1. SUBSET Node \subseteq T
    BY <1>8, <1>9, NodesAreFinite, SubsetsAreReached
  <2> QED
    BY <2>1
<1>12. Open(fold[Node]) = {}
  <2>1. fold[Node].settled \subseteq Node /\ Reached(fold[Node]) \subseteq Node
    BY <1>11, SearchHas
  <2>2. CASE Num(Node) = Cardinality(Node)
    <3>1. fold[Node].settled = Node
      BY <2>1, <2>2, NodesAreFinite, FS_Subset
    <3> QED
      BY <2>1, <3>1 DEF Open
  <2> QED
    BY <1>11, <2>2
<1> QED
  BY <1>1, <1>11, <1>12

\* There is a stop to get off at: the first of those of least time.
LEMMA AlightIsReached ==
    ASSUME NEW p, NEW s \in Searches(p), NEW q \in Int, Alight(s, q) # None
    PROVE  /\ Alight(s, q) \in Reached(s)
           /\ \A m \in Candidates(q) \intersect Reached(s) :
                s.dist[Alight(s, q)] + Egress(Alight(s, q), q) <= s.dist[m] + Egress(m, q)
<1> DEFINE at == Candidates(q) \intersect Reached(s)
           total == [n \in at |-> s.dist[n] + Egress(n, q)]
           far == [n \in at |-> Distance(q, StopOf(n))]
           route == [n \in at |-> n[1]]
           row == [n \in at |-> n[2]]
           Best(n) == \A m \in at \ {n} : \/ total[n] < total[m]
                                          \/ total[n] = total[m] /\ Precedes(n, m, q)
<1>1. ASSUME NEW n \in at
      PROVE  /\ n \in Reached(s) /\ n \in Node /\ total[n] \in Nat /\ far[n] \in Nat
             /\ route[n] \in Nat /\ row[n] \in Nat
  <2>1. n \in Reached(s) /\ n \in Node /\ s.dist[n] \in Nat
    BY SearchHas
  <2>2. Egress(n, q) \in Nat /\ StopOf(n) \in Int /\ n[1] \in Nat /\ n[2] \in Nat
    BY <2>1, EndsTakeTime, StopFacts, NodeIs, RouteFacts
  <2>3. Distance(q, StopOf(n)) \in Nat
    BY <2>2, DistanceIsNat
  <2> QED
    BY <2>1, <2>2, <2>3
<1>2. at # {}
  BY DEF Alight
<1>3. \A n, m \in at : Precedes(n, m, q) <=>
         \/ far[n] < far[m]
         \/ far[n] = far[m] /\ route[n] < route[m]
         \/ far[n] = far[m] /\ route[n] = route[m] /\ row[n] < row[m]
  BY DEF Precedes
<1>7. \A n, m \in at : route[n] = route[m] /\ row[n] = row[m] => n = m
  BY <1>1, NodeIs
<1>8. Alight(s, q) = CHOOSE n \in at : Best(n)
  <2>1. Alight(s, q) = CHOOSE n \in at : \A m \in at \ {n} :
           \/ s.dist[n] + Egress(n, q) < s.dist[m] + Egress(m, q)
           \/ s.dist[n] + Egress(n, q) = s.dist[m] + Egress(m, q) /\ Precedes(n, m, q)
    BY <1>2 DEF Alight
  <2>2. \A n \in at : Best(n) <=> \A m \in at \ {n} :
           \/ s.dist[n] + Egress(n, q) < s.dist[m] + Egress(m, q)
           \/ s.dist[n] + Egress(n, q) = s.dist[m] + Egress(m, q) /\ Precedes(n, m, q)
    OBVIOUS
  <2> HIDE DEF Best, total
  <2> QED
    BY <2>1, <2>2
<1> HIDE DEF at, total, far, route, row
<1> DEFINE S1 == {n \in at : \A m \in at : total[n] <= total[m]}
           S2 == {n \in S1 : \A m \in S1 : far[n] <= far[m]}
           S3 == {n \in S2 : \A m \in S2 : route[n] <= route[m]}
<1>4. S1 # {}
  BY <1>1, <1>2, LeastOf
<1>5. S2 # {}
  <2>1. \A n \in S1 : far[n] \in Nat
    BY <1>1
  <2> HIDE DEF S1
  <2> QED
    BY <1>4, <2>1, LeastOf
<1>6. S3 # {}
  <2>1. \A n \in S2 : route[n] \in Nat
    BY <1>1
  <2> HIDE DEF S2
  <2> QED
    BY <1>5, <2>1, LeastOf
<1>9. PICK n \in S3 : \A m \in S3 : row[n] <= row[m]
  <2>1. \A m \in S3 : row[m] \in Nat
    BY <1>1
  <2> HIDE DEF S3
  <2> QED
    BY <1>6, <2>1, LeastOf
<1>10. n \in at /\ \A m \in at : total[n] <= total[m]
  OBVIOUS
<1>11. ASSUME NEW m \in at, m # n
       PROVE  total[n] < total[m] \/ (total[n] = total[m] /\ Precedes(n, m, q))
  <2>1. total[n] <= total[m] /\ total[n] \in Nat /\ total[m] \in Nat
    BY <1>1, <1>10
  <2>2. CASE total[n] = total[m]
    <3>1. m \in S1
      BY <1>10, <2>2
    <3>2. far[n] <= far[m] /\ far[n] \in Nat /\ far[m] \in Nat
      BY <1>1, <3>1
    <3>3. CASE far[n] = far[m]
      <4>1. m \in S2
        BY <3>1, <3>3
      <4>2. route[n] <= route[m] /\ route[n] \in Nat /\ route[m] \in Nat
        BY <1>1, <4>1
      <4>3. CASE route[n] = route[m]
        <5>1. m \in S3
          BY <4>1, <4>3
        <5>2. row[n] <= row[m] /\ row[n] \in Nat /\ row[m] \in Nat
          BY <1>1, <1>9, <5>1
        <5>3. row[n] # row[m]
          BY <1>7, <1>10, <1>11, <4>3
        <5> QED
          BY <1>3, <1>10, <2>2, <3>3, <4>3, <5>2, <5>3
      <4> QED
        BY <1>3, <1>10, <2>2, <3>3, <4>2, <4>3
    <3> QED
      BY <1>3, <1>10, <2>2, <3>2, <3>3
  <2> QED
    BY <2>1, <2>2
<1>12. Best(n)
  BY <1>11
<1>13. Alight(s, q) \in at /\ Best(Alight(s, q))
  <2> HIDE DEF Best
  <2> QED
    BY <1>8, <1>10, <1>12
<1>14. \A m \in at : total[Alight(s, q)] <= total[m]
  <2>1. \A m \in at : total[m] \in Nat
    BY <1>1
  <2> QED
    BY <1>13, <2>1
<1>15. /\ at = Candidates(q) \intersect Reached(s)
       /\ \A m \in at : total[m] = s.dist[m] + Egress(m, q)
  BY DEF at, total
<1> HIDE DEF Best
<1> QED
  BY <1>13, <1>14, <1>15

-----------------------------------------------------------------------------
(* The predecessors.                                                       *)

\* A way to the last stop: each stop is the predecessor of the next one.
ChainsTo(s, last) ==
    {c \in Seq(Reached(s)) :
        /\ Len(c) >= 1 /\ c[Len(c)] = last
        /\ \A k \in 1 .. Len(c) - 1 : s.via[c[k + 1]] # None /\ c[k] = s.via[c[k + 1]]}

\* One more predecessor before a way to the last stop.
LEMMA Extended ==
    ASSUME NEW p, NEW s \in Searches(p), NEW last, NEW c \in ChainsTo(s, last),
           s.via[Head(c)] # None
    PROVE  /\ <<s.via[Head(c)]>> \o c \in ChainsTo(s, last)
           /\ Len(<<s.via[Head(c)]>> \o c) = Len(c) + 1
<1> DEFINE v == s.via[Head(c)]
           d == <<v>> \o c
<1>1. /\ c \in Seq(Reached(s)) /\ Len(c) \in Nat /\ Len(c) >= 1 /\ c[Len(c)] = last
      /\ \A k \in 1 .. Len(c) - 1 : s.via[c[k + 1]] # None /\ c[k] = s.via[c[k + 1]]
  BY DEF ChainsTo
<1>2. Head(c) = c[1] /\ c[1] \in Reached(s)
  BY <1>1
<1>3. v \in Reached(s) /\ s.via[c[1]] # None /\ v = s.via[c[1]]
  BY <1>2, SearchHas DEF Leads
<1> HIDE DEF v
<1>4. /\ d \in Seq(Reached(s)) /\ Len(d) = Len(c) + 1 /\ d[1] = v
      /\ \A k \in 1 .. Len(c) : d[k + 1] = c[k]
  BY <1>1, <1>3
<1> HIDE DEF d
<1>5. d[Len(d)] = last
  BY <1>1, <1>4
<1>6. ASSUME NEW k \in 1 .. Len(d) - 1 PROVE s.via[d[k + 1]] # None /\ d[k] = s.via[d[k + 1]]
  <2>1. CASE k = 1
    BY <1>1, <1>3, <1>4, <2>1
  <2>2. CASE k # 1
    <3>1. k - 1 \in 1 .. Len(c) - 1 /\ k \in 1 .. Len(c) /\ (k - 1) + 1 = k
      BY <1>1, <1>4, <2>2
    <3>2. d[k] = c[k - 1] /\ d[k + 1] = c[k]
      BY <1>4, <3>1
    <3> QED
      BY <1>1, <3>1, <3>2
  <2> QED
    BY <2>1, <2>2
<1>7. d \in ChainsTo(s, last)
  BY <1>1, <1>4, <1>5, <1>6 DEF ChainsTo
<1> QED
  BY <1>4, <1>7 DEF d, v

\* It does not come to a stop twice, since predecessors do not go in circles.
LEMMA ChainIsSimple ==
    ASSUME NEW p, NEW s \in Searches(p), NEW last, NEW c \in ChainsTo(s, last),
           NEW i \in 1 .. Len(c), NEW j \in 1 .. Len(c), i < j
    PROVE  c[i] # c[j]
<1> SUFFICES ASSUME c[i] = c[j] PROVE FALSE
  OBVIOUS
<1> DEFINE Z == {c[k] : k \in i + 1 .. j}
<1>1. /\ c \in Seq(Reached(s)) /\ Len(c) \in Nat
      /\ \A k \in 1 .. Len(c) - 1 : s.via[c[k + 1]] # None /\ c[k] = s.via[c[k + 1]]
  BY DEF ChainsTo
<1>2. Z \in SUBSET Reached(s) /\ c[j] \in Z
  BY <1>1
<1>3. ASSUME NEW v \in Z PROVE s.via[v] # None /\ s.via[v] \in Z
  <2>1. PICK k \in i + 1 .. j : v = c[k]
    OBVIOUS
  <2>2. k - 1 \in 1 .. Len(c) - 1 /\ (k - 1) + 1 = k
    BY <1>1
  <2>3. s.via[v] # None /\ s.via[v] = c[k - 1]
    BY <1>1, <2>1, <2>2
  <2>4. CASE k - 1 = i
    BY <1>2, <2>3, <2>4
  <2>5. CASE k - 1 # i
    BY <2>3, <2>5
  <2> QED
    BY <2>3, <2>4, <2>5
<1> HIDE DEF Z
<1> QED
  BY <1>2, <1>3, SearchHas

\* So it has no more stops than there are.
LEMMA ChainIsShort ==
    ASSUME NEW p, NEW s \in Searches(p), NEW last, NEW c \in ChainsTo(s, last)
    PROVE  Len(c) <= Cardinality(Node)
<1>1. c \in Seq(Reached(s)) /\ Len(c) \in Nat /\ Reached(s) \subseteq Node
  BY SearchHas DEF ChainsTo
<1>2. c \in [1 .. Len(c) -> Node]
  BY <1>1
<1>3. \A i, j \in 1 .. Len(c) : c[i] = c[j] => i = j
  <2> SUFFICES ASSUME NEW i \in 1 .. Len(c), NEW j \in 1 .. Len(c), c[i] = c[j], i # j PROVE FALSE
    OBVIOUS
  <2>1. CASE i < j
    BY <2>1, ChainIsSimple
  <2>2. CASE j < i
    BY <2>2, ChainIsSimple
  <2> QED
    BY <1>1, <2>1, <2>2
<1>4. c \in Injection(1 .. Len(c), Node)
  BY <1>2, <1>3 DEF Injection, IsInjective
<1>5. Cardinality(1 .. Len(c)) <= Cardinality(Node)
  BY <1>4, NodesAreFinite, FS_Injection
<1>6. Cardinality(1 .. Len(c)) = Len(c)
  <2>1. \A n \in Nat : Cardinality(1 .. n) = IF 1 > n THEN 0 ELSE n - 1 + 1
    BY FS_Interval
  <2> QED
    BY <1>1, <2>1
<1> QED
  BY <1>5, <1>6

\* The predecessors, followed from the last stop, are such a way, and it begins at a
\* stop that is reached on foot: after as many steps as there are stops it would be
\* too long otherwise.
LEMMA ChainLeads ==
    ASSUME NEW p, NEW s \in Searches(p), NEW last \in Reached(s)
    PROVE  /\ Chain(s, last) \in ChainsTo(s, last)
           /\ s.via[Head(Chain(s, last))] = None
<1> DEFINE X == ChainsTo(s, last)
           b == <<last>>
           More(c) == IF s.via[Head(c)] = None THEN c ELSE <<s.via[Head(c)]>> \o c
           ch == [t \in SUBSET Node |-> CHOOSE x \in t : TRUE]
           IsFold(f) == f = [t \in SUBSET Node |->
                               IF t = {} THEN b ELSE More(f[t \ {CHOOSE x \in t : TRUE}])]
           fold == CHOOSE f : IsFold(f)
           op == [x \in Node \X X |-> More(x[2])]
<1>1. Chain(s, last) = fold[Node]
  BY DEF Chain, FoldSet, MapThenFoldSet
<1>2. \A c \in X : More(c) \in X /\ (s.via[Head(c)] # None => Len(More(c)) = Len(c) + 1)
  BY Extended
<1>12. \A c \in X : More(c) = c \/ s.via[Head(c)] # None
  OBVIOUS
<1>3. b \in X /\ Len(b) = 1
  BY DEF ChainsTo
<1>13. \A c \in X : Len(c) \in Nat /\ Len(c) <= Cardinality(Node)
  <2>1. \A c \in ChainsTo(s, last) : Len(c) \in Nat
    BY DEF ChainsTo
  <2>2. \A c \in ChainsTo(s, last) : Len(c) <= Cardinality(Node)
    BY ChainIsShort
  <2> QED
    BY <2>1, <2>2 DEF X
<1>4. \A t \in SUBSET Node : t # {} => ch[t] \in t
  OBVIOUS
<1> HIDE DEF b, fold, X, More
<1>5. op \in [Node \X X -> X] /\ \A y \in Node, c \in X : op[<<y, c>>] = More(c)
  BY <1>2
<1>6. PICK g : Solves(g, SUBSET Node, b, op, ch, X)
  <2> HIDE DEF op, ch, IsFold
  <2> QED
    BY <1>3, <1>4, <1>5, NodesAreFinite, FoldExists
<1>7. IsFold(g)
  <2>1. ASSUME NEW t \in SUBSET Node, t # {}
        PROVE  g[t] = More(g[t \ {CHOOSE x \in t : TRUE}])
    <3> DEFINE y == CHOOSE x \in t : TRUE
    <3>1. y \in Node /\ t \ {y} \in SUBSET Node /\ ch[t] = y
      BY <2>1
    <3> HIDE DEF y
    <3>2. g[t \ {y}] \in X /\ g[t] = op[<<y, g[t \ {y}]>>]
      BY <1>6, <2>1, <3>1 DEF Solves
    <3>3. g[t] = More(g[t \ {y}])
      <4> HIDE DEF op
      <4> QED
        BY <1>5, <3>1, <3>2
    <3> QED
      BY <3>3 DEF y
  <2>2. g = [t \in SUBSET Node |-> g[t]] /\ g[{}] = b
    BY <1>6 DEF Solves
  <2> QED
    BY <2>1, <2>2
<1>8. IsFold(fold)
  <2> HIDE DEF IsFold
  <2> QED
    BY <1>7 DEF fold
<1> DEFINE T == {t \in SUBSET Node :
                   /\ fold[t] \in X
                   /\ s.via[Head(fold[t])] = None \/ Len(fold[t]) = Cardinality(t) + 1}
<1>9. {} \in T
  BY <1>3, <1>8, FS_EmptySet
<1>10. ASSUME NEW t \in SUBSET Node, t # {}, \A x \in t : t \ {x} \in T
       PROVE  t \in T
  <2> DEFINE y == CHOOSE x \in t : TRUE
             r == fold[t \ {y}]
  <2>1. y \in t
    BY <1>10
  <2>2. fold[t] = More(r)
    BY <1>8, <1>10
  <2> HIDE DEF y, IsFold
  <2>3. r \in X /\ (s.via[Head(r)] = None \/ Len(r) = Cardinality(t \ {y}) + 1)
    BY <1>10, <2>1
  <2>4. Cardinality(t \ {y}) = Cardinality(t) - 1 /\ Cardinality(t) \in Nat
    BY <2>1, NodesAreFinite, FS_Subset, FS_RemoveElement, FS_CardinalityType
  <2> HIDE DEF r
  <2>5. CASE s.via[Head(r)] = None
    BY <1>2, <1>12, <2>2, <2>3, <2>5
  <2>6. CASE s.via[Head(r)] # None
    <3>1. More(r) \in X /\ Len(More(r)) = Len(r) + 1
      BY <1>2, <2>3, <2>6
    <3>2. Len(r) = Cardinality(t)
      BY <2>3, <2>4, <2>6
    <3> QED
      BY <2>2, <3>1, <3>2
  <2> QED
    BY <2>5, <2>6
<1>11. Node \in T
  <2> HIDE DEF T
  <2> QED
    BY <1>9, <1>10, NodesAreFinite, SubsetsAreReached
<1>14. fold[Node] \in X /\ Len(fold[Node]) # Cardinality(Node) + 1
  <2>1. Cardinality(Node) \in Nat
    BY NodesAreFinite, FS_CardinalityType
  <2> QED
    BY <1>11, <1>13, <2>1
<1> QED
  BY <1>1, <1>11, <1>14 DEF X

\* What such a way has, stop by stop.
LEMMA ChainHas ==
    ASSUME NEW p, NEW s \in Searches(p), NEW last, NEW c \in ChainsTo(s, last)
    PROVE  /\ Len(c) \in Nat /\ Len(c) >= 1 /\ c[Len(c)] = last
           /\ \A k \in 1 .. Len(c) : c[k] \in Node /\ s.dist[c[k]] \in Nat
           /\ \A k \in 1 .. Len(c) - 1 :
                /\ IsEdge(c[k], c[k + 1])
                /\ s.dist[c[k]] + Minutes(c[k], c[k + 1]) = s.dist[c[k + 1]]
           /\ s.via[Head(c)] = None => s.dist[c[1]] = Access(p, c[1])
<1>1. /\ c \in Seq(Reached(s)) /\ Len(c) \in Nat /\ Len(c) >= 1 /\ c[Len(c)] = last
      /\ \A k \in 1 .. Len(c) - 1 : s.via[c[k + 1]] # None /\ c[k] = s.via[c[k + 1]]
  BY DEF ChainsTo
<1>2. \A k \in 1 .. Len(c) : c[k] \in Reached(s)
  BY <1>1
<1>3. \A k \in 1 .. Len(c) - 1 : Leads(s, c[k], c[k + 1])
  BY <1>1, <1>2, SearchHas
<1>4. Head(c) = c[1]
  BY <1>1
<1> QED
  BY <1>1, <1>2, <1>3, <1>4, SearchHas DEF Leads

\* The stops i .. j of a chain are stops of one route.
OneRoute(c, i, j) == \A k \in i .. j : c[k][1] = c[i][1]

\* A ride does not turn back, since that would bring it to the same stop later:
\* it passes as many stops as it has hops.
LEMMA RidesGoOn ==
    ASSUME NEW p, NEW s \in Searches(p), NEW last, NEW c \in ChainsTo(s, last),
           NEW i \in 1 .. Len(c), NEW j \in 1 .. Len(c), i < j, OneRoute(c, i, j)
    PROVE  Distance(c[i][2], c[j][2]) = j - i /\ c[i] # c[j]
<1>1. ASSUME NEW k \in i .. j
      PROVE  /\ k \in 1 .. Len(c) /\ c[k] \in Node /\ c[k][2] \in Nat /\ c[k][1] = c[i][1]
             /\ s.dist[c[k]] \in Nat
  <2>1. k \in 1 .. Len(c)
    BY ChainHas
  <2> QED
    BY <2>1, ChainHas, NodeIs DEF OneRoute
<1>2. ASSUME NEW k \in i .. j - 1
      PROVE  /\ c[k + 1][2] = c[k][2] + 1 \/ c[k + 1][2] = c[k][2] - 1
             /\ s.dist[c[k]] < s.dist[c[k + 1]]
  <2>1. k \in 1 .. Len(c) - 1 /\ k \in i .. j /\ k + 1 \in i .. j
    BY ChainHas
  <2>2. IsEdge(c[k], c[k + 1]) /\ s.dist[c[k]] + Minutes(c[k], c[k + 1]) <= s.dist[c[k + 1]]
    BY <2>1, ChainHas
  <2>3. c[k][1] = c[k + 1][1] /\ c[k][2] \in Nat /\ c[k + 1][2] \in Nat
    BY <1>1, <2>1
  <2>4. Minutes(c[k], c[k + 1]) \in Nat /\ Minutes(c[k], c[k + 1]) > 0
    <3>1. c[k] \in Node /\ c[k + 1] \in Node
      BY <1>1, <2>1
    <3> QED
      BY <2>3, <3>1, MinutesOfEdge
  <2>5. c[k][2] - c[k + 1][2] \in {-1, 1}
    BY <2>2, <2>3 DEF IsEdge, IsRide, IsTransfer
  <2>6. s.dist[c[k]] \in Nat /\ s.dist[c[k + 1]] \in Nat
    BY <1>1, <2>1
  <2>7. c[k + 1][2] = c[k][2] + 1 \/ c[k + 1][2] = c[k][2] - 1
    <3> DEFINE x == c[k][2]
               y == c[k + 1][2]
    <3>1. x \in Nat /\ y \in Nat /\ x - y \in {-1, 1}
      BY <2>3, <2>5
    <3> HIDE DEF x, y
    <3>2. y = x + 1 \/ y = x - 1
      BY <3>1
    <3> QED
      BY <3>2 DEF x, y
  <2>8. s.dist[c[k]] < s.dist[c[k + 1]]
    BY <2>2, <2>4, <2>6
  <2> QED
    BY <2>7, <2>8
<1> DEFINE n == j - i
           at == [k \in 0 .. n |-> c[i + k][2]]
<1>3. n \in Nat /\ \A k \in 0 .. n : i + k \in i .. j
  OBVIOUS
<1>4. at \in [0 .. n -> Int]
  BY <1>1, <1>3
<1>5. ASSUME NEW k \in 0 .. n - 1 PROVE at[k + 1] = at[k] + 1 \/ at[k + 1] = at[k] - 1
  <2>1. i + k \in i .. j - 1 /\ (i + k) + 1 = i + (k + 1) /\ k \in 0 .. n /\ k + 1 \in 0 .. n
    OBVIOUS
  <2>2. c[(i + k) + 1][2] = c[i + k][2] + 1 \/ c[(i + k) + 1][2] = c[i + k][2] - 1
    BY <1>2, <2>1
  <2>3. at[k] = c[i + k][2] /\ at[k + 1] = c[i + (k + 1)][2]
    BY <2>1
  <2> HIDE DEF at, n
  <2> QED
    BY <2>1, <2>2, <2>3
<1>6. ASSUME NEW k \in 0 .. n - 2 PROVE at[k + 2] # at[k]
  <2> DEFINE u == i + k  v == i + k + 1  w == i + k + 2
  <2>1. /\ u \in i .. j - 1 /\ v \in i .. j - 1 /\ u \in i .. j /\ v \in i .. j /\ w \in i .. j
        /\ u + 1 = v /\ v + 1 = w
    OBVIOUS
  <2>2. at[k] = c[u][2] /\ at[k + 2] = c[w][2]
    <3>1. k \in 0 .. n /\ k + 2 \in 0 .. n /\ i + (k + 2) = w
      OBVIOUS
    <3> HIDE DEF n, w
    <3> QED
      BY <3>1
  <2> HIDE DEF u, v, w, at, n
  <2>3. s.dist[c[u]] < s.dist[c[v]] /\ s.dist[c[v]] < s.dist[c[w]]
    BY <1>2, <2>1
  <2>4. s.dist[c[u]] \in Nat /\ s.dist[c[v]] \in Nat /\ s.dist[c[w]] \in Nat
    BY <1>1, <2>1
  <2>5. c[u] # c[w]
    BY <2>3, <2>4
  <2>6. c[u] = <<c[i][1], c[u][2]>> /\ c[w] = <<c[i][1], c[w][2]>>
    BY <1>1, <2>1, NodeIs
  <2> QED
    BY <2>2, <2>5, <2>6
<1>7. at[n] = at[0] + n \/ at[n] = at[0] - n
  <2> HIDE DEF at, n
  <2> QED
    BY <1>3, <1>4, <1>5, <1>6, OneWay
<1>8. at[0] = c[i][2] /\ at[n] = c[j][2] /\ at[0] \in Int /\ at[n] \in Int
  <2>1. 0 \in 0 .. n /\ n \in 0 .. n /\ i + 0 = i /\ i + n = j
    OBVIOUS
  <2> HIDE DEF n
  <2>2. at[0] = c[i][2] /\ at[n] = c[j][2]
    BY <2>1
  <2> HIDE DEF at
  <2> QED
    BY <1>4, <2>1, <2>2
<1>9. n > 0
  OBVIOUS
<1> HIDE DEF at, n
<1>10. Distance(c[i][2], c[j][2]) = n
  BY <1>3, <1>7, <1>8, <1>9 DEF Distance
<1>11. c[i][2] # c[j][2]
  BY <1>3, <1>7, <1>8, <1>9
<1> QED
  BY <1>10, <1>11 DEF n

\* The minutes of a ride are the time from its first stop to its last one, since
\* the hops of a chain are different from each other.
LEMMA RideTakes ==
    ASSUME NEW p, NEW s \in Searches(p), NEW last, NEW c \in ChainsTo(s, last),
           NEW i \in 1 .. Len(c), NEW j \in 1 .. Len(c), i <= j
    PROVE  RideLeg(c, i, j).minutes = s.dist[c[j]] - s.dist[c[i]]
<1> DEFINE hop == [k \in i .. j - 1 |-> <<c[k], c[k + 1]>>]
           S == {hop[k] : k \in i .. j - 1}
           w == [h \in S |-> Minutes(h[1], h[2])]
           IsFold(f) == f = [t \in SUBSET S |->
                               IF t = {} THEN 0
                               ELSE Minutes((CHOOSE x \in t : TRUE)[1], (CHOOSE x \in t : TRUE)[2])
                                    + f[t \ {CHOOSE x \in t : TRUE}]]
           fold == CHOOSE f : IsFold(f)
           from(k) == {hop[m] : m \in i .. k - 1}
<1>1. Hops(c, i, j) = S
  BY DEF Hops
<1>2. RideLeg(c, i, j).minutes = fold[S]
  BY <1>1 DEF RideLeg, MapThenSumSet, MapThenFoldSet
<1>3. ASSUME NEW k \in i .. j - 1
      PROVE  /\ k \in 1 .. Len(c) - 1 /\ c[k] \in Node /\ c[k + 1] \in Node
             /\ Minutes(c[k], c[k + 1]) \in Int
             /\ s.dist[c[k]] + Minutes(c[k], c[k + 1]) = s.dist[c[k + 1]]
             /\ s.dist[c[k]] \in Int /\ s.dist[c[k + 1]] \in Int
             /\ hop[k][1] = c[k] /\ hop[k][2] = c[k + 1] /\ hop[k] \in S
  <2>1. k \in 1 .. Len(c) - 1 /\ k \in 1 .. Len(c) /\ k + 1 \in 1 .. Len(c)
    BY ChainHas
  <2>2. c[k] \in Node /\ c[k + 1] \in Node /\ s.dist[c[k]] \in Int /\ s.dist[c[k + 1]] \in Int
    BY <2>1, ChainHas
  <2>3. Minutes(c[k], c[k + 1]) \in Int
    BY <2>2, MinutesOfEdge
  <2>4. s.dist[c[k]] + Minutes(c[k], c[k + 1]) = s.dist[c[k + 1]]
    <3> HIDE DEF hop, S, w, IsFold, fold, from
    <3>1. \A m \in 1 .. Len(c) - 1 :
            s.dist[c[m]] + Minutes(c[m], c[m + 1]) = s.dist[c[m + 1]]
      BY ChainHas
    <3> QED
      BY <2>1, <3>1
  <2> QED
    BY <2>1, <2>2, <2>3, <2>4
<1>4. IsFiniteSet(S)
  <2>1. IsFiniteSet(i .. j - 1)
    BY FS_Interval
  <2> QED
    BY <2>1, ImageIsFinite
<1>5. \A m, k \in i .. j - 1 : m # k => hop[m] # hop[k]
  <2> SUFFICES ASSUME NEW m \in i .. j - 1, NEW k \in i .. j - 1, m < k PROVE c[m] # c[k]
    BY <1>3
  <2>1. m \in 1 .. Len(c) /\ k \in 1 .. Len(c)
    BY <1>3
  <2> QED
    BY <2>1, ChainIsSimple
<1>6. \A k \in i .. j - 1 : w[hop[k]] = Minutes(c[k], c[k + 1])
  BY <1>3
<1>7. w \in [S -> Int]
  BY <1>3
<1> HIDE DEF hop, fold, IsFold
<1>8. ASSUME NEW f PROVE IsFold(f) <=> IsSum(f, S, w)
  <2>1. ASSUME NEW t \in SUBSET S, t # {}
        PROVE  w[CHOOSE x \in t : TRUE] =
                 Minutes((CHOOSE x \in t : TRUE)[1], (CHOOSE x \in t : TRUE)[2])
    <3>1. (CHOOSE x \in t : TRUE) \in S
      BY <2>1
    <3> QED
      BY <3>1
  <2> HIDE DEF S, w
  <2> QED
    BY <2>1 DEF IsFold, IsSum
<1> HIDE DEF S, w
<1>9. IsSum(fold, S, w)
  <2>1. \E f : IsFold(f)
    BY <1>4, <1>7, <1>8, SumExists
  <2>2. IsFold(fold)
    BY <2>1 DEF fold
  <2> QED
    BY <1>8, <2>2
<1>10. /\ fold \in [SUBSET S -> Int] /\ fold[{}] = 0
       /\ \A t \in SUBSET S : \A x \in t : fold[t] = w[x] + fold[t \ {x}]
  <2>1. SumHas(fold, S, w)
    BY <1>4, <1>7, <1>9, SumTakesAny
  <2> QED
    BY <2>1 DEF SumHas
<1> DEFINE T == {n \in Nat : i + n <= j => fold[from(i + n)] = s.dist[c[i + n]] - s.dist[c[i]]}
<1>11. 0 \in T
  <2>1. from(i + 0) = {} /\ i + 0 = i
    OBVIOUS
  <2>2. s.dist[c[i]] \in Int
    BY ChainHas
  <2>3. fold[from(i + 0)] = 0
    BY <1>10, <2>1
  <2> HIDE DEF from
  <2> QED
    BY <2>1, <2>2, <2>3
<1>12. ASSUME NEW n \in Nat, n \in T PROVE n + 1 \in T
  <2> DEFINE k == i + n
             m == i + (n + 1)
  <2>1. SUFFICES ASSUME m <= j PROVE fold[from(m)] = s.dist[c[m]] - s.dist[c[i]]
    OBVIOUS
  <2>2. k \in i .. j - 1 /\ k \in Int /\ k <= j /\ m = k + 1
    BY <2>1
  <2>3. fold[from(k)] = s.dist[c[k]] - s.dist[c[i]]
    BY <1>12, <2>2
  <2> HIDE DEF k, m, T
  <2>4. from(k + 1) = from(k) \union {hop[k]} /\ hop[k] \notin from(k)
    <3>1. \A h \in i .. k - 1 : h \in i .. j - 1 /\ h # k
      BY <2>2
    <3>2. hop[k] \notin from(k)
      BY <1>5, <2>2, <3>1
    <3>3. i .. (k + 1) - 1 = (i .. k - 1) \union {k}
      BY <2>2
    <3> QED
      BY <3>2, <3>3
  <2>5. from(k + 1) \in SUBSET S
    <3>1. \A h \in i .. (k + 1) - 1 : h \in i .. j - 1
      BY <2>2
    <3> QED
      BY <1>3, <3>1
  <2> HIDE DEF from
  <2>6. from(k + 1) \ {hop[k]} = from(k) /\ hop[k] \in from(k + 1)
    BY <2>4
  <2>7. fold[from(k + 1)] = w[hop[k]] + fold[from(k)]
    BY <1>10, <2>5, <2>6
  <2>8. s.dist[c[i]] \in Int
    BY ChainHas
  <2>9. /\ w[hop[k]] \in Int /\ s.dist[c[k]] \in Int /\ s.dist[c[k + 1]] \in Int
        /\ s.dist[c[k]] + w[hop[k]] = s.dist[c[k + 1]]
    BY <1>3, <1>6, <2>2
  <2>10. fold[from(k + 1)] = s.dist[c[k + 1]] - s.dist[c[i]]
    <3> DEFINE g == fold[from(k)]
    <3> HIDE DEF g
    <3>1. g = s.dist[c[k]] - s.dist[c[i]] /\ fold[from(k + 1)] = w[hop[k]] + g
      BY <2>3, <2>7 DEF g
    <3> DEFINE x == s.dist[c[i]]
               y == s.dist[c[k]]
               mins == w[hop[k]]
    <3>2. x \in Int /\ y \in Int /\ mins \in Int /\ y + mins = s.dist[c[k + 1]] /\ g = y - x
      BY <2>8, <2>9, <3>1
    <3> HIDE DEF x, y, mins
    <3>3. mins + g = s.dist[c[k + 1]] - x
      BY <3>2
    <3> QED
      BY <3>1, <3>3 DEF x, mins
  <2> QED
    BY <2>2, <2>10
<1>13. j - i \in T
  <2>1. j - i \in Nat
    OBVIOUS
  <2> HIDE DEF T
  <2> QED
    BY <1>11, <1>12, <2>1, NumbersAreReached
<1>14. i + (j - i) = j /\ i + (j - i) <= j /\ from(j) = S
  BY DEF S
<1> HIDE DEF from
<1> QED
  BY <1>2, <1>13, <1>14

-----------------------------------------------------------------------------
(* The legs.                                                               *)

RideOK(leg) ==
    /\ leg.board[1] = leg.alight[1] /\ leg.board # leg.alight
    /\ leg.stops = Distance(leg.board[2], leg.alight[2])
    /\ leg.board \in Node /\ leg.alight \in Node /\ leg.route = leg.board[1]
    /\ leg.from = StopOf(leg.board) /\ leg.to = StopOf(leg.alight)

\* A way from p to x, leg by leg.
WayTo(ls, p, x) ==
    /\ DOMAIN ls = 1 .. Len(ls) /\ Len(ls) >= 1
    /\ ls[1].from = p /\ ls[Len(ls)].to = x
    /\ \A i \in 1 .. Len(ls) - 1 :
          ls[i].to = ls[i + 1].from /\ ~ (ls[i].mode = "RIDE" /\ ls[i + 1].mode = "RIDE")
    /\ \A i \in 1 .. Len(ls) : ls[i].mode = "RIDE" => RideOK(ls[i])

\* A leg is added to a way: it begins where the way ends, and two rides are
\* not next to each other.
LEMMA OneLegOn ==
    ASSUME NEW S, NEW ls \in Seq(S), NEW leg \in S, NEW p, NEW x, WayTo(ls, p, x),
           leg.from = x, leg.mode = "RIDE" => RideOK(leg) /\ ls[Len(ls)].mode # "RIDE"
    PROVE  /\ Append(ls, leg) \in Seq(S) /\ WayTo(Append(ls, leg), p, leg.to)
           /\ Append(ls, leg)[Len(Append(ls, leg))] = leg
<1> DEFINE ms == Append(ls, leg)
           n == Len(ls)
<1>1. /\ ms \in Seq(S) /\ Len(ms) = n + 1 /\ ms[n + 1] = leg /\ \A i \in 1 .. n : ms[i] = ls[i]
      /\ n \in Nat
  OBVIOUS
<1>2. /\ n >= 1 /\ ls[1].from = p /\ ls[n].to = x
      /\ \A i \in 1 .. n - 1 :
            ls[i].to = ls[i + 1].from /\ ~ (ls[i].mode = "RIDE" /\ ls[i + 1].mode = "RIDE")
      /\ \A i \in 1 .. n : ls[i].mode = "RIDE" => RideOK(ls[i])
  BY DEF WayTo
<1> HIDE DEF ms, n
<1>3. ASSUME NEW i \in 1 .. Len(ms) - 1
      PROVE  ms[i].to = ms[i + 1].from /\ ~ (ms[i].mode = "RIDE" /\ ms[i + 1].mode = "RIDE")
  <2>1. CASE i = n
    <3>1. ms[i] = ls[n] /\ ms[i + 1] = leg /\ ls[n] = ls[Len(ls)]
      BY <1>1, <1>2, <2>1 DEF n
    <3> QED
      BY <1>2, <3>1
  <2>2. CASE i # n
    <3>1. i \in 1 .. n - 1 /\ i \in 1 .. n /\ i + 1 \in 1 .. n
      BY <1>1, <2>2
    <3>2. ms[i] = ls[i] /\ ms[i + 1] = ls[i + 1]
      BY <1>1, <3>1
    <3> QED
      BY <1>2, <3>1, <3>2
  <2> QED
    BY <2>1, <2>2
<1>4. ASSUME NEW i \in 1 .. Len(ms), ms[i].mode = "RIDE" PROVE RideOK(ms[i])
  <2>1. CASE i = n + 1
    BY <1>1, <1>4, <2>1
  <2>2. CASE i # n + 1
    <3>1. i \in 1 .. n /\ ms[i] = ls[i]
      BY <1>1, <2>2
    <3> QED
      BY <1>2, <1>4, <3>1
  <2> QED
    BY <2>1, <2>2
<1>5. Len(ms) >= 1 /\ ms[1].from = p /\ ms[Len(ms)].to = leg.to
  BY <1>1, <1>2
<1>6. WayTo(ms, p, leg.to)
  BY <1>1, <1>3, <1>4, <1>5 DEF WayTo
<1> QED
  BY <1>1, <1>6 DEF ms, n

\* The waits and the minutes of the legs come to t.
Takes(ls, t) ==
    \E at \in [0 .. Len(ls) -> Int] :
      /\ at[0] = 0 /\ at[Len(ls)] = t
      /\ \A k \in 1 .. Len(ls) : /\ ls[k].wait \in Int /\ ls[k].minutes \in Int
                                 /\ at[k] = at[k - 1] + ls[k].wait + ls[k].minutes

\* One leg takes what it says.
LEMMA OneTakes ==
    ASSUME NEW leg, leg.wait \in Int, leg.minutes \in Int
    PROVE  Takes(<<leg>>, leg.wait + leg.minutes)
<1> DEFINE at == [k \in 0 .. 1 |-> IF k = 0 THEN 0 ELSE leg.wait + leg.minutes]
<1>1. at \in [0 .. 1 -> Int] /\ at[0] = 0 /\ at[1] = leg.wait + leg.minutes
  OBVIOUS
<1>2. Len(<<leg>>) = 1 /\ <<leg>>[1] = leg /\ \A k \in 1 .. 1 : k = 1 /\ k - 1 = 0
  OBVIOUS
<1> HIDE DEF at
<1>3. at[1] = at[0] + leg.wait + leg.minutes
  BY <1>1
<1> QED
  BY <1>1, <1>2, <1>3 DEF Takes

\* A leg more takes its wait and its minutes more.
LEMMA OneMoreTakes ==
    ASSUME NEW S, NEW ls \in Seq(S), NEW leg \in S, leg.wait \in Int, leg.minutes \in Int,
           NEW t \in Int, Takes(ls, t)
    PROVE  Takes(Append(ls, leg), t + leg.wait + leg.minutes)
<1> DEFINE n == Len(ls)
           ms == Append(ls, leg)
<1>1. /\ n \in Nat /\ Len(ms) = n + 1 /\ ms[n + 1] = leg /\ \A k \in 1 .. n : ms[k] = ls[k]
  OBVIOUS
<1>2. PICK at \in [0 .. n -> Int] :
        /\ at[0] = 0 /\ at[n] = t
        /\ \A k \in 1 .. n : /\ ls[k].wait \in Int /\ ls[k].minutes \in Int
                             /\ at[k] = at[k - 1] + ls[k].wait + ls[k].minutes
  BY DEF Takes
<1> HIDE DEF n, ms
<1> DEFINE sum == [k \in 0 .. n + 1 |-> IF k = n + 1 THEN t + leg.wait + leg.minutes ELSE at[k]]
<1>3. /\ sum \in [0 .. n + 1 -> Int] /\ sum[n + 1] = t + leg.wait + leg.minutes
      /\ \A k \in 0 .. n : sum[k] = at[k]
  BY <1>1, <1>2
<1> HIDE DEF sum
<1>4. ASSUME NEW k \in 1 .. n + 1
      PROVE  /\ ms[k].wait \in Int /\ ms[k].minutes \in Int
             /\ sum[k] = sum[k - 1] + ms[k].wait + ms[k].minutes
  <2>1. CASE k = n + 1
    <3>1. k - 1 = n /\ n \in 0 .. n
      BY <1>1, <2>1
    <3> QED
      BY <1>1, <1>2, <1>3, <2>1, <3>1
  <2>2. CASE k # n + 1
    <3>1. k \in 1 .. n /\ k \in 0 .. n /\ k - 1 \in 0 .. n
      BY <1>1, <2>2
    <3>2. ms[k] = ls[k] /\ sum[k] = at[k] /\ sum[k - 1] = at[k - 1]
      BY <1>1, <1>3, <3>1
    <3> QED
      BY <1>2, <3>1, <3>2
  <2> QED
    BY <2>1, <2>2
<1>5. sum[0] = 0
  BY <1>1, <1>2, <1>3
<1>6. Takes(ms, t + leg.wait + leg.minutes)
  BY <1>1, <1>3, <1>4, <1>5 DEF Takes
<1> QED
  BY <1>6 DEF ms

\* That is what the fold over the legs computes.
LEMMA TakesIsFolded ==
    ASSUME NEW S, NEW ls \in Seq(S), NEW t \in Int, Takes(ls, t)
    PROVE  FoldLeft(LAMBDA x, leg : x + leg.wait + leg.minutes, 0, ls) = t
<1> DEFINE n == Len(ls)
           IsFold(f) == f = [r \in SUBSET (DOMAIN ls) |->
                               IF r = {} THEN 0
                               ELSE f[r \ {Max(r)}] + ls[Max(r)].wait + ls[Max(r)].minutes]
           fold == CHOOSE f : IsFold(f)
           op == [x \in (1 .. n) \X Int |-> x[2] + ls[x[1]].wait + ls[x[1]].minutes]
<1>1. FoldLeft(LAMBDA x, leg : x + leg.wait + leg.minutes, 0, ls) = fold[DOMAIN ls]
  BY DEF FoldLeft, MapThenFoldSet
<1>2. n \in Nat /\ DOMAIN ls = 1 .. n
  OBVIOUS
<1>3. PICK at \in [0 .. n -> Int] :
        /\ at[0] = 0 /\ at[n] = t
        /\ \A k \in 1 .. n : /\ ls[k].wait \in Int /\ ls[k].minutes \in Int
                             /\ at[k] = at[k - 1] + ls[k].wait + ls[k].minutes
  BY DEF Takes
<1>4. /\ op \in [(1 .. n) \X Int -> Int]
      /\ \A k \in 1 .. n, x \in Int : op[<<k, x>>] = x + ls[k].wait + ls[k].minutes
  <2>1. \A k \in 1 .. n, x \in Int : x + ls[k].wait + ls[k].minutes \in Int
    BY <1>3
  <2>2. \A y \in (1 .. n) \X Int : y[1] \in 1 .. n /\ y[2] \in Int
    OBVIOUS
  <2>3. op \in [(1 .. n) \X Int -> Int]
    BY <2>1, <2>2
  <2>4. \A k \in 1 .. n, x \in Int : op[<<k, x>>] = x + ls[k].wait + ls[k].minutes
    OBVIOUS
  <2> QED
    BY <2>3, <2>4
<1> HIDE DEF n, op, fold, IsFold
<1>5. PICK g : LeftSolves(g, n, 0, op, Int)
  <2>1. 0 \in Int
    OBVIOUS
  <2> QED
    BY <1>2, <1>4, <2>1, LeftFoldExists
<1>6. IsFold(g)
  <2>1. ASSUME NEW r \in SUBSET (1 .. n), r # {}
        PROVE  g[r] = g[r \ {Max(r)}] + ls[Max(r)].wait + ls[Max(r)].minutes
    <3>1. Max(r) \in 1 .. n /\ r \ {Max(r)} \in SUBSET (1 .. n)
      BY <1>2, <2>1, LastOfMany
    <3>2. g[r] = op[<<Max(r), g[r \ {Max(r)}]>>] /\ g[r \ {Max(r)}] \in Int
      BY <1>5, <2>1, <3>1 DEF LeftSolves
    <3> QED
      BY <1>4, <3>1, <3>2
  <2>2. g = [r \in SUBSET (1 .. n) |-> g[r]] /\ g[{}] = 0
    BY <1>5 DEF LeftSolves
  <2> QED
    BY <1>2, <2>1, <2>2 DEF IsFold
<1>7. IsFold(fold)
  BY <1>6 DEF fold
<1>8. /\ fold[{}] = 0
      /\ \A r \in SUBSET (1 .. n) :
           r # {} => fold[r] = fold[r \ {Max(r)}] + ls[Max(r)].wait + ls[Max(r)].minutes
  BY <1>2, <1>7 DEF IsFold
<1> DEFINE T == {k \in Nat : k <= n => fold[1 .. k] = at[k]}
<1>9. 0 \in T
  <2>1. 1 .. 0 = {}
    OBVIOUS
  <2> QED
    BY <1>3, <1>8, <2>1
<1>10. ASSUME NEW k \in Nat, k \in T PROVE k + 1 \in T
  <2>1. SUFFICES ASSUME k + 1 <= n PROVE fold[1 .. k + 1] = at[k + 1]
    OBVIOUS
  <2>2. k + 1 \in 1 .. n /\ fold[1 .. k] = at[k] /\ (k + 1) - 1 = k
    BY <1>2, <1>10, <2>1
  <2>3. /\ 1 .. (k + 1) \in SUBSET (1 .. n) /\ 1 .. (k + 1) # {} /\ Max(1 .. (k + 1)) = k + 1
        /\ (1 .. (k + 1)) \ {k + 1} = 1 .. ((k + 1) - 1)
    BY <1>2, <2>2, LastOfMany
  <2>4. fold[1 .. (k + 1)] = fold[(1 .. (k + 1)) \ {k + 1}] + ls[k + 1].wait + ls[k + 1].minutes
    BY <1>8, <2>3
  <2>5. at[k + 1] = at[(k + 1) - 1] + ls[k + 1].wait + ls[k + 1].minutes
    BY <1>3, <2>2
  <2> QED
    BY <2>2, <2>3, <2>4, <2>5
<1>11. n \in T
  <2> HIDE DEF T
  <2> QED
    BY <1>2, <1>9, <1>10, NumbersAreReached
<1>12. fold[DOMAIN ls] = t
  BY <1>2, <1>3, <1>11
<1> QED
  BY <1>1, <1>12, Zenon

\* Besides, lost is waited for buses that are not boarded, after a walk that
\* follows a walk.
TwoWalks(ls) == \E k \in 2 .. Len(ls) : ls[k].mode # "RIDE" /\ ls[k - 1].mode # "RIDE"
Lasts(ls, t, lost) == Takes(ls, t) /\ (lost # 0 => TwoWalks(ls))

\* More may be waited in vain when a walk is added to a walk.
LEMMA OneMoreLasts ==
    ASSUME NEW S, NEW ls \in Seq(S), NEW leg \in S, leg.wait \in Int, leg.minutes \in Int,
           NEW t \in Int, NEW lost \in Nat, NEW more \in Nat, Lasts(ls, t, lost),
           more # 0 => Len(ls) >= 1 /\ ls[Len(ls)].mode # "RIDE" /\ leg.mode # "RIDE"
    PROVE  Lasts(Append(ls, leg), t + leg.wait + leg.minutes, lost + more)
<1> DEFINE n == Len(ls)
           ms == Append(ls, leg)
<1>1. /\ n \in Nat /\ Len(ms) = n + 1 /\ ms[n + 1] = leg /\ \A k \in 1 .. n : ms[k] = ls[k]
  OBVIOUS
<1>2. Takes(ms, t + leg.wait + leg.minutes)
  BY OneMoreTakes DEF Lasts
<1> HIDE DEF n, ms
<1>3. CASE more # 0
  <2>1. /\ n + 1 \in 2 .. Len(ms) /\ n \in 1 .. n /\ (n + 1) - 1 = n
        /\ ls[n].mode # "RIDE" /\ leg.mode # "RIDE"
    BY <1>1, <1>3 DEF n
  <2>2. TwoWalks(ms)
    BY <1>1, <2>1 DEF TwoWalks
  <2> QED
    BY <1>2, <2>2 DEF Lasts, ms
<1>4. CASE lost # 0
  <2>1. PICK k \in 2 .. n : ls[k].mode # "RIDE" /\ ls[k - 1].mode # "RIDE"
    BY <1>4 DEF Lasts, TwoWalks, n
  <2>2. k \in 1 .. n /\ k - 1 \in 1 .. n /\ k \in 2 .. Len(ms)
    BY <1>1
  <2>3. TwoWalks(ms)
    BY <1>1, <2>1, <2>2 DEF TwoWalks
  <2> QED
    BY <1>2, <2>3 DEF Lasts, ms
<1>5. CASE more = 0 /\ lost = 0
  BY <1>2, <1>5 DEF Lasts, ms
<1> QED
  BY <1>3, <1>4, <1>5

\* The first leg is a walk, and there are n walks more.
Walks(ls) == {k \in 1 .. Len(ls) : ls[k].mode = "WALK"}
CountOK(ls, n) ==
    /\ Len(ls) >= 1 /\ ls[1].mode = "WALK"
    /\ IsFiniteSet(Walks(ls)) /\ Cardinality(Walks(ls)) = n + 1

\* One leg more is one walk more, or a ride.
LEMMA OneMoreCounts ==
    ASSUME NEW S, NEW ls \in Seq(S), NEW leg \in S, NEW n \in Nat, CountOK(ls, n),
           leg.mode \in {"WALK", "RIDE"}
    PROVE  CountOK(Append(ls, leg), IF leg.mode = "WALK" THEN n + 1 ELSE n)
<1> DEFINE m == Len(ls)
           ms == Append(ls, leg)
<1>1. m \in Nat /\ Len(ms) = m + 1 /\ ms[m + 1] = leg /\ \A k \in 1 .. m : ms[k] = ls[k]
  OBVIOUS
<1>2. /\ m >= 1 /\ ls[1].mode = "WALK" /\ IsFiniteSet(Walks(ls))
      /\ Cardinality(Walks(ls)) = n + 1
  BY DEF CountOK
<1> HIDE DEF ms
<1>3. Len(ms) >= 1 /\ ms[1].mode = "WALK"
  <2>1. 1 \in 1 .. m
    BY <1>1, <1>2
  <2> QED
    BY <1>1, <1>2, <2>1
<1>4. 1 .. Len(ms) = (1 .. m) \union {m + 1} /\ m + 1 \notin 1 .. m
  BY <1>1
<1>8. Walks(ls) = {k \in 1 .. m : ls[k].mode = "WALK"}
  BY DEF Walks
<1>9. Walks(ms) = {k \in (1 .. m) \union {m + 1} : ms[k].mode = "WALK"}
  BY <1>4 DEF Walks
<1> HIDE DEF m
<1>5. m + 1 \notin Walks(ls)
  BY <1>4, <1>8
<1>6. CASE leg.mode = "WALK"
  <2>1. Walks(ms) = Walks(ls) \union {m + 1}
    BY <1>1, <1>6, <1>8, <1>9
  <2>2. IsFiniteSet(Walks(ms)) /\ Cardinality(Walks(ms)) = (n + 1) + 1
    <3> DEFINE W == Walks(ls)
               k == m + 1
    <3>1. IsFiniteSet(W) /\ k \notin W /\ Cardinality(W) = n + 1
      BY <1>2, <1>5
    <3> HIDE DEF W, k
    <3>2. IsFiniteSet(W \cup {k}) /\ Cardinality(W \cup {k}) = Cardinality(W) + 1
      BY <3>1, FS_AddElement, Zenon
    <3> QED
      BY <2>1, <3>1, <3>2 DEF W, k
  <2> QED
    BY <1>3, <1>6, <2>2 DEF CountOK, ms
<1>7. CASE leg.mode = "RIDE"
  <2>1. Walks(ms) = Walks(ls)
    BY <1>1, <1>7, <1>8, <1>9
  <2> QED
    BY <1>2, <1>3, <1>7, <2>1 DEF CountOK, ms
<1> QED
  BY <1>6, <1>7

\* Every leg there can be on a chain from p.
FirstWalk(c, p) == WalkLeg(p, StopOf(c[1]), Street(p, StopOf(c[1])))
Between(c, i) == WalkLeg(StopOf(c[i - 1]), StopOf(c[i]), EdgeKm(c[i - 1], c[i]))
LegOn(c, p) == {FirstWalk(c, p)} \union {Between(c, i) : i \in 2 .. Len(c)}
               \union {RideLeg(c, x[1], x[2]) : x \in (1 .. Len(c)) \X (1 .. Len(c))}
Folding(c, p) == [legs : Seq(LegOn(c, p)), start : 1 .. Len(c), transfers : Nat]

\* A ride between two stops of the chain is among the legs there can be.
LEMMA RideIsALeg ==
    ASSUME NEW c, NEW p, NEW i \in 1 .. Len(c), NEW j \in 1 .. Len(c)
    PROVE  RideLeg(c, i, j) \in LegOn(c, p)
<1>1. <<i, j>> \in (1 .. Len(c)) \X (1 .. Len(c)) /\ <<i, j>>[1] = i /\ <<i, j>>[2] = j
  OBVIOUS
<1> QED
  BY <1>1 DEF LegOn

\* What one hop does, case by case.
LEMMA HopIs ==
    ASSUME NEW c, Len(c) \in Nat, NEW p, NEW a \in Folding(c, p), NEW i \in 2 .. Len(c)
    PROVE  LET change == c[i][1] # c[i - 1][1]
               ride(j) == Append(a.legs, RideLeg(c, a.start, j))
               hop == FoldHop(a, c, i)
           IN  /\ hop \in Folding(c, p)
               /\ hop.start = IF change THEN i ELSE a.start
               /\ hop.legs = IF change
                              THEN IF i - 1 > a.start THEN Append(ride(i - 1), Between(c, i))
                                                      ELSE Append(a.legs, Between(c, i))
                              ELSE IF i = Len(c) /\ i > a.start THEN ride(i) ELSE a.legs
               /\ hop.transfers = IF change THEN a.transfers + 1 ELSE a.transfers
<1> DEFINE L == LegOn(c, p)
           change == c[i][1] # c[i - 1][1]
           end == IF change THEN i - 1 ELSE i
           rides == IF (change \/ i = Len(c)) /\ end > a.start
                    THEN <<RideLeg(c, a.start, end)>> ELSE <<>>
           walks == IF change THEN <<Between(c, i)>> ELSE <<>>
           hop == FoldHop(a, c, i)
<1>1. a.legs \in Seq(L) /\ a.start \in 1 .. Len(c) /\ a.transfers \in Nat
  BY DEF Folding
<1>2. hop = [legs |-> a.legs \o rides \o walks, start |-> IF change THEN i ELSE a.start,
              transfers |-> a.transfers + Len(walks)]
  BY DEF FoldHop, Between
<1>3. Between(c, i) \in L /\ i \in 1 .. Len(c)
  BY DEF LegOn
<1>4. end \in 1 .. Len(c) /\ RideLeg(c, a.start, end) \in L
  <2>1. end \in 1 .. Len(c)
    OBVIOUS
  <2> QED
    BY <1>1, <2>1, RideIsALeg
<1> HIDE DEF L
<1>5. \A ls \in Seq(L), x \in L : ls \o <<x>> = Append(ls, x) /\ Append(ls, x) \in Seq(L)
  OBVIOUS
<1>6. \A ls \in Seq(L) : ls \o <<>> = ls
  OBVIOUS
<1>7. rides \in Seq(L) /\ walks \in Seq(L) /\ Len(walks) \in Nat
  <2>1. rides = <<RideLeg(c, a.start, end)>> \/ rides = <<>>
    OBVIOUS
  <2>2. walks = <<Between(c, i)>> \/ walks = <<>>
    OBVIOUS
  <2> HIDE DEF rides, walks, end
  <2>3. <<>> \in Seq(L) /\ \A x \in L : <<x>> \in Seq(L)
    OBVIOUS
  <2>4. rides \in Seq(L) /\ walks \in Seq(L)
    <3>1. rides \in Seq(L)
      BY <1>4, <2>1, <2>3
    <3>2. walks \in Seq(L)
      BY <1>3, <2>2, <2>3
    <3> QED
      BY <3>1, <3>2
  <2> QED
    BY <2>4
<1>8. hop \in Folding(c, p)
  <2> HIDE DEF rides, walks, hop, change
  <2>1. a.legs \o rides \o walks \in Seq(L)
    BY <1>1, <1>7
  <2>2. (IF change THEN i ELSE a.start) \in 1 .. Len(c)
    BY <1>1, <1>3
  <2>3. a.transfers + Len(walks) \in Nat
    BY <1>1, <1>7
  <2> QED
    BY <1>2, <2>1, <2>2, <2>3 DEF Folding, L
<1>9. hop.legs = IF change
                  THEN IF i - 1 > a.start
                       THEN Append(Append(a.legs, RideLeg(c, a.start, i - 1)), Between(c, i))
                       ELSE Append(a.legs, Between(c, i))
                  ELSE IF i = Len(c) /\ i > a.start
                       THEN Append(a.legs, RideLeg(c, a.start, i)) ELSE a.legs
  <2>1. hop.legs = a.legs \o rides \o walks
    <3> HIDE DEF hop, rides, walks, change
    <3> QED
      BY <1>2
  <2> HIDE DEF hop
  <2>2. CASE change
    <3>1. end = i - 1 /\ walks = <<Between(c, i)>>
      BY <2>2
    <3>2. CASE i - 1 > a.start
      <4>1. rides = <<RideLeg(c, a.start, i - 1)>>
        BY <2>2, <3>2
      <4> HIDE DEF rides, walks, end
      <4>2. a.legs \o rides = Append(a.legs, RideLeg(c, a.start, i - 1))
            /\ a.legs \o rides \in Seq(L)
        BY <1>1, <1>4, <1>5, <3>1, <4>1
      <4> QED
        BY <1>3, <1>5, <2>1, <2>2, <3>1, <3>2, <4>2
    <3>3. CASE ~ (i - 1 > a.start)
      <4>1. rides = <<>>
        BY <2>2, <3>3
      <4> HIDE DEF rides, walks, end
      <4>2. a.legs \o rides = a.legs
        BY <1>1, <1>6, <4>1
      <4> QED
        BY <1>1, <1>3, <1>5, <2>1, <2>2, <3>1, <3>3, <4>2
    <3> QED
      BY <3>2, <3>3
  <2>3. CASE ~ change
    <3>1. end = i /\ walks = <<>>
      BY <2>3
    <3>2. CASE i = Len(c) /\ i > a.start
      <4>1. rides = <<RideLeg(c, a.start, i)>>
        BY <2>3, <3>2
      <4> HIDE DEF rides, walks, end
      <4>2. a.legs \o rides = Append(a.legs, RideLeg(c, a.start, i))
            /\ a.legs \o rides \in Seq(L)
        BY <1>1, <1>4, <1>5, <3>1, <4>1
      <4> QED
        BY <1>6, <2>1, <2>3, <3>1, <3>2, <4>2
    <3>3. CASE ~ (i = Len(c) /\ i > a.start)
      <4>1. rides = <<>>
        BY <2>3, <3>3
      <4> HIDE DEF rides, walks, end
      <4>2. a.legs \o rides = a.legs
        BY <1>1, <1>6, <4>1
      <4> QED
        BY <1>1, <1>6, <2>1, <2>3, <3>1, <3>3, <4>2
    <3> QED
      BY <3>2, <3>3
  <2> QED
    BY <2>2, <2>3
<1>10. hop.start = IF change THEN i ELSE a.start
  BY <1>2
<1>11. hop.transfers = IF change THEN a.transfers + 1 ELSE a.transfers
  <2>1. hop.transfers = a.transfers + Len(walks)
    <3> HIDE DEF hop, rides, walks, change
    <3> QED
      BY <1>2
  <2>2. Len(walks) = IF change THEN 1 ELSE 0
    OBVIOUS
  <2> HIDE DEF hop, walks
  <2> QED
    BY <1>1, <2>1, <2>2
<1> HIDE DEF hop
<1> QED
  BY <1>8, <1>9, <1>10, <1>11 DEF hop

\* After the hop to stop i: the legs are a way to where the ride that goes on
\* began, and at the end of the chain to its last stop.
HopOK(c, p, i, a) ==
    /\ a \in Folding(c, p) /\ a.start <= i /\ OneRoute(c, a.start, i)
    /\ WayTo(a.legs, p, IF i = Len(c) THEN StopOf(c[i]) ELSE StopOf(c[a.start]))
    /\ i < Len(c) => a.legs[Len(a.legs)].mode = "WALK"

\* Where the walk of a transfer, and a ride, begin and end.
LEMMA WalkFrom ==
    \A c, i : /\ Between(c, i).mode = "WALK" /\ Between(c, i).from = StopOf(c[i - 1])
              /\ Between(c, i).to = StopOf(c[i])
BY DEF Between, WalkLeg

\* A ride is from the stop it boards at to the one it alights at.
LEMMA RideFrom ==
    \A c, i, j : /\ RideLeg(c, i, j).mode = "RIDE" /\ RideLeg(c, i, j).from = StopOf(c[i])
                 /\ RideLeg(c, i, j).to = StopOf(c[j]) /\ RideLeg(c, i, j).board = c[i]
                 /\ RideLeg(c, i, j).alight = c[j] /\ RideLeg(c, i, j).stops = j - i
                 /\ RideLeg(c, i, j).route = c[i][1]
BY DEF RideLeg

\* One hop keeps HopOK.
LEMMA HopStep ==
    ASSUME NEW p, NEW s \in Searches(p), NEW last, NEW c \in ChainsTo(s, last),
           NEW i \in 2 .. Len(c), NEW a, HopOK(c, p, i - 1, a)
    PROVE  HopOK(c, p, i, FoldHop(a, c, i))
<1> DEFINE change == c[i][1] # c[i - 1][1]
           ride(j) == Append(a.legs, RideLeg(c, a.start, j))
           hop == FoldHop(a, c, i)
           L == LegOn(c, p)
<1>1. Len(c) \in Nat /\ i - 1 < Len(c) /\ i \in 1 .. Len(c) /\ i - 1 \in 1 .. Len(c)
  BY ChainHas
<1>2. /\ a \in Folding(c, p) /\ a.legs \in Seq(L) /\ a.start \in 1 .. Len(c) /\ a.start <= i - 1
      /\ OneRoute(c, a.start, i - 1)
      /\ WayTo(a.legs, p, StopOf(c[a.start])) /\ a.legs[Len(a.legs)].mode = "WALK"
  BY <1>1 DEF HopOK, Folding
<1>3. /\ hop \in Folding(c, p)
      /\ hop.start = IF change THEN i ELSE a.start
      /\ hop.legs = IF change
                    THEN IF i - 1 > a.start THEN Append(ride(i - 1), Between(c, i))
                                            ELSE Append(a.legs, Between(c, i))
                    ELSE IF i = Len(c) /\ i > a.start THEN ride(i) ELSE a.legs
  BY <1>1, <1>2, HopIs
<1>4. ASSUME NEW j \in 1 .. Len(c), j > a.start, OneRoute(c, a.start, j)
      PROVE  /\ ride(j) \in Seq(L) /\ WayTo(ride(j), p, StopOf(c[j]))
  <2> DEFINE leg == RideLeg(c, a.start, j)
  <2>1. c[a.start][1] = c[j][1]
    BY <1>2, <1>4 DEF OneRoute
  <2>2. Distance(c[a.start][2], c[j][2]) = j - a.start /\ c[a.start] # c[j]
    BY <1>2, <1>4, RidesGoOn
  <2>3. leg \in L
    BY <1>2, RideIsALeg
  <2>4. leg.from = StopOf(c[a.start]) /\ leg.to = StopOf(c[j]) /\ leg.mode = "RIDE" /\ RideOK(leg)
    <3> HIDE DEF leg
    <3>1. /\ leg.mode = "RIDE" /\ leg.from = StopOf(c[a.start]) /\ leg.to = StopOf(c[j])
          /\ leg.board = c[a.start] /\ leg.alight = c[j] /\ leg.stops = j - a.start
          /\ leg.route = c[a.start][1]
      BY RideFrom DEF leg
    <3>2. c[a.start] \in Node /\ c[j] \in Node
      BY <1>2, ChainHas
    <3> QED
      BY <2>1, <2>2, <3>1, <3>2 DEF RideOK
  <2> HIDE DEF leg, L
  <2>5. a.legs[Len(a.legs)].mode # "RIDE"
    BY <1>2
  <2>6. Append(a.legs, leg) \in Seq(L) /\ WayTo(Append(a.legs, leg), p, leg.to)
    <3> DEFINE ls == a.legs
               x == StopOf(c[a.start])
    <3>1. /\ ls \in Seq(L) /\ leg \in L /\ WayTo(ls, p, x) /\ leg.from = x
          /\ leg.mode = "RIDE" => RideOK(leg) /\ ls[Len(ls)].mode # "RIDE"
      BY <1>2, <2>3, <2>4, <2>5
    <3> HIDE DEF ls, x
    <3>2. Append(ls, leg) \in Seq(L) /\ WayTo(Append(ls, leg), p, leg.to)
      BY <3>1, OneLegOn
    <3> QED
      BY <3>2 DEF ls
  <2> QED
    BY <2>4, <2>6 DEF leg
<1>5. ASSUME NEW ls \in Seq(L), WayTo(ls, p, StopOf(c[i - 1]))
      PROVE  LET ms == Append(ls, Between(c, i))
             IN  WayTo(ms, p, StopOf(c[i])) /\ ms[Len(ms)].mode = "WALK"
  <2> DEFINE leg == Between(c, i)
  <2>1. leg.mode = "WALK" /\ leg.from = StopOf(c[i - 1]) /\ leg.to = StopOf(c[i])
    BY WalkFrom
  <2>2. leg \in L
    BY DEF LegOn
  <2> HIDE DEF leg, L
  <2>3. leg.mode # "RIDE"
    BY <2>1
  <2>4. WayTo(Append(ls, leg), p, leg.to) /\ Append(ls, leg)[Len(Append(ls, leg))] = leg
    BY <1>5, <2>1, <2>2, <2>3, OneLegOn
  <2> QED
    BY <2>1, <2>4 DEF leg
<1> HIDE DEF hop, L
<1>6. CASE change
  <2>1. hop.start = i
    BY <1>3, <1>6
  <2>2. OneRoute(c, i, i)
    BY <1>1 DEF OneRoute
  <2>3. WayTo(hop.legs, p, StopOf(c[i])) /\ hop.legs[Len(hop.legs)].mode = "WALK"
    <3>1. CASE i - 1 > a.start
      <4>1. hop.legs = Append(ride(i - 1), Between(c, i))
        BY <1>3, <1>6, <3>1
      <4>2. ride(i - 1) \in Seq(L) /\ WayTo(ride(i - 1), p, StopOf(c[i - 1]))
        BY <1>1, <1>2, <1>4, <3>1
      <4> HIDE DEF ride
      <4> QED
        BY <1>5, <4>1, <4>2
    <3>2. CASE ~ (i - 1 > a.start)
      <4>1. hop.legs = Append(a.legs, Between(c, i)) /\ a.start = i - 1
        BY <1>1, <1>2, <1>3, <1>6, <3>2
      <4> QED
        BY <1>2, <1>5, <4>1
    <3> QED
      BY <3>1, <3>2
  <2> HIDE DEF change, ride
  <2>4. i <= i
    BY <1>1
  <2> QED
    BY <1>3, <2>1, <2>2, <2>3, <2>4 DEF HopOK, hop
<1>7. CASE ~ change
  <2>1. hop.start = a.start /\ a.start <= i /\ i > a.start
    BY <1>1, <1>2, <1>3, <1>7
  <2>2. OneRoute(c, a.start, i)
    <3>1. ASSUME NEW k \in a.start .. i PROVE c[k][1] = c[a.start][1]
      <4>1. CASE k = i
        <5>1. i - 1 \in a.start .. i - 1
          BY <1>1, <1>2
        <5>2. c[i - 1][1] = c[a.start][1]
          BY <1>2, <5>1 DEF OneRoute
        <5> QED
          BY <1>7, <4>1, <5>2
      <4>2. CASE k # i
        <5>1. k \in a.start .. i - 1
          BY <1>1, <1>2, <4>2
        <5> QED
          BY <1>2, <5>1 DEF OneRoute
      <4> QED
        BY <4>1, <4>2
    <3> QED
      BY <3>1 DEF OneRoute
  <2>3. CASE i = Len(c)
    <3>1. hop.legs = ride(i)
      BY <1>3, <1>7, <2>1, <2>3
    <3>2. WayTo(hop.legs, p, StopOf(c[i]))
      BY <1>1, <1>4, <2>1, <2>2, <3>1
    <3> HIDE DEF change, ride
    <3>3. ~ (i < Len(c))
      BY <1>1, <2>3
    <3> QED
      BY <1>3, <2>1, <2>2, <2>3, <3>2, <3>3 DEF HopOK, hop
  <2>4. CASE i # Len(c)
    <3>1. hop.legs = a.legs
      BY <1>3, <1>7, <2>4
    <3> HIDE DEF change, ride
    <3> QED
      BY <1>2, <1>3, <2>1, <2>2, <2>4, <3>1 DEF HopOK, hop
  <2> QED
    BY <2>3, <2>4
<1> QED
  BY <1>6, <1>7 DEF hop

\* One hop keeps the count of the transfers: each of them is a walk.
LEMMA HopCounts ==
    ASSUME NEW p, NEW s \in Searches(p), NEW last, NEW c \in ChainsTo(s, last),
           NEW i \in 2 .. Len(c), NEW a, HopOK(c, p, i - 1, a), CountOK(a.legs, a.transfers)
    PROVE  CountOK(FoldHop(a, c, i).legs, FoldHop(a, c, i).transfers)
<1> DEFINE change == c[i][1] # c[i - 1][1]
           ride(j) == RideLeg(c, a.start, j)
           hop == FoldHop(a, c, i)
           L == LegOn(c, p)
           n == a.transfers
<1>1. Len(c) \in Nat /\ i \in 1 .. Len(c) /\ i - 1 \in 1 .. Len(c)
  BY ChainHas
<1>2. a \in Folding(c, p) /\ a.legs \in Seq(L) /\ a.start \in 1 .. Len(c) /\ n \in Nat
  BY DEF HopOK, Folding
<1>3. /\ hop.legs = IF change
                    THEN IF i - 1 > a.start
                         THEN Append(Append(a.legs, ride(i - 1)), Between(c, i))
                         ELSE Append(a.legs, Between(c, i))
                    ELSE IF i = Len(c) /\ i > a.start THEN Append(a.legs, ride(i)) ELSE a.legs
      /\ hop.transfers = IF change THEN n + 1 ELSE n
  BY <1>1, <1>2, HopIs
<1>4. \A j \in 1 .. Len(c) : ride(j) \in L /\ ride(j).mode = "RIDE"
  BY <1>2, RideIsALeg, RideFrom
<1>5. Between(c, i) \in L /\ Between(c, i).mode = "WALK"
  BY WalkFrom DEF LegOn
<1> HIDE DEF change, ride, hop, L
<1>6. ASSUME NEW j \in 1 .. Len(c)
      PROVE  Append(a.legs, ride(j)) \in Seq(L) /\ CountOK(Append(a.legs, ride(j)), n)
  <2>1. ride(j) \in L /\ ride(j).mode = "RIDE"
    BY <1>4
  <2>2. Append(a.legs, ride(j)) \in Seq(L)
    BY <1>2, <2>1
  <2>3. CountOK(Append(a.legs, ride(j)), IF ride(j).mode = "WALK" THEN n + 1 ELSE n)
    BY <1>2, <2>1, OneMoreCounts
  <2> QED
    BY <2>1, <2>2, <2>3
<1>7. ASSUME NEW ls \in Seq(L), CountOK(ls, n)
      PROVE  CountOK(Append(ls, Between(c, i)), n + 1)
  <2> DEFINE walk == Between(c, i)
  <2>1. walk \in L /\ walk.mode = "WALK"
    BY <1>5
  <2> HIDE DEF walk
  <2>2. CountOK(Append(ls, walk), IF walk.mode = "WALK" THEN n + 1 ELSE n)
    BY <1>2, <1>7, <2>1, OneMoreCounts
  <2> QED
    BY <2>1, <2>2 DEF walk
<1>8. CountOK(hop.legs, hop.transfers)
  BY <1>1, <1>2, <1>3, <1>6, <1>7
<1> QED
  BY <1>8 DEF hop

\* The legs so far, with what was waited in vain, last until the ride under way, or
\* a ride that has ended, says; the chain ends where a walk ends it.
TimeOK(s, c, i, a) ==
    /\ \E t \in Int, lost \in Nat :
         /\ Lasts(a.legs, t, lost)
         /\ IF a.legs[Len(a.legs)].mode = "RIDE" THEN t + lost = s.dist[c[i]]
            ELSE t + lost + Wait(c[a.start]) = s.dist[c[a.start]]
    /\ i = Len(c) /\ a.legs[Len(a.legs)].mode # "RIDE" => a.start = i

\* One hop keeps TimeOK.  A transfer at the stop where the ride would begin is a
\* bus waited for in vain.
LEMMA HopTime ==
    ASSUME NEW p, NEW s \in Searches(p), NEW last, NEW c \in ChainsTo(s, last),
           NEW i \in 2 .. Len(c), NEW a, HopOK(c, p, i - 1, a), TimeOK(s, c, i - 1, a)
    PROVE  TimeOK(s, c, i, FoldHop(a, c, i))
<1> DEFINE change == c[i][1] # c[i - 1][1]
           ride(j) == Append(a.legs, RideLeg(c, a.start, j))
           hop == FoldHop(a, c, i)
           L == LegOn(c, p)
<1>1. Len(c) \in Nat /\ i - 1 < Len(c) /\ i \in 1 .. Len(c) /\ i - 1 \in 1 .. Len(c)
  BY ChainHas
<1>2. /\ a \in Folding(c, p) /\ a.legs \in Seq(L) /\ a.start \in 1 .. Len(c) /\ a.start <= i - 1
      /\ Len(a.legs) >= 1 /\ a.legs[Len(a.legs)].mode # "RIDE"
  BY <1>1 DEF HopOK, Folding, WayTo
<1>3. /\ hop.start = IF change THEN i ELSE a.start
      /\ hop.legs = IF change
                    THEN IF i - 1 > a.start THEN Append(ride(i - 1), Between(c, i))
                                            ELSE Append(a.legs, Between(c, i))
                    ELSE IF i = Len(c) /\ i > a.start THEN ride(i) ELSE a.legs
  BY <1>1, <1>2, HopIs
<1>4. PICK t \in Int, lost \in Nat :
        Lasts(a.legs, t, lost) /\ t + lost + Wait(c[a.start]) = s.dist[c[a.start]]
  BY <1>2 DEF TimeOK
<1>5. \A k \in 1 .. Len(c) : c[k] \in Node /\ s.dist[c[k]] \in Int /\ Wait(c[k]) \in Nat
  BY ChainHas, StopFacts
<1>6. ASSUME NEW j \in 1 .. Len(c), j > a.start
      PROVE  /\ ride(j) \in Seq(L) /\ ride(j)[Len(ride(j))].mode = "RIDE"
             /\ \E t1 \in Int : Lasts(ride(j), t1, lost) /\ t1 + lost = s.dist[c[j]]
  <2> DEFINE leg == RideLeg(c, a.start, j)
  <2>1. leg \in L
    BY <1>2, RideIsALeg
  <2>2. leg.wait = Wait(c[a.start]) /\ leg.mode = "RIDE"
    BY DEF RideLeg
  <2>3. leg.minutes = s.dist[c[j]] - s.dist[c[a.start]]
    BY <1>2, <1>6, RideTakes
  <2> HIDE DEF leg, L
  <2>4. /\ leg.wait \in Int /\ leg.minutes \in Int
        /\ s.dist[c[j]] \in Int /\ s.dist[c[a.start]] \in Int
    <3>1. s.dist[c[j]] \in Int /\ s.dist[c[a.start]] \in Int /\ Wait(c[a.start]) \in Nat
      BY <1>2, <1>5
    <3> QED
      BY <2>2, <2>3, <3>1
  <2>5. Lasts(Append(a.legs, leg), t + leg.wait + leg.minutes, lost + 0)
    BY <1>2, <1>4, <2>1, <2>4, OneMoreLasts
  <2>6. lost + 0 = lost /\ (t + leg.wait + leg.minutes) + lost = s.dist[c[j]]
    <3> DEFINE w == leg.wait
               d == s.dist[c[a.start]]
               e == s.dist[c[j]]
    <3>1. t + lost + w = d /\ leg.minutes = e - d /\ w \in Int /\ d \in Int /\ e \in Int
      BY <1>4, <2>2, <2>3, <2>4
    <3> HIDE DEF w, d, e
    <3>2. lost + 0 = lost /\ (t + w + (e - d)) + lost = e
      BY <1>4, <3>1
    <3> QED
      BY <3>1, <3>2 DEF w, e
  <2>7. Append(a.legs, leg) \in Seq(L) /\ Append(a.legs, leg)[Len(Append(a.legs, leg))] = leg
    BY <1>2, <2>1
  <2>8. t + leg.wait + leg.minutes \in Int
    BY <2>4
  <2> QED
    BY <2>2, <2>5, <2>6, <2>7, <2>8 DEF leg
<1>7. ASSUME change, NEW ls \in Seq(L), NEW t1 \in Int, NEW l1 \in Nat, NEW more \in Nat,
             Lasts(ls, t1, l1), t1 + l1 + more = s.dist[c[i - 1]],
             more # 0 => Len(ls) >= 1 /\ ls[Len(ls)].mode # "RIDE"
      PROVE  LET ms == Append(ls, Between(c, i))
             IN  /\ ms[Len(ms)].mode # "RIDE"
                 /\ \E t2 \in Int, l2 \in Nat :
                      Lasts(ms, t2, l2) /\ t2 + l2 + Wait(c[i]) = s.dist[c[i]]
  <2> DEFINE leg == Between(c, i)
             walk == EdgeKm(c[i - 1], c[i]) * PerWalk
  <2>1. leg.mode = "WALK" /\ leg.wait = 0 /\ leg.minutes = walk
    BY DEF Between, WalkLeg
  <2>2. leg \in L
    BY DEF LegOn
  <2>3. walk \in Nat /\ Minutes(c[i - 1], c[i]) = walk + Wait(c[i])
    BY <1>1, <1>5, <1>7, MinutesOfEdge DEF Minutes
  <2>4. s.dist[c[i - 1]] + Minutes(c[i - 1], c[i]) = s.dist[c[i]]
    <3>1. i - 1 \in 1 .. Len(c) - 1 /\ (i - 1) + 1 = i
      BY <1>1
    <3> QED
      BY <3>1, ChainHas
  <2> HIDE DEF leg, L, walk
  <2>5. leg.wait \in Int /\ leg.minutes \in Int /\ leg.mode # "RIDE"
    BY <2>1, <2>3
  <2>6. Lasts(Append(ls, leg), t1 + leg.wait + leg.minutes, l1 + more)
    BY <1>7, <2>2, <2>5, OneMoreLasts
  <2>7. Append(ls, leg)[Len(Append(ls, leg))] = leg
    BY <2>2
  <2>8. (t1 + leg.wait + leg.minutes) + (l1 + more) + Wait(c[i]) = s.dist[c[i]]
    <3> DEFINE d == s.dist[c[i - 1]]
               e == s.dist[c[i]]
               w == Wait(c[i])
               m == Minutes(c[i - 1], c[i])
    <3>1. /\ t1 + l1 + more = d /\ m = walk + w /\ d + m = e
          /\ leg.wait = 0 /\ leg.minutes = walk
      BY <1>7, <2>1, <2>3, <2>4
    <3>2. d \in Int /\ e \in Int /\ w \in Int
      <4> HIDE DEF change
      <4> QED
        BY <1>1, <1>5
    <3> HIDE DEF d, e, w, m, change
    <3>3. (t1 + 0 + walk) + (l1 + more) + w = e
      BY <2>3, <3>1, <3>2
    <3> QED
      BY <3>1, <3>3 DEF e, w
  <2>9. t1 + leg.wait + leg.minutes \in Int /\ l1 + more \in Nat
    BY <2>5
  <2> QED
    BY <2>5, <2>6, <2>7, <2>8, <2>9 DEF leg
<1> HIDE DEF hop, L
<1>8. CASE change
  <2>1. /\ hop.start = i /\ hop.legs[Len(hop.legs)].mode # "RIDE"
        /\ \E t2 \in Int, l2 \in Nat :
             Lasts(hop.legs, t2, l2) /\ t2 + l2 + Wait(c[i]) = s.dist[c[i]]
    <3>1. CASE i - 1 > a.start
      <4>1. hop.legs = Append(ride(i - 1), Between(c, i)) /\ hop.start = i
        BY <1>3, <1>8, <3>1
      <4>2. ride(i - 1) \in Seq(L)
        BY <1>1, <1>6, <3>1
      <4>3. PICK t1 \in Int : Lasts(ride(i - 1), t1, lost) /\ t1 + lost = s.dist[c[i - 1]]
        BY <1>1, <1>6, <3>1
      <4>4. t1 + lost + 0 = s.dist[c[i - 1]]
        BY <4>3
      <4> HIDE DEF ride, change
      <4> QED
        BY <1>7, <1>8, <4>1, <4>2, <4>3, <4>4
    <3>2. CASE ~ (i - 1 > a.start)
      <4>1. hop.legs = Append(a.legs, Between(c, i)) /\ a.start = i - 1 /\ hop.start = i
        BY <1>1, <1>2, <1>3, <1>8, <3>2
      <4>2. Wait(c[i - 1]) \in Nat /\ t + lost + Wait(c[i - 1]) = s.dist[c[i - 1]]
        BY <1>1, <1>4, <1>5, <4>1
      <4> HIDE DEF change
      <4> QED
        BY <1>2, <1>4, <1>7, <1>8, <4>1, <4>2
    <3> QED
      BY <3>1, <3>2
  <2> QED
    BY <2>1 DEF TimeOK, hop
<1>9. CASE ~ change
  <2>1. hop.start = a.start /\ i > a.start
    BY <1>1, <1>2, <1>3, <1>9
  <2>2. CASE i = Len(c)
    <3>1. hop.legs = ride(i)
      BY <1>3, <1>9, <2>1, <2>2
    <3>2. /\ ride(i)[Len(ride(i))].mode = "RIDE"
          /\ \E t1 \in Int : Lasts(ride(i), t1, lost) /\ t1 + lost = s.dist[c[i]]
      BY <1>1, <1>6, <2>1
    <3> HIDE DEF ride
    <3> QED
      BY <3>1, <3>2 DEF TimeOK, hop
  <2>3. CASE i # Len(c)
    <3>1. hop.legs = a.legs
      BY <1>3, <1>9, <2>3
    <3> QED
      BY <1>2, <1>4, <2>1, <2>3, <3>1 DEF TimeOK, hop
  <2> QED
    BY <2>2, <2>3
<1> QED
  BY <1>8, <1>9 DEF hop

\* So after the last hop they are a way to the last stop, and take the time it is
\* reached at.
LEMMA HopsConnect ==
    ASSUME NEW p \in Int, NEW s \in Searches(p), NEW last, NEW c \in ChainsTo(s, last),
           s.via[Head(c)] = None
    PROVE  /\ Hopped(c, p).legs \in Seq(LegOn(c, p))
           /\ WayTo(Hopped(c, p).legs, p, StopOf(last))
           /\ TimeOK(s, c, Len(c), Hopped(c, p))
           /\ CountOK(Hopped(c, p).legs, Hopped(c, p).transfers) /\ Hopped(c, p).transfers \in Nat
<1> DEFINE n == Len(c) - 1
           ids == [i \in 1 .. n |-> i + 1]
           b == [legs |-> <<FirstWalk(c, p)>>, start |-> 1, transfers |-> 0]
           X == Folding(c, p)
           IsFold(f) == f = [t \in SUBSET (DOMAIN ids) |->
                               IF t = {} THEN b ELSE FoldHop(f[t \ {Max(t)}], c, ids[Max(t)])]
           fold == CHOOSE f : IsFold(f)
           op == [x \in (1 .. n) \X X |-> FoldHop(x[2], c, x[1] + 1)]
<1>1. Len(c) \in Nat /\ n \in Nat /\ c[Len(c)] = last /\ 1 \in 1 .. Len(c) /\ n + 1 = Len(c)
  BY ChainHas
<1>2. Hopped(c, p) = fold[DOMAIN ids]
  BY DEF Hopped, FoldLeft, MapThenFoldSet, FirstWalk
<1>3. DOMAIN ids = 1 .. n /\ \A i \in 1 .. n : ids[i] = i + 1 /\ i + 1 \in 2 .. Len(c)
  BY <1>1
<1>4. FirstWalk(c, p) \in LegOn(c, p) /\ FirstWalk(c, p).mode = "WALK"
      /\ FirstWalk(c, p).from = p /\ FirstWalk(c, p).to = StopOf(c[1])
  BY DEF LegOn, FirstWalk, WalkLeg
<1>5. HopOK(c, p, 1, b)
  <2>1. <<FirstWalk(c, p)>> \in Seq(LegOn(c, p))
    BY <1>4
  <2>2. b \in X
    BY <1>1, <2>1 DEF Folding
  <2>3. WayTo(<<FirstWalk(c, p)>>, p, StopOf(c[1]))
    BY <1>4 DEF WayTo
  <2>4. OneRoute(c, 1, 1)
    BY DEF OneRoute
  <2>5. b.legs = <<FirstWalk(c, p)>> /\ b.start = 1
    OBVIOUS
  <2>6. b.legs[Len(b.legs)].mode = "WALK"
    BY <1>4
  <2> HIDE DEF b
  <2> QED
    BY <2>2, <2>3, <2>4, <2>5, <2>6 DEF HopOK
<1>18. TimeOK(s, c, 1, b)
  <2> DEFINE leg == FirstWalk(c, p)
  <2>1. c[1] \in Node /\ s.dist[c[1]] = Access(p, c[1])
    BY <1>1, ChainHas
  <2>2. leg.mode = "WALK" /\ leg.wait = 0 /\ leg.minutes = Street(p, StopOf(c[1])) * PerWalk
    BY DEF FirstWalk, WalkLeg
  <2>3. leg.minutes \in Nat /\ leg.minutes + Wait(c[1]) = s.dist[c[1]] /\ Wait(c[1]) \in Nat
    BY <2>1, <2>2, EndsTakeTime, StopFacts DEF Access
  <2>4. b.legs = <<leg>> /\ b.start = 1 /\ Len(<<leg>>) = 1 /\ <<leg>>[1] = leg
    OBVIOUS
  <2> HIDE DEF leg, b
  <2>5. Takes(<<leg>>, leg.wait + leg.minutes)
    BY <2>2, <2>3, OneTakes
  <2>6. leg.wait + leg.minutes \in Int /\ leg.wait + leg.minutes + 0 + Wait(c[1]) = s.dist[c[1]]
    BY <2>2, <2>3
  <2>7. Lasts(<<leg>>, leg.wait + leg.minutes, 0)
    BY <2>5 DEF Lasts
  <2> QED
    BY <2>2, <2>4, <2>6, <2>7 DEF TimeOK
<1>19. CountOK(b.legs, b.transfers)
  <2> DEFINE leg == FirstWalk(c, p)
  <2>1. leg.mode = "WALK"
    BY <1>4
  <2>2. b.legs = <<leg>> /\ b.transfers = 0 /\ Len(<<leg>>) = 1 /\ <<leg>>[1] = leg
    OBVIOUS
  <2> HIDE DEF leg, b
  <2>3. 1 .. 1 = {1}
    OBVIOUS
  <2>4. Walks(<<leg>>) = {1}
    BY <2>1, <2>2, <2>3 DEF Walks
  <2>5. IsFiniteSet({1}) /\ Cardinality({1}) = 0 + 1
    <3>1. IsFiniteSet({1}) /\ Cardinality({1}) = 1
      BY FS_Singleton, Zenon
    <3> QED
      BY <3>1
  <2> QED
    BY <2>1, <2>2, <2>4, <2>5 DEF CountOK
<1>6. b \in X
  BY <1>5 DEF HopOK
<1> HIDE DEF ids, b, n, X, fold, IsFold
<1>7. \A i \in 1 .. n, a \in X : FoldHop(a, c, i + 1) \in X
  BY <1>1, <1>3, HopIs DEF X
<1>8. op \in [(1 .. n) \X X -> X] /\ \A i \in 1 .. n, a \in X : op[<<i, a>>] = FoldHop(a, c, i + 1)
  BY <1>7
<1> HIDE DEF op
<1>9. PICK g : LeftSolves(g, n, b, op, X)
  BY <1>1, <1>6, <1>8, LeftFoldExists
<1>10. IsFold(g)
  <2>1. ASSUME NEW t \in SUBSET (1 .. n), t # {}
        PROVE  g[t] = FoldHop(g[t \ {Max(t)}], c, ids[Max(t)])
    <3>1. Max(t) \in 1 .. n /\ t \ {Max(t)} \in SUBSET (1 .. n)
      BY <1>1, <2>1, LastOfMany
    <3>2. g[t] = op[<<Max(t), g[t \ {Max(t)}]>>] /\ g[t \ {Max(t)}] \in X
      BY <1>9, <2>1, <3>1 DEF LeftSolves
    <3> QED
      BY <1>3, <1>8, <3>1, <3>2
  <2>2. g = [t \in SUBSET (1 .. n) |-> g[t]] /\ g[{}] = b
    BY <1>9 DEF LeftSolves
  <2> QED
    BY <1>3, <2>1, <2>2 DEF IsFold
<1>11. IsFold(fold)
  BY <1>10 DEF fold
<1>12. /\ fold[{}] = b
       /\ \A t \in SUBSET (1 .. n) :
             t # {} => fold[t] = FoldHop(fold[t \ {Max(t)}], c, ids[Max(t)])
  BY <1>3, <1>11 DEF IsFold
<1> DEFINE OK(i, a) == HopOK(c, p, i, a) /\ TimeOK(s, c, i, a) /\ CountOK(a.legs, a.transfers)
           T == {k \in Nat : k <= n => OK(k + 1, fold[1 .. k])}
<1>13. 0 \in T
  <2>1. 1 .. 0 = {} /\ 0 + 1 = 1
    OBVIOUS
  <2> QED
    BY <1>5, <1>12, <1>18, <1>19, <2>1
<1>14. ASSUME NEW k \in Nat, k \in T PROVE k + 1 \in T
  <2>1. SUFFICES ASSUME k + 1 <= n PROVE OK((k + 1) + 1, fold[1 .. (k + 1)])
    OBVIOUS
  <2>2. k + 1 \in 1 .. n /\ OK(k + 1, fold[1 .. k]) /\ (k + 1) - 1 = k
    BY <1>1, <1>14, <2>1
  <2>3. /\ 1 .. (k + 1) \in SUBSET (1 .. n) /\ 1 .. (k + 1) # {} /\ Max(1 .. (k + 1)) = k + 1
        /\ (1 .. (k + 1)) \ {k + 1} = 1 .. ((k + 1) - 1)
    BY <1>1, <2>2, LastOfMany
  <2>4. fold[1 .. (k + 1)] =
          FoldHop(fold[(1 .. (k + 1)) \ {Max(1 .. (k + 1))}], c, ids[Max(1 .. (k + 1))])
    BY <1>12, <2>3
  <2>5. ids[k + 1] = (k + 1) + 1 /\ (k + 1) + 1 \in 2 .. Len(c) /\ ((k + 1) + 1) - 1 = k + 1
    BY <1>3, <2>2
  <2>6. fold[1 .. (k + 1)] = FoldHop(fold[1 .. k], c, (k + 1) + 1)
    BY <2>2, <2>3, <2>4, <2>5
  <2> QED
    BY <2>2, <2>5, <2>6, HopStep, HopTime, HopCounts
<1>15. n \in T
  <2> HIDE DEF T
  <2> QED
    BY <1>1, <1>13, <1>14, NumbersAreReached
<1>16. OK(n + 1, fold[1 .. n])
  BY <1>1, <1>15
<1>17. OK(Len(c), Hopped(c, p))
  BY <1>1, <1>2, <1>3, <1>16
<1> QED
  BY <1>1, <1>17 DEF HopOK, Folding

\* A response has the legs and the time it is given.
LEMMA ResponseHas ==
    \A ls, total, transfers : /\ Response(ls, total, transfers).legs = ls
                              /\ Response(ls, total, transfers).totalMinutes = total
<1> DEFINE Sum(ls) == FoldLeft(LAMBDA km, leg : km + leg.km, 0, ls)
<1>1. \A ls, total, transfers :
        Response(ls, total, transfers) = [legs |-> ls, totalMinutes |-> total,
                                          transfers |-> transfers, totalKm |-> Sum(ls)]
  BY DEF Response
<1> HIDE DEF Sum
<1> QED
  BY <1>1

\* It has the transfers it is given.
LEMMA ResponseCounts ==
    \A ls, total, transfers : Response(ls, total, transfers).transfers = transfers
<1> DEFINE Sum(ls) == FoldLeft(LAMBDA km, leg : km + leg.km, 0, ls)
<1>1. \A ls, total, transfers :
        Response(ls, total, transfers) = [legs |-> ls, totalMinutes |-> total,
                                          transfers |-> transfers, totalKm |-> Sum(ls)]
  BY DEF Response
<1> HIDE DEF Sum
<1> QED
  BY <1>1

\* A walk has no transfers.  A way by bus has a walk for each, and two at its ends.
PlanCounts(plan) ==
    \/ Len(plan.legs) = 1 /\ plan.transfers = 0
    \/ /\ Len(plan.legs) >= 2 /\ plan.legs[Len(plan.legs)].mode = "WALK"
       /\ plan.transfers \in Nat /\ CountOK(plan.legs, plan.transfers + 1)

\* A plan from p to q: its legs are a way, and last as long as it says, without what
\* is waited for in vain.
PlanFrom(plan, p, q) ==
    /\ WayTo(plan.legs, p, q) /\ \E S : plan.legs \in Seq(S)
    /\ \E t \in Int, lost \in Nat : Lasts(plan.legs, t, lost) /\ t + lost = plan.totalMinutes
    /\ PlanCounts(plan)

\* A plan by bus: the walk to the destination closes the way.
LEMMA TransitConnects ==
    ASSUME NEW p \in Int, NEW q \in Int, Transit(p, q) # None
    PROVE  PlanFrom(Transit(p, q), p, q)
<1> DEFINE s == Search(p)
           last == Alight(s, q)
           c == Chain(s, last)
           acc == Hopped(c, p)
           ls == acc.legs
           leg == WalkLeg(StopOf(last), q, Street(StopOf(last), q))
           total == s.dist[last] + Egress(last, q)
           S == LegOn(c, p) \union {leg}
<1>1. Transit(p, q) = IF last = None THEN None ELSE Ended(acc, last, total, q)
  BY DEF Transit, FoldedTo, Folded
<1>2. s \in Searches(p)
  BY SearchFinds
<1> HIDE DEF s
<1>3. last # None
  BY <1>1
<1>4. last \in Reached(s)
  BY <1>2, <1>3, AlightIsReached
<1>5. Transit(p, q) = Ended(acc, last, total, q)
  BY <1>1, <1>3
<1>6. last \in Node /\ s.dist[last] \in Nat /\ Egress(last, q) \in Nat
  BY <1>2, <1>4, SearchHas, EndsTakeTime
<1> HIDE DEF last
<1>7. c \in ChainsTo(s, last) /\ s.via[Head(c)] = None
  BY <1>2, <1>4, ChainLeads
<1> HIDE DEF c
<1>8. /\ ls \in Seq(LegOn(c, p)) /\ WayTo(ls, p, StopOf(last)) /\ TimeOK(s, c, Len(c), acc)
      /\ Len(c) \in Nat /\ c[Len(c)] = last
      /\ CountOK(ls, acc.transfers) /\ acc.transfers \in Nat
  BY <1>2, <1>7, HopsConnect, ChainHas
<1>9. /\ Transit(p, q).legs = Append(ls, leg) /\ Transit(p, q).totalMinutes = total
      /\ Transit(p, q).transfers = acc.transfers
  <2> DEFINE rides == \E i \in DOMAIN Append(ls, leg) : Append(ls, leg)[i].mode = "RIDE"
             plan == Response(Append(ls, leg), total, acc.transfers)
  <2>1. Transit(p, q) = IF rides THEN plan ELSE None
    BY <1>5 DEF Ended
  <2>2. plan.legs = Append(ls, leg) /\ plan.totalMinutes = total /\ plan.transfers = acc.transfers
    <3> DEFINE full == Append(ls, leg)
               changes == acc.transfers
    <3> HIDE DEF total, full, changes
    <3>1. /\ Response(full, total, changes).legs = full
          /\ Response(full, total, changes).totalMinutes = total
      BY ResponseHas, Zenon
    <3>2. Response(full, total, changes).transfers = changes
      BY ResponseCounts, Zenon
    <3> QED
      BY <3>1, <3>2 DEF full, changes
  <2> HIDE DEF rides, plan
  <2> QED
    BY <2>1, <2>2
<1>10. /\ leg.mode = "WALK" /\ leg.from = StopOf(last) /\ leg.to = q
       /\ leg.wait = 0 /\ leg.minutes = Egress(last, q)
  BY DEF WalkLeg, Egress
<1> HIDE DEF leg, ls, acc
<1>11. ls \in Seq(S) /\ leg \in S
  BY <1>8
<1> HIDE DEF S
<1>12. WayTo(Append(ls, leg), p, leg.to) /\ Append(ls, leg) \in Seq(S)
  BY <1>8, <1>10, <1>11, OneLegOn
<1>13. \E t \in Int, lost \in Nat : Lasts(Append(ls, leg), t, lost) /\ t + lost = total
  <2>1. PICK t \in Int, lost \in Nat :
          /\ Lasts(ls, t, lost)
          /\ IF ls[Len(ls)].mode = "RIDE" THEN t + lost = s.dist[c[Len(c)]]
             ELSE t + lost + Wait(c[acc.start]) = s.dist[c[acc.start]]
    BY <1>8 DEF TimeOK, ls
  <2> DEFINE more == IF ls[Len(ls)].mode = "RIDE" THEN 0 ELSE Wait(last)
  <2>2. more \in Nat /\ t + lost + more = s.dist[last]
    <3>1. CASE ls[Len(ls)].mode = "RIDE"
      BY <1>6, <1>8, <2>1, <3>1
    <3>2. CASE ls[Len(ls)].mode # "RIDE"
      <4>1. acc.start = Len(c)
        BY <1>8, <3>2 DEF TimeOK, ls
      <4>2. Wait(last) \in Nat
        BY <1>6, StopFacts
      <4> QED
        BY <1>8, <2>1, <3>2, <4>1, <4>2
    <3> QED
      BY <3>1, <3>2
  <2>3. more # 0 => Len(ls) >= 1 /\ ls[Len(ls)].mode # "RIDE" /\ leg.mode # "RIDE"
    BY <1>8, <1>10 DEF WayTo
  <2> HIDE DEF more, total
  <2>4. leg.wait \in Int /\ leg.minutes \in Int
    BY <1>6, <1>10
  <2>5. Lasts(Append(ls, leg), t + leg.wait + leg.minutes, lost + more)
    BY <1>11, <2>1, <2>2, <2>3, <2>4, OneMoreLasts
  <2>6. t + leg.wait + leg.minutes \in Int /\ lost + more \in Nat
    BY <2>2, <2>4
  <2>7. (t + leg.wait + leg.minutes) + (lost + more) = total
    BY <1>6, <1>10, <2>2 DEF total
  <2> QED
    BY <2>5, <2>6, <2>7
<1> HIDE DEF total
<1>14. PlanCounts(Transit(p, q))
  <2> DEFINE n == acc.transfers
             ms == Append(ls, leg)
  <2>1. CountOK(ls, n) /\ n \in Nat /\ leg.mode = "WALK"
    BY <1>8, <1>10
  <2>2. Len(ms) = Len(ls) + 1 /\ ms[Len(ms)] = leg /\ Len(ls) \in Nat
    BY <1>11
  <2>3. Len(ls) >= 1
    BY <2>1 DEF CountOK
  <2> HIDE DEF n
  <2>4. CountOK(ms, n + 1)
    <3>1. CountOK(ms, IF leg.mode = "WALK" THEN n + 1 ELSE n)
      BY <1>11, <2>1, OneMoreCounts
    <3> QED
      BY <2>1, <3>1
  <2>5. Len(ms) >= 2 /\ ms[Len(ms)].mode = "WALK"
    BY <2>1, <2>2, <2>3
  <2>6. Transit(p, q).legs = ms /\ Transit(p, q).transfers = n
    BY <1>9 DEF n
  <2> HIDE DEF ms
  <2> QED
    BY <2>1, <2>4, <2>5, <2>6 DEF PlanCounts
<1> QED
  BY <1>9, <1>10, <1>12, <1>13, <1>14 DEF PlanFrom

\* A plan, a walk or a way by bus, is from p to q.
LEMMA PlanConnects ==
    ASSUME NEW p \in Int, NEW q \in Int, Plan(p, q) # None
    PROVE  PlanFrom(Plan(p, q), p, q)
<1> DEFINE leg == WalkLeg(p, q, Street(p, q))
           time == Street(p, q) * PerWalk
           walk == Response(<<leg>>, time, 0)
<1>1. WayTo(<<leg>>, p, q)
  BY DEF WayTo, WalkLeg
<1>2. leg.wait = 0 /\ leg.minutes = time
  BY DEF WalkLeg
<1>3. time \in Nat
  <2> HIDE DEF leg, time, walk
  <2>1. Distance(p, q) \in Nat
    BY DistanceIsNat
  <2>2. Street(p, q) \in Nat /\ PerWalk \in Nat
    BY <2>1, CostAssumption DEF Street
  <2> QED
    BY <2>2, ProductIsNat DEF time
<1>4. walk.legs = <<leg>> /\ walk.totalMinutes = time
  BY ResponseHas, Zenon
<1>8. walk.transfers = 0
  BY ResponseCounts, Zenon
<1>5. Plan(p, q) = walk \/ Plan(p, q) = Transit(p, q)
  BY DEF Plan, OrWalk
<1> HIDE DEF leg, time, walk
<1>6. PlanFrom(walk, p, q)
  <2>1. Takes(<<leg>>, leg.wait + leg.minutes)
    BY <1>2, <1>3, OneTakes
  <2>2. leg.wait + leg.minutes = time /\ time + 0 = time /\ time \in Int
    BY <1>2, <1>3
  <2>3. Lasts(<<leg>>, time, 0)
    BY <2>1, <2>2 DEF Lasts
  <2>4. <<leg>> \in Seq({leg})
    OBVIOUS
  <2>5. PlanCounts(walk)
    <3>1. Len(<<leg>>) = 1
      OBVIOUS
    <3> QED
      BY <1>4, <1>8, <3>1 DEF PlanCounts
  <2> QED
    BY <1>1, <1>4, <2>2, <2>3, <2>4, <2>5 DEF PlanFrom
<1>7. CASE Plan(p, q) = Transit(p, q)
  BY <1>7, TransitConnects
<1> QED
  BY <1>5, <1>6, <1>7

-----------------------------------------------------------------------------
(* Choices.                                                                *)

\* The kind of a choice tells what it is.
LEMMA Kinds ==
    /\ Me.kind = "me" /\ NoChoice.kind = "none" /\ OnMap.kind = "map"
    /\ Me.at = None /\ NoChoice.at = None
    /\ \A p : AtStop(p).kind = "stop" /\ AtStop(p).at = p
BY DEF Me, NoChoice, OnMap, AtStop

\* A point that is asked for is a place.
LEMMA ResolvedIsPlace == TypeOK => \A w \in Which : Resolved(w) \subseteq Place
<1> SUFFICES ASSUME TypeOK, NEW w \in Which PROVE Resolved(w) \subseteq Place
  OBVIOUS
<1> USE PlannerAssumption
<1>1. CASE choice[w].kind = "me"
  BY <1>1 DEF Resolved
<1>2. CASE choice[w].kind = "map"
  BY <1>2 DEF Resolved, TypeOK, Places
<1>3. CASE choice[w].kind = "stop"
  <2>1. PICK p \in Stops : choice[w] = AtStop(p)
    BY <1>3, Kinds DEF TypeOK, Options, FirstOption
  <2> QED
    BY <1>3, <2>1, Kinds DEF Resolved
<1>4. CASE choice[w].kind \notin {"me", "map", "stop"}
  BY <1>4 DEF Resolved
<1> QED
  BY <1>1, <1>2, <1>3, <1>4

\* The page starts well typed, and every step keeps it so.
LEMMA TypeInit == Init => TypeOK
BY DEF Init, TypeOK, Which, Places, Options

\* Every step of the page keeps it well typed.
LEMMA TypeStep == TypeOK /\ [Next]_vars => TypeOK'
<1> SUFFICES ASSUME TypeOK, [Next]_vars PROVE TypeOK'
  OBVIOUS
<1> USE PlannerAssumption
<1>1. CASE Visit \/ FillPickers
  BY <1>1 DEF Visit, FillPickers, TypeOK, Options, Which
<1>2. ASSUME NEW w \in Which, NEW c \in Options(w), Choose(w, c) PROVE TypeOK'
  BY <1>2 DEF Choose, TypeOK, Options, Which
<1>3. ASSUME NEW p \in Spot, ClickMap(p) PROVE TypeOK'
  <2>1. next' \in Which /\ pick' \in [Which -> Places] /\ offered' \subseteq Which
    BY <1>3 DEF ClickMap, TypeOK, Which, Other, Places
  <2>2. \A w \in Which : choice'[w] \in Options(w)'
    BY <1>3 DEF ClickMap, TypeOK, Which, Options
  <2> QED
    BY <1>3, <2>1, <2>2 DEF ClickMap, TypeOK
<1>4. CASE Swap
  <2>1. pick' \in [Which -> Places]
    BY <1>4 DEF Swap, PickSwapped, TypeOK, Which, Other
  <2>2. \A w \in Which : choice'[w] \in Options(w)'
    BY <1>4 DEF Swap, Swapped, TypeOK, Which, Options, FirstOption
  <2> QED
    BY <1>4, <2>1, <2>2 DEF Swap, TypeOK
<1>5. CASE Ask
  <2>1. asked'.from \in Place /\ asked'.to \in Place
    BY <1>5, ResolvedIsPlace DEF Ask, Which
  <2> QED
    BY <1>5, <2>1 DEF Ask, TypeOK, Options
<1>6. CASE CannotAsk \/ PlanComes \/ SearchFails
  BY <1>6 DEF CannotAsk, PlanComes, SearchFails, Failed, Drawn, Cleared, TypeOK, Options
<1>7. CASE UNCHANGED vars
  BY <1>7 DEF vars, TypeOK, Options
<1> QED
  BY <1>1, <1>2, <1>3, <1>4, <1>5, <1>6, <1>7 DEF Next

\* Every reachable state of the page is well typed: what a list has chosen is
\* an option it has, and a search is for places, whatever was filled, clicked
\* or swapped in between.
THEOREM PlannerTypes == Spec => []TypeOK
BY TypeInit, TypeStep, PTL DEF Spec

-----------------------------------------------------------------------------
(* What is shown.                                                          *)

\* The legs on the map are those of the plan that is shown, on every path an answer
\* takes.
THEOREM LegsGoWithThePlan == Spec => []LegsAreOfThePlan
<1>1. Init => LegsAreOfThePlan
  BY DEF Init, LegsAreOfThePlan
<1>2. LegsAreOfThePlan /\ [Next]_vars => LegsAreOfThePlan'
  <2> SUFFICES ASSUME LegsAreOfThePlan, [Next]_vars PROVE LegsAreOfThePlan'
    OBVIOUS
  <2>1. CASE PlanComes
    BY <2>1 DEF LegsAreOfThePlan, PlanComes, Drawn, Cleared
  <2>2. CASE CannotAsk \/ SearchFails
    BY <2>2 DEF LegsAreOfThePlan, CannotAsk, SearchFails, Failed, Cleared
  <2>3. CASE UNCHANGED <<result, legs>>
    BY <2>3 DEF LegsAreOfThePlan
  <2> QED
    BY <2>1, <2>2, <2>3 DEF Next, vars, Visit, FillPickers, Choose, ClickMap, Swap, Ask
<1> QED
  BY <1>1, <1>2, PTL DEF Spec

\* What is meant by the two lists changes places when they are swapped, with
\* the points on the map and without losing one.
THEOREM SwappingExchanges == Spec => SwapExchanges
<1>1. TypeOK /\ Swap => \A w \in Which : Meant(choice', w, pick') = Meant(choice, Other(w), pick)
  <2> SUFFICES ASSUME TypeOK, Swap, NEW w \in Which
               PROVE  Meant(choice', w, pick') = Meant(choice, Other(w), pick)
    OBVIOUS
  <2>1. pick'[w] = pick[Other(w)]
    BY DEF Swap, PickSwapped
  <2>2. \/ choice'[w] = choice[Other(w)]
        \/ choice'[w] \in {Me, NoChoice} /\ choice[Other(w)] \in {Me, NoChoice}
    BY DEF Swap, Swapped, Which, Other
  <2> QED
    BY <2>1, <2>2, Kinds DEF Meant
<1>2. Spec => []TypeOK
  BY PlannerTypes
<1> QED
  BY <1>1, <1>2, PTL DEF Spec, SwapExchanges

-----------------------------------------------------------------------------
(* What is planned.                                                        *)

\* While a plan is on its way to the page, it is the one for the two points
\* that were asked for.
PlanOK == asked # None => asked.plan = Plan(asked.from, asked.to)

\* Only a question makes a plan, and an answer ends the wait for it.
LEMMA PlanStays == PlanOK /\ [Next]_vars => PlanOK'
<1> SUFFICES ASSUME PlanOK, [Next]_vars PROVE PlanOK'
  OBVIOUS
<1>1. CASE Ask
  <2>1. PICK p \in Resolved("from"), q \in Resolved("to") :
               asked' = [from |-> p, to |-> q, plan |-> Plan(p, q)]
    BY <1>1 DEF Ask
  <2> QED
    BY <2>1 DEF PlanOK
<1>2. CASE asked' = asked \/ asked' = None
  BY <1>2 DEF PlanOK
<1>3. Ask \/ asked' = asked \/ asked' = None
  BY DEF Next, vars, Visit, FillPickers, Choose, ClickMap, Swap, CannotAsk, PlanComes, SearchFails
<1> QED
  BY <1>1, <1>2, <1>3

\* A way of legs is what is claimed of a plan.
LEMMA WayIsClaimed == TypeOK /\ PlanOK => LegsConnect
<1> SUFFICES ASSUME TypeOK, PlanOK, Answered PROVE LegsConnect
  BY DEF LegsConnect
<1>1. asked # None /\ asked.plan # None /\ asked.plan = Plan(asked.from, asked.to)
  BY DEF Answered, PlanOK
<1>2. asked.from \in Int /\ asked.to \in Int
  BY <1>1, PlannerAssumption DEF TypeOK
<1>3. WayTo(Legs, asked.from, asked.to)
  BY <1>1, <1>2, PlanConnects DEF Legs, PlanFrom
<1>4. \A i \in Rides : i \in 1 .. Len(Legs) /\ Legs[i].mode = "RIDE"
  BY <1>3 DEF Rides, WayTo
<1>5. \A i \in 1 .. Len(Legs) - 1 : Legs[i].to = Legs[i + 1].from /\ ~ {i, i + 1} \subseteq Rides
  BY <1>3, <1>4 DEF WayTo
<1>6. \A i \in Rides : RideOK(Legs[i])
  BY <1>3, <1>4 DEF WayTo
<1> QED
  BY <1>3, <1>5, <1>6 DEF LegsConnect, WayTo, RideOK

\* The legs of every plan that is answered are a way from the origin to the
\* destination: each begins where the last one ends, a ride follows the stops of
\* one route, and between two rides there is a walk.
THEOREM LegsAlwaysConnect == Spec => []LegsConnect
<1>1. Init => PlanOK
  BY DEF Init, PlanOK
<1> QED
  BY <1>1, PlanStays, PlannerTypes, WayIsClaimed, PTL DEF Spec

\* What is waited for in vain is what is claimed of the times of a plan.
LEMMA TimesAreClaimed == TypeOK /\ PlanOK => TimesAddUp
<1> SUFFICES ASSUME TypeOK, PlanOK, Answered PROVE TimesAddUp
  BY DEF TimesAddUp
<1>1. asked # None /\ asked.plan # None /\ asked.plan = Plan(asked.from, asked.to)
  BY DEF Answered, PlanOK
<1>2. asked.from \in Int /\ asked.to \in Int
  BY <1>1, PlannerAssumption DEF TypeOK
<1>3. PlanFrom(asked.plan, asked.from, asked.to)
  BY <1>1, <1>2, PlanConnects
<1>4. PICK S : Legs \in Seq(S)
  BY <1>3 DEF PlanFrom, Legs
<1>5. PICK t \in Int, lost \in Nat : Lasts(Legs, t, lost) /\ t + lost = asked.plan.totalMinutes
  BY <1>3 DEF PlanFrom, Legs
<1> HIDE DEF Legs
<1>6. DOMAIN Legs = 1 .. Len(Legs) /\ Len(Legs) \in Nat /\ SubSeq(Legs, 1, Len(Legs)) = Legs
  BY <1>4
<1>7. Spent(Len(Legs)) = t
  <2>1. FoldLeft(LAMBDA x, leg : x + leg.wait + leg.minutes, 0, Legs) = t
    BY <1>4, <1>5, TakesIsFolded DEF Lasts
  <2> QED
    BY <1>6, <2>1, Zenon DEF Spent
<1>8. TwoWalks(Legs) => Missed
  <2> SUFFICES ASSUME NEW k \in 2 .. Len(Legs), Legs[k].mode # "RIDE", Legs[k - 1].mode # "RIDE"
               PROVE  Missed
    BY DEF TwoWalks
  <2>1. k \in DOMAIN Legs \ {1} /\ k \notin Rides /\ k - 1 \notin Rides
    BY <1>6 DEF Rides
  <2> QED
    BY <2>1 DEF Missed
<1>9. ~ Missed => lost = 0
  BY <1>5, <1>8 DEF Lasts
<1>10. t <= asked.plan.totalMinutes /\ (lost = 0 => t = asked.plan.totalMinutes)
  BY <1>5
<1> QED
  BY <1>7, <1>9, <1>10 DEF TimesAddUp

\* Waits and rides and walks, leg by leg, are the time every plan says it takes,
\* unless a bus is waited for and not boarded.
THEOREM TimesAlwaysAddUp == Spec => []TimesAddUp
<1>1. Init => PlanOK
  BY DEF Init, PlanOK
<1> QED
  BY <1>1, PlanStays, PlannerTypes, TimesAreClaimed, PTL DEF Spec

-----------------------------------------------------------------------------
(* What the page makes of the legs.                                        *)

\* Unless there are two walks in a row, every walk but the first and the last is
\* between two rides, and announced as a change.
LEMMA ChangesAreCounted ==
    ASSUME NEW ls, DOMAIN ls = 1 .. Len(ls), Len(ls) \in Nat, Len(ls) >= 2, NEW n \in Nat,
           ls[Len(ls)].mode = "WALK", CountOK(ls, n + 1),
           \A i \in DOMAIN ls \ {1} : ls[i].mode = "RIDE" \/ ls[i - 1].mode = "RIDE"
    PROVE  Cardinality({i \in DOMAIN ls : IsInterchange(ls, i)}) = n
<1> DEFINE m == Len(ls)
           W == Walks(ls)
<1>1. /\ W = {k \in 1 .. m : ls[k].mode = "WALK"} /\ 1 \in W /\ m \in W /\ m # 1
      /\ IsFiniteSet(W) /\ Cardinality(W) = (n + 1) + 1
  BY DEF CountOK, Walks
<1>2. ASSUME NEW i \in DOMAIN ls PROVE IsInterchange(ls, i) <=> i \in (W \ {1}) \ {m}
  <2>1. ASSUME IsInterchange(ls, i) PROVE i \in (W \ {1}) \ {m}
    BY <1>1, <2>1 DEF IsInterchange
  <2>2. ASSUME i \in (W \ {1}) \ {m} PROVE IsInterchange(ls, i)
    <3>1. i - 1 \in DOMAIN ls /\ i + 1 \in DOMAIN ls /\ i # 1 /\ i + 1 # 1 /\ (i + 1) - 1 = i
      BY <1>1, <2>2
    <3>2. ls[i].mode = "WALK" /\ ls[i].mode # "RIDE"
      BY <1>1, <2>2
    <3>3. ls[i - 1].mode = "RIDE"
      BY <3>1, <3>2
    <3>4. ls[i + 1].mode = "RIDE"
      BY <3>1, <3>2
    <3> QED
      BY <3>1, <3>2, <3>3, <3>4 DEF IsInterchange
  <2> QED
    BY <2>1, <2>2
<1>3. {i \in DOMAIN ls : IsInterchange(ls, i)} = (W \ {1}) \ {m}
  BY <1>1, <1>2
<1> HIDE DEF W, m
<1>4. IsFiniteSet(W \ {1}) /\ Cardinality(W \ {1}) = Cardinality(W) - 1
  <2>1. IsFiniteSet(W) /\ 1 \in W
    BY <1>1
  <2> QED
    BY <2>1, FS_RemoveElement, Zenon
<1>5. m \in W \ {1}
  BY <1>1
<1>6. Cardinality((W \ {1}) \ {m}) = Cardinality(W \ {1}) - 1
  BY <1>4, <1>5, FS_RemoveElement, Zenon
<1>7. ((n + 1) + 1) - 1 - 1 = n
  OBVIOUS
<1> QED
  BY <1>1, <1>3, <1>4, <1>6, <1>7

\* What the page counts in a plan on its way is what the service has counted.
LEMMA ReadingIsClaimed == TypeOK /\ PlanOK => ChangesAreAnnounced
<1> SUFFICES ASSUME TypeOK, PlanOK, Answered, ~ Missed
             PROVE  Cardinality({i \in DOMAIN Legs : IsInterchange(Legs, i)}) = asked.plan.transfers
  BY DEF ChangesAreAnnounced
<1>1. asked # None /\ asked.plan # None /\ asked.plan = Plan(asked.from, asked.to)
  BY DEF Answered, PlanOK
<1>2. asked.from \in Int /\ asked.to \in Int
  BY <1>1, PlannerAssumption DEF TypeOK
<1>3. PlanFrom(asked.plan, asked.from, asked.to)
  BY <1>1, <1>2, PlanConnects
<1>4. PlanCounts(asked.plan)
  BY <1>3 DEF PlanFrom
<1>5. PICK S : Legs \in Seq(S)
  BY <1>3 DEF PlanFrom, Legs
<1>6. DOMAIN Legs = 1 .. Len(Legs) /\ Len(Legs) \in Nat
  BY <1>5
<1>7. CASE Len(Legs) = 1 /\ asked.plan.transfers = 0
  <2>1. {i \in DOMAIN Legs : IsInterchange(Legs, i)} = {}
    BY <1>6, <1>7 DEF IsInterchange
  <2>2. Cardinality({}) = 0
    BY FS_EmptySet
  <2> QED
    BY <1>7, <2>1, <2>2
<1>8. CASE /\ Len(Legs) >= 2 /\ Legs[Len(Legs)].mode = "WALK" /\ asked.plan.transfers \in Nat
           /\ CountOK(Legs, asked.plan.transfers + 1)
  <2>1. ASSUME NEW i \in DOMAIN Legs \ {1}
        PROVE  Legs[i].mode = "RIDE" \/ Legs[i - 1].mode = "RIDE"
    BY DEF Missed, Rides
  <2> HIDE DEF Legs
  <2> QED
    BY <1>6, <1>8, <2>1, ChangesAreCounted
<1> QED
  BY <1>4, <1>7, <1>8 DEF PlanCounts, Legs

\* Every plan is announced with as many changes of buses as it has transfers, unless
\* a bus is waited for and not boarded.
THEOREM ChangesAlwaysAnnounced == Spec => []ChangesAreAnnounced
<1>1. Init => PlanOK
  BY DEF Init, PlanOK
<1> QED
  BY <1>1, ReadingIsClaimed, PlanStays, PlannerTypes, PTL DEF Spec

-----------------------------------------------------------------------------
(* Nothing is faster.                                                      *)

\* A way from p by the edges of the graph, and the times of arrival at its stops:
\* a walk and a wait for the first bus, and what the edges take.
WayOn(p, w, at) ==
    /\ w \in Seq(Node) /\ Len(w) >= 1 /\ at \in [1 .. Len(w) -> Int]
    /\ w[1] \in Candidates(p) /\ at[1] = Access(p, w[1])
    /\ \A k \in 1 .. Len(w) - 1 :
          IsEdge(w[k], w[k + 1]) /\ at[k + 1] = at[k] + Minutes(w[k], w[k + 1])

\* The search is at every stop of it as early.
LEMMA StopsAreNearest ==
    ASSUME NEW p \in Int, NEW w, NEW at, WayOn(p, w, at)
    PROVE  LET s == Search(p)
           IN  w[Len(w)] \in Reached(s) /\ s.dist[w[Len(w)]] <= at[Len(w)]
<1> DEFINE s == Search(p)
           T == {k \in Nat : k + 1 <= Len(w) => /\ w[k + 1] \in Reached(s)
                                                /\ s.dist[w[k + 1]] <= at[k + 1]}
<1>1. s \in Searches(p) /\ Open(s) = {}
  BY SearchFinds
<1> HIDE DEF s
<1>2. Reached(s) = s.settled
  BY <1>1, SearchHas DEF Open
<1>3. Len(w) \in Nat /\ Len(w) >= 1 /\ \A k \in 1 .. Len(w) : w[k] \in Node /\ at[k] \in Int
  BY DEF WayOn
<1>4. 0 \in T
  <2>1. w[1] \in Candidates(p) /\ at[1] = Access(p, w[1])
    BY DEF WayOn
  <2>2. w[1] \in Reached(s) /\ s.dist[w[1]] <= at[1]
    BY <1>1, <2>1, SearchHas
  <2>3. 0 + 1 = 1
    OBVIOUS
  <2> QED
    BY <2>2, <2>3
<1>5. ASSUME NEW k \in Nat, k \in T PROVE k + 1 \in T
  <2>1. SUFFICES ASSUME (k + 1) + 1 <= Len(w)
                 PROVE  w[(k + 1) + 1] \in Reached(s) /\ s.dist[w[(k + 1) + 1]] <= at[(k + 1) + 1]
    OBVIOUS
  <2> DEFINE i == k + 1
  <2>2. i \in 1 .. Len(w) - 1 /\ i \in 1 .. Len(w) /\ i + 1 \in 1 .. Len(w)
    BY <1>3, <2>1
  <2>3. w[i] \in Reached(s) /\ s.dist[w[i]] <= at[i]
    BY <1>3, <1>5, <2>2
  <2> HIDE DEF i, T
  <2>4. w[i] \in Node /\ w[i + 1] \in Node /\ at[i] \in Int /\ at[i + 1] \in Int
    BY <1>3, <2>2
  <2>5. IsEdge(w[i], w[i + 1]) /\ at[i + 1] = at[i] + Minutes(w[i], w[i + 1])
    BY <2>2 DEF WayOn
  <2>6. w[i + 1] \in Reached(s) /\ s.dist[w[i + 1]] <= s.dist[w[i]] + Minutes(w[i], w[i + 1])
    BY <1>1, <1>2, <2>3, <2>4, <2>5, SearchHas
  <2>7. s.dist[w[i]] \in Nat /\ s.dist[w[i + 1]] \in Nat /\ Minutes(w[i], w[i + 1]) \in Nat
    BY <1>1, <2>3, <2>4, <2>6, SearchHas, MinutesOfEdge
  <2>8. s.dist[w[i + 1]] <= at[i + 1]
    BY <2>3, <2>4, <2>5, <2>6, <2>7
  <2> QED
    BY <2>6, <2>8 DEF i
<1>6. Len(w) - 1 \in T
  <2>1. Len(w) - 1 \in Nat
    BY <1>3
  <2> HIDE DEF T
  <2> QED
    BY <1>4, <1>5, <2>1, NumbersAreReached
<1>7. (Len(w) - 1) + 1 = Len(w)
  BY <1>3
<1>8. w[Len(w)] \in Reached(s) /\ s.dist[w[Len(w)]] <= at[Len(w)]
  BY <1>3, <1>6, <1>7
<1> QED
  BY <1>8 DEF s

\* So is a plan by bus, whatever stop the way ends at.
LEMMA TransitIsFastest ==
    ASSUME NEW p \in Int, NEW q \in Int, Transit(p, q) # None,
           NEW w, NEW at, WayOn(p, w, at), w[Len(w)] \in Candidates(q)
    PROVE  Transit(p, q).totalMinutes <= at[Len(w)] + Egress(w[Len(w)], q)
<1> DEFINE s == Search(p)
           last == Alight(s, q)
           total == s.dist[last] + Egress(last, q)
           end == w[Len(w)]
<1>1. Transit(p, q) = IF last = None THEN None ELSE Ended(Hopped(Chain(s, last), p), last, total, q)
  BY DEF Transit, FoldedTo, Folded
<1>2. s \in Searches(p)
  BY SearchFinds
<1>3. end \in Reached(s) /\ s.dist[end] <= at[Len(w)]
  BY StopsAreNearest
<1> HIDE DEF s
<1>4. last # None
  BY <1>1
<1>5. last \in Reached(s) /\ total <= s.dist[end] + Egress(end, q)
  BY <1>2, <1>3, <1>4, AlightIsReached
<1> HIDE DEF last, end
<1>6. /\ s.dist[last] \in Nat /\ Egress(last, q) \in Nat
      /\ s.dist[end] \in Nat /\ Egress(end, q) \in Nat /\ at[Len(w)] \in Int
  <2>1. last \in Node /\ s.dist[last] \in Nat /\ end \in Node /\ s.dist[end] \in Nat
    BY <1>2, <1>3, <1>5, SearchHas
  <2>2. at[Len(w)] \in Int
    BY DEF WayOn
  <2> QED
    BY <2>1, <2>2, EndsTakeTime
<1>7. Transit(p, q).totalMinutes = total
  <2> DEFINE acc == Hopped(Chain(s, last), p)
             full == Append(acc.legs, WalkLeg(StopOf(last), q, Street(StopOf(last), q)))
             changes == acc.transfers
  <2>1. Transit(p, q) = Ended(acc, last, total, q)
    BY <1>1, <1>4
  <2>2. Ended(acc, last, total, q) \in {Response(full, total, changes), None}
    BY DEF Ended
  <2> HIDE DEF acc, full, changes, total
  <2>3. Response(full, total, changes).totalMinutes = total
    BY ResponseHas, Zenon
  <2> QED
    BY <2>1, <2>2, <2>3
<1>8. total <= at[Len(w)] + Egress(end, q)
  <2> DEFINE d == s.dist[end]
             walk == Egress(end, q)
             t == at[Len(w)]
  <2>1. d \in Nat /\ walk \in Nat /\ t \in Int /\ total \in Nat /\ total <= d + walk /\ d <= t
    BY <1>3, <1>5, <1>6
  <2> HIDE DEF d, walk, t, total
  <2>2. total <= t + walk
    BY <2>1
  <2> QED
    BY <2>2 DEF t, walk
<1> QED
  BY <1>7, <1>8 DEF end

\* A plan with a ride is by bus, and a walk that is offered takes longer.
LEMMA RidesAreByBus ==
    ASSUME NEW p \in Int, NEW q \in Int, Plan(p, q) # None,
           NEW i \in DOMAIN Plan(p, q).legs, Plan(p, q).legs[i].mode = "RIDE"
    PROVE  /\ Plan(p, q) = Transit(p, q)
           /\ Street(p, q) <= MaxWalkOnly => ~ (Street(p, q) * PerWalk <= Plan(p, q).totalMinutes)
<1> DEFINE leg == WalkLeg(p, q, Street(p, q))
           time == Street(p, q) * PerWalk
           walk == Response(<<leg>>, time, 0)
           near == Street(p, q) <= MaxWalkOnly
<1>1. walk.legs = <<leg>> /\ walk.totalMinutes = time
  <2> DEFINE ls == <<leg>>
  <2> HIDE DEF ls, time
  <2>1. Response(ls, time, 0).legs = ls /\ Response(ls, time, 0).totalMinutes = time
    BY ResponseHas, Zenon
  <2> QED
    BY <2>1 DEF ls
<1>2. leg.mode = "WALK"
  BY DEF WalkLeg
<1>3. Plan(p, q) =
        IF /\ near
           /\ Transit(p, q) = None \/ walk.totalMinutes <= Transit(p, q).totalMinutes
        THEN walk ELSE Transit(p, q)
  BY DEF Plan, OrWalk
<1> HIDE DEF leg, time, walk, near
<1>4. Plan(p, q) # walk
  <2> SUFFICES ASSUME Plan(p, q) = walk PROVE FALSE
    OBVIOUS
  <2>1. i \in DOMAIN <<leg>> /\ <<leg>>[i].mode = "RIDE"
    BY <1>1
  <2>2. i = 1 /\ <<leg>>[1] = leg
    BY <2>1
  <2> QED
    BY <1>2, <2>1, <2>2
<1>5. Plan(p, q) = Transit(p, q) /\ (near => ~ (time <= Transit(p, q).totalMinutes))
  BY <1>1, <1>3, <1>4
<1> QED
  BY <1>5 DEF near, time

\* No way by the edges of the graph, and no walk that the service offers, is faster than
\* a plan with a ride.
NothingIsFaster ==
    Answered /\ Rides # {} =>
      /\ \A w, at : WayOn(asked.from, w, at) /\ w[Len(w)] \in Candidates(asked.to) =>
            asked.plan.totalMinutes <= at[Len(w)] + Egress(w[Len(w)], asked.to)
      /\ Street(asked.from, asked.to) <= MaxWalkOnly =>
            ~ (Street(asked.from, asked.to) * PerWalk <= asked.plan.totalMinutes)

\* A plan that is answered is so.
LEMMA SpeedIsClaimed == TypeOK /\ PlanOK => NothingIsFaster
<1> SUFFICES ASSUME TypeOK, PlanOK, Answered, Rides # {} PROVE NothingIsFaster
  BY DEF NothingIsFaster
<1>1. asked.plan # None /\ asked.plan = Plan(asked.from, asked.to)
  BY DEF Answered, PlanOK
<1>2. asked.from \in Int /\ asked.to \in Int
  BY PlannerAssumption DEF TypeOK, Answered
<1>3. PICK i \in DOMAIN asked.plan.legs : asked.plan.legs[i].mode = "RIDE"
  BY DEF Rides, Legs
<1>4. /\ asked.plan = Transit(asked.from, asked.to)
      /\ Street(asked.from, asked.to) <= MaxWalkOnly =>
            ~ (Street(asked.from, asked.to) * PerWalk <= asked.plan.totalMinutes)
  BY <1>1, <1>2, <1>3, RidesAreByBus
<1>5. ASSUME NEW w, NEW at, WayOn(asked.from, w, at), w[Len(w)] \in Candidates(asked.to)
      PROVE  asked.plan.totalMinutes <= at[Len(w)] + Egress(w[Len(w)], asked.to)
  BY <1>1, <1>2, <1>4, <1>5, TransitIsFastest
<1> QED
  BY <1>4, <1>5 DEF NothingIsFaster

\* A plan with a ride takes the least time of all ways through the graph, and less than
\* a walk that is offered: the queue yields stops in the order of their times, and the
\* stop to get off at is chosen with the walk from it.
THEOREM RidesAreFastest == Spec => []NothingIsFaster
<1>1. Init => PlanOK
  BY DEF Init, PlanOK
<1> QED
  BY <1>1, PlanStays, PlannerTypes, SpeedIsClaimed, PTL DEF Spec
=============================================================================
