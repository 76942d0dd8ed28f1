---------------------------- MODULE RouteCatalog ----------------------------
(***************************************************************************)
(* Routes, buses, and what is derived from the routes: RouteService.java,  *)
(* BusService.java, the "routes" cache of CacheConfig.java and the graph   *)
(* of JourneyPlannerService.java.                                          *)
(*                                                                         *)
(* A write is one transaction: it checks, saves, publishes                 *)
(* RoutesChangedEvent to the planner, which handles it at once, and        *)
(* commits when the method returns.  The cache is evicted after that (the  *)
(* caching proxy is around the transactional one).  Queries see committed  *)
(* rows.  Statements are sent at the commit, where versions and            *)
(* constraints are checked; only the insert of a new route is sent when it *)
(* is saved (its id is generated), and others wait for its route number.   *)
(* Readers fill the cache and the graph from what they have read before.   *)
(*                                                                         *)
(* A row is its route number and its version: every update changes the     *)
(* version, so the version stands for the rest of the row, path and stops  *)
(* included.  The bus counts in a list of routes are left out.             *)
(***************************************************************************)
EXTENDS Naturals, FiniteSets

CONSTANTS
    Client,         \* the requests being served, one per client at a time
    Id,             \* ids of routes; a finite Id bounds the creations
    Number,         \* route numbers
    Bus,            \* buses, by code
    MaxVersion,     \* bound: the last version an update produces
    All,            \* the cache key of the whole list
    None

ASSUME CatalogAssumption ==
    /\ MaxVersion \in Nat
    /\ All \notin Id /\ None \notin Id /\ None \notin Number

Key == Id \union {All}
Row == [number : Number, version : Nat]

ASSUME RowAssumption == None \notin Row /\ None \notin [Id -> Row \union {None}]

Table == [Id -> Row \union {None}]

\* The locals of a request.
Call ==
    [pc     : {"idle", "query", "put", "lock", "store", "save", "commit", "evict", "assign"},
     op     : {"none", "create", "update", "delete"},
     key    : Key \union {None},            \* the cache key of a read
     read   : Table \union {None},          \* what a read got
     id     : Id \union {None},             \* the route a write is about
     bus    : Bus \union {None},            \* the bus to be assigned to it
     number : Number \union {None},         \* the number to be written
     seen   : Nat]                          \* the version the write has loaded

VARIABLES
    routes,     \* the committed rows
    assigned,   \* assigned[b]: the route of bus b, or None if there is no such bus
    unborn,     \* ids the database has not given out
    cache,      \* cache[k]: the entry of the "routes" cache, or None
    graph,      \* the routes graphRef was built from, or None
    call        \* call[c]: the request of c

vars == <<routes, assigned, unborn, cache, graph, call>>

TypeOK ==
    /\ routes \in Table
    /\ assigned \in [Bus -> Id \union {None}]
    /\ unborn \subseteq Id
    /\ cache \in [Key -> Table \union {None}]
    /\ graph \in Table \union {None}
    /\ call \in [Client -> Call]

IdleCall ==
    [pc |-> "idle", op |-> "none", key |-> None, read |-> None, id |-> None, bus |-> None,
     number |-> None, seen |-> 0]

Init ==
    /\ routes = [i \in Id |-> None]
    /\ assigned = [b \in Bus |-> None]
    /\ unborn = Id
    /\ cache = [k \in Key |-> None]
    /\ graph = None
    /\ call = [c \in Client |-> IdleCall]

Idle(c) == call[c].pc = "idle"
Return(c) == call' = [call EXCEPT ![c] = IdleCall]

-----------------------------------------------------------------------------
(* Cached reads: findAll (k = All) and findById.                           *)

\* What a read of key k gets from a table.
Part(k, table) == IF k = All THEN table ELSE [i \in Id |-> IF i = k THEN table[i] ELSE None]

\* A miss.  (A hit changes nothing.)
Miss(c, k) ==
    /\ Idle(c) /\ cache[k] = None
    /\ call' = [call EXCEPT ![c] = [IdleCall EXCEPT !.pc = "query", !.key = k]]
    /\ UNCHANGED <<routes, assigned, unborn, cache, graph>>

\* The query.  A route that does not exist is an exception, which is not cached.
\* Its rows are mapped one by one; a commit among them is to the properties what
\* one right after them is, since either way the read was overtaken.
Query(c) ==
    /\ call[c].pc = "query"
    /\ IF call[c].key \in Id /\ routes[call[c].key] = None
       THEN Return(c)
       ELSE call' = [call EXCEPT ![c].pc = "put", ![c].read = Part(call[c].key, routes)]
    /\ UNCHANGED <<routes, assigned, unborn, cache, graph>>

PutCache(c) ==
    /\ call[c].pc = "put"
    /\ cache' = [cache EXCEPT ![call[c].key] = call[c].read]
    /\ Return(c)
    /\ UNCHANGED <<routes, assigned, unborn, graph>>

\* Ten minutes after it was put.
Expire(k) ==
    /\ cache[k] # None
    /\ cache' = [cache EXCEPT ![k] = None]
    /\ UNCHANGED <<routes, assigned, unborn, graph, call>>

-----------------------------------------------------------------------------
(* The planner: graph().                                                   *)

Building == \E c \in Client : call[c].pc = "store"

\* A query of the planner finds no graph and goes for the lock.
NoGraph(c) ==
    /\ Idle(c) /\ graph = None
    /\ call' = [call EXCEPT ![c] = [IdleCall EXCEPT !.pc = "lock"]]
    /\ UNCHANGED <<routes, assigned, unborn, cache, graph>>

\* With the lock it looks again, and reads the routes if there still is none.  (The
\* road of each is loaded when it is asked for: as in Query, the first read stands
\* for all of them.)
Build(c) ==
    /\ call[c].pc = "lock" /\ ~ Building
    /\ IF graph = None
       THEN call' = [call EXCEPT ![c].pc = "store", ![c].read = routes]
       ELSE Return(c)
    /\ UNCHANGED <<routes, assigned, unborn, cache, graph>>

StoreGraph(c) ==
    /\ call[c].pc = "store"
    /\ graph' = call[c].read
    /\ Return(c)
    /\ UNCHANGED <<routes, assigned, unborn, cache>>

-----------------------------------------------------------------------------
(* Writes of routes.                                                       *)

NumberFree(n, i) == \A j \in Id \ {i} : routes[j] # None => routes[j].number # n
BusesOf(i) == {b \in Bus : assigned[b] = i}

Write(c, op, i, n, v) ==
    call' = [call EXCEPT ![c] = [IdleCall EXCEPT
                !.pc = "save", !.op = op, !.id = i, !.number = n, !.seen = v]]

\* create: the number must be free; the insert takes the next id.
BeginCreate(c, i, n) ==
    /\ Idle(c) /\ i \in unborn
    /\ NumberFree(n, i)
    /\ unborn' = unborn \ {i}
    /\ Write(c, "create", i, n, 0)
    /\ UNCHANGED <<routes, assigned, cache, graph>>

\* update: loads the route; no other route may have the number.
BeginUpdate(c, i, n) ==
    /\ Idle(c) /\ routes[i] # None /\ routes[i].version < MaxVersion
    /\ NumberFree(n, i)
    /\ Write(c, "update", i, n, routes[i].version)
    /\ UNCHANGED <<routes, assigned, unborn, cache, graph>>

\* delete: loads the route; no bus may be assigned to it.
BeginDelete(c, i) ==
    /\ Idle(c) /\ routes[i] # None
    /\ BusesOf(i) = {}
    /\ Write(c, "delete", i, None, routes[i].version)
    /\ UNCHANGED <<routes, assigned, unborn, cache, graph>>

\* (mutant: no unique constraint in the schema, the service's check alone)
UnconstrainedNumber(n, i) == n \in Number

\* The unique constraint on route_number.
UniqueNumber(n, i) == NumberFree(n, i)

\* A number that an uncommitted insert holds: other statements wait for it.
Inserted(n) ==
    \E d \in Client : call[d].pc = "commit" /\ call[d].op = "create" /\ call[d].number = n

\* save sends the insert of a new route.
Saves(c) ==
    /\ call[c].pc = "save"
    /\ call[c].op = "create" =>
         UniqueNumber(call[c].number, call[c].id) /\ ~ Inserted(call[c].number)

\* (mutant: delete does not publish the event)
PublishUnlessDelete(c) ==
    /\ Saves(c)
    /\ graph' = IF call[c].op = "delete" THEN graph ELSE None
    /\ call' = [call EXCEPT ![c].pc = "commit"]
    /\ UNCHANGED <<routes, assigned, unborn, cache>>

\* publishEvent, inside the transaction: onRoutesChanged runs at once.
Publish(c) ==
    /\ Saves(c)
    /\ graph' = None
    /\ call' = [call EXCEPT ![c].pc = "commit"]
    /\ UNCHANGED <<routes, assigned, unborn, cache>>

\* (mutant: the entity has no @Version)
UnversionedRow(i, v) == routes[i] # None

\* The statement of an update or a delete asks for the version that was loaded.
SameVersion(i, v) == routes[i] # None /\ routes[i].version = v

\* (mutant: no foreign key in the schema, the services' checks alone)
UnconstrainedBuses(i) == i \in Id

\* The foreign key of buses.route_id.
NoBusRefersTo(i) == BusesOf(i) = {}

\* The statement of an update waits for an insert that holds its number.
Waits(c) == call[c].op = "update" /\ Inserted(call[c].number)

\* What the database lets the transaction of c commit, if anything.
CanCommit(c) ==
    LET r == call[c]
    IN  /\ r.op \in {"create", "update"} => UniqueNumber(r.number, r.id)
        /\ r.op \in {"update", "delete"} => SameVersion(r.id, r.seen)
        /\ r.op = "delete" => NoBusRefersTo(r.id)

\* (mutant: a new row gets no version)
WrittenUnversioned(r) ==
    CASE r.op = "create" -> [number |-> r.number, version |-> None]
      [] r.op = "update" -> [number |-> r.number, version |-> r.seen + 1]
      [] OTHER           -> None

\* The row a write leaves.
Written(r) ==
    CASE r.op = "create" -> [number |-> r.number, version |-> 0]
      [] r.op = "update" -> [number |-> r.number, version |-> r.seen + 1]
      [] OTHER           -> None

Commit(c) ==
    /\ call[c].pc = "commit" /\ CanCommit(c) /\ ~ Waits(c)
    /\ routes' = [routes EXCEPT ![call[c].id] = Written(call[c])]
    /\ call' = [call EXCEPT ![c].pc = "evict"]
    /\ UNCHANGED <<assigned, unborn, cache, graph>>

\* 409, of the insert or of the commit; an exception evicts nothing.
WriteFails(c) ==
    /\ \/ /\ call[c].pc = "save" /\ call[c].op = "create"
          /\ ~ UniqueNumber(call[c].number, call[c].id)
       \/ call[c].pc = "commit" /\ ~ CanCommit(c) /\ ~ Waits(c)
    /\ Return(c)
    /\ UNCHANGED <<routes, assigned, unborn, cache, graph>>

\* (mutant: the eviction is by the id of the route)
EvictOne(c) ==
    /\ call[c].pc = "evict"
    /\ cache' = [cache EXCEPT ![call[c].id] = None]
    /\ Return(c)
    /\ UNCHANGED <<routes, assigned, unborn, graph>>

\* @CacheEvict(allEntries = true).
Evict(c) ==
    /\ call[c].pc = "evict"
    /\ cache' = [k \in Key |-> None]
    /\ Return(c)
    /\ UNCHANGED <<routes, assigned, unborn, graph>>

-----------------------------------------------------------------------------
(* Writes of buses.                                                        *)

\* create and update: getRoute finds the route ...
BeginAssign(c, b, i) ==
    /\ Idle(c) /\ routes[i] # None
    /\ call' = [call EXCEPT ![c] = [IdleCall EXCEPT !.pc = "assign", !.bus = b, !.id = i]]
    /\ UNCHANGED <<routes, assigned, unborn, cache, graph>>

\* ... and the foreign key is checked when the row is written.  A bus has no
\* version: the last writer wins.
Assign(c) ==
    /\ call[c].pc = "assign"
    /\ LET i == call[c].id
       IN assigned' = IF routes[i] # None THEN [assigned EXCEPT ![call[c].bus] = i] ELSE assigned
    /\ Return(c)
    /\ UNCHANGED <<routes, unborn, cache, graph>>

\* delete, of a bus no driver account is assigned to.
DeleteBus(c, b) ==
    /\ Idle(c) /\ assigned[b] # None
    /\ assigned' = [assigned EXCEPT ![b] = None]
    /\ UNCHANGED <<routes, unborn, cache, graph, call>>

-----------------------------------------------------------------------------

Reads(c) == (\E k \in Key : Miss(c, k)) \/ Query(c) \/ PutCache(c)

Plans(c) == NoGraph(c) \/ Build(c) \/ StoreGraph(c)

Writes(c) ==
    \/ \E i \in Id, n \in Number : BeginCreate(c, i, n) \/ BeginUpdate(c, i, n)
    \/ \E i \in Id : BeginDelete(c, i)
    \/ Publish(c) \/ Commit(c) \/ WriteFails(c) \/ Evict(c)

BusWrites(c) ==
    \/ \E b \in Bus, i \in Id : BeginAssign(c, b, i)
    \/ Assign(c)
    \/ \E b \in Bus : DeleteBus(c, b)

Next ==
    \/ \E c \in Client : Reads(c) \/ Plans(c) \/ Writes(c) \/ BusWrites(c)
    \/ \E k \in Key : Expire(k)

Spec == Init /\ [][Next]_vars

-----------------------------------------------------------------------------
(* Properties.                                                             *)

\* No two routes have the same number and no bus has lost its route, although
\* the services check both before another request commits.
\* (existsByRouteNumber, findByRouteNumber, countByRouteId, getRoute.)
NumbersAreUnique ==
    \A i, j \in Id :
        i # j /\ routes[i] # None /\ routes[j] # None => routes[i].number # routes[j].number

ReferencesIntact ==
    \A b \in Bus : assigned[b] # None => routes[assigned[b]] # None

\* Once every request is answered, the planner uses the committed routes or
\* will build from them: what the event promises to the next query.
NextQueryUsesCommittedRoutes ==
    (\A c \in Client : Idle(c)) => graph \in {None, routes}
=============================================================================
