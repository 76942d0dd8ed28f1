------------------------- MODULE RouteCatalogClaims -------------------------
(***************************************************************************)
(* What the copies of RouteCatalog promise, and what its writers do.       *)
(*                                                                         *)
(* A read that overlaps a write may leave an old copy behind.  Two history *)
(* variables record that it happened:                                      *)
(*   spoilt       the cache entries put from rows already replaced         *)
(*   graphSpoilt  the graph was built from rows already replaced, or       *)
(*                before a write that had dropped the last one committed   *)
(* and a third what a write is to replace:                                 *)
(*   loaded[c]    the row of c's route when its update or delete began     *)
(***************************************************************************)
EXTENDS RouteCatalog

VARIABLES spoilt, graphSpoilt, loaded

hvars == <<routes, assigned, unborn, cache, graph, call, spoilt, graphSpoilt, loaded>>

Puts(c, k) == PutCache(c) /\ call[c].key = k
Old(c) == call[c].read # Part(call[c].key, routes)

Observe ==
    /\ spoilt' = {k \in Key :
                    /\ cache'[k] # None
                    /\ \/ \E c \in Client : Puts(c, k) /\ Old(c)
                       \/ k \in spoilt /\ ~ \E c \in Client : Puts(c, k)}
    /\ graphSpoilt' =
         CASE graph' = None                    -> FALSE
           [] \E c \in Client : StoreGraph(c) ->
                \/ graph' # routes
                \/ \E d \in Client : call[d].pc = "commit"
           [] OTHER                            -> graphSpoilt
    /\ loaded' = [c \in Client |->
                    IF call'[c].op \in {"update", "delete"}
                    THEN IF Idle(c) THEN routes[call'[c].id] ELSE loaded[c]
                    ELSE None]

HInit ==
    /\ Init /\ spoilt = {} /\ graphSpoilt = FALSE /\ loaded = [c \in Client |-> None]

HSpec == HInit /\ [][Next /\ Observe]_hvars

HTypeOK ==
    /\ TypeOK
    /\ spoilt \subseteq Key
    /\ graphSpoilt \in BOOLEAN
    /\ loaded \in [Client -> Row \union {None}]

-----------------------------------------------------------------------------
(* Properties.                                                             *)

\* Between a commit and its eviction an entry may be old; at any other time
\* one is, only if the read that put it was overtaken by a write.
\* (@CacheEvict(allEntries = true) on create, update and delete.)
EvictionPending == \E c \in Client : call[c].pc = "evict"

CacheFollowsRoutes ==
    \A k \in Key :
        cache[k] # None /\ ~ EvictionPending /\ k \notin spoilt => cache[k] = Part(k, routes)

\* The planner's graph is that of the committed routes, unless a query that
\* overlapped a write has left it.  (Every write publishes the event.)
GraphFollowsRoutes == graph # None /\ ~ graphSpoilt => graph = routes

\* A write that succeeds replaces the row its transaction loaded: of two
\* concurrent updates of a route, the second to commit fails.  (@Version.)
NoUpdateIsLost ==
    [][\A c \in Client :
         Commit(c) /\ call[c].op \in {"update", "delete"} => routes[call[c].id] = loaded[c]]_hvars
=============================================================================
