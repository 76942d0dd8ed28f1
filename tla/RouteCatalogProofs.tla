------------------------- MODULE RouteCatalogProofs -------------------------
(* Theorems about RouteCatalog, for every value of its constants.          *)
EXTENDS RouteCatalogClaims, TLAPS

-----------------------------------------------------------------------------
(* Type correctness.                                                       *)

\* What the locals of a request hold at each point of it.
Writing(c) == call[c].pc \in {"save", "commit", "evict"}

CallOK ==
    \A c \in Client :
        /\ call[c].pc \in {"query", "put"} => call[c].key \in Key
        /\ call[c].pc \in {"put", "store"} => call[c].read \in Table
        /\ call[c].pc = "assign" => call[c].id \in Id /\ call[c].bus \in Bus
        /\ Writing(c) <=> call[c].op # "none"
        /\ Writing(c) => call[c].id \in Id
        /\ call[c].op \in {"create", "update"} => call[c].number \in Number

TypeInv == TypeOK /\ CallOK

LEMMA IdleCallIsCall == IdleCall \in Call
BY CatalogAssumption DEF IdleCall, Call

\* What is read of a table is a table.
LEMMA PartIsTable ==
    ASSUME NEW t \in Table, NEW k \in Key PROVE Part(k, t) \in Table
BY DEF Part, Table

\* A request begins or goes on: only its own locals change.
LEMMA CallStep ==
    ASSUME TypeInv, NEW c \in Client, NEW r \in Call,
           r.pc \in {"query", "put"} => r.key \in Key,
           r.pc \in {"put", "store"} => r.read \in Table,
           r.pc = "assign" => r.id \in Id /\ r.bus \in Bus,
           r.pc \in {"save", "commit", "evict"} <=> r.op # "none",
           r.op # "none" => r.id \in Id,
           r.op \in {"create", "update"} => r.number \in Number,
           call' = [call EXCEPT ![c] = r]
    PROVE  call' \in [Client -> Call] /\ CallOK'
BY DEF TypeInv, TypeOK, CallOK, Writing

LEMMA ReturnStep ==
    ASSUME TypeInv, NEW c \in Client, Return(c)
    PROVE  call' \in [Client -> Call] /\ CallOK'
BY IdleCallIsCall, CallStep DEF Return, IdleCall

LEMMA TypeInit == Init => TypeInv
BY IdleCallIsCall DEF Init, IdleCall, Table, TypeInv, TypeOK, CallOK, Writing

LEMMA TypeStep == TypeInv /\ [Next]_vars => TypeInv'
<1> SUFFICES ASSUME TypeInv, [Next]_vars PROVE TypeInv'
  OBVIOUS
<1> USE CatalogAssumption
<1>1. ASSUME NEW c \in Client, Reads(c) PROVE TypeInv'
  <2>1. ASSUME NEW k \in Key, Miss(c, k) PROVE TypeInv'
    <3> DEFINE r == [IdleCall EXCEPT !.pc = "query", !.key = k]
    <3>1. r \in Call /\ r.pc = "query" /\ r.key = k /\ r.op = "none"
      BY DEF IdleCall, Call
    <3>2. call' \in [Client -> Call] /\ CallOK'
      BY <2>1, <3>1, CallStep DEF Miss
    <3> QED
      BY <2>1, <3>2 DEF Miss, TypeInv, TypeOK
  <2>2. CASE Query(c)
    <3> DEFINE r == [call[c] EXCEPT !.pc = "put", !.read = Part(call[c].key, routes)]
    <3>1. CASE call[c].key \in Id /\ routes[call[c].key] = None
      BY <2>2, <3>1, ReturnStep DEF Query, TypeInv, TypeOK
    <3>2. CASE ~ (call[c].key \in Id /\ routes[call[c].key] = None)
      <4>1. call[c] \in Call /\ call[c].key \in Key /\ call[c].op = "none"
        BY <2>2 DEF Query, TypeInv, TypeOK, CallOK, Writing
      <4>2. Part(call[c].key, routes) \in Table
        BY <4>1, PartIsTable DEF TypeInv, TypeOK
      <4>3. r \in Call /\ r.pc = "put" /\ r.read \in Table /\ r.key \in Key /\ r.op = "none"
        BY <4>1, <4>2 DEF Call
      <4>4. call' = [call EXCEPT ![c] = r]
        BY <2>2, <3>2 DEF Query, TypeInv, TypeOK
      <4>5. call' \in [Client -> Call] /\ CallOK'
        BY <4>3, <4>4, CallStep
      <4> QED
        BY <2>2, <4>5 DEF Query, TypeInv, TypeOK
    <3> QED
      BY <3>1, <3>2
  <2>3. CASE PutCache(c)
    <3>1. cache' \in [Key -> Table \union {None}]
      BY <2>3 DEF PutCache, TypeInv, TypeOK, CallOK
    <3> QED
      BY <2>3, <3>1, ReturnStep DEF PutCache, TypeInv, TypeOK
  <2> QED
    BY <1>1, <2>1, <2>2, <2>3 DEF Reads
<1>2. ASSUME NEW c \in Client, Plans(c) PROVE TypeInv'
  <2>1. CASE NoGraph(c)
    <3> DEFINE r == [IdleCall EXCEPT !.pc = "lock"]
    <3>1. r \in Call /\ r.pc = "lock" /\ r.op = "none"
      BY DEF IdleCall, Call
    <3>2. call' \in [Client -> Call] /\ CallOK'
      BY <2>1, <3>1, CallStep DEF NoGraph
    <3> QED
      BY <2>1, <3>2 DEF NoGraph, TypeInv, TypeOK
  <2>2. CASE Build(c)
    <3> DEFINE r == [call[c] EXCEPT !.pc = "store", !.read = routes]
    <3>1. CASE graph # None
      BY <2>2, <3>1, ReturnStep DEF Build, TypeInv, TypeOK
    <3>2. CASE graph = None
      <4>1. call[c] \in Call /\ routes \in Table /\ call[c].op = "none"
        BY <2>2 DEF Build, TypeInv, TypeOK, CallOK, Writing
      <4>2. r \in Call /\ r.pc = "store" /\ r.read \in Table /\ r.op = "none"
        BY <4>1 DEF Call
      <4>3. call' = [call EXCEPT ![c] = r]
        BY <2>2, <3>2 DEF Build, TypeInv, TypeOK
      <4>4. call' \in [Client -> Call] /\ CallOK'
        BY <4>2, <4>3, CallStep
      <4> QED
        BY <2>2, <4>4 DEF Build, TypeInv, TypeOK
    <3> QED
      BY <3>1, <3>2
  <2>3. CASE StoreGraph(c)
    BY <2>3, ReturnStep DEF StoreGraph, TypeInv, TypeOK, CallOK
  <2> QED
    BY <1>2, <2>1, <2>2, <2>3 DEF Plans
<1>3. ASSUME NEW c \in Client, Writes(c) PROVE TypeInv'
  <2>1. ASSUME NEW op \in {"create", "update", "delete"}, NEW i \in Id,
               NEW n \in Number \union {None}, op # "delete" => n \in Number,
               NEW v \in Nat, Write(c, op, i, n, v)
        PROVE  call' \in [Client -> Call] /\ CallOK'
    <3> DEFINE r == [IdleCall EXCEPT
                       !.pc = "save", !.op = op, !.id = i, !.number = n, !.seen = v]
    <3>1. r \in Call /\ r.pc = "save" /\ r.op = op /\ r.id = i /\ r.number = n
      BY <2>1 DEF IdleCall, Call
    <3> QED
      BY <2>1, <3>1, CallStep DEF Write
  <2>2. ASSUME NEW i \in Id, NEW n \in Number, BeginCreate(c, i, n) PROVE TypeInv'
    <3>1. call' \in [Client -> Call] /\ CallOK'
      BY <2>1, <2>2 DEF BeginCreate
    <3> QED
      BY <2>2, <3>1 DEF BeginCreate, TypeInv, TypeOK
  <2>3. ASSUME NEW i \in Id, NEW n \in Number, BeginUpdate(c, i, n) PROVE TypeInv'
    <3>1. routes[i].version \in Nat
      BY <2>3 DEF BeginUpdate, TypeInv, TypeOK, Table, Row
    <3>2. call' \in [Client -> Call] /\ CallOK'
      BY <2>1, <2>3, <3>1 DEF BeginUpdate
    <3> QED
      BY <2>3, <3>2 DEF BeginUpdate, TypeInv, TypeOK
  <2>4. ASSUME NEW i \in Id, BeginDelete(c, i) PROVE TypeInv'
    <3>1. routes[i].version \in Nat
      BY <2>4 DEF BeginDelete, TypeInv, TypeOK, Table, Row
    <3>2. call' \in [Client -> Call] /\ CallOK'
      BY <2>1, <2>4, <3>1 DEF BeginDelete
    <3> QED
      BY <2>4, <3>2 DEF BeginDelete, TypeInv, TypeOK
  <2>5. ASSUME NEW pc \in {"commit", "evict"}, Writing(c),
               call' = [call EXCEPT ![c].pc = pc]
        PROVE  call' \in [Client -> Call] /\ CallOK'
    <3> DEFINE r == [call[c] EXCEPT !.pc = pc]
    <3>1. /\ r \in Call /\ r.pc = pc /\ r.op = call[c].op /\ r.op # "none" /\ r.id \in Id
          /\ r.op \in {"create", "update"} => r.number \in Number
      BY <2>5 DEF Call, TypeInv, TypeOK, CallOK
    <3>2. call' = [call EXCEPT ![c] = r]
      BY <2>5 DEF TypeInv, TypeOK
    <3> QED
      BY <3>1, <3>2, CallStep
  <2>6. CASE Publish(c)
    <3>1. call' \in [Client -> Call] /\ CallOK'
      BY <2>5, <2>6 DEF Publish, Saves, Writing
    <3> QED
      BY <2>6, <3>1 DEF Publish, TypeInv, TypeOK
  <2>7. CASE Commit(c)
    <3>1. call' \in [Client -> Call] /\ CallOK'
      BY <2>5, <2>7 DEF Commit, Writing
    <3>2. call[c].op # "none" /\ call[c].id \in Id /\ call[c].seen \in Nat
      BY <2>7 DEF Commit, TypeInv, TypeOK, CallOK, Writing, Call
    <3>3. Written(call[c]) \in Row \union {None}
      BY <3>2 DEF Written, Row, TypeInv, CallOK
    <3>4. routes' \in Table
      BY <2>7, <3>2, <3>3 DEF Commit, Table, TypeInv, TypeOK
    <3> QED
      BY <2>7, <3>1, <3>4 DEF Commit, TypeInv, TypeOK
  <2>8. CASE WriteFails(c)
    BY <2>8, ReturnStep DEF WriteFails, TypeInv, TypeOK
  <2>9. CASE Evict(c)
    BY <2>9, ReturnStep DEF Evict, TypeInv, TypeOK
  <2> QED
    BY <1>3, <2>2, <2>3, <2>4, <2>6, <2>7, <2>8, <2>9 DEF Writes
<1>4. ASSUME NEW c \in Client, BusWrites(c) PROVE TypeInv'
  <2>1. ASSUME NEW b \in Bus, NEW i \in Id, BeginAssign(c, b, i) PROVE TypeInv'
    <3> DEFINE r == [IdleCall EXCEPT !.pc = "assign", !.bus = b, !.id = i]
    <3>1. r \in Call /\ r.pc = "assign" /\ r.op = "none" /\ r.bus = b /\ r.id = i
      BY DEF IdleCall, Call
    <3>2. call' \in [Client -> Call] /\ CallOK'
      BY <2>1, <3>1, CallStep DEF BeginAssign
    <3> QED
      BY <2>1, <3>2 DEF BeginAssign, TypeInv, TypeOK
  <2>2. CASE Assign(c)
    <3>1. assigned' \in [Bus -> Id \union {None}]
      BY <2>2 DEF Assign, TypeInv, TypeOK, CallOK
    <3> QED
      BY <2>2, <3>1, ReturnStep DEF Assign, TypeInv, TypeOK
  <2>3. ASSUME NEW b \in Bus, DeleteBus(c, b) PROVE TypeInv'
    BY <2>3 DEF DeleteBus, TypeInv, TypeOK, CallOK, Writing
  <2> QED
    BY <1>4, <2>1, <2>2, <2>3 DEF BusWrites
<1>5. ASSUME NEW k \in Key, Expire(k) PROVE TypeInv'
  BY <1>5 DEF Expire, TypeInv, TypeOK, CallOK, Writing
<1>6. CASE UNCHANGED vars
  BY <1>6 DEF vars, TypeInv, TypeOK, CallOK, Writing
<1> QED
  BY <1>1, <1>2, <1>3, <1>4, <1>5, <1>6 DEF Next

\* Every reachable state of the catalogue is well typed.
THEOREM CatalogTypeCorrect == Spec => []TypeOK
<1>1. TypeInv => TypeOK
  BY DEF TypeInv
<1> QED
  BY <1>1, TypeInit, TypeStep, PTL DEF Spec

-----------------------------------------------------------------------------
(* Integrity of the rows.                                                  *)

\* Only a commit changes the routes.
LEMMA OnlyCommitWrites ==
    ASSUME [Next]_vars, \A c \in Client : ~ Commit(c)
    PROVE  routes' = routes
BY DEF Next, vars, Reads, Miss, Query, PutCache, Expire, Plans, NoGraph, Build, StoreGraph,
       Writes, BeginCreate, BeginUpdate, BeginDelete, Publish, WriteFails, Evict,
       BusWrites, BeginAssign, Assign, DeleteBus

\* A commit writes one row, of the number the transaction has checked.
LEMMA CommitWrites ==
    ASSUME TypeInv, NEW c \in Client, Commit(c)
    PROVE  /\ call[c].id \in Id
           /\ \A j \in Id \ {call[c].id} : routes'[j] = routes[j]
           /\ routes'[call[c].id] = Written(call[c])
           /\ call[c].op = "delete" => Written(call[c]) = None
           /\ call[c].op # "delete" => /\ Written(call[c]) \in Row
                                       /\ Written(call[c]).number = call[c].number
                                       /\ UniqueNumber(call[c].number, call[c].id)
<1>1. call[c].id \in Id /\ call[c].seen \in Nat /\ call[c].op \in {"create", "update", "delete"}
  BY DEF Commit, TypeInv, TypeOK, CallOK, Writing, Call
<1>2. routes' = [routes EXCEPT ![call[c].id] = Written(call[c])] /\ CanCommit(c)
  BY DEF Commit
<1>3. call[c].op = "delete" => Written(call[c]) = None
  BY DEF Written
<1>4. ASSUME call[c].op # "delete"
      PROVE  /\ Written(call[c]) \in Row
             /\ Written(call[c]).number = call[c].number
             /\ UniqueNumber(call[c].number, call[c].id)
  <2>1. call[c].number \in Number
    BY <1>1, <1>4 DEF TypeInv, CallOK
  <2> QED
    BY <1>1, <1>2, <1>4, <2>1 DEF Written, Row, CanCommit
<1> QED
  BY <1>1, <1>2, <1>3, <1>4 DEF TypeInv, TypeOK, Table

LEMMA NumbersStep == TypeInv /\ NumbersAreUnique /\ [Next]_vars => NumbersAreUnique'
<1> SUFFICES ASSUME TypeInv, NumbersAreUnique, [Next]_vars PROVE NumbersAreUnique'
  OBVIOUS
<1>1. ASSUME NEW c \in Client, Commit(c) PROVE NumbersAreUnique'
  <2>1. SUFFICES ASSUME NEW i \in Id, NEW j \in Id, i # j, routes'[i] # None, routes'[j] # None
                 PROVE  routes'[i].number # routes'[j].number
    BY DEF NumbersAreUnique
  <2>2. CASE i # call[c].id /\ j # call[c].id
    BY <1>1, <2>1, <2>2, CommitWrites DEF NumbersAreUnique
  <2>3. CASE i = call[c].id \/ j = call[c].id
    <3>1. call[c].op # "delete"
      BY <1>1, <2>1, <2>3, CommitWrites
    <3> QED
      BY <1>1, <2>1, <2>3, <3>1, CommitWrites DEF UniqueNumber, NumberFree
  <2> QED
    BY <2>2, <2>3
<1>2. CASE \A c \in Client : ~ Commit(c)
  BY <1>2, OnlyCommitWrites DEF NumbersAreUnique
<1> QED
  BY <1>1, <1>2

\* The schema's unique constraint, checked at every commit, keeps the numbers
\* apart whatever the services' own checks have seen.
THEOREM NumbersStayUnique == Spec => []NumbersAreUnique
<1>1. Init => NumbersAreUnique
  BY DEF Init, NumbersAreUnique
<1> QED
  BY <1>1, TypeInit, TypeStep, NumbersStep, PTL DEF Spec

LEMMA ReferencesStep == TypeInv /\ ReferencesIntact /\ [Next]_vars => ReferencesIntact'
<1> SUFFICES ASSUME TypeInv, ReferencesIntact, [Next]_vars PROVE ReferencesIntact'
  OBVIOUS
<1> USE RowAssumption
<1>1. ASSUME NEW c \in Client, Commit(c) PROVE ReferencesIntact'
  <2>1. SUFFICES ASSUME NEW b \in Bus, assigned'[b] # None PROVE routes'[assigned'[b]] # None
    BY DEF ReferencesIntact
  <2>2. assigned' = assigned /\ assigned[b] \in Id /\ routes[assigned[b]] # None
    BY <1>1, <2>1 DEF Commit, TypeInv, TypeOK, ReferencesIntact
  <2>3. CASE assigned[b] # call[c].id
    BY <1>1, <2>2, <2>3, CommitWrites
  <2>4. CASE assigned[b] = call[c].id
    <3>1. call[c].op # "delete"
      BY <1>1, <2>4 DEF Commit, CanCommit, NoBusRefersTo, BusesOf
    <3> QED
      BY <1>1, <2>2, <2>4, <3>1, CommitWrites
  <2> QED
    BY <2>3, <2>4
<1>2. ASSUME NEW c \in Client, Assign(c) PROVE ReferencesIntact'
  BY <1>2 DEF Assign, TypeInv, TypeOK, CallOK, ReferencesIntact
<1>3. ASSUME NEW c \in Client, NEW b \in Bus, DeleteBus(c, b) PROVE ReferencesIntact'
  BY <1>3 DEF DeleteBus, TypeInv, TypeOK, ReferencesIntact
<1>4. CASE /\ \A c \in Client : ~ Commit(c) /\ ~ Assign(c)
           /\ \A c \in Client, b \in Bus : ~ DeleteBus(c, b)
  <2>1. assigned' = assigned
    BY <1>4
    DEF Next, vars, Reads, Miss, Query, PutCache, Expire, Plans, NoGraph, Build, StoreGraph,
        Writes, BeginCreate, BeginUpdate, BeginDelete, Publish, WriteFails, Evict,
        BusWrites, BeginAssign
  <2> QED
    BY <1>4, <2>1, OnlyCommitWrites DEF ReferencesIntact
<1> QED
  BY <1>1, <1>2, <1>3, <1>4

\* With the foreign key no interleaving of a delete and an assignment leaves a
\* bus on a route that is gone.
THEOREM ReferencesStayIntact == Spec => []ReferencesIntact
<1>1. Init => ReferencesIntact
  BY DEF Init, ReferencesIntact
<1> QED
  BY <1>1, TypeInit, TypeStep, ReferencesStep, PTL DEF Spec

-----------------------------------------------------------------------------
(* The copies.                                                             *)

LEMMA HSpecImplementsCatalog == HSpec => Spec
<1>1. HInit => Init
  BY DEF HInit
<1>2. [Next /\ Observe]_hvars => [Next]_vars
  BY DEF hvars, vars
<1> QED
  BY <1>1, <1>2, PTL DEF HSpec, Spec

\* The key of a put is the only one it changes.
LEMMA PutStep ==
    ASSUME TypeInv, NEW c \in Client, PutCache(c)
    PROVE  /\ call[c].key \in Key /\ cache'[call[c].key] = call[c].read
           /\ Puts(c, call[c].key)
           /\ \A k \in Key \ {call[c].key} : cache'[k] = cache[k]
           /\ routes' = routes
           /\ \A d \in Client : PutCache(d) => d = c
<1>1. call[c].key \in Key
  BY DEF PutCache, TypeInv, CallOK
<1>2. call'[c].pc = "idle" /\ \A d \in Client \ {c} : call'[d] = call[d]
  BY DEF PutCache, Return, IdleCall, TypeInv, TypeOK
<1>3. ASSUME NEW d \in Client, PutCache(d) PROVE d = c
  <2>1. call'[d].pc = "idle" /\ call[d].pc = "put"
    BY <1>3 DEF PutCache, Return, IdleCall, TypeInv, TypeOK
  <2> QED
    BY <1>2, <2>1
<1> QED
  BY <1>1, <1>3 DEF PutCache, Puts, TypeInv, TypeOK

LEMMA CacheStep ==
    TypeInv /\ CacheFollowsRoutes /\ [Next /\ Observe]_hvars => CacheFollowsRoutes'
<1> SUFFICES ASSUME TypeInv, CacheFollowsRoutes, [Next /\ Observe]_hvars
             PROVE  CacheFollowsRoutes'
  OBVIOUS
<1>1. SUFFICES ASSUME NEW k \in Key, cache'[k] # None, ~ EvictionPending', k \notin spoilt'
               PROVE  cache'[k] = Part(k, routes')
  BY DEF CacheFollowsRoutes, Part
<1>2. CASE UNCHANGED hvars
  <2>1. ~ EvictionPending
    BY <1>1, <1>2 DEF hvars, EvictionPending
  <2> QED
    BY <1>1, <1>2, <2>1 DEF hvars, CacheFollowsRoutes
<1>3. CASE Next /\ Observe
  <2>1. ASSUME NEW c \in Client, PutCache(c) PROVE cache'[k] = Part(k, routes')
    <3>1. CASE k = call[c].key
      <4>1. ~ Old(c)
        BY <1>1, <1>3, <2>1, <3>1, PutStep DEF Observe
      <4> QED
        BY <2>1, <3>1, <4>1, PutStep DEF Old
    <3>2. CASE k # call[c].key
      <4>1. \A d \in Client : ~ Puts(d, k)
        BY <2>1, <3>2, PutStep DEF Puts
      <4>2. k \notin spoilt
        BY <1>1, <1>3, <4>1 DEF Observe
      <4>3. ~ EvictionPending
        BY <1>1, <2>1 DEF PutCache, Return, EvictionPending, TypeInv, TypeOK
      <4> QED
        BY <1>1, <2>1, <3>2, <4>2, <4>3, PutStep DEF CacheFollowsRoutes
    <3> QED
      BY <3>1, <3>2
  <2>2. ASSUME NEW c \in Client, Evict(c) PROVE FALSE
    BY <1>1, <2>2 DEF Evict
  <2>3. ASSUME NEW c \in Client, Commit(c) PROVE FALSE
    BY <1>1, <2>3 DEF Commit, EvictionPending, TypeInv, TypeOK
  <2>4. CASE \A c \in Client : ~ PutCache(c) /\ ~ Evict(c) /\ ~ Commit(c)
    <3>1. routes' = routes
      BY <1>3, <2>4, OnlyCommitWrites
    <3>2. cache'[k] = cache[k]
      BY <1>1, <1>3, <2>4
      DEF Next, Reads, Miss, Query, Expire, Plans, NoGraph, Build, StoreGraph,
          Writes, BeginCreate, BeginUpdate, BeginDelete, Publish, WriteFails,
          BusWrites, BeginAssign, Assign, DeleteBus, TypeInv, TypeOK
    <3>3. k \notin spoilt
      BY <1>1, <1>3, <2>4 DEF Observe, Puts
    <3>4. ~ EvictionPending
      <4>1. ASSUME NEW c \in Client, call[c].pc = "evict" PROVE call'[c].pc = "evict"
        BY <1>3, <2>4, <4>1
        DEF Next, Reads, Miss, Query, Expire, Plans, NoGraph, Build, StoreGraph, Return, Idle,
            Writes, BeginCreate, BeginUpdate, BeginDelete, Write, Publish, Saves, WriteFails,
            BusWrites, BeginAssign, Assign, DeleteBus, TypeInv, TypeOK
      <4> QED
        BY <1>1, <4>1 DEF EvictionPending
    <3> QED
      BY <1>1, <3>1, <3>2, <3>3, <3>4 DEF CacheFollowsRoutes
  <2> QED
    BY <2>1, <2>2, <2>3, <2>4
<1> QED
  BY <1>2, <1>3

\* Outside an eviction that is due, only a read a write has overtaken leaves an
\* old entry in the cache.
THEOREM CacheIsCurrent == HSpec => []CacheFollowsRoutes
<1>1. HInit => CacheFollowsRoutes
  BY DEF HInit, Init, CacheFollowsRoutes
<1>2. Spec => []TypeInv
  BY TypeInit, TypeStep, PTL DEF Spec
<1> QED
  BY <1>1, <1>2, HSpecImplementsCatalog, CacheStep, PTL DEF HSpec

\* A graph that is not spoilt is current, and no write that has dropped the one
\* before it has still to commit.
GraphInv ==
    graph # None /\ ~ graphSpoilt =>
        graph = routes /\ \A c \in Client : call[c].pc # "commit"

LEMMA GraphStep == TypeInv /\ GraphInv /\ [Next /\ Observe]_hvars => GraphInv'
<1> SUFFICES ASSUME TypeInv, GraphInv, [Next /\ Observe]_hvars, graph' # None, ~ graphSpoilt'
             PROVE  graph' = routes' /\ \A c \in Client : call'[c].pc # "commit"
  BY DEF GraphInv
<1>1. CASE UNCHANGED hvars
  BY <1>1 DEF hvars, GraphInv
<1>2. CASE Next /\ Observe
  <2>1. ASSUME NEW c \in Client, StoreGraph(c)
        PROVE  graph' = routes' /\ \A d \in Client : call'[d].pc # "commit"
    <3>1. graph' = routes /\ \A d \in Client : call[d].pc # "commit"
      BY <1>2, <2>1 DEF Observe
    <3> QED
      BY <2>1, <3>1 DEF StoreGraph, Return, IdleCall, TypeInv, TypeOK
  <2>2. CASE \A c \in Client : ~ StoreGraph(c)
    <3>1. graphSpoilt' = graphSpoilt
      BY <1>2, <2>2 DEF Observe
    <3>2. \A c \in Client : ~ Publish(c)
      BY DEF Publish
    <3>3. graph' = graph
      BY <1>2, <2>2, <3>2
      DEF Next, Reads, Miss, Query, PutCache, Expire, Plans, NoGraph, Build,
          Writes, BeginCreate, BeginUpdate, BeginDelete, Commit, WriteFails, Evict,
          BusWrites, BeginAssign, Assign, DeleteBus
    <3>4. graph = routes /\ \A c \in Client : call[c].pc # "commit"
      BY <3>1, <3>3 DEF GraphInv
    <3>5. \A c \in Client : ~ Commit(c)
      BY <3>4 DEF Commit
    <3>6. \A c \in Client : call'[c].pc # "commit"
      <4>1. CASE \E k \in Key : Expire(k)
        BY <3>4, <4>1 DEF Expire
      <4>2. ASSUME NEW c \in Client, NEW r, r.pc # "commit", call' = [call EXCEPT ![c] = r]
            PROVE  \A d \in Client : call'[d].pc # "commit"
        BY <3>4, <4>2 DEF TypeInv, TypeOK
      <4>3. ASSUME NEW c \in Client, Reads(c) \/ Plans(c)
            PROVE  \A d \in Client : call'[d].pc # "commit"
        <5>1. ASSUME Return(c) PROVE \A d \in Client : call'[d].pc # "commit"
          BY <4>2, <5>1 DEF Return, IdleCall
        <5>2. ASSUME NEW k \in Key, Miss(c, k) PROVE \A d \in Client : call'[d].pc # "commit"
          BY <4>2, <5>2 DEF Miss, IdleCall
        <5>3. CASE Query(c)
          <6> DEFINE r == [call[c] EXCEPT !.pc = "put", !.read = Part(call[c].key, routes)]
          <6>1. CASE call' = [call EXCEPT ![c] = r]
            <7>1. r.pc # "commit"
              BY <5>3 DEF Query, TypeInv, TypeOK, Call
            <7> HIDE DEF r
            <7> QED
              BY <4>2, <6>1, <7>1
          <6>2. Return(c) \/ call' = [call EXCEPT ![c] = r]
            BY <5>3 DEF Query, TypeInv, TypeOK
          <6> QED
            BY <5>1, <6>1, <6>2
        <5>4. CASE NoGraph(c)
          BY <4>2, <5>4 DEF NoGraph, IdleCall
        <5>5. CASE Build(c)
          BY <3>4, <5>1, <5>5 DEF Build, TypeInv, TypeOK
        <5> QED
          BY <2>2, <4>3, <5>1, <5>2, <5>3, <5>4, <5>5 DEF Reads, Plans, PutCache
      <4>4. ASSUME NEW c \in Client, Writes(c)
            PROVE  \A d \in Client : call'[d].pc # "commit"
        <5>1. ASSUME NEW op, NEW i, NEW n, NEW v, Write(c, op, i, n, v)
              PROVE  \A d \in Client : call'[d].pc # "commit"
          BY <4>2, <5>1 DEF Write, IdleCall
        <5>2. CASE Return(c)
          BY <4>2, <5>2 DEF Return, IdleCall
        <5> QED
          BY <3>2, <3>5, <4>4, <5>1, <5>2
          DEF Writes, BeginCreate, BeginUpdate, BeginDelete, WriteFails, Evict
      <4>5. ASSUME NEW c \in Client, BusWrites(c)
            PROVE  \A d \in Client : call'[d].pc # "commit"
        <5>1. ASSUME NEW b \in Bus, NEW i \in Id, BeginAssign(c, b, i)
              PROVE  \A d \in Client : call'[d].pc # "commit"
          BY <4>2, <5>1 DEF BeginAssign, IdleCall
        <5>2. CASE Assign(c)
          BY <4>2, <5>2 DEF Assign, Return, IdleCall
        <5> QED
          BY <3>4, <4>5, <5>1, <5>2 DEF BusWrites, DeleteBus
      <4> QED
        BY <1>2, <4>1, <4>3, <4>4, <4>5 DEF Next
    <3> QED
      BY <1>2, <3>3, <3>4, <3>5, <3>6, OnlyCommitWrites
  <2> QED
    BY <2>1, <2>2
<1> QED
  BY <1>1, <1>2

\* Only a planner's query that overlaps a write leaves it an old graph.
THEOREM GraphIsCurrent == HSpec => []GraphFollowsRoutes
<1>1. HInit => GraphInv
  BY DEF HInit, Init, GraphInv
<1>2. GraphInv => GraphFollowsRoutes
  BY DEF GraphInv, GraphFollowsRoutes
<1>3. Spec => []TypeInv
  BY TypeInit, TypeStep, PTL DEF Spec
<1> QED
  BY <1>1, <1>2, <1>3, HSpecImplementsCatalog, GraphStep, PTL DEF HSpec

-----------------------------------------------------------------------------
(* Concurrent updates.                                                     *)

Replacing(c) == call[c].op \in {"update", "delete"}
Creating(c) == call[c].op = "create" /\ call[c].pc \in {"save", "commit"}

\* As long as a route has the version v a write has loaded, it is the row l it
\* has loaded: versions only grow, and an id is used for one creation.
Fits(row, l, v) ==
    /\ l \in Row /\ l.version = v
    /\ row # None => row.version >= v /\ (row.version = v => row = l)

LoadInv ==
    /\ \A c \in Client : Replacing(c) => Fits(routes[call[c].id], loaded[c], call[c].seen)
    /\ \A c \in Client : call[c].op # "none" => call[c].id \notin unborn
    /\ \A i \in unborn : routes[i] = None
    /\ \A c \in Client : Creating(c) =>
         /\ routes[call[c].id] = None
         /\ \A d \in Client \ {c} : call[d].op # "none" => call[d].id # call[c].id

\* A client that goes on with what it does, or returns.
GoesOn(c) ==
    call'[c].op # "none" =>
        /\ call'[c].op = call[c].op /\ call'[c].id = call[c].id /\ call'[c].seen = call[c].seen
        /\ call'[c].pc \in {"save", "commit"} => call[c].pc \in {"save", "commit"}

\* What a write has loaded is remembered until it returns.
LEMMA LoadedKept ==
    ASSUME TypeInv, Observe, NEW c \in Client, GoesOn(c), Replacing(c)'
    PROVE  Replacing(c) /\ loaded'[c] = loaded[c]
BY DEF TypeInv, CallOK, Writing, Observe, GoesOn, Replacing, Idle

\* Clients that go on, while the table is not written, keep the invariant.
LEMMA QuietStep ==
    ASSUME TypeInv, LoadInv, Observe, UNCHANGED <<routes, unborn>>,
           \A c \in Client : GoesOn(c)
    PROVE  LoadInv'
<1>1. \A c \in Client : Replacing(c)' => Replacing(c) /\ loaded'[c] = loaded[c]
  BY LoadedKept
<1>2. \A c \in Client : Creating(c)' => Creating(c) /\ call'[c].id = call[c].id
  BY DEF Creating, GoesOn
<1> QED
  BY <1>1, <1>2 DEF LoadInv, GoesOn, Replacing

\* The beginning of a write.
LEMMA BeginStep ==
    ASSUME TypeInv, LoadInv, Observe, NEW c \in Client, Idle(c), routes' = routes,
           NEW op \in {"create", "update", "delete"}, NEW i \in Id, NEW n, NEW v \in Nat,
           Write(c, op, i, n, v), unborn' \subseteq unborn, i \notin unborn',
           op = "create" => i \in unborn,
           op # "create" => routes[i] # None /\ v = routes[i].version
    PROVE  LoadInv'
<1>1. /\ call'[c].pc = "save" /\ call'[c].op = op /\ call'[c].id = i /\ call'[c].seen = v
      /\ \A d \in Client \ {c} : call'[d] = call[d]
  BY DEF Write, IdleCall, TypeInv, TypeOK
<1>2. \A d \in Client \ {c} : Replacing(d)' => Replacing(d) /\ loaded'[d] = loaded[d]
  BY <1>1, LoadedKept DEF GoesOn
<1>3. op # "create" => loaded'[c] = routes[i] /\ routes[i] \in Row
  BY <1>1 DEF Observe, TypeInv, TypeOK, Table
<1>4. \A d \in Client : Replacing(d)' => Fits(routes[call'[d].id], loaded'[d], call'[d].seen)
  <2>1. ASSUME Replacing(c)'
        PROVE  /\ loaded'[c] = routes[i] /\ routes[i] \in Row
               /\ call'[c].seen = routes[i].version /\ call'[c].id = i
    BY <1>1, <1>3, <2>1 DEF Replacing
  <2> QED
    BY <1>1, <1>2, <2>1 DEF LoadInv, Fits, Row
<1>5. \A d \in Client : call'[d].op # "none" => call'[d].id \notin unborn'
  BY <1>1 DEF LoadInv
<1>6. \A j \in unborn' : routes[j] = None
  BY DEF LoadInv
<1>7. \A d \in Client : Creating(d)' =>
        /\ routes[call'[d].id] = None
        /\ \A e \in Client \ {d} : call'[e].op # "none" => call'[e].id # call'[d].id
  BY <1>1 DEF LoadInv, Creating
<1> QED
  BY <1>4, <1>5, <1>6, <1>7 DEF LoadInv

\* A commit writes its own route: no other creation is of that route, and what
\* another write has loaded of it is outdated from now on.
LEMMA CommitStep ==
    ASSUME TypeInv, LoadInv, Observe, NEW c \in Client, Commit(c)
    PROVE  LoadInv'
<1>1. /\ call'[c] = [call[c] EXCEPT !.pc = "evict"] /\ call[c].pc = "commit"
      /\ \A d \in Client \ {c} : call'[d] = call[d]
      /\ unborn' = unborn /\ call[c].op # "none"
  BY DEF Commit, TypeInv, TypeOK, CallOK, Writing
<1>2. \A d \in Client : /\ call'[d].op = call[d].op /\ call'[d].id = call[d].id
                       /\ call'[d].seen = call[d].seen
  BY <1>1 DEF TypeInv, TypeOK, Call
<1>3. \A d \in Client : Replacing(d)' => Replacing(d) /\ loaded'[d] = loaded[d]
  <2>1. \A d \in Client : GoesOn(d)
    BY <1>1, <1>2 DEF GoesOn, TypeInv, TypeOK, Call
  <2> QED
    BY <2>1, LoadedKept
<1>4. \A d \in Client : Creating(d)' => Creating(d) /\ d # c
  BY <1>1, <1>2 DEF Creating, TypeInv, TypeOK, Call
<1>5. ASSUME NEW d \in Client, Replacing(d), call[d].id = call[c].id, Written(call[c]) # None
      PROVE  Written(call[c]).version > call[d].seen
  <2>1. call[c].op = "update"
    BY <1>1, <1>5, CommitWrites DEF LoadInv, Creating, Replacing, TypeInv, TypeOK, Call
  <2>2. routes[call[c].id] # None /\ routes[call[c].id].version = call[c].seen
    BY <2>1 DEF Commit, CanCommit, SameVersion
  <2>3. Written(call[c]).version = call[c].seen + 1
    BY <2>1 DEF Written
  <2>4. call[c].seen >= call[d].seen
    BY <1>5, <2>2 DEF LoadInv, Fits
  <2>5. call[c].seen \in Nat /\ call[d].seen \in Nat
    BY DEF TypeInv, TypeOK, Call
  <2> QED
    BY <2>3, <2>4, <2>5
<1>6. \A d \in Client : Replacing(d)' => Fits(routes'[call'[d].id], loaded'[d], call'[d].seen)
  <2> SUFFICES ASSUME NEW d \in Client, Replacing(d)'
               PROVE  Fits(routes'[call[d].id], loaded[d], call[d].seen)
    BY <1>2, <1>3
  <2>1. Replacing(d) /\ call[d].id \in Id /\ call[d].seen \in Nat
    BY <1>3 DEF Replacing, TypeInv, TypeOK, CallOK, Writing, Call
  <2>2. CASE call[d].id # call[c].id
    BY <2>1, <2>2, CommitWrites DEF LoadInv
  <2>3. CASE call[d].id = call[c].id
    <3>1. routes'[call[d].id] = Written(call[c])
      BY <2>3, CommitWrites
    <3>2. Written(call[c]) # None =>
            Written(call[c]).version > call[d].seen /\ Written(call[c]).version \in Nat
      BY <1>5, <2>1, <2>3, CommitWrites DEF Row
    <3> QED
      BY <2>1, <3>1, <3>2 DEF LoadInv, Fits
  <2> QED
    BY <2>2, <2>3
<1>7. \A d \in Client : call'[d].op # "none" => call'[d].id \notin unborn'
  BY <1>1, <1>2 DEF LoadInv
<1>8. \A i \in unborn' : routes'[i] = None
  BY <1>1, CommitWrites DEF LoadInv, TypeInv, TypeOK
<1>9. \A d \in Client : Creating(d)' =>
        /\ routes'[call'[d].id] = None
        /\ \A e \in Client \ {d} : call'[e].op # "none" => call'[e].id # call'[d].id
  <2> SUFFICES ASSUME NEW d \in Client, Creating(d)'
               PROVE  /\ routes'[call[d].id] = None
                      /\ \A e \in Client \ {d} : call[e].op # "none" => call[e].id # call[d].id
    BY <1>2
  <2>1. Creating(d) /\ d # c /\ call[d].id \in Id
    BY <1>4 DEF Creating, TypeInv, CallOK, Writing
  <2>2. call[d].id # call[c].id
    BY <1>1, <2>1 DEF LoadInv
  <2> QED
    BY <2>1, <2>2, CommitWrites DEF LoadInv
<1> QED
  BY <1>6, <1>7, <1>8, <1>9 DEF LoadInv

LEMMA LoadStep == TypeInv /\ LoadInv /\ [Next /\ Observe]_hvars => LoadInv'
<1> SUFFICES ASSUME TypeInv, LoadInv, [Next /\ Observe]_hvars PROVE LoadInv'
  OBVIOUS
<1>1. CASE UNCHANGED hvars
  BY <1>1 DEF hvars, LoadInv, Replacing, Creating
<1>2. CASE Next /\ Observe
  <2> USE <1>2
  <2>1. ASSUME NEW c \in Client, Return(c), UNCHANGED <<routes, unborn>> PROVE LoadInv'
    <3>1. \A d \in Client : GoesOn(d)
      BY <2>1 DEF Return, IdleCall, GoesOn, TypeInv, TypeOK
    <3> QED
      BY <2>1, <3>1, QuietStep
  <2>2. ASSUME NEW c \in Client, NEW r, r.op = "none", call' = [call EXCEPT ![c] = r],
               UNCHANGED <<routes, unborn>>
        PROVE  LoadInv'
    <3>1. \A d \in Client : GoesOn(d)
      BY <2>2 DEF GoesOn, TypeInv, TypeOK
    <3> QED
      BY <2>2, <3>1, QuietStep
  <2>3. ASSUME UNCHANGED <<routes, unborn, call>> PROVE LoadInv'
    <3>1. \A d \in Client : GoesOn(d)
      BY <2>3 DEF GoesOn
    <3> QED
      BY <2>3, <3>1, QuietStep
  <2>4. ASSUME NEW c \in Client, Reads(c) PROVE LoadInv'
    <3>1. ASSUME NEW k \in Key, Miss(c, k) PROVE LoadInv'
      BY <2>2, <3>1 DEF Miss, IdleCall
    <3>2. CASE Query(c)
      <4> DEFINE r == [call[c] EXCEPT !.pc = "put", !.read = Part(call[c].key, routes)]
      <4>1. Return(c) \/ call' = [call EXCEPT ![c] = r]
        BY <3>2 DEF Query, TypeInv, TypeOK
      <4>2. r.op = "none" /\ UNCHANGED <<routes, unborn>>
        BY <3>2 DEF Query, TypeInv, TypeOK, CallOK, Writing, Call
      <4> HIDE DEF r
      <4> QED
        BY <2>1, <2>2, <4>1, <4>2
    <3>3. CASE PutCache(c)
      BY <2>1, <3>3 DEF PutCache
    <3> QED
      BY <2>4, <3>1, <3>2, <3>3 DEF Reads
  <2>5. ASSUME NEW c \in Client, Plans(c) PROVE LoadInv'
    <3>1. CASE NoGraph(c)
      BY <2>2, <3>1 DEF NoGraph, IdleCall
    <3>2. CASE Build(c)
      <4> DEFINE r == [call[c] EXCEPT !.pc = "store", !.read = routes]
      <4>1. Return(c) \/ call' = [call EXCEPT ![c] = r]
        BY <3>2 DEF Build, TypeInv, TypeOK
      <4>2. r.op = "none" /\ UNCHANGED <<routes, unborn>>
        BY <3>2 DEF Build, TypeInv, TypeOK, CallOK, Writing, Call
      <4> HIDE DEF r
      <4> QED
        BY <2>1, <2>2, <4>1, <4>2
    <3>3. CASE StoreGraph(c)
      BY <2>1, <3>3 DEF StoreGraph
    <3> QED
      BY <2>5, <3>1, <3>2, <3>3 DEF Plans
  <2>6. ASSUME NEW c \in Client, Writes(c) PROVE LoadInv'
    <3>1. ASSUME NEW i \in Id, NEW n \in Number, BeginCreate(c, i, n) PROVE LoadInv'
      BY <3>1, BeginStep DEF BeginCreate
    <3>2. ASSUME NEW i \in Id, NEW n \in Number, BeginUpdate(c, i, n) PROVE LoadInv'
      <4>1. routes[i].version \in Nat /\ i \notin unborn
        BY <3>2 DEF BeginUpdate, LoadInv, TypeInv, TypeOK, Table, Row
      <4> QED
        BY <3>2, <4>1, BeginStep DEF BeginUpdate
    <3>3. ASSUME NEW i \in Id, BeginDelete(c, i) PROVE LoadInv'
      <4>1. routes[i].version \in Nat /\ i \notin unborn
        BY <3>3 DEF BeginDelete, LoadInv, TypeInv, TypeOK, Table, Row
      <4> QED
        BY <3>3, <4>1, BeginStep DEF BeginDelete
    <3>4. CASE Publish(c)
      <4>1. \A d \in Client : GoesOn(d)
        BY <3>4 DEF Publish, Saves, GoesOn, TypeInv, TypeOK, Call
      <4> QED
        BY <3>4, <4>1, QuietStep DEF Publish
    <3>5. CASE Commit(c)
      BY <3>5, CommitStep
    <3>6. CASE WriteFails(c) \/ Evict(c)
      BY <2>1, <3>6 DEF WriteFails, Evict
    <3> QED
      BY <2>6, <3>1, <3>2, <3>3, <3>4, <3>5, <3>6 DEF Writes
  <2>7. ASSUME NEW c \in Client, BusWrites(c) PROVE LoadInv'
    <3>1. ASSUME NEW b \in Bus, NEW i \in Id, BeginAssign(c, b, i) PROVE LoadInv'
      BY <2>2, <3>1 DEF BeginAssign, IdleCall
    <3>2. CASE Assign(c)
      BY <2>1, <3>2 DEF Assign
    <3>3. ASSUME NEW b \in Bus, DeleteBus(c, b) PROVE LoadInv'
      BY <2>3, <3>3 DEF DeleteBus
    <3> QED
      BY <2>7, <3>1, <3>2, <3>3 DEF BusWrites
  <2>8. ASSUME NEW k \in Key, Expire(k) PROVE LoadInv'
    BY <2>3, <2>8 DEF Expire
  <2> QED
    BY <2>4, <2>5, <2>6, <2>7, <2>8 DEF Next
<1> QED
  BY <1>1, <1>2

\* Of concurrent writes of a route, one that did not load what the last one
\* wrote does not commit.
THEOREM NoUpdateLost == HSpec => NoUpdateIsLost
<1>1. HInit => LoadInv
  BY RowAssumption DEF HInit, Init, IdleCall, LoadInv, Replacing, Creating
<1>2. TypeInv /\ LoadInv =>
        \A c \in Client :
          Commit(c) /\ call[c].op \in {"update", "delete"} => routes[call[c].id] = loaded[c]
  BY DEF LoadInv, Fits, Replacing, Commit, CanCommit, SameVersion
<1>3. Spec => []TypeInv
  BY TypeInit, TypeStep, PTL DEF Spec
<1> QED
  BY <1>1, <1>2, <1>3, HSpecImplementsCatalog, LoadStep, PTL DEF HSpec, NoUpdateIsLost
-----------------------------------------------------------------------------
(* The history variables.                                                  *)

\* What a write has loaded is a row of the table it has read.
LEMMA HistoryTypeStep ==
    TypeInv /\ TypeInv' /\ HTypeOK /\ [Next /\ Observe]_hvars => HTypeOK'
<1> SUFFICES ASSUME TypeInv, TypeInv', HTypeOK, [Next /\ Observe]_hvars PROVE HTypeOK'
  OBVIOUS
<1>1. TypeOK'
  BY DEF TypeInv
<1>2. CASE Observe
  <2>1. spoilt' \subseteq Key
    BY <1>2 DEF Observe
  <2>2. graphSpoilt' \in BOOLEAN
    BY <1>2 DEF Observe, HTypeOK
  <2>3. ASSUME NEW c \in Client, call'[c].op \in {"update", "delete"}
        PROVE  routes[call'[c].id] \in Row \union {None}
    <3>1. call'[c].id \in Id
      BY <2>3 DEF TypeInv, CallOK, Writing
    <3> QED
      BY <3>1 DEF TypeInv, TypeOK, Table
  <2>4. loaded' \in [Client -> Row \union {None}]
    BY <1>2, <2>3 DEF Observe, HTypeOK
  <2> QED
    BY <1>1, <2>1, <2>2, <2>4 DEF HTypeOK
<1>3. CASE UNCHANGED hvars
  BY <1>1, <1>3 DEF hvars, HTypeOK
<1> QED
  BY <1>2, <1>3

\* Every reachable state of the catalogue and of its history is well typed:
\* what is said of the copies is said of keys, and of rows that were loaded.
THEOREM HistoryTypeCorrect == HSpec => []HTypeOK
<1>1. HInit => HTypeOK
  BY TypeInit DEF HInit, TypeInv, HTypeOK
<1>2. Spec => []TypeInv
  BY TypeInit, TypeStep, PTL DEF Spec
<1> QED
  BY <1>1, <1>2, HSpecImplementsCatalog, HistoryTypeStep, PTL DEF HSpec
=============================================================================
