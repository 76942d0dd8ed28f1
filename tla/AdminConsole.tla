---------------------------- MODULE AdminConsole ----------------------------
(***************************************************************************)
(* Route editing in the administration page (admin.js) against the         *)
(* catalogue: a client of RouteCatalog is a page, which loads the list,    *)
(* opens a form on a route of it, and saves or deletes.                    *)
(***************************************************************************)
EXTENDS RouteCatalog

VARIABLES
    list,       \* list[c]: the routes page c has loaded, or None
    form        \* form[c]: the route a form is open on, as the list had it

pvars == <<list, form>>
convars == <<routes, assigned, unborn, cache, graph, call, list, form>>

NoForm == [id |-> None, row |-> None]

ConsoleInit ==
    /\ Init
    /\ list = [c \in Client |-> None]
    /\ form = [c \in Client |-> NoForm]

\* loadAll: the list comes from the cache ...
LoadCached(c) ==
    /\ Idle(c) /\ cache[All] # None
    /\ list' = [list EXCEPT ![c] = cache[All]]
    /\ UNCHANGED <<vars, form>>

\* ... or from a read that fills it.
LoadList(c) ==
    /\ Miss(c, All) \/ Query(c) \/ PutCache(c)
    /\ list' = IF call[c].pc = "put" THEN [list EXCEPT ![c] = call[c].read] ELSE list
    /\ UNCHANGED form

\* openRouteModal, on a route of the list.
OpenRouteModal(c, i) ==
    /\ Idle(c) /\ form[c] = NoForm
    /\ list[c] # None /\ list[c][i] # None
    /\ form' = [form EXCEPT ![c] = [id |-> i, row |-> list[c][i]]]
    /\ UNCHANGED <<vars, list>>

\* saveRoute: the whole form is sent, without a version.  (A route that is gone
\* or a number that is taken is an error, and the form stays open.)
SaveRoute(c) ==
    /\ \/ form[c].id # None /\ \E n \in Number : BeginUpdate(c, form[c].id, n)
       \/ form[c].id = None /\ \E i \in Id, n \in Number : BeginCreate(c, i, n)
    /\ UNCHANGED pvars

\* confirmDelete and runConfirmedAction.
DeleteRoute(c) ==
    /\ \E i \in Id : list[c] # None /\ list[c][i] # None /\ BeginDelete(c, i)
    /\ UNCHANGED pvars

\* The server serves the write; its success closes the form.  The page then loads
\* the list: late, or in vain if that request fails, so it may or may not come before
\* the next form is opened.
ServerWrites(c) ==
    /\ Publish(c) \/ Commit(c) \/ WriteFails(c) \/ Evict(c)
    /\ form' = IF call[c].pc = "evict" THEN [form EXCEPT ![c] = NoForm] ELSE form
    /\ UNCHANGED list

ConsoleNext ==
    \/ \E c \in Client :
         \/ LoadCached(c) \/ LoadList(c) \/ (\E i \in Id : OpenRouteModal(c, i))
         \/ SaveRoute(c) \/ DeleteRoute(c) \/ ServerWrites(c)
    \/ (\E k \in Key : Expire(k)) /\ UNCHANGED pvars

ConsoleSpec == ConsoleInit /\ [][ConsoleNext]_convars

-----------------------------------------------------------------------------
(* Properties.                                                             *)

\* A form that is saved replaces the route as its administrator saw it: an edit
\* made by another one in the meantime is answered with a conflict.
\* (The version of Route, which no response or request carries.)
NoSilentOverwrite ==
    [][\A c \in Client :
         Commit(c) /\ call[c].op = "update" => routes[call[c].id] = form[c].row]_convars
=============================================================================
